SPECIFICATION Spec
CONSTANTS
  A = A
  B = B
  x = x
  y = y
  channel_rule = channel_rule
  same_channel = same_channel
  limiter = limiter
  same_object = same_object
  Rules = {channel_rule, same_channel, limiter, same_object}
  Rule <- SomeRules
  ChannelTokens = {A, B}
  ObjectTokens = {x, y}
  ChannelIds = {0, 1, 2}
  ObjectIds = {0, 1}
  Threads = {t1}
  None = None
  DefaultChannels <- OneChannel
  DefaultObjects <- OneObject
INVARIANTS
  LinkersMatchObjects
  EnforcedMeansInstalled
  InstalledOnce
  RoutedToItsObject
  AcknowledgedTraversalIsComplete
PROPERTIES
  ObjectsStay
  ImplementsPolicies
