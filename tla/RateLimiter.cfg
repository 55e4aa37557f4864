SPECIFICATION FairSpec
CONSTANTS
  Second = 4
  DefaultRate = 2
  DefaultPeriod = 4
  Rates = {0, 1, 3}
  Periods = {0, 1, 2, 4}
  Costs = {0, 1, 3}
  RoundsDown <- ExactPairs
  NaNCasts <- SomeNaNCasts
  MaxPeriod = 4
  MaxOwed = 13
INVARIANTS
  TokensWithinCapacity
  SpentWithinGrant
  PaysItsCost
  TwoBucketfulsPerPeriod
PROPERTIES
  RequestServed
