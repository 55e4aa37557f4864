--------------------------- MODULE MCStageControl ---------------------------
(* Rules, channels and requests for StageControl.                          *)
EXTENDS StageRefinement

CONSTANTS A, B,   \* channel tokens
          x, y,   \* object tokens
          channel_rule, same_channel, limiter, same_object

CreateChannelRule(id, token) ==
  [operation |-> "create_channel", channel_id |-> id, token |-> token]

CreateObjectRule(channel_id, id, token, type) ==
  [operation |-> "create_object", channel_id |-> channel_id, object_id |-> id,
   token |-> token, type |-> type, configured |-> TRUE]

\* A channel and one that clashes with it by token, a rate limiter for it and a
\* no-op object that clashes with the limiter by token.
SomeRules ==
  [r \in Rules |->
     CASE r = channel_rule -> CreateChannelRule(1, A)
       [] r = same_channel -> CreateChannelRule(2, A)
       [] r = limiter -> CreateObjectRule(1, 1, x, "drl")
       [] r = same_object -> CreateObjectRule(1, 0, x, "noop")]

\* A channel, and an object of a type that is neither noop nor drl for the
\* default channel.
UnsupportedRules ==
  [r \in Rules |->
     CASE r = channel_rule -> CreateChannelRule(1, A)
       [] r = limiter -> CreateObjectRule(0, 1, x, "other")]

OneChannel == << <<0, B>> >>

OneObject == <<[id |-> 0, token |-> x, type |-> "noop", settings |-> "default"]>>
NoObjects == <<>>
=============================================================================
