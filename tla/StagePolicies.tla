---------------------------- MODULE StagePolicies ----------------------------
(***************************************************************************)
(* What a stage promises the control plane and its applications: a table   *)
(* of policies.  Each accepted rule takes effect at most once and in one   *)
(* step, a limiter's settings aside, which may follow its creation; an     *)
(* enforcement rule tunes one policy, with the identifiers it names; and a *)
(* request is governed by the policy that the table has for it at one      *)
(* moment between its call and its return.                                 *)
(*                                                                         *)
(* The promise has one exception.  While a channel is being opened a       *)
(* request may pass as if its own channel did not exist.                   *)
(***************************************************************************)
CONSTANTS Rules, Rule, ChannelTokens, ObjectTokens, ChannelIds, ObjectIds,
          Threads, None

VARIABLES
  accepted,   \* rules the stage has been given
  applied,    \* rules that have taken effect
  channel,    \* identifier of the channel under each token
  policy,     \* per channel and object token
  opening,    \* a channel is being opened
  ready,
  call,       \* of each thread: "idle" or "pending"
  request,    \* the tokens of its call
  outcome     \* what became of its last call

vars == <<accepted, applied, channel, policy, opening, ready, call, request, outcome>>

NoPolicy == [id |-> None, type |-> "none", settings |-> "none"]
Policy == [id : ObjectIds, type : {"noop", "drl"},
           settings : {"default", "initial", "rule"}]

\* A governed call knows whose policy it was; the settings may change later.
Outcome(kind) == [kind |-> kind, id |-> None, type |-> "none"]
Governed(p) == [kind |-> "governed", id |-> p.id, type |-> p.type]

Requests == ChannelTokens \X ObjectTokens

\* Whatever channels and policies the stage is built with.
Init ==
  /\ accepted = {} /\ applied = {}
  /\ channel \in [ChannelTokens -> ChannelIds \cup {None}]
  /\ \A k, l \in ChannelTokens : channel[k] # None /\ channel[k] = channel[l] => k = l
  /\ policy \in [ChannelTokens -> [ObjectTokens -> Policy \cup {NoPolicy}]]
  /\ \A q \in Requests : policy[q[1]][q[2]] # NoPolicy => channel[q[1]] # None
  /\ opening = FALSE
  /\ ready = FALSE
  /\ call = [t \in Threads |-> "idle"]
  /\ request \in [Threads -> Requests]
  /\ outcome = [t \in Threads |-> Outcome("none")]

-----------------------------------------------------------------------------
(* The control plane.                                                      *)

Accept(r) ==
  /\ r \notin accepted
  /\ accepted' = accepted \cup {r}
  /\ UNCHANGED <<applied, channel, policy, opening, ready, call, request, outcome>>

StartOpening ==
  /\ ~opening
  /\ opening' = TRUE
  /\ UNCHANGED <<accepted, applied, channel, policy, ready, call, request, outcome>>

\* Neither the token nor the identifier is in use.
OpenChannel(r) ==
  /\ r \in accepted \ applied
  /\ Rule[r].operation = "create_channel"
  /\ opening
  /\ channel[Rule[r].token] = None
  /\ \A k \in ChannelTokens : channel[k] # Rule[r].channel_id
  /\ channel' = [channel EXCEPT ![Rule[r].token] = Rule[r].channel_id]
  /\ applied' = applied \cup {r}
  /\ opening' = FALSE
  /\ UNCHANGED <<accepted, policy, ready, call, request, outcome>>

\* The rule's channel exists and has no policy under the rule's token.
AddPolicy(r) ==
  /\ r \in accepted \ applied
  /\ Rule[r].operation = "create_object"
  /\ Rule[r].type # "other"
  /\ \E k \in ChannelTokens :
       /\ channel[k] = Rule[r].channel_id
       /\ policy[k][Rule[r].token] = NoPolicy
       /\ policy' = [policy EXCEPT ![k][Rule[r].token] =
            [id |-> Rule[r].object_id, type |-> Rule[r].type, settings |-> "default"]]
  /\ applied' = applied \cup {r}
  /\ UNCHANGED <<accepted, channel, opening, ready, call, request, outcome>>

\* The limiter an applied rule created gets the rule's settings.
Initialize(r) ==
  /\ r \in applied
  /\ Rule[r].operation = "create_object"
  /\ Rule[r].configured
  /\ \E k \in ChannelTokens :
       /\ channel[k] = Rule[r].channel_id
       /\ policy[k][Rule[r].token] =
            [id |-> Rule[r].object_id, type |-> "drl", settings |-> "default"]
       /\ policy' = [policy EXCEPT ![k][Rule[r].token].settings = "initial"]
  /\ UNCHANGED <<accepted, applied, channel, opening, ready, call, request, outcome>>

\* A policy in the channel, with the identifier the enforcement rule names.
Tune(channel_id, object_id) ==
  /\ \E k \in ChannelTokens, x \in ObjectTokens :
       /\ channel[k] = channel_id
       /\ policy[k][x].id = object_id
       /\ policy[k][x].type = "drl"
       /\ policy' = [policy EXCEPT ![k][x].settings = "rule"]
  /\ UNCHANGED <<accepted, applied, channel, opening, ready, call, request, outcome>>

MarkReady ==
  /\ ready' = TRUE
  /\ UNCHANGED <<accepted, applied, channel, policy, opening, call, request, outcome>>

-----------------------------------------------------------------------------
(* Requests.                                                               *)

Call(t, q) ==
  /\ call[t] = "idle"
  /\ call' = [call EXCEPT ![t] = IF ready THEN "pending" ELSE "idle"]
  /\ request' = [request EXCEPT ![t] = q]
  /\ outcome' = [outcome EXCEPT ![t] = Outcome(IF ready THEN "none" ELSE "refused")]
  /\ UNCHANGED <<accepted, applied, channel, policy, opening, ready>>

Returns(t, result) ==
  /\ call[t] = "pending"
  /\ call' = [call EXCEPT ![t] = "idle"]
  /\ outcome' = [outcome EXCEPT ![t] = result]
  /\ UNCHANGED <<accepted, applied, channel, policy, opening, ready, request>>

\* What the table has for a request.
Governing(q) ==
  IF channel[q[1]] = None THEN Outcome("passed")
  ELSE IF policy[q[1]][q[2]] = NoPolicy THEN Outcome("no_match")
  ELSE Governed(policy[q[1]][q[2]])

Govern(t) == Returns(t, Governing(request[t]))

\* The exception.
Miss(t) == opening /\ Returns(t, Outcome("passed"))

-----------------------------------------------------------------------------
\* Whatever changes the table.
ChangePolicy ==
  /\ policy' # policy
  /\ \/ \E r \in Rules : AddPolicy(r) \/ Initialize(r)
     \/ \E c \in ChannelIds, o \in ObjectIds : Tune(c, o)

ControlStep ==
  \/ \E r \in Rules : Accept(r) \/ OpenChannel(r)
  \/ ChangePolicy \/ StartOpening \/ MarkReady

Next ==
  \/ ControlStep
  \/ \E t \in Threads : Govern(t) \/ Miss(t) \/ \E q \in Requests : Call(t, q)

Spec == Init /\ [][Next]_vars
=============================================================================
