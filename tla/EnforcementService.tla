------------------------- MODULE EnforcementService -------------------------
(***************************************************************************)
(* What ChannelDefault::channel_enforce promises its callers, whichever    *)
(* mode the channel runs in: a call is enforced by the enforcement object  *)
(* exactly once between its start and its return, and it returns what the  *)
(* object made of that call's own request.                                 *)
(***************************************************************************)
EXTENDS Naturals

CONSTANTS Clients, Payloads, NoContent

VARIABLES
  phase,     \* of each client's call
  request,   \* what the call asked for
  answer,    \* what the call got
  enforced   \* requests the enforcement object has seen

vars == <<phase, request, answer, enforced>>

Contents == Payloads \cup {NoContent}

\* The phases a call goes through, and what is known in each of them.
TypeOK ==
  /\ phase \in [Clients -> {"idle", "pending", "enforced", "answered"}]
  /\ request \in [Clients -> Contents]
  /\ answer \in [Clients -> Contents]
  /\ enforced \in Nat

Init ==
  /\ phase = [c \in Clients |-> "idle"]
  /\ request = [c \in Clients |-> NoContent]
  /\ answer = [c \in Clients |-> NoContent]
  /\ enforced = 0

\* channel_enforce is called.
Call(c, p) ==
  /\ phase[c] = "idle"
  /\ phase' = [phase EXCEPT ![c] = "pending"]
  /\ request' = [request EXCEPT ![c] = p]
  /\ answer' = [answer EXCEPT ![c] = NoContent]
  /\ UNCHANGED enforced

\* The enforcement object sees the request.
Enforce(c) ==
  /\ phase[c] = "pending"
  /\ phase' = [phase EXCEPT ![c] = "enforced"]
  /\ enforced' = enforced + 1
  /\ UNCHANGED <<request, answer>>

\* The caller gets the Result.
Answer(c) ==
  /\ phase[c] = "enforced"
  /\ phase' = [phase EXCEPT ![c] = "answered"]
  /\ answer' = [answer EXCEPT ![c] = request[c]]
  /\ UNCHANGED <<request, enforced>>

\* enqueue_fast_path: the caller enforces its own request and has the Result.
EnforceAndAnswer(c) ==
  /\ phase[c] = "pending"
  /\ phase' = [phase EXCEPT ![c] = "answered"]
  /\ enforced' = enforced + 1
  /\ answer' = [answer EXCEPT ![c] = request[c]]
  /\ UNCHANGED request

\* channel_enforce returns.
Return(c) ==
  /\ phase[c] = "answered"
  /\ phase' = [phase EXCEPT ![c] = "idle"]
  /\ UNCHANGED <<request, answer, enforced>>

Next ==
  \E c \in Clients :
    \/ \E p \in Payloads : Call(c, p)
    \/ Enforce(c) \/ Answer(c) \/ EnforceAndAnswer(c) \/ Return(c)

Spec == Init /\ [][Next]_vars
=============================================================================
