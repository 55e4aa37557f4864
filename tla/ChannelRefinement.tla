-------------------------- MODULE ChannelRefinement --------------------------
(***************************************************************************)
(* ChannelQueues implements EnforcementService.  A call is enforced from   *)
(* the moment a worker has built its Result until the client takes it.     *)
(***************************************************************************)
EXTENDS ChannelQueues

HasResult(c) ==
  \/ \E w \in Workers : worker[w] = "publishing" /\ held[w] = c
  \/ \E i \in DOMAIN m_completion_queue : IsResultOf(m_completion_queue[i], c)

Phase(c) ==
  CASE client[c] = "idle" -> "idle"
    [] client[c] = "statistics" -> "answered"
    [] client[c] \in {"fast_path", "enqueue"} -> "pending"
    [] OTHER -> IF HasResult(c) THEN "enforced" ELSE "pending"

Service == INSTANCE EnforcementService WITH
  phase <- [c \in Clients |-> Phase(c)],
  request <- [c \in Clients |-> ticket[c].payload],
  answer <- [c \in Clients |-> result[c].content],
  enforced <- m_counter

\* Every behaviour of the queues, or of the fast path, is one in which each call
\* of channel_enforce is enforced exactly once and returns its own outcome.
ImplementsService == Service!Spec
=============================================================================
