--------------------------- MODULE StageRefinement ---------------------------
(***************************************************************************)
(* StageControl implements StagePolicies.  A rule has taken effect from    *)
(* the moment requests can meet its channel or object, before the control  *)
(* thread has linked, configured and marked it.  A call takes effect when  *)
(* its thread selects the object, or finds no channel.                     *)
(***************************************************************************)
EXTENDS StageControl

\* The rule in hand has taken effect and is not marked.
InEffect(r) ==
  r = rule /\ control \in {"link_channel", "link_object", "initialize", "mark"}

Applied == {r \in Rules : m_housekeeping_rules[r] = "enforced" \/ InEffect(r)}

NoPolicy == [id |-> None, type |-> "none", settings |-> "none"]

PolicyOf(objects, token) ==
  LET i == SelectEnforcementObject(objects, token)
  IN  IF i = 0 THEN NoPolicy
      ELSE [id |-> objects[i].id, type |-> objects[i].type,
            settings |-> objects[i].settings]

Outcome(kind) == [kind |-> kind, id |-> None, type |-> "none"]

OutcomeOf(t) ==
  IF returned[t] = "none" THEN Outcome("none")
  ELSE IF returned[t] = "error" THEN Outcome("refused")
  ELSE IF channel_ptr[t] = None THEN Outcome("passed")
  ELSE IF handler[t] = 0 THEN Outcome("no_match")
  ELSE LET o == m_enf_objects[channel_ptr[t]][handler[t]]
       IN  [kind |-> "governed", id |-> o.id, type |-> o.type]

Accepted == {r \in Rules : m_housekeeping_rules[r] # "absent"}
Table == [k \in ChannelTokens |->
            [x \in ObjectTokens |-> PolicyOf(m_enf_objects[k], x)]]
Opening == control = "emplace"
Calls == [t \in Threads |-> IF thread[t] = "idle" THEN "idle" ELSE "pending"]
Outcomes == [t \in Threads |-> OutcomeOf(t)]

Policies == INSTANCE StagePolicies WITH
  accepted <- Accepted, applied <- Applied, channel <- m_channels, policy <- Table,
  opening <- Opening, ready <- m_ready, call <- Calls, outcome <- Outcomes

\* Core, ChannelDefault and SubmissionQueue together are a table of policies:
\* whatever the order in which rules are executed and however requests run beside
\* them, each rule takes effect once and at one moment, an enforcement rule
\* changes the one limiter it names, and a request is governed by the policy in
\* place at one moment of its call; only during an emplacement may it miss.
ImplementsPolicies == Policies!Spec
=============================================================================
