---------------------- MODULE ChannelRefinementProofs ----------------------
(***************************************************************************)
(* channel_enforce keeps its promise, EnforcementService, in both modes    *)
(* and for any number of clients, workers and requests: under the          *)
(* inductive invariant of ChannelQueuesProofs every step of the queues is  *)
(* a step of the service or leaves it alone.                               *)
(***************************************************************************)
EXTENDS ChannelRefinement, ChannelQueuesProofs, FiniteSetTheorems

Phases == [c \in Clients |-> Phase(c)]
Requests == [c \in Clients |-> ticket[c].payload]
Answers == [c \in Clients |-> result[c].content]

\* What the service sees of the channel.
View == <<Phases, Requests, Answers, m_counter>>

\* A step of the service, and what the channel's statistics do in it: if they
\* are collected, they count returns.
ServiceStep ==
  \/ UNCHANGED <<View, m_statistics>>
  \/ /\ UNCHANGED m_statistics
     /\ \E c \in Clients :
          \/ \E p \in Payloads : Service!Call(c, p)
          \/ Service!Enforce(c) \/ Service!Answer(c) \/ Service!EnforceAndAnswer(c)
  \/ /\ m_statistics' = IF m_collect_channel_statistics THEN m_statistics + 1
                        ELSE m_statistics
     /\ \E c \in Clients : Service!Return(c)

-----------------------------------------------------------------------------
(* Who has a Result.                                                       *)

\* A Result in the completion queue with the identifier of a call in progress
\* is that call's answer, and its client waits for it, its pointer gone.
LEMMA ResultFinds ==
  ASSUME IInv, NEW c \in Clients, client[c] # "idle",
         NEW i \in DOMAIN m_completion_queue, IsResultOf(m_completion_queue[i], c)
  PROVE  /\ Awaiting(c)
         /\ m_completion_queue[i] = AnswerTo(c)
         /\ \A w \in Workers : Holds(w) => held[w] # c
<1>1. PICK d \in Clients :
        /\ Awaiting(d)
        /\ m_completion_queue[i] = AnswerTo(d)
        /\ \A w \in Workers : Holds(w) => held[w] # d
  BY DEF IInv, AtMostOnePlace, Completed
<1>2. c = d
  <2>1. client[d] # "idle" /\ ticket[c].id = ticket[d].id
    BY <1>1 DEF Awaiting, AnswerTo, IsResultOf
  <2> QED
    BY <2>1, SameTicket DEF IInv, AtMostOnePlace
<1> QED
  BY <1>1, <1>2

\* Only a waiting client has a Result.
LEMMA ResultAwaited ==
  ASSUME IInv, NEW c \in Clients, client[c] # "idle", HasResult(c)
  PROVE  Awaiting(c)
<1>1. CASE \E w \in Workers : worker[w] = "publishing" /\ held[w] = c
  BY <1>1 DEF IInv, AtMostOnePlace, HeldOnce, Holds
<1>2. CASE \E i \in DOMAIN m_completion_queue : IsResultOf(m_completion_queue[i], c)
  BY <1>2, ResultFinds
<1> QED
  BY <1>1, <1>2 DEF HasResult

\* The phase of a call, by where its client is.
LEMMA PhaseFacts ==
  ASSUME TypeOK, NEW c \in Clients
  PROVE  /\ client[c] = "idle" => Phase(c) = "idle"
         /\ client[c] = "statistics" => Phase(c) = "answered"
         /\ client[c] \in {"fast_path", "enqueue"} => Phase(c) = "pending"
         /\ Awaiting(c) /\ HasResult(c) => Phase(c) = "enforced"
         /\ Awaiting(c) /\ ~HasResult(c) => Phase(c) = "pending"
BY DEF TypeOK, ClientStates, Phase, Awaiting

\* A step that lets every client stand where it stood, moves no Result and
\* touches no counter is invisible to the service.
LEMMA Invisible ==
  ASSUME TypeOK, TypeOK',
         UNCHANGED <<ticket, result, m_counter, m_statistics, m_completion_queue>>,
         \A c \in Clients : \/ client'[c] = client[c]
                            \/ Awaiting(c) /\ Awaiting(c)',
         \A w \in Workers :
           /\ worker'[w] = "publishing" <=> worker[w] = "publishing"
           /\ worker[w] = "publishing" => held'[w] = held[w]
  PROVE  ServiceStep
<1>1. \A c \in Clients : HasResult(c)' <=> HasResult(c)
  BY DEF HasResult, IsResultOf
<1>2. ASSUME NEW c \in Clients PROVE Phase(c)' = Phase(c)
  <2>1. CASE client'[c] = client[c]
    BY <2>1, <1>1 DEF Phase
  <2>2. CASE Awaiting(c) /\ Awaiting(c)'
    BY <2>2, <1>1 DEF Phase, Awaiting
  <2> QED
    BY <2>1, <2>2
<1>3. Phases' = Phases
  BY <1>2 DEF Phases
<1>4. Requests' = Requests /\ Answers' = Answers
  BY DEF Requests, Answers
<1> QED
  BY <1>3, <1>4 DEF ServiceStep, View
\* The other clients' calls stay in their phases when c's client moves and no
\* Result of theirs appears or goes.
LEMMA OthersStay ==
  ASSUME NEW c \in Clients, NEW ph,
         \A d \in Clients \ {c} :
           /\ client'[d] = client[d]
           /\ Awaiting(d) => (HasResult(d)' <=> HasResult(d)),
         TypeOK, Phase(c)' = ph
  PROVE  Phases' = [Phases EXCEPT ![c] = ph]
<1>1. \A d \in Clients \ {c} : Phase(d)' = Phase(d)
  BY DEF Phase, Awaiting, TypeOK, ClientStates
<1> QED
  BY <1>1 DEF Phases

\* c's client alone gets an answer, and it is what it asked for.
LEMMA AnswersOne ==
  ASSUME NEW c \in Clients, result'[c].content = ticket[c].payload,
         \A d \in Clients \ {c} : result'[d] = result[d]
  PROVE  Answers' = [Answers EXCEPT ![c] = Requests[c]]
BY DEF Answers, Requests

-----------------------------------------------------------------------------
(* Every step.                                                             *)

\* No step of a client, a worker or the destructor shows the service anything
\* that it does not do.

LEMMA EveryStep ==
  ASSUME IInv, IInv', [Next]_vars
  PROVE  ServiceStep
<1> USE ChannelAssumption
<1> USE DEF ChannelAssumption, clientVars, workerVars, submissionVars,
            completionVars, modeVars, lifeVars, counterVars, historyVars
<1>t. TypeOK /\ TypeOK'
  BY DEF IInv, Base
<1>1. ASSUME NEW c \in Clients, NEW p \in Payloads, BuildTicket(c, p) PROVE ServiceStep
  <2>1. /\ client[c] = "idle" /\ client'[c] \in {"fast_path", "enqueue"}
        /\ Phase(c) = "idle" /\ Phase(c)' = "pending"
    BY <1>1, <1>t, PhaseFacts DEF TypeOK, BuildTicket, ToClient, Phase
  <2>2. \A d \in Clients \ {c} : client'[d] = client[d] /\ (HasResult(d)' <=> HasResult(d))
    BY <1>1, <1>t DEF TypeOK, BuildTicket, ToClient, HasResult, IsResultOf
  <2>3. Phases' = [Phases EXCEPT ![c] = "pending"]
    BY <1>t, <2>1, <2>2, OthersStay
  <2>4. Requests' = [Requests EXCEPT ![c] = p] /\ Answers' = [Answers EXCEPT ![c] = NoContent]
    BY <1>1, <1>t DEF TypeOK, BuildTicket, Requests, Answers
  <2>5. Service!Call(c, p)
    BY <1>1, <2>1, <2>3, <2>4 DEF BuildTicket, Service!Call, Phases, Requests, Answers
  <2> QED
    BY <1>1, <2>5 DEF ServiceStep, BuildTicket
<1>2. ASSUME NEW c \in Clients, EnqueueFastPath(c) PROVE ServiceStep
  <2>1. /\ client[c] = "fast_path" /\ client'[c] = "statistics"
        /\ Phase(c) = "pending" /\ Phase(c)' = "answered"
    BY <1>2, <1>t, PhaseFacts DEF TypeOK, EnqueueFastPath, ToClient, Phase
  <2>2. \A d \in Clients \ {c} : client'[d] = client[d] /\ (HasResult(d)' <=> HasResult(d))
    BY <1>2, <1>t DEF TypeOK, EnqueueFastPath, ToClient, HasResult, IsResultOf
  <2>3. Phases' = [Phases EXCEPT ![c] = "answered"]
    BY <1>t, <2>1, <2>2, OthersStay
  <2>4. Requests' = Requests /\ Answers' = [Answers EXCEPT ![c] = Requests[c]]
    <3>1. /\ result'[c].content = ticket[c].payload
          /\ \A d \in Clients \ {c} : result'[d] = result[d]
      BY <1>2, <1>t DEF TypeOK, EnqueueFastPath, Result
    <3> QED
      BY <1>2, <3>1, AnswersOne DEF EnqueueFastPath, Requests
  <2>5. Service!EnforceAndAnswer(c)
    BY <1>2, <2>1, <2>3, <2>4
    DEF EnqueueFastPath, Service!EnforceAndAnswer, Phases, Requests, Answers
  <2> QED
    BY <1>2, <2>5 DEF ServiceStep, EnqueueFastPath
<1>3. ASSUME NEW c \in Clients, Enqueue(c) PROVE ServiceStep
  <2>1. client[c] = "enqueue" /\ client'[c] = "dequeue" /\ Awaiting(c)' /\ ~Awaiting(c)
    BY <1>3, <1>t DEF TypeOK, Enqueue, ToClient, Awaiting
  <2>2. ~HasResult(c)
    BY <2>1, ResultAwaited
  <2>3. \A d \in Clients : HasResult(d)' <=> HasResult(d)
    BY <1>3, <1>t DEF TypeOK, Enqueue, NotifyWorkers, HasResult, IsResultOf
  <2>4. Phase(c) = "pending" /\ Phase(c)' = "pending"
    BY <1>t, <2>1, <2>2, <2>3, PhaseFacts DEF Phase
  <2>5. \A d \in Clients \ {c} : client'[d] = client[d]
    BY <1>3, <1>t DEF TypeOK, Enqueue, ToClient
  <2>6. Phases' = Phases
    BY <1>t, <2>3, <2>4, <2>5, OthersStay DEF Phases
  <2> QED
    BY <1>3, <2>6 DEF ServiceStep, View, Enqueue, Requests, Answers
<1>4. ASSUME NEW c \in Clients, AwaitResult(c) PROVE ServiceStep
  BY <1>4, <1>t, Invisible DEF TypeOK, AwaitResult, ToClient, Awaiting
<1>5. ASSUME NEW c \in Clients, LockResults(c) PROVE ServiceStep
  BY <1>5, <1>t, Invisible DEF TypeOK, LockResults, ToClient, Awaiting
<1>6. ASSUME NEW c \in Clients, TakeResult(c) PROVE ServiceStep
  <2>1. /\ client[c] = "peek" /\ client'[c] = "statistics" /\ Awaiting(c)
        /\ UNCHANGED <<ticket, worker, held, m_counter, m_statistics>>
        /\ \A d \in Clients \ {c} : client'[d] = client[d] /\ result'[d] = result[d]
    BY <1>6, <1>t DEF TypeOK, TakeResult, ToClient, Awaiting
  <2>2. m_completion_queue \in Seq(Result) /\ m_completion_queue # <<>>
    BY <1>t, <2>1 DEF TypeOK, IInv, Base, Locks
  <2>3. /\ 1 \in DOMAIN m_completion_queue
        /\ \A i \in DOMAIN m_completion_queue' :
             i + 1 \in DOMAIN m_completion_queue /\ m_completion_queue'[i] = m_completion_queue[i + 1]
        /\ \A i \in DOMAIN m_completion_queue :
             i # 1 => /\ i - 1 \in DOMAIN m_completion_queue'
                      /\ m_completion_queue'[i - 1] = m_completion_queue[i]
        /\ IsResultOf(m_completion_queue[1], c)
        /\ result'[c] = m_completion_queue[1]
    <3>1. m_completion_queue' = Tail(m_completion_queue)
      BY <1>6 DEF TakeResult
    <3>2. IsResultOf(m_completion_queue[1], c) /\ result'[c] = m_completion_queue[1]
      BY <1>6, <1>t, <2>2, TailFacts DEF TakeResult, IsMyTicket, IsResultOf, TypeOK
    <3> QED
      BY <3>1, <3>2, <2>2, TailFacts
  <2>4. m_completion_queue[1] = AnswerTo(c)
    BY <2>1, <2>3, ResultFinds DEF Awaiting
  <2>5. ASSUME NEW d \in Clients \ {c}, Awaiting(d)
        PROVE  HasResult(d)' <=> HasResult(d)
    <3>1. ~IsResultOf(m_completion_queue[1], d)
      <4>1. ticket[d].id # ticket[c].id
        BY <2>1, <2>5, SameTicket DEF Awaiting, IInv, AtMostOnePlace
      <4> QED
        BY <2>3, <4>1 DEF IsResultOf
    <3>2. \A r : IsResultOf(r, d)' <=> IsResultOf(r, d)
      BY <2>1 DEF IsResultOf
    <3>3. (\E i \in DOMAIN m_completion_queue : IsResultOf(m_completion_queue[i], d))'
            <=> \E i \in DOMAIN m_completion_queue : IsResultOf(m_completion_queue[i], d)
      BY <2>1, <2>3, <3>1 DEF IsResultOf
    <3> QED
      BY <2>1, <3>3 DEF HasResult
  <2>6. Phase(c) = "enforced" /\ Phase(c)' = "answered"
    <3>1. HasResult(c)
      BY <2>3 DEF HasResult
    <3> QED
      BY <1>t, <2>1, <3>1, PhaseFacts DEF Phase
  <2>7. Phases' = [Phases EXCEPT ![c] = "answered"]
    BY <1>t, <2>1, <2>5, <2>6, OthersStay
  <2>8. Requests' = Requests /\ Answers' = [Answers EXCEPT ![c] = Requests[c]]
    <3>1. result'[c].content = ticket[c].payload
      BY <2>3, <2>4 DEF AnswerTo
    <3> QED
      BY <2>1, <3>1, AnswersOne DEF Requests
  <2>9. Service!Answer(c)
    BY <2>1, <2>6, <2>7, <2>8 DEF Service!Answer, Phases, Requests, Answers
  <2> QED
    BY <2>1, <2>9 DEF ServiceStep
<1>7. ASSUME NEW c \in Clients, PeekAgain(c) PROVE ServiceStep
  BY <1>7, <1>t, Invisible DEF PeekAgain, vars
<1>8. ASSUME NEW c \in Clients, SpuriousWakeup(c) PROVE ServiceStep
  BY <1>8, <1>t, Invisible DEF TypeOK, SpuriousWakeup, ToClient, Awaiting
<1>9. ASSUME NEW c \in Clients, UpdateStatistics(c) PROVE ServiceStep
  <2>1. /\ client[c] = "statistics" /\ client'[c] = "idle"
        /\ Phase(c) = "answered" /\ Phase(c)' = "idle"
    BY <1>9, <1>t, PhaseFacts DEF TypeOK, UpdateStatistics, ToClient, Phase
  <2>2. \A d \in Clients \ {c} : client'[d] = client[d] /\ (HasResult(d)' <=> HasResult(d))
    BY <1>9, <1>t DEF TypeOK, UpdateStatistics, ToClient, HasResult, IsResultOf
  <2>3. Phases' = [Phases EXCEPT ![c] = "idle"]
    BY <1>t, <2>1, <2>2, OthersStay
  <2>4. Service!Return(c)
    BY <1>9, <2>1, <2>3 DEF UpdateStatistics, Service!Return, Phases
  <2> QED
    BY <1>9, <2>4 DEF ServiceStep, UpdateStatistics
<1>10. ASSUME NEW w \in Workers, CheckRunning(w) PROVE ServiceStep
  BY <1>10, <1>t, Invisible DEF TypeOK, CheckRunning, ToWorker
<1>11. ASSUME NEW w \in Workers, DequeueInterrupted(w) PROVE ServiceStep
  BY <1>11, <1>t, Invisible DEF TypeOK, DequeueInterrupted, Interrupted, ToWorker
<1>12. ASSUME NEW w \in Workers, DequeueEmpty(w) PROVE ServiceStep
  BY <1>12, <1>t, Invisible DEF TypeOK, DequeueEmpty, ToWorker
<1>13. ASSUME NEW w \in Workers, DequeueTicket(w) PROVE ServiceStep
  BY <1>13, <1>t, Invisible DEF TypeOK, DequeueTicket, ToWorker
<1>14. ASSUME NEW w \in Workers, Timeout(w) PROVE ServiceStep
  BY <1>14, <1>t, Invisible DEF TypeOK, Timeout, ToWorker
<1>15. ASSUME NEW w \in Workers, EnforceMechanism(w) PROVE ServiceStep
  <2>1. /\ worker[w] = "enforcing" /\ worker'[w] = "publishing" /\ Holds(w)
        /\ UNCHANGED <<client, ticket, result, held, m_completion_queue, m_statistics>>
        /\ \A v \in Workers \ {w} : worker'[v] = worker[v]
    BY <1>15, <1>t DEF TypeOK, EnforceMechanism, ToWorker, Holds
  <2>2. PICK c \in Clients : c = held[w]
    BY <2>1 DEF IInv, AtMostOnePlace, HeldOnce
  <2>3. Awaiting(c) /\ Awaiting(c)' /\ client[c] # "idle"
    BY <2>1, <2>2 DEF IInv, AtMostOnePlace, HeldOnce, Awaiting
  <2>4. ~HasResult(c)
    <3>1. \A v \in Workers : Holds(v) => v = w
      <4>1. m_queue_lock = w
        BY <2>1 DEF IInv, Base, Locks
      <4> QED
        BY <4>1, OneHolder DEF IInv
    <3>2. \A v \in Workers : worker[v] # "publishing"
      BY <2>1, <3>1 DEF Holds
    <3>3. \A i \in DOMAIN m_completion_queue : ~IsResultOf(m_completion_queue[i], c)
      BY <2>1, <2>2, <2>3, ResultFinds
    <3> QED
      BY <3>2, <3>3 DEF HasResult
  <2>5. HasResult(c)' /\ \A d \in Clients \ {c} : HasResult(d)' <=> HasResult(d)
    BY <2>1, <2>2 DEF HasResult, IsResultOf
  <2>6. Phase(c) = "pending" /\ Phase(c)' = "enforced"
    BY <1>t, <2>3, <2>4, <2>5, PhaseFacts DEF Phase, Awaiting
  <2>7. Phases' = [Phases EXCEPT ![c] = "enforced"]
    BY <1>t, <2>1, <2>5, <2>6, OthersStay
  <2>8. Service!Enforce(c)
    BY <1>15, <2>1, <2>6, <2>7 DEF EnforceMechanism, Service!Enforce, Phases, Requests, Answers
  <2> QED
    BY <2>1, <2>8 DEF ServiceStep
<1>16. ASSUME NEW w \in Workers, EnqueueInCompletionQueue(w) PROVE ServiceStep
  <2>1. /\ worker[w] = "publishing" /\ worker'[w] = "returning" /\ Holds(w)
        /\ UNCHANGED <<ticket, result, held, m_counter, m_statistics>>
        /\ \A v \in Workers \ {w} : worker'[v] = worker[v]
        /\ \A d \in Clients : client'[d] = client[d] \/ (Awaiting(d) /\ Awaiting(d)')
    BY <1>16, <1>t
    DEF TypeOK, EnqueueInCompletionQueue, ToWorker, Holds, NotifyClients, Awaiting
  <2>2. PICK c \in Clients : c = held[w]
    BY <2>1 DEF IInv, AtMostOnePlace, HeldOnce
  <2>3. Awaiting(c) /\ produced[w] = AnswerTo(c)
    BY <2>1, <2>2 DEF IInv, AtMostOnePlace, HeldOnce
  <2>4. /\ DOMAIN m_completion_queue' = DOMAIN m_completion_queue \cup {Len(m_completion_queue) + 1}
        /\ m_completion_queue'[Len(m_completion_queue) + 1] = AnswerTo(c)
        /\ \A i \in DOMAIN m_completion_queue : m_completion_queue'[i] = m_completion_queue[i]
    <3>1. /\ m_completion_queue' = Append(m_completion_queue, produced[w])
          /\ m_completion_queue \in Seq(Result) /\ produced[w] \in Result
      BY <1>16, <1>t DEF TypeOK, EnqueueInCompletionQueue
    <3> QED
      BY <2>3, <3>1, AppendFacts
  <2>5. \A r, d : IsResultOf(r, d)' <=> IsResultOf(r, d)
    BY <2>1 DEF IsResultOf
  <2>6. HasResult(c) /\ HasResult(c)'
    BY <2>1, <2>2, <2>4 DEF HasResult, IsResultOf, AnswerTo
  <2>7. ASSUME NEW d \in Clients \ {c}, Awaiting(d)
        PROVE  HasResult(d)' <=> HasResult(d)
    <3>1. ~IsResultOf(AnswerTo(c), d)
      <4>1. ticket[d].id # ticket[c].id
        BY <2>3, <2>7, SameTicket DEF Awaiting, IInv, AtMostOnePlace
      <4> QED
        BY <4>1 DEF IsResultOf, AnswerTo
    <3>2. (\E i \in DOMAIN m_completion_queue : IsResultOf(m_completion_queue[i], d))'
            <=> \E i \in DOMAIN m_completion_queue : IsResultOf(m_completion_queue[i], d)
      BY <2>1, <2>4, <3>1 DEF IsResultOf
    <3>3. (\E v \in Workers : worker[v] = "publishing" /\ held[v] = d)'
            <=> \E v \in Workers : worker[v] = "publishing" /\ held[v] = d
      BY <2>1, <2>2
    <3> QED
      BY <3>2, <3>3 DEF HasResult
  <2>8. ASSUME NEW d \in Clients PROVE Phase(d)' = Phase(d)
    <3>1. CASE Awaiting(d)
      <4>1. Awaiting(d)'
        BY <2>1, <3>1 DEF Awaiting
      <4>2. HasResult(d)' <=> HasResult(d)
        BY <2>6, <2>7, <3>1
      <4> QED
        BY <3>1, <4>1, <4>2 DEF Phase, Awaiting
    <3>2. CASE ~Awaiting(d)
      BY <1>t, <2>1, <3>2 DEF Phase, Awaiting, TypeOK, ClientStates
    <3> QED
      BY <3>1, <3>2
  <2> QED
    BY <2>1, <2>8 DEF ServiceStep, View, Phases, Requests, Answers
<1>17. ASSUME NEW w \in Workers, DequeueReturn(w) PROVE ServiceStep
  BY <1>17, <1>t, Invisible DEF TypeOK, DequeueReturn, ToWorker
<1>18. ASSUME StopWorkers PROVE ServiceStep
  BY <1>18, <1>t, Invisible DEF StopWorkers
<1>19. ASSUME JoinWorkers PROVE ServiceStep
  BY <1>19, <1>t, Invisible DEF JoinWorkers
<1>20. ASSUME UNCHANGED vars PROVE ServiceStep
  BY <1>20, <1>t, Invisible DEF vars
<1> QED
  BY <1>1, <1>2, <1>3, <1>4, <1>5, <1>6, <1>7, <1>8, <1>9, <1>10, <1>11, <1>12,
     <1>13, <1>14, <1>15, <1>16, <1>17, <1>18, <1>19, <1>20
  DEF Next, ClientStep, WorkerStep, Destroyed

-----------------------------------------------------------------------------
\* channel_enforce is EnforcementService: whatever the mode and however clients,
\* workers and the destructor interleave, each call's request reaches the
\* enforcement object exactly once, between the call and its return, and the
\* call returns what the object made of it.
THEOREM Refinement == Spec => ImplementsService
<1>1. Init => Service!Init
  <2> SUFFICES ASSUME Init PROVE Service!Init
    OBVIOUS
  <2>1. \A c \in Clients : Phase(c) = "idle"
    BY DEF Init, Phase
  <2> QED
    BY <2>1 DEF Init, Service!Init
<1>2. IInv /\ IInv' /\ [Next]_vars => [Service!Next]_(Service!vars)
  <2> SUFFICES ASSUME IInv, IInv', [Next]_vars
               PROVE  [Service!Next]_(Service!vars)
    OBVIOUS
  <2>1. ServiceStep
    BY EveryStep
  <2>2. CASE UNCHANGED View
    BY <2>2 DEF View, Phases, Requests, Answers, Service!vars
  <2>3. ASSUME NEW c \in Clients,
               \/ \E p \in Payloads : Service!Call(c, p)
               \/ Service!Enforce(c) \/ Service!Answer(c)
               \/ Service!EnforceAndAnswer(c) \/ Service!Return(c)
        PROVE  Service!Next
    BY <2>3 DEF Service!Next
  <2> QED
    BY <2>1, <2>2, <2>3 DEF ServiceStep
<1> QED
  BY <1>1, <1>2, Invariance, PTL DEF Spec, ImplementsService, Service!Spec

-----------------------------------------------------------------------------
(* The counters of the object and of the channel.                          *)

\* The calls that the object has counted and the statistics have not are those
\* the service has enforced and not returned.
LEMMA Uncounted ==
  ASSUME IInv
  PROVE  EnforcedUncounted = {c \in Clients : Phases[c] \in {"enforced", "answered"}}
<1>t. TypeOK
  BY DEF IInv, Base
<1> SUFFICES ASSUME NEW c \in Clients
             PROVE  c \in EnforcedUncounted <=> Phase(c) \in {"enforced", "answered"}
  BY DEF Phases, EnforcedUncounted
<1>1. c \in EnforcedUncounted <=> client[c] = "statistics" \/ (Awaiting(c) /\ HasResult(c))
  BY DEF EnforcedUncounted, HasResult, IInv, AtMostOnePlace, HeldOnce, Holds
<1>2. \/ client[c] \in {"idle", "fast_path", "enqueue"} /\ Phase(c) \in {"idle", "pending"}
      \/ client[c] = "statistics" /\ Phase(c) = "answered"
      \/ Awaiting(c) /\ HasResult(c) /\ Phase(c) = "enforced"
      \/ Awaiting(c) /\ ~HasResult(c) /\ Phase(c) = "pending"
  BY <1>t, PhaseFacts DEF TypeOK, ClientStates, Awaiting
<1> QED
  BY <1>1, <1>2 DEF Awaiting

\* The mode is fixed when the channel is constructed.
LEMMA ModeFixed ==
  ASSUME [Next]_vars
  PROVE  m_collect_channel_statistics' = m_collect_channel_statistics
BY DEF Next, ClientStep, WorkerStep, BuildTicket, EnqueueFastPath, Enqueue, AwaitResult,
       LockResults, TakeResult, PeekAgain, SpuriousWakeup, UpdateStatistics,
       CheckRunning, DequeueInterrupted, DequeueEmpty, DequeueTicket, Timeout,
       EnforceMechanism, EnqueueInCompletionQueue, DequeueReturn, StopWorkers,
       JoinWorkers, Destroyed, vars, lifeVars, modeVars

\* A step of the service moves both counters as it moves a call in or out of the
\* set of those enforced and not returned.
LEMMA CountersStep ==
  ASSUME IInv, IInv', [Next]_vars, CountersAgree
  PROVE  CountersAgree'
<1> DEFINE U == {c \in Clients : Phases[c] \in {"enforced", "answered"}}
<1>1. EnforcedUncounted = U /\ EnforcedUncounted' = U'
  <2>1. (EnforcedUncounted = U)'
    BY Uncounted, PTL
  <2> QED
    BY <2>1, Uncounted
<1>2. /\ IsFiniteSet(U) /\ Cardinality(U) \in Nat
      /\ m_counter \in Nat /\ m_statistics \in Nat
  <2>1. IsFiniteSet(U)
    BY ChannelAssumption, FS_Subset DEF ChannelAssumption
  <2> QED
    BY <2>1, FS_CardinalityType DEF IInv, Base, TypeOK
<1>m. m_collect_channel_statistics' = m_collect_channel_statistics
  BY ModeFixed
<1>4. ServiceStep
  BY EveryStep
<1>n. CASE ~m_collect_channel_statistics
  <2>1. m_statistics' = m_statistics
    BY <1>4, <1>n DEF ServiceStep
  <2> QED
    BY <1>m, <1>n, <2>1 DEF CountersAgree
<1> SUFFICES ASSUME m_collect_channel_statistics
             PROVE  m_counter' = m_statistics' + Cardinality(U')
  BY <1>1, <1>m, <1>n DEF CountersAgree
<1>3. m_counter = m_statistics + Cardinality(U)
  BY <1>1 DEF CountersAgree
<1>p. Phases = [c \in Clients |-> Phases[c]]
  BY DEF Phases
<1>5. CASE UNCHANGED <<View, m_statistics>>
  BY <1>5, <1>3 DEF View
<1>6. ASSUME NEW c \in Clients, NEW p \in Payloads, Service!Call(c, p), UNCHANGED m_statistics
      PROVE  m_counter' = m_statistics' + Cardinality(U')
  <2>1. Phases[c] = "idle" /\ Phases' = [Phases EXCEPT ![c] = "pending"] /\ m_counter' = m_counter
    BY <1>6 DEF Service!Call, Phases
  <2>2. U' = U
    BY <2>1, <1>p
  <2> QED
    BY <1>3, <1>6, <2>1, <2>2
<1>7. ASSUME NEW c \in Clients, Service!Enforce(c) \/ Service!EnforceAndAnswer(c),
             UNCHANGED m_statistics
      PROVE  m_counter' = m_statistics' + Cardinality(U')
  <2>1. /\ Phases[c] = "pending"
        /\ Phases' = [Phases EXCEPT ![c] = "enforced"] \/ Phases' = [Phases EXCEPT ![c] = "answered"]
        /\ m_counter' = m_counter + 1
    BY <1>7 DEF Service!Enforce, Service!EnforceAndAnswer, Phases
  <2>2. c \notin U /\ U' = U \cup {c}
    BY <2>1, <1>p
  <2>3. Cardinality(U') = Cardinality(U) + 1
    BY <1>2, <2>2, FS_AddElement
  <2> QED
    BY <1>2, <1>3, <1>7, <2>1, <2>3
<1>8. ASSUME NEW c \in Clients, Service!Answer(c), UNCHANGED m_statistics
      PROVE  m_counter' = m_statistics' + Cardinality(U')
  <2>1. Phases[c] = "enforced" /\ Phases' = [Phases EXCEPT ![c] = "answered"] /\ m_counter' = m_counter
    BY <1>8 DEF Service!Answer, Phases
  <2>2. U' = U
    BY <2>1, <1>p
  <2> QED
    BY <1>3, <1>8, <2>1, <2>2
<1>9. ASSUME NEW c \in Clients, Service!Return(c), m_statistics' = m_statistics + 1
      PROVE  m_counter' = m_statistics' + Cardinality(U')
  <2>1. Phases[c] = "answered" /\ Phases' = [Phases EXCEPT ![c] = "idle"] /\ m_counter' = m_counter
    BY <1>9 DEF Service!Return, Phases
  <2>2. c \in U /\ U' = U \ {c}
    BY <2>1, <1>p
  <2>3. Cardinality(U') = Cardinality(U) - 1
    BY <1>2, <2>2, FS_RemoveElement
  <2> QED
    BY <1>2, <1>3, <1>9, <2>1, <2>3
<1> QED
  BY <1>4, <1>5, <1>6, <1>7, <1>8, <1>9 DEF ServiceStep

\* Every request is enforced once and, if the channel collects statistics, recorded
\* once: the object's counter is ahead of the channel's statistics by the requests
\* whose client has yet to come back for them, for any finite number of clients.
THEOREM EachCountedOnce == Spec => []CountersAgree
<1>1. Init => CountersAgree
  <2> SUFFICES ASSUME Init PROVE CountersAgree
    OBVIOUS
  <2>1. EnforcedUncounted = {}
    BY DEF Init, EnforcedUncounted, Awaiting
  <2> QED
    BY <2>1, FS_EmptySet DEF Init, CountersAgree
<1>2. IInv /\ IInv' /\ [Next]_vars /\ CountersAgree => CountersAgree'
  BY CountersStep
<1> QED
  BY <1>1, <1>2, Invariance, PTL DEF Spec

=============================================================================
