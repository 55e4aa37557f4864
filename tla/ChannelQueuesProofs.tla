------------------------ MODULE ChannelQueuesProofs ------------------------
(***************************************************************************)
(* The channel is safe for any number of clients, workers and requests.    *)
(*                                                                         *)
(* The properties of ChannelQueues are not inductive: that a Result at the *)
(* front of the completion queue is the caller's own needs the tickets of  *)
(* all calls in progress to be told apart, and to know of each pointer and *)
(* each Result whose it is; that completions follow submissions needs to   *)
(* know which submissions the queue and the worker's hand stand for.       *)
(***************************************************************************)
EXTENDS ChannelQueues, TLAPS

Holds(w) == worker[w] \in {"enforcing", "publishing"}
AnswerTo(c) == [ticket_id |-> ticket[c].id, content |-> ticket[c].payload]

\* m_queue_lock is held from the pop to the return of dequeue, m_lock from the
\* first look at the front to the take.
Locks ==
  /\ \A w \in Workers :
       worker[w] \in {"enforcing", "publishing", "returning"} <=> m_queue_lock = w
  /\ \A c \in Clients :
       client[c] = "peek" => m_lock = c /\ m_completion_queue # <<>>

\* Calls in progress have different identifiers, all of them handed out.
Tickets ==
  /\ \A c \in Clients : client[c] # "idle" => ticket[c].id < m_ticket_id
  /\ \A c, d \in Clients :
       (client[c] # "idle" /\ client[d] # "idle" /\ ticket[c].id = ticket[d].id) => c = d
  /\ \A c \in Clients : client[c] = "fast_path" => result[c].ticket_id = ticket[c].id

\* The submission queue has pointers of waiting clients, each once.
Queued ==
  /\ \A i \in DOMAIN m_queue : Awaiting(m_queue[i])
  /\ \A i, j \in DOMAIN m_queue : m_queue[i] = m_queue[j] => i = j

\* A worker's pointer is that of a waiting client and not in the queue any more;
\* the Result it made answers that client.
HeldOnce ==
  \A w \in Workers :
    Holds(w) =>
      /\ held[w] \in Clients
      /\ Awaiting(held[w])
      /\ \A i \in DOMAIN m_queue : m_queue[i] # held[w]
      /\ worker[w] = "publishing" => produced[w] = AnswerTo(held[w])

\* Every Result in the completion queue answers a waiting client whose pointer
\* nobody has any more, and no two answer the same.
Completed ==
  /\ \A i \in DOMAIN m_completion_queue :
       \E c \in Clients :
         /\ Awaiting(c)
         /\ m_completion_queue[i] = AnswerTo(c)
         /\ \A j \in DOMAIN m_queue : m_queue[j] # c
         /\ \A w \in Workers : Holds(w) => held[w] # c
  /\ \A i, j \in DOMAIN m_completion_queue :
       m_completion_queue[i].ticket_id = m_completion_queue[j].ticket_id => i = j

\* 1 while a worker has a ticket whose Result is not published.
InHand == IF \E w \in Workers : Holds(w) THEN 1 ELSE 0

\* What was submitted is what was published, then the ticket in a worker's hand,
\* then the queue, in this order.
InOrder ==
  /\ Len(submitted) = Len(published) + InHand + Len(m_queue)
  /\ \A i \in 1..Len(published) : published[i] = submitted[i]
  /\ \A w \in Workers :
       Holds(w) => submitted[Len(published) + 1] = ticket[held[w]].id
  /\ \A i \in 1..Len(m_queue) :
       submitted[Len(published) + InHand + i] = ticket[m_queue[i]].id

Base == TypeOK /\ NoLostWakeup /\ Locks
AtMostOnePlace == Tickets /\ Queued /\ HeldOnce /\ Completed /\ OwnResult /\ InOrder
IInv == Base /\ AtMostOnePlace

-----------------------------------------------------------------------------
(* Sequences.                                                              *)

\* What the queues' push does.
LEMMA AppendFacts ==
  ASSUME NEW S, NEW s \in Seq(S), NEW e \in S
  PROVE  /\ Append(s, e) \in Seq(S)
         /\ Append(s, e) # <<>>
         /\ Len(s) \in Nat
         /\ Len(Append(s, e)) = Len(s) + 1
         /\ DOMAIN s = 1..Len(s)
         /\ DOMAIN Append(s, e) = 1..Len(s) + 1
         /\ Append(s, e)[Len(s) + 1] = e
         /\ \A i \in 1..Len(s) : Append(s, e)[i] = s[i]
OBVIOUS

\* What front and pop do on a queue that has something in it.
LEMMA TailFacts ==
  ASSUME NEW S, NEW s \in Seq(S), s # <<>>
  PROVE  /\ Len(s) \in Nat \ {0}
         /\ DOMAIN s = 1..Len(s)
         /\ Head(s) = s[1] /\ Head(s) \in S
         /\ Tail(s) \in Seq(S)
         /\ Len(Tail(s)) = Len(s) - 1
         /\ DOMAIN Tail(s) = 1..Len(s) - 1
         /\ \A i \in 1..Len(s) - 1 : Tail(s)[i] = s[i + 1]
OBVIOUS

-----------------------------------------------------------------------------
(* Types, wakeups and locks.                                               *)

\* The constructor's channel: both queues empty, nobody holds or owes anything.
LEMMA InitIInv == Init => IInv
<1> SUFFICES ASSUME Init PROVE IInv
  OBVIOUS
<1> USE ChannelAssumption DEF ChannelAssumption
<1>1. TypeOK
  BY DEF Init, TypeOK, Ticket, Result, Contents, ClientStates, WorkerStates
<1>2. NoLostWakeup /\ Locks
  BY DEF Init, NoLostWakeup, Locks
<1>3. Tickets /\ OwnResult
  BY DEF Init, Tickets, OwnResult
<1>4. \A w \in Workers : ~Holds(w)
  BY DEF Init, Holds
<1>5. Queued /\ HeldOnce /\ Completed
  BY <1>4 DEF Init, Queued, HeldOnce, Completed
<1>6. InOrder
  BY <1>4 DEF Init, InOrder, InHand
<1> QED
  BY <1>1, <1>2, <1>3, <1>5, <1>6 DEF IInv, Base, AtMostOnePlace

\* Every step keeps the types, leaves nobody asleep beside a full queue and hands
\* the two mutexes on as the code does.
LEMMA BaseStep ==
  ASSUME IInv, [Next]_vars
  PROVE  Base'
<1> USE ChannelAssumption
<1> USE DEF ChannelAssumption, IInv, Base, clientVars, workerVars,
            submissionVars, completionVars, modeVars, lifeVars, counterVars, historyVars
<1>1. ASSUME NEW c \in Clients, NEW p \in Payloads, BuildTicket(c, p) PROVE Base'
  <2>1. TypeOK'
    BY <1>1 DEF TypeOK, BuildTicket, ToClient, Ticket, Result, Contents,
         ClientStates
  <2>2. NoLostWakeup'
    BY <1>1 DEF TypeOK, NoLostWakeup, BuildTicket, ToClient
  <2>3. Locks'
    BY <1>1 DEF TypeOK, Locks, BuildTicket, ToClient
  <2> QED
    BY <2>1, <2>2, <2>3
<1>2. ASSUME NEW c \in Clients, EnqueueFastPath(c) PROVE Base'
  <2>1. TypeOK'
    <3>1. ticket[c].payload \in Contents /\ result[c] \in Result
      BY DEF TypeOK, Ticket
    <3>2. [result[c] EXCEPT !.content = ticket[c].payload] \in Result
      BY <3>1 DEF Result
    <3>3. result' \in [Clients -> Result]
      BY <1>2, <3>2 DEF TypeOK, EnqueueFastPath
    <3> QED
      BY <1>2, <3>3 DEF TypeOK, EnqueueFastPath, ToClient, ClientStates
  <2>2. NoLostWakeup'
    BY <1>2 DEF TypeOK, NoLostWakeup, EnqueueFastPath, ToClient
  <2>3. Locks'
    BY <1>2 DEF TypeOK, Locks, EnqueueFastPath, ToClient
  <2> QED
    BY <2>1, <2>2, <2>3
<1>3. ASSUME NEW c \in Clients, Enqueue(c) PROVE Base'
  <2>1. TypeOK'
    BY <1>3 DEF TypeOK, Enqueue, ToClient, NotifyWorkers, Ticket, ClientStates,
         WorkerStates
  <2>2. NoLostWakeup'
    BY <1>3 DEF TypeOK, NoLostWakeup, Enqueue, ToClient, NotifyWorkers
  <2>3. Locks'
    BY <1>3 DEF TypeOK, Locks, Enqueue, ToClient, NotifyWorkers
  <2> QED
    BY <2>1, <2>2, <2>3
<1>4. ASSUME NEW c \in Clients, AwaitResult(c) PROVE Base'
  <2>1. TypeOK'
    BY <1>4 DEF TypeOK, AwaitResult, ToClient, ClientStates
  <2>2. NoLostWakeup'
    BY <1>4 DEF TypeOK, NoLostWakeup, AwaitResult, ToClient
  <2>3. Locks'
    BY <1>4 DEF TypeOK, Locks, AwaitResult, ToClient
  <2> QED
    BY <2>1, <2>2, <2>3
<1>5. ASSUME NEW c \in Clients, LockResults(c) PROVE Base'
  <2>1. TypeOK'
    BY <1>5 DEF TypeOK, LockResults, ToClient, ClientStates
  <2>2. NoLostWakeup'
    BY <1>5 DEF TypeOK, NoLostWakeup, LockResults, ToClient
  <2>3. Locks'
    BY <1>5 DEF TypeOK, Locks, LockResults, ToClient
  <2> QED
    BY <2>1, <2>2, <2>3
<1>6. ASSUME NEW c \in Clients, TakeResult(c) PROVE Base'
  <2>1. TypeOK'
    <3>1. m_completion_queue \in Seq(Result) /\ m_completion_queue # <<>>
      BY <1>6 DEF TypeOK, Locks, TakeResult
    <3>2. /\ Head(m_completion_queue) \in Result
          /\ Tail(m_completion_queue) \in Seq(Result)
      BY <3>1, TailFacts
    <3> QED
      BY <1>6, <3>2 DEF TypeOK, TakeResult, ToClient, ClientStates
  <2>2. NoLostWakeup'
    BY <1>6 DEF TypeOK, NoLostWakeup, TakeResult, ToClient
  <2>3. Locks'
    BY <1>6 DEF TypeOK, Locks, TakeResult, ToClient
  <2> QED
    BY <2>1, <2>2, <2>3
<1>7. ASSUME NEW c \in Clients, PeekAgain(c) PROVE Base'
  <2>1. TypeOK'
    BY <1>7 DEF TypeOK, PeekAgain, vars
  <2>2. NoLostWakeup'
    BY <1>7 DEF TypeOK, NoLostWakeup, PeekAgain, vars
  <2>3. Locks'
    BY <1>7 DEF TypeOK, Locks, PeekAgain, vars
  <2> QED
    BY <2>1, <2>2, <2>3
<1>8. ASSUME NEW c \in Clients, SpuriousWakeup(c) PROVE Base'
  <2>1. TypeOK'
    BY <1>8 DEF TypeOK, SpuriousWakeup, ToClient, ClientStates
  <2>2. NoLostWakeup'
    BY <1>8 DEF TypeOK, NoLostWakeup, SpuriousWakeup, ToClient
  <2>3. Locks'
    BY <1>8 DEF TypeOK, Locks, SpuriousWakeup, ToClient
  <2> QED
    BY <2>1, <2>2, <2>3
<1>9. ASSUME NEW c \in Clients, UpdateStatistics(c) PROVE Base'
  <2>1. TypeOK'
    BY <1>9 DEF TypeOK, UpdateStatistics, ToClient, ClientStates
  <2>2. NoLostWakeup'
    BY <1>9 DEF TypeOK, NoLostWakeup, UpdateStatistics, ToClient
  <2>3. Locks'
    BY <1>9 DEF TypeOK, Locks, UpdateStatistics, ToClient
  <2> QED
    BY <2>1, <2>2, <2>3
<1>10. ASSUME NEW w \in Workers, CheckRunning(w) PROVE Base'
  <2>1. TypeOK'
    BY <1>10 DEF TypeOK, CheckRunning, ToWorker, WorkerStates
  <2>2. NoLostWakeup'
    BY <1>10 DEF TypeOK, NoLostWakeup, CheckRunning, ToWorker
  <2>3. Locks'
    BY <1>10 DEF TypeOK, Locks, CheckRunning, ToWorker
  <2> QED
    BY <2>1, <2>2, <2>3
<1>11. ASSUME NEW w \in Workers, DequeueInterrupted(w) PROVE Base'
  <2>1. TypeOK'
    BY <1>11 DEF TypeOK, DequeueInterrupted, ToWorker, Interrupted, WorkerStates
  <2>2. NoLostWakeup'
    BY <1>11 DEF TypeOK, NoLostWakeup, DequeueInterrupted, ToWorker, Interrupted
  <2>3. Locks'
    BY <1>11 DEF TypeOK, Locks, DequeueInterrupted, ToWorker, Interrupted
  <2> QED
    BY <2>1, <2>2, <2>3
<1>12. ASSUME NEW w \in Workers, DequeueEmpty(w) PROVE Base'
  <2>1. TypeOK'
    BY <1>12 DEF TypeOK, DequeueEmpty, ToWorker, WorkerStates
  <2>2. NoLostWakeup'
    BY <1>12 DEF TypeOK, NoLostWakeup, DequeueEmpty, ToWorker
  <2>3. Locks'
    BY <1>12 DEF TypeOK, Locks, DequeueEmpty, ToWorker
  <2> QED
    BY <2>1, <2>2, <2>3
<1>13. ASSUME NEW w \in Workers, DequeueTicket(w) PROVE Base'
  <2>1. TypeOK'
    BY <1>13 DEF TypeOK, DequeueTicket, ToWorker, WorkerStates
  <2>2. NoLostWakeup'
    BY <1>13 DEF TypeOK, NoLostWakeup, DequeueTicket, ToWorker
  <2>3. Locks'
    BY <1>13 DEF TypeOK, Locks, DequeueTicket, ToWorker
  <2> QED
    BY <2>1, <2>2, <2>3
<1>14. ASSUME NEW w \in Workers, Timeout(w) PROVE Base'
  <2>1. TypeOK'
    BY <1>14 DEF TypeOK, Timeout, ToWorker, WorkerStates
  <2>2. NoLostWakeup'
    BY <1>14 DEF TypeOK, NoLostWakeup, Timeout, ToWorker
  <2>3. Locks'
    BY <1>14 DEF TypeOK, Locks, Timeout, ToWorker
  <2> QED
    BY <2>1, <2>2, <2>3
<1>15. ASSUME NEW w \in Workers, EnforceMechanism(w) PROVE Base'
  <2>1. TypeOK'
    <3>1. held[w] \in Clients
      BY <1>15 DEF AtMostOnePlace, HeldOnce, Holds, EnforceMechanism
    <3>2. [ticket_id |-> ticket[held[w]].id, content |-> ticket[held[w]].payload] \in Result
      BY <3>1 DEF TypeOK, Ticket, Result
    <3>3. produced' \in [Workers -> Result]
      BY <1>15, <3>2 DEF TypeOK, EnforceMechanism
    <3> QED
      BY <1>15, <3>3 DEF TypeOK, EnforceMechanism, ToWorker, WorkerStates
  <2>2. NoLostWakeup'
    BY <1>15 DEF TypeOK, NoLostWakeup, EnforceMechanism, ToWorker
  <2>3. Locks'
    BY <1>15 DEF TypeOK, Locks, EnforceMechanism, ToWorker
  <2> QED
    BY <2>1, <2>2, <2>3
<1>16. ASSUME NEW w \in Workers, EnqueueInCompletionQueue(w) PROVE Base'
  <2>1. TypeOK'
    BY <1>16 DEF TypeOK, EnqueueInCompletionQueue, ToWorker, NotifyClients,
         Result, ClientStates, WorkerStates
  <2>2. NoLostWakeup'
    BY <1>16 DEF TypeOK, NoLostWakeup, EnqueueInCompletionQueue, ToWorker,
         NotifyClients
  <2>3. Locks'
    BY <1>16 DEF TypeOK, Locks, EnqueueInCompletionQueue, ToWorker,
         NotifyClients
  <2> QED
    BY <2>1, <2>2, <2>3
<1>17. ASSUME NEW w \in Workers, DequeueReturn(w) PROVE Base'
  <2>1. TypeOK'
    BY <1>17 DEF TypeOK, DequeueReturn, ToWorker, WorkerStates
  <2>2. NoLostWakeup'
    BY <1>17 DEF TypeOK, NoLostWakeup, DequeueReturn, ToWorker
  <2>3. Locks'
    BY <1>17 DEF TypeOK, Locks, DequeueReturn, ToWorker
  <2> QED
    BY <2>1, <2>2, <2>3
<1>18. ASSUME StopWorkers PROVE Base'
  <2>1. TypeOK'
    BY <1>18 DEF TypeOK, StopWorkers
  <2>2. NoLostWakeup'
    BY <1>18 DEF TypeOK, NoLostWakeup, StopWorkers
  <2>3. Locks'
    BY <1>18 DEF TypeOK, Locks, StopWorkers
  <2> QED
    BY <2>1, <2>2, <2>3
<1>19. ASSUME JoinWorkers PROVE Base'
  <2>1. TypeOK'
    BY <1>19 DEF TypeOK, JoinWorkers
  <2>2. NoLostWakeup'
    BY <1>19 DEF TypeOK, NoLostWakeup, JoinWorkers
  <2>3. Locks'
    BY <1>19 DEF TypeOK, Locks, JoinWorkers
  <2> QED
    BY <2>1, <2>2, <2>3
<1>20. ASSUME Destroyed PROVE Base'
  <2>1. TypeOK'
    BY <1>20 DEF TypeOK, Destroyed, vars
  <2>2. NoLostWakeup'
    BY <1>20 DEF TypeOK, NoLostWakeup, Destroyed, vars
  <2>3. Locks'
    BY <1>20 DEF TypeOK, Locks, Destroyed, vars
  <2> QED
    BY <2>1, <2>2, <2>3
<1>21. ASSUME UNCHANGED vars PROVE Base'
  <2>1. TypeOK'
    BY <1>21 DEF TypeOK, vars
  <2>2. NoLostWakeup'
    BY <1>21 DEF TypeOK, NoLostWakeup, vars
  <2>3. Locks'
    BY <1>21 DEF TypeOK, Locks, vars
  <2> QED
    BY <2>1, <2>2, <2>3
<1> QED
  BY <1>1, <1>2, <1>3, <1>4, <1>5, <1>6, <1>7, <1>8, <1>9, <1>10, <1>11, <1>12,
     <1>13, <1>14, <1>15, <1>16, <1>17, <1>18, <1>19, <1>20, <1>21 DEF Next,
     ClientStep, WorkerStep

-----------------------------------------------------------------------------
(* Tickets, pointers and Results.                                          *)

\* A step that moves no ticket, pointer or Result and takes no client into or
\* out of its wait changes nothing of who is where.
LEMMA SamePlaces ==
  ASSUME IInv,
         UNCHANGED <<ticket, m_ticket_id, result, m_queue, m_completion_queue,
                     produced, submitted, published>>,
         \A w \in Workers : /\ Holds(w)' <=> Holds(w)
                            /\ Holds(w) => held'[w] = held[w]
                            /\ worker'[w] = "publishing" => worker[w] = "publishing",
         \A c \in Clients : /\ Awaiting(c)' <=> Awaiting(c)
                            /\ client'[c] = "idle" <=> client[c] = "idle"
                            /\ client'[c] \in {"fast_path", "statistics"} =>
                                 client'[c] = client[c]
  PROVE  AtMostOnePlace'
<1> USE DEF IInv, Base, AtMostOnePlace
<1>1. Tickets' /\ OwnResult'
  BY DEF Tickets, OwnResult
<1>2. \A c \in Clients : AnswerTo(c)' = AnswerTo(c)
  BY DEF AnswerTo
<1>3. \A i \in DOMAIN m_queue : m_queue[i] \in Clients
  BY DEF TypeOK
<1>4. Queued'
  BY <1>3 DEF Queued
<1>5. HeldOnce'
  BY <1>2 DEF HeldOnce
<1>6. Completed'
  BY <1>2 DEF Completed
<1>7. InHand' = InHand
  BY DEF InHand
<1>8. InOrder'
  BY <1>7 DEF InOrder
<1> QED
  BY <1>1, <1>4, <1>5, <1>6, <1>8

\* Nobody holds a ticket while m_queue_lock is free, or held by a worker that is
\* not at work on one.
LEMMA OneHolder ==
  ASSUME Base, NEW w \in Workers, NEW v \in Workers, Holds(v),
         m_queue_lock = NoThread \/ m_queue_lock = w
  PROVE  v = w
BY ChannelAssumption DEF ChannelAssumption, Base, Locks, Holds

\* A waiting client whose identifier is that of c's call is c.
LEMMA SameTicket ==
  ASSUME Tickets, NEW c \in Clients, NEW d \in Clients,
         client[c] # "idle", client[d] # "idle", ticket[c].id = ticket[d].id
  PROVE  c = d
BY DEF Tickets

\* Every step of clients, workers and destructor keeps the places.
LEMMA PlacesStep ==
  ASSUME IInv, [Next]_vars
  PROVE  AtMostOnePlace'
<1> USE ChannelAssumption
<1> USE DEF ChannelAssumption, IInv, Base, AtMostOnePlace, clientVars, workerVars,
            submissionVars, completionVars, modeVars, lifeVars, counterVars, historyVars
<1>a. \A i \in DOMAIN m_queue : m_queue[i] \in Clients /\ Awaiting(m_queue[i])
  BY DEF TypeOK, Queued
<1>1. ASSUME NEW c \in Clients, NEW p \in Payloads, BuildTicket(c, p) PROVE AtMostOnePlace'
  <2>1. /\ client[c] = "idle" /\ ~Awaiting(c) /\ ~Awaiting(c)'
        /\ client'[c] \in {"fast_path", "enqueue"}
        /\ ticket'[c].id = m_ticket_id /\ m_ticket_id' = m_ticket_id + 1
        /\ result'[c].ticket_id = m_ticket_id
    BY <1>1 DEF TypeOK, BuildTicket, ToClient, Awaiting
  <2>2. \A d \in Clients \ {c} :
          /\ client'[d] = client[d] /\ ticket'[d] = ticket[d]
          /\ result'[d] = result[d]
          /\ AnswerTo(d)' = AnswerTo(d) /\ (Awaiting(d)' <=> Awaiting(d))
    BY <1>1 DEF TypeOK, BuildTicket, ToClient, AnswerTo, Awaiting
  <2>3. /\ UNCHANGED <<m_queue, m_completion_queue, held, worker, produced,
                       submitted, published>>
        /\ \A w \in Workers : Holds(w)' <=> Holds(w)
    BY <1>1 DEF BuildTicket, Holds
  <2>4. Tickets'
    <3>1. m_ticket_id \in Nat /\ \A d \in Clients : ticket[d].id \in Nat
      BY DEF TypeOK, Ticket
    <3>2. \A d \in Clients \ {c} :
            client'[d] # "idle" => ticket'[d].id < m_ticket_id
      BY <2>2 DEF Tickets
    <3>3. (\A d \in Clients : client[d] # "idle" => ticket[d].id < m_ticket_id)'
      <4> SUFFICES ASSUME NEW d \in Clients, client'[d] # "idle"
                   PROVE  ticket'[d].id < m_ticket_id + 1
        BY <2>1
      <4>1. CASE d = c
        BY <4>1, <2>1, <3>1
      <4>2. CASE d # c
        <5>1. ticket'[d] = ticket[d] /\ ticket[d].id \in Nat
          BY <4>2, <2>2, <3>1
        <5>2. ticket'[d].id < m_ticket_id
          BY <4>2, <3>2
        <5> QED
          BY <5>1, <5>2, <3>1
      <4> QED
        BY <4>1, <4>2
    <3>4. (\A d, e \in Clients :
            (client[d] # "idle" /\ client[e] # "idle" /\ ticket[d].id = ticket[e].id) => d = e)'
      <4> SUFFICES ASSUME NEW d \in Clients, NEW e \in Clients, client'[d] # "idle",
                          client'[e] # "idle", ticket'[d].id = ticket'[e].id
                   PROVE  d = e
        OBVIOUS
      <4>1. CASE d # c /\ e # c
        BY <4>1, <2>2 DEF Tickets
      <4>2. ~(d = c /\ e # c)
        BY <2>1, <3>1, <3>2
      <4>3. ~(d # c /\ e = c)
        BY <2>1, <3>1, <3>2
      <4> QED
        BY <4>1, <4>2, <4>3
    <3>5. (\A d \in Clients : client[d] = "fast_path" => result[d].ticket_id = ticket[d].id)'
      BY <2>1, <2>2 DEF Tickets
    <3> QED
      BY <3>3, <3>4, <3>5 DEF Tickets
  <2>5. Queued'
    BY <1>a, <2>1, <2>2, <2>3 DEF Queued
  <2>6. HeldOnce'
    BY <2>1, <2>2, <2>3 DEF HeldOnce
  <2>7. Completed'
    BY <2>1, <2>2, <2>3 DEF Completed
  <2>8. OwnResult'
    BY <2>1, <2>2 DEF OwnResult
  <2>9. InOrder'
    <3>1. InHand' = InHand
      BY <2>3 DEF InHand
    <3>2. \A w \in Workers : Holds(w) => held[w] \in Clients \ {c}
      BY <2>1 DEF HeldOnce
    <3>3. \A i \in 1..Len(m_queue) : m_queue[i] \in Clients \ {c}
      BY <1>a, <2>1 DEF TypeOK
    <3> QED
      BY <2>2, <2>3, <3>1, <3>2, <3>3 DEF InOrder
  <2> QED
    BY <2>4, <2>5, <2>6, <2>7, <2>8, <2>9
<1>2. ASSUME NEW c \in Clients, EnqueueFastPath(c) PROVE AtMostOnePlace'
  <2>1. /\ client[c] = "fast_path" /\ client'[c] = "statistics"
        /\ ~Awaiting(c) /\ ~Awaiting(c)'
        /\ result'[c] = [result[c] EXCEPT !.content = ticket[c].payload]
    BY <1>2 DEF TypeOK, EnqueueFastPath, ToClient, Awaiting
  <2>2. \A d \in Clients \ {c} :
          client'[d] = client[d] /\ result'[d] = result[d] /\ (Awaiting(d)' <=> Awaiting(d))
    BY <1>2 DEF TypeOK, EnqueueFastPath, ToClient, Awaiting
  <2>3. /\ UNCHANGED <<ticket, m_ticket_id, m_queue, m_completion_queue, held,
                       worker, produced, submitted, published>>
        /\ \A w \in Workers : Holds(w)' <=> Holds(w)
        /\ \A d \in Clients : AnswerTo(d)' = AnswerTo(d)
    BY <1>2 DEF EnqueueFastPath, Holds, AnswerTo
  <2>4. Tickets'
    BY <2>1, <2>2, <2>3 DEF Tickets
  <2>5. Queued' /\ HeldOnce'
    BY <1>a, <2>1, <2>2, <2>3 DEF Queued, HeldOnce
  <2>6. Completed'
    BY <2>1, <2>2, <2>3 DEF Completed
  <2>7. OwnResult'
    <3>1. result[c] \in Result /\ result[c].ticket_id = ticket[c].id
      BY <2>1 DEF TypeOK, Tickets
    <3>2. result'[c] = [ticket_id |-> ticket[c].id, content |-> ticket[c].payload]
      BY <2>1, <3>1 DEF Result
    <3> QED
      BY <2>2, <2>3, <3>2 DEF OwnResult
  <2>8. InOrder'
    BY <2>3 DEF InOrder, InHand
  <2> QED
    BY <2>4, <2>5, <2>6, <2>7, <2>8
<1>3. ASSUME NEW c \in Clients, Enqueue(c) PROVE AtMostOnePlace'
  <2>1. /\ client[c] = "enqueue" /\ client'[c] = "dequeue"
        /\ ~Awaiting(c) /\ Awaiting(c)'
    BY <1>3 DEF TypeOK, Enqueue, ToClient, Awaiting
  <2>2. \A d \in Clients \ {c} : client'[d] = client[d] /\ (Awaiting(d)' <=> Awaiting(d))
    BY <1>3 DEF TypeOK, Enqueue, ToClient, Awaiting
  <2>3. /\ UNCHANGED <<ticket, m_ticket_id, result, m_completion_queue, held,
                       produced, published>>
        /\ \A w \in Workers : /\ Holds(w)' <=> Holds(w)
                              /\ worker'[w] = "publishing" => worker[w] = "publishing"
        /\ \A d \in Clients : AnswerTo(d)' = AnswerTo(d)
    BY <1>3 DEF TypeOK, Enqueue, NotifyWorkers, Holds, AnswerTo
  <2>4. /\ m_queue' = Append(m_queue, c) /\ m_queue \in Seq(Clients)
        /\ submitted' = Append(submitted, ticket[c].id) /\ submitted \in Seq(Nat)
        /\ ticket[c].id \in Nat
    BY <1>3 DEF TypeOK, Enqueue, Ticket
  <2>5. /\ Len(m_queue) \in Nat /\ Len(m_queue') = Len(m_queue) + 1
        /\ DOMAIN m_queue = 1..Len(m_queue)
        /\ DOMAIN m_queue' = 1..Len(m_queue) + 1
        /\ m_queue'[Len(m_queue) + 1] = c
        /\ \A i \in 1..Len(m_queue) : m_queue'[i] = m_queue[i]
    BY <2>4, AppendFacts
  <2>6. Tickets' /\ OwnResult'
    BY <2>1, <2>2, <2>3 DEF Tickets, OwnResult
  <2>7. \A i \in DOMAIN m_queue : m_queue[i] # c
    BY <1>a, <2>1
  <2>8. Queued'
    BY <1>a, <2>1, <2>2, <2>5, <2>7 DEF Queued
  <2>9. HeldOnce'
    BY <2>1, <2>2, <2>3, <2>5 DEF HeldOnce
  <2>10. Completed'
    <3>1. ASSUME NEW i \in DOMAIN m_completion_queue
          PROVE  \E d \in Clients :
                   /\ Awaiting(d)'
                   /\ m_completion_queue[i] = AnswerTo(d)'
                   /\ \A j \in DOMAIN m_queue' : m_queue'[j] # d
                   /\ \A w \in Workers : Holds(w)' => held'[w] # d
      <4>1. PICK d \in Clients :
              /\ Awaiting(d)
              /\ m_completion_queue[i] = AnswerTo(d)
              /\ \A j \in DOMAIN m_queue : m_queue[j] # d
              /\ \A w \in Workers : Holds(w) => held[w] # d
        BY DEF Completed
      <4>2. d # c
        BY <4>1, <2>1
      <4> WITNESS d \in Clients
      <4> QED
        BY <4>1, <4>2, <2>2, <2>3, <2>5
    <3> QED
      BY <3>1, <2>3 DEF Completed
  <2>11. InOrder'
    <3>1. InHand' = InHand /\ InHand \in Nat
      BY <2>3 DEF InHand
    <3>2. /\ Len(submitted) \in Nat /\ Len(submitted') = Len(submitted) + 1
          /\ submitted'[Len(submitted) + 1] = ticket[c].id
          /\ \A i \in 1..Len(submitted) : submitted'[i] = submitted[i]
      BY <2>4, AppendFacts
    <3>3. Len(published) \in Nat /\ UNCHANGED published
      BY <2>3 DEF TypeOK
    <3>4. (Len(submitted) = Len(published) + InHand + Len(m_queue))'
      BY <2>5, <3>1, <3>2, <3>3 DEF InOrder
    <3>5. (\A i \in 1..Len(published) : published[i] = submitted[i])'
      BY <2>5, <3>1, <3>2, <3>3 DEF InOrder
    <3>6. (\A w \in Workers : Holds(w) => submitted[Len(published) + 1] = ticket[held[w]].id)'
      <4>1. ASSUME NEW w \in Workers, Holds(w)
            PROVE  submitted'[Len(published) + 1] = ticket[held[w]].id
        <5>1. InHand = 1
          BY <4>1 DEF InHand
        <5> QED
          BY <4>1, <5>1, <2>5, <3>2, <3>3 DEF InOrder
      <4> QED
        BY <4>1, <2>3
    <3>7. (\A i \in 1..Len(m_queue) :
             submitted[Len(published) + InHand + i] = ticket[m_queue[i]].id)'
      <4>1. ASSUME NEW i \in 1..Len(m_queue)
            PROVE  submitted'[Len(published) + InHand + i] = ticket[m_queue[i]].id
        BY <2>5, <3>1, <3>2, <3>3 DEF InOrder
      <4>2. submitted'[Len(published) + InHand + Len(m_queue) + 1] = ticket[c].id
        BY <3>2 DEF InOrder
      <4>3. ASSUME NEW i \in 1..Len(m_queue) + 1
            PROVE  submitted'[Len(published) + InHand + i] = ticket[m_queue'[i]].id
        <5>1. CASE i \in 1..Len(m_queue)
          BY <4>1, <5>1, <2>5
        <5>2. CASE i = Len(m_queue) + 1
          <6>1. Len(published) + InHand + i = Len(published) + InHand + Len(m_queue) + 1
            BY <5>2, <2>5, <3>1, <3>3
          <6> QED
            BY <6>1, <5>2, <4>2, <2>5
        <5> QED
          BY <5>1, <5>2, <2>5
      <4> QED
        BY <4>3, <2>3, <2>5, <3>1, <3>3
    <3> QED
      BY <3>4, <3>5, <3>6, <3>7 DEF InOrder
  <2> QED
    BY <2>6, <2>8, <2>9, <2>10, <2>11
<1>4. ASSUME NEW c \in Clients, AwaitResult(c) PROVE AtMostOnePlace'
  BY <1>4, SamePlaces DEF TypeOK, AwaitResult, ToClient, Awaiting, Holds
<1>5. ASSUME NEW c \in Clients, LockResults(c) PROVE AtMostOnePlace'
  BY <1>5, SamePlaces DEF TypeOK, LockResults, ToClient, Awaiting, Holds
<1>6. ASSUME NEW c \in Clients, TakeResult(c) PROVE AtMostOnePlace'
  <2>1. /\ client[c] = "peek" /\ client'[c] = "statistics"
        /\ Awaiting(c) /\ ~Awaiting(c)'
    BY <1>6 DEF TypeOK, TakeResult, ToClient, Awaiting
  <2>2. \A d \in Clients \ {c} :
          client'[d] = client[d] /\ result'[d] = result[d] /\ (Awaiting(d)' <=> Awaiting(d))
    BY <1>6 DEF TypeOK, TakeResult, ToClient, Awaiting
  <2>3. /\ UNCHANGED <<ticket, m_ticket_id, m_queue, held, worker, produced,
                       submitted, published>>
        /\ \A w \in Workers : Holds(w)' <=> Holds(w)
        /\ \A d \in Clients : AnswerTo(d)' = AnswerTo(d)
    BY <1>6 DEF TakeResult, Holds, AnswerTo
  <2>4. m_completion_queue \in Seq(Result) /\ m_completion_queue # <<>>
    BY <2>1 DEF TypeOK, Locks
  <2>5. /\ Len(m_completion_queue) \in Nat \ {0}
        /\ DOMAIN m_completion_queue = 1..Len(m_completion_queue)
        /\ m_completion_queue[1] = Head(m_completion_queue)
        /\ DOMAIN m_completion_queue' = 1..Len(m_completion_queue) - 1
        /\ \A i \in 1..Len(m_completion_queue) - 1 :
             m_completion_queue'[i] = m_completion_queue[i + 1]
    BY <1>6, <2>4, TailFacts DEF TakeResult
  <2>6. /\ m_completion_queue[1].ticket_id = ticket[c].id
        /\ result'[c] = m_completion_queue[1]
    BY <1>6, <2>5 DEF TypeOK, TakeResult, IsMyTicket
  <2>7. PICK d \in Clients :
          /\ Awaiting(d)
          /\ m_completion_queue[1] = AnswerTo(d)
          /\ \A j \in DOMAIN m_queue : m_queue[j] # d
          /\ \A w \in Workers : Holds(w) => held[w] # d
    <3>1. 1 \in DOMAIN m_completion_queue
      BY <2>5
    <3> QED
      BY <3>1 DEF Completed
  <2>8. d = c
    <3>1. ticket[c].id = ticket[d].id
      BY <2>6, <2>7 DEF AnswerTo
    <3>2. client[c] # "idle" /\ client[d] # "idle"
      BY <2>1, <2>7 DEF Awaiting
    <3> QED
      BY <3>1, <3>2, SameTicket
  <2>9. Tickets'
    BY <2>1, <2>2, <2>3 DEF Tickets
  <2>10. Queued'
    BY <1>a, <2>2, <2>3, <2>7, <2>8 DEF Queued
  <2>11. HeldOnce'
    BY <2>2, <2>3, <2>7, <2>8 DEF HeldOnce
  <2>12. Completed'
    <3>1. ASSUME NEW i \in DOMAIN m_completion_queue'
          PROVE  \E e \in Clients :
                   /\ Awaiting(e)'
                   /\ m_completion_queue'[i] = AnswerTo(e)'
                   /\ \A j \in DOMAIN m_queue' : m_queue'[j] # e
                   /\ \A w \in Workers : Holds(w)' => held'[w] # e
      <4>1. /\ i + 1 \in DOMAIN m_completion_queue
            /\ 1 \in DOMAIN m_completion_queue
            /\ i + 1 # 1
            /\ m_completion_queue'[i] = m_completion_queue[i + 1]
        BY <2>5
      <4>2. PICK e \in Clients :
              /\ Awaiting(e)
              /\ m_completion_queue[i + 1] = AnswerTo(e)
              /\ \A j \in DOMAIN m_queue : m_queue[j] # e
              /\ \A w \in Workers : Holds(w) => held[w] # e
        BY <4>1 DEF Completed
      <4>3. m_completion_queue[i + 1].ticket_id # m_completion_queue[1].ticket_id
        BY <4>1 DEF Completed
      <4>4. e # c
        BY <4>2, <4>3, <2>6 DEF AnswerTo
      <4> WITNESS e \in Clients
      <4> QED
        BY <4>1, <4>2, <4>4, <2>2, <2>3
    <3>2. ASSUME NEW i \in DOMAIN m_completion_queue', NEW j \in DOMAIN m_completion_queue',
                 m_completion_queue'[i].ticket_id = m_completion_queue'[j].ticket_id
          PROVE  i = j
      <4>1. /\ i \in Nat /\ j \in Nat
            /\ i + 1 \in DOMAIN m_completion_queue
            /\ j + 1 \in DOMAIN m_completion_queue
            /\ m_completion_queue'[i] = m_completion_queue[i + 1]
            /\ m_completion_queue'[j] = m_completion_queue[j + 1]
        BY <2>5
      <4>2. i + 1 = j + 1
        BY <3>2, <4>1 DEF Completed
      <4> QED
        BY <4>1, <4>2
    <3> QED
      BY <3>1, <3>2 DEF Completed
  <2>13. OwnResult'
    BY <2>2, <2>3, <2>6, <2>7, <2>8 DEF OwnResult, AnswerTo
  <2>14. InOrder'
    BY <2>3 DEF InOrder, InHand
  <2> QED
    BY <2>9, <2>10, <2>11, <2>12, <2>13, <2>14
<1>7. ASSUME NEW c \in Clients, PeekAgain(c) PROVE AtMostOnePlace'
  BY <1>7, SamePlaces DEF PeekAgain, vars, Awaiting, Holds
<1>8. ASSUME NEW c \in Clients, SpuriousWakeup(c) PROVE AtMostOnePlace'
  BY <1>8, SamePlaces DEF TypeOK, SpuriousWakeup, ToClient, Awaiting, Holds
<1>9. ASSUME NEW c \in Clients, UpdateStatistics(c) PROVE AtMostOnePlace'
  <2>1. client[c] = "statistics" /\ client'[c] = "idle" /\ ~Awaiting(c) /\ ~Awaiting(c)'
    BY <1>9 DEF TypeOK, UpdateStatistics, ToClient, Awaiting
  <2>2. \A d \in Clients \ {c} : client'[d] = client[d] /\ (Awaiting(d)' <=> Awaiting(d))
    BY <1>9 DEF TypeOK, UpdateStatistics, ToClient, Awaiting
  <2>3. /\ UNCHANGED <<ticket, m_ticket_id, result, m_queue, m_completion_queue,
                       held, worker, produced, submitted, published>>
        /\ \A w \in Workers : Holds(w)' <=> Holds(w)
        /\ \A d \in Clients : AnswerTo(d)' = AnswerTo(d)
    BY <1>9 DEF UpdateStatistics, Holds, AnswerTo
  <2>4. Tickets' /\ OwnResult'
    BY <2>1, <2>2, <2>3 DEF Tickets, OwnResult
  <2>5. Queued' /\ HeldOnce'
    BY <1>a, <2>1, <2>2, <2>3 DEF Queued, HeldOnce
  <2>6. Completed'
    BY <2>1, <2>2, <2>3 DEF Completed
  <2>7. InOrder'
    BY <2>3 DEF InOrder, InHand
  <2> QED
    BY <2>4, <2>5, <2>6, <2>7
<1>10. ASSUME NEW w \in Workers, CheckRunning(w) PROVE AtMostOnePlace'
  BY <1>10, SamePlaces DEF TypeOK, CheckRunning, ToWorker, Awaiting, Holds
<1>11. ASSUME NEW w \in Workers, DequeueInterrupted(w) PROVE AtMostOnePlace'
  BY <1>11, SamePlaces
  DEF TypeOK, DequeueInterrupted, Interrupted, ToWorker, Awaiting, Holds
<1>12. ASSUME NEW w \in Workers, DequeueEmpty(w) PROVE AtMostOnePlace'
  BY <1>12, SamePlaces DEF TypeOK, DequeueEmpty, ToWorker, Awaiting, Holds
<1>13. ASSUME NEW w \in Workers, DequeueTicket(w) PROVE AtMostOnePlace'
  <2>1. /\ worker[w] \in {"dequeue", "timedout"} /\ worker'[w] = "enforcing"
        /\ m_queue_lock = NoThread
        /\ \A v \in Workers \ {w} : worker'[v] = worker[v] /\ held'[v] = held[v]
    BY <1>13 DEF TypeOK, DequeueTicket, ToWorker
  <2>2. /\ UNCHANGED <<client, ticket, m_ticket_id, result, m_completion_queue,
                       produced, submitted, published>>
        /\ \A d \in Clients : AnswerTo(d)' = AnswerTo(d) /\ (Awaiting(d)' <=> Awaiting(d))
    BY <1>13 DEF DequeueTicket, AnswerTo, Awaiting
  <2>3. \A v \in Workers : ~Holds(v) /\ (Holds(v)' <=> v = w)
    BY <2>1 DEF Locks, Holds
  <2>4. m_queue \in Seq(Clients) /\ m_queue # <<>>
    BY <1>13 DEF TypeOK, DequeueTicket
  <2>5. /\ Len(m_queue) \in Nat \ {0}
        /\ DOMAIN m_queue = 1..Len(m_queue)
        /\ held'[w] = m_queue[1] /\ m_queue[1] \in Clients
        /\ Len(m_queue') = Len(m_queue) - 1
        /\ DOMAIN m_queue' = 1..Len(m_queue) - 1
        /\ \A i \in 1..Len(m_queue) - 1 : m_queue'[i] = m_queue[i + 1]
    BY <1>13, <2>4, TailFacts DEF TypeOK, DequeueTicket
  <2>6. \A i \in DOMAIN m_queue' :
          /\ i \in Nat /\ i + 1 \in DOMAIN m_queue /\ m_queue'[i] = m_queue[i + 1]
          /\ m_queue'[i] # m_queue[1]
    BY <2>5 DEF Queued
  <2>7. Tickets' /\ OwnResult'
    BY <2>2 DEF Tickets, OwnResult
  <2>8. Queued'
    <3>1. (\A i \in DOMAIN m_queue : Awaiting(m_queue[i]))'
      BY <1>a, <2>2, <2>6 DEF Awaiting
    <3>2. ASSUME NEW i \in DOMAIN m_queue', NEW j \in DOMAIN m_queue',
                 m_queue'[i] = m_queue'[j]
          PROVE  i = j
      <4>1. i + 1 = j + 1
        BY <2>6, <3>2 DEF Queued
      <4> QED
        BY <2>6, <4>1
    <3> QED
      BY <3>1, <3>2 DEF Queued
  <2>9. HeldOnce'
    <3>1. 1 \in DOMAIN m_queue
      BY <2>5
    <3>2. Awaiting(held[w])' /\ held'[w] \in Clients
      BY <1>a, <2>2, <2>5, <3>1 DEF Awaiting
    <3>3. \A i \in DOMAIN m_queue' : m_queue'[i] # held'[w]
      BY <2>5, <2>6
    <3> QED
      BY <2>1, <2>3, <3>2, <3>3 DEF HeldOnce
  <2>10. Completed'
    <3>1. ASSUME NEW i \in DOMAIN m_completion_queue
          PROVE  \E d \in Clients :
                   /\ Awaiting(d)'
                   /\ m_completion_queue[i] = AnswerTo(d)'
                   /\ \A j \in DOMAIN m_queue' : m_queue'[j] # d
                   /\ \A v \in Workers : Holds(v)' => held'[v] # d
      <4>1. PICK d \in Clients :
              /\ Awaiting(d)
              /\ m_completion_queue[i] = AnswerTo(d)
              /\ \A j \in DOMAIN m_queue : m_queue[j] # d
        BY DEF Completed
      <4>2. m_queue[1] # d
        BY <4>1, <2>5
      <4> WITNESS d \in Clients
      <4> QED
        BY <4>1, <4>2, <2>2, <2>3, <2>5, <2>6
    <3> QED
      BY <3>1, <2>2 DEF Completed
  <2>11. InOrder'
    <3>1. InHand = 0 /\ InHand' = 1
      BY <2>3 DEF InHand
    <3>2. Len(published) \in Nat /\ Len(submitted) \in Nat
      BY DEF TypeOK
    <3>3. (Len(submitted) = Len(published) + InHand + Len(m_queue))'
      <4>1. Len(submitted) = Len(published) + 0 + Len(m_queue)
        BY <3>1 DEF InOrder
      <4>2. Len(submitted) = Len(published) + 1 + (Len(m_queue) - 1)
        BY <4>1, <2>5, <3>2
      <4> QED
        BY <4>2, <2>2, <2>5, <3>1
    <3>4. (\A i \in 1..Len(published) : published[i] = submitted[i])'
      BY <2>2 DEF InOrder
    <3>5. submitted[Len(published) + 1] = ticket[m_queue[1]].id
      BY <2>5, <3>1, <3>2 DEF InOrder
    <3>6. (\A v \in Workers : Holds(v) => submitted[Len(published) + 1] = ticket[held[v]].id)'
      BY <2>2, <2>3, <2>5, <3>5
    <3>7. (\A i \in 1..Len(m_queue) :
             submitted[Len(published) + InHand + i] = ticket[m_queue[i]].id)'
      <4>1. ASSUME NEW i \in 1..Len(m_queue) - 1
            PROVE  submitted[Len(published) + 1 + i] = ticket[m_queue[i + 1]].id
        <5>1. i + 1 \in 1..Len(m_queue)
          BY <2>5
        <5>2. submitted[Len(published) + InHand + (i + 1)] = ticket[m_queue[i + 1]].id
          BY <5>1 DEF InOrder
        <5> QED
          BY <5>2, <3>1, <3>2
      <4> QED
        BY <4>1, <2>2, <2>5, <3>1
    <3> QED
      BY <3>3, <3>4, <3>6, <3>7 DEF InOrder
  <2> QED
    BY <2>7, <2>8, <2>9, <2>10, <2>11
<1>14. ASSUME NEW w \in Workers, Timeout(w) PROVE AtMostOnePlace'
  BY <1>14, SamePlaces DEF TypeOK, Timeout, ToWorker, Awaiting, Holds
<1>15. ASSUME NEW w \in Workers, EnforceMechanism(w) PROVE AtMostOnePlace'
  <2>1. /\ worker[w] = "enforcing" /\ worker'[w] = "publishing"
        /\ produced'[w] = AnswerTo(held[w])
        /\ \A v \in Workers \ {w} : worker'[v] = worker[v] /\ produced'[v] = produced[v]
    BY <1>15 DEF TypeOK, EnforceMechanism, ToWorker, AnswerTo
  <2>2. /\ UNCHANGED <<client, ticket, m_ticket_id, result, m_queue,
                       m_completion_queue, held, submitted, published>>
        /\ \A d \in Clients : AnswerTo(d)' = AnswerTo(d) /\ (Awaiting(d)' <=> Awaiting(d))
    BY <1>15 DEF EnforceMechanism, AnswerTo, Awaiting
  <2>3. \A v \in Workers : Holds(v)' <=> Holds(v)
    BY <2>1 DEF Holds
  <2>4. Tickets' /\ OwnResult'
    BY <2>2 DEF Tickets, OwnResult
  <2>5. Queued'
    BY <1>a, <2>2 DEF Queued
  <2>6. HeldOnce'
    BY <2>1, <2>2, <2>3 DEF HeldOnce
  <2>7. Completed'
    BY <2>2, <2>3 DEF Completed
  <2>8. InOrder'
    BY <2>2, <2>3 DEF InOrder, InHand
  <2> QED
    BY <2>4, <2>5, <2>6, <2>7, <2>8
<1>16. ASSUME NEW w \in Workers, EnqueueInCompletionQueue(w) PROVE AtMostOnePlace'
  <2>1. /\ worker[w] = "publishing" /\ worker'[w] = "returning"
        /\ \A v \in Workers \ {w} : worker'[v] = worker[v]
    BY <1>16 DEF TypeOK, EnqueueInCompletionQueue, ToWorker
  <2>2. /\ UNCHANGED <<ticket, m_ticket_id, result, m_queue, held, produced,
                       submitted>>
        /\ \A d \in Clients :
             /\ AnswerTo(d)' = AnswerTo(d)
             /\ Awaiting(d)' <=> Awaiting(d)
             /\ client'[d] = "idle" <=> client[d] = "idle"
             /\ client'[d] \in {"fast_path", "statistics"} => client'[d] = client[d]
    BY <1>16 DEF TypeOK, EnqueueInCompletionQueue, NotifyClients, AnswerTo, Awaiting
  <2>3. \A v \in Workers : (Holds(v) <=> v = w) /\ ~Holds(v)'
    <3>1. Holds(w) /\ m_queue_lock = w
      BY <2>1 DEF Holds, Locks
    <3>2. \A v \in Workers : Holds(v) => v = w
      BY <3>1, OneHolder
    <3> QED
      BY <3>1, <3>2, <2>1 DEF Holds
  <2>4. /\ held[w] \in Clients /\ Awaiting(held[w])
        /\ \A i \in DOMAIN m_queue : m_queue[i] # held[w]
        /\ produced[w] = AnswerTo(held[w])
    BY <2>1, <2>3 DEF HeldOnce
  <2>5. /\ m_completion_queue' = Append(m_completion_queue, produced[w])
        /\ m_completion_queue \in Seq(Result) /\ produced[w] \in Result
        /\ published' = Append(published, produced[w].ticket_id)
        /\ published \in Seq(Nat) /\ produced[w].ticket_id \in Nat
    BY <1>16 DEF TypeOK, EnqueueInCompletionQueue, Result
  <2>6. /\ Len(m_completion_queue) \in Nat
        /\ DOMAIN m_completion_queue = 1..Len(m_completion_queue)
        /\ DOMAIN m_completion_queue' = 1..Len(m_completion_queue) + 1
        /\ m_completion_queue'[Len(m_completion_queue) + 1] = produced[w]
        /\ \A i \in 1..Len(m_completion_queue) :
             m_completion_queue'[i] = m_completion_queue[i]
    BY <2>5, AppendFacts
  <2>7. Tickets'
    BY <2>2 DEF Tickets
  <2>8. OwnResult'
    BY <2>2 DEF OwnResult
  <2>9. Queued'
    BY <1>a, <2>2 DEF Queued
  <2>10. HeldOnce'
    BY <2>3 DEF HeldOnce
  <2>11. \A i \in 1..Len(m_completion_queue) :
           m_completion_queue[i].ticket_id # produced[w].ticket_id
    <3> SUFFICES ASSUME NEW i \in 1..Len(m_completion_queue)
                 PROVE  m_completion_queue[i].ticket_id # produced[w].ticket_id
      OBVIOUS
    <3>1. PICK d \in Clients :
            /\ Awaiting(d)
            /\ m_completion_queue[i] = AnswerTo(d)
            /\ \A v \in Workers : Holds(v) => held[v] # d
      BY <2>6 DEF Completed
    <3>2. held[w] # d
      BY <2>3, <3>1
    <3>3. client[d] # "idle" /\ client[held[w]] # "idle"
      BY <2>4, <3>1 DEF Awaiting
    <3>4. ticket[d].id # ticket[held[w]].id
      BY <2>4, <3>2, <3>3, SameTicket
    <3> QED
      BY <2>4, <3>1, <3>4 DEF AnswerTo
  <2>12. Completed'
    <3>1. ASSUME NEW i \in DOMAIN m_completion_queue'
          PROVE  \E d \in Clients :
                   /\ Awaiting(d)'
                   /\ m_completion_queue'[i] = AnswerTo(d)'
                   /\ \A j \in DOMAIN m_queue' : m_queue'[j] # d
                   /\ \A v \in Workers : Holds(v)' => held'[v] # d
      <4>1. CASE i = Len(m_completion_queue) + 1
        <5>1. m_completion_queue'[i] = AnswerTo(held[w])
          BY <4>1, <2>4, <2>6
        <5>2. PICK d \in Clients : d = held[w]
          BY <2>4
        <5> WITNESS d \in Clients
        <5> QED
          BY <5>1, <5>2, <2>2, <2>3, <2>4
      <4>2. CASE i # Len(m_completion_queue) + 1
        <5>1. i \in 1..Len(m_completion_queue)
          BY <4>2, <2>6
        <5>2. PICK d \in Clients :
                /\ Awaiting(d)
                /\ m_completion_queue[i] = AnswerTo(d)
                /\ \A j \in DOMAIN m_queue : m_queue[j] # d
          BY <5>1, <2>6 DEF Completed
        <5> WITNESS d \in Clients
        <5> QED
          BY <5>1, <5>2, <2>2, <2>3, <2>6
      <4> QED
        BY <4>1, <4>2
    <3>2. ASSUME NEW i \in DOMAIN m_completion_queue', NEW j \in DOMAIN m_completion_queue',
                 m_completion_queue'[i].ticket_id = m_completion_queue'[j].ticket_id
          PROVE  i = j
      <4>1. \A k, l \in 1..Len(m_completion_queue) :
              m_completion_queue[k].ticket_id = m_completion_queue[l].ticket_id => k = l
        BY <2>6 DEF Completed
      <4> QED
        BY <3>2, <4>1, <2>6, <2>11
    <3> QED
      BY <3>1, <3>2 DEF Completed
  <2>13. InOrder'
    <3>1. InHand = 1 /\ InHand' = 0
      BY <2>3 DEF InHand
    <3>2. /\ Len(published) \in Nat /\ Len(published') = Len(published) + 1
          /\ published'[Len(published) + 1] = produced[w].ticket_id
          /\ \A i \in 1..Len(published) : published'[i] = published[i]
      BY <2>5, AppendFacts
    <3>3. Len(submitted) \in Nat /\ Len(m_queue) \in Nat
      BY DEF TypeOK
    <3>4. (Len(submitted) = Len(published) + InHand + Len(m_queue))'
      BY <2>2, <3>1, <3>2, <3>3 DEF InOrder
    <3>5. submitted[Len(published) + 1] = produced[w].ticket_id
      BY <2>3, <2>4 DEF InOrder, AnswerTo
    <3>6. (\A i \in 1..Len(published) : published[i] = submitted[i])'
      BY <2>2, <3>2, <3>5 DEF InOrder
    <3>7. (\A v \in Workers : Holds(v) => submitted[Len(published) + 1] = ticket[held[v]].id)'
      BY <2>3
    <3>8. (\A i \in 1..Len(m_queue) :
             submitted[Len(published) + InHand + i] = ticket[m_queue[i]].id)'
      <4>1. ASSUME NEW i \in 1..Len(m_queue)
            PROVE  submitted[Len(published) + 1 + 0 + i] = ticket[m_queue[i]].id
        <5>1. submitted[Len(published) + InHand + i] = ticket[m_queue[i]].id
          BY <4>1 DEF InOrder
        <5>2. Len(published) + InHand + i = Len(published) + 1 + 0 + i
          BY <3>1, <3>2
        <5> QED
          BY <5>1, <5>2
      <4> QED
        BY <4>1, <2>2, <3>1, <3>2
    <3> QED
      BY <3>4, <3>6, <3>7, <3>8 DEF InOrder
  <2> QED
    BY <2>7, <2>8, <2>9, <2>10, <2>12, <2>13
<1>17. ASSUME NEW w \in Workers, DequeueReturn(w) PROVE AtMostOnePlace'
  BY <1>17, SamePlaces DEF TypeOK, DequeueReturn, ToWorker, Awaiting, Holds
<1>18. ASSUME StopWorkers PROVE AtMostOnePlace'
  BY <1>18, SamePlaces DEF StopWorkers, Awaiting, Holds
<1>19. ASSUME JoinWorkers PROVE AtMostOnePlace'
  BY <1>19, SamePlaces DEF JoinWorkers, Awaiting, Holds
<1>20. ASSUME UNCHANGED vars PROVE AtMostOnePlace'
  BY <1>20, SamePlaces DEF vars, Awaiting, Holds
<1> QED
  BY <1>1, <1>2, <1>3, <1>4, <1>5, <1>6, <1>7, <1>8, <1>9, <1>10, <1>11, <1>12,
     <1>13, <1>14, <1>15, <1>16, <1>17, <1>18, <1>19, <1>20
  DEF Next, ClientStep, WorkerStep, Destroyed

-----------------------------------------------------------------------------
LEMMA Invariance == Spec => []IInv
<1>1. Init => IInv
  BY InitIInv
<1>2. IInv /\ [Next]_vars => IInv'
  BY BaseStep, PlacesStep DEF IInv
<1> QED
  BY <1>1, <1>2, PTL DEF Spec

\* Queues, locks, tickets and Results have their types in every reachable state:
\* in particular no Result is built from a pointer that is not a client's.
THEOREM TypeCorrect == Spec => []TypeOK
<1>1. IInv => TypeOK
  BY DEF IInv, Base
<1> QED
  BY <1>1, Invariance, PTL

\* Notifying only when the queue was empty loses no wakeup, in either queue.
THEOREM WakeupsSuffice == Spec => []NoLostWakeup
<1>1. IInv => NoLostWakeup
  BY DEF IInv, Base
<1> QED
  BY <1>1, Invariance, PTL

\* A worker never follows a pointer to the ticket of a call that has returned.
THEOREM PointersAlive == Spec => []TicketLifetime
<1>1. IInv => TicketLifetime
  BY DEF IInv, AtMostOnePlace, Queued, HeldOnce, TicketLifetime, Holds
<1> QED
  BY <1>1, Invariance, PTL

\* channel_enforce returns the outcome of the caller's own request, through the
\* queues and on the fast path.
THEOREM ResultsAreOwn == Spec => []OwnResult
<1>1. IInv => OwnResult
  BY DEF IInv, AtMostOnePlace
<1> QED
  BY <1>1, Invariance, PTL

\* With any number of workers, requests complete in the order of submission.
THEOREM CompletionOrder == Spec => []CompletesInOrder
<1>1. IInv => CompletesInOrder
  <2> SUFFICES ASSUME IInv PROVE CompletesInOrder
    OBVIOUS
  <2>1. /\ Len(published) \in Nat /\ Len(submitted) \in Nat
        /\ Len(m_queue) \in Nat /\ InHand \in Nat
    BY DEF IInv, Base, TypeOK, InHand
  <2> QED
    BY <2>1 DEF IInv, AtMostOnePlace, InOrder, CompletesInOrder
<1> QED
  BY <1>1, Invariance, PTL
=============================================================================
