--------------------------- MODULE ChannelQueues ---------------------------
(***************************************************************************)
(* ChannelDefault::channel_enforce and the two queues behind it: client    *)
(* threads submit a pointer to a Ticket that lives on their own stack, a   *)
(* pool of workers takes tickets from the SubmissionQueue, enforces them   *)
(* and puts a Result in the CompletionQueue, from which the client takes   *)
(* its own.  In fast-path mode the client enforces the ticket itself.      *)
(*                                                                         *)
(* A critical section that takes no other lock is one step.  The worker's  *)
(* is not: SubmissionQueue::dequeue keeps m_queue_lock while it enforces   *)
(* the ticket and while it waits for the completion queue's m_lock.        *)
(***************************************************************************)
EXTENDS Naturals, Sequences, FiniteSets

CONSTANTS
  Clients,      \* threads that call channel_enforce
  Workers,      \* m_worker_pool, of m_parallelism_level threads
  Payloads,     \* the contents a request may carry
  NoContent,    \* content of a Result that nobody filled in
  NoThread,     \* a mutex nobody holds, a worker that holds no ticket
  Modes,        \* the values m_use_fast_path is constructed with
  MaxTickets    \* bound of m_ticket_id: requests in one behaviour

ASSUME ChannelAssumption ==
  /\ IsFiniteSet(Clients)
  /\ NoThread \notin Clients \cup Workers
  /\ Clients \cap Workers = {}
  /\ NoContent \notin Payloads
  /\ Modes \subseteq BOOLEAN
  /\ MaxTickets \in Nat

VARIABLES
  m_ticket_id,         \* next ticket identifier (atomic)
  client,              \* where each client is inside channel_enforce
  ticket,              \* the client's Ticket, a local of channel_enforce
  result,              \* the caller's Result
  m_queue,             \* SubmissionQueue: pointers to tickets, by their owner
  m_queue_lock,        \* the worker that holds it between two steps
  worker,              \* where each worker is in operator() and dequeue
  held,                \* the pointer a worker popped
  produced,            \* the worker's Result
  m_is_running,        \* SubmissionQueue: cleared by stop_worker
  m_completion_queue,  \* CompletionQueue: results
  m_lock,              \* the client that holds it between two steps
  m_counter,           \* NoopObject: obj_enforce calls
  m_statistics,        \* ChannelStatistics: requests recorded
  channel,             \* life of the ChannelDefault object
  m_use_fast_path,
  m_collect_channel_statistics,
  submitted,           \* history: identifiers in the order of enqueue
  published            \* history: identifiers in the order of completion

clientVars == <<client, ticket, result, m_ticket_id>>
workerVars == <<worker, held, produced>>
submissionVars == <<m_queue, m_queue_lock>>
completionVars == <<m_completion_queue, m_lock>>
modeVars == <<m_use_fast_path, m_collect_channel_statistics>>
lifeVars == <<m_is_running, channel, modeVars>>
counterVars == <<m_counter, m_statistics>>
historyVars == <<submitted, published>>
vars == <<clientVars, workerVars, submissionVars, completionVars, lifeVars,
          counterVars, historyVars>>

Contents == Payloads \cup {NoContent}
Ticket == [id : Nat, payload : Contents]
Result == [ticket_id : Nat, content : Contents]
ClientStates == {"idle", "fast_path", "enqueue", "dequeue", "waiting", "peek",
                 "statistics"}
WorkerStates == {"run", "dequeue", "waiting", "timedout", "enforcing",
                 "publishing", "returning", "exited"}

TypeOK ==
  /\ m_ticket_id \in Nat
  /\ client \in [Clients -> ClientStates]
  /\ ticket \in [Clients -> Ticket]
  /\ result \in [Clients -> Result]
  /\ m_queue \in Seq(Clients)
  /\ m_queue_lock \in Workers \cup {NoThread}
  /\ worker \in [Workers -> WorkerStates]
  /\ held \in [Workers -> Clients \cup {NoThread}]
  /\ produced \in [Workers -> Result]
  /\ m_is_running \in BOOLEAN
  /\ m_completion_queue \in Seq(Result)
  /\ m_lock \in Clients \cup {NoThread}
  /\ m_counter \in Nat
  /\ m_statistics \in Nat
  /\ channel \in {"open", "joining", "destroyed"}
  /\ m_use_fast_path \in BOOLEAN
  /\ m_collect_channel_statistics \in BOOLEAN
  /\ submitted \in Seq(Nat)
  /\ published \in Seq(Nat)

\* ChannelDefault constructors: start_workers only in queueing mode.
Init ==
  /\ m_ticket_id = 0
  /\ client = [c \in Clients |-> "idle"]
  /\ ticket = [c \in Clients |-> [id |-> 0, payload |-> NoContent]]
  /\ result = [c \in Clients |-> [ticket_id |-> 0, content |-> NoContent]]
  /\ m_queue = <<>>
  /\ m_queue_lock = NoThread
  /\ m_use_fast_path \in Modes
  /\ m_collect_channel_statistics \in BOOLEAN
  /\ worker = [w \in Workers |-> IF m_use_fast_path THEN "exited" ELSE "run"]
  /\ held = [w \in Workers |-> NoThread]
  /\ produced = [w \in Workers |-> [ticket_id |-> 0, content |-> NoContent]]
  /\ m_is_running = TRUE
  /\ m_completion_queue = <<>>
  /\ m_lock = NoThread
  /\ m_counter = 0
  /\ m_statistics = 0
  /\ channel = "open"
  /\ submitted = <<>>
  /\ published = <<>>

-----------------------------------------------------------------------------
(* Clients: channel_enforce.                                               *)

ToClient(c, s) == client' = [client EXCEPT ![c] = s]

\* build_ticket and Result::set_ticket_id.
BuildTicket(c, p) ==
  /\ channel = "open"
  /\ client[c] = "idle"
  /\ m_ticket_id < MaxTickets
  /\ ticket' = [ticket EXCEPT ![c] = [id |-> m_ticket_id, payload |-> p]]
  /\ result' = [result EXCEPT ![c] = [ticket_id |-> m_ticket_id,
                                      content |-> NoContent]]
  /\ m_ticket_id' = m_ticket_id + 1
  /\ ToClient(c, IF m_use_fast_path THEN "fast_path" ELSE "enqueue")
  /\ UNCHANGED <<workerVars, submissionVars, completionVars, lifeVars,
                 counterVars, historyVars>>

\* Mutant: the fast path copies the buffer and bypasses the object.
EnqueueFastPathBypass(c) ==
  /\ client[c] = "fast_path"
  /\ result' = [result EXCEPT ![c].content = ticket[c].payload]
  /\ ToClient(c, "statistics")
  /\ UNCHANGED <<ticket, m_ticket_id, counterVars, workerVars, submissionVars,
                 completionVars, lifeVars, historyVars>>

\* SubmissionQueue::enqueue_fast_path.
EnqueueFastPath(c) ==
  /\ client[c] = "fast_path"
  /\ result' = [result EXCEPT ![c].content = ticket[c].payload]
  /\ m_counter' = m_counter + 1
  /\ ToClient(c, "statistics")
  /\ UNCHANGED <<ticket, m_ticket_id, m_statistics, workerVars, submissionVars,
                 completionVars, lifeVars, historyVars>>

\* Workers blocked on m_is_empty resume at their test of the queue's size.
NotifyWorkers ==
  [w \in Workers |-> IF worker[w] = "waiting" THEN "dequeue" ELSE worker[w]]

\* SubmissionQueue::enqueue.
Enqueue(c) ==
  /\ client[c] = "enqueue"
  /\ m_queue_lock = NoThread
  /\ m_queue' = Append(m_queue, c)
  /\ worker' = IF m_queue = <<>> THEN NotifyWorkers ELSE worker
  /\ submitted' = Append(submitted, ticket[c].id)
  /\ ToClient(c, "dequeue")
  /\ UNCHANGED <<ticket, result, m_ticket_id, held, produced, m_queue_lock,
                 completionVars, lifeVars, counterVars, published>>

\* Mutant: a client that finds the completion queue empty returns.
AwaitResultGivesUp(c) ==
  /\ client[c] = "dequeue"
  /\ m_lock = NoThread
  /\ m_completion_queue = <<>>
  /\ ToClient(c, "statistics")
  /\ UNCHANGED <<ticket, result, m_ticket_id, workerVars, submissionVars,
                 completionVars, lifeVars, counterVars, historyVars>>

\* CompletionQueue::dequeue on an empty queue: wait releases m_lock.
AwaitResult(c) ==
  /\ client[c] = "dequeue"
  /\ m_lock = NoThread
  /\ m_completion_queue = <<>>
  /\ ToClient(c, "waiting")
  /\ UNCHANGED <<ticket, result, m_ticket_id, workerVars, submissionVars,
                 completionVars, lifeVars, counterVars, historyVars>>

\* CompletionQueue::dequeue past its inner loop, m_lock held.
LockResults(c) ==
  /\ client[c] = "dequeue"
  /\ m_lock = NoThread
  /\ m_completion_queue # <<>>
  /\ m_lock' = c
  /\ ToClient(c, "peek")
  /\ UNCHANGED <<ticket, result, m_ticket_id, m_completion_queue, workerVars,
                 submissionVars, lifeVars, counterVars, historyVars>>

\* Mutant: the client takes whatever is at the front.
IsMyTicketUnchecked(c) == TRUE

IsMyTicket(c) == Head(m_completion_queue).ticket_id = ticket[c].id

\* The front Result is the client's own: take it and unlock.
TakeResult(c) ==
  /\ client[c] = "peek"
  /\ IsMyTicket(c)
  /\ result' = [result EXCEPT ![c] = Head(m_completion_queue)]
  /\ m_completion_queue' = Tail(m_completion_queue)
  /\ m_lock' = NoThread
  /\ ToClient(c, "statistics")
  /\ UNCHANGED <<ticket, m_ticket_id, workerVars, submissionVars, lifeVars,
                 counterVars, historyVars>>

\* The front Result is another client's: the outer loop runs again, and the
\* queue is not empty, so m_lock is not released.
PeekAgain(c) ==
  /\ client[c] = "peek"
  /\ ~IsMyTicket(c)
  /\ UNCHANGED vars

\* std::condition_variable::wait may return without a notification.
SpuriousWakeup(c) ==
  /\ client[c] = "waiting"
  /\ ToClient(c, "dequeue")
  /\ UNCHANGED <<ticket, result, m_ticket_id, workerVars, submissionVars,
                 completionVars, lifeVars, counterVars, historyVars>>

\* ChannelStatistics::update_statistic_entry, if statistics are collected, and
\* channel_enforce returns.
UpdateStatistics(c) ==
  /\ client[c] = "statistics"
  /\ m_statistics' = IF m_collect_channel_statistics THEN m_statistics + 1
                     ELSE m_statistics
  /\ ToClient(c, "idle")
  /\ UNCHANGED <<ticket, result, m_ticket_id, m_counter, workerVars,
                 submissionVars, completionVars, lifeVars, historyVars>>

-----------------------------------------------------------------------------
(* Workers: SubmissionQueue::operator() and dequeue.                       *)

ToWorker(w, s) == worker' = [worker EXCEPT ![w] = s]

CheckRunning(w) ==
  /\ worker[w] = "run"
  /\ ToWorker(w, IF m_is_running THEN "dequeue" ELSE "exited")
  /\ UNCHANGED <<clientVars, held, produced, submissionVars, completionVars,
                 lifeVars, counterVars, historyVars>>

\* Mutant: a timeout does not look at m_is_running.
NeverInterrupted(w) == FALSE

\* A timeout with the channel stopping: dequeue returns false.
Interrupted(w) == worker[w] = "timedout" /\ ~m_is_running

DequeueInterrupted(w) ==
  /\ Interrupted(w)
  /\ m_queue_lock = NoThread
  /\ ToWorker(w, "run")
  /\ UNCHANGED <<clientVars, held, produced, submissionVars, completionVars,
                 lifeVars, counterVars, historyVars>>

DequeueEmpty(w) ==
  /\ worker[w] \in {"dequeue", "timedout"} /\ ~Interrupted(w)
  /\ m_queue_lock = NoThread
  /\ m_queue = <<>>
  /\ ToWorker(w, "waiting")
  /\ UNCHANGED <<clientVars, held, produced, submissionVars, completionVars,
                 lifeVars, counterVars, historyVars>>

\* Mutant: m_queue_lock is released once the pointer is popped.
DequeueTicketUnlocks(w) ==
  /\ worker[w] \in {"dequeue", "timedout"} /\ ~Interrupted(w)
  /\ m_queue_lock = NoThread
  /\ m_queue # <<>>
  /\ held' = [held EXCEPT ![w] = Head(m_queue)]
  /\ m_queue' = Tail(m_queue)
  /\ ToWorker(w, "enforcing")
  /\ UNCHANGED <<clientVars, produced, m_queue_lock, completionVars, lifeVars,
                 counterVars, historyVars>>

\* Mutant: the pop is missing.
DequeueTicketNoPop(w) ==
  /\ worker[w] \in {"dequeue", "timedout"} /\ ~Interrupted(w)
  /\ m_queue_lock = NoThread
  /\ m_queue # <<>>
  /\ m_queue_lock' = w
  /\ held' = [held EXCEPT ![w] = Head(m_queue)]
  /\ ToWorker(w, "enforcing")
  /\ UNCHANGED <<clientVars, produced, m_queue, completionVars, lifeVars,
                 counterVars, historyVars>>

DequeueTicket(w) ==
  /\ worker[w] \in {"dequeue", "timedout"} /\ ~Interrupted(w)
  /\ m_queue_lock = NoThread
  /\ m_queue # <<>>
  /\ m_queue_lock' = w
  /\ held' = [held EXCEPT ![w] = Head(m_queue)]
  /\ m_queue' = Tail(m_queue)
  /\ ToWorker(w, "enforcing")
  /\ UNCHANGED <<clientVars, produced, completionVars, lifeVars, counterVars,
                 historyVars>>

\* wait_for returns after m_timeout_dequeue.
Timeout(w) ==
  /\ worker[w] = "waiting"
  /\ ToWorker(w, "timedout")
  /\ UNCHANGED <<clientVars, held, produced, submissionVars, completionVars,
                 lifeVars, counterVars, historyVars>>

\* Mutant: the Result keeps the pointer instead of the content behind it.
EnforceMechanismShallow(w) ==
  /\ worker[w] = "enforcing"
  /\ produced' = [produced EXCEPT ![w] = [ticket_id |-> ticket[held[w]].id,
                                          content |-> held[w]]]
  /\ m_counter' = m_counter + 1
  /\ ToWorker(w, "publishing")
  /\ UNCHANGED <<clientVars, held, submissionVars, completionVars, lifeVars,
                 m_statistics, historyVars>>

\* The Result is built from the ticket behind the popped pointer.
EnforceMechanism(w) ==
  /\ worker[w] = "enforcing"
  /\ produced' = [produced EXCEPT ![w] = [ticket_id |-> ticket[held[w]].id,
                                          content |-> ticket[held[w]].payload]]
  /\ m_counter' = m_counter + 1
  /\ ToWorker(w, "publishing")
  /\ UNCHANGED <<clientVars, held, submissionVars, completionVars, lifeVars,
                 m_statistics, historyVars>>

\* Mutant: notify_one instead of notify_all.
NotifyOneClient ==
  [c \in Clients |->
     IF c = CHOOSE d \in Clients : client[d] = "waiting" \/ \A e \in Clients : client[e] # "waiting"
       THEN IF client[c] = "waiting" THEN "dequeue" ELSE client[c]
       ELSE client[c]]

\* Mutant: the notification is missing.
NotifyNoClient == [c \in Clients |-> client[c]]

NotifyClients ==
  [c \in Clients |-> IF client[c] = "waiting" THEN "dequeue" ELSE client[c]]

\* CompletionQueue::enqueue.
EnqueueInCompletionQueue(w) ==
  /\ worker[w] = "publishing"
  /\ m_lock = NoThread
  /\ m_completion_queue' = Append(m_completion_queue, produced[w])
  /\ client' = IF m_completion_queue = <<>> THEN NotifyClients ELSE client
  /\ published' = Append(published, produced[w].ticket_id)
  /\ ToWorker(w, "returning")
  /\ UNCHANGED <<ticket, result, m_ticket_id, held, produced, submissionVars,
                 m_lock, lifeVars, counterVars, submitted>>

\* dequeue returns true and its unique_lock is destroyed.
DequeueReturn(w) ==
  /\ worker[w] = "returning"
  /\ m_queue_lock' = NoThread
  /\ held' = [held EXCEPT ![w] = NoThread]
  /\ ToWorker(w, "run")
  /\ UNCHANGED <<clientVars, produced, m_queue, completionVars, lifeVars,
                 counterVars, historyVars>>

-----------------------------------------------------------------------------
(* ~ChannelDefault: only when no thread is inside channel_enforce, the     *)
(* lifetime rule every C++ object has.                                     *)

StopWorkers ==
  /\ channel = "open"
  /\ \A c \in Clients : client[c] = "idle"
  /\ channel' = "joining"
  /\ m_is_running' = (m_is_running /\ m_use_fast_path)
  /\ UNCHANGED <<clientVars, workerVars, submissionVars, completionVars,
                 modeVars, counterVars, historyVars>>

JoinWorkers ==
  /\ channel = "joining"
  /\ \A w \in Workers : worker[w] = "exited"
  /\ channel' = "destroyed"
  /\ UNCHANGED <<clientVars, workerVars, submissionVars, completionVars,
                 m_is_running, modeVars, counterVars, historyVars>>

Destroyed == channel = "destroyed" /\ UNCHANGED vars

-----------------------------------------------------------------------------
ClientStep(c) ==
  \/ \E p \in Payloads : BuildTicket(c, p)
  \/ EnqueueFastPath(c) \/ Enqueue(c)
  \/ AwaitResult(c) \/ LockResults(c) \/ TakeResult(c) \/ PeekAgain(c)
  \/ SpuriousWakeup(c)
  \/ UpdateStatistics(c)

WorkerStep(w) ==
  \/ CheckRunning(w)
  \/ DequeueInterrupted(w) \/ DequeueEmpty(w) \/ DequeueTicket(w)
  \/ Timeout(w)
  \/ EnforceMechanism(w) \/ EnqueueInCompletionQueue(w) \/ DequeueReturn(w)

Next ==
  \/ \E c \in Clients : ClientStep(c)
  \/ \E w \in Workers : WorkerStep(w)
  \/ StopWorkers \/ JoinWorkers \/ Destroyed

Spec == Init /\ [][Next]_vars

(* Threads that can run are eventually run; a timeout eventually fires.    *)
(* Nothing obliges a client to call channel_enforce, a condition variable  *)
(* to wake spuriously, or the owner to destroy the channel.                *)
ClientProgress(c) ==
  \/ EnqueueFastPath(c) \/ Enqueue(c)
  \/ AwaitResult(c) \/ LockResults(c) \/ TakeResult(c)
  \/ UpdateStatistics(c)

Fairness ==
  /\ \A c \in Clients : WF_vars(ClientProgress(c))
  /\ \A w \in Workers : WF_vars(WorkerStep(w))
  /\ WF_vars(JoinWorkers)

FairSpec == Spec /\ Fairness
-----------------------------------------------------------------------------
(* Properties.                                                             *)

Awaiting(c) == client[c] \in {"dequeue", "waiting", "peek"}
IsHeldBy(w, c) == worker[w] \in {"enforcing", "publishing"} /\ held[w] = c
IsResultOf(r, c) == r.ticket_id = ticket[c].id

\* channel_enforce passes &ticket to the queue: a pointer that a worker may
\* still dereference is that of a client that has not returned.
TicketLifetime ==
  /\ \A i \in DOMAIN m_queue : Awaiting(m_queue[i])
  /\ \A w \in Workers : worker[w] = "enforcing" => Awaiting(held[w])

\* The Result that channel_enforce hands back is that of the caller's own
\* request, with that request's content.
OwnResult ==
  \A c \in Clients :
    client[c] = "statistics" =>
      result[c] = [ticket_id |-> ticket[c].id, content |-> ticket[c].payload]

\* However many workers there are, requests complete in the order in which they
\* were submitted: dequeue holds m_queue_lock until the Result is published.
CompletesInOrder ==
  /\ Len(published) <= Len(submitted)
  /\ \A i \in 1..Len(published) : published[i] = submitted[i]

\* Both queues notify only when they were empty, and that is enough: nobody is
\* blocked on a condition variable whose queue has something in it.
NoLostWakeup ==
  /\ m_queue # <<>> => \A w \in Workers : worker[w] # "waiting"
  /\ m_completion_queue # <<>> => \A c \in Clients : client[c] # "waiting"

\* Every request reaches the enforcement object once and, if statistics are
\* collected, is recorded once: the object's counter is ahead of the channel's
\* statistics by the requests whose client has yet to come back for them.
EnforcedUncounted ==
  {c \in Clients :
     \/ client[c] = "statistics"
     \/ \E w \in Workers : worker[w] = "publishing" /\ held[w] = c
     \/ /\ Awaiting(c)
        /\ \E i \in DOMAIN m_completion_queue :
             IsResultOf(m_completion_queue[i], c)}

CountersAgree ==
  IF m_collect_channel_statistics
    THEN m_counter = m_statistics + Cardinality(EnforcedUncounted)
    ELSE m_statistics = 0

\* A client that holds m_lock and finds another's Result at the front of the queue.
Spins(c) == client[c] = "peek" /\ ~IsMyTicket(c)

\* A request that entered channel_enforce is answered and returns, in either mode;
\* unless a client comes to spin in CompletionQueue::dequeue, which with several
\* clients of the queues it may, and then for ever.
EveryRequestAnswered ==
  \A c \in Clients :
    client[c] # "idle" ~> client[c] = "idle" \/ \E d \in Clients : Spins(d)

\* ~ChannelDefault ends: every worker notices m_is_running, those blocked on the
\* empty queue by their timeout.
DestructorEnds == channel = "joining" ~> channel = "destroyed"

\* CompletionQueue::dequeue is documented to wait until another thread picks a
\* front element that is not the caller's: then the caller is not left at the
\* same element for ever.
OtherThreadPicks ==
  \A c \in Clients : Spins(c) ~> ~Spins(c)
=============================================================================
