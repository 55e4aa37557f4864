# PAIO: models, checks and proofs

PAIO is a user-level library that puts a programmable data plane stage into an
I/O stack. An application thread hands a request to `PaioStage`; the stage picks
a channel and, in it, an enforcement object (a no-op or a token-bucket rate
limiter) that lets the request through when its policy says so. A control plane,
over a socket, creates channels and objects (housekeeping rules), tunes them
(enforcement rules) and collects statistics.

The modules here are TLA+ translations of the C++ code; `PROJECT.json` maps each
definition to the lines it stands for.

## 1. Inventory

| Component | State | Operations | Concurrency and hard behaviour |
|---|---|---|---|
| `PaioStage` | ready and shutdown flags, owner of the rest | `enforce_request` | any number of application threads; before the stage is ready requests are refused |
| `Core` | `m_channels` (token to channel), id-to-token linkers, housekeeping table | create channels and objects, route requests, employ rules, collect statistics | requests read `m_channels` without its lock while the control thread inserts |
| `HousekeepingTable` | rules by id, two counters | insert, select, traverse, mark, remove | hash order; counters updated outside the lock |
| `Agent` | ready flag, execute-on-receive flag | employ, execute, mark ready, file mode, statistics | glue between southbound and Core |
| `ChannelDefault` | ticket counter, object linkers, worker pool, statistics | `channel_enforce`, create and configure objects, destructor | clients, workers and the control thread meet here |
| `SubmissionQueue` | queue of `Ticket*`, objects, running flag | `enqueue`, `enqueue_fast_path`, `dequeue`, `operator()` | condition variable with timeout; lock kept while enforcing |
| `CompletionQueue` | queue of `Result` | `enqueue`, `dequeue(ticket_id)` | clients wait for one particular element |
| `NoopObject` | counter | `obj_enforce` | none |
| `DynamicRateLimiter`, `TokenBucket` | capacity, tokens, period, next refill | `obj_enforce`, init, rate, refill window | a request waits for tokens with the object locked; real time; doubles |
| `TokenBucketThreaded` | the same and a refill thread | consume, refill, set, interrupt | tests only; setters without lock; several consumers on one condition variable |
| `TBStats` | ring of entries | store, collect, discard old entries | index arithmetic at the wrap; three critical sections per collection |
| `ChannelStatistics` | counters per class of request, collection times | update, collect, collect detailed, terminate | requests beside collections; time read outside the lock |
| `ConnectionManager`, handshake and southbound handlers | sockets, two threads in turn, shutdown flag | handshake, listen, answer, join | lost connections, shutdown beside a blocked read, exceptions that leave a thread |
| Differentiation | active classifiers, bound builder function | define, bind, build token | redefinition while requests run |
| `RulesParser`, options | none that outlives a call | lines to rules | short lines, unlisted names, limits |
| `PosixLayer`, `PaioInstance` | default context, transformation flag | write, read and others, enforce | defaults and flag read without lock, the flag twice; waits for the stage |
| Rules, status, logging | none that outlives a call | | |

What makes each correct: a channel returns to each caller the outcome of its own
request, enforced exactly once, and never touches a ticket whose owner has left;
a limiter lets at most the configured amount through, charges each request its
cost and serves it in the end; the stage installs each rule once, completely, and
routes each request to the object in place for it; statistics report each request
in one window; the control plane gets one truthful answer per operation and may
disappear; an instance does to the file what the stage enforced. The hazards, each at its line
and with the properties that would catch it, are in `PROJECT.json`.

## 2. Modules

### The channel: `ChannelQueues`, `EnforcementService`, `ChannelRefinement`

`ChannelQueues` has the clients inside `channel_enforce`, the workers inside
`SubmissionQueue::operator()` and `dequeue`, and the destructor. A client's
`Ticket` is a local variable, so the queue's pointer is the client's name, and
dereferencing it reads whatever ticket that client has *now*. Identifiers come
from an atomic counter. A critical section that takes no other lock is one step;
the worker's is four (`DequeueTicket`, `EnforceMechanism`,
`EnqueueInCompletionQueue`, `DequeueReturn`) because `dequeue` keeps
`m_queue_lock` while it enforces and while it waits for the completion queue.
A client keeps `m_lock` between `LockResults` and `TakeResult`: the outer loop
of `CompletionQueue::dequeue` looks again (`PeekAgain`) without releasing it.
Condition variables may wake spuriously, `wait_for` times out, and notification
is sent to all waiters only when the queue was empty, as in the code.
The enforcement object is the no-op (`m_no_match_object`, or one selected); what
rate limiting adds is in `RateLimiter`. The submission history (`submitted`,
`published`) exists only for the property on order. Two choices of a stage are made
in `Init`: the mode (`Modes`: queues or fast path) and whether the channel keeps
statistics.

`EnforcementService` says what `channel_enforce` promises: call, enforce once,
answer with the call's own content, return. `ChannelRefinement` maps the queues
to it: a call is "enforced" while a worker or the completion queue has its
Result.

### The rate limiter: `RateLimiter`, `MCRateLimiter`

One `DynamicRateLimiter` with its bucket. `m_mutex` is held by at most one
enforcer, which waits for tokens with it; a configuration is one step because
`SubmissionQueue::configure_enforcement_object` holds `m_objects_lock`
throughout. Tokens are doubles in the code, rate * period / second; the module
counts them in units of 1/Second token, so every amount is a natural number.
Where the code cuts a double to a long (`get_token_bucket_rate`) the set
`RoundsDown` names the pairs of rate and period for which IEEE division yields
less than the rate; `MCRateLimiter` gives it the value that doubles have for the
chosen numbers. A window of 0 is accepted, as in the code, and the shipped rules
contain one: the capacity is then 0, and changing the window again cuts 0/0 to a
long. That long may be any member of `NaNCasts` (what x86 and ARM make of it), and
`undefined` records that it happened: from then on amounts may be negative. A
configuration that is not listed is refused as not supported
(`ConfigureNotSupported`). Time is relative: only the distance to `m_next_refill_period` is
kept, and `Tick` shortens it. `system_clock` is taken to be monotonic. The history
`recent` has, for each k, what was consumed in this tick and the k before it.

### The stage: `StageControl`, `StagePolicies`, `StageRefinement`, `MCStageControl`

One control thread (`listen` handles one operation at a time) and application
threads. A housekeeping rule is inserted, then executed at once
(`m_execute_on_receive`, a variable, since `Agent::set_execute_on_receive` changes
it) or by a later traversal of the table, whose order is any permutation: an
`unordered_map` promises nothing else, so an object's rule may precede its
channel's, fail, and end the traversal. Execution is cut where a data thread can
see a difference: the emplacement in `m_channels`, the linker, the object, its
linker, its initial configuration, the mark in the table. `select_channel` by a
data thread during the emplacement is a data race; of its outcomes the model has
"found" and "not found" and the run `stage_race` shows the race itself. A crash is
not modelled. The answer to the control plane (`ack`) is OK or error, whatever the
`PStatus`. Two states of `execute_housekeeping_rule` cannot be reached from its
callers and are left out: the identifier is not in the table, and the rule was
enforced already.

`StagePolicies` is what control plane and applications may rely on: a table of
policies by channel and object token. A rule is accepted once and applied at most
once, in one step; only a limiter's initial settings may follow its creation. An
enforcement rule tunes one limiter that has the identifiers it names. A call
returns what the table has for its tokens at one moment between call and return,
and before the stage is ready it is refused. One exception is stated, not hidden:
while a channel is being opened a request may pass as if its channel did not
exist (`Miss`). `StageRefinement` maps the stage to it. A rule counts as
applied from the step that makes its channel or object visible to requests,
although link, configuration and mark are still to come; the table is read off
`m_enf_objects` by `select_enforcement_object`; a call ends when its thread has
selected an object or found no channel.

### Statistics: `StageStatistics`, `MCStageStatistics`

The counters of all channels, the requests that add to them, and the listener on
its way through `Agent`, `Core` and `ChannelStatistics` for both kinds of
collection. The time is read before `m_stats_mutex` is taken
(`CollectReadsClock`), for a detailed collection the elapsed time too. A rate is a
pair of amount and time, so sums and comparisons are exact. A request's load is its
number of operations and their size; what it adds depends on the metric the stage
was built with (`CounterValue`). The detailed answer is an ordered map, so
`emplace` drops a repeated identifier. `aggregate` has the
four answers of `collect_instance_statistics`, entry by entry: which entries of
which channels are added up is what `AggregatesCountOnce` is about. Three histories
(`taken`, `delivered`, `window_time`) state what must add up; they count what falls
into windows, also where an aggregate then leaves an entry out.

### The threaded bucket: `TokenBucketThreaded`, `TBStats`

`TBStats` has the ring's methods as operators on a record; `TokenBucketThreaded`
makes steps of them, beside the refill thread, consumers that wait, and setters
that take no lock. A collection is three steps (clock, garbage collection, copy),
because `m_lock` is released in between. `try_consume` reads the capacity twice and
`consume_operation` tests the tokens in one step and subtracts in another, because
the setters come in between; `resized` and `raced` record that one did. Capacity 0
is allowed, and `try_consume` then loops. What the ring's index arithmetic does at
the wrap is kept: an index of -1 reads the memory before the ring (`OutOfRing`), and
a ring that went round is read without its newest entry or not at all. An entry carries its place in the order
of storing, by which the property on reports recognises it. A sleep or a wait may
end at any time.

### Life of a stage: `StageLifecycle`, `RulesFile`, `Differentiation`, `MCStageLifecycle`

The four constructors of `PaioStage` differ in which options they pass on;
`config` is the choice. Without a control plane `Agent` reads rules from files
(`RulesFile`: each line becomes a rule, nothing, an exception, or a read past its
end, which is `process = "undefined"`). With one, `ConnectionManager` runs the
handshake thread, joins it, builds the southbound handler and runs its listener.
A word where a number is expected is an exception of `std::stol`, which ends the
construction. The control plane is the environment: it sends operations and,
separately, the structures that follow them (of `collect_stats` too), and may close
at any time. A housekeeping operation of an unlisted subtype is acknowledged as an
error and nothing more is read; no structure is defined for one, so none is sent. A read blocks, takes what
is there, or sees the end; a write to a closed connection may fail or succeed. An
exception that leaves the thread ends the process (`Terminate`, with its cause).
The loops of the constructors take one step per default channel or rule
(`position` is the loop's variable), and so does a traversal of the table. The effect of a rule is that
of `StageControl` in one step, tokens being the texts of `Differentiation`, the
module that has what the two builders hash.

### A request end to end: `PosixInstance`, `MCPosixInstance`

One call of a `PosixLayer` or `PaioInstance`: the context from the defaults (read
one by one without the lock, or under it), the flag, the wait until the stage is
ready, the channel's token, the object's token, the enforcement, the flag again
and the file. Meanwhile the control thread creates channels and objects in the
steps a request can see, definers change classifiers in two critical sections
(`set_classifiers`, `bind_builder`), and the defaults are set. An object that the
stage cannot make, or whose token is taken, or whose channel has the reserved token,
is refused; a limiter of capacity 0 never lets its caller go, and keeps the lock
that the channel's other calls need (`ObjectsLocked`). Building a token calls a
`std::function` that `bind_builder` may be assigning, without a lock: a data race.
Both functions are lambdas that capture `this` and nothing else, and the model has
the old and the new one as the outcomes. The hash is a
constant operator; the instance gives it one collision and one text with the
reserved token.

## 3. Runs

| Run | Bounds | Shows |
|---|---|---|
| `channel` | 2 clients, 2 workers, 2 contents, 3 tickets, both modes, with and without statistics | types; `TicketLifetime`, `OwnResult`, `CompletesInOrder`, `NoLostWakeup`, `CountersAgree`; the channel implements `EnforcementService`; a request is answered (unless a client spins); the destructor ends |
| `channel_spin` | 2 clients, 1 worker | violation: a client spins with the lock the other needs |
| `rate_limiter` | 4 ticks to the second, periods 0, 1, 2, 4, rates 0 to 3, costs 0 to 3 | `TokensWithinCapacity`, `SpentWithinGrant`, `PaysItsCost`, `TwoBucketfulsPerPeriod`; a request is served if capacity > 0 |
| `stage` | 4 rules, 2 of which clash, both modes, any order, 1 default channel with an object, 1 thread | linkers and objects agree, enforced rules are in force, nothing is installed twice, a traversal reported as ok is complete, routing, objects stay; the stage implements `StagePolicies` |
| `stage_race` | 1 rule, 1 thread | violation: a search during an emplacement |
| `stage_unsupported` | a channel and an object of an unknown type, 1 thread | violation: a traversal is reported as ok with a rule still pending |
| `statistics` | 3 channels (foreground, flush, compaction), 3 context types, both metrics, 2 requests, 2 operations | `NothingLostBetweenWindows`, `WindowsTileTime`, `AggregatesCountOnce`, `AnswersAreComplete` |
| `token_bucket_threaded` | 2 consumers, rates 0 to 4, costs 1 and 3, 1 setting, ring of 2, 4 entries | `TokensNotOverdrawn`, `PaysItsCost`, `ReportedInOrder`; a consumer returns |
| `lifecycle` | 42 configurations, 15 operations, 4 sent, 2 unread | `OneAnswerEach`, `OkMeansDone`, `ReadyForAReason`, `ObjectsFindTheirChannels`, `TerminatesInMidOperation`; the destructor ends |
| `default_rules` | the shipped files | violation: not all default rules are enforced |
| `instance` | 1 thread, 1 definer, 7 requests of the control plane, 1 setting | `BuilderFollowsClassifiers`, `RoutedByClassifiers`, `WrittenAsEnforced`, `RefusedForAReason`; a call returns (unless a limiter of capacity 0 has its channel) |
| `instance_setter` | 1 thread that writes, 1 setting | violation: a write beside `set_io_transformation` |

Why the bounds suffice. Two clients and two workers are the smallest channel in
which a front element belongs to somebody else, a worker waits for the queue
another one holds, and a notification meets several waiters; with three tickets a
client calls again while an earlier result of its own could still be about. The
limiter's numbers give requests of no tokens, of less than a bucketful, of
exactly one and of several, a bucket that is never filled (rate or period 0),
changes of period in both directions, and 0/0. The stage's rules clash by channel token and by
object token, and depend on one another; enforcement rules name channels and
objects that exist, that do not exist yet, and that never do. One data thread is enough: data threads
influence neither the control thread nor each other in `StageControl`, nor do
calls in `PosixInstance`, except that a call in a limiter of capacity 0 stops the
others of its channel, which `CallReturns` excepts; so a violation with several
threads is one with the thread concerned alone. Two operations are the fewest with which a window has an end and
a beginning that must meet, and with which a general and a detailed collection
follow each other; the requests fall into entries that the aggregates treat
differently, the last entry included. A ring of two goes round twice with four entries.
One setting is enough to come between any two steps of a consumer.
Four operations are a channel, its object, its configuration and the ready mark;
two unread ones let the control plane run ahead of the listener. One definer and
the control thread, which defines the defaults of a new channel, are two threads
between `set_classifiers` and `bind_builder` of one builder.

Deadlock is checked in the runs of the channel, the limiter and the stage. A state
in which no action is possible would be reported; `Destroyed` is the one way the
channel may rest, and `PeekAgain` keeps a spinning client from being called
deadlocked, which is why `channel_spin` states the hang as a liveness property.
The other runs may rest: the process ends or is destroyed (`statistics`,
`lifecycle`, `default_rules`), the control plane may stay silent for ever, or the
bounded calls are all done (`token_bucket_threaded`, `instance`). What must not
rest is stated as a liveness property there.

An object type that is neither no-op nor limiter (`CreateObjectFails`, not
supported) is not among the rules of `stage`, which is too large with a fifth: it is
what `stage_unsupported` is about, and `instance` has one.

The largest runs have 774,560 distinct states (`statistics`), 478,524 (`instance`),
392,786 (`channel`, with liveness) and 254,753 (`lifecycle`).

Exceptions are stated in the properties where the code's own behaviour needs them,
each by a name: a client that spins (`Spins`), an unlocked setter that came between
two steps (`raced`, `resized`), the read before the ring (`OutOfRing`), a limiter that
lets nothing pass (`ObjectsLocked`, capacity 0), a flag switched between its two reads
(`flag`, `flag_again`). `ConsumerReturns` speaks of a consumer once the others take no
more tokens: nothing in the code keeps others from taking each refill first.

### Fairness

`ChannelQueues`: weak fairness of each client's steps (but the spin, the
spurious wakeup and starting a call), of each worker and of the final join. A
ready thread is scheduled, and `wait_for` ends; nothing obliges an application
to make calls or destroy the channel. Weak fairness is enough as long as nobody
spins, and with one client nobody does; once one spins, `channel_spin` shows that no
fairness helps. `RateLimiter`: time
passes, and the thread in the bucket runs. Requests and configurations are never
obliged to come. `TokenBucketThreaded`: weak fairness of the refill thread and of
each consumer inside `try_consume`; its waits have a timeout. `StageLifecycle`:
weak fairness of the connection thread and of the join; neither the application's
shutdown nor anything of the control plane is obliged to happen. `PosixInstance`:
weak fairness of a call that has begun. `StageStatistics` has no liveness
property and no fairness.

### Findings

Each violation run checks one sentence of the repository against the code; the
quotations are in `PROJECT.json`.

1. `CompletionQueue::dequeue` does not wait for others to pick their element: it
   loops with the lock they need. With two clients in queueing mode both hang
   once a result is looked at by the wrong one. (The default mode is the fast
   path.)
2. `m_channels` is searched without the lock the insertion takes.
3. `execute_housekeeping_rules` answers OK although a rule is left: a rule for an
   unsupported object type does not stop it, and the next rule's status is returned.
4. `set_io_transformation` is not safe beside a write, which reads the flag twice: the
   file gets the untransformed buffer, or the content of a Result that has none.
5. The default rules are not all enforced: the shipped files have two channels
   that the shipped classifiers do not tell apart, and the stage is then not
   marked ready either.

A sixth is stated in `ReadyForAReason` instead of a run of its own: `agent.hpp:94-97`
has the stage marked ready only after the default rules were executed, while the
code asks that the last housekeeping rule was accepted, and with
`execute_on_receive` off that is its insertion. Finding 5 is the same condition seen
from the other side: there the last rule fails, and the stage is not marked ready.

Other places where the code does less than a comment says (a rate cut by rounding,
a request without a channel reported as enforced, identifiers that need not be
unique, the ring's index -1) are hazards in `PROJECT.json`, with a note.

## 4. Proofs

TLAPS checks the theorems for every value of the constants: any number of
clients, threads, channels, rules, requests. They need no fairness and are
stated for the same `Spec` the runs check. In each module `IInv` is the
inductive invariant; it was checked by TLC before it was proved. A lemma per
action, or per family of actions, shows that a step preserves it.

`ChannelQueuesProofs`, from `ChannelAssumption` (finitely many clients, which
are other threads than the workers; the null values are none of the values):
`TypeCorrect`, `WakeupsSuffice` (`NoLostWakeup`), `PointersAlive`
(`TicketLifetime`), `ResultsAreOwn` (`OwnResult`) and `CompletionOrder`
(`CompletesInOrder`), in both modes. None of them is inductive. `IInv` has two
halves:

- `Base`: the types, `NoLostWakeup`, and who holds which mutex (`Locks`);
- `AtMostOnePlace`: identifiers of calls in progress differ (`Tickets`); the submission
  queue has each waiting client at most once (`Queued`); a worker's pointer is
  that of a waiting client that is not in the queue, and the Result it made
  answers that client (`HeldOnce`); each Result in the completion queue answers a
  waiting client that is nowhere else (`Completed`); what was submitted is what
  was published, then the ticket in hand, then the queue (`InOrder`).

That a front element with the caller's identifier is the caller's own Result
needs `Tickets` and `Completed` together; that a pointer is alive needs to know
that a client whose Result is taken has no pointer left, which is `Completed`
again; the order needs mutual exclusion of workers (`Locks`). `BaseStep` and
`PlacesStep` have one step per action; `SamePlaces` settles the actions that move
nothing.

`ChannelRefinementProofs`, from the same `IInv`: `Refinement`, the channel
implements `EnforcementService` (`ImplementsService`), and `EachCountedOnce`
(`CountersAgree`). Every step of the channel is one of the service or leaves
what the service sees (`View`) as it is. The invariant is needed where a phase is
read off the queues: a popped pointer leaves its client in the phase it was in
because nobody else has it, and an enforcement answers the client that called.

`RateLimiterProofs`, from `RateAssumption` (positive second, natural periods, rates
and costs, 0 included; `RoundsDown` names positive rates and periods, `NaNCasts` any
integers): `TypeCorrect`,
`NeverOverfull` (`TokensWithinCapacity`), `NoFreeTokens` (`SpentWithinGrant`),
`ExactCharge` (`PaysItsCost`) and `BurstsAreBounded` (`TwoBucketfulsPerPeriod`).
The first four are inductive together with the types: that tokens stay natural
(until 0/0 was cut, `undefined`) needs that an iteration never exceeds what is left to
pay; that what is owed stays natural even then needs `Turns`: a negative bucketful is
taken only while something is left to pay, and adds to it. The bound on a burst
needs `Bursts`, which speaks of windows of every length up to a period: what was
consumed in the window and what is in the bucket are together at most two
bucketfuls, and one if the window began after the last refill.

`TokenBucketThreadedProofs`, from `ThreadedAssumption` (natural rates, periods
and costs, 0 included): `TypeCorrect`, `NeverOverdrawn` (`TokensNotOverdrawn`), `CostIsPaid`
(`PaysItsCost`) and `EntriesReportedInOrder` (`ReportedInOrder`), for a ring of
any length. `Paying` says what each place of `try_consume` still owes, also between
the two reads of the capacity and between test and subtraction. `Ring` says
which entry each slot holds: the newest is at `m_position`, which is the number of
entries kept less one, modulo the length; older ones lie backwards from it, around
the end when more were stored than fit.

`StageControlProofs`, from `StageAssumption` (finitely many rules; some channel
and object tokens; the default channels have distinct identifiers and tokens, at
most one default object; None is neither a token nor an identifier):
`LinksAreRight` (`LinkersMatchObjects`), `MarksAreTrue` (`EnforcedMeansInstalled`),
`RulesAppliedOnce` (`InstalledOnce`), `RequestsReachObjects`
(`RoutedToItsObject`), `ObjectsAreKept` (`ObjectsStay`), `TypeCorrect`,
`TraversalsAreComplete` (`AcknowledgedTraversalIsComplete`) and
`StageIsAPolicyTable` (`ImplementsPolicies`).
A rule is executed in several steps, so no property holds by itself: `Handling`
says how much of the rule in hand is done at each place of the control thread,
with the rest of the stage as if it had not begun. `Counting` relates the
counters of the table and the open channels to the sets they count. `Grows`
(installed objects stay, with their token and identifier) is proved once for all
steps of the control thread and gives the stability of what a data thread has
found (`Routing`).

The later theorems each add an invariant to `IInv`. `Typing`: the number of rules
left to employ is the number of pending rules, which is why it stays natural.
`Traversing`: the rules at the positions passed are enforced or not supported, so
at the end, since the order has every rule, all are; no step makes an enforced
rule pending again. `Linking`: links and open channels correspond, but for the
channel that is being linked, so what a rule's identifier finds is the channel it
means. `Finding`: what a data thread holds between its two searches is still
there. The refinement then has a lemma per action: it is one step of
`StagePolicies` or leaves what that module sees as it is. Two points take an
argument of their own. A new object changes the table at its token only, because
no other object has that token and the first match of every other one stays the
first. And an enforcement rule is sent to the first link with its identifier,
which exists by well-foundedness of the numbers: identifiers of objects need not
be unique, so the object is named by its token afterwards.

`StageStatisticsProofs`, from `StatisticsAssumption` (channel identifiers are distinct
numbers, the unknown one is none of them; the operation types and contexts of a
stage are pairs of naturals): `RequestsReportedOnce`
(`NothingLostBetweenWindows`), `WindowsCoverTime` (`WindowsTileTime`) and
`NoPartialAnswer` (`AnswersAreComplete`). `Answering` and `Halves` say that the
answer has the channels passed and the list has the others, in the order asked;
a collection can then fail only at its first channel, when it has taken nothing
out of any window, which is what `Counting` says. `Timing` has the clock ahead of
each last collection while a window is being closed, and the elapsed time, read
before the lock, equal to that of the window.

`PosixInstanceProofs`, from `InstanceAssumption` (classifiers are triples and
pairs of Booleans, contexts are triples, the control plane's requests are well
formed, and no token of a channel to be created is None): `BuildersAreBound`
(`BuilderFollowsClassifiers`), `WritesAreEnforced` (`WrittenAsEnforced`),
`RefusalsHaveReasons` (`RefusedForAReason`) and `RequestsAreRouted`
(`RoutedByClassifiers`, an action property). Nothing is assumed of the hash: it
may collide. That classifiers and builder differ only while a definer is between
its two critical sections is nearly inductive by itself; `Defining` adds what the
definers carry. For the routing, `Keyed` says that channels and objects lie under
the token of the classifiers they were made for, no two objects of a channel under
one; `Requesting` and `Calling` say the same of the tokens that the control thread
and a call carry from one step to the next, when the classifiers may have
changed.

`StageLifecycleProofs`, from `LifecycleAssumption` (the constructors, channels
and communication types that exist): `AnswersInOrder` (`OneAnswerEach`),
`AcknowledgedIsDone` (`OkMeansDone`), `ReadyWhenTold` (`ReadyForAReason`),
`OrderOfLinesIsIrrelevant` (`ObjectsFindTheirChannels`) and
`GoingAwayIsHarmless` (`TerminatesInMidOperation`), for any rules, files and
operations. `Protocol` relates the operations read, the one in hand and the
answers; `Phases` relates the constructing thread to the connection thread and
an exception to its cause; `Readiness` has a reason for the ready flag;
`Promises` has the effect of each acknowledged operation. The Core only grows
(`Grew`), so a promise once true stays true. `Settling` is the invariant of the
loops over a file's rules: an object's rule the loop has passed is enforced, or
its channel does not exist, or its identifier or its token was taken already.

Only model-checked:

- the liveness properties (`RequestServed`, `EveryRequestAnswered`,
  `DestructorEnds`, `ConsumerReturns`, `CallReturns`): fairness is out of the
  prover's reach;
- `AggregatesCountOnce`: both sides are sums over sequences of data, and what a
  fold yields for every input needs induction over data;
- the five violations, which are counterexamples.

Only proved, and left out of the runs' lists of properties: the types of
`RateLimiter`, `TokenBucketThreaded` and `StageControl`.

## 5. Not modelled

Statistics of single objects, which no control operation asks for;
`collect_single_entry` and `remove_housekeeping_rule`, which only tests call;
`LSMKVSLayer`, whose operations return NotSupported; the differentiation table,
which nothing fills; splitting of lines, hashing and logging. `PROJECT.json` gives
the reason for each. Not modelled inside what is: ownership of buffers (`Ticket`
and `Result` copy contents), reads that return part of a structure, clocks that go
backwards, failing allocations (but `realloc` in a read), exceptions for rule types
that cannot arrive, and a crash: nothing is persisted, so a stage that starts again
starts from `Init`.

## 6. What is left

- The hazards that `PROJECT.json` lists without a property: the code promises
  nothing there that could be stated.
- Theorems for types of `StageStatistics`, `StageLifecycle` and `PosixInstance`;
  their inductive invariants already type what the properties need.
- Statistics of single objects, should a control operation ever ask for them.
