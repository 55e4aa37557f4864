------------------------- MODULE TokenBucketThreaded -------------------------
(***************************************************************************)
(* A TokenBucketThreaded: a thread refills the bucket every period,        *)
(* consumers wait for tokens on a condition variable, the control plane    *)
(* reconfigures it without a lock and collects its TBStats.                *)
(*                                                                         *)
(* Tokens are counted in units of 1/Second token, as in RateLimiter.  How  *)
(* long a period lasts does not matter here: a sleep or a wait may end at  *)
(* any time.  The clock only stamps the entries of the statistics.         *)
(*                                                                         *)
(* consume_operation's test and subtraction, and try_consume's two reads   *)
(* of m_capacity, are steps of their own: the setters take no lock and may *)
(* come in between.  A setter that lands between the load and the store of *)
(* m_tokens -= n, or of the refill, is lost: the behaviours without it.    *)
(***************************************************************************)
EXTENDS TBStats

CONSTANTS
  Consumers,       \* threads in try_consume
  Second,          \* clock ticks in a second
  DefaultRate, DefaultPeriod,
  Rates,           \* what set_capacity and set_token_count are called with
  Periods,         \* what set_refill_period is called with
  Costs,           \* tokens asked for
  MaxDebt,         \* bound of the tokens an interrupted bucket gives away
  MaxSettings,     \* bound of the calls of setters
  MaxStored        \* bound of the entries recorded

ASSUME ThreadedAssumption ==
  /\ Second \in Nat \ {0} /\ DefaultPeriod \in Nat \ {0}
  /\ Periods \subseteq Nat
  /\ DefaultRate \in Nat /\ Rates \subseteq Nat /\ Costs \subseteq Nat
  /\ MaxDebt \in Nat /\ MaxSettings \in Nat /\ MaxStored \in Nat

VARIABLES
  m_capacity, m_tokens, m_refill_period,
  m_interrupted, m_collect_statistics,
  stats,              \* m_token_bucket_statistics
  clock,              \* system_clock
  refiller,           \* try_refill: "check", "sleep" or "ended"
  pc,                 \* try_consume of each consumer
  tokens_left, iteration_tokens,
  collector,          \* try_collect_statistics: "idle", "gc" or "collect"
  time_point,         \* the time it read
  settings,           \* counted for the bound
  stored,             \* history: entries stored so far
  reported,           \* history: number of the last entry reported
  resized,            \* history: consumers during whose call the capacity
                      \* was lowered, or raised between its two reads
  raced               \* history: since the last refill, the tokens were set
                      \* between a consumer's test and its subtraction

bucket == <<m_capacity, m_tokens, m_refill_period>>
account == <<tokens_left, iteration_tokens>>
history == <<resized, raced>>
consuming == <<pc, account, history>>
collecting == <<collector, time_point, reported>>
vars == <<bucket, m_interrupted, m_collect_statistics, stats, clock, refiller,
          consuming, collecting, settings, stored>>

normalize_tokens(throughput) == throughput * m_refill_period

Init ==
  /\ m_capacity = DefaultRate * DefaultPeriod
  /\ m_tokens = DefaultRate * DefaultPeriod
  /\ m_refill_period = DefaultPeriod
  /\ m_interrupted = FALSE
  /\ m_collect_statistics = FALSE
  /\ stats = TBStatsInit
  /\ clock = 0
  /\ refiller = "check"
  /\ pc = [c \in Consumers |-> "idle"]
  /\ tokens_left = [c \in Consumers |-> 0]
  /\ iteration_tokens = [c \in Consumers |-> 0]
  /\ collector = "idle"
  /\ time_point = 0
  /\ settings = 0 /\ stored = 0 /\ reported = 0
  /\ resized = {} /\ raced = FALSE

-----------------------------------------------------------------------------
(* The refill thread. *)

CheckInterrupted ==
  /\ refiller = "check"
  /\ refiller' = IF m_interrupted THEN "ended" ELSE "sleep"
  /\ UNCHANGED <<bucket, m_interrupted, m_collect_statistics, stats, clock,
                 consuming, collecting, settings, stored>>

\* m_refill_mutex is held by a consumer between its test and its subtraction.
MutexFree == \A c \in Consumers : pc[c] # "subtract"

\* The sleep is over; m_refill_mutex is taken, the bucket filled, and every
\* waiting consumer woken.
TryRefill ==
  /\ refiller = "sleep"
  /\ MutexFree
  /\ m_tokens' = m_capacity
  /\ raced' = FALSE
  /\ pc' = [c \in Consumers |-> IF pc[c] = "wait" THEN "consume" ELSE pc[c]]
  /\ refiller' = "check"
  /\ UNCHANGED <<m_capacity, m_refill_period, m_interrupted, m_collect_statistics,
                 stats, clock, account, resized, collecting, settings, stored>>

-----------------------------------------------------------------------------
(* The consumers. *)

\* try_consume compares with m_capacity; what is larger is split.  An
\* interrupted bucket is called only up to the bound.
TryConsume(c) ==
  /\ pc[c] = "idle"
  /\ m_tokens >= -MaxDebt
  /\ \E n \in Costs :
       /\ tokens_left' = [tokens_left EXCEPT ![c] = n * Second]
       /\ iteration_tokens' = [iteration_tokens EXCEPT ![c] = n * Second]
       /\ pc' = [pc EXCEPT ![c] = IF n * Second > m_capacity THEN "split" ELSE "consume"]
  /\ resized' = resized \ {c}
  /\ UNCHANGED <<bucket, m_interrupted, m_collect_statistics, stats, clock,
                 refiller, raced, collecting, settings, stored>>

\* The first part is what m_capacity is when it is read again.
SplitTokens(c) ==
  /\ pc[c] = "split"
  /\ iteration_tokens' = [iteration_tokens EXCEPT ![c] = m_capacity]
  /\ pc' = [pc EXCEPT ![c] = "consume"]
  /\ UNCHANGED <<bucket, m_interrupted, m_collect_statistics, stats, clock,
                 refiller, tokens_left, history, collecting, settings, stored>>

\* consume_operation with m_refill_mutex: enough tokens, the loop ends.
ConsumeOperation(c) ==
  /\ pc[c] = "consume"
  /\ MutexFree
  /\ iteration_tokens[c] <= m_tokens
  /\ pc' = [pc EXCEPT ![c] = "subtract"]
  /\ UNCHANGED <<bucket, m_interrupted, m_collect_statistics, stats, clock,
                 refiller, account, history, collecting, settings, stored>>

\* The end of consume_operation, and the subtraction in try_consume.
Subtract(c) ==
  /\ pc[c] = "subtract"
  /\ m_tokens' = m_tokens - iteration_tokens[c]
  /\ tokens_left' = [tokens_left EXCEPT ![c] = @ - iteration_tokens[c]]
  /\ IF tokens_left'[c] > 0
     THEN pc' = [pc EXCEPT ![c] = "loop"] /\ UNCHANGED iteration_tokens
     ELSE /\ pc' = [pc EXCEPT ![c] = "idle"]
          /\ iteration_tokens' = [iteration_tokens EXCEPT ![c] = 0]
  /\ UNCHANGED <<m_capacity, m_refill_period, m_interrupted, m_collect_statistics,
                 stats, clock, refiller, history, collecting, settings, stored>>

\* Too few tokens: the moment is recorded, up to the bound, and the consumer
\* waits, releasing m_refill_mutex.
WaitForTokens(c) ==
  /\ pc[c] = "consume"
  /\ MutexFree
  /\ iteration_tokens[c] > m_tokens
  /\ pc' = [pc EXCEPT ![c] = "wait"]
  /\ IF m_collect_statistics /\ stored < MaxStored
     THEN /\ stored' = stored + 1
          /\ stats' = store_stats_entry(stats, [number |-> stored', stamp |-> clock])
     ELSE UNCHANGED <<stored, stats>>
  /\ UNCHANGED <<bucket, m_interrupted, m_collect_statistics, clock, refiller,
                 account, history, collecting, settings>>

\* Mutant: every timeout ends the wait.
TimeoutEndsWait(c) ==
  /\ pc[c] = "wait"
  /\ MutexFree
  /\ pc' = [pc EXCEPT ![c] = "subtract"]
  /\ UNCHANGED <<bucket, m_interrupted, m_collect_statistics, stats, clock,
                 refiller, account, history, collecting, settings, stored>>

\* Mutant: an interrupted consumer goes on waiting.
TimeoutLoops(c) ==
  /\ pc[c] = "wait"
  /\ MutexFree
  /\ pc' = [pc EXCEPT ![c] = "consume"]
  /\ UNCHANGED <<bucket, m_interrupted, m_collect_statistics, stats, clock,
                 refiller, account, history, collecting, settings, stored>>

\* wait_for timed out: the loop tests again, unless the bucket is interrupted;
\* then the tokens are subtracted although they are not there.
WaitTimeout(c) ==
  /\ pc[c] = "wait"
  /\ MutexFree
  /\ pc' = [pc EXCEPT ![c] = IF m_interrupted THEN "subtract" ELSE "consume"]
  /\ UNCHANGED <<bucket, m_interrupted, m_collect_statistics, stats, clock,
                 refiller, account, history, collecting, settings, stored>>

\* Mutant: the last, smaller part is not adjusted.
SamePart(c) == iteration_tokens

\* What the next round consumes, from m_capacity as it is now.
NextPart(c) ==
  IF tokens_left[c] < m_capacity
  THEN [iteration_tokens EXCEPT ![c] = tokens_left[c]] ELSE iteration_tokens

ConsumeLoop(c) ==
  /\ pc[c] = "loop"
  /\ iteration_tokens' = NextPart(c)
  /\ pc' = [pc EXCEPT ![c] = "consume"]
  /\ UNCHANGED <<bucket, m_interrupted, m_collect_statistics, stats, clock,
                 refiller, tokens_left, history, collecting, settings, stored>>

-----------------------------------------------------------------------------
(* The setters: none takes m_refill_mutex. *)

Setting ==
  /\ settings < MaxSettings
  /\ settings' = settings + 1
  /\ UNCHANGED <<stats, clock, refiller, pc, account, collecting, stored>>

SetCapacity(rate) ==
  /\ Setting
  /\ m_capacity' = normalize_tokens(rate)
  /\ resized' = resized \cup
       {c \in Consumers : \/ m_capacity' < m_capacity /\ pc[c] # "idle"
                          \/ m_capacity' > m_capacity /\ pc[c] = "split"}
  /\ UNCHANGED <<m_tokens, m_refill_period, m_interrupted, m_collect_statistics, raced>>

SetTokenCount(rate) ==
  /\ Setting
  /\ m_tokens' = normalize_tokens(rate)
  /\ raced' = ~MutexFree
  /\ UNCHANGED <<m_capacity, m_refill_period, m_interrupted, m_collect_statistics,
                 resized>>

SetRefillPeriod(period) ==
  /\ Setting
  /\ m_refill_period' = period
  /\ UNCHANGED <<m_capacity, m_tokens, m_interrupted, m_collect_statistics, history>>

SetStatisticCollection(collect) ==
  /\ Setting
  /\ m_collect_statistics' = collect
  /\ UNCHANGED <<bucket, m_interrupted, history>>

\* set_interrupted, which the destructor calls.
SetInterrupted ==
  /\ Setting
  /\ m_interrupted' = TRUE
  /\ UNCHANGED <<bucket, m_collect_statistics, history>>

-----------------------------------------------------------------------------
(* The collection of statistics, in two critical sections of TBStats. *)

Tick ==
  /\ clock < MaxTime
  /\ clock' = clock + 1
  /\ UNCHANGED <<bucket, m_interrupted, m_collect_statistics, stats, refiller,
                 consuming, collecting, settings, stored>>

TryCollectStatistics ==
  /\ collector = "idle"
  /\ time_point' = clock
  /\ collector' = "gc"
  /\ UNCHANGED <<bucket, m_interrupted, m_collect_statistics, stats, clock,
                 refiller, consuming, reported, settings, stored>>

RunGarbageCollector ==
  /\ collector = "gc"
  /\ stats' = garbage_collection(stats, time_point)
  /\ collector' = "collect"
  /\ UNCHANGED <<bucket, m_interrupted, m_collect_statistics, clock, refiller,
                 consuming, time_point, reported, settings, stored>>

\* The first section marks the valid entries, the second copies them; entries
\* may be stored in between.
CollectStats ==
  /\ collector = "collect"
  /\ stats' = collect_stats(stats)
  /\ LET copied == EntriesCollected(stats)
     IN reported' = Max({reported} \cup {copied[k].number : k \in DOMAIN copied})
  /\ collector' = "idle"
  /\ time_point' = 0
  /\ UNCHANGED <<bucket, m_interrupted, m_collect_statistics, clock, refiller,
                 consuming, settings, stored>>

Next ==
  \/ CheckInterrupted
  \/ TryRefill
  \/ \E c \in Consumers : TryConsume(c)
  \/ \E c \in Consumers : SplitTokens(c)
  \/ \E c \in Consumers : ConsumeOperation(c)
  \/ \E c \in Consumers : Subtract(c)
  \/ \E c \in Consumers : WaitForTokens(c)
  \/ \E c \in Consumers : WaitTimeout(c)
  \/ \E c \in Consumers : ConsumeLoop(c)
  \/ \E rate \in Rates : SetCapacity(rate)
  \/ \E rate \in Rates : SetTokenCount(rate)
  \/ \E period \in Periods : SetRefillPeriod(period)
  \/ \E collect \in BOOLEAN : SetStatisticCollection(collect)
  \/ SetInterrupted
  \/ Tick
  \/ TryCollectStatistics
  \/ RunGarbageCollector
  \/ CollectStats

\* The refill thread runs, a consumer inside try_consume runs, and its waits
\* end.  Nobody has to call anything.
Fairness ==
  /\ WF_vars(CheckInterrupted) /\ WF_vars(TryRefill)
  /\ \A c \in Consumers :
       /\ WF_vars(SplitTokens(c)) /\ WF_vars(ConsumeLoop(c))
       /\ WF_vars(ConsumeOperation(c)) /\ WF_vars(Subtract(c))
       /\ WF_vars(WaitForTokens(c)) /\ WF_vars(WaitTimeout(c))

Spec == Init /\ [][Next]_vars /\ Fairness

-----------------------------------------------------------------------------
(* Properties. *)

\* Every variable holds a value of its type.
TypeOK ==
  /\ m_capacity \in Nat /\ m_tokens \in Int /\ m_refill_period \in Nat
  /\ m_interrupted \in BOOLEAN /\ m_collect_statistics \in BOOLEAN
  /\ TBStatsTypeOK(stats)
  /\ clock \in 0..MaxTime /\ time_point \in 0..clock
  /\ refiller \in {"check", "sleep", "ended"}
  /\ pc \in [Consumers -> {"idle", "split", "consume", "wait", "subtract", "loop"}]
  /\ tokens_left \in [Consumers -> Int]
  /\ iteration_tokens \in [Consumers -> Nat]
  /\ collector \in {"idle", "gc", "collect"}
  /\ stored \in 0..MaxStored /\ reported \in 0..stored
  /\ resized \subseteq Consumers /\ raced \in BOOLEAN

\* Consumers never take more tokens than the bucket holds, however many wait
\* for the same refill.  There are two exceptions, and a refill ends the second:
\* an interrupted consumer takes them although they are not there, and
\* set_token_count, which takes no lock, may take them away between the test
\* and the subtraction of consume_operation.
TokensNotOverdrawn == m_tokens >= 0 \/ m_interrupted \/ raced

\* A consumer that returns has paid what it asked for: the parts that
\* try_consume splits a large request into add up.  It pays more only when the
\* capacity was lowered during its call, or raised between the comparison and
\* the second read of m_capacity.
PaysItsCost ==
  \A c \in Consumers : pc[c] = "idle" =>
    \/ tokens_left[c] = 0
    \/ c \in resized /\ tokens_left[c] < 0

\* What collect_stats copies from the ring are entries that follow one another
\* in the order of storing, none of them reported before, after at most one
\* read of the memory before the ring; and unless more entries were stored than
\* the ring holds, the newest is among them.  (A ring that went round is read
\* up to the newest and without it, or, when its element 0 is recent, not at
\* all: token_bucket_statistics.cpp:95-97 and 208-217.)
ReportedInOrder ==
  collector = "collect" =>
    LET copied == EntriesCollected(stats)
    IN /\ \A k \in DOMAIN copied :
            \/ k = 1 /\ copied[k] = OutOfRing
            \/ /\ copied[k].number > reported
               /\ k = 1 \/ copied[k - 1] = OutOfRing
                        \/ copied[k].number = copied[k - 1].number + 1
       /\ stats.m_total_stats \in 1..m_max_statistics =>
            \E k \in DOMAIN copied : copied[k].number = stored

\* Once the other consumers take no more tokens, a consumer returns, whether
\* the bucket is interrupted or not, unless it waits for more than the bucket
\* can hold since the capacity was lowered, or read a capacity of 0: then
\* try_consume goes round for ever, paying nothing.
ConsumerReturns ==
  \A c \in Consumers :
    <>[](\A d \in Consumers \ {c} : pc[d] # "subtract") =>
      (pc[c] # "idle" ~>
         \/ pc[c] = "idle"
         \/ iteration_tokens[c] > m_capacity /\ ~m_interrupted
         \/ iteration_tokens[c] = 0 /\ tokens_left[c] > 0)

=============================================================================
