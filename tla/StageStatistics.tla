--------------------------- MODULE StageStatistics ---------------------------
(***************************************************************************)
(* The statistics of a stage's channels, and their way to the control      *)
(* plane.  Enforced requests update a channel's counters; the southbound   *)
(* listener collects them channel by channel, through the Agent and the    *)
(* Core, and sends one answer.                                             *)
(*                                                                         *)
(* A rate is a quotient of doubles: here a pair <<amount, time>>, compared *)
(* by cross-multiplication.  The clock moves by one at every reading: only *)
(* the order of readings matters.  The channels are those that exist when  *)
(* collections begin; the listener is the only thread that creates more,   *)
(* and it does not do so while it collects.                                *)
(***************************************************************************)
EXTENDS Integers, Sequences, FiniteSetsExt, SequencesExt

CONSTANTS
  ChannelIds,       \* identifiers in m_channel_id_to_token_linkers, in order;
                    \* create_channel refuses one that is linked already
  UnknownId,        \* an identifier that no channel has
  ContextTypes,     \* values of option_default_context_type to consider
  Metrics,          \* values of option_default_statistic_metric to consider
  ClassifierType,   \* option_default_statistic_classifier
  Contexts,         \* <<operation type, operation context>> of requests,
                    \* for each context type
  Loads,            \* <<total operations, operation size>> of requests, for
                    \* each metric
  MaxRequests,      \* bound of the requests
  MaxOperations     \* bound of the control operations

Channels == ToSet(ChannelIds)

ASSUME StatisticsAssumption ==
  /\ ChannelIds \in Seq(Int)
  /\ \A j, k \in DOMAIN ChannelIds : ChannelIds[j] = ChannelIds[k] => j = k
  /\ UnknownId \notin Channels \cup {-1}
  /\ Metrics \subseteq {"throughput", "counter"}
  /\ ClassifierType \in {"operation_context", "operation_type"}
  /\ \A t \in ContextTypes : Contexts[t] \subseteq Nat \X Nat
  /\ \A metric \in Metrics : Loads[metric] \subseteq Nat \X Nat
  /\ MaxRequests \in Nat /\ MaxOperations \in Nat

VARIABLES
  m_context_type, m_collection_metric,            \* options of the stage
  m_collect_channel_statistics,
  m_total_counter, m_windowed_counter,            \* ChannelStatistics, one
  m_overall_metric, m_last_window_metric,         \* of each per channel
  m_start_collection_time, m_end_collection_time, m_last_collection_time,
  clock,            \* system_clock, in microseconds
  pc,               \* the listener: what it does next
  operation,        \* the ControlOperation it handles
  remaining,        \* identifiers whose statistics it still has to collect
  now, elapsed,     \* locals of the collection under way
  status,           \* PStatus of the collection
  channel_stats,    \* the container it fills: general or detailed
  reply,            \* what was sent last, with the operation it answers
  terminated,       \* channels whose destructor has run
  requests, operations, \* counted for the bounds
  taken,            \* history: counted in the answer being prepared
  delivered,        \* history: counted in answers that were sent
  window_time       \* history: the lengths of all windows, added up

options == <<m_context_type, m_collection_metric, m_collect_channel_statistics>>
counters == <<m_total_counter, m_windowed_counter>>
metrics == <<m_overall_metric, m_last_window_metric>>
times == <<m_start_collection_time, m_end_collection_time,
           m_last_collection_time>>
listener == <<pc, operation, remaining, now, elapsed, status, channel_stats,
              reply>>
history == <<taken, delivered, window_time>>
bounds == <<requests, operations>>
vars == <<options, counters, metrics, times, clock, listener,
          terminated, bounds, history>>

-----------------------------------------------------------------------------
(* Entries and metrics. *)

\* The number of entries of a channel's containers.
StatsSize(context_type) ==
  CASE context_type = "LSM_KVS_SIMPLE"   -> 6
    [] context_type = "LSM_KVS_DETAILED" -> 9
    [] context_type = "POSIX"            -> 95
    [] context_type = "POSIX_META"       -> 11
    [] context_type = "KVS"              -> 10
    [] OTHER                             -> 5

m_stats_size == StatsSize(m_context_type)
Entries == 0..m_stats_size - 1

None == <<-1, 1>>
Zero == <<0, 1>>

AtMost(a, b) == a[1] * b[2] <= b[1] * a[2]

\* The sum of two rates, with a denominator no larger than it has to be.
Plus(a, b) ==
  CASE a[1] = 0    -> b
    [] b[1] = 0    -> a
    [] a[2] = b[2] -> <<a[1] + b[1], a[2]>>
    [] OTHER       -> <<a[1] * b[2] + b[1] * a[2], a[2] * b[2]>>
SumRates(seq) == FoldSeq(Plus, Zero, seq)

Total(counter) == MapThenSumSet(LAMBDA i : counter[i], DOMAIN counter)

\* aggregate_total_counter and aggregate_windowed_counter: always a division.
Aggregate(counter, time) ==
  IF m_collection_metric = "throughput" THEN <<Total(counter), time>>
                                     ELSE <<Total(counter), 1>>

\* An entry's metric; no division when nothing was counted.
calculate_statistic_metric(amount, time) ==
  IF m_collection_metric = "throughput" /\ amount # 0 THEN <<amount, time>>
                                                   ELSE <<amount, 1>>

Position(type, context) ==
  (IF ClassifierType = "operation_context" THEN context ELSE type) % m_stats_size

-----------------------------------------------------------------------------
(* The aggregates the listener computes of detailed statistics: a sequence *)
(* of [id, entries], in the order of the std::map, by identifier.          *)

Flows(detailed, Belongs(_)) == SelectSeq(detailed, LAMBDA d : Belongs(d.id))
Field(flows, entries) ==
  SumRates(FlattenSeq([k \in DOMAIN flows |->
    [j \in DOMAIN entries |-> flows[k].entries[entries[j]]]]))

\* Mutant: compactions from L0 to L1 counted with the low-priority ones too.
CompactionsCountedTwice(detailed) ==
  LET compactions == Flows(detailed, LAMBDA id : id > 2000)
  IN <<Zero, Zero, Field(compactions, <<3, 4>>), Field(compactions, <<4, 5, 6, 7>>)>>

\* High-priority compactions run one after the other: the rate is averaged
\* over the flows that had any.
aggregate_kvs_statistics(detailed) ==
  LET compactions == Flows(detailed, LAMBDA id : id > 2000)
      L0(flow) == SumRates(<<flow.entries[3], flow.entries[4]>>)
      valid == Len(SelectSeq(compactions, LAMBDA d : L0(d)[1] > 0))
      l0 == Field(compactions, <<3, 4>>)
  IN <<Field(Flows(detailed, LAMBDA id : id < 2000), <<8>>),
       Field(Flows(detailed, LAMBDA id : id = 2000), <<1>>),
       IF l0[1] # 0 THEN <<l0[1], l0[2] * valid>> ELSE l0,
       Field(compactions, <<5, 6, 7>>)>>

\* no_op and the reads; the writes.
aggregate_tf_statistics(detailed) ==
  <<Field(detailed, <<0, 1, 3, 5>>), Field(detailed, <<2, 4, 6>>)>>

\* Every entry of every channel.
aggregate_global_statistics(detailed) ==
  <<Field(detailed, [j \in 1..m_stats_size |-> j - 1])>>

\* data_op; meta_op.
aggregate_metadata_data_statistics(detailed) ==
  <<Field(detailed, <<6>>), Field(detailed, <<7>>)>>

aggregate(subtype, detailed) ==
  CASE subtype = "rocksdb"       -> aggregate_kvs_statistics(detailed)
    [] subtype = "tensorflow"    -> aggregate_tf_statistics(detailed)
    [] subtype = "global"        -> aggregate_global_statistics(detailed)
    [] subtype = "metadata_data" -> aggregate_metadata_data_statistics(detailed)

\* The number of fields of each answer, sent zeroed when the collection fails.
Fields(subtype) ==
  CASE subtype = "rocksdb" -> 4 [] subtype = "global" -> 1 [] OTHER -> 2

\* The subtypes an answer can be computed for without reading past the
\* entries: the control plane is assumed to know the stage's context type.
SubtypesOf(context_type) ==
  {"global"} \cup (CASE context_type = "LSM_KVS_DETAILED" -> {"rocksdb"}
                     [] context_type = "POSIX"            -> {"tensorflow"}
                     [] context_type = "POSIX_META"       -> {"metadata_data"}
                     [] OTHER                             -> {})

-----------------------------------------------------------------------------
(* Initial state: every channel has initialized its statistics. *)

NoOperation == [kind |-> "none", id |-> -1, subtype |-> "none"]
NoCounts == [c \in Channels |-> [i \in Entries |-> 0]]
AtZero == [c \in Channels |-> 0]

Init ==
  /\ m_context_type \in ContextTypes
  /\ m_collection_metric \in Metrics
  /\ m_collect_channel_statistics \in BOOLEAN
  /\ m_total_counter = NoCounts
  /\ m_windowed_counter = NoCounts
  /\ m_overall_metric = [c \in Channels |-> None]
  /\ m_last_window_metric = [c \in Channels |-> None]
  /\ m_start_collection_time = AtZero
  /\ m_end_collection_time = AtZero
  /\ m_last_collection_time = AtZero
  /\ clock = 0
  /\ pc = "listen"
  /\ operation = NoOperation
  /\ remaining = <<>>
  /\ now = 0
  /\ elapsed = 0
  /\ status = "error"
  /\ channel_stats = <<>>
  /\ reply = [to |-> NoOperation, stats |-> <<>>]
  /\ terminated = {}
  /\ requests = 0 /\ operations = 0
  /\ taken = NoCounts
  /\ delivered = NoCounts
  /\ window_time = AtZero

-----------------------------------------------------------------------------
(* Requests: the end of channel_enforce. *)

update_entry(c, position, value) ==
  /\ m_total_counter' = [m_total_counter EXCEPT ![c][position] = @ + value]
  /\ m_windowed_counter' = [m_windowed_counter EXCEPT ![c][position] = @ + value]

\* Where operations are counted, those without a size count as of size one.
CounterValue(load) ==
  load[1] * (IF m_collection_metric = "counter" /\ load[2] = 0 THEN 1 ELSE load[2])

UpdateStatisticEntry(c) ==
  /\ pc \notin {"ended", "closed"}
  /\ requests < MaxRequests
  /\ m_collect_channel_statistics
  /\ \E context \in Contexts[m_context_type], load \in Loads[m_collection_metric] :
       update_entry(c, Position(context[1], context[2]), CounterValue(load))
  /\ requests' = requests + 1
  /\ UNCHANGED <<options, metrics, times, clock, listener, terminated,
                 operations, history>>

-----------------------------------------------------------------------------
(* The listener: collect_statistics and collect_instance_statistics. *)

\* The operation is read, with the identifiers of the channels it is about;
\* Agent's status is an error until a channel was collected.
ReceiveOperation ==
  /\ pc = "listen"
  /\ operations < MaxOperations
  /\ operation' \in
       [kind : {"collect_statistics"}, id : Channels \cup {UnknownId, -1},
        subtype : {"none"}]
       \cup [kind : {"instance"}, id : {-1}, subtype : SubtypesOf(m_context_type)]
  /\ remaining' = IF operation'.id = -1 THEN ChannelIds ELSE <<operation'.id>>
  /\ pc' = IF remaining' = <<>> THEN "reply" ELSE "collect"
  /\ status' = "error"
  /\ channel_stats' = <<>>
  /\ operations' = operations + 1
  /\ UNCHANGED <<options, counters, metrics, times, clock, now, elapsed, reply,
                 terminated, requests, history>>

\* The identifier cannot be read, which throws, or the subtype is unknown,
\* which returns -1, on which listen throws: nothing catches either in this
\* thread, and the process ends.
OperationThrows ==
  /\ pc = "listen"
  /\ operations < MaxOperations
  /\ operations' = operations + 1
  /\ pc' = "ended"
  /\ UNCHANGED <<options, counters, metrics, times, clock, operation, remaining,
                 now, elapsed, status, channel_stats, reply, terminated,
                 requests, history>>

\* Mutant: a channel that cannot be collected is passed over.
FailurePassedOver ==
  /\ pc = "collect"
  /\ Head(remaining) \notin Channels \/ ~m_collect_channel_statistics
  /\ status' = "ok"
  /\ remaining' = <<>>
  /\ pc' = "reply"
  /\ UNCHANGED <<options, counters, metrics, times, clock, operation, now,
                 elapsed, channel_stats, reply, terminated, bounds, history>>

\* Core finds no such channel, or the channel keeps no statistics: the loop
\* over the channels ends.
CollectFails ==
  /\ pc = "collect"
  /\ Head(remaining) \notin Channels \/ ~m_collect_channel_statistics
  /\ status' = "error"
  /\ remaining' = <<>>
  /\ pc' = "reply"
  /\ UNCHANGED <<options, counters, metrics, times, clock, operation, now,
                 elapsed, channel_stats, reply, terminated, bounds,
                 history>>

\* The time is read before the lock is taken; collect computes the elapsed
\* time under it, collect_detailed_windowed_entries does so before.
CollectReadsClock ==
  /\ pc = "collect"
  /\ Head(remaining) \in Channels /\ m_collect_channel_statistics
  /\ clock' = clock + 1
  /\ now' = clock'
  /\ pc' = IF operation.kind = "instance" THEN "elapsed" ELSE "lock"
  /\ UNCHANGED <<options, counters, metrics, times, operation, remaining, elapsed,
                 status, channel_stats, reply, terminated, bounds,
                 history>>

ElapsedTimeSinceLastCollection ==
  /\ pc = "elapsed"
  /\ elapsed' = now - m_last_collection_time[Head(remaining)]
  /\ pc' = "lock"
  /\ UNCHANGED <<options, counters, metrics, times, clock, operation, remaining,
                 now, status, channel_stats, reply, terminated, bounds,
                 history>>

\* Mutant: the last entry of the window survives the collection.
ResetAllButLast(c) ==
  m_windowed_counter' = [m_windowed_counter EXCEPT ![c] =
    [i \in Entries |-> IF i = m_stats_size - 1 THEN @[i] ELSE 0]]

reset_windowed_counters(c) ==
  m_windowed_counter' = [m_windowed_counter EXCEPT ![c] = [i \in Entries |-> 0]]

\* Mutant: the collection does not start a new window.
LastTimeKept(c) == UNCHANGED m_last_collection_time

record_last_collection_time(c) ==
  m_last_collection_time' = [m_last_collection_time EXCEPT ![c] = now]

\* The container of general statistics is a vector, that of detailed ones a
\* map, which keeps what it has for an identifier.
push_back(stats) == channel_stats' = Append(channel_stats, stats)
emplace(stats) ==
  channel_stats' = IF \E k \in DOMAIN channel_stats : channel_stats[k].id = stats.id
                   THEN channel_stats ELSE Append(channel_stats, stats)

\* What both collections do with the window of channel c, time long: it is
\* counted and the loop goes on.
TakeWindow(c, time) ==
  /\ record_last_collection_time(c)
  /\ reset_windowed_counters(c)
  /\ status' = "ok"
  /\ remaining' = Tail(remaining)
  /\ pc' = IF remaining' = <<>> THEN "reply" ELSE "collect"
  /\ taken' = [taken EXCEPT ![c] =
                 [i \in Entries |-> @[i] + m_windowed_counter[c][i]]]
  /\ window_time' = [window_time EXCEPT ![c] = @ + time]

\* ChannelStatistics::collect under m_stats_mutex; the overall metric is
\* over the time until now, for which the clock is read again.
Collect ==
  LET c == Head(remaining)
      time == now - m_last_collection_time[c]
  IN /\ pc = "lock"
     /\ operation.kind = "collect_statistics"
     /\ clock' = clock + 1
     /\ m_overall_metric' = [m_overall_metric EXCEPT ![c] =
          Aggregate(m_total_counter[c], clock' - m_start_collection_time[c])]
     /\ m_last_window_metric' = [m_last_window_metric EXCEPT ![c] =
          Aggregate(m_windowed_counter[c], time)]
     /\ m_end_collection_time' = [m_end_collection_time EXCEPT ![c] = now]
     /\ TakeWindow(c, time)
     /\ push_back([id |-> c, overall |-> m_overall_metric'[c],
                   windowed |-> m_last_window_metric'[c]])
     /\ UNCHANGED <<options, m_total_counter, m_start_collection_time, operation,
                    now, elapsed, reply, terminated, bounds, delivered>>

\* ChannelStatistics::collect_detailed_windowed_entries under m_stats_mutex.
CollectDetailedWindowedEntries ==
  LET c == Head(remaining)
  IN /\ pc = "lock"
     /\ operation.kind = "instance"
     /\ TakeWindow(c, elapsed)
     /\ emplace([id |-> c, entries |-> [i \in Entries |->
          calculate_statistic_metric(m_windowed_counter[c][i], elapsed)]])
     /\ UNCHANGED <<options, m_total_counter, metrics, m_start_collection_time,
                    m_end_collection_time, clock, operation, now, elapsed, reply,
                    terminated, bounds, delivered>>

\* The answer's contents: the collected statistics, with their number, or the
\* aggregate, zeroed when the collection failed.
Answer ==
  IF operation.kind = "collect_statistics" THEN channel_stats
  ELSE IF status = "ok" THEN
         aggregate(operation.subtype,
                   SortSeq(channel_stats, LAMBDA a, b : a.id < b.id))
       ELSE [k \in 1..Fields(operation.subtype) |-> Zero]

\* The write succeeds and the listener waits for the next operation.  What a
\* failed collection took is in no answer.
SendAnswer ==
  /\ pc = "reply"
  /\ operation.kind = "instance" \/ status = "ok"
  /\ reply' = [to |-> operation, stats |-> Answer]
  /\ pc' = "listen"
  /\ delivered' = IF status = "ok" THEN
       [c \in Channels |-> [i \in Entries |-> delivered[c][i] + taken[c][i]]]
       ELSE delivered
  /\ taken' = NoCounts
  /\ UNCHANGED <<options, counters, metrics, times, clock, operation, remaining,
                 now, elapsed, status, channel_stats, terminated, bounds,
                 window_time>>

\* The write fails, or collect_statistics has nothing to send and returns 0:
\* listen throws.
AnswerFails ==
  /\ pc = "reply"
  /\ pc' = "ended"
  /\ UNCHANGED <<options, counters, metrics, times, clock, operation, remaining,
                 now, elapsed, status, channel_stats, reply, terminated,
                 bounds, history>>

-----------------------------------------------------------------------------
(* The end. *)

\* The stage is shut down and the listener joined.
ListenerEnds ==
  /\ pc = "listen"
  /\ pc' = "closed"
  /\ UNCHANGED <<options, counters, metrics, times, clock, operation, remaining,
                 now, elapsed, status, channel_stats, reply, terminated,
                 bounds, history>>

\* ~ChannelDefault: ChannelStatistics::terminate.
Terminate(c) ==
  /\ pc = "closed"
  /\ c \notin terminated
  /\ terminated' = terminated \cup {c}
  /\ IF m_collect_channel_statistics
     THEN /\ clock' = clock + 1
          /\ m_end_collection_time' = [m_end_collection_time EXCEPT ![c] = clock']
          /\ m_overall_metric' = [m_overall_metric EXCEPT ![c] =
               Aggregate(m_total_counter[c], clock' - m_start_collection_time[c])]
     ELSE UNCHANGED <<clock, m_end_collection_time, m_overall_metric>>
  /\ UNCHANGED <<options, counters, m_last_window_metric, m_start_collection_time,
                 m_last_collection_time, listener, bounds, history>>

Next ==
  \/ \E c \in Channels : UpdateStatisticEntry(c)
  \/ ReceiveOperation
  \/ OperationThrows
  \/ CollectFails
  \/ CollectReadsClock
  \/ ElapsedTimeSinceLastCollection
  \/ Collect
  \/ CollectDetailedWindowedEntries
  \/ SendAnswer
  \/ AnswerFails
  \/ ListenerEnds
  \/ \E c \in Channels : Terminate(c)

Spec == Init /\ [][Next]_vars

-----------------------------------------------------------------------------
(* Properties. *)

Rates == Int \X (Int \ {0})
Counts == [Channels -> [Entries -> Nat]]
Times == [Channels -> Nat]

\* Every variable holds a value its code type can hold.
TypeOK ==
  /\ m_context_type \in ContextTypes
  /\ m_collection_metric \in Metrics
  /\ m_collect_channel_statistics \in BOOLEAN
  /\ {m_total_counter, m_windowed_counter, taken, delivered} \subseteq Counts
  /\ {m_overall_metric, m_last_window_metric} \subseteq [Channels -> Rates]
  /\ {m_start_collection_time, m_end_collection_time, m_last_collection_time,
      window_time} \subseteq Times
  /\ clock \in Nat /\ now \in 0..clock /\ elapsed \in 0..clock
  /\ pc \in {"listen", "collect", "elapsed", "lock", "reply", "ended", "closed"}
  /\ operation.kind \in {"none", "collect_statistics", "instance"}
  /\ status \in {"ok", "error"}
  /\ ToSet(remaining) \subseteq Channels \cup {UnknownId}
  /\ terminated \subseteq Channels

\* What requests added to a channel's entry is in its current window, in a
\* window taken for the answer being prepared or in one taken for an answer
\* that was sent, and in one of them only: a request that runs beside a
\* collection falls into exactly one window (update_entry against collect and
\* collect_detailed_windowed_entries), and no window is dropped by a failed
\* collection.  Which entries of a window an aggregate adds up is what
\* AggregatesCountOnce is about.
NothingLostBetweenWindows ==
  \A c \in Channels : \A i \in Entries :
    m_total_counter[c][i] =
      m_windowed_counter[c][i] + taken[c][i] + delivered[c][i]

\* The windows over which rates were computed cover the time from the start
\* of the statistics to the last collection, without gap or overlap, general
\* and detailed collections mixed: the elapsed time, which is read outside
\* the lock, is that of the window being reported.
WindowsTileTime ==
  \A c \in Channels :
    window_time[c] = m_last_collection_time[c] - m_start_collection_time[c]

\* The fields of an aggregated answer count no entry twice, and the global
\* one leaves none out: together they do not exceed the load of the windows
\* that were collected for it.
AggregatesCountOnce ==
  (pc = "listen" /\ reply.to.kind = "instance" /\ status = "ok") =>
    LET load == Field(channel_stats, [j \in 1..m_stats_size |-> j - 1])
        answered == SumRates(reply.stats)
    IN /\ AtMost(answered, load)
       /\ reply.to.subtype = "global" => AtMost(load, answered)

\* An answer with the channels' statistics has one for each channel asked for,
\* in order: a collection that stopped half-way is never sent.
AnswersAreComplete ==
  reply.to.kind = "collect_statistics" =>
    [k \in DOMAIN reply.stats |-> reply.stats[k].id] =
      IF reply.to.id = -1 THEN ChannelIds ELSE <<reply.to.id>>

=============================================================================
