------------------------ MODULE StageStatisticsProofs ------------------------
(***************************************************************************)
(* What the windows and the answers of a stage's statistics say, for any   *)
(* number of channels, requests and control operations.                    *)
(*                                                                         *)
(* That nothing is lost between windows needs to know that a collection    *)
(* fails only at its first channel, so that what a failed collection took  *)
(* is nothing; that needs to know how much of what was asked for has been  *)
(* collected (Answering).  That windows tile time needs to know that the   *)
(* elapsed time read outside the lock is still that of the window when the *)
(* lock is taken (Timing).                                                 *)
(***************************************************************************)
EXTENDS StageStatistics, TLAPS

\* The identifiers an operation asks for.
Asked(op) == IF op.id = -1 THEN ChannelIds ELSE <<op.id>>

Collecting == pc \in {"collect", "elapsed", "lock"}

\* A sequence, whatever its elements.
IsSequence(s) == s \in Seq({s[k] : k \in DOMAIN s})

\* While it collects, the listener has the statistics of the first identifiers
\* asked for, and the others remain.
Halves ==
  /\ Len(channel_stats) + Len(remaining) = Len(Asked(operation))
  /\ \A k \in 1..Len(channel_stats) : channel_stats[k].id = Asked(operation)[k]
  /\ \A k \in 1..Len(remaining) :
       remaining[k] = Asked(operation)[Len(channel_stats) + k]

\* What was asked for and how much of it is collected; a collection that took
\* something goes on with channels that exist and keep statistics.
Answering ==
  /\ remaining \in Seq(Channels \cup {UnknownId})
  /\ IsSequence(channel_stats)
  /\ status \in {"ok", "error"}
  /\ status = "ok" => m_collect_channel_statistics
  /\ Collecting => /\ remaining # <<>>
                   /\ Halves
                   /\ status = "ok" <=> channel_stats # <<>>
  /\ pc \in {"elapsed", "lock"} => /\ Head(remaining) \in Channels
                                   /\ m_collect_channel_statistics
  /\ (pc = "reply" /\ status = "ok") =>
       /\ Len(channel_stats) = Len(Asked(operation))
       /\ \A k \in 1..Len(channel_stats) : channel_stats[k].id = Asked(operation)[k]

\* Counters are numbers, and a listener that has nothing to report has taken
\* nothing out of any window.
Counting ==
  /\ m_context_type \in ContextTypes /\ m_collection_metric \in Metrics
  /\ m_total_counter \in Counts /\ m_windowed_counter \in Counts
  /\ taken \in Counts /\ delivered \in Counts
  /\ status = "error" \/ pc = "listen" => taken = NoCounts

\* The clock is ahead of every last collection when a window is being closed,
\* and the elapsed time is that of the window.
Timing ==
  /\ clock \in Nat /\ now \in Nat /\ elapsed \in Int
  /\ m_start_collection_time \in Times /\ m_last_collection_time \in Times
  /\ window_time \in Times
  /\ \A c \in Channels : m_last_collection_time[c] <= clock
  /\ pc \in {"elapsed", "lock"} =>
       now = clock /\ \A c \in Channels : m_last_collection_time[c] < now
  /\ (pc = "lock" /\ operation.kind = "instance") =>
       elapsed = now - m_last_collection_time[Head(remaining)]

IInv ==
  /\ Answering /\ AnswersAreComplete
  /\ Counting /\ NothingLostBetweenWindows
  /\ Timing /\ WindowsTileTime

-----------------------------------------------------------------------------
(* Sequences and entries.                                                  *)

\* A sequence over any set is one over its own elements.
LEMMA SeqIsSequence ==
  ASSUME NEW S, NEW s \in Seq(S)
  PROVE  IsSequence(s)
<1> DEFINE R == {s[k] : k \in DOMAIN s}
<1>1. s = [k \in 1..Len(s) |-> s[k]] /\ Len(s) \in Nat /\ DOMAIN s = 1..Len(s)
  OBVIOUS
<1>2. \A k \in 1..Len(s) : s[k] \in R
  BY <1>1
<1> HIDE DEF R
<1>3. s \in Seq(R)
  BY <1>1, <1>2
<1> QED
  BY <1>3 DEF IsSequence, R

\* What push_back does to a container of anything.
LEMMA AppendAny ==
  ASSUME NEW s, IsSequence(s), NEW e
  PROVE  /\ IsSequence(Append(s, e))
         /\ Append(s, e) # <<>>
         /\ Len(s) \in Nat
         /\ Len(Append(s, e)) = Len(s) + 1
         /\ DOMAIN Append(s, e) = 1..Len(s) + 1
         /\ Append(s, e)[Len(s) + 1] = e
         /\ \A k \in 1..Len(s) : Append(s, e)[k] = s[k]
<1> DEFINE S == {s[k] : k \in DOMAIN s} \cup {e}
<1>1. s \in Seq(S) /\ e \in S
  BY DEF IsSequence
<1>2. Append(s, e) \in Seq(S)
  BY <1>1
<1>3. /\ Len(s) \in Nat
      /\ Len(Append(s, e)) = Len(s) + 1
      /\ DOMAIN Append(s, e) = 1..Len(s) + 1
      /\ Append(s, e)[Len(s) + 1] = e
      /\ \A k \in 1..Len(s) : Append(s, e)[k] = s[k]
      /\ Append(s, e) # <<>>
  BY <1>1
<1>4. IsSequence(Append(s, e))
  BY <1>2, SeqIsSequence
<1> QED
  BY <1>3, <1>4

\* What the loop over the identifiers leaves for its next round.
LEMMA TailFacts ==
  ASSUME NEW S, NEW s \in Seq(S), s # <<>>
  PROVE  /\ Len(s) \in Nat \ {0}
         /\ Head(s) = s[1] /\ Head(s) \in S
         /\ Tail(s) \in Seq(S)
         /\ Len(Tail(s)) = Len(s) - 1
         /\ \A i \in 1..Len(s) - 1 : Tail(s)[i] = s[i + 1]
OBVIOUS

\* The channels are the identifiers.
LEMMA IdsAreChannels ==
  /\ ChannelIds \in Seq(Channels)
  /\ \A k \in 1..Len(ChannelIds) : ChannelIds[k] \in Channels
BY StatisticsAssumption DEF StatisticsAssumption, Channels, ToSet

\* Every context type has entries.
LEMMA EntriesFacts ==
  /\ m_stats_size \in Nat \ {0}
  /\ Entries \subseteq Nat
  /\ \A n \in Nat : n % m_stats_size \in Entries
<1>1. m_stats_size \in {5, 6, 9, 10, 11, 95}
  BY Zenon DEF m_stats_size, StatsSize
<1> QED
  BY <1>1 DEF Entries

-----------------------------------------------------------------------------
(* Initial states.                                                         *)

\* Nothing asked for, nothing counted, no time passed.
LEMMA InitIInv == Init => IInv
<1> SUFFICES ASSUME Init PROVE IInv
  OBVIOUS
<1>1. Answering /\ AnswersAreComplete
  BY DEF Init, Answering, AnswersAreComplete, IsSequence, Collecting, NoOperation
<1>2. Counting /\ NothingLostBetweenWindows
  BY DEF Init, Counting, NothingLostBetweenWindows, Counts, NoCounts
<1>3. Timing /\ WindowsTileTime
  BY DEF Init, Timing, WindowsTileTime, Times, AtZero
<1> QED
  BY <1>1, <1>2, <1>3 DEF IInv
-----------------------------------------------------------------------------
(* What is asked for and what is collected.                                *)

\* A window taken from the front of what remains extends what is collected.
LEMMA TakeWindowAnswering ==
  ASSUME IInv, pc = "lock", NEW stats, stats.id = Head(remaining), NEW time,
         TakeWindow(Head(remaining), time), push_back(stats),
         UNCHANGED <<options, operation, reply>>
  PROVE  Answering'
<1>1. /\ channel_stats' = Append(channel_stats, stats) /\ status' = "ok"
      /\ remaining' = Tail(remaining)
      /\ pc' = IF remaining' = <<>> THEN "reply" ELSE "collect"
      /\ UNCHANGED <<m_collect_channel_statistics, operation>>
  BY DEF TakeWindow, push_back, options
<1>2. /\ remaining \in Seq(Channels \cup {UnknownId}) /\ remaining # <<>>
      /\ IsSequence(channel_stats) /\ Halves /\ m_collect_channel_statistics
  BY DEF IInv, Answering, Collecting
<1>3. /\ Len(remaining) \in Nat \ {0} /\ Head(remaining) = remaining[1]
      /\ remaining' \in Seq(Channels \cup {UnknownId})
      /\ Len(remaining') = Len(remaining) - 1
      /\ \A k \in 1..Len(remaining) - 1 : remaining'[k] = remaining[k + 1]
  BY <1>1, <1>2, TailFacts
<1>4. /\ IsSequence(channel_stats') /\ channel_stats' # <<>>
      /\ Len(channel_stats) \in Nat /\ Len(channel_stats') = Len(channel_stats) + 1
      /\ channel_stats'[Len(channel_stats) + 1] = stats
      /\ \A k \in 1..Len(channel_stats) : channel_stats'[k] = channel_stats[k]
  BY <1>1, <1>2, AppendAny
<1>5. Asked(operation)' = Asked(operation)
  BY <1>1 DEF Asked
<1> DEFINE a == Asked(operation)
           n == Len(channel_stats)
           m == Len(remaining)
<1>6. /\ n + m = Len(a)
      /\ \A k \in 1..n : channel_stats[k].id = a[k]
      /\ \A k \in 1..m : remaining[k] = a[n + k]
  BY <1>2 DEF Halves
<1> HIDE DEF a
<1>7. n + 1 + (m - 1) = Len(a)
  <2>1. n \in Nat /\ m \in Nat
    BY <1>3, <1>4
  <2>2. n + 1 + (m - 1) = n + m
    BY <2>1
  <2> QED
    BY <1>6, <2>2
<1>8. \A k \in 1..n + 1 : channel_stats'[k].id = a[k]
  <2>1. stats.id = a[n + 1]
    BY <1>3, <1>4, <1>6
  <2> QED
    BY <1>4, <1>6, <2>1
<1>9. \A k \in 1..m - 1 : remaining'[k] = a[n + 1 + k]
  <2> SUFFICES ASSUME NEW k \in 1..m - 1 PROVE remaining'[k] = a[n + 1 + k]
    OBVIOUS
  <2>1. k + 1 \in 1..m /\ n + (k + 1) = n + 1 + k
    BY <1>3, <1>4
  <2> QED
    BY <1>3, <1>6, <2>1
<1>10. Halves'
  BY <1>3, <1>4, <1>5, <1>7, <1>8, <1>9 DEF Halves, a
<1>11. pc' = "reply" => Len(channel_stats') = Len(a)
  <2>1. remaining' = <<>> => Len(remaining') = 0
    OBVIOUS
  <2> QED
    BY <1>1, <1>3, <1>4, <1>6, <2>1
<1> QED
  BY <1>1, <1>2, <1>3, <1>4, <1>5, <1>8, <1>10, <1>11 DEF Answering, Collecting, a

\* No two channels have one identifier: when a channel's detailed statistics
\* are emplaced, none of that identifier are there yet.
LEMMA EmplaceAppends ==
  ASSUME IInv, pc = "lock", NEW stats, stats.id = Head(remaining), emplace(stats)
  PROVE  push_back(stats)
<1> DEFINE a == Asked(operation)
           n == Len(channel_stats)
<1>1. /\ remaining \in Seq(Channels \cup {UnknownId}) /\ remaining # <<>>
      /\ IsSequence(channel_stats) /\ Halves
  BY DEF IInv, Answering, Collecting
<1>2. Len(remaining) \in Nat \ {0} /\ Head(remaining) = remaining[1]
  BY <1>1, TailFacts
<1>3. n \in Nat /\ DOMAIN channel_stats = 1..n
  BY <1>1 DEF IsSequence
<1>4. /\ n + 1 \in 1..Len(a) /\ Head(remaining) = a[n + 1]
      /\ \A k \in 1..n : channel_stats[k].id = a[k] /\ k \in 1..Len(a)
  BY <1>1, <1>2, <1>3 DEF Halves
<1>5. \A j, k \in 1..Len(a) : a[j] = a[k] => j = k
  <2>1. CASE operation.id = -1
    BY <2>1, StatisticsAssumption DEF Asked, StatisticsAssumption
  <2>2. CASE operation.id # -1
    BY <2>2 DEF Asked
  <2> QED
    BY <2>1, <2>2
<1> HIDE DEF a
<1>6. ASSUME NEW k \in DOMAIN channel_stats PROVE channel_stats[k].id # stats.id
  <2>1. k \in 1..n /\ k # n + 1
    BY <1>3
  <2> QED
    BY <1>4, <1>5, <2>1
<1> QED
  BY <1>6 DEF emplace, push_back

\* Every step keeps what is collected a part of what is asked for.
LEMMA AnsweringStep ==
  ASSUME IInv, [Next]_vars
  PROVE  Answering'
<1> USE DEF options, counters, metrics, times, listener, history, bounds
<1>a. Answering
  BY DEF IInv
<1>1. ASSUME NEW c \in Channels, UpdateStatisticEntry(c) PROVE Answering'
  BY <1>1, <1>a DEF UpdateStatisticEntry, Answering, Halves, Collecting
<1>2. ASSUME ReceiveOperation PROVE Answering'
  <2>1. /\ remaining' = Asked(operation') /\ status' = "error" /\ channel_stats' = <<>>
        /\ pc' = IF remaining' = <<>> THEN "reply" ELSE "collect"
        /\ operation'.id \in Channels \cup {UnknownId, -1}
    BY <1>2 DEF ReceiveOperation, Asked
  <2>2. remaining' \in Seq(Channels \cup {UnknownId})
    <3>1. CASE operation'.id = -1
      <4>1. remaining' \in Seq(Channels)
        BY <2>1, <3>1, IdsAreChannels DEF Asked
      <4> QED
        BY <4>1
    <3>2. CASE operation'.id # -1
      <4>1. operation'.id \in Channels \cup {UnknownId} /\ remaining' = <<operation'.id>>
        BY <2>1, <3>2 DEF Asked
      <4> QED
        BY <4>1
    <3> QED
      BY <3>1, <3>2
  <2>3. /\ IsSequence(channel_stats') /\ Len(channel_stats') = 0 /\ Len(remaining') \in Nat
    BY <2>1, <2>2 DEF IsSequence
  <2>4. Halves'
    BY <2>1, <2>3 DEF Halves, Asked
  <2> QED
    BY <2>1, <2>2, <2>3, <2>4 DEF Answering, Collecting
<1>3. ASSUME OperationThrows PROVE Answering'
  BY <1>3, <1>a DEF OperationThrows, Answering, Collecting
<1>4. ASSUME CollectFails PROVE Answering'
  BY <1>4, <1>a DEF CollectFails, Answering, Collecting
<1>5. ASSUME CollectReadsClock PROVE Answering'
  BY <1>5, <1>a DEF CollectReadsClock, Answering, Halves, Collecting
<1>6. ASSUME ElapsedTimeSinceLastCollection PROVE Answering'
  BY <1>6, <1>a DEF ElapsedTimeSinceLastCollection, Answering, Halves, Collecting
<1>7. ASSUME Collect PROVE Answering'
  <2>1. \E stats, time : /\ stats.id = Head(remaining)
                         /\ TakeWindow(Head(remaining), time) /\ push_back(stats)
    BY <1>7 DEF Collect
  <2> QED
    BY <1>7, <2>1, TakeWindowAnswering DEF Collect
<1>8. ASSUME CollectDetailedWindowedEntries PROVE Answering'
  <2>1. PICK stats : /\ stats.id = Head(remaining)
                     /\ TakeWindow(Head(remaining), elapsed) /\ emplace(stats)
    BY <1>8 DEF CollectDetailedWindowedEntries
  <2>2. push_back(stats)
    BY <1>8, <2>1, EmplaceAppends DEF CollectDetailedWindowedEntries
  <2> QED
    BY <1>8, <2>1, <2>2, TakeWindowAnswering DEF CollectDetailedWindowedEntries
<1>9. ASSUME SendAnswer PROVE Answering'
  BY <1>9, <1>a DEF SendAnswer, Answering, Collecting
<1>10. ASSUME AnswerFails PROVE Answering'
  BY <1>10, <1>a DEF AnswerFails, Answering, Collecting
<1>11. ASSUME ListenerEnds PROVE Answering'
  BY <1>11, <1>a DEF ListenerEnds, Answering, Collecting
<1>12. ASSUME NEW c \in Channels, Terminate(c) PROVE Answering'
  BY <1>12, <1>a DEF Terminate, Answering, Halves, Collecting
<1>13. ASSUME UNCHANGED vars PROVE Answering'
  BY <1>13, <1>a DEF vars, Answering, Halves, Collecting
<1> QED
  BY <1>1, <1>2, <1>3, <1>4, <1>5, <1>6, <1>7, <1>8, <1>9, <1>10, <1>11, <1>12,
     <1>13 DEF Next

\* An answer with the channels' statistics is sent when they are all there.
LEMMA CompleteStep ==
  ASSUME IInv, [Next]_vars
  PROVE  AnswersAreComplete'
<1> USE DEF options, counters, metrics, times, listener, history, bounds
<1>1. CASE SendAnswer
  <2> SUFFICES ASSUME operation.kind = "collect_statistics"
               PROVE  [k \in DOMAIN channel_stats |-> channel_stats[k].id] = Asked(operation)
    BY <1>1 DEF SendAnswer, Answer, AnswersAreComplete, Asked
  <2>1. /\ IsSequence(channel_stats)
        /\ Len(channel_stats) = Len(Asked(operation))
        /\ \A k \in 1..Len(channel_stats) : channel_stats[k].id = Asked(operation)[k]
    BY <1>1 DEF SendAnswer, IInv, Answering
  <2>2. DOMAIN channel_stats = 1..Len(channel_stats)
    BY <2>1 DEF IsSequence
  <2>3. Asked(operation) = [k \in 1..Len(Asked(operation)) |-> Asked(operation)[k]]
    BY IdsAreChannels DEF Asked
  <2> QED
    BY <2>1, <2>2, <2>3
<1>2. CASE ~SendAnswer
  <2>1. reply' = reply
    BY <1>2 DEF Next, vars, UpdateStatisticEntry, ReceiveOperation, OperationThrows,
         CollectFails, CollectReadsClock, ElapsedTimeSinceLastCollection, Collect,
         CollectDetailedWindowedEntries, AnswerFails, ListenerEnds, Terminate
  <2> QED
    BY <2>1 DEF IInv, AnswersAreComplete
<1> QED
  BY <1>1, <1>2

-----------------------------------------------------------------------------
(* What is counted where.                                                  *)

\* A step that leaves the counters and what is taken alone, and does not bring
\* the listener to rest, loses nothing.
LEMMA CountersStay ==
  ASSUME Counting, NothingLostBetweenWindows,
         UNCHANGED <<m_context_type, m_collection_metric, m_total_counter,
                     m_windowed_counter, taken, delivered>>,
         status' = "error" \/ pc' = "listen" => status = "error" \/ pc = "listen"
  PROVE  Counting' /\ NothingLostBetweenWindows'
<1>1. Entries' = Entries
  BY DEF Entries, m_stats_size
<1> QED
  BY <1>1 DEF Counting, NothingLostBetweenWindows, Counts, NoCounts

\* A window moves whole from the channel into the answer being prepared.
LEMMA TakeWindowCounting ==
  ASSUME IInv, NEW c \in Channels, NEW time, TakeWindow(c, time),
         UNCHANGED <<m_context_type, m_collection_metric, m_total_counter, delivered>>
  PROVE  Counting' /\ NothingLostBetweenWindows'
<1>1. Entries' = Entries
  BY DEF Entries, m_stats_size
<1>2. /\ m_windowed_counter' = [m_windowed_counter EXCEPT ![c] = [i \in Entries |-> 0]]
      /\ taken' = [taken EXCEPT ![c] =
                     [i \in Entries |-> taken[c][i] + m_windowed_counter[c][i]]]
      /\ status' = "ok" /\ pc' \in {"reply", "collect"}
  BY DEF TakeWindow, reset_windowed_counters
<1>3. /\ m_total_counter \in [Channels -> [Entries -> Nat]]
      /\ m_windowed_counter \in [Channels -> [Entries -> Nat]]
      /\ taken \in [Channels -> [Entries -> Nat]]
      /\ delivered \in [Channels -> [Entries -> Nat]]
  BY DEF IInv, Counting, Counts
<1>4. [i \in Entries |-> taken[c][i] + m_windowed_counter[c][i]] \in [Entries -> Nat]
  <2>1. \A i \in Entries : taken[c][i] \in Nat /\ m_windowed_counter[c][i] \in Nat
    BY <1>3
  <2> QED
    BY <2>1
<1>5. Counting'
  BY <1>1, <1>2, <1>3, <1>4 DEF IInv, Counting, Counts
<1>6. ASSUME NEW d \in Channels, NEW i \in Entries
      PROVE  m_total_counter[d][i] =
               m_windowed_counter'[d][i] + taken'[d][i] + delivered[d][i]
  <2>1. m_total_counter[d][i] = m_windowed_counter[d][i] + taken[d][i] + delivered[d][i]
    BY DEF IInv, NothingLostBetweenWindows
  <2>2. /\ m_windowed_counter[d][i] \in Nat /\ taken[d][i] \in Nat
        /\ delivered[d][i] \in Nat
    BY <1>3
  <2>3. CASE d = c
    <3>1. /\ m_windowed_counter'[d][i] = 0
          /\ taken'[d][i] = taken[d][i] + m_windowed_counter[d][i]
      BY <1>2, <1>3, <2>3
    <3> QED
      BY <2>1, <2>2, <3>1
  <2>4. CASE d # c
    BY <1>2, <1>3, <2>1, <2>4
  <2> QED
    BY <2>3, <2>4
<1> QED
  BY <1>1, <1>5, <1>6 DEF NothingLostBetweenWindows

\* What a request adds is counted once, in one place.
LEMMA CountingStep ==
  ASSUME IInv, [Next]_vars
  PROVE  Counting' /\ NothingLostBetweenWindows'
<1> USE DEF options, counters, metrics, times, listener, history, bounds
<1>a. Answering /\ Counting /\ NothingLostBetweenWindows
  BY DEF IInv
<1>b. /\ m_total_counter \in [Channels -> [Entries -> Nat]]
      /\ m_windowed_counter \in [Channels -> [Entries -> Nat]]
      /\ taken \in [Channels -> [Entries -> Nat]]
      /\ delivered \in [Channels -> [Entries -> Nat]]
  BY <1>a DEF Counting, Counts
<1>1. ASSUME NEW c \in Channels, UpdateStatisticEntry(c)
      PROVE  Counting' /\ NothingLostBetweenWindows'
  <2>1. PICK context \in Contexts[m_context_type], load \in Loads[m_collection_metric] :
          update_entry(c, Position(context[1], context[2]), CounterValue(load))
    BY <1>1 DEF UpdateStatisticEntry
  <2> DEFINE pos == Position(context[1], context[2])
             value == CounterValue(load)
  <2>2. pos \in Entries
    <3>1. context[1] \in Nat /\ context[2] \in Nat
      BY <1>a, StatisticsAssumption DEF StatisticsAssumption, Counting
    <3> QED
      BY <3>1, EntriesFacts DEF Position
  <2>3. value \in Nat
    <3>1. load[1] \in Nat /\ load[2] \in Nat
      BY <1>a, StatisticsAssumption DEF StatisticsAssumption, Counting
    <3> QED
      BY <3>1 DEF CounterValue
  <2>4. /\ UNCHANGED <<m_context_type, m_collection_metric, taken, delivered, status, pc>>
        /\ Entries' = Entries
    BY <1>1 DEF UpdateStatisticEntry, Entries, m_stats_size
  <2> HIDE DEF pos, value
  <2>5. /\ m_total_counter' = [m_total_counter EXCEPT ![c][pos] = @ + value]
        /\ m_windowed_counter' = [m_windowed_counter EXCEPT ![c][pos] = @ + value]
    BY <2>1 DEF update_entry, pos, value
  <2>6. m_total_counter' \in [Channels -> [Entries -> Nat]]
    <3>1. [m_total_counter[c] EXCEPT ![pos] = @ + value] \in [Entries -> Nat]
      BY <1>b, <2>2, <2>3
    <3> QED
      BY <1>b, <2>5, <3>1
  <2>7. m_windowed_counter' \in [Channels -> [Entries -> Nat]]
    <3>1. [m_windowed_counter[c] EXCEPT ![pos] = @ + value] \in [Entries -> Nat]
      BY <1>b, <2>2, <2>3
    <3> QED
      BY <1>b, <2>5, <3>1
  <2>8. Counting'
    BY <1>a, <2>4, <2>6, <2>7 DEF Counting, Counts, NoCounts
  <2>9. ASSUME NEW d \in Channels, NEW i \in Entries
        PROVE  m_total_counter'[d][i] =
                 m_windowed_counter'[d][i] + taken[d][i] + delivered[d][i]
    <3>1. m_total_counter[d][i] = m_windowed_counter[d][i] + taken[d][i] + delivered[d][i]
      BY <1>a DEF NothingLostBetweenWindows
    <3>2. /\ m_windowed_counter[d][i] \in Nat /\ taken[d][i] \in Nat
          /\ delivered[d][i] \in Nat /\ m_total_counter[d][i] \in Nat
      BY <1>b
    <3>3. CASE d = c /\ i = pos
      <4>1. /\ m_total_counter'[d][i] = m_total_counter[d][i] + value
            /\ m_windowed_counter'[d][i] = m_windowed_counter[d][i] + value
        BY <1>b, <2>5, <3>3
      <4> QED
        BY <2>3, <3>1, <3>2, <4>1
    <3>4. CASE ~(d = c /\ i = pos)
      <4>1. /\ m_total_counter'[d][i] = m_total_counter[d][i]
            /\ m_windowed_counter'[d][i] = m_windowed_counter[d][i]
        BY <1>b, <2>5, <3>4
      <4> QED
        BY <3>1, <4>1
    <3> QED
      BY <3>3, <3>4
  <2> QED
    BY <2>4, <2>8, <2>9 DEF NothingLostBetweenWindows
<1>2. ASSUME ReceiveOperation PROVE Counting' /\ NothingLostBetweenWindows'
  BY <1>2, <1>a, CountersStay DEF ReceiveOperation
<1>3. ASSUME OperationThrows PROVE Counting' /\ NothingLostBetweenWindows'
  BY <1>3, <1>a, CountersStay DEF OperationThrows
<1>4. ASSUME CollectFails PROVE Counting' /\ NothingLostBetweenWindows'
  <2>1. status = "error"
    <3> SUFFICES ASSUME status = "ok" PROVE FALSE
      BY <1>a DEF Answering
    <3>1. /\ m_collect_channel_statistics /\ remaining # <<>> /\ channel_stats # <<>>
          /\ IsSequence(channel_stats) /\ Halves
          /\ remaining \in Seq(Channels \cup {UnknownId})
      BY <1>4, <1>a DEF CollectFails, Answering, Collecting
    <3>2. Head(remaining) \notin Channels
      BY <1>4, <3>1 DEF CollectFails
    <3>3. /\ Len(remaining) \in Nat \ {0} /\ Head(remaining) = remaining[1]
      BY <3>1, TailFacts
    <3>4. Len(channel_stats) \in Nat \ {0}
      BY <3>1 DEF IsSequence
    <3>5. /\ Len(Asked(operation)) = Len(channel_stats) + Len(remaining)
          /\ Head(remaining) = Asked(operation)[Len(channel_stats) + 1]
      BY <3>1, <3>3 DEF Halves
    <3>6. CASE operation.id = -1
      <4>1. Len(channel_stats) + 1 \in 1..Len(ChannelIds)
        BY <3>3, <3>4, <3>5, <3>6 DEF Asked
      <4> QED
        BY <3>2, <3>5, <3>6, <4>1, IdsAreChannels DEF Asked
    <3>7. CASE operation.id # -1
      BY <3>3, <3>4, <3>5, <3>7 DEF Asked
    <3> QED
      BY <3>6, <3>7
  <2> QED
    BY <1>4, <1>a, <2>1, CountersStay DEF CollectFails
<1>5. ASSUME CollectReadsClock PROVE Counting' /\ NothingLostBetweenWindows'
  BY <1>5, <1>a, CountersStay DEF CollectReadsClock
<1>6. ASSUME ElapsedTimeSinceLastCollection PROVE Counting' /\ NothingLostBetweenWindows'
  BY <1>6, <1>a, CountersStay DEF ElapsedTimeSinceLastCollection
<1>7. ASSUME Collect PROVE Counting' /\ NothingLostBetweenWindows'
  <2>1. /\ \E time : TakeWindow(Head(remaining), time)
        /\ UNCHANGED <<m_context_type, m_collection_metric, m_total_counter, delivered>>
    BY <1>7 DEF Collect
  <2>2. Head(remaining) \in Channels
    BY <1>7, <1>a DEF Collect, Answering
  <2> QED
    BY <2>1, <2>2, TakeWindowCounting
<1>8. ASSUME CollectDetailedWindowedEntries PROVE Counting' /\ NothingLostBetweenWindows'
  <2>1. /\ \E time : TakeWindow(Head(remaining), time)
        /\ UNCHANGED <<m_context_type, m_collection_metric, m_total_counter, delivered>>
    BY <1>8 DEF CollectDetailedWindowedEntries
  <2>2. Head(remaining) \in Channels
    BY <1>8, <1>a DEF CollectDetailedWindowedEntries, Answering
  <2> QED
    BY <2>1, <2>2, TakeWindowCounting
<1>9. ASSUME SendAnswer PROVE Counting' /\ NothingLostBetweenWindows'
  <2>1. /\ UNCHANGED <<m_context_type, m_collection_metric, m_total_counter,
                       m_windowed_counter, status>>
        /\ Entries' = Entries /\ taken' = NoCounts
        /\ delivered' = IF status = "ok" THEN
             [c \in Channels |-> [i \in Entries |-> delivered[c][i] + taken[c][i]]]
             ELSE delivered
    BY <1>9 DEF SendAnswer, Entries, m_stats_size
  <2>2. NoCounts' = NoCounts /\ NoCounts \in [Channels -> [Entries -> Nat]]
    BY <2>1 DEF NoCounts
  <2>3. ASSUME NEW c \in Channels, NEW i \in Entries
        PROVE  delivered'[c][i] = delivered[c][i] + taken[c][i]
    <3>1. delivered[c][i] \in Nat
      BY <1>b
    <3>2. status = "ok" \/ taken[c][i] = 0
      BY <1>a DEF Answering, Counting, NoCounts
    <3> QED
      BY <2>1, <3>1, <3>2
  <2>4. \A c \in Channels : \A i \in Entries : delivered[c][i] + taken[c][i] \in Nat
    BY <1>b
  <2>5. delivered' \in [Channels -> [Entries -> Nat]]
    <3>1. CASE status = "ok"
      BY <2>1, <2>4, <3>1
    <3>2. CASE status # "ok"
      BY <1>b, <2>1, <3>2
    <3> QED
      BY <3>1, <3>2
  <2>6. Counting'
    BY <1>a, <2>1, <2>2, <2>5 DEF Counting, Counts
  <2>7. ASSUME NEW c \in Channels, NEW i \in Entries
        PROVE  m_total_counter[c][i] = m_windowed_counter[c][i] + taken'[c][i] + delivered'[c][i]
    <3>1. m_total_counter[c][i] = m_windowed_counter[c][i] + taken[c][i] + delivered[c][i]
      BY <1>a DEF NothingLostBetweenWindows
    <3>2. /\ m_windowed_counter[c][i] \in Nat /\ taken[c][i] \in Nat
          /\ delivered[c][i] \in Nat /\ taken'[c][i] = 0
      BY <1>b, <2>1 DEF NoCounts
    <3> QED
      BY <2>3, <3>1, <3>2
  <2> QED
    BY <2>1, <2>6, <2>7 DEF NothingLostBetweenWindows
<1>10. ASSUME AnswerFails PROVE Counting' /\ NothingLostBetweenWindows'
  BY <1>10, <1>a, CountersStay DEF AnswerFails
<1>11. ASSUME ListenerEnds PROVE Counting' /\ NothingLostBetweenWindows'
  BY <1>11, <1>a, CountersStay DEF ListenerEnds
<1>12. ASSUME NEW c \in Channels, Terminate(c) PROVE Counting' /\ NothingLostBetweenWindows'
  BY <1>12, <1>a, CountersStay DEF Terminate
<1>13. ASSUME UNCHANGED vars PROVE Counting' /\ NothingLostBetweenWindows'
  BY <1>13, <1>a, CountersStay DEF vars
<1> QED
  BY <1>1, <1>2, <1>3, <1>4, <1>5, <1>6, <1>7, <1>8, <1>9, <1>10, <1>11, <1>12,
     <1>13 DEF Next

-----------------------------------------------------------------------------
(* Windows and time.                                                       *)

\* Closing the window of channel c at now, when its length is what has passed
\* since the last collection.
LEMMA TakeWindowTiming ==
  ASSUME IInv, pc = "lock", NEW c \in Channels,
         NEW time, time = now - m_last_collection_time[c],
         TakeWindow(c, time), clock' \in {clock, clock + 1},
         UNCHANGED <<now, elapsed, m_start_collection_time>>
  PROVE  Timing' /\ WindowsTileTime'
<1>1. /\ m_last_collection_time' = [m_last_collection_time EXCEPT ![c] = now]
      /\ window_time' = [window_time EXCEPT ![c] = window_time[c] + time]
      /\ pc' \in {"reply", "collect"}
  BY DEF TakeWindow, record_last_collection_time
<1>2. /\ Timing /\ clock \in Nat /\ now = clock
      /\ m_last_collection_time \in [Channels -> Nat]
      /\ window_time \in [Channels -> Nat]
      /\ \A d \in Channels : m_last_collection_time[d] < now
  BY DEF IInv, Timing, Times
<1>3. time \in Nat
  BY <1>2
<1>4. /\ m_last_collection_time' \in [Channels -> Nat]
      /\ window_time' \in [Channels -> Nat]
      /\ clock' \in Nat /\ clock <= clock'
  BY <1>1, <1>2, <1>3
<1>5. \A d \in Channels : m_last_collection_time'[d] <= clock'
  BY <1>1, <1>2, <1>4
<1>6. Timing'
  BY <1>1, <1>2, <1>4, <1>5 DEF Timing, Times
<1>7. ASSUME NEW d \in Channels
      PROVE  window_time'[d] = m_last_collection_time'[d] - m_start_collection_time[d]
  <2>1. /\ window_time[d] = m_last_collection_time[d] - m_start_collection_time[d]
        /\ m_start_collection_time[d] \in Nat /\ window_time[d] \in Nat
        /\ m_last_collection_time[d] \in Nat
    BY <1>2 DEF IInv, WindowsTileTime, Timing, Times
  <2>2. CASE d = c
    <3>1. window_time'[d] = window_time[d] + (now - m_last_collection_time[d])
      BY <1>1, <1>2, <2>2
    <3>2. m_last_collection_time'[d] = now
      BY <1>1, <1>2, <2>2
    <3> QED
      BY <1>2, <2>1, <3>1, <3>2
  <2>3. CASE d # c
    BY <1>1, <1>2, <2>1, <2>3
  <2> QED
    BY <2>2, <2>3
<1> QED
  BY <1>6, <1>7 DEF WindowsTileTime

\* A step that reads no clock and closes no window.
LEMMA TimesStay ==
  ASSUME IInv,
         UNCHANGED <<clock, now, elapsed, m_start_collection_time,
                     m_last_collection_time, window_time, operation>>,
         pc' \in {"elapsed", "lock"} => pc' = pc /\ remaining' = remaining
  PROVE  Timing' /\ WindowsTileTime'
BY DEF IInv, Timing, WindowsTileTime, Times

\* Windows keep covering the time, whoever closes them.
LEMMA TimingStep ==
  ASSUME IInv, [Next]_vars
  PROVE  Timing' /\ WindowsTileTime'
<1> USE DEF options, counters, metrics, times, listener, history, bounds
<1>a. Answering /\ Timing /\ WindowsTileTime
  BY DEF IInv
<1>1. ASSUME NEW c \in Channels, UpdateStatisticEntry(c) PROVE Timing' /\ WindowsTileTime'
  BY <1>1, TimesStay DEF UpdateStatisticEntry
<1>2. ASSUME ReceiveOperation PROVE Timing' /\ WindowsTileTime'
  BY <1>2, <1>a DEF ReceiveOperation, Timing, WindowsTileTime, Times
<1>3. ASSUME OperationThrows PROVE Timing' /\ WindowsTileTime'
  BY <1>3, TimesStay DEF OperationThrows
<1>4. ASSUME CollectFails PROVE Timing' /\ WindowsTileTime'
  BY <1>4, TimesStay DEF CollectFails
<1>5. ASSUME CollectReadsClock PROVE Timing' /\ WindowsTileTime'
  <2>1. \A c \in Channels : m_last_collection_time[c] < clock + 1
    BY <1>a DEF Timing, Times
  <2> QED
    BY <1>5, <1>a, <2>1 DEF CollectReadsClock, Timing, WindowsTileTime, Times
<1>6. ASSUME ElapsedTimeSinceLastCollection PROVE Timing' /\ WindowsTileTime'
  <2>1. Head(remaining) \in Channels
    BY <1>6, <1>a DEF ElapsedTimeSinceLastCollection, Answering
  <2> QED
    BY <1>6, <1>a, <2>1 DEF ElapsedTimeSinceLastCollection, Timing, WindowsTileTime, Times
<1>7. ASSUME Collect PROVE Timing' /\ WindowsTileTime'
  <2>1. TakeWindow(Head(remaining), now - m_last_collection_time[Head(remaining)])
    BY <1>7 DEF Collect
  <2>2. Head(remaining) \in Channels
    BY <1>7, <1>a DEF Collect, Answering
  <2> QED
    BY <1>7, <2>1, <2>2, TakeWindowTiming DEF Collect
<1>8. ASSUME CollectDetailedWindowedEntries PROVE Timing' /\ WindowsTileTime'
  <2>1. TakeWindow(Head(remaining), elapsed)
    BY <1>8 DEF CollectDetailedWindowedEntries
  <2>2. Head(remaining) \in Channels
    BY <1>8, <1>a DEF CollectDetailedWindowedEntries, Answering
  <2>3. elapsed = now - m_last_collection_time[Head(remaining)]
    BY <1>8, <1>a DEF CollectDetailedWindowedEntries, Timing
  <2> QED
    BY <1>8, <2>1, <2>2, <2>3, TakeWindowTiming DEF CollectDetailedWindowedEntries
<1>9. ASSUME SendAnswer PROVE Timing' /\ WindowsTileTime'
  BY <1>9, TimesStay DEF SendAnswer
<1>10. ASSUME AnswerFails PROVE Timing' /\ WindowsTileTime'
  BY <1>10, TimesStay DEF AnswerFails
<1>11. ASSUME ListenerEnds PROVE Timing' /\ WindowsTileTime'
  BY <1>11, TimesStay DEF ListenerEnds
<1>12. ASSUME NEW c \in Channels, Terminate(c) PROVE Timing' /\ WindowsTileTime'
  <2>1. clock' \in Nat /\ \A d \in Channels : m_last_collection_time[d] <= clock'
    BY <1>12, <1>a DEF Terminate, Timing, Times
  <2> QED
    BY <1>12, <1>a, <2>1 DEF Terminate, Timing, WindowsTileTime, Times
<1>13. ASSUME UNCHANGED vars PROVE Timing' /\ WindowsTileTime'
  BY <1>13, TimesStay DEF vars
<1> QED
  BY <1>1, <1>2, <1>3, <1>4, <1>5, <1>6, <1>7, <1>8, <1>9, <1>10, <1>11, <1>12,
     <1>13 DEF Next

-----------------------------------------------------------------------------
LEMMA Invariance == Spec => []IInv
<1>1. Init => IInv
  BY InitIInv
<1>2. IInv /\ [Next]_vars => IInv'
  BY AnsweringStep, CompleteStep, CountingStep, TimingStep DEF IInv
<1> QED
  BY <1>1, <1>2, PTL DEF Spec

\* What a request adds beside collections falls into exactly one window, and
\* no window is dropped by a failed collection, whatever the listener is asked
\* for.
THEOREM RequestsReportedOnce == Spec => []NothingLostBetweenWindows
<1>1. IInv => NothingLostBetweenWindows
  BY DEF IInv
<1> QED
  BY <1>1, Invariance, PTL

\* General and detailed collections, mixed, leave no gap between the windows of
\* a channel and let no two overlap.
THEOREM WindowsCoverTime == Spec => []WindowsTileTime
<1>1. IInv => WindowsTileTime
  BY DEF IInv
<1> QED
  BY <1>1, Invariance, PTL

\* A collection that stopped half-way is never sent as the channels' statistics.
THEOREM NoPartialAnswer == Spec => []AnswersAreComplete
<1>1. IInv => AnswersAreComplete
  BY DEF IInv
<1> QED
  BY <1>1, Invariance, PTL

=============================================================================
