---------------------- MODULE TokenBucketThreadedProofs ----------------------
(***************************************************************************)
(* The threaded bucket's accounts and the reports of its statistics, for   *)
(* any number of consumers and settings and a ring of any size.            *)
(*                                                                         *)
(* TokensNotOverdrawn needs to know that the tokens a consumer tested are  *)
(* still there when it subtracts them, and for that, that one consumer at  *)
(* a time holds m_refill_mutex (Locking).  PaysItsCost needs to know that  *)
(* a part never exceeds what is left to pay, and that needs the capacity   *)
(* not to have fallen below the part since the call began (Paying).        *)
(* ReportedInOrder needs to know which entry each index of the ring holds, *)
(* before and after it went round, and that the first valid index lies     *)
(* among the entries stored (Ring).                                        *)
(***************************************************************************)
EXTENDS TokenBucketThreaded, SequenceTheorems,
        WellFoundedInduction, TLAPS

Entry == [number : Nat, stamp : 0..MaxTime]
TBStatsType ==
  [m_tb_statistics     : [RingIndex -> Entry],
   m_total_stats       : Nat,
   m_position          : RingIndex,
   m_valid_entry_index : RingIndex \cup {-1}]

BucketType ==
  /\ m_capacity \in Nat /\ m_tokens \in Int /\ m_refill_period \in Nat
  /\ m_interrupted \in BOOLEAN /\ raced \in BOOLEAN
  /\ pc \in [Consumers -> {"idle", "split", "consume", "wait", "subtract", "loop"}]
  /\ tokens_left \in [Consumers -> Int]
  /\ iteration_tokens \in [Consumers -> Nat]
  /\ resized \subseteq Consumers

\* One consumer holds m_refill_mutex, and the tokens it tested are there.
Locking ==
  /\ \A c, d \in Consumers : pc[c] = "subtract" /\ pc[d] = "subtract" => c = d
  /\ \A c \in Consumers :
       pc[c] = "subtract" => iteration_tokens[c] <= m_tokens \/ m_interrupted \/ raced

\* Unless the capacity was changed under its hands, a part is no larger than
\* the bucket, nor than what is left to pay.
Paying ==
  \A c \in Consumers :
    /\ pc[c] = "loop" => tokens_left[c] > 0
    /\ (pc[c] = "split" /\ c \notin resized) => m_capacity <= tokens_left[c]
    /\ (pc[c] \notin {"idle", "split"} /\ c \notin resized) =>
         iteration_tokens[c] <= m_capacity
    /\ (pc[c] \in {"consume", "wait", "subtract"} /\ c \notin resized) =>
         iteration_tokens[c] <= tokens_left[c]

BucketInv == BucketType /\ TokensNotOverdrawn /\ Locking /\ Paying /\ PaysItsCost

StatsType ==
  /\ m_collect_statistics \in BOOLEAN
  /\ stats \in TBStatsType
  /\ clock \in 0..MaxTime /\ time_point \in 0..clock
  /\ refiller \in {"check", "sleep", "ended"}
  /\ collector \in {"idle", "gc", "collect"}
  /\ stored \in 0..MaxStored /\ reported \in 0..stored

\* What was reported is older than the entries since the last reset.  From the
\* newest, at m_position, numbers fall by one towards index 0 and, once the ring
\* went round, from its last index on.
Ring ==
  /\ stats.m_total_stats + reported <= stored
  /\ stats.m_valid_entry_index < stats.m_total_stats
  /\ stats.m_total_stats > 0 =>
       /\ stats.m_position = (stats.m_total_stats - 1) % m_max_statistics
       /\ \A i \in RingIndex :
            /\ i <= stats.m_position =>
                 stats.m_tb_statistics[i].number = stored - (stats.m_position - i)
            /\ (i > stats.m_position /\ stats.m_total_stats > m_max_statistics) =>
                 stats.m_tb_statistics[i].number =
                   stored - (stats.m_position + m_max_statistics - i)

StatsInv == StatsType /\ Ring
IInv == BucketInv /\ StatsInv

-----------------------------------------------------------------------------
(* Numbers.                                                                *)

\* normalize_tokens yields a number of tokens.
LEMMA ProductInNat ==
  ASSUME NEW m \in Nat, NEW n \in Nat
  PROVE  m * n \in Nat
OBVIOUS

\* A set of numbers that is not empty has a least element.
LEMMA LeastElement ==
  ASSUME NEW S \in SUBSET Nat, S # {}
  PROVE  \E x \in S : \A y \in S : x <= y
<1> DEFINE R == {p \in Nat \X Nat : p[1] < p[2]}
<1>1. IsWellFoundedOn(R, Nat)
  BY NatLessThanWellFounded DEF OpToRel
<1>2. \A x, y \in Nat : <<y, x>> \in R <=> y < x
  OBVIOUS
<1> HIDE DEF R
<1>3. PICK x \in S : \A y \in S : ~ (<<y, x>> \in R)
  BY <1>1, WFMin
<1>4. ASSUME NEW y \in S PROVE x <= y
  <2>1. x \in Nat /\ y \in Nat
    OBVIOUS
  <2>2. ~(y < x)
    BY <1>2, <1>3, <2>1
  <2> QED
    BY <2>1, <2>2
<1> QED
  BY <1>4

\* What FirstValid's Min picks is one of the indices.
LEMMA MinFacts ==
  ASSUME NEW S \in SUBSET Nat, S # {}
  PROVE  Min(S) \in S
BY LeastElement DEF Min

\* The largest of a set of numbers that has a bound.
LEMMA MaxFacts ==
  ASSUME NEW S \in SUBSET Int, S # {}, NEW n \in Nat, \A x \in S : x <= n
  PROVE  Max(S) \in S /\ \A x \in S : Max(S) >= x
<1> DEFINE T == {n - x : x \in S}
<1>1. T \in SUBSET Nat /\ T # {}
  <2>1. \A x \in S : n - x \in Nat
    OBVIOUS
  <2>2. \E x \in S : n - x \in T
    OBVIOUS
  <2> QED
    BY <2>1, <2>2
<1>2. PICK t \in T : \A u \in T : t <= u
  <2> HIDE DEF T
  <2> QED
    BY <1>1, LeastElement
<1>3. PICK x \in S : t = n - x
  OBVIOUS
<1>4. ASSUME NEW y \in S PROVE x >= y
  <2>1. n - x <= n - y
    BY <1>2, <1>3
  <2> QED
    BY <2>1
<1> QED
  BY <1>4 DEF Max

\* Quotient and remainder.
LEMMA DivMod ==
  ASSUME NEW n \in Nat \ {0}, NEW a \in Nat
  PROVE  /\ a \div n \in Nat /\ a % n \in 0..n - 1
         /\ a = (a \div n) * n + (a % n)
OBVIOUS

\* The remainder is the only one.
LEMMA ModUnique ==
  ASSUME NEW n \in Nat \ {0}, NEW q \in Nat, NEW r \in 0..n - 1
  PROVE  (q * n + r) % n = r
OBVIOUS

\* An index that goes round: one further, or back to 0 from the last.
LEMMA ModSuccessor ==
  ASSUME NEW n \in Nat \ {0}, NEW a \in Nat
  PROVE  (a + 1) % n = IF a % n = n - 1 THEN 0 ELSE (a % n) + 1
<1> DEFINE q == a \div n
           r == a % n
<1>1. q \in Nat /\ r \in 0..n - 1 /\ a = q * n + r
  BY DivMod
<1> HIDE DEF q, r
<1>2. CASE r = n - 1
  <2>1. (q + 1) * n = q * n + n
    BY <1>1
  <2>2. a + 1 = (q + 1) * n + 0
    BY <1>1, <1>2, <2>1
  <2>3. ((q + 1) * n + 0) % n = 0
    BY ModUnique, <1>1
  <2> QED
    BY <1>2, <2>2, <2>3 DEF r
<1>3. CASE r # n - 1
  <2>1. r + 1 \in 0..n - 1
    BY <1>1, <1>3
  <2>2. (q * n + (r + 1)) % n = r + 1
    BY ModUnique, <1>1, <2>1
  <2>3. a + 1 = q * n + (r + 1)
    BY <1>1
  <2> QED
    BY <1>3, <2>2, <2>3 DEF r
<1> QED
  BY <1>2, <1>3

\* Before the ring went round the index is the number of entries.
LEMMA ModSmall ==
  ASSUME NEW n \in Nat \ {0}, NEW r \in 0..n - 1
  PROVE  r % n = r
OBVIOUS

-----------------------------------------------------------------------------
(* The bucket and its consumers.                                           *)

\* The constructor's bucket is full and nobody owes anything.
LEMMA InitBucket == Init => BucketInv
<1> SUFFICES ASSUME Init PROVE BucketInv
  OBVIOUS
<1>1. DefaultRate * DefaultPeriod \in Nat
  BY ThreadedAssumption, ProductInNat DEF ThreadedAssumption
<1>2. m_capacity \in Nat /\ m_tokens \in Nat
  BY <1>1 DEF Init
<1>3. BucketType
  <2>1. /\ m_refill_period = DefaultPeriod /\ m_interrupted = FALSE
        /\ resized = {} /\ raced = FALSE
        /\ pc = [c \in Consumers |-> "idle"]
        /\ tokens_left = [c \in Consumers |-> 0]
        /\ iteration_tokens = [c \in Consumers |-> 0]
    BY DEF Init
  <2>2. DefaultPeriod \in Nat
    BY ThreadedAssumption DEF ThreadedAssumption
  <2>3. /\ pc \in [Consumers -> {"idle", "split", "consume", "wait", "subtract", "loop"}]
        /\ tokens_left \in [Consumers -> Int]
        /\ iteration_tokens \in [Consumers -> Nat]
    BY <2>1
  <2>4. m_tokens \in Int
    BY <1>2
  <2> QED
    BY <1>2, <2>1, <2>2, <2>3, <2>4 DEF BucketType
<1>4. TokensNotOverdrawn /\ Locking /\ Paying /\ PaysItsCost
  BY <1>2 DEF Init, TokensNotOverdrawn, Locking, Paying, PaysItsCost
<1> QED
  BY <1>3, <1>4 DEF BucketInv

\* A step that leaves the bucket, its consumers and the interruption alone.
LEMMA BucketStays ==
  ASSUME BucketInv, UNCHANGED <<bucket, m_interrupted, consuming>>
  PROVE  BucketInv'
BY DEF BucketInv, BucketType, TokensNotOverdrawn, Locking, Paying, PaysItsCost,
       bucket, consuming, account, history

\* A consumer moves between its test and its wait; nothing is paid.
LEMMA ConsumerMoves ==
  ASSUME BucketInv, NEW c \in Consumers, NEW place \in {"consume", "wait", "subtract"},
         pc[c] \in {"consume", "wait"}, pc' = [pc EXCEPT ![c] = place],
         place = "subtract" => MutexFree /\ (iteration_tokens[c] <= m_tokens \/ m_interrupted),
         UNCHANGED <<bucket, m_interrupted, account, history>>
  PROVE  BucketInv'
<1>1. BucketType /\ Locking /\ Paying /\ PaysItsCost
  BY DEF BucketInv
<1>2. BucketType' /\ TokensNotOverdrawn'
  BY <1>1 DEF BucketInv, BucketType, TokensNotOverdrawn, bucket, account, history
<1>3. Locking'
  BY <1>1 DEF BucketType, Locking, MutexFree, bucket, account, history
<1>4. Paying'
  BY <1>1 DEF BucketType, Paying, bucket, account, history
<1>5. PaysItsCost'
  BY <1>1 DEF BucketType, PaysItsCost, bucket, account, history
<1> QED
  BY <1>2, <1>3, <1>4, <1>5 DEF BucketInv

\* A consumer subtracts its part; what it owes falls by it.
LEMMA SubtractBucket ==
  ASSUME BucketInv, NEW c \in Consumers, Subtract(c)
  PROVE  BucketInv'
<1>1. BucketType /\ pc[c] = "subtract"
  BY DEF BucketInv, Subtract
<1> DEFINE left == tokens_left[c] - iteration_tokens[c]
<1>2. /\ left \in Int /\ m_tokens' = m_tokens - iteration_tokens[c]
      /\ tokens_left' = [tokens_left EXCEPT ![c] = left]
      /\ pc' = [pc EXCEPT ![c] = IF left > 0 THEN "loop" ELSE "idle"]
      /\ iteration_tokens' = [iteration_tokens EXCEPT ![c] = IF left > 0 THEN @ ELSE 0]
      /\ UNCHANGED <<m_capacity, m_refill_period, m_interrupted, resized, raced>>
  BY <1>1 DEF Subtract, BucketType, history
<1>3. c \notin resized => left >= 0
  BY <1>1 DEF BucketInv, BucketType, Paying
<1> HIDE DEF left
<1>4. BucketType'
  BY <1>1, <1>2 DEF BucketType
<1>5. TokensNotOverdrawn'
  BY <1>1, <1>2 DEF BucketInv, BucketType, TokensNotOverdrawn, Locking
<1>6. Locking'
  <2>1. \A d \in Consumers : pc'[d] # "subtract"
    BY <1>1, <1>2 DEF BucketInv, BucketType, Locking
  <2> QED
    BY <2>1 DEF Locking
<1>7. Paying'
  BY <1>1, <1>2 DEF BucketInv, BucketType, Paying
<1>8. PaysItsCost'
  <2> SUFFICES ASSUME NEW d \in Consumers, pc'[d] = "idle"
               PROVE  tokens_left'[d] = 0 \/ (d \in resized' /\ tokens_left'[d] < 0)
    BY DEF PaysItsCost
  <2>1. CASE d = c
    BY <1>1, <1>2, <1>3, <2>1 DEF BucketType
  <2>2. CASE d # c
    BY <1>1, <1>2, <2>2 DEF BucketType, BucketInv, PaysItsCost
  <2> QED
    BY <2>1, <2>2
<1> QED
  BY <1>4, <1>5, <1>6, <1>7, <1>8 DEF BucketInv

\* Every step keeps the accounts.
LEMMA BucketStep ==
  ASSUME BucketInv, [Next]_vars
  PROVE  BucketInv'
<1>a. BucketType
  BY DEF BucketInv
<1>b. \A n \in Nat : normalize_tokens(n) \in Nat
  BY <1>a, ProductInNat DEF BucketType, normalize_tokens
<1>1. CASE CheckInterrupted
  BY <1>1, BucketStays DEF CheckInterrupted
<1>2. CASE TryRefill
  <2>1. /\ m_tokens' = m_capacity /\ MutexFree /\ raced' = FALSE
        /\ pc' = [d \in Consumers |-> IF pc[d] = "wait" THEN "consume" ELSE pc[d]]
        /\ UNCHANGED <<m_capacity, m_refill_period, m_interrupted, tokens_left,
                       iteration_tokens, resized>>
    BY <1>2 DEF TryRefill, account
  <2>2. BucketType' /\ TokensNotOverdrawn'
    <3>1. raced' \in BOOLEAN
      BY <2>1
    <3>2. m_tokens' >= 0 /\ m_tokens' \in Int
      BY <1>a, <2>1 DEF BucketType
    <3> QED
      BY <1>a, <2>1, <3>1, <3>2 DEF BucketType, TokensNotOverdrawn
  <2>3. Paying'
    BY <1>a, <2>1 DEF BucketInv, BucketType, Paying
  <2>4. PaysItsCost'
    BY <1>a, <2>1 DEF BucketInv, BucketType, PaysItsCost
  <2>5. Locking'
    BY <1>a, <2>1 DEF BucketType, Locking, MutexFree
  <2> QED
    BY <2>2, <2>3, <2>4, <2>5 DEF BucketInv
<1>3. ASSUME NEW c \in Consumers, TryConsume(c) PROVE BucketInv'
  <2>1. PICK n \in Costs :
          /\ tokens_left' = [tokens_left EXCEPT ![c] = n * Second]
          /\ iteration_tokens' = [iteration_tokens EXCEPT ![c] = n * Second]
          /\ pc' = [pc EXCEPT ![c] = IF n * Second > m_capacity THEN "split" ELSE "consume"]
    BY <1>3 DEF TryConsume
  <2> DEFINE cost == n * Second
  <2>2. cost \in Nat
    BY ThreadedAssumption, ProductInNat DEF ThreadedAssumption
  <2> HIDE DEF cost
  <2>3. /\ tokens_left' = [tokens_left EXCEPT ![c] = cost]
        /\ iteration_tokens' = [iteration_tokens EXCEPT ![c] = cost]
        /\ pc' = [pc EXCEPT ![c] = IF cost > m_capacity THEN "split" ELSE "consume"]
        /\ resized' = resized \ {c} /\ pc[c] = "idle"
        /\ UNCHANGED <<m_capacity, m_tokens, m_refill_period, m_interrupted, raced>>
    BY <1>3, <2>1 DEF TryConsume, bucket, cost
  <2>4. BucketType' /\ TokensNotOverdrawn'
    BY <1>a, <2>2, <2>3 DEF BucketInv, BucketType, TokensNotOverdrawn
  <2>5. Locking'
    BY <1>a, <2>3 DEF BucketInv, BucketType, Locking
  <2>6. Paying'
    BY <1>a, <2>2, <2>3 DEF BucketInv, BucketType, Paying
  <2>7. PaysItsCost'
    BY <1>a, <2>3 DEF BucketInv, BucketType, PaysItsCost
  <2> QED
    BY <2>4, <2>5, <2>6, <2>7 DEF BucketInv
<1>4. ASSUME NEW c \in Consumers, SplitTokens(c) PROVE BucketInv'
  <2>1. /\ pc[c] = "split" /\ pc' = [pc EXCEPT ![c] = "consume"]
        /\ iteration_tokens' = [iteration_tokens EXCEPT ![c] = m_capacity]
        /\ UNCHANGED <<m_capacity, m_tokens, m_refill_period, m_interrupted,
                       tokens_left, resized, raced>>
    BY <1>4 DEF SplitTokens, bucket, history
  <2>2. BucketType' /\ TokensNotOverdrawn' /\ PaysItsCost'
    BY <1>a, <2>1 DEF BucketInv, BucketType, TokensNotOverdrawn, PaysItsCost
  <2>3. Locking'
    BY <1>a, <2>1 DEF BucketInv, BucketType, Locking
  <2>4. Paying'
    BY <1>a, <2>1 DEF BucketInv, BucketType, Paying
  <2> QED
    BY <2>2, <2>3, <2>4 DEF BucketInv
<1>5. ASSUME NEW c \in Consumers, ConsumeOperation(c) PROVE BucketInv'
  BY <1>5, ConsumerMoves DEF ConsumeOperation
<1>6. ASSUME NEW c \in Consumers, Subtract(c) PROVE BucketInv'
  BY <1>6, SubtractBucket
<1>7. ASSUME NEW c \in Consumers, WaitForTokens(c) PROVE BucketInv'
  BY <1>7, ConsumerMoves DEF WaitForTokens
<1>8. ASSUME NEW c \in Consumers, WaitTimeout(c) PROVE BucketInv'
  <2>1. CASE m_interrupted
    BY <1>8, <2>1, ConsumerMoves DEF WaitTimeout
  <2>2. CASE ~m_interrupted
    BY <1>8, <2>2, ConsumerMoves DEF WaitTimeout
  <2> QED
    BY <2>1, <2>2
<1>9. ASSUME NEW c \in Consumers, ConsumeLoop(c) PROVE BucketInv'
  <2>1. /\ pc[c] = "loop" /\ pc' = [pc EXCEPT ![c] = "consume"]
        /\ iteration_tokens' = NextPart(c)
        /\ UNCHANGED <<m_capacity, m_tokens, m_refill_period, m_interrupted,
                       tokens_left, resized, raced>>
    BY <1>9 DEF ConsumeLoop, bucket, history
  <2> DEFINE part == IF tokens_left[c] < m_capacity THEN tokens_left[c] ELSE iteration_tokens[c]
  <2>2. iteration_tokens' = [iteration_tokens EXCEPT ![c] = part]
    BY <1>a, <2>1 DEF NextPart, BucketType
  <2>3. tokens_left[c] > 0 /\ tokens_left[c] \in Int
    BY <1>a, <2>1 DEF BucketInv, Paying, BucketType
  <2>4. part \in Nat /\ (c \notin resized => part <= m_capacity /\ part <= tokens_left[c])
    BY <1>a, <2>1, <2>3 DEF BucketInv, Paying, BucketType
  <2> HIDE DEF part
  <2>5. BucketType' /\ TokensNotOverdrawn' /\ PaysItsCost'
    BY <1>a, <2>1, <2>2, <2>4 DEF BucketInv, BucketType, TokensNotOverdrawn, PaysItsCost
  <2>6. Locking'
    BY <1>a, <2>1, <2>2 DEF BucketInv, BucketType, Locking
  <2>7. Paying'
    BY <1>a, <2>1, <2>2, <2>4 DEF BucketInv, BucketType, Paying
  <2> QED
    BY <2>5, <2>6, <2>7 DEF BucketInv
<1>10. ASSUME NEW rate \in Rates, SetCapacity(rate) PROVE BucketInv'
  <2>1. /\ m_capacity' \in Nat
        /\ resized' = resized \cup
             {c \in Consumers : \/ m_capacity' < m_capacity /\ pc[c] # "idle"
                                \/ m_capacity' > m_capacity /\ pc[c] = "split"}
        /\ UNCHANGED <<m_tokens, m_refill_period, m_interrupted, pc, tokens_left,
                       iteration_tokens, raced>>
    <3>1. rate \in Nat
      BY ThreadedAssumption DEF ThreadedAssumption
    <3> QED
      BY <1>10, <1>b, <3>1 DEF SetCapacity, Setting, account
  <2>2. BucketType' /\ TokensNotOverdrawn' /\ PaysItsCost' /\ Locking'
    BY <1>a, <2>1 DEF BucketInv, BucketType, TokensNotOverdrawn, PaysItsCost, Locking
  <2>3. Paying'
    BY <1>a, <2>1 DEF BucketInv, BucketType, Paying
  <2> QED
    BY <2>2, <2>3 DEF BucketInv
<1>11. ASSUME NEW rate \in Rates, SetTokenCount(rate) PROVE BucketInv'
  <2>1. /\ m_tokens' \in Nat /\ raced' = ~MutexFree
        /\ UNCHANGED <<m_capacity, m_refill_period, m_interrupted, pc, tokens_left,
                       iteration_tokens, resized>>
    <3>1. rate \in Nat
      BY ThreadedAssumption DEF ThreadedAssumption
    <3> QED
      BY <1>11, <1>b, <3>1 DEF SetTokenCount, Setting, account
  <2>2. raced' \in BOOLEAN /\ (raced' <=> \E c \in Consumers : pc[c] = "subtract")
    BY <2>1 DEF MutexFree
  <2>3. BucketType' /\ TokensNotOverdrawn'
    BY <1>a, <2>1, <2>2 DEF BucketType, TokensNotOverdrawn
  <2>4. Locking'
    BY <2>1, <2>2 DEF BucketInv, Locking
  <2>5. Paying' /\ PaysItsCost'
    BY <2>1 DEF BucketInv, Paying, PaysItsCost
  <2> QED
    BY <2>3, <2>4, <2>5 DEF BucketInv
<1>12. ASSUME NEW period \in Periods, SetRefillPeriod(period) PROVE BucketInv'
  <2>1. period \in Nat
    BY ThreadedAssumption DEF ThreadedAssumption
  <2> QED
    BY <1>12, <2>1
    DEF SetRefillPeriod, Setting, BucketInv, BucketType, TokensNotOverdrawn, Locking, Paying,
        PaysItsCost, account, history
<1>13. ASSUME NEW collect \in BOOLEAN, SetStatisticCollection(collect) PROVE BucketInv'
  BY <1>13, BucketStays DEF SetStatisticCollection, Setting, consuming
<1>14. CASE SetInterrupted
  BY <1>14 DEF SetInterrupted, Setting, bucket, account, history, BucketInv, BucketType,
                TokensNotOverdrawn, Locking, Paying, PaysItsCost
<1>15. CASE Tick
  BY <1>15, BucketStays DEF Tick
<1>16. CASE TryCollectStatistics
  BY <1>16, BucketStays DEF TryCollectStatistics
<1>17. CASE RunGarbageCollector
  BY <1>17, BucketStays DEF RunGarbageCollector
<1>18. CASE CollectStats
  BY <1>18, BucketStays DEF CollectStats
<1>19. CASE UNCHANGED vars
  BY <1>19, BucketStays DEF vars
<1> QED
  BY <1>1, <1>2, <1>3, <1>4, <1>5, <1>6, <1>7, <1>8, <1>9, <1>10, <1>11, <1>12,
     <1>13, <1>14, <1>15, <1>16, <1>17, <1>18, <1>19 DEF Next

-----------------------------------------------------------------------------
(* The ring of statistics.                                                 *)

\* An empty ring, before anything is stored.
LEMMA InitStats == Init => StatsInv
<1> SUFFICES ASSUME Init PROVE StatsInv
  OBVIOUS
<1>1. /\ m_collect_statistics = FALSE /\ stats = TBStatsInit /\ clock = 0
      /\ time_point = 0 /\ refiller = "check" /\ collector = "idle"
      /\ stored = 0 /\ reported = 0
  BY DEF Init
<1>2. TBStatsInit \in TBStatsType
  <2>1. 0 \in RingIndex /\ NoEntry \in Entry
    BY TBStatsAssumption DEF TBStatsAssumption, RingIndex, NoEntry, Entry
  <2> QED
    BY <2>1 DEF TBStatsInit, TBStatsType
<1>3. StatsType
  <2>1. 0 \in 0..MaxTime /\ 0 \in 0..MaxStored /\ 0 \in 0..0
    BY TBStatsAssumption, ThreadedAssumption DEF TBStatsAssumption, ThreadedAssumption
  <2> QED
    BY <1>1, <1>2, <2>1 DEF StatsType
<1>4. Ring
  BY <1>1 DEF Ring, TBStatsInit
<1> QED
  BY <1>3, <1>4 DEF StatsInv

\* The new entry goes where the ring's order wants it.
LEMMA StoreEntry ==
  ASSUME StatsInv, stored < MaxStored, stored' = stored + 1,
         stats' = store_stats_entry(stats, [number |-> stored', stamp |-> clock]),
         UNCHANGED <<m_collect_statistics, clock, refiller, collector, time_point, reported>>
  PROVE  StatsInv'
<1> DEFINE N == m_max_statistics
           T == stats.m_total_stats
           ring == stats.m_tb_statistics
           pos == stats.m_position
           new == T % N
           entry == [number |-> stored', stamp |-> clock]
<1>1. /\ N \in Nat \ {0} /\ T \in Nat /\ pos \in 0..N - 1 /\ ring \in [RingIndex -> Entry]
      /\ stats \in TBStatsType /\ stored \in Nat /\ reported \in Nat
      /\ clock \in 0..MaxTime /\ RingIndex = 0..N - 1
  BY TBStatsAssumption, ThreadedAssumption
  DEF StatsInv, StatsType, TBStatsType, RingIndex, TBStatsAssumption, ThreadedAssumption
<1>2. new \in 0..N - 1
  BY <1>1, DivMod
<1>3. entry \in Entry
  BY <1>1 DEF Entry
<1>4. /\ stats'.m_total_stats = T + 1
      /\ stats'.m_position = new
      /\ stats'.m_tb_statistics = [ring EXCEPT ![new] = entry]
      /\ stats'.m_valid_entry_index = stats.m_valid_entry_index
      /\ stats' \in TBStatsType
  <2>1. [ring EXCEPT ![new] = entry] \in [RingIndex -> Entry]
    BY <1>1, <1>2, <1>3
  <2> HIDE DEF new, entry
  <2>2. stats' = [stats EXCEPT !.m_position = new,
                               !.m_tb_statistics = [ring EXCEPT ![new] = entry],
                               !.m_total_stats = T + 1]
    BY <1>1 DEF store_stats_entry, TBStatsType, new, entry
  <2>3. DOMAIN stats = {"m_tb_statistics", "m_total_stats", "m_position", "m_valid_entry_index"}
    BY <1>1 DEF TBStatsType
  <2> DEFINE stored_ring == [ring EXCEPT ![new] = entry]
  <2>4. stats' = [m_tb_statistics |-> stored_ring, m_total_stats |-> T + 1,
                  m_position |-> new, m_valid_entry_index |-> stats.m_valid_entry_index]
    <3> HIDE DEF stored_ring
    <3>1. stats = [m_tb_statistics |-> ring, m_total_stats |-> T,
                   m_position |-> pos, m_valid_entry_index |-> stats.m_valid_entry_index]
      BY <1>1 DEF TBStatsType
    <3>2. stats' = [stats EXCEPT !.m_position = new, !.m_tb_statistics = stored_ring,
                                 !.m_total_stats = T + 1]
      BY <2>2 DEF stored_ring
    <3> QED
      BY <2>3, <3>2
  <2>5. stats.m_valid_entry_index \in RingIndex \cup {-1} /\ T + 1 \in Nat /\ new \in RingIndex
    BY <1>1, <1>2 DEF TBStatsType
  <2> QED
    BY <2>1, <2>4, <2>5 DEF TBStatsType
<1>5. StatsType'
  BY <1>1, <1>4, ThreadedAssumption DEF StatsInv, StatsType, ThreadedAssumption
<1>6. /\ T = 0 => new = 0
      /\ T > 0 => /\ pos = (T - 1) % N
                  /\ new = IF pos = N - 1 THEN 0 ELSE pos + 1
                  /\ T <= N => pos = T - 1
  <2>1. CASE T = 0
    BY <1>1, <2>1, ModSmall
  <2>2. CASE T > 0
    <3>1. pos = (T - 1) % N
      BY <2>2 DEF StatsInv, Ring
    <3>2. T - 1 \in Nat /\ (T - 1) + 1 = T
      BY <1>1, <2>2
    <3>3. new = IF pos = N - 1 THEN 0 ELSE pos + 1
      <4> DEFINE a == T - 1
      <4>1. a \in Nat /\ a + 1 = T /\ pos = a % N
        BY <3>1, <3>2
      <4> HIDE DEF a
      <4>2. (a + 1) % N = IF a % N = N - 1 THEN 0 ELSE (a % N) + 1
        BY <1>1, <4>1, ModSuccessor
      <4> QED
        BY <4>1, <4>2
    <3>4. T <= N => pos = T - 1
      <4>1. T <= N => T - 1 \in 0..N - 1
        BY <1>1, <3>2
      <4> QED
        BY <1>1, <3>1, <4>1, ModSmall
    <3> QED
      BY <2>2, <3>1, <3>3, <3>4
  <2> QED
    BY <1>1, <2>1, <2>2
<1>7. \A i \in RingIndex :
        stats'.m_tb_statistics[i].number = IF i = new THEN stored + 1 ELSE ring[i].number
  BY <1>1, <1>2, <1>4
<1>8. T > 0 => \A i \in RingIndex :
        /\ i <= pos => ring[i].number = stored - (pos - i)
        /\ (i > pos /\ T > N) => ring[i].number = stored - (pos + N - i)
  BY DEF StatsInv, Ring
<1>9. T + reported <= stored
  BY DEF StatsInv, Ring
<1>10. new = (T + 1 - 1) % N
  <2>1. T + 1 - 1 = T
    BY <1>1
  <2> QED
    BY <2>1
<1> HIDE DEF N, T, ring, pos, new, entry
<1>11. ASSUME NEW i \in RingIndex
       PROVE  /\ i <= new => stats'.m_tb_statistics[i].number = stored + 1 - (new - i)
              /\ (i > new /\ T + 1 > N) =>
                   stats'.m_tb_statistics[i].number = stored + 1 - (new + N - i)
  <2>1. i \in 0..N - 1
    BY <1>1
  <2>2. CASE T = 0
    BY <1>1, <1>2, <1>6, <1>7, <2>1, <2>2
  <2>3. CASE T > 0 /\ pos = N - 1
    BY <1>1, <1>2, <1>6, <1>7, <1>8, <2>1, <2>3
  <2>4. CASE T > 0 /\ pos # N - 1
    BY <1>1, <1>2, <1>6, <1>7, <1>8, <2>1, <2>4
  <2> QED
    BY <1>1, <2>2, <2>3, <2>4
<1>12. Ring'
  <2>1. stats'.m_total_stats + reported' <= stored'
    BY <1>1, <1>4, <1>9
  <2>2. stats'.m_position = (stats'.m_total_stats - 1) % m_max_statistics
    BY <1>1, <1>4, <1>10 DEF N
  <2>3. ASSUME NEW i \in RingIndex
        PROVE  /\ i <= stats'.m_position =>
                    stats'.m_tb_statistics[i].number = stored' - (stats'.m_position - i)
               /\ (i > stats'.m_position /\ stats'.m_total_stats > m_max_statistics) =>
                    stats'.m_tb_statistics[i].number =
                      stored' - (stats'.m_position + m_max_statistics - i)
    <3>1. stats'.m_total_stats = T + 1 /\ stats'.m_position = new /\ N = m_max_statistics
      BY <1>4 DEF N
    <3>2. /\ i <= new => stats'.m_tb_statistics[i].number = stored + 1 - (new - i)
          /\ (i > new /\ T + 1 > N) =>
               stats'.m_tb_statistics[i].number = stored + 1 - (new + N - i)
      BY <1>11
    <3>3. i \in Int /\ new \in Int /\ N \in Int /\ T \in Int /\ stored \in Int
      BY <1>1, <1>2
    <3>4. i <= stats'.m_position =>
            stats'.m_tb_statistics[i].number = stored' - (stats'.m_position - i)
      BY <3>1, <3>2, <3>3
    <3>5. (i > stats'.m_position /\ stats'.m_total_stats > m_max_statistics) =>
            stats'.m_tb_statistics[i].number = stored' - (stats'.m_position + m_max_statistics - i)
      BY <3>1, <3>2, <3>3
    <3> QED
      BY <3>4, <3>5
  <2>4. stats'.m_valid_entry_index < stats'.m_total_stats
    <3>1. stats.m_valid_entry_index \in Int /\ stats.m_valid_entry_index < T
      BY <1>1 DEF StatsInv, Ring, T, TBStatsType
    <3> QED
      BY <1>1, <1>4, <3>1
  <2> QED
    BY <2>1, <2>2, <2>3, <2>4 DEF Ring, RingIndex
<1> QED
  BY <1>5, <1>12 DEF StatsInv

\* An index the garbage collector may leave.
LEMMA FirstValidType ==
  ASSUME NEW s, NEW t, NEW indices \in SUBSET RingIndex, NEW unchanged \in RingIndex \cup {-1}
  PROVE  FirstValid(s, t, indices, unchanged) \in indices \cup {unchanged}
<1> DEFINE valid == {i \in indices : Age(t, s.m_tb_statistics[i].stamp) < m_sliding_window_statistics}
<1>1. RingIndex \subseteq Nat
  BY TBStatsAssumption DEF TBStatsAssumption, RingIndex
<1>2. valid \in SUBSET indices /\ valid \in SUBSET Nat
  BY <1>1
<1>3. FirstValid(s, t, indices, unchanged) = IF valid = {} THEN unchanged ELSE Min(valid)
  BY DEF FirstValid
<1> HIDE DEF valid
<1> QED
  BY <1>2, <1>3, MinFacts

\* What the collections leave when they empty the ring.
LEMMA EmptiedStats ==
  ASSUME NEW s \in TBStatsType
  PROVE  LET g == [reset_stats(s) EXCEPT !.m_valid_entry_index = -1]
         IN /\ g \in TBStatsType
            /\ g.m_tb_statistics = s.m_tb_statistics
            /\ g.m_total_stats = 0 /\ g.m_valid_entry_index = -1
<1> DEFINE r == reset_stats(s)
           g == [r EXCEPT !.m_valid_entry_index = -1]
<1>1. 0 \in RingIndex
  BY TBStatsAssumption DEF TBStatsAssumption, RingIndex
<1>2. /\ r \in TBStatsType /\ r.m_total_stats = 0
      /\ r.m_tb_statistics = s.m_tb_statistics
  BY <1>1 DEF reset_stats, TBStatsType
<1> HIDE DEF r
<1>3. /\ g \in TBStatsType /\ g.m_total_stats = r.m_total_stats
      /\ g.m_valid_entry_index = -1
      /\ g.m_tb_statistics = r.m_tb_statistics
  BY <1>2 DEF TBStatsType
<1> QED
  BY <1>2, <1>3 DEF r

\* The garbage collection empties the ring or moves the valid index alone.
LEMMA GarbageCollection ==
  ASSUME NEW s \in TBStatsType, NEW t, s.m_valid_entry_index < s.m_total_stats
  PROVE  LET g == garbage_collection(s, t)
         IN /\ g \in TBStatsType /\ g.m_valid_entry_index < g.m_total_stats
            /\ g.m_tb_statistics = s.m_tb_statistics
            /\ \/ g.m_total_stats = 0
               \/ g.m_total_stats = s.m_total_stats /\ g.m_position = s.m_position
<1> DEFINE newest == s.m_tb_statistics[s.m_position].stamp
           wrapped == s.m_total_stats > m_max_statistics
           first == FirstValid(s, t, 0..(IF wrapped THEN s.m_position ELSE s.m_total_stats) - 1,
                               s.m_valid_entry_index)
           index == IF wrapped /\ first = 0
                    THEN FirstValid(s, t, s.m_position..m_max_statistics - 1, 0)
                    ELSE first
<1>1. /\ s.m_total_stats \in Nat /\ s.m_position \in RingIndex
      /\ s.m_valid_entry_index \in RingIndex \cup {-1}
      /\ RingIndex = 0..m_max_statistics - 1 /\ m_max_statistics \in Nat \ {0}
  BY TBStatsAssumption DEF TBStatsType, TBStatsAssumption, RingIndex
<1>2. first \in RingIndex \cup {-1} /\ first < s.m_total_stats
  <2> DEFINE last == (IF wrapped THEN s.m_position ELSE s.m_total_stats) - 1
  <2>1. 0..last \in SUBSET RingIndex
    BY <1>1
  <2>2. first \in 0..last \cup {s.m_valid_entry_index}
    BY <1>1, <2>1, FirstValidType
  <2> QED
    BY <1>1, <2>1, <2>2
<1>3. FirstValid(s, t, s.m_position..m_max_statistics - 1, 0) \in RingIndex
  <2>1. s.m_position..m_max_statistics - 1 \in SUBSET RingIndex /\ 0 \in RingIndex
    BY <1>1
  <2>2. FirstValid(s, t, s.m_position..m_max_statistics - 1, 0)
          \in (s.m_position..m_max_statistics - 1) \cup {0}
    BY <2>1, FirstValidType
  <2> QED
    BY <2>1, <2>2
<1>4. index \in RingIndex \cup {-1} /\ index < s.m_total_stats
  <2> HIDE DEF first
  <2> QED
    BY <1>1, <1>2, <1>3
<1> HIDE DEF index
<1>5. CASE s.m_total_stats = 0 \/ Age(t, newest) > m_sliding_window_statistics
  <2>1. garbage_collection(s, t) = [[s EXCEPT !.m_total_stats = 0, !.m_position = 0]
                                      EXCEPT !.m_valid_entry_index = -1]
    BY <1>5 DEF garbage_collection, reset_stats
  <2> DEFINE g == garbage_collection(s, t)
  <2>2. /\ g \in TBStatsType /\ g.m_tb_statistics = s.m_tb_statistics
        /\ g.m_total_stats = 0 /\ g.m_valid_entry_index = -1
    BY <2>1, EmptiedStats DEF reset_stats
  <2>3. g.m_valid_entry_index < g.m_total_stats
    BY <2>2
  <2> QED
    BY <2>2, <2>3
<1>6. CASE ~(s.m_total_stats = 0 \/ Age(t, newest) > m_sliding_window_statistics)
  <2>1. garbage_collection(s, t) = [s EXCEPT !.m_valid_entry_index = index]
    BY <1>6 DEF garbage_collection, index
  <2> QED
    BY <1>4, <2>1 DEF TBStatsType
<1> QED
  BY <1>5, <1>6

\* The indices a collection copies from, and which entries lie there.
LEMMA Collected ==
  ASSUME StatsInv
  PROVE  LET copied == EntriesCollected(stats)
         IN /\ \A k \in DOMAIN copied : copied[k].number \in -1..stored
            /\ \A k \in DOMAIN copied :
                 \/ k = 1 /\ copied[k] = OutOfRing
                 \/ /\ copied[k].number > reported
                    /\ k = 1 \/ copied[k - 1] = OutOfRing
                             \/ copied[k].number = copied[k - 1].number + 1
            /\ stats.m_total_stats \in 1..m_max_statistics =>
                 \E k \in DOMAIN copied : copied[k].number = stored
<1> DEFINE N == m_max_statistics
           T == stats.m_total_stats
           ring == stats.m_tb_statistics
           pos == stats.m_position
           first == stats.m_valid_entry_index
           UpTo(a, b) == [k \in 1..(b - a) |-> a + k - 1]
           copied == EntriesCollected(stats)
           indices == IndicesCollected(stats)
<1>1. /\ N \in Nat \ {0} /\ T \in Nat /\ pos \in 0..N - 1
      /\ first \in -1..N - 1 /\ first < T
      /\ stored \in Nat /\ reported \in Nat /\ RingIndex = 0..N - 1
  BY TBStatsAssumption, ThreadedAssumption
  DEF StatsInv, StatsType, TBStatsType, Ring, RingIndex, TBStatsAssumption, ThreadedAssumption
<1>2. T + reported <= stored
  BY DEF StatsInv, Ring
<1>3. T > 0 => \A i \in 0..N - 1 :
        /\ i <= pos => ring[i].number = stored - (pos - i)
        /\ (i > pos /\ T > N) => ring[i].number = stored - (pos + N - i)
  BY <1>1 DEF StatsInv, Ring
<1>4. T > 0 /\ T <= N => pos = T - 1
  <2> SUFFICES ASSUME T > 0, T <= N PROVE pos = T - 1
    OBVIOUS
  <2>1. pos = (T - 1) % N
    BY DEF StatsInv, Ring
  <2>2. T - 1 \in 0..N - 1
    BY <1>1
  <2> QED
    BY <1>1, <2>1, <2>2, ModSmall
<1>5. indices = IF T = 0 THEN <<>>
                ELSE IF T <= N THEN UpTo(first, T)
                ELSE IF pos >= first THEN UpTo(first, pos)
                ELSE UpTo(first, N) \o UpTo(0, pos)
  BY DEF IndicesCollected
<1>6. copied = [k \in DOMAIN indices |-> IF indices[k] = -1 THEN OutOfRing ELSE ring[indices[k]]]
  BY DEF EntriesCollected
<1> HIDE DEF N, T, ring, pos, first, copied, indices
\* From some number on, each index holds the next entry, index -1 none.
<1>7. \E base \in Int, len \in Nat :
        /\ DOMAIN indices = 1..len
        /\ \A k \in 1..len :
             \/ k = 1 /\ indices[k] = -1
             \/ /\ indices[k] \in 0..N - 1 /\ ring[indices[k]].number = base + k
                /\ base + k > reported /\ base + k <= stored
        /\ T \in 1..N => len > 0 /\ indices[len] # -1 /\ base + len = stored
  <2>1. CASE T = 0
    <3>1. indices = << >>
      BY <1>5, <2>1
    <3>2. DOMAIN indices = 1..0 /\ ~(T \in 1..N)
      BY <1>1, <2>1, <3>1
    <3> QED
      BY <3>2
  <2>2. CASE T > 0 /\ T <= N
    <3> DEFINE base == stored - pos + first - 1
               len == IF T - first \in Nat THEN T - first ELSE 0
    <3>1. indices = [k \in 1..(T - first) |-> first + k - 1]
      BY <1>1, <1>5, <2>2
    <3>2. base \in Int /\ len \in Nat /\ 1..(T - first) = 1..len
      BY <1>1
    <3>3. ASSUME NEW k \in 1..len
          PROVE  \/ k = 1 /\ indices[k] = -1
                 \/ /\ indices[k] \in 0..N - 1 /\ ring[indices[k]].number = base + k
                    /\ base + k > reported /\ base + k <= stored
      <4>1. k \in Nat \ {0} /\ k <= T - first /\ indices[k] = first + k - 1
        BY <1>1, <3>1, <3>2
      <4> DEFINE i == first + k - 1
      <4>2. i \in -1..pos /\ base + k = stored - (pos - i)
        BY <1>1, <1>4, <2>2, <4>1
      <4> HIDE DEF i, base
      <4>3. i # -1 => ring[i].number = stored - (pos - i)
        BY <1>1, <1>3, <2>2, <4>2
      <4>4. i # -1 => stored - (pos - i) > reported /\ stored - (pos - i) <= stored
        BY <1>1, <1>2, <1>4, <2>2, <4>2
      <4>6. indices[k] = i /\ (i = -1 => k = 1) /\ (i # -1 => i \in 0..N - 1)
        BY <1>1, <4>1, <4>2 DEF i
      <4> QED
        BY <4>2, <4>3, <4>4, <4>6
    <3>4. DOMAIN indices = 1..len
      BY <3>1, <3>2
    <3>5. len > 0 /\ indices[len] # -1 /\ base + len = stored
      <4>1. len = T - first /\ len > 0 /\ len \in 1..(T - first)
        BY <1>1, <2>2
      <4>2. indices[len] = T - 1
        <5> HIDE DEF len
        <5>1. indices[len] = first + len - 1
          BY <3>1, <4>1
        <5> QED
          BY <1>1, <4>1, <5>1
      <4> QED
        BY <1>1, <1>4, <2>2, <4>1, <4>2
    <3> HIDE DEF base, len
    <3> QED
      BY <3>2, <3>3, <3>4, <3>5
  <2>3. CASE T > N /\ pos >= first
    <3> DEFINE base == stored - pos + first - 1
               len == pos - first
    <3>1. indices = [k \in 1..(pos - first) |-> first + k - 1]
      BY <1>1, <1>5, <2>3
    <3>2. base \in Int /\ len \in Nat
      BY <1>1, <2>3
    <3>3. ASSUME NEW k \in 1..len
          PROVE  \/ k = 1 /\ indices[k] = -1
                 \/ /\ indices[k] \in 0..N - 1 /\ ring[indices[k]].number = base + k
                    /\ base + k > reported /\ base + k <= stored
      <4>1. k \in Nat \ {0} /\ k <= pos - first /\ indices[k] = first + k - 1
        BY <1>1, <3>1, <3>2
      <4> DEFINE i == first + k - 1
      <4>2. i \in -1..pos /\ base + k = stored - (pos - i)
        BY <1>1, <2>3, <4>1
      <4> HIDE DEF i, base
      <4>3. i # -1 => ring[i].number = stored - (pos - i)
        BY <1>1, <1>3, <2>3, <4>2
      <4>4. i # -1 => stored - (pos - i) > reported /\ stored - (pos - i) <= stored
        BY <1>1, <1>2, <2>3, <4>2
      <4>6. indices[k] = i /\ (i = -1 => k = 1) /\ (i # -1 => i \in 0..N - 1)
        BY <1>1, <4>1, <4>2 DEF i
      <4> QED
        BY <4>2, <4>3, <4>4, <4>6
    <3>4. DOMAIN indices = 1..len
      BY <3>1
    <3>5. ~(T \in 1..N)
      BY <1>1, <2>3
    <3> HIDE DEF base, len
    <3> QED
      BY <3>2, <3>3, <3>4, <3>5
  <2>4. CASE T > N /\ pos < first
    <3> DEFINE base == stored - pos - N + first - 1
               m == N - first
               len == m + pos
               low == [k \in 1..(N - first) |-> first + k - 1]
               high == [k \in 1..(pos - 0) |-> 0 + k - 1]
    <3>1. indices = low \o high
      BY <1>1, <1>5, <2>4
    <3>2. base \in Int /\ len \in Nat /\ m \in Nat /\ first \in 0..N - 1
      BY <1>1, <2>4
    <3>3. low \in Seq(Int) /\ high \in Seq(Int) /\ Len(low) = m /\ Len(high) = pos
      BY <1>1, <3>2
    <3>4. /\ DOMAIN indices = 1..len
          /\ \A k \in 1..len : indices[k] = IF k <= m THEN low[k] ELSE high[k - m]
      <4> HIDE DEF low, high, m
      <4>1. /\ low \o high \in Seq(Int) /\ Len(low \o high) = m + pos
            /\ \A k \in 1..m + pos :
                 (low \o high)[k] = IF k <= m THEN low[k] ELSE high[k - m]
        BY <3>3, ConcatProperties
      <4> QED
        BY <3>1, <4>1
    <3>5. ASSUME NEW k \in 1..len
          PROVE  \/ k = 1 /\ indices[k] = -1
                 \/ /\ indices[k] \in 0..N - 1 /\ ring[indices[k]].number = base + k
                    /\ base + k > reported /\ base + k <= stored
      <4>1. k \in Nat \ {0} /\ k <= len
        BY <3>2
      <4>2. CASE k <= m
        <5> DEFINE i == first + k - 1
        <5>1. indices[k] = i
          <6>1. k \in 1..(N - first)
            BY <1>1, <3>2, <4>1, <4>2
          <6>2. indices[k] = low[k]
            <7> HIDE DEF low, high
            <7> QED
              BY <3>4, <4>2
          <6> QED
            BY <6>1, <6>2
        <5>2. i \in 0..N - 1 /\ i > pos /\ base + k = stored - (pos + N - i)
          BY <1>1, <2>4, <3>2, <4>1, <4>2
        <5> HIDE DEF i, base
        <5>3. ring[i].number = stored - (pos + N - i)
          BY <1>1, <1>3, <2>4, <5>2
        <5>4. stored - (pos + N - i) > reported /\ stored - (pos + N - i) <= stored
          BY <1>1, <1>2, <2>4, <5>2
        <5> QED
          BY <1>1, <5>1, <5>2, <5>3, <5>4
      <4>3. CASE k > m
        <5> DEFINE i == k - m - 1
        <5>1. indices[k] = i
          <6>1. indices[k] = high[k - m] /\ k - m \in 1..(pos - 0)
            BY <1>1, <3>2, <3>4, <4>1, <4>3
          <6> DEFINE j == k - m
          <6>2. indices[k] = high[j] /\ j \in 1..(pos - 0)
            BY <6>1
          <6>3. j \in Int
            BY <1>1, <6>2
          <6> HIDE DEF j
          <6>4. high[j] = j - 1
            BY <6>2, <6>3
          <6> QED
            BY <6>2, <6>4 DEF j
        <5>2. i \in 0..N - 1 /\ i <= pos /\ base + k = stored - (pos - i)
          BY <1>1, <2>4, <3>2, <4>1, <4>3
        <5> HIDE DEF i, base
        <5>3. ring[i].number = stored - (pos - i)
          BY <1>1, <1>3, <2>4, <5>2
        <5>4. stored - (pos - i) > reported /\ stored - (pos - i) <= stored
          BY <1>1, <1>2, <2>4, <5>2
        <5> QED
          BY <1>1, <5>1, <5>2, <5>3, <5>4
      <4> QED
        BY <3>2, <4>1, <4>2, <4>3
    <3>6. ~(T \in 1..N)
      BY <1>1, <2>4
    <3> HIDE DEF base, len
    <3> QED
      BY <3>2, <3>4, <3>5, <3>6
  <2> QED
    BY <1>1, <2>1, <2>2, <2>3, <2>4
<1>8. PICK base \in Int, len \in Nat :
        /\ DOMAIN indices = 1..len
        /\ \A k \in 1..len :
             \/ k = 1 /\ indices[k] = -1
             \/ /\ indices[k] \in 0..N - 1 /\ ring[indices[k]].number = base + k
                /\ base + k > reported /\ base + k <= stored
        /\ T \in 1..N => len > 0 /\ indices[len] # -1 /\ base + len = stored
  BY <1>7
<1>9. /\ DOMAIN copied = 1..len
      /\ \A k \in 1..len :
           \/ k = 1 /\ copied[k] = OutOfRing
           \/ copied[k].number = base + k /\ base + k > reported /\ base + k <= stored
  <2>1. DOMAIN copied = 1..len
    BY <1>6, <1>8
  <2>2. ASSUME NEW k \in 1..len
        PROVE  \/ k = 1 /\ copied[k] = OutOfRing
               \/ copied[k].number = base + k /\ base + k > reported /\ base + k <= stored
    <3>1. copied[k] = IF indices[k] = -1 THEN OutOfRing ELSE ring[indices[k]]
      BY <1>6, <1>8
    <3>2. CASE k = 1 /\ indices[k] = -1
      BY <3>1, <3>2
    <3>3. CASE /\ indices[k] \in 0..N - 1 /\ ring[indices[k]].number = base + k
               /\ base + k > reported /\ base + k <= stored
      <4>1. indices[k] # -1
        BY <1>1, <3>3
      <4> QED
        BY <3>1, <3>3, <4>1
    <3> QED
      BY <1>8, <3>2, <3>3
  <2> QED
    BY <2>1, <2>2
<1>10. OutOfRing.number = -1
  BY DEF OutOfRing
<1>11. ASSUME NEW k \in 1..len
       PROVE  /\ copied[k].number \in -1..stored
              /\ \/ k = 1 /\ copied[k] = OutOfRing
                 \/ /\ copied[k].number > reported
                    /\ k = 1 \/ copied[k - 1] = OutOfRing
                             \/ copied[k].number = copied[k - 1].number + 1
  <2>1. copied[k].number \in -1..stored
    BY <1>1, <1>9, <1>10
  <2>2. CASE k = 1
    <3>1. copied[k] = OutOfRing \/ (copied[k].number = base + k /\ base + k > reported)
      BY <1>9
    <3>2. copied[k] = OutOfRing \/ copied[k].number > reported
      BY <3>1
    <3> QED
      BY <2>1, <2>2, <3>2
  <2>3. CASE k # 1
    <3> DEFINE j == k - 1
    <3>1. j \in 1..len /\ j + 1 = k
      BY <2>3
    <3> HIDE DEF j
    <3>2. copied[j] = OutOfRing \/ copied[j].number = base + j
      BY <1>9, <3>1
    <3>3. copied[k].number = base + k /\ base + k > reported
      BY <1>9, <2>3
    <3>4. copied[j] = OutOfRing \/ copied[k].number = copied[j].number + 1
      BY <3>1, <3>2, <3>3
    <3>5. copied[k].number > reported
      BY <3>3
    <3> QED
      BY <2>1, <3>4, <3>5 DEF j
  <2> QED
    BY <2>2, <2>3
<1>12. T \in 1..N => \E k \in 1..len : copied[k].number = stored
  <2> SUFFICES ASSUME T \in 1..N PROVE \E k \in 1..len : copied[k].number = stored
    OBVIOUS
  <2>1. len \in 1..len /\ indices[len] # -1 /\ base + len = stored
    BY <1>8
  <2>2. ring[indices[len]].number = base + len
    BY <1>8, <2>1
  <2>3. copied[len] = ring[indices[len]]
    BY <1>6, <1>8, <2>1
  <2> QED
    BY <2>1, <2>2, <2>3
<1> QED
  BY <1>9, <1>11, <1>12 DEF copied, T, N

\* A step that leaves the ring and what was reported of it alone.
LEMMA RingStays ==
  ASSUME Ring, UNCHANGED <<stats, stored, reported>>
  PROVE  Ring'
BY DEF Ring, RingIndex

\* Every step keeps the ring's order.
LEMMA StatsStep ==
  ASSUME StatsInv, [Next]_vars
  PROVE  StatsInv'
<1>a. StatsType /\ Ring
  BY DEF StatsInv
<1>b. stored \in Nat /\ reported \in Nat /\ reported <= stored /\ clock \in Nat /\ time_point \in Nat
  BY <1>a DEF StatsType
<1>1. ASSUME UNCHANGED <<stats, clock, stored, collecting>>,
             m_collect_statistics' \in BOOLEAN, refiller' \in {"check", "sleep", "ended"}
      PROVE  StatsInv'
  <2>1. StatsType'
    BY <1>1, <1>a DEF StatsType, collecting
  <2> QED
    BY <1>1, <1>a, <2>1, RingStays DEF StatsInv, collecting
<1>2. m_collect_statistics \in BOOLEAN /\ refiller \in {"check", "sleep", "ended"}
  BY <1>a DEF StatsType
<1>3. CASE CheckInterrupted
  BY <1>1, <1>2, <1>3 DEF CheckInterrupted
<1>4. CASE TryRefill
  BY <1>1, <1>2, <1>4 DEF TryRefill
<1>5. ASSUME NEW c \in Consumers, TryConsume(c) PROVE StatsInv'
  BY <1>1, <1>2, <1>5 DEF TryConsume
<1>6. ASSUME NEW c \in Consumers, ConsumeOperation(c) \/ SplitTokens(c) \/ Subtract(c)
      PROVE  StatsInv'
  BY <1>1, <1>2, <1>6 DEF ConsumeOperation, SplitTokens, Subtract
<1>7. ASSUME NEW c \in Consumers, WaitForTokens(c) PROVE StatsInv'
  <2>1. CASE m_collect_statistics /\ stored < MaxStored
    BY <1>7, <2>1, StoreEntry DEF WaitForTokens, collecting
  <2>2. CASE ~(m_collect_statistics /\ stored < MaxStored)
    BY <1>1, <1>2, <1>7, <2>2 DEF WaitForTokens
  <2> QED
    BY <2>1, <2>2
<1>8. ASSUME NEW c \in Consumers, WaitTimeout(c) PROVE StatsInv'
  BY <1>1, <1>2, <1>8 DEF WaitTimeout
<1>9. ASSUME NEW c \in Consumers, ConsumeLoop(c) PROVE StatsInv'
  BY <1>1, <1>2, <1>9 DEF ConsumeLoop
<1>10. ASSUME NEW rate \in Rates, SetCapacity(rate) PROVE StatsInv'
  BY <1>1, <1>2, <1>10 DEF SetCapacity, Setting
<1>11. ASSUME NEW rate \in Rates, SetTokenCount(rate) PROVE StatsInv'
  BY <1>1, <1>2, <1>11 DEF SetTokenCount, Setting
<1>12. ASSUME NEW period \in Periods, SetRefillPeriod(period) PROVE StatsInv'
  BY <1>1, <1>2, <1>12 DEF SetRefillPeriod, Setting
<1>13. ASSUME NEW collect \in BOOLEAN, SetStatisticCollection(collect) PROVE StatsInv'
  BY <1>1, <1>2, <1>13 DEF SetStatisticCollection, Setting
<1>14. CASE SetInterrupted
  BY <1>1, <1>2, <1>14 DEF SetInterrupted, Setting
<1>15. CASE Tick
  <2>1. clock' = clock + 1 /\ clock < MaxTime
        /\ UNCHANGED <<m_collect_statistics, stats, refiller, collector, time_point, reported,
                       stored>>
    BY <1>15 DEF Tick, collecting
  <2>2. clock' \in 0..MaxTime /\ time_point \in 0..clock'
    BY <1>a, <2>1, TBStatsAssumption DEF StatsType, TBStatsAssumption
  <2>3. StatsType'
    BY <1>a, <2>1, <2>2 DEF StatsType
  <2> QED
    BY <1>a, <2>1, <2>3, RingStays DEF StatsInv
<1>16. CASE TryCollectStatistics
  <2>1. /\ time_point' = clock /\ collector' = "gc"
        /\ UNCHANGED <<m_collect_statistics, stats, refiller, clock, reported, stored>>
    BY <1>16 DEF TryCollectStatistics
  <2>2. time_point' \in 0..clock'
    BY <1>b, <2>1
  <2>3. StatsType'
    BY <1>a, <2>1, <2>2 DEF StatsType
  <2> QED
    BY <1>a, <2>1, <2>3, RingStays DEF StatsInv
<1>17. CASE RunGarbageCollector
  <2>1. /\ stats' = garbage_collection(stats, time_point) /\ collector' = "collect"
        /\ UNCHANGED <<m_collect_statistics, refiller, clock, time_point, reported, stored>>
    BY <1>17 DEF RunGarbageCollector
  <2>2. stats \in TBStatsType /\ stats.m_valid_entry_index < stats.m_total_stats
    BY <1>a DEF StatsType, Ring
  <2>3. /\ stats' \in TBStatsType
        /\ stats'.m_valid_entry_index < stats'.m_total_stats
        /\ stats'.m_tb_statistics = stats.m_tb_statistics
        /\ \/ stats'.m_total_stats = 0
           \/ /\ stats'.m_total_stats = stats.m_total_stats
              /\ stats'.m_position = stats.m_position
    BY <2>1, <2>2, GarbageCollection
  <2>4. StatsType'
    BY <1>a, <2>1, <2>3 DEF StatsType
  <2>5. Ring'
    <3>1. CASE stats'.m_total_stats = 0
      BY <1>b, <2>1, <2>3, <3>1 DEF Ring
    <3>2. CASE /\ stats'.m_total_stats = stats.m_total_stats
               /\ stats'.m_position = stats.m_position
      BY <1>a, <2>1, <2>3, <3>2 DEF Ring, RingIndex
    <3> QED
      BY <2>3, <3>1, <3>2
  <2> QED
    BY <2>4, <2>5 DEF StatsInv
<1>18. CASE CollectStats
  <2> DEFINE copied == EntriesCollected(stats)
             numbers == {reported} \cup {copied[k].number : k \in DOMAIN copied}
  <2>1. /\ stats' = collect_stats(stats) /\ reported' = Max(numbers)
        /\ collector' = "idle" /\ time_point' = 0
        /\ UNCHANGED <<m_collect_statistics, refiller, clock, stored>>
    BY <1>18 DEF CollectStats
  <2>2. stats \in TBStatsType
    BY <1>a DEF StatsType
  <2>3. /\ stats' \in TBStatsType /\ stats'.m_total_stats = 0
        /\ stats'.m_valid_entry_index = -1
    BY <2>1, <2>2, EmptiedStats DEF collect_stats
  <2>4. \A k \in DOMAIN copied : copied[k].number \in -1..stored
    BY Collected
  <2> HIDE DEF copied
  <2>5. numbers \in SUBSET (-1..stored) /\ reported \in numbers
    BY <1>b, <2>4
  <2> HIDE DEF numbers
  <2>6. reported' \in 0..stored
    <3>1. numbers \in SUBSET Int /\ \A x \in numbers : x <= stored
      BY <1>b, <2>5
    <3>2. Max(numbers) \in numbers /\ Max(numbers) >= reported
      BY <1>b, <2>5, <3>1, MaxFacts
    <3>3. Max(numbers) \in -1..stored
      BY <2>5, <3>2
    <3> DEFINE m == Max(numbers)
    <3>4. m \in -1..stored /\ m >= reported
      BY <3>2, <3>3
    <3> HIDE DEF m
    <3>5. m \in 0..stored
      BY <1>b, <3>4
    <3> QED
      BY <2>1, <3>5 DEF m
  <2>7. time_point' \in 0..clock'
    BY <1>b, <2>1
  <2>8. StatsType'
    BY <1>a, <2>1, <2>3, <2>6, <2>7 DEF StatsType
  <2>9. Ring'
    <3>1. /\ stats'.m_total_stats + reported' <= stored' /\ ~(stats'.m_total_stats > 0)
          /\ stats'.m_valid_entry_index < stats'.m_total_stats
      BY <1>b, <2>1, <2>3, <2>6
    <3> QED
      BY <3>1 DEF Ring
  <2> QED
    BY <2>8, <2>9 DEF StatsInv
<1>19. CASE UNCHANGED vars
  BY <1>1, <1>2, <1>19 DEF vars
<1> QED
  BY <1>3, <1>4, <1>5, <1>6, <1>7, <1>8, <1>9, <1>10, <1>11, <1>12, <1>13, <1>14,
     <1>15, <1>16, <1>17, <1>18, <1>19 DEF Next

-----------------------------------------------------------------------------
(* The theorems.                                                           *)

\* The strengthened invariant holds in every reachable state.
LEMMA Invariance == Spec => []IInv
<1>1. Init => IInv
  BY InitBucket, InitStats DEF IInv
<1>2. IInv /\ [Next]_vars => IInv'
  BY BucketStep, StatsStep DEF IInv
<1> QED
  BY <1>1, <1>2, PTL DEF Spec

\* Every variable of the bucket has its type, whatever is set and collected.
THEOREM TypeCorrect == Spec => []TypeOK
<1>1. IInv => TypeOK
  BY DEF IInv, BucketInv, BucketType, StatsInv, StatsType, TBStatsType, Entry,
         TypeOK, TBStatsTypeOK
<1> QED
  BY <1>1, Invariance, PTL

\* Consumers never take more tokens than the bucket holds, for any number of
\* consumers, rates and refill periods, unless the bucket is interrupted or
\* the tokens are set between a test and its subtraction (consume_operation).
THEOREM NeverOverdrawn == Spec => []TokensNotOverdrawn
<1>1. IInv => TokensNotOverdrawn
  BY DEF IInv, BucketInv
<1> QED
  BY <1>1, Invariance, PTL

\* The parts that try_consume splits a request into add up to its cost, for
\* any cost and capacity, 0 included, unless the capacity is lowered during the
\* call or raised between its two reads.
THEOREM CostIsPaid == Spec => []PaysItsCost
<1>1. IInv => PaysItsCost
  BY DEF IInv, BucketInv
<1> QED
  BY <1>1, Invariance, PTL

\* collect_stats reports entries in the order of storing, without gaps and none
\* twice, for a ring of any size, however often it went round; and one that did
\* not go round, up to the newest.
THEOREM EntriesReportedInOrder == Spec => []ReportedInOrder
<1>1. IInv => ReportedInOrder
  BY Collected DEF IInv, ReportedInOrder
<1> QED
  BY <1>1, Invariance, PTL

=============================================================================
