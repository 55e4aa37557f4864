------------------------- MODULE RateLimiterProofs -------------------------
(***************************************************************************)
(* The token bucket's accounts are right for every rate, period, cost and  *)
(* rounding, a period of 0 and what 0/0 becomes as a long included.        *)
(* TypeOK is not inductive alone: that try_consume never drives            *)
(* tokens_left below zero needs PaysItsCost, and that is preserved because *)
(* no configuration gets in while an enforcer holds m_mutex; that a turn   *)
(* takes no negative amount needs Turns.  The bound on bursts needs to     *)
(* know what the windows that began after the last refill leave: Bursts.   *)
(***************************************************************************)
EXTENDS RateLimiter, TLAPS

\* normalize_tokens yields a number of tokens, not negative if the rate is not.
LEMMA ProductInInt ==
  ASSUME NEW m \in Int, NEW n \in Nat
  PROVE  m * n \in Int /\ (m >= 0 => m * n >= 0) /\ (n = 0 => m * n = 0)
OBVIOUS

\* So does a capacity over a period.
LEMMA QuotientInInt ==
  ASSUME NEW m \in Int, NEW n \in Nat \ {0}
  PROVE  m \div n \in Int /\ (m >= 0 => m \div n >= 0)
OBVIOUS

\* A period is a natural number.
LEMMA PeriodInNat ==
  ASSUME NEW period \in 0..MaxPeriod
  PROVE  period \in Nat
BY RateAssumption DEF RateAssumption

\* A turn of try_consume takes a bucketful or what is left, and a negative
\* bucketful only while something is left; with a refill period of 0 the bucket
\* holds nothing.
Turns ==
  /\ m_mutex => iteration_tokens >= 0 \/ iteration_tokens = m_capacity
  /\ m_mutex /\ m_capacity < 0 => tokens_left > 0
  /\ m_refill_period = 0 => m_capacity = 0

IInv == TypeOK /\ TokensWithinCapacity /\ SpentWithinGrant /\ PaysItsCost /\ Turns

\* The constructor's bucket is full and nobody owes anything.
LEMMA InitIInv == Init => IInv
<1> SUFFICES ASSUME Init PROVE IInv
  OBVIOUS
<1> DEFINE amount == DefaultRate * DefaultPeriod
<1>1. /\ amount \in Int /\ amount >= 0
      /\ DefaultPeriod = 0 => amount = 0
  BY RateAssumption, PeriodInNat, ProductInInt DEF RateAssumption
<1>2. m_capacity = amount /\ m_tokens = amount /\ granted = amount
  BY DEF Init
<1> HIDE DEF amount
<1>3. recent \in [0..MaxPeriod - 1 -> Int]
  BY DEF Init, NothingRecent
<1>4. TypeOK
  <2>1. DefaultPeriod \in 0..MaxPeriod
    BY RateAssumption DEF RateAssumption
  <2>2. /\ m_refill_period = DefaultPeriod /\ time_left = DefaultPeriod
        /\ m_mutex = FALSE /\ tokens_left = 0 /\ iteration_tokens = 0
        /\ m_token_bucket_rate = <<0, DefaultPeriod>>
        /\ cost = 0 /\ paid = 0 /\ spent = 0 /\ undefined = FALSE
    BY DEF Init
  <2>3. 0 <= m_capacity /\ 0 <= m_tokens /\ 0 \in Nat /\ 0 \in Int
    BY <1>1, <1>2
  <2>4. m_token_bucket_rate \in Int \X (0..MaxPeriod)
    BY <2>1, <2>2
  <2> QED
    BY <1>1, <1>2, <1>3, <2>1, <2>2, <2>3, <2>4 DEF TypeOK
<1>5. TokensWithinCapacity /\ SpentWithinGrant /\ PaysItsCost /\ Turns
  BY <1>1, <1>2 DEF Init, TokensWithinCapacity, SpentWithinGrant, PaysItsCost, Turns
<1> QED
  BY <1>4, <1>5 DEF IInv

\* The bucket that initialize and configure_refill_window leave is full.
LEMMA FillBucketIInv ==
  ASSUME NEW rate \in Int, NEW period \in 0..MaxPeriod, IInv,
         ~m_mutex, FillBucket(rate, period), UpdateRate(rate, period),
         undefined' \in BOOLEAN, ~undefined' => rate >= 0,
         recent' = NothingRecent, UNCHANGED <<time_left, requestVars>>
  PROVE  IInv'
<1> DEFINE amount == rate * period
<1>1. /\ amount \in Int /\ (rate >= 0 => amount >= 0)
      /\ period = 0 => amount = 0
  BY PeriodInNat, ProductInInt
<1> HIDE DEF amount
<1>2. /\ m_tokens' = amount /\ m_capacity' = amount /\ granted' = amount
      /\ spent' = 0 /\ m_refill_period' = period
      /\ m_token_bucket_rate' = <<amount, period>>
  BY DEF FillBucket, UpdateRate, NormalizeTokens, amount
<1>3. TypeOK'
  <2>1. recent' \in [0..MaxPeriod - 1 -> Int]
    BY DEF NothingRecent
  <2>2. ~m_mutex'
    BY DEF requestVars
  <2> QED
    BY <1>1, <1>2, <2>1, <2>2 DEF IInv, TypeOK, requestVars
<1>4. TokensWithinCapacity' /\ SpentWithinGrant' /\ PaysItsCost' /\ Turns'
  BY <1>1, <1>2
  DEF IInv, TokensWithinCapacity, SpentWithinGrant, PaysItsCost, Turns, requestVars
<1> QED
  BY <1>3, <1>4 DEF IInv

\* get_token_bucket_rate returns a negative rate only for a negative capacity or
\* for 0/0, truncation included.
LEMMA RateInInt ==
  ASSUME TypeOK, NEW r \in GetTokenBucketRate
  PROVE  r \in Int /\ (m_capacity >= 0 /\ m_refill_period # 0 => r >= 0)
<1>1. CASE m_refill_period = 0
  BY <1>1, RateAssumption DEF RateAssumption, GetTokenBucketRate
<1>2. CASE m_refill_period # 0
  <2> DEFINE rate == m_capacity \div m_refill_period
  <2>1. rate \in Int /\ (m_capacity >= 0 => rate >= 0)
    <3>1. m_capacity \in Int /\ m_refill_period \in Nat \ {0}
      BY <1>2, PeriodInNat DEF TypeOK
    <3> QED
      BY <3>1, QuotientInInt
  <2>2. <<rate, m_refill_period>> \in RoundsDown => rate \in Nat \ {0}
    BY RateAssumption DEF RateAssumption
  <2>3. r = IF <<rate, m_refill_period>> \in RoundsDown THEN rate - 1 ELSE rate
    BY <1>2 DEF GetTokenBucketRate
  <2> HIDE DEF rate
  <2> QED
    BY <1>2, <2>1, <2>2, <2>3
<1> QED
  BY <1>1, <1>2

\* Every step of the enforcers, the clock and the control plane keeps the
\* accounts.
LEMMA NextIInv == IInv /\ [Next]_vars => IInv'
<1> SUFFICES ASSUME IInv, [Next]_vars PROVE IInv'
  OBVIOUS
<1> USE RateAssumption DEF RateAssumption
<1>1. CASE Tick
  <2>1. TypeOK'
    BY <1>1 DEF IInv, TypeOK, Tick, bucketVars, requestVars
  <2>2. TokensWithinCapacity' /\ SpentWithinGrant' /\ PaysItsCost' /\ Turns'
    BY <1>1 DEF IInv, TokensWithinCapacity, SpentWithinGrant, PaysItsCost, Turns, Tick,
                bucketVars, requestVars
  <2> QED
    BY <2>1, <2>2 DEF IInv
<1>2. ASSUME NEW payload \in Costs, ObjEnforce(payload) PROVE IInv'
  <2> DEFINE n == BasicIoCost(payload)
  <2>1. n \in Nat
    BY ProductInInt DEF BasicIoCost
  <2> HIDE DEF n
  <2>2. /\ m_mutex' = (n > 0 \/ m_capacity >= 0) /\ tokens_left' = n /\ cost' = n
        /\ iteration_tokens' = (IF n > m_capacity THEN m_capacity ELSE n) /\ paid' = 0
        /\ UNCHANGED <<bucketVars, time_left, m_token_bucket_rate, historyVars>>
    BY <1>2 DEF ObjEnforce, FirstIteration, n
  <2>3. /\ m_mutex' \in BOOLEAN /\ (~m_mutex' => n = 0 /\ m_capacity < 0)
        /\ m_mutex' => n > 0 \/ m_capacity >= 0
    <3>1. ~(n > 0) /\ ~(m_capacity >= 0) => n = 0 /\ m_capacity < 0
      BY <2>1 DEF IInv, TypeOK
    <3> QED
      BY <2>2, <3>1, Zenon
  <2>4. TypeOK'
    BY <2>1, <2>2, <2>3 DEF IInv, TypeOK, bucketVars, historyVars
  <2>5. ~m_mutex
    BY <1>2 DEF ObjEnforce
  <2>6. TokensWithinCapacity' /\ SpentWithinGrant'
    BY <2>2, <2>5 DEF IInv, TokensWithinCapacity, SpentWithinGrant, bucketVars, historyVars
  <2>7. PaysItsCost'
    BY <2>1, <2>2, <2>3 DEF IInv, TypeOK, PaysItsCost, bucketVars
  <2>8. Turns'
    BY <2>1, <2>2, <2>3 DEF IInv, TypeOK, Turns, bucketVars
  <2> QED
    BY <2>4, <2>6, <2>7, <2>8 DEF IInv
<1>3. CASE TryRefill
  <2>1. TypeOK'
    BY <1>3 DEF IInv, TypeOK, TryRefill, requestVars
  <2>2. TokensWithinCapacity' /\ SpentWithinGrant' /\ PaysItsCost' /\ Turns'
    BY <1>3 DEF IInv, TypeOK, TokensWithinCapacity, SpentWithinGrant,
                PaysItsCost, Turns, TryRefill, requestVars
  <2> QED
    BY <2>1, <2>2 DEF IInv
<1>4. CASE Consume
  <2> DEFINE left == tokens_left - iteration_tokens
  <2>1. /\ m_mutex /\ left \in Nat
        /\ iteration_tokens <= m_tokens
        /\ m_capacity >= 0 => iteration_tokens >= 0
    BY <1>4 DEF IInv, TypeOK, PaysItsCost, Turns, Consume
  <2>2. /\ tokens_left' = left /\ m_mutex' = (left > 0)
        /\ iteration_tokens' = IF left < m_capacity THEN left ELSE iteration_tokens
        /\ m_capacity' = m_capacity
    BY <1>4 DEF Consume, NextIteration
  <2> HIDE DEF left
  <2>3. m_mutex' \in BOOLEAN /\ (~m_mutex' => left = 0) /\ (m_mutex' => left > 0)
    <3>1. ~(left > 0) => left = 0
      BY <2>1
    <3>2. m_mutex' = (left > 0)
      BY <2>2
    <3>3. (left > 0) \in BOOLEAN
      OBVIOUS
    <3> QED
      BY <3>1, <3>2, <3>3, Zenon
  <2>4. TypeOK'
    <3>1. recent' \in [0..MaxPeriod - 1 -> Int]
      BY <1>4 DEF IInv, TypeOK, Consume
    <3>2. ~undefined => m_capacity >= 0 /\ m_tokens' >= 0 /\ iteration_tokens' >= 0
      BY <1>4, <2>1, <2>2 DEF IInv, TypeOK, Consume
    <3>3. /\ m_tokens' \in Int /\ iteration_tokens' \in Int
          /\ paid' \in Int /\ spent' \in Int
      BY <1>4, <2>1, <2>2 DEF IInv, TypeOK, Consume
    <3> QED
      BY <1>4, <2>1, <2>2, <2>3, <3>1, <3>2, <3>3 DEF IInv, TypeOK, Consume
  <2>5. TokensWithinCapacity'
    <3>1. CASE m_capacity >= 0
      BY <1>4, <2>1, <3>1 DEF IInv, TypeOK, TokensWithinCapacity, Consume
    <3>2. CASE ~(m_capacity >= 0)
      \* The loop goes on: what is left has not become less.
      <4>1. tokens_left > 0
        BY <2>1, <3>2 DEF IInv, TypeOK, Turns
      <4>2. iteration_tokens < 0
        BY <2>1, <3>2 DEF IInv, TypeOK, PaysItsCost
      <4>3. left > 0
        BY <4>1, <4>2 DEF IInv, TypeOK, left
      <4> QED
        BY <2>2, <3>2, <4>3, Zenon DEF TokensWithinCapacity
    <3> QED
      BY <3>1, <3>2
  <2>6. SpentWithinGrant'
    BY <1>4 DEF IInv, TypeOK, SpentWithinGrant, Consume
  <2>7. PaysItsCost'
    <3>1. (paid + tokens_left = cost)'
      BY <1>4 DEF IInv, TypeOK, PaysItsCost, Consume
    <3>2. (~m_mutex => tokens_left = 0)'
      BY <2>2, <2>3
    <3>3. (m_mutex => iteration_tokens <= tokens_left /\ iteration_tokens <= m_capacity)'
      BY <2>1, <2>2 DEF IInv, TypeOK, PaysItsCost
    <3> QED
      BY <3>1, <3>2, <3>3 DEF PaysItsCost
  <2>8. Turns'
    BY <1>4, <2>1, <2>2, <2>3 DEF IInv, TypeOK, Turns, Consume
  <2> QED
    BY <2>4, <2>5, <2>6, <2>7, <2>8 DEF IInv
<1>5. ASSUME NEW period \in Periods, NEW rate \in Rates, Initialize(period, rate)
      PROVE  IInv'
  <2>1. /\ rate \in Int /\ rate >= 0 /\ period \in 0..MaxPeriod
        /\ undefined' = FALSE
    BY <1>5 DEF Initialize
  <2> QED
    BY <1>5, <2>1, FillBucketIInv DEF Initialize
<1>6. ASSUME NEW rate \in Rates, ConfigureRate(rate) PROVE IInv'
  <2> DEFINE amount == NormalizeTokens(rate, m_refill_period)
  <2>1. /\ amount \in Int /\ amount >= 0
        /\ m_refill_period = 0 => amount = 0
    BY PeriodInNat, ProductInInt DEF IInv, TypeOK, NormalizeTokens
  <2> HIDE DEF amount
  <2>2. /\ m_capacity' = amount
        /\ m_tokens' = IF m_tokens > amount THEN amount ELSE m_tokens
        /\ m_token_bucket_rate' = <<amount, m_refill_period>>
        /\ recent' = NothingRecent
        /\ UNCHANGED <<m_refill_period, time_left, requestVars, undefined, granted, spent>>
    BY <1>6 DEF ConfigureRate, UpdateRate, amount
  <2>3. TypeOK'
    <3>1. recent' \in [0..MaxPeriod - 1 -> Int]
      BY <2>2 DEF NothingRecent
    <3>2. ~m_mutex'
      BY <1>6, <2>2 DEF ConfigureRate, requestVars
    <3> QED
      BY <2>1, <2>2, <3>1, <3>2 DEF IInv, TypeOK, requestVars
  <2>4. TokensWithinCapacity' /\ SpentWithinGrant' /\ PaysItsCost' /\ Turns'
    BY <1>6, <2>1, <2>2 DEF IInv, TypeOK, TokensWithinCapacity, SpentWithinGrant,
                            PaysItsCost, Turns, ConfigureRate, requestVars
  <2> QED
    BY <2>3, <2>4 DEF IInv
<1>7. ASSUME NEW window \in Periods, ConfigureRefillWindow(window) PROVE IInv'
  <2>1. PICK rate \in GetTokenBucketRate :
          /\ ~m_mutex
          /\ FillBucket(rate, window)
          /\ UpdateRate(rate, window)
          /\ undefined' = (undefined \/ m_refill_period = 0)
          /\ recent' = NothingRecent
          /\ UNCHANGED <<time_left, requestVars>>
    BY <1>7 DEF ConfigureRefillWindow
  <2>2. rate \in Int /\ (m_capacity >= 0 /\ m_refill_period # 0 => rate >= 0)
    BY <2>1, RateInInt DEF IInv
  <2>3. ~undefined' => ~undefined /\ m_refill_period # 0
    BY <2>1, Zenon
  <2>4. undefined' \in BOOLEAN
    BY <2>1, Zenon
  <2>5. ~undefined' => rate >= 0
    BY <2>2, <2>3 DEF IInv, TypeOK
  <2> QED
    BY <2>1, <2>2, <2>4, <2>5, FillBucketIInv
<1>8. CASE ConfigureNotSupported
  <2>1. TypeOK'
    BY <1>8 DEF IInv, TypeOK, ConfigureNotSupported, bucketVars, requestVars, historyVars
  <2>2. TokensWithinCapacity' /\ SpentWithinGrant' /\ PaysItsCost' /\ Turns'
    BY <1>8 DEF IInv, TokensWithinCapacity, SpentWithinGrant, PaysItsCost, Turns,
                ConfigureNotSupported, bucketVars, requestVars, historyVars
  <2> QED
    BY <2>1, <2>2 DEF IInv
<1>9. CASE UNCHANGED vars
  BY <1>9 DEF IInv, TypeOK, TokensWithinCapacity, SpentWithinGrant, PaysItsCost, Turns,
              vars, bucketVars, requestVars, historyVars
<1> QED
  BY <1>1, <1>2, <1>3, <1>4, <1>5, <1>6, <1>7, <1>8, <1>9 DEF Next, Configure

\* The accounts hold in every state.
LEMMA Invariance == Spec => []IInv
<1>1. Init => IInv
  BY InitIInv
<1>2. IInv /\ [Next]_vars => IInv'
  BY NextIInv
<1> QED
  BY <1>1, <1>2, PTL DEF Spec

-----------------------------------------------------------------------------
(* Bursts.                                                                 *)

\* What was consumed in a window, with what is left, came from two bucketfuls;
\* from one if the window began after the last refill, which was
\* m_refill_period - time_left ticks ago.  Nothing was consumed with a period of
\* 0, nor while the bucket is in debt.
Bursts ==
  m_capacity >= 0 =>
    /\ \A k \in 0..m_refill_period - 1 :
         /\ recent[k] + m_tokens <= 2 * m_capacity
         /\ k + time_left < m_refill_period => recent[k] + m_tokens <= m_capacity
    /\ m_refill_period = 0 \/ m_tokens < 0 =>
         \A k \in 0..MaxPeriod - 1 : recent[k] = 0

\* Nothing was consumed since a configuration, and the bucket is not overfull.
LEMMA FreshWindows ==
  ASSUME NEW period \in 0..MaxPeriod, NEW tokens \in Int, NEW capacity \in Nat,
         tokens <= capacity
  PROVE  /\ \A k \in 0..period - 1 :
              /\ NothingRecent[k] + tokens <= 2 * capacity
              /\ NothingRecent[k] + tokens <= capacity
         /\ \A k \in 0..MaxPeriod - 1 : NothingRecent[k] = 0
<1>1. 0 + tokens <= 2 * capacity /\ 0 + tokens <= capacity
  OBVIOUS
<1>2. \A k \in 0..MaxPeriod - 1 : NothingRecent[k] = 0
  BY DEF NothingRecent
<1>3. \A k \in 0..period - 1 : k \in 0..MaxPeriod - 1
  BY RateAssumption DEF RateAssumption
<1> QED
  BY <1>1, <1>2, <1>3

\* Every step keeps the bound: a refill only comes once every window of a period
\* began after the one before.
LEMMA NextBursts ==
  ASSUME IInv, Bursts, [Next]_vars
  PROVE  Bursts'
<1>0. TypeOK /\ TokensWithinCapacity /\ TypeOK' /\ TokensWithinCapacity'
  BY NextIInv DEF IInv
<1>1. CASE Tick
  <2>0. SUFFICES ASSUME m_capacity >= 0 PROVE Bursts'
    BY <1>1 DEF Tick, bucketVars, Bursts
  <2>2. /\ time_left \in Nat /\ m_refill_period \in Nat
        /\ m_tokens \in Int /\ m_capacity \in Nat /\ m_tokens <= m_capacity
    BY <1>0, <2>0, RateAssumption DEF TypeOK, TokensWithinCapacity, RateAssumption
  <2>3. time_left' = IF time_left > 0 THEN time_left - 1 ELSE 0
    BY <1>1 DEF Tick
  <2>4. \A k \in 0..MaxPeriod - 1 : recent'[k] = IF k = 0 THEN 0 ELSE recent[k - 1]
    BY <1>1 DEF Tick
  <2>5. ASSUME NEW k \in 0..m_refill_period - 1
        PROVE  /\ recent'[k] + m_tokens <= 2 * m_capacity
               /\ k + time_left' < m_refill_period =>
                    recent'[k] + m_tokens <= m_capacity
    <3>0. k \in 0..MaxPeriod - 1 /\ k \in Nat
      BY <1>0, RateAssumption DEF TypeOK, RateAssumption
    <3>1. CASE k = 0
      BY <2>2, <2>4, <3>0, <3>1
    <3>2. CASE k # 0
      <4>1. k - 1 \in 0..m_refill_period - 1 /\ k - 1 \in 0..MaxPeriod - 1
        BY <2>2, <3>0, <3>2, RateAssumption DEF RateAssumption
      <4>2. recent[k - 1] \in Int
        BY <1>0, <4>1 DEF TypeOK
      <4>3. /\ recent[k - 1] + m_tokens <= 2 * m_capacity
            /\ k - 1 + time_left < m_refill_period =>
                 recent[k - 1] + m_tokens <= m_capacity
        BY <2>0, <4>1 DEF Bursts
      <4>4. k + time_left' < m_refill_period => k - 1 + time_left < m_refill_period
        BY <2>2, <2>3, <3>0, <3>2
      <4>5. recent'[k] = recent[k - 1]
        BY <2>4, <3>0, <3>2
      <4> QED
        BY <4>3, <4>4, <4>5
    <3> QED
      BY <3>1, <3>2
  <2>6. ASSUME m_refill_period = 0 \/ m_tokens < 0, NEW k \in 0..MaxPeriod - 1
        PROVE  recent'[k] = 0
    <3>1. CASE k = 0
      BY <2>4, <3>1
    <3>2. CASE k # 0
      <4>1. k - 1 \in 0..MaxPeriod - 1
        BY <3>2, RateAssumption DEF RateAssumption
      <4>2. recent[k - 1] = 0
        BY <2>0, <2>6, <4>1 DEF Bursts
      <4> QED
        BY <2>4, <3>2, <4>2
    <3> QED
      BY <3>1, <3>2
  <2>7. UNCHANGED <<m_capacity, m_tokens, m_refill_period>>
    BY <1>1 DEF Tick, bucketVars
  <2> QED
    BY <2>5, <2>6, <2>7 DEF Bursts
<1>2. CASE TryRefill
  <2>0. SUFFICES ASSUME m_capacity >= 0 PROVE Bursts'
    BY <1>2 DEF TryRefill, Bursts
  <2>1. SUFFICES ASSUME NEW k \in 0..m_refill_period - 1
                 PROVE  /\ recent[k] + m_capacity <= 2 * m_capacity
                        /\ ~(k + m_refill_period < m_refill_period)
    <3>1. m_refill_period = 0 => \A k \in 0..MaxPeriod - 1 : recent[k] = 0
      BY <2>0 DEF Bursts
    <3>2. UNCHANGED <<m_capacity, m_refill_period, recent>> /\ m_tokens' = m_capacity
          /\ time_left' = m_refill_period
      BY <1>2 DEF TryRefill
    <3>3. m_capacity \in Int /\ ~(m_capacity < 0)
      BY <1>0, <2>0 DEF TypeOK
    <3> QED
      BY <3>1, <3>2, <3>3 DEF Bursts
  <2>2. /\ k \in Nat /\ recent[k] \in Int /\ time_left = 0
        /\ m_tokens \in Int /\ m_capacity \in Nat /\ m_refill_period \in Nat
    <3>1. k \in 0..MaxPeriod - 1
      BY <1>0, RateAssumption DEF TypeOK, RateAssumption
    <3> QED
      BY <1>0, <1>2, <2>0, <3>1, RateAssumption DEF TypeOK, TryRefill, RateAssumption
  <2>3. recent[k] + m_tokens <= m_capacity
    BY <2>0, <2>2 DEF Bursts
  <2>4. recent[k] <= m_capacity
    <3>1. k \in 0..MaxPeriod - 1
      BY <1>0, RateAssumption DEF TypeOK, RateAssumption
    <3>2. m_tokens < 0 => recent[k] = 0
      BY <2>0, <3>1 DEF Bursts
    <3> QED
      BY <2>2, <2>3, <3>2
  <2> QED
    BY <2>2, <2>4
<1>3. CASE Consume
  <2>0. SUFFICES ASSUME m_capacity >= 0 PROVE Bursts'
    BY <1>3 DEF Consume, Bursts
  <2>1. ASSUME NEW k \in 0..MaxPeriod - 1
        PROVE  /\ recent'[k] = recent[k] + iteration_tokens
               /\ recent'[k] + m_tokens' = recent[k] + m_tokens
    <3>1. recent[k] \in Int /\ m_tokens \in Int /\ iteration_tokens \in Int
      BY <1>0 DEF TypeOK
    <3>2. /\ recent'[k] = recent[k] + iteration_tokens
          /\ m_tokens' = m_tokens - iteration_tokens
      BY <1>3 DEF Consume
    <3> QED
      BY <3>1, <3>2
  <2>2. \A k \in 0..m_refill_period - 1 : k \in 0..MaxPeriod - 1
    BY <1>0, RateAssumption DEF TypeOK, RateAssumption
  <2>3. m_refill_period = 0 => iteration_tokens = 0
    BY <1>3 DEF IInv, TypeOK, Turns, PaysItsCost, Consume
  <2>4. m_refill_period = 0 => \A k \in 0..MaxPeriod - 1 : recent'[k] = 0
    BY <2>0, <2>1, <2>3 DEF Bursts
  <2>5. UNCHANGED <<m_capacity, m_refill_period, time_left>>
    BY <1>3 DEF Consume
  <2>6. ~(m_tokens' < 0)
    BY <1>3, <2>0 DEF IInv, TypeOK, Turns, Consume
  <2> QED
    BY <2>0, <2>1, <2>2, <2>4, <2>5, <2>6 DEF Bursts
<1>4. CASE Configure /\ ~ConfigureNotSupported
  <2>1. recent' = NothingRecent
    BY <1>4 DEF Configure, Initialize, ConfigureRate, ConfigureRefillWindow
  <2>2. /\ m_refill_period' \in 0..MaxPeriod
        /\ m_tokens' \in Int /\ m_capacity' \in Int
        /\ m_capacity' >= 0 => m_tokens' <= m_capacity'
    BY <1>0 DEF TypeOK, TokensWithinCapacity
  <2>3. m_capacity' >= 0 => m_capacity' \in Nat
    BY <2>2
  <2> QED
    BY <2>1, <2>2, <2>3, FreshWindows DEF Bursts
<1>5. CASE UNCHANGED vars \/ ConfigureNotSupported \/ \E payload \in Costs : ObjEnforce(payload)
  BY <1>5 DEF vars, bucketVars, historyVars, ObjEnforce, ConfigureNotSupported, Bursts
<1> QED
  BY <1>1, <1>2, <1>3, <1>4, <1>5 DEF Next

\* The bound holds in every state.
LEMMA BurstsInvariance == Spec => []Bursts
<1>1. Init => Bursts
  <2> SUFFICES ASSUME Init
               PROVE  Bursts
    OBVIOUS
  <2>1. TypeOK /\ TokensWithinCapacity /\ recent = NothingRecent
    BY InitIInv DEF IInv, Init
  <2> QED
    <3>1. /\ m_capacity >= 0 => m_tokens <= m_capacity
          /\ m_capacity >= 0 => m_capacity \in Nat
          /\ m_tokens \in Int /\ m_refill_period \in 0..MaxPeriod
      BY <2>1 DEF TypeOK, TokensWithinCapacity
    <3> QED
      BY <2>1, <3>1, FreshWindows DEF Bursts
<1>2. IInv /\ Bursts /\ [Next]_vars => Bursts'
  BY NextBursts
<1> QED
  BY <1>1, <1>2, Invariance, PTL DEF Spec

-----------------------------------------------------------------------------
(* Theorems.                                                               *)

\* No amount of tokens, in the bucket or in a request, becomes negative before the
\* refill window is changed from 0, when get_token_bucket_rate cuts 0/0 to a long;
\* what a request still owes is never negative, whatever that long is.
THEOREM TypeCorrect == Spec => []TypeOK
<1>1. IInv => TypeOK
  BY DEF IInv
<1> QED
  BY <1>1, Invariance, PTL

\* The bucket never holds more tokens than its capacity, unless that is negative and
\* a request loops for ever in it.
THEOREM NeverOverfull == Spec => []TokensWithinCapacity
<1>1. IInv => TokensWithinCapacity
  BY DEF IInv
<1> QED
  BY <1>1, Invariance, PTL

\* Nothing is spent that was not granted by a refill or a configuration.
THEOREM NoFreeTokens == Spec => []SpentWithinGrant
<1>1. IInv => SpentWithinGrant
  BY DEF IInv
<1> QED
  BY <1>1, Invariance, PTL

\* try_consume charges a request its cost, exactly, in chunks that the bucket can
\* hold.
THEOREM ExactCharge == Spec => []PaysItsCost
<1>1. IInv => PaysItsCost
  BY DEF IInv
<1> QED
  BY <1>1, Invariance, PTL

\* Over any refill period in which nothing is configured at most two bucketfuls
\* are consumed, and none with a period of 0, although a change of the period keeps the time of the next
\* refill (try_refill, refill_operation).
THEOREM BurstsAreBounded == Spec => []TwoBucketfulsPerPeriod
<1>1. IInv /\ Bursts => TwoBucketfulsPerPeriod
  <2> SUFFICES ASSUME IInv, Bursts
               PROVE  TwoBucketfulsPerPeriod
    OBVIOUS
  <2>1. SUFFICES ASSUME m_capacity >= 0
                 PROVE  /\ m_refill_period > 0 => recent[m_refill_period - 1] <= 2 * m_capacity
                        /\ m_refill_period = 0 => \A k \in DOMAIN recent : recent[k] = 0
    BY DEF TwoBucketfulsPerPeriod
  <2>2. DOMAIN recent = 0..MaxPeriod - 1 /\ m_tokens \in Int /\ m_capacity \in Int
    BY DEF IInv, TypeOK
  <2>3. ASSUME m_refill_period > 0 PROVE recent[m_refill_period - 1] <= 2 * m_capacity
    <3>1. /\ m_refill_period - 1 \in 0..m_refill_period - 1
          /\ m_refill_period - 1 \in 0..MaxPeriod - 1
      BY <2>3, RateAssumption DEF IInv, TypeOK, RateAssumption
    <3>2. recent[m_refill_period - 1] \in Int
      BY <3>1 DEF IInv, TypeOK
    <3>3. /\ recent[m_refill_period - 1] + m_tokens <= 2 * m_capacity
          /\ m_tokens < 0 => recent[m_refill_period - 1] = 0
      BY <2>1, <3>1 DEF Bursts
    <3> QED
      BY <2>1, <2>2, <3>2, <3>3
  <2> QED
    BY <2>1, <2>2, <2>3 DEF Bursts
<1> QED
  BY <1>1, Invariance, BurstsInvariance, PTL
=============================================================================
