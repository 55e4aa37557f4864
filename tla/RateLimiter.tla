----------------------------- MODULE RateLimiter -----------------------------
(***************************************************************************)
(* One DynamicRateLimiter and its TokenBucket.  Enforcing threads and the  *)
(* control plane take the object's m_mutex; an enforcer keeps it while it  *)
(* waits for tokens, so a configuration waits behind it.                   *)
(*                                                                         *)
(* Tokens are doubles, rate * period / Second.  Here they are counted in   *)
(* units of 1/Second token, which makes every amount a whole number:       *)
(* normalize_tokens is a product and a cost of n tokens is n * Second.     *)
(* The one place where a double is cut to a long, get_token_bucket_rate,   *)
(* is a floor, minus one for the pairs in RoundsDown.  Nothing checks the  *)
(* periods that are sent: with 0, which the shipped rules have, a capacity *)
(* is 0 and so is the divisor of that quotient, and 0/0 cut to a long is   *)
(* undefined: one of NaNCasts.  Time is relative: only                     *)
(* m_next_refill_period - now is kept.                                     *)
(***************************************************************************)
EXTENDS Integers

CONSTANTS
  Second,         \* clock ticks in a second
  DefaultRate,    \* rate and period of a bucket nobody configured
  DefaultPeriod,
  Rates,          \* rates the control plane sends
  Periods,        \* refill periods it sends, in ticks
  Costs,          \* ticket payloads, in tokens
  RoundsDown,     \* <<rate, period>> with (rate * q) / q < rate in doubles,
                  \* q = period / Second
  NaNCasts,       \* what a NaN may become as a long: its minimum, or 0
  MaxPeriod,      \* bound of the periods
  MaxOwed         \* bound of tokens_left, for a bucket of negative capacity

ASSUME RateAssumption ==
  /\ Second \in Nat \ {0}
  /\ MaxPeriod \in Nat \ {0}
  /\ DefaultRate \in Nat
  /\ DefaultPeriod \in 0..MaxPeriod
  /\ Rates \subseteq Nat
  /\ Periods \subseteq 0..MaxPeriod
  /\ Costs \subseteq Nat
  /\ RoundsDown \subseteq (Nat \ {0}) \X (Periods \ {0})
  /\ NaNCasts \subseteq Int
  /\ MaxOwed \in Nat /\ \A payload \in Costs : payload * Second <= MaxOwed

VARIABLES
  m_capacity,           \* TokenBucket, in 1/Second token
  m_tokens,
  m_refill_period,
  time_left,            \* m_next_refill_period - now, 0 when it has passed
  m_mutex,              \* TRUE while obj_enforce holds it
  tokens_left,          \* try_consume: still to consume
  iteration_tokens,     \* try_consume: consume_operation's argument
  m_token_bucket_rate,  \* <<capacity, period>> it was computed from
  undefined,            \* history: 0/0 was cut to a long since initialize
  cost,                 \* history: what the current request must pay
  paid,                 \* history: what it has paid
  granted,              \* history: tokens in the bucket when last filled
  spent,                \* history: tokens consumed since then
  recent                \* history: tokens consumed in this tick and the k
                        \* before it, since the last configuration

bucketVars == <<m_capacity, m_tokens, m_refill_period>>
requestVars == <<m_mutex, tokens_left, iteration_tokens, cost, paid>>
historyVars == <<undefined, granted, spent, recent>>
vars == <<bucketVars, time_left, requestVars, m_token_bucket_rate, historyVars>>

\* No amount of tokens is ever negative, in the bucket or in a request, unless the
\* refill window was changed from 0; what a request still owes is not even then.
TypeOK ==
  /\ m_capacity \in Int
  /\ m_tokens \in Int
  /\ m_refill_period \in 0..MaxPeriod
  /\ time_left \in 0..MaxPeriod
  /\ m_mutex \in BOOLEAN
  /\ tokens_left \in Nat
  /\ iteration_tokens \in Int
  /\ m_token_bucket_rate \in Int \X (0..MaxPeriod)
  /\ undefined \in BOOLEAN
  /\ cost \in Nat
  /\ paid \in Int
  /\ granted \in Int
  /\ spent \in Int
  /\ recent \in [0..MaxPeriod - 1 -> Int]
  /\ ~undefined => /\ m_capacity >= 0 /\ m_tokens >= 0
                   /\ m_mutex => iteration_tokens >= 0

NothingRecent == [k \in 0..MaxPeriod - 1 |-> 0]

Init ==
  /\ m_capacity = DefaultRate * DefaultPeriod
  /\ m_tokens = DefaultRate * DefaultPeriod
  /\ m_refill_period = DefaultPeriod
  /\ time_left = DefaultPeriod
  /\ m_mutex = FALSE
  /\ tokens_left = 0
  /\ iteration_tokens = 0
  /\ m_token_bucket_rate = <<0, DefaultPeriod>>
  /\ undefined = FALSE
  /\ cost = 0
  /\ paid = 0
  /\ granted = DefaultRate * DefaultPeriod
  /\ spent = 0
  /\ recent = NothingRecent

-----------------------------------------------------------------------------
(* The clock.                                                              *)

Tick ==
  /\ time_left' = IF time_left > 0 THEN time_left - 1 ELSE 0
  /\ recent' = [k \in 0..MaxPeriod - 1 |-> IF k = 0 THEN 0 ELSE recent[k - 1]]
  /\ UNCHANGED <<bucketVars, requestVars, m_token_bucket_rate, undefined, granted,
                 spent>>

-----------------------------------------------------------------------------
(* Enforcement: obj_enforce, try_consume, consume_operation.               *)

\* basic_io_cost: m_cost_per_request is 1.
BasicIoCost(payload) == payload * Second

\* Mutant: a request larger than the bucket asks for all its tokens at once.
FirstIterationWhole(n) == n

\* The first argument of consume_operation: a request larger than the bucket is
\* served by one bucketful at a time.
FirstIteration(n) == IF n > m_capacity THEN m_capacity ELSE n

\* A cost of 0 is above a negative capacity, and the loop over bucketfuls ends
\* before its first turn.
ObjEnforce(payload) ==
  /\ ~m_mutex
  /\ m_mutex' = (BasicIoCost(payload) > 0 \/ m_capacity >= 0)
  /\ tokens_left' = BasicIoCost(payload)
  /\ iteration_tokens' = FirstIteration(BasicIoCost(payload))
  /\ cost' = BasicIoCost(payload)
  /\ paid' = 0
  /\ UNCHANGED <<bucketVars, time_left, m_token_bucket_rate, historyVars>>

\* Mutant: the time of the next refill stays in the past.
TryRefillNotRearmed ==
  /\ m_mutex
  /\ iteration_tokens > m_tokens
  /\ time_left <= 0
  /\ m_tokens' = m_capacity
  /\ granted' = m_capacity
  /\ spent' = 0
  /\ UNCHANGED <<m_capacity, m_refill_period, time_left, requestVars,
                 m_token_bucket_rate, undefined, recent>>

\* consume_operation out of tokens when the period has elapsed: try_refill,
\* is_time_to_refill and refill_operation.  Before that it sleeps, and sleeping
\* changes nothing.
TryRefill ==
  /\ m_mutex
  /\ iteration_tokens > m_tokens
  /\ time_left <= 0
  /\ time_left' = m_refill_period
  /\ m_tokens' = m_capacity
  /\ granted' = m_capacity
  /\ spent' = 0
  /\ UNCHANGED <<m_capacity, m_refill_period, requestVars, m_token_bucket_rate,
                 undefined, recent>>

\* Mutant: the last turn takes a whole bucketful again.
NextIterationWhole(left) == iteration_tokens

NextIteration(left) == IF left < m_capacity THEN left ELSE iteration_tokens

\* consume_operation with enough tokens, and the next turn of try_consume; after
\* the last one obj_enforce releases m_mutex.  With a capacity of 0 a turn changes
\* nothing, and with a negative one it adds to what is owed: neither ends.
Consume ==
  /\ m_mutex
  /\ iteration_tokens <= m_tokens
  /\ tokens_left - iteration_tokens <= MaxOwed
  /\ m_tokens' = m_tokens - iteration_tokens
  /\ tokens_left' = tokens_left - iteration_tokens
  /\ iteration_tokens' = NextIteration(tokens_left - iteration_tokens)
  /\ m_mutex' = (tokens_left - iteration_tokens > 0)
  /\ paid' = paid + iteration_tokens
  /\ spent' = spent + iteration_tokens
  /\ recent' = [k \in 0..MaxPeriod - 1 |-> recent[k] + iteration_tokens]
  /\ UNCHANGED <<m_capacity, m_refill_period, time_left, m_token_bucket_rate,
                 undefined, cost, granted>>

-----------------------------------------------------------------------------
(* Control plane: obj_configure.                                           *)

NormalizeTokens(throughput, period) == throughput * period

\* obj_configure's last statement.
UpdateRate(rate, period) ==
  m_token_bucket_rate' = <<NormalizeTokens(rate, period), period>>

\* initialize and configure_refill_window: a full bucket of the new size.  The
\* time of the next refill keeps its old value.
FillBucket(rate, period) ==
  /\ m_refill_period' = period
  /\ m_tokens' = NormalizeTokens(rate, period)
  /\ m_capacity' = NormalizeTokens(rate, period)
  /\ granted' = NormalizeTokens(rate, period)
  /\ spent' = 0

Initialize(period, rate) ==
  /\ ~m_mutex
  /\ FillBucket(rate, period)
  /\ UpdateRate(rate, period)
  /\ undefined' = FALSE
  /\ recent' = NothingRecent
  /\ UNCHANGED <<time_left, requestVars>>

\* Mutant: the tokens above the new capacity stay in the bucket.
ConfigureRateKeepsTokens(rate) ==
  /\ ~m_mutex
  /\ m_capacity' = NormalizeTokens(rate, m_refill_period)
  /\ UpdateRate(rate, m_refill_period)
  /\ recent' = NothingRecent
  /\ UNCHANGED <<m_tokens, m_refill_period, time_left, requestVars, undefined,
                 granted, spent>>

\* Mutant: the bucket is filled, whatever was spent of it in this period.
ConfigureRateRefills(rate) ==
  /\ ~m_mutex
  /\ m_capacity' = NormalizeTokens(rate, m_refill_period)
  /\ m_tokens' = NormalizeTokens(rate, m_refill_period)
  /\ UpdateRate(rate, m_refill_period)
  /\ recent' = NothingRecent
  /\ UNCHANGED <<m_refill_period, time_left, requestVars, undefined, granted,
                 spent>>

ConfigureRate(rate) ==
  /\ ~m_mutex
  /\ m_capacity' = NormalizeTokens(rate, m_refill_period)
  /\ m_tokens' = IF m_tokens > NormalizeTokens(rate, m_refill_period)
                 THEN NormalizeTokens(rate, m_refill_period)
                 ELSE m_tokens
  /\ UpdateRate(rate, m_refill_period)
  /\ recent' = NothingRecent
  /\ UNCHANGED <<m_refill_period, time_left, requestVars, undefined, granted,
                 spent>>

\* get_token_bucket_rate, truncated to a long: what it may return.
GetTokenBucketRate ==
  LET rate == m_capacity \div m_refill_period
  IN  IF m_refill_period = 0 THEN NaNCasts
      ELSE {IF <<rate, m_refill_period>> \in RoundsDown THEN rate - 1 ELSE rate}

ConfigureRefillWindow(window) ==
  \E rate \in GetTokenBucketRate :
    /\ ~m_mutex
    /\ FillBucket(rate, window)
    /\ UpdateRate(rate, window)
    /\ undefined' = (undefined \/ m_refill_period = 0)
    /\ recent' = NothingRecent
    /\ UNCHANGED <<time_left, requestVars>>

\* Any other configuration is not supported: only the rate is computed anew.
ConfigureNotSupported ==
  /\ ~m_mutex
  /\ m_token_bucket_rate' = <<m_capacity, m_refill_period>>
  /\ UNCHANGED <<bucketVars, time_left, requestVars, historyVars>>

-----------------------------------------------------------------------------
Configure ==
  \/ \E period \in Periods, rate \in Rates : Initialize(period, rate)
  \/ \E rate \in Rates : ConfigureRate(rate)
  \/ \E window \in Periods : ConfigureRefillWindow(window)
  \/ ConfigureNotSupported

Next ==
  \/ Tick
  \/ \E payload \in Costs : ObjEnforce(payload)
  \/ TryRefill
  \/ Consume
  \/ Configure

Spec == Init /\ [][Next]_vars

\* Time passes and the thread that holds m_mutex runs.
Fairness == WF_vars(Tick) /\ WF_vars(TryRefill) /\ WF_vars(Consume)

FairSpec == Spec /\ Fairness

-----------------------------------------------------------------------------
(* Properties.                                                             *)

\* The bucket never holds more than its capacity, through refills, rate cuts and
\* period changes alike; one of negative capacity, left by a change of the refill
\* window from 0, is overfull once a request is in its loop.
TokensWithinCapacity == m_capacity >= 0 \/ ~m_mutex => m_tokens <= m_capacity

\* What was consumed since the bucket was last filled, and what is left in it,
\* was in it then: no sequence of rate changes creates tokens.
SpentWithinGrant == spent + m_tokens <= granted

\* A request pays its whole cost, never more: what it has paid and what
\* try_consume still has to take add up, whatever the number of bucketfuls.
PaysItsCost ==
  /\ paid + tokens_left = cost
  /\ ~m_mutex => tokens_left = 0
  /\ m_mutex => iteration_tokens <= tokens_left /\ iteration_tokens <= m_capacity

\* The rate limit a client can rely on: over any refill period in which nothing
\* is configured, at most two bucketfuls pass: one left over from the previous
\* period, or put there by the configuration, and one from a refill.  A period of
\* 0 lets nothing pass, at any time since.
TwoBucketfulsPerPeriod ==
  m_capacity >= 0 =>
    /\ m_refill_period > 0 => recent[m_refill_period - 1] <= 2 * m_capacity
    /\ m_refill_period = 0 => \A k \in DOMAIN recent : recent[k] = 0

\* With tokens to give, the bucket serves every request, however large, and the
\* thread lets go of the object.  (With capacity 0, or less, it never does.)
RequestServed == (m_mutex /\ m_capacity > 0) ~> ~m_mutex
=============================================================================
