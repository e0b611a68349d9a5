---------------------------- MODULE NetworkProofs ----------------------------
(***************************************************************************)
(* The network under client and server.                                    *)
(*                                                                         *)
(* The rate of BandwidthLimiter holds over every window, for all limits,   *)
(* amounts, burst lengths and numbers of threads.  The inductive invariant *)
(* adds to RateRespected what a look at the bucket would find: the bytes   *)
(* granted in the window and the tokens still there (after the refill that *)
(* is due) never exceed what the window may see.                           *)
(*                                                                         *)
(* A transport receives messages in the order they came in and does not    *)
(* use a ticket again that a server rejected, for any servers, threads,    *)
(* limits of the store and interfaces.                                     *)
(*                                                                         *)
(* Two parts of the core stand by themselves: the rate of                  *)
(* StatisticsCollector is of bytes that were transferred, and the counts   *)
(* of TransferPool agree with the futures, for any threads and tasks.      *)
(***************************************************************************)
EXTENDS BandwidthLimiter, Transport, StatisticsCollector, TransferPool, SequenceTheorems, FiniteSetTheorems, TLAPS

-----------------------------------------------------------------------------
(* The rate.                                                               *)
RateInv ==
  /\ TypeOK
  /\ DebtBounded
  /\ limit > 0 => granted + Refilled <= allowed

(* Arithmetic of set_limit. *)

\* A quotient is below n when the dividend is below n divisors.
LEMMA QuotientBelow ==
  ASSUME NEW x \in Nat, NEW d \in Nat, d > 0, NEW n \in Nat, x < d * n
  PROVE  x \div d \in Nat /\ x \div d < n
<1>1. x \div d \in Int /\ x \div d >= 0 /\ d * (x \div d) <= x
  BY SMT
<1>2. ASSUME x \div d >= n PROVE FALSE
  <2>1. d * (x \div d) >= d * n
    BY <1>1, <1>2, SMT
  <2>2. QED
    BY <1>1, <2>1, SMT
<1>3. QED
  BY <1>1, <1>2

\* A quotient of zero: the dividend is below the divisor.
LEMMA QuotientZero ==
  ASSUME NEW x \in Nat, NEW d \in Nat, d > 0, x \div d = 0
  PROVE  x < d
BY SMT

\* Products of natural numbers, strictly monotone.
LEMMA ProductBelow ==
  ASSUME NEW a \in Nat, NEW b \in Nat, NEW k \in Nat, a < b, k > 0
  PROVE  a * k < b * k
BY SMT

\* What set_limit leaves in the bucket fits it, and is a debt of less than a tick.
LEMMA ScaledFits ==
  ASSUME TypeOK, DebtBounded, NEW new \in Limits, new > 0
  PROVE  Scaled(new) \in Int /\ -new < Scaled(new) /\ Scaled(new) <= new * Burst
<1> USE ConstantsAssumption
<1>1. new \in Nat /\ limit \in Nat /\ Burst \in Nat /\ Burst > 0 /\ tokens \in Int /\ capacity \in Nat
  BY DEF TypeOK
<1>2. new * Burst \in Nat /\ new * Burst > 0
  BY <1>1, ProductBelow, SMT
<1>3. CASE ~(limit > 0 /\ capacity > 0)
  BY <1>1, <1>2, <1>3 DEF Scaled
<1>4. CASE limit > 0 /\ capacity > 0
  <2> DEFINE s == Scale(tokens, capacity, new * Burst)
  <2>1. s \in Int /\ -new < s
    <3>1. CASE tokens >= 0
      <4>1. tokens * (new * Burst) \in Nat
        BY <1>1, <1>2, <3>1, SMT
      <4>2. (tokens * (new * Burst)) \div capacity \in Int /\ (tokens * (new * Burst)) \div capacity >= 0
        BY <4>1, <1>1, <1>4, SMT
      <4>3. QED
        BY <4>2, <1>1, <3>1 DEF Scale
    <3>2. CASE tokens < 0
      <4>1. -tokens \in Nat /\ -tokens < limit
        BY <1>1, <1>4, <3>2 DEF DebtBounded
      <4>2. (-tokens) * (new * Burst) < limit * (new * Burst)
        BY <4>1, <1>1, <1>2, ProductBelow
      <4>3. limit * (new * Burst) = capacity * new
        <5>1. capacity = limit * Burst
          BY <1>4 DEF DebtBounded
        <5>2. QED
          BY <5>1, <1>1, SMT
      <4>4. (-tokens) * (new * Burst) \in Nat
        BY <4>1, <1>2, SMT
      <4>5. /\ ((-tokens) * (new * Burst)) \div capacity \in Nat
            /\ ((-tokens) * (new * Burst)) \div capacity < new
        BY <4>2, <4>3, <4>4, <1>1, <1>4, QuotientBelow
      <4>6. QED
        BY <4>5, <1>1, <3>2 DEF Scale
    <3>3. QED
      BY <3>1, <3>2, <1>1
  <2>2. QED
    BY <2>1, <1>1, <1>2, <1>4 DEF Scaled, MinOf
<1>5. QED
  BY <1>3, <1>4

-----------------------------------------------------------------------------
\* A new limiter has a full bucket, and the window allows as much.
LEMMA RateInit == LimiterInit => RateInv
<1> SUFFICES ASSUME LimiterInit PROVE RateInv
  OBVIOUS
<1> USE ConstantsAssumption DEF LimiterInit
<1>1. limit \in Nat /\ capacity \in Nat /\ tokens = capacity
  BY SMT
<1>2. TypeOK
  BY <1>1 DEF TypeOK, IdleCall
<1>3. DebtBounded
  BY <1>1, SMT DEF DebtBounded
<1>4. granted + Refilled <= allowed
  BY <1>1 DEF Refilled, MinOf
<1>5. QED
  BY <1>2, <1>3, <1>4 DEF RateInv

\* Looking at the bucket: an integer, at most the capacity, and no deeper in debt.
LEMMA RefilledFits ==
  ASSUME TypeOK
  PROVE  /\ Refilled \in Int /\ Refilled <= capacity
         /\ tokens <= Refilled /\ Refilled <= tokens + pending
BY DEF TypeOK, Refilled, MinOf

\* Every step keeps the invariant.
LEMMA RateStep == RateInv /\ [LimiterNext]_limiterVars => RateInv'
<1> SUFFICES ASSUME RateInv, [LimiterNext]_limiterVars PROVE RateInv'
  OBVIOUS
<1> USE ConstantsAssumption DEF RateInv
<1>t. limit \in Nat /\ tokens \in Int /\ capacity \in Nat /\ pending \in Nat /\ granted \in Nat /\ allowed \in Nat
  BY DEF TypeOK
<1>r. Refilled \in Int /\ Refilled <= capacity /\ tokens <= Refilled /\ Refilled <= tokens + pending
  BY RefilledFits
\* A step that only looks leaves what a look finds.
<1>l. ASSUME tokens' = Refilled, pending' = 0, UNCHANGED <<limit, capacity, history>>
      PROVE  DebtBounded' /\ (limit > 0 => granted + Refilled <= allowed)' /\ tokens' \in Int
             /\ tokens' <= capacity' /\ pending' \in Nat
  BY <1>l, <1>t, <1>r DEF DebtBounded, Refilled, MinOf, history
\* A step that takes at most what is there, or overdraws by less than a tick.
<1>g. ASSUME NEW c \in Callers, NEW b \in Nat, Take(c, b), limit > 0 => b - Refilled < limit
      PROVE  RateInv'
  <2>1. b \in Nat /\ Refilled - b \in Int /\ granted + b \in Nat
    BY <1>t, <1>r
  <2>2. TypeOK'
    BY <2>1, <1>g, <1>r, <1>t DEF TypeOK, Take, Return, IdleCall
  <2>3. DebtBounded'
    BY <2>1, <1>g, <1>r, <1>t DEF DebtBounded, Take
  <2>4. (limit > 0 => granted + Refilled <= allowed)'
    BY <2>1, <1>g, <1>r, <1>t DEF Take, Refilled, MinOf
  <2>5. QED
    BY <2>2, <2>3, <2>4
<1>b. \A c \in Callers : call[c].bytes \in Nat
  <2>1. \A x \in Sizes \cup {0} : x \in Nat
    OBVIOUS
  <2>2. QED
    BY <2>1 DEF TypeOK
<1>1. CASE Tick
  <2> USE <1>1 DEF Tick
  <2>1. Accrued \in Nat /\ Accrued <= pending + limit
    BY <1>t DEF Accrued, MinOf
  <2>2. TypeOK'
    BY <2>1, <1>t DEF TypeOK
  <2>3. DebtBounded'
    BY DEF DebtBounded
  <2>4. Refilled' \in Int /\ Refilled' <= Refilled + limit /\ Refilled' <= capacity
    BY <2>1, <1>t DEF Refilled, MinOf
  <2>5. (limit > 0 => granted + Refilled <= allowed)'
    BY <2>4, <1>t, <1>r
  <2>6. QED
    BY <2>2, <2>3, <2>5
<1>2. ASSUME NEW c \in Callers, CallerStep(c) \/ WaitAgain(c)
      PROVE  RateInv'
  <2>1. CASE AcquireDisabled(c)
    BY <2>1 DEF AcquireDisabled, Return, IdleCall, bucket, history, TypeOK, DebtBounded, Refilled
  <2>2. CASE AcquireGranted(c)
    <3>1. ASSUME limit > 0, call[c].bytes > Refilled PROVE call[c].bytes - Refilled < limit
      <4>1. (call[c].bytes - Refilled) \div limit = 0
        BY <3>1, <2>2, <1>b, <1>r, <1>t DEF AcquireGranted, WaitTime
      <4>2. call[c].bytes - Refilled \in Nat
        BY <3>1, <1>b, <1>r
      <4>3. QED
        BY <4>1, <4>2, <3>1, <1>t, QuotientZero
    <3>2. limit > 0 => call[c].bytes - Refilled < limit
      BY <3>1, <1>b, <1>r, <1>t
    <3>3. QED
      BY <3>2, <2>2, <1>b, <1>g DEF AcquireGranted
  <2>3. CASE AcquireWaits(c)
    <3>1. WaitTime(call[c].bytes) \in Nat
      <4>1. enabled /\ limit > 0 /\ call[c].bytes > Refilled
        BY <2>3, <1>b, <1>r, <1>t DEF AcquireWaits, WaitTime
      <4>2. call[c].bytes - Refilled \in Nat
        BY <4>1, <1>b, <1>r
      <4>3. (call[c].bytes - Refilled) \div limit \in Int
        BY <4>1, <4>2, <1>t, SMT
      <4>4. QED
        BY <4>3, <2>3, <4>1, <1>b, <1>r DEF AcquireWaits, WaitTime
    <3>2. TypeOK'
      BY <3>1, <2>3, <1>l, <1>b DEF AcquireWaits, TypeOK, history
    <3>3. QED
      BY <3>2, <2>3, <1>l DEF AcquireWaits, history
  <2>4. CASE TryAcquireLocked(c)
    <3>1. CASE Refilled >= call[c].bytes
      <4>1. limit > 0 => call[c].bytes - Refilled < limit
        BY <3>1, <1>b, <1>r, <1>t
      <4>2. Take(c, call[c].bytes)
        BY <3>1, <2>4 DEF TryAcquireLocked
      <4>3. QED
        BY <4>1, <4>2, <1>b, <1>g
    <3>2. CASE ~(Refilled >= call[c].bytes)
      <4>1. TypeOK'
        BY <3>2, <2>4, <1>l DEF TryAcquireLocked, Return, IdleCall, TypeOK, history
      <4>2. QED
        BY <4>1, <3>2, <2>4, <1>l DEF TryAcquireLocked, history
    <3>3. QED
      BY <3>1, <3>2
  <2>5. CASE WaitAgain(c)
    BY <2>5, <1>l DEF WaitAgain, TypeOK, history
  <2>6. QED
    BY <1>2, <2>1, <2>2, <2>3, <2>4, <2>5 DEF CallerStep
<1>3. ASSUME NEW c \in Callers, NEW b \in Sizes, Acquire(c, b) \/ TryAcquire(c, b)
      PROVE  RateInv'
  BY <1>3 DEF Acquire, TryAcquire, bucket, history, TypeOK, DebtBounded, Refilled
<1>4. ASSUME NEW k \in Controllers, ControllerStep(k)
      PROVE  RateInv'
  <2>1. ASSUME NEW new \in Limits, SetLimit(new) PROVE RateInv'
    <3>1. new \in Nat /\ limit' = new /\ pending' = 0 /\ granted' = 0 /\ ticks' = 0 /\ allowed' = capacity'
      BY <2>1 DEF SetLimit, OpenWindow
    <3>2. CASE new = 0
      <4>0. /\ enabled' = FALSE /\ tokens' = tokens /\ capacity' = capacity
            /\ call' = call /\ enabling' = enabling
        BY <2>1, <3>1, <3>2 DEF SetLimit
      <4>1. TypeOK'
        <5>1. limit' \in Limits /\ pending' \in Nat /\ granted' \in Nat /\ ticks' \in 0..Window /\ allowed' \in Nat
          BY <3>1, <4>0, <1>t
        <5>2. QED
          BY <5>1, <4>0 DEF TypeOK
      <4>2. ~(limit' > 0)
        BY <3>1, <3>2
      <4>3. QED
        BY <4>1, <4>2 DEF DebtBounded
    <3>3. CASE new > 0
      <4>1. Scaled(new) \in Int /\ -new < Scaled(new) /\ Scaled(new) <= new * Burst
        BY <3>3, ScaledFits
      <4>2. new * Burst \in Nat
        BY <3>1, SMT
      <4>3. tokens' = Scaled(new) /\ capacity' = new * Burst /\ enabled' = TRUE /\ UNCHANGED <<call, enabling>>
        BY <2>1, <3>3 DEF SetLimit
      <4>4. TypeOK'
        BY <4>1, <4>2, <4>3, <3>1 DEF TypeOK
      <4>5. DebtBounded'
        BY <4>1, <4>3, <3>1 DEF DebtBounded
      <4>6. (granted + Refilled <= allowed)'
        BY <4>1, <4>2, <4>3, <3>1 DEF Refilled, MinOf
      <4>7. QED
        BY <4>4, <4>5, <4>6
    <3>4. QED
      BY <3>1, <3>2, <3>3
  <2>2. CASE Disable
    BY <2>2 DEF Disable, history, TypeOK, DebtBounded, Refilled
  <2>3. CASE EnableCheck(k)
    BY <2>3 DEF EnableCheck, bucket, history, TypeOK, DebtBounded, Refilled
  <2>4. CASE EnableLocked(k)
    <3>1. TypeOK' /\ DebtBounded'
      BY <2>4 DEF EnableLocked, history, TypeOK, DebtBounded
    <3>2. (limit > 0 => granted + Refilled <= allowed)'
      BY <2>4, <1>t, <1>r DEF EnableLocked, history, Refilled, MinOf
    <3>3. QED
      BY <3>1, <3>2
  <2>5. CASE Reset
    <3>1. TypeOK'
      BY <2>5, <1>t DEF Reset, OpenWindow, TypeOK
    <3>2. DebtBounded'
      <4>1. limit > 0 => capacity > 0
        BY <1>t, ProductBelow, SMT DEF DebtBounded
      <4>2. QED
        BY <4>1, <2>5, <1>t DEF Reset, DebtBounded
    <3>3. (limit > 0 => granted + Refilled <= allowed)'
      BY <2>5, <1>t DEF Reset, OpenWindow, Refilled, MinOf
    <3>4. QED
      BY <3>1, <3>2, <3>3
  <2>6. CASE AvailableTokens
    BY <2>6, <1>l DEF AvailableTokens, TypeOK, history
  <2>7. QED
    BY <1>4, <2>1, <2>2, <2>3, <2>4, <2>5, <2>6 DEF ControllerStep
<1>5. CASE UNCHANGED limiterVars
  BY <1>5 DEF limiterVars, bucket, history, TypeOK, DebtBounded, Refilled
<1>6. QED
  BY <1>1, <1>2, <1>3, <1>4, <1>5 DEF LimiterNext

-----------------------------------------------------------------------------
\* The invariant holds throughout.
LEMMA RateAlways == LimiterSpec => []RateInv
BY RateInit, RateStep, PTL DEF LimiterSpec

(* No thread is ever given more tokens in a window than a full bucket and  *)
(* the rate over the window allow, plus less than one tick's worth:        *)
(* acquire, try_acquire, the waiters' rechecks and every change of the     *)
(* settings keep the limit, for all parameters.                            *)
THEOREM RateIsRespected == LimiterSpec => []RateRespected
<1>1. RateInv => RateRespected
  <2> SUFFICES ASSUME RateInv, limit > 0 PROVE granted < allowed + limit
    BY DEF RateRespected
  <2>1. limit \in Nat /\ granted \in Nat /\ allowed \in Nat /\ tokens \in Int
    BY ConstantsAssumption DEF RateInv, TypeOK
  <2>2. Refilled \in Int /\ tokens <= Refilled
    BY RefilledFits DEF RateInv
  <2>3. QED
    BY <2>1, <2>2 DEF RateInv, DebtBounded
<1>2. QED
  BY <1>1, RateAlways, PTL

(* The debt that acquire may run up, by giving out tokens it would have to  *)
(* wait less than a microsecond for, stays below a tick's worth, also       *)
(* across the rescaling in set_limit; the capacity follows the limit.       *)
THEOREM DebtIsBounded == LimiterSpec => []DebtBounded
<1>1. RateInv => DebtBounded
  BY DEF RateInv
<1>2. QED
  BY <1>1, RateAlways, PTL

-----------------------------------------------------------------------------
(* The lazily refilled bucket implements TokenBucket.  set_limit scales     *)
(* tokens_ by the quotient of the capacities and TokenBucket by that of the *)
(* limits, so the proof needs some arithmetic of quotients first.           *)

\* A quotient is determined by the interval its dividend lies in.
LEMMA QuotientUnique ==
  ASSUME NEW x \in Nat, NEW d \in Nat, d > 0, NEW q \in Int, d * q <= x, x < d * q + d
  PROVE  x \div d = q
BY SMT

\* The defining property of a quotient.
LEMMA QuotientInterval ==
  ASSUME NEW x \in Nat, NEW d \in Nat, d > 0
  PROVE  x \div d \in Nat /\ d * (x \div d) <= x /\ x < d * (x \div d) + d
BY SMT

\* A larger dividend has no smaller quotient.
LEMMA QuotientMonotone ==
  ASSUME NEW x \in Nat, NEW y \in Nat, NEW d \in Nat, d > 0, x <= y
  PROVE  x \div d <= y \div d
<1>1. x \div d \in Nat /\ y \div d \in Nat
  BY QuotientInterval
<1>2. ASSUME x \div d >= y \div d + 1 PROVE FALSE
  <2>1. d * (x \div d) >= d * (y \div d + 1)
    BY <1>1, <1>2, SMT
  <2>2. d * (y \div d + 1) = d * (y \div d) + d
    BY <1>1, SMT
  <2>3. QED
    BY <2>1, <2>2, <1>1, QuotientInterval, SMT
<1>3. QED
  BY <1>1, <1>2

\* Scaling both sides by k leaves a quotient as it is.
LEMMA QuotientCancels ==
  ASSUME NEW x \in Nat, NEW d \in Nat, d > 0, NEW k \in Nat, k > 0
  PROVE  (x * k) \div (d * k) = x \div d
<1> DEFINE q == x \div d
<1>1. q \in Nat /\ d * q <= x /\ x < d * q + d
  BY QuotientInterval
<1> HIDE DEF q
<1>2. x * k \in Nat /\ d * k \in Nat /\ d * k > 0
  BY ProductBelow, SMT
<1>3. (d * q) * k <= x * k /\ x * k < (d * q + d) * k
  BY <1>1, SMT
<1>4. (d * q) * k = (d * k) * q /\ (d * q + d) * k = (d * k) * q + d * k
  BY <1>1, SMT
<1>5. (x * k) \div (d * k) = q
  BY <1>1, <1>2, <1>3, <1>4, QuotientUnique
<1>6. QED
  BY <1>5 DEF q

\* Scaling by the capacities is scaling by the limits.
LEMMA ScaleByLimits ==
  ASSUME NEW t \in Int, NEW old \in Nat, NEW new \in Nat, old > 0, NEW k \in Nat, k > 0
  PROVE  Scale(t, old * k, new * k) = Scale(t, old, new)
<1>1. ASSUME NEW u \in Nat PROVE (u * (new * k)) \div (old * k) = (u * new) \div old
  <2>1. u * (new * k) = (u * new) * k /\ u * new \in Nat
    BY SMT
  <2>2. QED
    BY <2>1, QuotientCancels
<1>2. CASE t >= 0
  BY <1>1, <1>2 DEF Scale
<1>3. CASE t < 0
  <2>1. -t \in Nat
    BY <1>3
  <2>2. QED
    BY <1>1, <1>3, <2>1 DEF Scale
<1>4. QED
  BY <1>2, <1>3

\* More tokens are never scaled to fewer.
LEMMA ScaleMonotone ==
  ASSUME NEW t \in Int, NEW u \in Int, t <= u, NEW old \in Nat, NEW new \in Nat, old > 0
  PROVE  Scale(t, old, new) \in Int /\ Scale(u, old, new) \in Int /\ Scale(t, old, new) <= Scale(u, old, new)
<1>1. ASSUME NEW a \in Nat PROVE a * new \in Nat /\ (a * new) \div old \in Nat
  <2>1. a * new \in Nat
    BY SMT
  <2>2. QED
    BY <2>1, QuotientInterval
<1>2. ASSUME NEW a \in Nat, NEW b \in Nat, a <= b PROVE (a * new) \div old <= (b * new) \div old
  <2>1. a * new <= b * new
    BY <1>2, SMT
  <2>2. QED
    BY <2>1, <1>1, QuotientMonotone
<1>3. CASE t >= 0
  BY <1>1, <1>2, <1>3 DEF Scale
<1>4. CASE t < 0 /\ u >= 0
  <2>1. -t \in Nat
    BY <1>4
  <2>2. QED
    BY <1>1, <1>4, <2>1 DEF Scale
<1>5. CASE t < 0 /\ u < 0
  <2>1. -t \in Nat /\ -u \in Nat /\ -u <= -t
    BY <1>5
  <2>2. QED
    BY <1>1, <1>2, <1>5, <2>1 DEF Scale
<1>6. QED
  BY <1>3, <1>4, <1>5

\* Nothing pending: a look finds the tokens.
LEMMA NothingPending == \A t, c \in Int : t <= c => MinOf(t + 0, c) = t
BY DEF MinOf

-----------------------------------------------------------------------------
\* The level of the abstract bucket: what a look at the limiter would find.
Level == IF limit > 0 THEN Refilled ELSE 0

\* The two readings of the arithmetic are the same.
LEMMA SameArithmetic ==
  /\ \A a, b : Bucket!MinOf(a, b) = MinOf(a, b)
  /\ \A t, old, new : Bucket!Scale(t, old, new) = Scale(t, old, new)
BY DEF Bucket!MinOf, MinOf, Bucket!Scale, Scale

\* A new limiter is a full bucket.
LEMMA BucketInit == LimiterInit => Bucket!Init
<1> SUFFICES ASSUME LimiterInit PROVE Bucket!Init
  OBVIOUS
<1>1. limit \in Nat /\ Burst \in Nat /\ limit * Burst \in Nat
  BY ConstantsAssumption, SMT DEF LimiterInit
<1>2. limit = 0 => limit * Burst = 0
  BY <1>1, SMT
<1>3. QED
  BY <1>1, <1>2 DEF LimiterInit, Bucket!Init, Refilled, MinOf

\* Every step of the limiter is a step of the bucket, or leaves it unchanged.
LEMMA BucketStep == RateInv /\ RateInv' /\ [LimiterNext]_limiterVars => [Bucket!Next]_<<limit, Level>>
<1> SUFFICES ASSUME RateInv, RateInv', [LimiterNext]_limiterVars, ~UNCHANGED <<limit, Level>> PROVE Bucket!Next
  OBVIOUS
<1> USE ConstantsAssumption
<1>t. /\ limit \in Nat /\ tokens \in Int /\ capacity \in Nat /\ pending \in Nat
      /\ limit' \in Nat /\ tokens' \in Int /\ capacity' \in Nat /\ pending' \in Nat
      /\ limit \in Limits /\ limit' \in Limits /\ Burst \in Nat
  BY DEF RateInv, TypeOK
<1>r. Refilled \in Int /\ Refilled <= capacity /\ tokens <= Refilled
  BY RefilledFits DEF RateInv
<1>d. limit > 0 => -limit < tokens /\ capacity = limit * Burst
  BY DEF RateInv, DebtBounded
<1>d1. limit' > 0 => -limit' < tokens' /\ capacity' = limit' * Burst
  BY DEF RateInv, DebtBounded
\* A step that only looks changes nothing.
<1>l. ASSUME tokens' = Refilled, pending' = 0, limit' = limit, capacity' = capacity
      PROVE  FALSE
  BY <1>l, <1>t, <1>r DEF Level, Refilled, MinOf
\* Taking tokens is a grant.
<1>g. ASSUME NEW c \in Callers, NEW b \in Sizes \cup {0}, Take(c, b), limit > 0 => b - Refilled < limit
      PROVE  Bucket!Next
  <2>1. b \in Nat /\ tokens' = Refilled - b /\ pending' = 0 /\ limit' = limit /\ capacity' = capacity
    BY <1>g DEF Take
  <2>2. Refilled' = Refilled - b
    BY <2>1, <1>t, <1>r DEF Refilled, MinOf
  <2>3. limit > 0
    BY <2>1, <1>t DEF Level
  <2>4. b # 0
    BY <2>1, <2>2, <1>r DEF Level
  <2>5. b \in Sizes
    BY <2>4
  <2>6. Bucket!Grant(b)
    BY <2>1, <2>2, <2>3, <1>g DEF Bucket!Grant
  <2>7. QED
    BY <2>5, <2>6 DEF Bucket!Next
<1>b. \A c \in Callers : call[c].bytes \in Sizes \cup {0} /\ call[c].bytes \in Nat
  <2>1. \A x \in Sizes \cup {0} : x \in Nat
    OBVIOUS
  <2>2. QED
    BY <2>1 DEF RateInv, TypeOK
<1>1. CASE Tick
  <2>1. limit' = limit /\ tokens' = tokens /\ capacity' = capacity /\ pending' = Accrued
    BY <1>1 DEF Tick
  <2>2. limit > 0
    BY <2>1, <1>t DEF Level
  <2>3. Refilled' = MinOf(Refilled + limit, limit * Burst)
    BY <2>1, <2>2, <1>t, <1>d DEF Refilled, Accrued, MinOf
  <2>4. QED
    BY <2>1, <2>2, <2>3, SameArithmetic DEF Bucket!Next, Bucket!Tick
<1>2. ASSUME NEW c \in Callers, CallerStep(c) \/ WaitAgain(c)
      PROVE  Bucket!Next
  <2>1. CASE AcquireDisabled(c)
    BY <2>1 DEF AcquireDisabled, bucket, Level, Refilled
  <2>2. CASE AcquireGranted(c)
    <3>1. ASSUME limit > 0, call[c].bytes > Refilled PROVE call[c].bytes - Refilled < limit
      <4>1. (call[c].bytes - Refilled) \div limit = 0
        BY <3>1, <2>2, <1>b, <1>r, <1>t DEF AcquireGranted, WaitTime
      <4>2. call[c].bytes - Refilled \in Nat
        BY <3>1, <1>b, <1>r
      <4>3. QED
        BY <4>1, <4>2, <3>1, <1>t, QuotientZero
    <3>2. limit > 0 => call[c].bytes - Refilled < limit
      BY <3>1, <1>b, <1>r, <1>t
    <3>3. QED
      BY <3>2, <2>2, <1>b, <1>g DEF AcquireGranted
  <2>3. CASE AcquireWaits(c) \/ WaitAgain(c)
    BY <2>3, <1>l DEF AcquireWaits, WaitAgain
  <2>4. CASE TryAcquireLocked(c)
    <3>1. CASE Refilled >= call[c].bytes
      <4>1. limit > 0 => call[c].bytes - Refilled < limit
        BY <3>1, <1>b, <1>r, <1>t
      <4>2. Take(c, call[c].bytes)
        BY <3>1, <2>4 DEF TryAcquireLocked
      <4>3. QED
        BY <4>1, <4>2, <1>b, <1>g
    <3>2. CASE ~(Refilled >= call[c].bytes)
      BY <3>2, <2>4, <1>l DEF TryAcquireLocked
    <3>3. QED
      BY <3>1, <3>2
  <2>5. QED
    BY <1>2, <2>1, <2>2, <2>3, <2>4 DEF CallerStep
<1>3. ASSUME NEW c \in Callers, NEW b \in Sizes, Acquire(c, b) \/ TryAcquire(c, b)
      PROVE  Bucket!Next
  BY <1>3 DEF Acquire, TryAcquire, bucket, Level, Refilled
<1>4. ASSUME NEW k \in Controllers, ControllerStep(k)
      PROVE  Bucket!Next
  <2>1. ASSUME NEW new \in Limits, SetLimit(new) PROVE Bucket!SetLimit
    <3>1. limit' = new /\ pending' = 0 /\ new \in Nat
      BY <2>1 DEF SetLimit
    <3>2. CASE ~(limit > 0 /\ new > 0)
      <4>1. CASE new > 0
        <5>1. tokens' = new * Burst /\ capacity' = new * Burst
          BY <2>1, <3>2, <4>1 DEF SetLimit, Scaled
        <5>2. Level' = new * Burst
          BY <5>1, <3>1, <4>1, <1>t DEF Level, Refilled, MinOf
        <5>3. QED
          BY <5>2, <3>1, <3>2, <1>t DEF Bucket!SetLimit, Level
      <4>2. CASE new = 0
        <5>1. new * Burst = 0
          BY <4>2, <1>t, SMT
        <5>2. QED
          BY <5>1, <4>2, <3>1, <1>t DEF Bucket!SetLimit
      <4>3. QED
        BY <4>1, <4>2, <3>1
    <3>3. CASE limit > 0 /\ new > 0
      <4>1. capacity > 0
        BY <3>3, <1>d, <1>t, ProductBelow, SMT
      <4>2. /\ tokens' = MinOf(Scale(tokens, capacity, new * Burst), new * Burst)
            /\ capacity' = new * Burst
        BY <2>1, <3>3, <4>1 DEF SetLimit, Scaled
      <4>3. Scale(tokens, capacity, new * Burst) = Scale(tokens, limit, new)
        BY <3>3, <3>1, <1>d, <1>t, ScaleByLimits
      <4>4. /\ Scale(tokens, limit, new) \in Int /\ Scale(Refilled, limit, new) \in Int
            /\ Scale(tokens, limit, new) <= Scale(Refilled, limit, new)
        BY <3>3, <3>1, <1>r, <1>t, ScaleMonotone
      <4>5. tokens' <= Scale(Refilled, limit, new) /\ tokens' <= capacity'
        <5>1. new * Burst \in Nat
          BY <3>1, <1>t, SMT
        <5>2. QED
          BY <5>1, <4>2, <4>3, <4>4 DEF MinOf
      <4>6. Refilled' = tokens'
        <5>1. tokens' \in Int /\ capacity' \in Int /\ pending' = 0
          BY <3>1, <1>t
        <5>2. tokens' <= capacity'
          BY <4>5
        <5>3. Refilled' = MinOf(tokens' + 0, capacity')
          BY <5>1, Zenon DEF Refilled
        <5>4. QED
          BY <5>1, <5>2, <5>3, NothingPending, Zenon
      <4>7. QED
        BY <4>5, <4>6, <3>1, <3>3, <1>t, <1>d1, SameArithmetic DEF Bucket!SetLimit
    <3>4. QED
      BY <3>2, <3>3
  <2>2. CASE Disable
    BY <2>2 DEF Disable, Level, Refilled
  <2>3. CASE EnableCheck(k)
    BY <2>3 DEF EnableCheck, bucket, Level, Refilled
  <2>4. CASE EnableLocked(k)
    <3>1. limit' = limit /\ tokens' = tokens /\ capacity' = capacity /\ pending' = 0
      BY <2>4 DEF EnableLocked
    <3>2. limit > 0
      BY <3>1, <1>t DEF Level
    <3>3. Refilled' <= Refilled /\ -limit < Refilled'
      BY <3>1, <3>2, <1>t, <1>r, <1>d DEF Refilled, MinOf
    <3>4. QED
      BY <3>1, <3>2, <3>3 DEF Bucket!Next, Bucket!Forget
  <2>5. CASE Reset
    <3>1. limit' = limit /\ tokens' = capacity /\ capacity' = capacity /\ pending' = 0
      BY <2>5 DEF Reset
    <3>2. limit > 0
      BY <3>1, <1>t DEF Level
    <3>3. Refilled' = limit * Burst
      BY <3>1, <3>2, <1>t, <1>d DEF Refilled, MinOf
    <3>4. QED
      BY <3>1, <3>2, <3>3 DEF Bucket!Next, Bucket!Refill
  <2>6. CASE AvailableTokens
    BY <2>6, <1>l DEF AvailableTokens
  <2>7. QED
    BY <1>4, <2>1, <2>2, <2>3, <2>4, <2>5, <2>6 DEF ControllerStep, Bucket!Next
<1>5. CASE UNCHANGED limiterVars
  BY <1>5 DEF limiterVars, bucket, Level, Refilled
<1>6. QED
  BY <1>1, <1>2, <1>3, <1>4, <1>5 DEF LimiterNext

(* A bucket refilled only when a thread looks at it, with waiters timing    *)
(* out, settings changing and enable, set_limit and reset restarting the    *)
(* clock, implements the bucket that gains its tokens at every tick.        *)
THEOREM LimiterImplementsBucket == LimiterSpec => ImplementsTokenBucket
<1>1. RateInv /\ RateInv' /\ [LimiterNext]_limiterVars => [Bucket!Next]_<<limit, IF limit > 0 THEN Refilled ELSE 0>>
  BY BucketStep DEF Level
<1>2. QED
  BY <1>1, BucketInit, RateAlways, PTL DEF LimiterSpec, ImplementsTokenBucket, Bucket!Spec

-----------------------------------------------------------------------------
(* The messages: what was received and what waits are numbered in turn.    *)
InTurn ==
  /\ heard \in Nat /\ got \in Seq(Nat) /\ queue \in Seq(Nat)
  /\ Len(got) + Len(queue) = heard
  /\ \A i \in 1..Len(got) : got[i] = i
  /\ \A i \in 1..Len(queue) : queue[i] = Len(got) + i

LEMMA InitInTurn == Init => InTurn
BY EmptySeq DEF Init, InTurn

LEMMA FetchKeepsInTurn ==
  ASSUME InTurn, queue # <<>>, NEW t \in Threads, Fetches(t), heard' = heard
  PROVE  InTurn'
<1> DEFINE g == Len(got)
<1> DEFINE q == Len(queue)
<1>1. /\ g \in Nat /\ q \in Nat \ {0} /\ heard \in Nat /\ g + q = heard /\ Head(queue) = queue[1]
      /\ \A i \in 1..g : got[i] = i
      /\ \A i \in 1..q : queue[i] = g + i
  BY HeadTailProperties, EmptySeq, LenProperties DEF InTurn
<1>2. /\ queue' \in Seq(Nat) /\ Len(queue') = q - 1
      /\ \A i \in 1..(q - 1) : queue'[i] = queue[i + 1]
  BY HeadTailProperties DEF InTurn, Fetches
<1>3. Head(queue) = g + 1 BY <1>1
<1>4. /\ got' \in Seq(Nat) /\ Len(got') = g + 1
      /\ \A i \in 1..g : got'[i] = got[i]
      /\ got'[g + 1] = g + 1
  BY <1>1, <1>3, AppendProperties DEF InTurn, Fetches
<1> HIDE DEF g, q
<1>5. \A i \in 1..(g + 1) : got'[i] = i BY <1>1, <1>4
<1>6. \A i \in 1..(q - 1) : queue'[i] = (g + 1) + i
  <2>1. \A i \in 1..(q - 1) : i + 1 \in 1..q BY <1>1
  <2>2. QED BY <1>1, <1>2, <2>1
<1>7. (g + 1) + (q - 1) = heard BY <1>1
<1>8. QED BY <1>1, <1>2, <1>4, <1>5, <1>6, <1>7 DEF InTurn

LEMMA ArrivalKeepsInTurn == InTurn /\ Arrives => InTurn'
<1> SUFFICES ASSUME InTurn, Arrives PROVE InTurn' OBVIOUS
<1> DEFINE g == Len(got)
<1> DEFINE q == Len(queue)
<1>1. /\ g \in Nat /\ q \in Nat /\ heard \in Nat /\ g + q = heard
      /\ \A i \in 1..q : queue[i] = g + i
  BY LenProperties DEF InTurn
<1>2. /\ queue' \in Seq(Nat) /\ Len(queue') = q + 1
      /\ \A i \in 1..q : queue'[i] = queue[i]
      /\ queue'[q + 1] = heard + 1
  BY <1>1, AppendProperties DEF InTurn, Arrives
<1>3. got' = got /\ heard' = heard + 1 /\ got \in Seq(Nat) /\ \A i \in 1..g : got[i] = i
  BY DEF Arrives, InTurn
<1> HIDE DEF q
<1>4. \A i \in 1..(q + 1) : queue'[i] = g + i BY <1>1, <1>2
<1>5. g + (q + 1) = heard' BY <1>1, <1>3
<1>6. QED BY <1>1, <1>2, <1>3, <1>4, <1>5 DEF InTurn

LEMMA NextKeepsInTurn == InTurn /\ [Next]_vars => InTurn'
<1> SUFFICES ASSUME InTurn, [Next]_vars PROVE InTurn' OBVIOUS
<1>0. UNCHANGED <<queue, got, heard>> => InTurn' BY DEF InTurn
<1>1. ASSUME NEW t \in Threads, Application(t) PROVE InTurn'
  BY <1>0, <1>1
  DEF Application, Connect, ConnectWith0rtt, Disconnect, Send, Receive, MigrateTo, StartNetworkMonitoring,
      StopNetworkMonitoring
<1>2. ASSUME NEW t \in Threads, ReceiveNow(t) \/ Await(t) PROVE InTurn'
  <2>1. heard' = heard /\ (UNCHANGED <<queue, got>> \/ (queue # <<>> /\ Fetches(t)))
    BY <1>2 DEF ReceiveNow, Await, InTurn
  <2>2. QED BY <1>0, <2>1, FetchKeepsInTurn
<1>3. ASSUME NEW t \in Threads, Step(t), ~ReceiveNow(t), ~Await(t) PROVE InTurn'
  BY <1>0, <1>3
  DEF Step, Recheck, Begin, Start, SeesUp, ConnectTimesOut, Conclude, Judge, SendData, Stop, ResetConnection,
      ReceiveTimesOut, Migrates, Migrated, Joins
<1>4. CASE (\E t \in Threads : Moving(t)) \/ Watching \/ Paths \/ Tickets
  BY <1>0, <1>4 DEF Moving, Watching, Paths, Tickets, transportVars
<1>5. CASE Network BY <1>0, <1>5, ArrivalKeepsInTurn DEF Network, ComesUp, PeerLeaves
<1>6. CASE Restart BY <1>6, EmptySeq DEF Restart, InTurn
<1>7. CASE UNCHANGED vars BY <1>0, <1>7 DEF vars, transportVars
<1>8. QED BY <1>1, <1>2, <1>3, <1>4, <1>5, <1>6, <1>7 DEF Next

(* receive hands out the messages in the order in which the callback was   *)
(* given them, each once and none left out: the deque and its mutex, also  *)
(* over calls that end without one.                                        *)
THEOREM MessagesKeepTheirOrder == Spec => []DeliveredInOrder
<1>1. InTurn => DeliveredInOrder
  <2> SUFFICES ASSUME InTurn PROVE got \o queue = [i \in 1..heard |-> i] BY DEF DeliveredInOrder
  <2> USE DEF InTurn
  <2> DEFINE s == got \o queue
  <2>1. Len(got) \in Nat /\ Len(queue) \in Nat BY LenProperties
  <2>2. /\ s \in Seq(Nat) /\ Len(s) = heard
        /\ \A i \in 1..heard : s[i] = IF i <= Len(got) THEN got[i] ELSE queue[i - Len(got)]
    BY ConcatProperties
  <2>3. \A i \in 1..heard : s[i] = i
    <3>1. SUFFICES ASSUME NEW i \in 1..heard PROVE s[i] = i OBVIOUS
    <3>2. CASE i <= Len(got) BY <2>1, <2>2, <3>2
    <3>3. CASE i > Len(got)
      <4>1. i - Len(got) \in 1..Len(queue) BY <2>1, <3>3
      <4>2. QED BY <2>1, <2>2, <3>3, <4>1
    <3>4. QED BY <2>1, <3>2, <3>3
  <2>4. s = [i \in 1..Len(s) |-> s[i]] BY <2>2, LenProperties
  <2> HIDE DEF s
  <2>5. QED BY <2>2, <2>3, <2>4 DEF s
<1>2. QED BY <1>1, InitInTurn, NextKeepsInTurn, PTL DEF Spec

-----------------------------------------------------------------------------
(* The tickets.  A number stands for one ticket of one server, wherever it *)
(* is kept, so that giving up what the server has now gives up the ticket  *)
(* it rejected; and a store that is not dirty has all valid tickets of the *)
(* file, so that loading the file brings nothing back.                     *)
OpFields == {"pc", "s", "n", "early", "data", "p"}

Stamped(f) == \A s \in DOMAIN f : f[s].n \in 1..issued /\ f[s].expires \in Nat

\* The ticket of this number, if it is there, is the server's.
Only(f, n, s)   == \A r \in DOMAIN f : f[r].n = n => r = s
OneHolder(f, g) == \A s \in DOMAIN f : Only(g, f[s].n, s)

Claims ==
  /\ op = [t \in Threads |-> op[t]]
  /\ \A t \in Threads : /\ DOMAIN op[t] = OpFields
                        /\ op[t].n \in 0..issued
                        /\ op[t].n # 0 => Only(tickets, op[t].n, op[t].s) /\ Only(disk, op[t].n, op[t].s)

Numbered ==
  /\ now \in Nat /\ issued \in Nat /\ rejected \subseteq 1..issued
  /\ Stamped(tickets) /\ Stamped(disk)
  /\ OneHolder(tickets, tickets) /\ OneHolder(tickets, disk)
  /\ OneHolder(disk, tickets) /\ OneHolder(disk, disk)
  /\ Claims

InSync ==
  /\ ~conf.file => DOMAIN disk = {}
  /\ ~forgotten => \A s \in DOMAIN tickets : tickets[s].n \notin rejected
  /\ ~forgotten /\ ~dirty =>
       \A s \in DOMAIN disk : IsValid(disk[s]) => s \in DOMAIN tickets /\ tickets[s].n = disk[s].n

RInv == Numbered /\ InSync

LEMMA InitRInv == Init => RInv
<1> SUFFICES ASSUME Init PROVE RInv OBVIOUS
<1> USE DEF Init, StoreInit
<1>1. DOMAIN tickets = {} /\ DOMAIN disk = {} BY DEF NoTickets
<1>2. \A t \in Threads : op[t].n = 0 /\ DOMAIN op[t] = OpFields BY DEF Idle, OpFields
<1>3. Numbered BY <1>1, <1>2 DEF Numbered, Claims, Stamped, OneHolder, Only
<1>4. InSync BY <1>1 DEF InSync
<1>5. QED BY <1>3, <1>4 DEF RInv

\* Every ticket of f was one of the store or of the file.
Known(f) == \A s \in DOMAIN f : \/ s \in DOMAIN tickets /\ f[s] = tickets[s]
                                \/ s \in DOMAIN disk /\ f[s] = disk[s]

\* A thread claims what it claimed, or the ticket its server has now, or nothing.
ClaimStays(t) ==
  /\ DOMAIN op'[t] = OpFields
  /\ \/ op'[t].n = 0
     \/ op'[t].n = op[t].n /\ op'[t].s = op[t].s
     \/ op'[t].s \in DOMAIN tickets /\ op'[t].n = tickets[op'[t].s].n

\* No new ticket, no new number.
LEMMA KnownKeepsNumbered ==
  ASSUME Numbered, issued' = issued, now' \in Nat, rejected' \subseteq 1..issued,
         Known(tickets'), Known(disk'),
         op' = [t \in Threads |-> op'[t]], \A t \in Threads : ClaimStays(t)
  PROVE  Numbered'
<1>1. \A s \in DOMAIN tickets' : \/ s \in DOMAIN tickets /\ tickets'[s] = tickets[s]
                                 \/ s \in DOMAIN disk /\ tickets'[s] = disk[s]
  BY DEF Known
<1>2. \A s \in DOMAIN disk' : \/ s \in DOMAIN tickets /\ disk'[s] = tickets[s]
                              \/ s \in DOMAIN disk /\ disk'[s] = disk[s]
  BY DEF Known
<1>3. Stamped(tickets)' /\ Stamped(disk)' BY <1>1, <1>2 DEF Numbered, Stamped
<1>4. \A n, s : Only(tickets, n, s) /\ Only(disk, n, s) => Only(tickets', n, s) /\ Only(disk', n, s)
  BY <1>1, <1>2 DEF Only
<1>5. \A s \in DOMAIN tickets : Only(tickets, tickets[s].n, s) /\ Only(disk, tickets[s].n, s)
  BY DEF Numbered, OneHolder
<1>6. \A s \in DOMAIN disk : Only(tickets, disk[s].n, s) /\ Only(disk, disk[s].n, s)
  BY DEF Numbered, OneHolder
<1>7. /\ \A s \in DOMAIN tickets' : Only(tickets', tickets'[s].n, s) /\ Only(disk', tickets'[s].n, s)
      /\ \A s \in DOMAIN disk' : Only(tickets', disk'[s].n, s) /\ Only(disk', disk'[s].n, s)
  BY <1>1, <1>2, <1>4, <1>5, <1>6
<1>8. \A t \in Threads : op'[t].n # 0 => Only(tickets', op'[t].n, op'[t].s) /\ Only(disk', op'[t].n, op'[t].s)
  <2>1. SUFFICES ASSUME NEW t \in Threads, op'[t].n # 0
                 PROVE  Only(tickets, op'[t].n, op'[t].s) /\ Only(disk, op'[t].n, op'[t].s)
    BY <1>4
  <2>2. QED BY <1>5, <2>1 DEF ClaimStays, Numbered, Claims
<1>9. \A t \in Threads : op'[t].n \in 0..issued /\ DOMAIN op'[t] = OpFields
  BY DEF ClaimStays, Numbered, Claims, Stamped
<1>10. QED BY <1>3, <1>7, <1>8, <1>9 DEF Numbered, OneHolder, Claims, Only

\* What a call of the store that gives no ticket does to tickets, file and clock.
Quietly ==
  /\ issued' = issued /\ now' \in Nat /\ rejected' \subseteq 1..issued
  /\ Known(tickets') /\ Known(disk') /\ InSync'

LEMMA RetrieveIsQuiet ==
  ASSUME RInv, conf' = conf, NEW s, Retrieve(conf.file, s)
  PROVE  Quietly
<1> USE DEF Retrieve, RInv, Numbered
<1>1. \/ tickets' = tickets /\ (~dirty' => ~dirty) /\ disk' = disk
      \/ tickets' = Erased(s) /\ disk' = disk /\ (conf.file => dirty')
  BY DEF Drops
<1>2. \A r \in DOMAIN tickets' : r \in DOMAIN tickets /\ tickets'[r] = tickets[r]
  BY <1>1 DEF Erased, Restricted
<1>3. InSync' BY <1>1, <1>2 DEF InSync, IsValid
<1>4. QED BY <1>2, <1>3 DEF Quietly, Known

LEMMA DiscardIsQuiet ==
  ASSUME RInv, conf' = conf, NEW s, Discard(conf.file, s), rejected' \subseteq 1..issued,
         \A r \in DOMAIN tickets : tickets[r].n \in rejected' => r = s \/ tickets[r].n \in rejected
  PROVE  Quietly
<1> USE DEF Discard, RInv, Numbered
<1>1. \A r \in DOMAIN tickets' : r \in DOMAIN tickets /\ r # s /\ tickets'[r] = tickets[r]
  BY DEF Erased, Restricted
<1>2. \A r \in DOMAIN tickets : r # s => r \in DOMAIN tickets'
  BY DEF Erased, Restricted
<1>3. InSync'
  <2>1. ~conf.file => DOMAIN disk = {} BY DEF InSync
  <2>2. ~dirty' => ~dirty /\ (conf.file => s \notin DOMAIN tickets) OBVIOUS
  <2>3. UNCHANGED <<conf, now, disk, forgotten>> OBVIOUS
  <2>4. ~forgotten => \A r \in DOMAIN tickets' : tickets'[r].n \notin rejected' BY <1>1 DEF InSync
  <2>5. ASSUME ~forgotten, ~dirty', NEW r \in DOMAIN disk, IsValid(disk[r])
        PROVE  r \in DOMAIN tickets' /\ tickets'[r].n = disk[r].n
    BY <1>1, <1>2, <2>1, <2>2, <2>5 DEF InSync
  <2> HIDE DEF Discard
  <2>6. QED BY <2>1, <2>3, <2>4, <2>5 DEF InSync, IsValid
<1>4. QED BY <1>1, <1>3 DEF Quietly, Known

LEMMA SomeExpireIsQuiet ==
  ASSUME RInv, conf' = conf, CleanupExpired(conf.file) \/ Clear(conf.file)
  PROVE  Quietly
<1> USE DEF RInv, Numbered
<1>1. \A r \in DOMAIN tickets' : r \in DOMAIN tickets /\ tickets'[r] = tickets[r]
  BY DEF CleanupExpired, Clear, NoTickets, Restricted
<1>2. UNCHANGED <<now, disk, issued, rejected, forgotten>> /\ (conf.file => dirty')
  BY DEF CleanupExpired, Clear
<1>3. InSync' BY <1>1, <1>2 DEF InSync
<1>4. QED BY <1>1, <1>2, <1>3 DEF Quietly, Known

\* The file is read: what it holds and is valid are tickets the store has, or had when it forgot.
LEMMA LoadIsQuiet ==
  ASSUME RInv, conf' = conf, Load \/ Crashes
  PROVE  Quietly
<1> USE DEF RInv, Numbered
<1>1. /\ tickets' = Loaded /\ UNCHANGED <<now, disk, issued, rejected>>
      /\ forgotten' = (forgotten \/ dirty)
  BY DEF Load, Crashes
<1>2. DOMAIN tickets' = {s \in DOMAIN disk : IsValid(disk[s])} /\ \A s \in DOMAIN tickets' : tickets'[s] = disk[s]
  BY <1>1 DEF Loaded, Restricted
<1>3. InSync' BY <1>1, <1>2 DEF InSync, IsValid
<1>4. QED BY <1>1, <1>2, <1>3 DEF Quietly, Known

LEMMA EndIsQuiet ==
  ASSUME RInv, conf' = conf, conf.file, EndsWell(TRUE)
  PROVE  Quietly
<1> USE DEF RInv, Numbered
<1>1. UNCHANGED <<now, issued, rejected>> BY DEF EndsWell
<1>2. /\ DOMAIN tickets' = {s \in DOMAIN disk' : IsValid(disk'[s])}
      /\ \A s \in DOMAIN tickets' : tickets'[s] = disk'[s]
  BY DEF EndsWell, Restricted
<1>3. CASE dirty /\ \E S \in SUBSET DOMAIN tickets : disk' = Restricted(tickets, S) /\ UNCHANGED forgotten
  <2>1. forgotten' = forgotten /\ \A s \in DOMAIN disk' : s \in DOMAIN tickets /\ disk'[s] = tickets[s]
    BY <1>3 DEF Restricted
  <2>2. InSync' BY <1>1, <1>2, <2>1 DEF InSync, IsValid
  <2>3. QED BY <1>1, <1>2, <2>1, <2>2 DEF Quietly, Known
<1>4. CASE UNCHANGED disk /\ (forgotten' = TRUE \/ (forgotten' = forgotten /\ ~dirty))
  <2>1. InSync' BY <1>1, <1>2, <1>4 DEF InSync, IsValid
  <2>2. QED BY <1>1, <1>2, <1>4, <2>1 DEF Quietly, Known
<1>5. QED BY <1>3, <1>4 DEF EndsWell

LEMMA TickIsQuiet ==
  ASSUME RInv, conf' = conf, ClockTicks
  PROVE  Quietly
<1> USE DEF RInv, Numbered, ClockTicks
<1>1. \A s \in DOMAIN disk : IsValid(disk[s])' => IsValid(disk[s]) BY DEF IsValid, Stamped
<1>2. InSync' BY <1>1 DEF InSync
<1>3. QED BY <1>2 DEF Quietly, Known

\* A new ticket has a new number; the file gets what the store has now, or is left as it was.
LEMMA NewTicketKeepsRInv ==
  ASSUME RInv, conf' = conf, op' = op, NEW s, StoreTicket(conf.file, s)
  PROVE  RInv'
<1>1. PICK life \in Lifetimes, early \in BOOLEAN, kept \in Evicted :
        LET t   == NewTicket(life, early)
            new == [r \in DOMAIN kept \cup {s} |-> IF r = s THEN t ELSE kept[r]]
        IN tickets' = new /\ Saves(conf.file, new)
  BY DEF StoreTicket
<1> DEFINE t == NewTicket(life, early)
<1>2. t.n = issued + 1 /\ t.expires \in Nat BY StoreAssumption DEF NewTicket, RInv, Numbered
<1> HIDE DEF t
<1>3. \A r \in DOMAIN kept : r \in DOMAIN tickets /\ kept[r] = tickets[r]
  BY DEF Evicted, Erased, Restricted
<1>4. \A r \in DOMAIN tickets' : IF r = s THEN tickets'[r] = t ELSE r \in DOMAIN tickets /\ tickets'[r] = tickets[r]
  BY <1>1, <1>3 DEF t
<1>5. \/ disk' = disk /\ (conf.file => dirty')
      \/ conf.file /\ \A r \in DOMAIN disk' : r \in DOMAIN tickets' /\ disk'[r] = tickets'[r]
  BY <1>1 DEF Saves, Restricted
<1>6. \A r \in DOMAIN disk' : \/ r = s /\ disk'[r] = t
                              \/ r \in DOMAIN tickets /\ disk'[r] = tickets[r]
                              \/ r \in DOMAIN disk /\ disk'[r] = disk[r]
  BY <1>4, <1>5
<1>7. issued' = issued + 1 /\ UNCHANGED <<now, rejected, forgotten>> BY DEF StoreTicket
<1>8. issued \in Nat /\ now \in Nat /\ rejected \subseteq 1..issued BY DEF RInv, Numbered
<1>9. Stamped(tickets)' /\ Stamped(disk)'
  BY <1>2, <1>4, <1>6, <1>7, <1>8 DEF RInv, Numbered, Stamped
<1>10. \A r : \A n \in 0..issued : Only(tickets, n, r) /\ Only(disk, n, r) => Only(tickets', n, r) /\ Only(disk', n, r)
  <2>1. t.n \notin 0..issued BY <1>2, <1>8
  <2>2. QED BY <1>4, <1>6, <2>1 DEF Only
<1>11. Only(tickets', t.n, s) /\ Only(disk', t.n, s)
  <2>1. \A r \in DOMAIN tickets : tickets[r].n # t.n BY <1>2, <1>8 DEF RInv, Numbered, Stamped
  <2>2. \A r \in DOMAIN disk : disk[r].n # t.n BY <1>2, <1>8 DEF RInv, Numbered, Stamped
  <2>3. QED BY <1>4, <1>6, <2>1, <2>2 DEF Only
<1>12. /\ \A r \in DOMAIN tickets : tickets[r].n \in 0..issued /\ Only(tickets, tickets[r].n, r) /\ Only(disk, tickets[r].n, r)
       /\ \A r \in DOMAIN disk : disk[r].n \in 0..issued /\ Only(tickets, disk[r].n, r) /\ Only(disk, disk[r].n, r)
  BY <1>8 DEF RInv, Numbered, Stamped, OneHolder
<1>13. /\ \A r \in DOMAIN tickets' : Only(tickets', tickets'[r].n, r) /\ Only(disk', tickets'[r].n, r)
       /\ \A r \in DOMAIN disk' : Only(tickets', disk'[r].n, r) /\ Only(disk', disk'[r].n, r)
  BY <1>4, <1>6, <1>10, <1>11, <1>12
<1>14. Claims'
  <2>1. \A u \in Threads : op[u].n # 0 => Only(tickets', op[u].n, op[u].s) /\ Only(disk', op[u].n, op[u].s)
    BY <1>10 DEF RInv, Numbered, Claims
  <2>2. \A u \in Threads : op[u].n \in 0..issued' BY <1>7, <1>8 DEF RInv, Numbered, Claims
  <2>3. QED BY <2>1, <2>2 DEF RInv, Numbered, Claims, Only
<1>15. Numbered' BY <1>7, <1>8, <1>9, <1>13, <1>14 DEF Numbered, OneHolder, Only
<1>16. InSync'
  <2>1. t.n \notin rejected BY <1>2, <1>8
  <2>2. ~forgotten => \A r \in DOMAIN tickets' : tickets'[r].n \notin rejected
    BY <1>4, <2>1 DEF RInv, InSync
  <2>3. ~conf.file => DOMAIN disk' = {} BY <1>5 DEF RInv, InSync
  <2>4. ~dirty' => \A r \in DOMAIN disk' : r \in DOMAIN tickets' /\ disk'[r] = tickets'[r]
    BY <1>5 DEF RInv, InSync
  <2>5. QED BY <1>7, <2>2, <2>3, <2>4 DEF InSync
<1>17. QED BY <1>15, <1>16 DEF RInv

-----------------------------------------------------------------------------
LEMMA QuietKeepsRInv ==
  ASSUME RInv, Quietly, op' = [t \in Threads |-> op'[t]], \A t \in Threads : ClaimStays(t)
  PROVE  RInv'
BY KnownKeepsNumbered DEF RInv, Quietly

LEMMA UntouchedIsQuiet == RInv /\ UNCHANGED storeVars /\ conf' = conf => Quietly
BY DEF RInv, Numbered, Quietly, storeVars, InSync, Known, IsValid

\* Threads whose claims a step leaves alone.
LEMMA SameOps ==
  ASSUME Numbered, op' = op
  PROVE  op' = [t \in Threads |-> op'[t]] /\ \A t \in Threads : ClaimStays(t)
BY DEF Numbered, Claims, ClaimStays

\* A thread's call begins, goes on or ends.
LEMMA OneOp ==
  ASSUME Numbered, NEW t \in Threads, NEW o, op' = [op EXCEPT ![t] = o], DOMAIN o = OpFields,
         \/ o.n = 0
         \/ o.n = op[t].n /\ o.s = op[t].s
         \/ o.s \in DOMAIN tickets /\ o.n = tickets[o.s].n
  PROVE  op' = [u \in Threads |-> op'[u]] /\ \A u \in Threads : ClaimStays(u)
<1>1. \A u \in Threads : op'[u] = IF u = t THEN o ELSE op[u] BY DEF Numbered, Claims
<1>2. QED BY <1>1 DEF Numbered, Claims, ClaimStays

LEMMA OpReturns ==
  ASSUME Numbered, NEW t \in Threads, Returns(t)
  PROVE  op' = [u \in Threads |-> op'[u]] /\ \A u \in Threads : ClaimStays(u)
<1>1. DOMAIN Idle = OpFields /\ Idle.n = 0 BY DEF Idle, OpFields
<1>2. QED BY <1>1, OneOp DEF Returns

LEMMA OpGoes ==
  ASSUME Numbered, NEW t \in Threads, NEW pc, op' = [op EXCEPT ![t].pc = pc]
  PROVE  op' = [u \in Threads |-> op'[u]] /\ \A u \in Threads : ClaimStays(u)
<1> DEFINE o == [op[t] EXCEPT !.pc = pc]
<1>1. DOMAIN o = OpFields /\ o.n = op[t].n /\ o.s = op[t].s BY DEF Numbered, Claims, OpFields
<1>2. op' = [op EXCEPT ![t] = o] OBVIOUS
<1> HIDE DEF o
<1>3. QED BY <1>1, <1>2, OneOp

LEMMA NextKeepsRInv == RInv /\ [Next]_vars => RInv'
<1> SUFFICES ASSUME RInv, [Next]_vars PROVE RInv' OBVIOUS
<1>0. Numbered BY DEF RInv
<1> DEFINE Ops == op' = [u \in Threads |-> op'[u]] /\ \A u \in Threads : ClaimStays(u)
<1>1. ASSUME UNCHANGED storeVars, conf' = conf, Ops PROVE RInv'
  BY <1>1, UntouchedIsQuiet, QuietKeepsRInv
<1>2. ASSUME NEW t \in Threads, Application(t) PROVE RInv'
  <2>1. CASE \E s \in Servers : Connect(t, s)
    <3>1. PICK s \in Servers : Connect(t, s) BY <2>1
    <3> DEFINE o == [Idle EXCEPT !.pc = "begin", !.s = s]
    <3>2. DOMAIN o = OpFields /\ o.n = 0 BY DEF Idle, OpFields
    <3>3. op' = [op EXCEPT ![t] = o] BY <3>1 DEF Connect
    <3> HIDE DEF o
    <3>4. Ops BY <1>0, <3>2, <3>3, OneOp
    <3>5. UNCHANGED storeVars /\ conf' = conf BY <3>1 DEF Connect
    <3>6. QED BY <1>1, <3>4, <3>5
  <2>2. CASE \E s \in Servers : ConnectWith0rtt(t, s)
    <3>1. PICK s \in Servers : ConnectWith0rtt(t, s) BY <2>2
    <3> DEFINE o == [Idle EXCEPT !.pc = IF TicketFor(s) # 0 THEN "begin" ELSE "recheck", !.s = s,
                                 !.early = (TicketFor(s) # 0), !.data = TRUE]
    <3>2. DOMAIN o = OpFields /\ o.n = 0 BY DEF Idle, OpFields
    <3>3. op' = [op EXCEPT ![t] = o] BY <3>1 DEF ConnectWith0rtt
    <3> HIDE DEF o
    <3>4. Ops BY <1>0, <3>2, <3>3, OneOp
    <3>5. Retrieve(conf.file, s) /\ conf' = conf BY <3>1 DEF ConnectWith0rtt
    <3>6. QED BY <3>4, <3>5, RetrieveIsQuiet, QuietKeepsRInv
  <2>3. CASE Disconnect(t)
    <3>1. Ops BY <1>0, <2>3, OpGoes DEF Disconnect
    <3>2. QED BY <1>1, <2>3, <3>1 DEF Disconnect
  <2>4. CASE Send(t) \/ StartNetworkMonitoring(t)
    <3>1. Ops BY <1>0, <2>4, SameOps DEF Send, StartNetworkMonitoring
    <3>2. QED BY <1>1, <2>4, <3>1 DEF Send, StartNetworkMonitoring
  <2>5. CASE Receive(t)
    <3>1. Ops BY <1>0, <2>5, OpGoes DEF Receive
    <3>2. QED BY <1>1, <2>5, <3>1 DEF Receive
  <2>6. CASE \E p \in Names : MigrateTo(t, p)
    <3>1. PICK p \in Names : MigrateTo(t, p) BY <2>6
    <3> DEFINE o == [Idle EXCEPT !.pc = "lock", !.p = p]
    <3>2. DOMAIN o = OpFields /\ o.n = 0 BY DEF Idle, OpFields
    <3>3. op' = [op EXCEPT ![t] = o] BY <3>1 DEF MigrateTo
    <3> HIDE DEF o
    <3>4. Ops BY <1>0, <3>2, <3>3, OneOp
    <3>5. UNCHANGED storeVars /\ conf' = conf BY <3>1 DEF MigrateTo
    <3>6. QED BY <1>1, <3>4, <3>5
  <2>7. CASE StopNetworkMonitoring(t)
    <3>1. Ops BY <1>0, <2>7, OpGoes, SameOps DEF StopNetworkMonitoring
    <3>2. QED BY <1>1, <2>7, <3>1 DEF StopNetworkMonitoring
  <2>8. QED BY <1>2, <2>1, <2>2, <2>3, <2>4, <2>5, <2>6, <2>7 DEF Application
<1>3. ASSUME NEW t \in Threads, Step(t) PROVE RInv'
  <2>1. CASE Begin(t)
    <3> DEFINE o == [[op[t] EXCEPT !.pc = "start"] EXCEPT !.n = IF Quic THEN TicketFor(op[t].s) ELSE 0]
    <3>1. op' = [op EXCEPT ![t] = o] /\ conf' = conf BY <2>1 DEF Begin
    <3>2. DOMAIN [op[t] EXCEPT !.pc = "start"] = OpFields /\ [op[t] EXCEPT !.pc = "start"].s = op[t].s
      BY <1>0 DEF Numbered, Claims, OpFields
    <3>3. DOMAIN o = OpFields /\ o.s = op[t].s /\ o.n = (IF Quic THEN TicketFor(op[t].s) ELSE 0)
      BY <3>2 DEF OpFields
    <3> HIDE DEF o
    <3>4. o.n = 0 \/ (o.s \in DOMAIN tickets /\ o.n = tickets[o.s].n)
      BY <3>3 DEF TicketFor, Usable
    <3>5. Ops BY <1>0, <3>1, <3>3, <3>4, OneOp
    <3>6. Quietly
      BY <2>1, <3>1, RetrieveIsQuiet, UntouchedIsQuiet DEF Begin
    <3>7. QED BY <3>5, <3>6, QuietKeepsRInv
  <2>2. CASE Judge(t)
    <3>1. Ops BY <1>0, <2>2, OpReturns, OpGoes DEF Judge, Goes
    <3>2. CASE UNCHANGED storeVars BY <1>1, <2>2, <3>1, <3>2 DEF Judge
    <3>3. CASE On0rttRejected(conf.file, op[t].s, op[t].n)
      <4> DEFINE s == op[t].s
      <4> DEFINE n == op[t].n
      <4>1. Discard(conf.file, s) /\ rejected' = rejected \cup ({n} \ {0}) /\ conf' = conf
        BY <2>2, <3>3 DEF On0rttRejected, Judge
      <4>2. rejected' \subseteq 1..issued BY <1>0, <4>1 DEF Numbered, Claims
      <4>3. \A r \in DOMAIN tickets : tickets[r].n \in rejected' => r = s \/ tickets[r].n \in rejected
        BY <1>0, <4>1 DEF Numbered, Claims, Only
      <4>4. QED BY <3>1, <4>1, <4>2, <4>3, DiscardIsQuiet, QuietKeepsRInv
    <3>4. QED BY <2>2, <3>2, <3>3 DEF Judge
  <2>3. CASE Step(t) /\ ~Begin(t) /\ ~Judge(t)
    <3>1. UNCHANGED storeVars /\ conf' = conf /\ (Returns(t) \/ \E pc : op' = [op EXCEPT ![t].pc = pc])
      BY <2>3 DEF Step, Recheck, Start, SeesUp, ConnectTimesOut, Conclude, SendData, Stop, ResetConnection, ReceiveNow, Await,
                  ReceiveTimesOut, Migrates, Migrated, Joins, Fetches, Goes
    <3>2. Ops BY <1>0, <3>1, OpReturns, OpGoes
    <3>3. QED BY <1>1, <3>1, <3>2
  <2>4. QED BY <1>3, <2>1, <2>2, <2>3
<1>4. CASE (\E t \in Threads : Moving(t)) \/ Watching \/ Network \/ Paths
  <2>1. UNCHANGED storeVars /\ conf' = conf /\ op' = op
    BY <1>4 DEF Moving, Watching, Network, ComesUp, PeerLeaves, Arrives, Paths, transportVars
  <2>2. QED BY <1>0, <1>1, <2>1, SameOps
<1>5. CASE Tickets
  <2>1. op' = op /\ conf' = conf BY <1>5 DEF Tickets, transportVars
  <2>2. Ops BY <1>0, <2>1, SameOps
  <2>3. CASE \E s \in Servers : StoreTicket(conf.file, s) BY <2>1, <2>3, NewTicketKeepsRInv
  <2>4. CASE \E s \in Servers : RemoveTicket(conf.file, s)
    <3>1. PICK s \in Servers : Discard(conf.file, s) /\ rejected' = rejected BY <2>4 DEF RemoveTicket
    <3>2. Quietly BY <1>0, <2>1, <3>1, DiscardIsQuiet DEF Numbered
    <3>3. QED BY <2>2, <3>2, QuietKeepsRInv
  <2>5. CASE CleanupExpired(conf.file) \/ Clear(conf.file) \/ Load \/ ClockTicks
    BY <2>1, <2>2, <2>5, SomeExpireIsQuiet, LoadIsQuiet, TickIsQuiet, QuietKeepsRInv
  <2>6. QED BY <1>5, <2>3, <2>4, <2>5 DEF Tickets, StoreCall
<1>6. CASE Restart
  <2>1. conf' = conf /\ conf.file /\ (EndsWell(TRUE) \/ Crashes) BY <1>6 DEF Restart
  <2>2. Quietly BY <2>1, EndIsQuiet, LoadIsQuiet
  <2>3. op' = [t \in Threads |-> Idle] BY <1>6 DEF Restart
  <2>4. Ops BY <2>3 DEF ClaimStays, Idle, OpFields
  <2>5. QED BY <2>2, <2>4, QuietKeepsRInv
<1>7. CASE UNCHANGED vars BY <1>0, <1>1, <1>7, SameOps DEF vars, transportVars
<1>8. QED BY <1>2, <1>3, <1>4, <1>5, <1>6, <1>7 DEF Next

(* A ticket that a server rejected is not in the store again, whatever is  *)
(* saved, read back, evicted and given meanwhile, unless the process ended *)
(* or read the file before the removal was saved (on_0rtt_rejected,        *)
(* file_session_store).                                                    *)
THEOREM RejectedTicketsAreGivenUp == Spec => []RejectedGivenUp
<1>1. RInv => RejectedGivenUp BY DEF RInv, InSync, RejectedGivenUp
<1>2. QED BY <1>1, InitRInv, NextKeepsRInv, PTL DEF Spec

-----------------------------------------------------------------------------
(* The statistics.  While the counter was not set back, the bytes of the   *)
(* samples ascend and none exceeds the counter.                            *)
SampleType == [at : Int, bytes : Nat]
MeterPlace == [at : {"idle", "first", "clear", "check", "sample"}, now : Int]

Ascend(s) == \A i, j \in 1..Len(s) : i <= j => s[i].bytes <= s[j].bytes
Below(s, n) == \A i \in 1..Len(s) : s[i].bytes <= n

CollectorInv ==
  /\ transferred \in Nat /\ transferred < CounterWord
  /\ samples \in Seq(SampleType)
  /\ clock \in Int /\ last \in Int /\ started \in Int
  /\ meter \in [Meters -> MeterPlace]
  /\ ~mixed => Ascend(samples) /\ Below(samples, transferred)

LEMMA CollectorInitially == CollectorInit => CollectorInv
<1>1. <<>> \in Seq(SampleType) /\ Len(<<>>) = 0
  BY EmptySeq
<1>2. ASSUME CollectorInit PROVE CollectorInv
  <2>1. meter \in [Meters -> MeterPlace]
    BY <1>2 DEF CollectorInit, Unmetered, MeterPlace
  <2>2. transferred \in Nat /\ transferred < CounterWord
    BY <1>2, CollectorAssumption DEF CollectorInit
  <2>3. clock \in Int /\ last \in Int /\ started \in Int
    BY <1>2, CollectorAssumption DEF CollectorInit
  <2>4. samples = <<>> /\ samples \in Seq(SampleType) /\ Len(samples) = 0
    BY <1>1, <1>2 DEF CollectorInit
  <2>5. Ascend(samples) /\ Below(samples, transferred)
    BY <2>4 DEF Ascend, Below
  <2>6. QED
    BY <2>1, <2>2, <2>3, <2>4, <2>5 DEF CollectorInv
<1>3. QED
  BY <1>2

\* A sample of what the counter is now goes after the others, and the oldest may go.
LEMMA SampledAscend ==
  ASSUME NEW s \in Seq(SampleType), NEW x \in SampleType
  PROVE  /\ Trimmed(Append(s, x)) \in Seq(SampleType)
         /\ Ascend(s) /\ Below(s, x.bytes) =>
              Ascend(Trimmed(Append(s, x))) /\ Below(Trimmed(Append(s, x)), x.bytes)
<1> DEFINE a == Append(s, x)
           d == Len(a) - rate_window_size
<1>1. /\ a \in Seq(SampleType) /\ Len(a) = Len(s) + 1 /\ Len(s) \in Nat
      /\ \A i \in 1..Len(a) : a[i] = IF i <= Len(s) THEN s[i] ELSE x
  BY AppendProperties, LenProperties
<1>2. \A i \in 1..Len(s) : s[i] \in SampleType
  BY ElementOfSeq
<1>3. Ascend(s) /\ Below(s, x.bytes) => Ascend(a) /\ Below(a, x.bytes)
  <2> SUFFICES ASSUME Ascend(s), Below(s, x.bytes) PROVE Ascend(a) /\ Below(a, x.bytes)
    OBVIOUS
  <2>1. x.bytes \in Nat /\ \A i \in 1..Len(s) : s[i].bytes \in Nat
    BY <1>2 DEF SampleType
  <2>2. Below(a, x.bytes)
    BY <1>1, <2>1 DEF Below
  <2>3. Ascend(a)
    BY <1>1, <2>1 DEF Below, Ascend
  <2>4. QED
    BY <2>2, <2>3
<1> HIDE DEF a
<1>4. CASE Len(a) > rate_window_size
  <2>1. d \in Nat /\ d + 1 \in 1..(Len(a) + 1) /\ rate_window_size \in Nat
    BY <1>1, <1>4, CollectorAssumption
  <2>2. /\ SubSeq(a, d + 1, Len(a)) \in Seq(SampleType)
        /\ Len(SubSeq(a, d + 1, Len(a))) = rate_window_size
        /\ \A i \in 1..rate_window_size : SubSeq(a, d + 1, Len(a))[i] = a[d + i]
    <3>1. \A i \in (d + 1)..Len(a) : a[i] \in SampleType
      BY <1>1, <2>1, ElementOfSeq
    <3>2. Len(a) \in Nat
      BY <1>1
    <3> HIDE DEF d
    <3>3. d = Len(a) - rate_window_size
      BY DEF d
    <3>4. QED
      BY <1>1, <2>1, <3>1, <3>2, <3>3, SubSeqProperties, SMTT(30)
  <2>3. Trimmed(a) = SubSeq(a, d + 1, Len(a))
    BY <1>4 DEF Trimmed
  <2> DEFINE t == SubSeq(a, d + 1, Len(a))
  <2> HIDE DEF t, d
  <2>4. d = Len(a) - rate_window_size
    BY DEF d
  <2>5. Ascend(a) /\ Below(a, x.bytes) => Ascend(t) /\ Below(t, x.bytes)
    <3>1. Len(t) = rate_window_size /\ \A i \in 1..rate_window_size : t[i] = a[d + i] /\ d + i \in 1..Len(a)
      BY <2>1, <2>2, <2>4, <1>1 DEF t
    <3>2. ASSUME Below(a, x.bytes) PROVE Below(t, x.bytes)
      BY <3>1, <3>2 DEF Below
    <3>3. ASSUME Ascend(a) PROVE Ascend(t)
      <4> SUFFICES ASSUME NEW i \in 1..Len(t), NEW j \in 1..Len(t), i <= j PROVE t[i].bytes <= t[j].bytes
        BY DEF Ascend
      <4>1. d + i <= d + j
        BY <3>1, <2>1
      <4>2. QED
        BY <3>1, <3>3, <4>1 DEF Ascend
    <3>4. QED
      BY <3>2, <3>3
  <2>6. QED
    BY <1>3, <2>2, <2>3, <2>5 DEF t, a
<1>5. CASE ~(Len(a) > rate_window_size)
  BY <1>1, <1>3, <1>5 DEF Trimmed, a
<1>6. QED
  BY <1>4, <1>5

\* The samples of one step of a thread.
LEMMA CollectorStep == CollectorInv /\ [CollectorNext]_collectorVars => CollectorInv'
<1> SUFFICES ASSUME CollectorInv, [CollectorNext]_collectorVars PROVE CollectorInv'
  OBVIOUS
<1> USE DEF CollectorInv
<1>1. CASE ClockAdvances
  BY <1>1, CollectorAssumption DEF ClockAdvances
<1>2. ASSUME NEW t \in Meters, NEW w \in MeterPlace, meter' = [meter EXCEPT ![t] = w]
      PROVE meter' \in [Meters -> MeterPlace]
  BY <1>2
<1>3. ASSUME NEW t \in Meters, StartCollecting(t) PROVE CollectorInv'
  <2>1. meter' \in [Meters -> MeterPlace]
    <3>1. [at |-> "first", now |-> 0] \in MeterPlace
      BY DEF MeterPlace
    <3>2. meter' = [meter EXCEPT ![t] = [at |-> "first", now |-> 0]]
      BY <1>3 DEF StartCollecting, GoesTo
    <3>3. QED
      BY <1>2, <3>1, <3>2
  <2>2. QED
    BY <1>3, <2>1 DEF StartCollecting
<1>4. ASSUME NEW t \in Meters, FirstSample(t) PROVE CollectorInv'
  <2> DEFINE first == [at |-> started, bytes |-> 0]
  <2>1. meter' \in [Meters -> MeterPlace]
    <3>1. Unmetered \in MeterPlace
      BY DEF Unmetered, MeterPlace
    <3>2. meter' = [meter EXCEPT ![t] = Unmetered]
      BY <1>4 DEF FirstSample, Metered
    <3>3. QED
      BY <1>2, <3>1, <3>2
  <2>2. /\ first \in SampleType /\ samples' = <<first>>
        /\ <<first>> \in Seq(SampleType) /\ Len(<<first>>) = 1 /\ <<first>>[1] = first
    BY <1>4 DEF FirstSample, SampleType
  <2>3. Ascend(<<first>>) /\ Below(<<first>>, transferred)
    BY <2>2 DEF Ascend, Below
  <2> HIDE DEF first
  <2>4. QED
    BY <1>4, <2>1, <2>2, <2>3 DEF FirstSample, Ascend, Below
<1>5. ASSUME NEW t \in Meters, ResetCounters(t) PROVE CollectorInv'
  <2>1. meter' \in [Meters -> MeterPlace]
    <3>1. [at |-> "clear", now |-> 0] \in MeterPlace
      BY DEF MeterPlace
    <3>2. meter' = [meter EXCEPT ![t] = [at |-> "clear", now |-> 0]]
      BY <1>5 DEF ResetCounters, GoesTo
    <3>3. QED
      BY <1>2, <3>1, <3>2
  <2>2. transferred' = 0 /\ UNCHANGED <<samples, last, started, clock>>
    BY <1>5 DEF ResetCounters
  <2>3. ASSUME ~mixed' PROVE Ascend(samples') /\ Below(samples', transferred')
    <3>1. samples' = <<>>
      BY <1>5, <2>2, <2>3 DEF ResetCounters
    <3>2. Len(samples') = 0
      BY <3>1, EmptySeq
    <3>3. QED
      BY <3>2 DEF Ascend, Below
  <2>4. QED
    BY <2>1, <2>2, <2>3, CollectorAssumption DEF Ascend, Below
<1>6. ASSUME NEW t \in Meters, ClearSamples(t) PROVE CollectorInv'
  <2>1. meter' \in [Meters -> MeterPlace]
    <3>1. Unmetered \in MeterPlace
      BY DEF Unmetered, MeterPlace
    <3>2. meter' = [meter EXCEPT ![t] = Unmetered]
      BY <1>6 DEF ClearSamples, Metered
    <3>3. QED
      BY <1>2, <3>1, <3>2
  <2>2. <<>> \in Seq(SampleType) /\ Len(<<>>) = 0
    BY EmptySeq
  <2>3. samples' = <<>> /\ UNCHANGED <<transferred, last, started, clock>>
    BY <1>6 DEF ClearSamples
  <2>4. Ascend(samples') /\ Below(samples', transferred')
    BY <2>2, <2>3 DEF Ascend, Below
  <2>5. QED
    BY <2>1, <2>2, <2>3, <2>4 DEF Ascend, Below
<1>7. ASSUME NEW t \in Meters, NEW n \in Amounts, Record(t, n) PROVE CollectorInv'
  <2>1. meter' \in [Meters -> MeterPlace]
    <3>1. [at |-> "check", now |-> 0] \in MeterPlace
      BY DEF MeterPlace
    <3>2. meter' = [meter EXCEPT ![t] = [at |-> "check", now |-> 0]]
      BY <1>7 DEF Record, GoesTo
    <3>3. QED
      BY <1>2, <3>1, <3>2
  <2>2. \A i \in 1..Len(samples) : samples[i].bytes \in Nat
    <3>1. \A i \in 1..Len(samples) : samples[i] \in SampleType
      BY ElementOfSeq
    <3>2. QED
      BY <3>1 DEF SampleType
  <2>3. n \in Nat
    BY CollectorAssumption
  <2>4. /\ transferred' = transferred + n /\ transferred + n < CounterWord
        /\ UNCHANGED <<samples, last, started, clock>> /\ mixed' = mixed
    BY <1>7 DEF Record
  <2>5. Below(samples, transferred) => Below(samples, transferred + n)
    BY <2>2, <2>3 DEF Below
  <2>6. ~mixed' => Ascend(samples') /\ Below(samples', transferred')
    BY <2>4, <2>5 DEF Ascend, Below
  <2>7. QED
    BY <2>1, <2>3, <2>4, <2>6 DEF Ascend, Below
<1>8. ASSUME NEW t \in Meters, CheckInterval(t) PROVE CollectorInv'
  <2>1. meter' \in [Meters -> MeterPlace]
    <3>1. Unmetered \in MeterPlace /\ [at |-> "sample", now |-> clock] \in MeterPlace
      BY DEF Unmetered, MeterPlace
    <3>2. \/ meter' = [meter EXCEPT ![t] = Unmetered]
          \/ meter' = [meter EXCEPT ![t] = [at |-> "sample", now |-> clock]]
      BY <1>8 DEF CheckInterval, GoesTo, Metered
    <3>3. QED
      BY <1>2, <3>1, <3>2
  <2>2. QED
    BY <1>8, <2>1 DEF CheckInterval
<1>9. ASSUME NEW t \in Meters, Sample(t) PROVE CollectorInv'
  <2> DEFINE x == [at |-> meter[t].now, bytes |-> transferred]
  <2>1. meter' \in [Meters -> MeterPlace]
    <3>1. Unmetered \in MeterPlace
      BY DEF Unmetered, MeterPlace
    <3>2. meter' = [meter EXCEPT ![t] = Unmetered]
      BY <1>9 DEF Sample, Sampled, Metered
    <3>3. QED
      BY <1>2, <3>1, <3>2
  <2>2. x \in SampleType /\ x.bytes = transferred
    <3>1. meter[t].now \in Int
      BY DEF MeterPlace
    <3>2. QED
      BY <3>1 DEF SampleType
  <2>3. samples' = Trimmed(Append(samples, x))
    BY <1>9 DEF Sample, Sampled
  <2> HIDE DEF x
  <2>4. /\ samples' \in Seq(SampleType)
        /\ Ascend(samples) /\ Below(samples, x.bytes) => Ascend(samples') /\ Below(samples', x.bytes)
    BY <2>2, <2>3, SampledAscend
  <2>5. QED
    <3>1. last' = meter[t].now /\ UNCHANGED <<transferred, started, clock>> /\ mixed' = mixed
      BY <1>9 DEF Sample, Sampled
    <3>2. meter[t].now \in Int
      BY DEF MeterPlace
    <3>3. ~mixed' => Ascend(samples') /\ Below(samples', transferred')
      BY <3>1, <2>2, <2>4
    <3>4. QED
      BY <2>1, <2>4, <3>1, <3>2, <3>3 DEF Ascend, Below
<1>10. CASE UNCHANGED collectorVars
  BY <1>10 DEF collectorVars
<1>11. QED
  BY <1>1, <1>3, <1>4, <1>5, <1>6, <1>7, <1>8, <1>9, <1>10 DEF CollectorNext

(* In every reachable state the current rate is computed of bytes that      *)
(* were transferred, but for the time a reset is between its two steps.     *)
THEOREM RateIsOfBytesTransferred == CollectorSpec => []RateStands
<1>1. CollectorInv => RateStands
  <2> SUFFICES ASSUME CollectorInv, ~mixed PROVE RateBytes <= transferred
    BY DEF RateStands
  <2>1. CASE Len(samples) < 2
    BY <2>1 DEF RateBytes, CollectorInv
  <2>2. CASE ~(Len(samples) < 2)
    <3> DEFINE o == samples[1].bytes
               n == samples[Len(samples)].bytes
    <3>1. Len(samples) \in Nat /\ 1 \in 1..Len(samples) /\ Len(samples) \in 1..Len(samples) /\ 1 <= Len(samples)
      BY <2>2, LenProperties DEF CollectorInv
    <3>2. o \in Nat /\ n \in Nat
      <4>1. samples[1] \in SampleType /\ samples[Len(samples)] \in SampleType
        BY <3>1, ElementOfSeq DEF CollectorInv
      <4>2. QED
        BY <4>1 DEF SampleType
    <3>3. o <= n /\ n <= transferred
      BY <3>1 DEF CollectorInv, Ascend, Below
    <3>4. transferred \in Nat /\ transferred < CounterWord /\ CounterWord \in Nat \ {0}
      BY CollectorAssumption DEF CollectorInv
    <3>5. RateBytes = (n - o) % CounterWord
      BY <2>2 DEF RateBytes
    <3> HIDE DEF n, o
    <3>6. (n - o) % CounterWord = n - o
      BY <3>2, <3>3, <3>4, SMT
    <3>7. QED
      BY <3>2, <3>3, <3>4, <3>5, <3>6
  <2>3. QED
    BY <2>1, <2>2
<1>2. QED
  BY <1>1, CollectorInitially, CollectorStep, PTL DEF CollectorSpec

-----------------------------------------------------------------------------
(* The pools.  A stage's count is, at every moment, the number of its      *)
(* tasks between being counted and being uncounted; active_tasks likewise. *)
CountedAt == {"counted", "activated", "queued", "asleep", "running", "returned", "threw", "settled", "inactive", "refused"}
ActiveAt  == {"activated", "queued", "asleep", "running", "returned", "threw", "refused"}
Places    == CountedAt \cup {"new", "uncounted", "done"}

Counted(s) == {k \in Tasks : task[k].stage = s /\ task[k].at \in CountedAt}
Activated  == {k \in Tasks : task[k].at \in ActiveAt}

TaskPlace == [at : Places, stage : Stages \cup {NoStage}, delayed : BOOLEAN]

PoolInv ==
  /\ task \in [Tasks -> TaskPlace] /\ future \in [Tasks -> {"none", "pending", "ready"}]
  /\ counts \in [Stages -> Nat] /\ active \in Nat
  /\ \A s \in Stages : counts[s] = Cardinality(Counted(s))
  /\ adapter = "async" => active = Cardinality(Activated)
  /\ \A k \in Tasks : /\ future[k] = "ready" => task[k].at \in {"settled", "done", "refused"}
                      /\ task[k].at = "new" => task[k].stage = NoStage

LEMMA PoolInitially == PoolInit => PoolInv
<1> SUFFICES ASSUME PoolInit PROVE PoolInv
  OBVIOUS
<1>1. NewTask \in TaskPlace /\ NewTask.at = "new" /\ NewTask.stage = NoStage
  BY DEF NewTask, TaskPlace, Places
<1>2. task \in [Tasks -> TaskPlace] /\ \A k \in Tasks : task[k].at = "new" /\ task[k].stage = NoStage
  BY <1>1 DEF PoolInit
<1>3. Activated = {} /\ \A s \in Stages : Counted(s) = {}
  BY <1>2 DEF Activated, Counted, ActiveAt, CountedAt
<1>4. Cardinality({}) = 0
  BY FS_EmptySet
<1>5. counts \in [Stages -> Nat] /\ \A s \in Stages : counts[s] = 0
  BY DEF PoolInit
<1>6. active = 0 /\ future \in [Tasks -> {"none", "pending", "ready"}] /\ \A k \in Tasks : future[k] = "none"
  BY DEF PoolInit
<1>7. QED
  BY <1>2, <1>3, <1>4, <1>5, <1>6 DEF PoolInv

\* Sets of tasks are finite.
LEMMA TasksCounted ==
  ASSUME NEW S \in SUBSET Tasks
  PROVE  /\ IsFiniteSet(S) /\ Cardinality(S) \in Nat
         /\ \A k \in Tasks \ S : Cardinality(S \cup {k}) = Cardinality(S) + 1
         /\ \A k \in S : Cardinality(S \ {k}) = Cardinality(S) - 1 /\ Cardinality(S) > 0
<1>1. IsFiniteSet(S) /\ Cardinality(S) \in Nat
  BY FS_Subset, FS_CardinalityType, PoolAssumption
<1>2. \A k \in Tasks \ S : Cardinality(S \cup {k}) = Cardinality(S) + 1
  BY <1>1, FS_AddElement
<1>3. \A k \in S : Cardinality(S \ {k}) = Cardinality(S) - 1
  BY <1>1, FS_RemoveElement
<1>4. \A k \in S : Cardinality(S \ {k}) \in Nat
  BY FS_Subset, FS_CardinalityType, PoolAssumption
<1>5. QED
  BY <1>1, <1>2, <1>3, <1>4

\* The sets after task k went from one place to another.
LEMMA PlaceChanges ==
  ASSUME PoolInv, NEW k \in Tasks, NEW w \in Places, Becomes(k, w)
  PROVE  /\ task' \in [Tasks -> TaskPlace]
         /\ task'[k].at = w /\ task'[k].stage = task[k].stage
         /\ \A j \in Tasks \ {k} : task'[j] = task[j]
<1>1. task \in [Tasks -> TaskPlace] /\ task[k] \in TaskPlace
  BY DEF PoolInv
<1> DEFINE r == [task[k] EXCEPT !.at = w]
<1>2. r \in TaskPlace /\ r.at = w /\ r.stage = task[k].stage
  BY <1>1 DEF TaskPlace
<1>3. task' = [task EXCEPT ![k] = r]
  BY DEF Becomes
<1> HIDE DEF r
<1>4. QED
  BY <1>1, <1>2, <1>3

\* What a step of task k to place w may do to the futures.
FutureMoves(k, w) ==
  /\ future' \in [Tasks -> {"none", "pending", "ready"}]
  /\ \A j \in Tasks \ {k} : future'[j] = future[j]
  /\ future'[k] = "ready" => w \in {"settled", "done", "refused"}

LEMMA PoolKept ==
  ASSUME PoolInv, NEW k \in Tasks, NEW w \in Places \ {"new"}, Becomes(k, w), FutureMoves(k, w),
         adapter' = adapter, counts' \in [Stages -> Nat], active' \in Nat,
         \A s \in Stages : counts'[s] = Cardinality(Counted(s)'),
         adapter = "async" => active' = Cardinality(Activated')
  PROVE  PoolInv'
<1>1. /\ task' \in [Tasks -> TaskPlace] /\ task'[k].at = w
      /\ \A j \in Tasks \ {k} : task'[j] = task[j]
  BY PlaceChanges
<1>2. \A j \in Tasks : /\ future'[j] = "ready" => task'[j].at \in {"settled", "done", "refused"}
                       /\ task'[j].at = "new" => task'[j].stage = NoStage
  BY <1>1 DEF FutureMoves, PoolInv
<1>3. QED
  BY <1>1, <1>2 DEF PoolInv, FutureMoves

\* A step of task k that leaves the counts alone.
LEMMA StaysCounted ==
  ASSUME PoolInv, NEW k \in Tasks, NEW w \in Places, Becomes(k, w),
         task[k].at \in CountedAt <=> w \in CountedAt
  PROVE  \A s \in Stages : Counted(s)' = Counted(s)
<1>1. \A j \in Tasks : task'[j].stage = task[j].stage /\ (task'[j].at \in CountedAt <=> task[j].at \in CountedAt)
  BY PlaceChanges
<1>2. QED
  BY <1>1 DEF Counted

LEMMA StaysActive ==
  ASSUME PoolInv, NEW k \in Tasks, NEW w \in Places, Becomes(k, w),
         task[k].at \in ActiveAt <=> w \in ActiveAt
  PROVE  Activated' = Activated
<1>1. \A j \in Tasks : task'[j].at \in ActiveAt <=> task[j].at \in ActiveAt
  BY PlaceChanges
<1>2. QED
  BY <1>1 DEF Activated

\* A step that lowers the count of k's stage.
LEMMA CountLowered ==
  ASSUME PoolInv, NEW k \in Tasks, NEW w \in Places, Becomes(k, w), Decrement(task[k].stage),
         task[k].at \in CountedAt, w \notin CountedAt
  PROVE  counts' \in [Stages -> Nat] /\ \A s \in Stages : counts'[s] = Cardinality(Counted(s)')
<1> DEFINE q == task[k].stage
<1>1. /\ task'[k].at = w /\ task'[k].stage = q /\ q \in Stages \cup {NoStage}
      /\ \A j \in Tasks \ {k} : task'[j] = task[j]
  BY PlaceChanges DEF PoolInv, TaskPlace
<1>2. \A s \in Stages : Counted(s)' = IF s = q THEN Counted(s) \ {k} ELSE Counted(s)
  BY <1>1 DEF Counted
<1>3. /\ \A s \in Stages : Counted(s) \in SUBSET Tasks
      /\ q \in Stages => k \in Counted(q)
  BY DEF Counted
<1>4. \A s \in Stages : counts[s] = Cardinality(Counted(s)) /\ Cardinality(Counted(s)) \in Nat
  BY <1>3, TasksCounted DEF PoolInv
<1>5. CASE q = NoStage
  <2>1. counts' = counts /\ q \notin Stages
    BY <1>5, PoolAssumption DEF Decrement
  <2>2. QED
    BY <1>2, <1>4, <2>1 DEF PoolInv
<1>6. CASE q # NoStage
  <2>1. q \in Stages
    BY <1>1, <1>6
  <2>2. Cardinality(Counted(q) \ {k}) = Cardinality(Counted(q)) - 1 /\ Cardinality(Counted(q)) > 0
    BY <1>3, <2>1, TasksCounted
  <2>3. counts \in [Stages -> Nat] /\ counts[q] > 0
    BY <1>4, <2>1, <2>2 DEF PoolInv
  <2>4. counts' = [counts EXCEPT ![q] = counts[q] - 1]
    BY <1>6, <2>1, <2>3 DEF Decrement
  <2> HIDE DEF q
  <2>5. counts' \in [Stages -> Nat] /\ \A s \in Stages : counts'[s] = IF s = q THEN counts[s] - 1 ELSE counts[s]
    BY <2>1, <2>3, <2>4
  <2>6. QED
    BY <1>2, <1>4, <2>1, <2>2, <2>5
<1>7. QED
  BY <1>5, <1>6

\* A step that changes neither count.
LEMMA QuietMove ==
  ASSUME PoolInv, NEW k \in Tasks, NEW w \in Places \ {"new"}, Becomes(k, w), FutureMoves(k, w),
         UNCHANGED <<adapter, counts, active>>,
         task[k].at \in CountedAt <=> w \in CountedAt,
         adapter = "async" => (task[k].at \in ActiveAt <=> w \in ActiveAt)
  PROVE  PoolInv'
<1>1. \A s \in Stages : Counted(s)' = Counted(s)
  BY StaysCounted
<1>2. adapter = "async" => Activated' = Activated
  BY StaysActive
<1>3. /\ counts' \in [Stages -> Nat] /\ active' \in Nat /\ adapter' = adapter
      /\ \A s \in Stages : counts'[s] = Cardinality(Counted(s)')
      /\ adapter = "async" => active' = Cardinality(Activated')
  BY <1>1, <1>2 DEF PoolInv
<1>4. QED
  BY <1>3, PoolKept

\* A step that lowers the stage's count.
LEMMA LoweringMove ==
  ASSUME PoolInv, NEW k \in Tasks, NEW w \in Places \ {"new"}, Becomes(k, w), FutureMoves(k, w),
         UNCHANGED <<adapter, active>>, Decrement(task[k].stage),
         task[k].at \in CountedAt, w \notin CountedAt,
         adapter = "async" => (task[k].at \in ActiveAt <=> w \in ActiveAt)
  PROVE  PoolInv'
<1>1. counts' \in [Stages -> Nat] /\ \A s \in Stages : counts'[s] = Cardinality(Counted(s)')
  BY CountLowered
<1>2. adapter = "async" => Activated' = Activated
  BY StaysActive
<1>3. adapter' = adapter /\ active' \in Nat /\ (adapter = "async" => active' = Cardinality(Activated'))
  BY <1>2 DEF PoolInv
<1>4. QED
  BY <1>1, <1>3, PoolKept

\* Where the futures stay, a task that was not settled is not now.
LEMMA FutureStays ==
  ASSUME PoolInv, NEW k \in Tasks, NEW w, UNCHANGED future,
         task[k].at \in {"settled", "done", "refused"} => w \in {"settled", "done", "refused"}
  PROVE  FutureMoves(k, w)
BY DEF PoolInv, FutureMoves

LEMMA FutureSettles ==
  ASSUME PoolInv, NEW k \in Tasks, NEW w \in {"settled", "done", "refused"}, future' = [future EXCEPT ![k] = "ready"]
  PROVE  FutureMoves(k, w)
BY DEF PoolInv, FutureMoves

LEMMA FuturePends ==
  ASSUME PoolInv, NEW k \in Tasks, NEW w, future' = [future EXCEPT ![k] = "pending"]
  PROVE  FutureMoves(k, w)
BY DEF PoolInv, FutureMoves

\* A pool takes a task or refuses it.
LEMMA HandedOver ==
  ASSUME PoolInv, NEW k \in Tasks, Accepted(k) \/ Refused(k), UNCHANGED <<adapter, counts, active>>,
         task[k].at \in CountedAt, adapter = "async" => task[k].at \in ActiveAt
  PROVE  PoolInv'
<1>1. CASE Accepted(k)
  <2>1. Becomes(k, "queued") /\ FutureMoves(k, "queued")
    BY <1>1, FuturePends DEF Accepted
  <2>2. "queued" \in Places \ {"new"} /\ "queued" \in CountedAt /\ "queued" \in ActiveAt
    BY DEF Places, CountedAt, ActiveAt
  <2>3. QED
    BY <2>1, <2>2, QuietMove
<1>2. CASE Refused(k)
  <2>1. Becomes(k, "refused") /\ FutureMoves(k, "refused")
    BY <1>2, FutureSettles DEF Refused
  <2>2. "refused" \in Places \ {"new"} /\ "refused" \in CountedAt /\ "refused" \in ActiveAt
    BY DEF Places, CountedAt, ActiveAt
  <2>3. QED
    BY <2>1, <2>2, QuietMove
<1>3. QED
  BY <1>1, <1>2

\* A task is counted before anybody has it.
LEMMA SubmitKeeps ==
  ASSUME PoolInv, NEW k \in Tasks, NEW q \in Stages \cup {NoStage}, NEW delayed \in BOOLEAN, Submit(k, q, delayed)
  PROVE  PoolInv'
<1> DEFINE r == [at |-> "counted", stage |-> q, delayed |-> delayed]
<1>1. r \in TaskPlace /\ r.at = "counted" /\ r.stage = q
  BY DEF TaskPlace, Places, CountedAt
<1>2. task' = [task EXCEPT ![k] = r] /\ task[k].at = "new" /\ Increment(q) /\ UNCHANGED <<adapter, active, future>>
  BY DEF Submit, Is
<1> HIDE DEF r
<1>3. /\ task' \in [Tasks -> TaskPlace] /\ task'[k].at = "counted" /\ task'[k].stage = q
      /\ \A j \in Tasks \ {k} : task'[j] = task[j]
  BY <1>1, <1>2 DEF PoolInv
<1>4. \A s \in Stages : k \notin Counted(s) /\ Counted(s) \in SUBSET Tasks
  BY <1>2 DEF Counted, CountedAt
<1>5. \A s \in Stages : Counted(s)' = IF s = q THEN Counted(s) \cup {k} ELSE Counted(s)
  BY <1>3, <1>4 DEF Counted, CountedAt
<1>6. \A s \in Stages : counts[s] = Cardinality(Counted(s)) /\ Cardinality(Counted(s) \cup {k}) = Cardinality(Counted(s)) + 1
  BY <1>4, TasksCounted DEF PoolInv
<1>7. counts' \in [Stages -> Nat] /\ \A s \in Stages : counts'[s] = IF s = q THEN counts[s] + 1 ELSE counts[s]
  <2>1. CASE q = NoStage
    BY <1>2, <2>1, PoolAssumption DEF Increment, PoolInv
  <2>2. CASE q # NoStage
    <3>1. q \in Stages /\ counts' = [counts EXCEPT ![q] = counts[q] + 1]
      BY <1>2, <2>2 DEF Increment
    <3>2. QED
      BY <3>1 DEF PoolInv
  <2>3. QED
    BY <2>1, <2>2
<1>8. \A s \in Stages : counts'[s] = Cardinality(Counted(s)')
  BY <1>5, <1>6, <1>7
<1>9. Activated' = Activated
  BY <1>2, <1>3 DEF Activated, ActiveAt
<1>10. \A j \in Tasks : /\ future'[j] = "ready" => task'[j].at \in {"settled", "done", "refused"}
                        /\ task'[j].at = "new" => task'[j].stage = NoStage
  BY <1>2, <1>3 DEF PoolInv
<1>11. QED
  BY <1>2, <1>3, <1>7, <1>8, <1>9, <1>10 DEF PoolInv

LEMMA PoolStep == PoolInv /\ [PoolNext]_poolVars => PoolInv'
<1> SUFFICES ASSUME PoolInv, [PoolNext]_poolVars PROVE PoolInv'
  OBVIOUS
<1>1. ASSUME NEW k \in Tasks, EnqueueJob(k) \/ SubmitToPool(k) \/ StartThread(k) PROVE PoolInv'
  <2>1. /\ Accepted(k) \/ Refused(k)
        /\ UNCHANGED <<adapter, counts, active>>
    BY <1>1 DEF EnqueueJob, SubmitToPool, StartThread
  <2>2. \/ adapter # "async" /\ task[k].at = "counted"
        \/ task[k].at = "activated"
    BY <1>1 DEF EnqueueJob, SubmitToPool, StartThread, Is
  <2>3. task[k].at \in CountedAt /\ (adapter = "async" => task[k].at \in ActiveAt)
    BY <2>2 DEF CountedAt, ActiveAt
  <2>4. QED
    BY <2>1, <2>3, HandedOver
<1>2. ASSUME NEW k \in Tasks, Activate(k) PROVE PoolInv'
  <2>1. task[k].at = "counted" /\ active' = active + 1 /\ Becomes(k, "activated") /\ UNCHANGED <<adapter, counts, future>>
    BY <1>2 DEF Activate, Is
  <2>2. /\ "activated" \in Places \ {"new"} /\ "activated" \in CountedAt /\ "activated" \in ActiveAt
        /\ "counted" \in CountedAt /\ "counted" \notin ActiveAt
    BY DEF Places, CountedAt, ActiveAt
  <2>3. FutureMoves(k, "activated")
    BY <2>1, FutureStays
  <2>4. \A s \in Stages : Counted(s)' = Counted(s)
    BY <2>1, <2>2, StaysCounted
  <2>5. Activated' = Activated \cup {k} /\ k \in Tasks \ Activated /\ Activated \in SUBSET Tasks
    <3>1. task'[k].at = "activated" /\ \A j \in Tasks \ {k} : task'[j] = task[j]
      BY <2>1, <2>2, PlaceChanges
    <3>2. QED
      BY <2>1, <2>2, <3>1 DEF Activated
  <2>6. Cardinality(Activated') = Cardinality(Activated) + 1
    BY <2>5, TasksCounted
  <2>7. /\ counts' \in [Stages -> Nat] /\ active' \in Nat /\ adapter' = adapter
        /\ \A s \in Stages : counts'[s] = Cardinality(Counted(s)')
        /\ adapter = "async" => active' = Cardinality(Activated')
    BY <2>1, <2>4, <2>6 DEF PoolInv
  <2>8. QED
    BY <2>1, <2>2, <2>3, <2>7, PoolKept
<1>3. ASSUME NEW k \in Tasks, NEW w \in {"asleep", "running", "returned", "threw"},
             task[k].at \in {"queued", "asleep", "running"},
             Becomes(k, w), UNCHANGED <<adapter, counts, active, future>>
      PROVE PoolInv'
  <2>1. /\ w \in Places \ {"new"} /\ w \in CountedAt /\ w \in ActiveAt
        /\ task[k].at \in CountedAt /\ task[k].at \in ActiveAt
    BY <1>3 DEF Places, CountedAt, ActiveAt
  <2>2. FutureMoves(k, w)
    BY <1>3, FutureStays
  <2>3. QED
    BY <1>3, <2>1, <2>2, QuietMove
<1>4. ASSUME NEW k \in Tasks, Fetch(k) \/ Wakes(k) \/ Runs(k) PROVE PoolInv'
  <2>1. task[k].at \in {"queued", "asleep", "running"} /\ UNCHANGED <<adapter, counts, active, future>>
    BY <1>4 DEF Fetch, Wakes, Runs, Is
  <2>2. \E w \in {"asleep", "running", "returned", "threw"} : Becomes(k, w)
    BY <1>4 DEF Fetch, Wakes, Runs
  <2>3. QED
    BY <1>3, <2>1, <2>2
<1>5. ASSUME NEW k \in Tasks, SetPromise(k) PROVE PoolInv'
  <2>1. /\ adapter # "async" /\ task[k].at \in {"returned", "threw"} /\ Becomes(k, "settled")
        /\ future' = [future EXCEPT ![k] = "ready"] /\ UNCHANGED <<adapter, counts, active>>
    BY <1>5 DEF SetPromise, Over, Is, Settle
  <2>2. "settled" \in Places \ {"new"} /\ "settled" \in CountedAt /\ task[k].at \in CountedAt
    BY <2>1 DEF Places, CountedAt
  <2>3. FutureMoves(k, "settled")
    BY <2>1, FutureSettles
  <2>4. QED
    BY <2>1, <2>2, <2>3, QuietMove
<1>6. ASSUME NEW k \in Tasks, Uncount(k) PROVE PoolInv'
  <2>1. /\ task[k].at = "settled" /\ Decrement(task[k].stage) /\ Becomes(k, "done")
        /\ UNCHANGED <<adapter, active, future>>
    BY <1>6 DEF Uncount, Is
  <2>2. /\ "done" \in Places \ {"new"} /\ "done" \notin CountedAt /\ "done" \notin ActiveAt
        /\ "settled" \in CountedAt /\ "settled" \notin ActiveAt
    BY DEF Places, CountedAt, ActiveAt
  <2>3. FutureMoves(k, "done")
    BY <2>1, FutureStays
  <2>4. QED
    BY <2>1, <2>2, <2>3, LoweringMove
<1>7. ASSUME NEW k \in Tasks, NetworkUncount(k) PROVE PoolInv'
  <2>1. /\ adapter # "async" /\ task[k].at \in {"returned", "threw"} /\ Decrement(task[k].stage)
        /\ Becomes(k, "uncounted") /\ UNCHANGED <<adapter, active, future>>
    BY <1>7 DEF NetworkUncount, Over, Is
  <2>2. "uncounted" \in Places \ {"new"} /\ "uncounted" \notin CountedAt /\ task[k].at \in CountedAt
    BY <2>1 DEF Places, CountedAt
  <2>3. FutureMoves(k, "uncounted")
    BY <2>1, FutureStays
  <2>4. QED
    BY <2>1, <2>2, <2>3, LoweringMove
<1>8. ASSUME NEW k \in Tasks, Deactivate(k) PROVE PoolInv'
  <2>1. /\ adapter = "async" /\ task[k].at \in {"returned", "threw"} /\ active' = active - 1
        /\ Becomes(k, "inactive") /\ UNCHANGED <<adapter, counts, future>>
    BY <1>8 DEF Deactivate, Over, Is
  <2>2. /\ "inactive" \in Places \ {"new"} /\ "inactive" \in CountedAt /\ "inactive" \notin ActiveAt
        /\ task[k].at \in CountedAt /\ task[k].at \in ActiveAt
    BY <2>1 DEF Places, CountedAt, ActiveAt
  <2>3. FutureMoves(k, "inactive")
    BY <2>1, FutureStays
  <2>4. \A s \in Stages : Counted(s)' = Counted(s)
    BY <2>1, <2>2, StaysCounted
  <2>5. Activated' = Activated \ {k} /\ k \in Activated /\ Activated \in SUBSET Tasks
    <3>1. task'[k].at = "inactive" /\ \A j \in Tasks \ {k} : task'[j] = task[j]
      BY <2>1, <2>2, PlaceChanges
    <3>2. QED
      BY <2>2, <3>1 DEF Activated
  <2>6. Cardinality(Activated') = Cardinality(Activated) - 1 /\ Cardinality(Activated) > 0
    BY <2>5, TasksCounted
  <2>7. /\ counts' \in [Stages -> Nat] /\ active' \in Nat /\ adapter' = adapter
        /\ \A s \in Stages : counts'[s] = Cardinality(Counted(s)')
        /\ adapter = "async" => active' = Cardinality(Activated')
    BY <2>1, <2>4, <2>6 DEF PoolInv
  <2>8. QED
    BY <2>1, <2>2, <2>3, <2>7, PoolKept
<1>9. ASSUME NEW k \in Tasks, AsyncUncount(k) PROVE PoolInv'
  <2>1. /\ task[k].at = "inactive" /\ Decrement(task[k].stage) /\ Becomes(k, "uncounted")
        /\ UNCHANGED <<adapter, active, future>>
    BY <1>9 DEF AsyncUncount, Is
  <2>2. /\ "uncounted" \in Places \ {"new"} /\ "uncounted" \notin CountedAt /\ "uncounted" \notin ActiveAt
        /\ "inactive" \in CountedAt /\ "inactive" \notin ActiveAt
    BY DEF Places, CountedAt, ActiveAt
  <2>3. FutureMoves(k, "uncounted")
    BY <2>1, FutureStays
  <2>4. QED
    BY <2>1, <2>2, <2>3, LoweringMove
<1>10. ASSUME NEW k \in Tasks, WrapperEnds(k) PROVE PoolInv'
  <2>1. /\ task[k].at = "uncounted" /\ Becomes(k, "done") /\ future' = [future EXCEPT ![k] = "ready"]
        /\ UNCHANGED <<adapter, counts, active>>
    BY <1>10 DEF WrapperEnds, Is, Settle
  <2>2. /\ "done" \in Places \ {"new"} /\ "done" \notin CountedAt /\ "done" \notin ActiveAt
        /\ "uncounted" \notin CountedAt /\ "uncounted" \notin ActiveAt
    BY DEF Places, CountedAt, ActiveAt
  <2>3. FutureMoves(k, "done")
    BY <2>1, FutureSettles
  <2>4. QED
    BY <2>1, <2>2, <2>3, QuietMove
<1>11. CASE UNCHANGED poolVars
  BY <1>11 DEF poolVars, PoolInv, Counted, Activated
<1>12. QED
  BY <1>1, <1>2, <1>4, <1>5, <1>6, <1>7, <1>8, <1>9, <1>10, <1>11, SubmitKeeps DEF PoolNext

(* For every number of tasks, stages and workers and in each of the three   *)
(* adapters, pending_tasks of a stage lies between the tasks that have not  *)
(* run and those whose future is not ready.                                 *)
THEOREM PendingAgreesWithFutures == PoolSpec => []PendingIsUnready
<1>1. PoolInv => PendingIsUnready
  <2> SUFFICES ASSUME PoolInv PROVE PendingIsUnready
    OBVIOUS
  <2>1. \A S, T \in SUBSET Tasks : S \subseteq T => Cardinality(S) <= Cardinality(T)
    <3> SUFFICES ASSUME NEW S \in SUBSET Tasks, NEW T \in SUBSET Tasks, S \subseteq T
                 PROVE Cardinality(S) <= Cardinality(T)
      OBVIOUS
    <3>1. IsFiniteSet(T) /\ S \in SUBSET T
      BY TasksCounted
    <3>2. QED
      BY <3>1, FS_Subset
  <2>2. ASSUME NEW s \in Stages
        PROVE /\ Cardinality(Of(s) \cap Unfinished) <= counts[s]
              /\ counts[s] <= Cardinality(Of(s) \cap (Unready \cup Leaked \cup Lagging))
    <3>1. Of(s) \cap Unfinished \subseteq Counted(s)
      BY DEF Of, Unfinished, Counted, CountedAt
    <3>2. Counted(s) \subseteq Of(s) \cap (Unready \cup Leaked \cup Lagging)
      BY DEF Of, Unready, Leaked, Lagging, Counted, CountedAt, PoolInv
    <3>3. /\ Of(s) \cap Unfinished \in SUBSET Tasks /\ Counted(s) \in SUBSET Tasks
          /\ Of(s) \cap (Unready \cup Leaked \cup Lagging) \in SUBSET Tasks
      BY DEF Of, Counted
    <3>4. counts[s] = Cardinality(Counted(s))
      BY DEF PoolInv
    <3>5. QED
      BY <2>1, <3>1, <3>2, <3>3, <3>4
  <2>3. ASSUME adapter = "async"
        PROVE Cardinality(Unfinished) <= active /\ active <= Cardinality(Unready \cup Leaked)
    <3>1. Unfinished \subseteq Activated /\ Activated \subseteq Unready \cup Leaked
      BY DEF Unfinished, Unready, Leaked, Activated, ActiveAt, PoolInv
    <3>2. Unfinished \in SUBSET Tasks /\ Activated \in SUBSET Tasks /\ Unready \cup Leaked \in SUBSET Tasks
      BY DEF Unfinished, Unready, Leaked, Activated
    <3>3. active = Cardinality(Activated)
      BY <2>3 DEF PoolInv
    <3>4. QED
      BY <2>1, <3>1, <3>2, <3>3
  <2>4. QED
    BY <2>2, <2>3 DEF PendingIsUnready
<1>2. QED
  BY <1>1, PoolInitially, PoolStep, PTL DEF PoolSpec

=============================================================================
