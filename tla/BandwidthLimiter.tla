--------------------------- MODULE BandwidthLimiter ---------------------------
(***************************************************************************)
(* core/bandwidth_limiter.cpp: a token bucket that is refilled only when   *)
(* somebody looks at it.                                                   *)
(*                                                                         *)
(* A tick is a microsecond, the unit in which calculate_wait_time rounds,  *)
(* and limits are bytes per tick.  pending is what refill_tokens would     *)
(* add: the time since last_refill_ times the rate.  A critical section of *)
(* mutex_ is one step; the reads of enabled_ and bytes_per_second_ before  *)
(* the lock is taken are steps of their own.  The double tokens_ is an     *)
(* integer here, and its scaling in set_limit rounds towards zero.         *)
(***************************************************************************)
EXTENDS Integers

CONSTANTS
  Callers,      \* threads that call acquire and try_acquire
  Controllers,  \* threads that change the settings
  Sizes,        \* the amounts asked for
  Limits,       \* the limits set, 0 for none
  Burst,        \* ticks in a second: the capacity is limit * Burst
  Window        \* length, in ticks, of the windows the history observes

ASSUME ConstantsAssumption ==
  /\ Sizes \subseteq Nat \ {0} /\ Limits \subseteq Nat
  /\ Burst \in Nat \ {0} /\ Window \in Nat

VARIABLES
  limit,     \* bytes_per_second_
  enabled,   \* enabled_
  tokens,    \* tokens_
  capacity,  \* capacity_
  pending,   \* what refill_tokens would add now
  call,      \* caller -> idle, or its amount, whether it may wait, and its timer
  enabling,  \* the controllers that have passed the check in enable
  ticks,     \* history: ticks since the window was opened
  allowed,   \* history: the bytes the window may see by now
  granted    \* history: the bytes granted in the window

bucket      == <<limit, enabled, tokens, capacity, pending>>
history     == <<ticks, allowed, granted>>
limiterVars == <<bucket, call, enabling, history>>

MinOf(a, b) == IF a < b THEN a ELSE b

IdleCall == [at |-> "idle", bytes |-> 0, timer |-> 0]

LimiterInit ==
  /\ limit \in Limits /\ enabled = (limit > 0)
  /\ capacity = limit * Burst /\ tokens = capacity /\ pending = 0
  /\ call = [c \in Callers |-> IdleCall] /\ enabling = {}
  /\ ticks = 0 /\ allowed = capacity /\ granted = 0

Return(c) == call' = [call EXCEPT ![c] = IdleCall]

\* The observed window starts anew.
OpenWindow == ticks' = 0 /\ allowed' = capacity' /\ granted' = 0

-----------------------------------------------------------------------------
(* Time. *)

\* More than capacity + limit pending bytes fill the bucket as that many do.
Accrued == MinOf(pending + limit, capacity + limit)

Tick ==
  /\ pending' = Accrued
  /\ call' = [c \in Callers |-> [call[c] EXCEPT !.timer = IF @ > 0 THEN @ - 1 ELSE 0]]
  /\ IF ticks < Window
     THEN ticks' = ticks + 1 /\ allowed' = allowed + limit /\ UNCHANGED granted
     ELSE ticks' = 0 /\ allowed' = capacity /\ granted' = 0
  /\ UNCHANGED <<limit, enabled, tokens, capacity, enabling>>

-----------------------------------------------------------------------------
(* refill_tokens and calculate_wait_time *)
RefilledUncapped == tokens + pending   \* mutated form: no capacity
Refilled == MinOf(tokens + pending, capacity)

WaitTime(b) == IF ~enabled \/ limit = 0 \/ b <= Refilled THEN 0 ELSE (b - Refilled) \div limit

\* acquire and try_acquire return at once unless the limiter is enabled.
Acquire(c, b) ==
  /\ call[c] = IdleCall /\ enabled
  /\ call' = [call EXCEPT ![c] = [at |-> "acquire", bytes |-> b, timer |-> 0]]
  /\ UNCHANGED <<bucket, enabling, history>>

TryAcquire(c, b) ==
  /\ call[c] = IdleCall /\ enabled
  /\ call' = [call EXCEPT ![c] = [at |-> "try", bytes |-> b, timer |-> 0]]
  /\ UNCHANGED <<bucket, enabling, history>>

\* Take b tokens and return.
Take(c, b) ==
  /\ tokens' = Refilled - b /\ pending' = 0
  /\ granted' = granted + b
  /\ Return(c)
  /\ UNCHANGED <<limit, enabled, capacity, enabling, ticks, allowed>>

\* The body of acquire's loop can run: at first, and when wait_for returns.
Awake(c) ==
  \/ call[c].at = "acquire"
  \/ call[c].at = "wait" /\ (call[c].timer = 0 \/ Refilled >= call[c].bytes \/ ~enabled)

AcquireDisabled(c) ==
  /\ Awake(c) /\ ~enabled
  /\ Return(c)
  /\ UNCHANGED <<bucket, enabling, history>>

GrantHalf(c) ==   \* mutated form: half of the wait is taken for no wait
  /\ Awake(c) /\ enabled
  /\ WaitTime(call[c].bytes) <= 1
  /\ Take(c, call[c].bytes)
\* Enough tokens, or less than a microsecond short of it.
AcquireGranted(c) ==
  /\ Awake(c) /\ enabled
  /\ Refilled >= call[c].bytes \/ WaitTime(call[c].bytes) = 0
  /\ Take(c, call[c].bytes)

\* cv_.wait_for with the time the missing tokens need.
AcquireWaits(c) ==
  /\ Awake(c) /\ enabled
  /\ Refilled < call[c].bytes /\ WaitTime(call[c].bytes) > 0
  /\ tokens' = Refilled /\ pending' = 0
  /\ call' = [call EXCEPT ![c].at = "wait", ![c].timer = WaitTime(call[c].bytes)]
  /\ UNCHANGED <<limit, enabled, capacity, enabling, history>>

\* A notification, or none: the predicate refills the bucket and waits on.
WaitAgain(c) ==
  /\ call[c].at = "wait" /\ ~Awake(c) /\ pending > 0
  /\ tokens' = Refilled /\ pending' = 0
  /\ UNCHANGED <<limit, enabled, capacity, call, enabling, history>>

TryAcquireLocked(c) ==
  /\ call[c].at = "try"
  /\ IF Refilled >= call[c].bytes
     THEN Take(c, call[c].bytes)
     ELSE /\ tokens' = Refilled /\ pending' = 0
          /\ Return(c)
          /\ UNCHANGED <<limit, enabled, capacity, enabling, history>>

-----------------------------------------------------------------------------
(* The settings. *)

\* tokens_ * (new_capacity / capacity_)
Scale(t, old, new) == IF t >= 0 THEN (t * new) \div old ELSE -(((-t) * new) \div old)

\* The bucket after set_limit(new) with new > 0.
ScaledFull(new) == new * Burst   \* mutated form: every change fills the bucket
Scaled(new) ==
  IF limit > 0 /\ capacity > 0
  THEN MinOf(Scale(tokens, capacity, new * Burst), new * Burst) ELSE new * Burst

SetLimit(new) ==
  /\ limit' = new
  /\ IF new > 0
     THEN tokens' = Scaled(new) /\ capacity' = new * Burst /\ enabled' = TRUE
     ELSE enabled' = FALSE /\ UNCHANGED <<tokens, capacity>>
  /\ pending' = 0
  /\ OpenWindow
  /\ UNCHANGED <<call, enabling>>

\* disable takes no lock.
Disable ==
  /\ enabled' = FALSE
  /\ UNCHANGED <<limit, tokens, capacity, pending, call, enabling, history>>

\* enable reads the limit before it takes the lock.
EnableCheck(k) ==
  /\ k \notin enabling /\ limit > 0
  /\ enabling' = enabling \cup {k}
  /\ UNCHANGED <<bucket, call, history>>

EnableLocked(k) ==
  /\ k \in enabling
  /\ enabling' = enabling \ {k}
  /\ enabled' = TRUE /\ pending' = 0
  /\ UNCHANGED <<limit, tokens, capacity, call, history>>

Reset ==
  /\ tokens' = capacity /\ pending' = 0
  /\ UNCHANGED <<limit, enabled, capacity, call, enabling>>
  /\ OpenWindow

\* available_tokens refills the bucket, as the other readers do.
AvailableTokens ==
  /\ tokens' = Refilled /\ pending' = 0
  /\ UNCHANGED <<limit, enabled, capacity, call, enabling, history>>

-----------------------------------------------------------------------------
CallerStep(c) ==
  \/ AcquireDisabled(c) \/ AcquireGranted(c) \/ AcquireWaits(c) \/ TryAcquireLocked(c)

ControllerStep(k) ==
  \/ EnableLocked(k)
  \/ k \notin enabling /\ (\/ \E new \in Limits : SetLimit(new)
                           \/ Disable \/ EnableCheck(k) \/ Reset \/ AvailableTokens)

LimiterNext ==
  \/ Tick
  \/ \E c \in Callers : \/ CallerStep(c) \/ WaitAgain(c)
                        \/ \E b \in Sizes : Acquire(c, b) \/ TryAcquire(c, b)
  \/ \E k \in Controllers : ControllerStep(k)

LimiterSpec == LimiterInit /\ [][LimiterNext]_limiterVars

-----------------------------------------------------------------------------
TypeOK ==
  /\ limit \in Limits /\ enabled \in BOOLEAN
  /\ tokens \in Int /\ capacity \in Nat /\ pending \in Nat
  /\ tokens <= capacity
  /\ call \in [Callers -> [at : {"idle", "acquire", "wait", "try"}, bytes : Sizes \cup {0}, timer : Nat]]
  /\ enabling \subseteq Controllers
  /\ ticks \in 0..Window /\ allowed \in Nat /\ granted \in Nat

(* The limit is kept over every window: the tokens taken in it are at most  *)
(* a full bucket, plus what the rate yields in the window, plus less than   *)
(* one tick's worth (acquire gives out what calculate_wait_time rounds to   *)
(* zero).  It holds whatever interleaving of acquires, time-outs, rechecks  *)
(* and setting changes; set_limit and reset open a new window.              *)
RateRespected == limit > 0 => granted < allowed + limit

\* The overdraft that makes it so never exceeds a tick, and the capacity follows the limit.
DebtBounded == limit > 0 => -limit < tokens /\ capacity = limit * Burst

(* Refilled lazily, by whoever looks and as late as they look, the bucket   *)
(* behaves like one that gains limit bytes at every tick.                   *)
Bucket == INSTANCE TokenBucket WITH level <- IF limit > 0 THEN Refilled ELSE 0
ImplementsTokenBucket == Bucket!Spec

=============================================================================
