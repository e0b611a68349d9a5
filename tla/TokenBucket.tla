----------------------------- MODULE TokenBucket -----------------------------
(***************************************************************************)
(* What bandwidth_limiter promises: a bucket that gains limit bytes with   *)
(* every tick of the clock, up to its capacity, and from which every       *)
(* granted byte is taken.  A grant may overdraw it by less than a tick's   *)
(* worth.  Changing the settings never yields more than a full bucket and  *)
(* never more than it yielded before, in proportion to the limits.         *)
(***************************************************************************)
EXTENDS Integers

CONSTANTS
  Burst,   \* ticks the capacity is worth; a second, counted in microseconds
  Limits,  \* the limits that may be set
  Sizes    \* the amounts that may be asked for

VARIABLES limit, level

MinOf(a, b) == IF a < b THEN a ELSE b

\* t tokens under the limit old become as many under new, in proportion.
Scale(t, old, new) == IF t >= 0 THEN (t * new) \div old ELSE -(((-t) * new) \div old)

Init == limit \in Limits /\ level = limit * Burst

Tick == level' = MinOf(level + limit, limit * Burst) /\ UNCHANGED limit

Grant(b) == limit > 0 /\ b - level < limit /\ level' = level - b /\ UNCHANGED limit

Refill == limit > 0 /\ level' = limit * Burst /\ UNCHANGED limit

SetLimit ==
  /\ limit' \in Limits
  /\ IF limit > 0 /\ limit' > 0
     THEN -limit' < level' /\ level' <= Scale(level, limit, limit')
     ELSE level' = limit' * Burst

\* Enabling again forgets the tokens that came in meanwhile.
Forget == limit > 0 /\ -limit < level' /\ level' <= level /\ UNCHANGED limit

Next == Tick \/ (\E b \in Sizes : Grant(b)) \/ Refill \/ SetLimit \/ Forget

Spec == Init /\ [][Next]_<<limit, level>>
=============================================================================
