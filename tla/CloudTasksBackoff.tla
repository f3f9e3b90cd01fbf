-------------------------- MODULE CloudTasksBackoff --------------------------
(***************************************************************************)
(* The retry schedule Cloud Tasks and Cloud Scheduler share                *)
(* (internal/sched/cloudtasks.go).  A configuration is a record            *)
(*   attempts    MaxAttempts, the first attempt included; negative: no     *)
(*               limit                                                     *)
(*   min, max    MinBackoff and MaxBackoff                                 *)
(*   doublings   MaxDoublings                                              *)
(*   duration    MaxRetryDuration; zero: no limit                          *)
(* and 0 is an unset field of it.  The floats of the code are exact here:  *)
(* every value it keeps is at most MaxBackoff, far below 2^53 for the      *)
(* magnitudes the API accepts.                                             *)
(***************************************************************************)
EXTENDS Integers

\* DefaultCloudTasksBackoff in tenths of a second: 100 attempts, 0.1s to 1h,
\* 16 doublings.
DefaultBackoff ==
    [attempts |-> 100, min |-> 1, max |-> 36000, doublings |-> 16, duration |-> 0]

\* Mutants: linear growth one step late; one attempt too many.
GrowthLate(b, k) ==
    IF k <= b.doublings THEN b.min * 2^k
                        ELSE b.min * 2^b.doublings * (k - b.doublings)
ShouldRetryOver(b, n) == b.attempts < 0 \/ n <= b.attempts

\* Each unset field gets the service default on its own; a negative
\* MaxAttempts is kept.
WithDefaults(b) ==
    LET Or(v, d) == IF v <= 0 THEN d ELSE v
    IN  [b EXCEPT !.attempts  = IF @ = 0 THEN DefaultBackoff.attempts ELSE @,
                  !.min       = Or(@, DefaultBackoff.min),
                  !.max       = Or(@, DefaultBackoff.max),
                  !.doublings = Or(@, DefaultBackoff.doublings)]

\* The uncapped wait after k earlier retries: doubling, then linear.
Growth(b, k) ==
    IF k <= b.doublings
    THEN b.min * 2^k
    ELSE b.min * 2^b.doublings * (k - b.doublings + 1)

\* A float that is above MaxBackoff, infinite or not a number is MaxBackoff.
Cap(d, most) == IF d \in 0..most THEN d ELSE most

\* The wait before the given retry; attempt 1 is the first retry.
Delay(b, attempt) ==
    IF attempt < 1 THEN 0 ELSE Cap(Growth(b, attempt - 1), b.max)

\* Another attempt is permitted after the given number of attempts.
ShouldRetry(b, n) == b.attempts < 0 \/ n < b.attempts

\* With MaxRetryDuration set, retried until both limits are reached, from
\* the first attempt.
ShouldRetryAfter(b, n, sinceFirst) ==
    \/ ShouldRetry(b, n)
    \/ b.duration > 0 /\ sinceFirst < b.duration
==============================================================================
