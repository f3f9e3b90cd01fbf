----------------------------- MODULE TokenBucket -----------------------------
(***************************************************************************)
(* rateBucket.take of internal/service/tasks/dispatch.go, as operators on  *)
(* the time the bucket's next token is due (the generic cell rate          *)
(* algorithm).  Interval is the code's time.Second/rate and Burst is       *)
(* BurstSize(rate), both for one rate.                                     *)
(***************************************************************************)
EXTENDS Integers

CONSTANTS
    Interval,   \* time between two tokens
    Burst       \* tokens a full bucket holds

ASSUME RateAssumption == /\ Interval \in Nat \ {0}
                         /\ Burst \in Nat \ {0}

\* Mutant: a tolerance of one token too many.
ToleranceOfBurst == Interval * Burst

\* How far ahead of now the next token may be due while one can be taken.
Tolerance == Interval * (Burst - 1)

\* take answers true: now is not before next - tolerance.
HasToken(n, t) == n - Tolerance <= t

\* What take leaves in next when it answers true at t.  A bucket idle long
\* enough to be full banks nothing beyond Burst.
Taken(n, t) == (IF n < t THEN t ELSE n) + Interval
==============================================================================
