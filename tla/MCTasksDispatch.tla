--------------------------- MODULE MCTasksDispatch ---------------------------
(* TasksDispatch for TLC.  Goroutines are interchangeable.                   *)
EXTENDS TasksDispatch, TLC

CONSTANTS q1, q2, t1, t2, g1, g2, g3

OneQueue == [n \in Names |-> q1]
OwnQueue == [n \in Names |-> {QueueOf[n]}]
BadAndAppEngine == [n \in Names |-> IF n = t1 THEN "bad" ELSE "appengine"]
AllBad == [n \in Names |-> "bad"]
AllHTTP == [n \in Names |-> "http"]
Retry(a, d) == [attempts |-> a, min |-> 1, max |-> 1, doublings |-> 1, duration |-> d]
OneAtATime == {[conc |-> 1, retry |-> Retry(2, 0)]}
OneOrTwoAtATime == {[conc |-> c, retry |-> Retry(2, 0)] : c \in {1, 2}}
TwoAtATime == {[conc |-> 2, retry |-> Retry(2, 0)]}
OneOrTwoAttempts == {[conc |-> 1, retry |-> Retry(a, 0)] : a \in {1, 2}}
RetryForAWhile == {[conc |-> 1, retry |-> Retry(1, 1)]}
ProcSymmetry == Permutations(Procs)
==============================================================================
