----------------------------- MODULE RateBucket -----------------------------
(***************************************************************************)
(* A Cloud Tasks queue's token bucket (TokenBucket) used over time: takes  *)
(* at whatever moments the dispatch passes ask for one.                    *)
(***************************************************************************)
EXTENDS TokenBucket, Sequences

CONSTANT MaxTime    \* bound on the clock of a run

ASSUME TimeAssumption == MaxTime \in Nat

VARIABLES
    now,        \* the clock handed to take
    next,       \* rateBucket.next
    takes       \* history: the times at which a token was taken, in order

vars == <<now, next, takes>>

-----------------------------------------------------------------------------
\* A new bucket: the zero time.Time is 0.
Init == /\ now = 0
        /\ next = 0
        /\ takes = <<>>

\* take(now, rate, burst) = true.
Take == /\ HasToken(next, now)
        /\ next' = Taken(next, now)
        /\ takes' = Append(takes, now)
        /\ UNCHANGED now

\* Time passes.  A take that answers false changes nothing.
Tick == /\ now < MaxTime
        /\ now' = now + 1
        /\ UNCHANGED <<next, takes>>

Next == Take \/ Tick

Spec == Init /\ [][Next]_vars

-----------------------------------------------------------------------------
\* The clock and the bucket are times; takes is a sequence of past times.
TypeOK == /\ now \in Nat
          /\ next \in Nat
          /\ takes \in Seq(Nat)

(***************************************************************************)
(* However the takes are spread, any run of them from the i-th to the j-th *)
(* spans at least the time the tokens beyond one burst need: a queue never *)
(* dispatches more than Burst plus rate times elapsed (#716).              *)
(***************************************************************************)
RateBound ==
    \A i, j \in 1..Len(takes) :
        i <= j => (j - i + 1 - Burst) * Interval <= takes[j] - takes[i]

(***************************************************************************)
(* The bucket never overcharges: whatever was taken, a token is available  *)
(* one interval from now at the latest, so a queue under load keeps its    *)
(* configured rate instead of falling behind it.                           *)
(***************************************************************************)
TokenWithinInterval == HasToken(next, now + Interval)

(***************************************************************************)
(* Every take moved next by an interval past the time it was taken at and  *)
(* past every earlier take: the strengthening RateBound is proved from.    *)
(***************************************************************************)
NextAhead ==
    \A k \in 1..Len(takes) :
        /\ takes[k] <= now
        /\ takes[k] + (Len(takes) - k + 1) * Interval <= next

=============================================================================
