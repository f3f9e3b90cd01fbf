----------------------------- MODULE AtomicStore -----------------------------
(***************************************************************************)
(* What internal/store promises: a map from keys to values that changes by *)
(* whole commits only.  "Commit applies a set of writes atomically: either *)
(* all land or none do" (Store).  A loss of power may take back the last   *)
(* commits, each as a whole.                                               *)
(***************************************************************************)
EXTENDS Sequences, SequencesExt

CONSTANTS
    Keys, Values,
    Absent,         \* what a key that was never put, or was deleted, holds
    Batches         \* the op lists clients commit, their keys all safe

Ops == [kind: {"put"}, key: Keys, value: Values] \cup [kind: {"delete"}, key: Keys]
Data == [Keys -> Values \cup {Absent}]

\* One op of a commit, and the whole list in order.
ApplyOp(data, op) ==
    [data EXCEPT ![op.key] = IF op.kind = "put" THEN op.value ELSE Absent]
Apply(data, ops) == FoldLeft(ApplyOp, data, ops)

VARIABLES
    kv,             \* the store as its clients know it
    safe            \* the store as a loss of power would leave it

Init == kv = [k \in Keys |-> Absent] /\ safe = kv

Commit == /\ \E ops \in Batches : kv' = Apply(kv, ops)
          /\ UNCHANGED safe

\* The last contents are out of danger.
Settle == safe' = kv /\ UNCHANGED kv

\* Power is lost, and with it every commit since the store last settled.
Lose == kv' = safe /\ UNCHANGED safe

Spec == Init /\ [][Commit \/ Settle \/ Lose]_<<kv, safe>>
==============================================================================
