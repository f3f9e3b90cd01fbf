------------------------------ MODULE TasksBatch ------------------------------
(***************************************************************************)
(* Cloud Tasks' batches with a request_id: several calls of                *)
(* BatchCreateTasks or BatchDeleteTasks for one queue and one id.  A call  *)
(* looks the id up, runs its requests one by one, each in a transaction of *)
(* its own, and records its operation under the id; nothing holds the      *)
(* store between these.  The process may stop between any two.             *)
(***************************************************************************)
EXTENDS Integers

CONSTANTS Callers, \* calls with the id
          Size     \* requests of the batch

None == "none"

ASSUME BatchAssumption == Size \in Nat /\ None \notin Callers

VARIABLES batches, \* each call: where it is, requests run, whose operation it returned
          op,      \* the call whose operation is recorded under the id; or None
          lost,    \* an operation was not recorded: the write failed
          later    \* calls that began after one had returned its operation

batchVars == <<batches, op, lost, later>>

Returned(c) == batches[c].pc = "returned"

\* The lookup, and the reply when it finds an operation.
BeginBatch(c) ==
    /\ batches[c].pc = "new"
    /\ batches' = [batches EXCEPT ![c] = IF op = None THEN [@ EXCEPT !.pc = "running"]
                                         ELSE [@ EXCEPT !.pc = "returned", !.got = op]]
    /\ later' = IF \E d \in Callers : Returned(d) THEN later \cup {c} ELSE later
    /\ UNCHANGED <<op, lost>>

\* One request of the batch; it succeeds or fails alone.
RunRequest(c) ==
    /\ batches[c].pc = "running" /\ batches[c].ran < Size
    /\ batches' = [batches EXCEPT ![c].ran = @ + 1]
    /\ UNCHANGED <<op, lost, later>>

\* Mutant: the operation is not recorded.
KeepOperationNever(c) ==
    /\ batches[c].pc = "running" /\ batches[c].ran = Size
    /\ batches' = [batches EXCEPT ![c].pc = "returned", ![c].got = c]
    /\ UNCHANGED <<op, lost, later>>

\* keepBatchOperation, whose write may fail unnoticed, and the reply.
KeepOperation(c) ==
    /\ batches[c].pc = "running" /\ batches[c].ran = Size
    /\ batches' = [batches EXCEPT ![c].pc = "returned", ![c].got = c]
    /\ \/ op' = c /\ UNCHANGED lost
       \/ lost' = TRUE /\ UNCHANGED op
    /\ UNCHANGED later

\* The process stops, and with it the calls under way.
StopBatches ==
    /\ \E c \in Callers : batches[c].pc = "running"
    /\ batches' = [c \in Callers |-> IF batches[c].pc = "running"
                                     THEN [batches[c] EXCEPT !.pc = "cut"] ELSE batches[c]]
    /\ UNCHANGED <<op, lost, later>>

BatchInit ==
    /\ batches = [c \in Callers |-> [pc |-> "new", ran |-> 0, got |-> None]]
    /\ op = None /\ lost = FALSE /\ later = {}

BatchNext ==
    \/ \E c \in Callers : BeginBatch(c) \/ RunRequest(c) \/ KeepOperation(c)
    \/ StopBatches

BatchSpec == BatchInit /\ [][BatchNext]_batchVars
------------------------------------------------------------------------------
\* "A request_id repeated for the same queue returns the first operation
\* instead of running the batch again": so it does for every repeat that
\* begins once a call has returned, whatever else runs, stops or is recorded
\* over it meanwhile, unless recording failed.  Of calls that overlap it does
\* not hold: each runs the batch.
RepeatRunsNothing ==
    \A c \in later : lost \/ (batches[c].ran = 0 /\ batches[c].got \in Callers \ {c})
==============================================================================
