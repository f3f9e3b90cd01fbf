------------------------- MODULE MemorystoreInstances -------------------------
(***************************************************************************)
(* Memorystore's created instances: one instance name, the record kept     *)
(* under it, the server that runs in the cluster under a name derived from *)
(* it, and the long-running operations.  Calls take instances.mu for       *)
(* moments only; the work is done by goroutines (workers) that take it     *)
(* again when they end.  The busy mark is what keeps two of them off one   *)
(* instance.                                                               *)
(*                                                                         *)
(* A creation of the name is a number, which also stands for the record's  *)
(* address: a worker that holds a record of an earlier creation changes    *)
(* nothing of a later one, but what it does by name it does to whichever   *)
(* is there.  Two goroutines that would do the same from here on are one.  *)
(* The instance is under a customer-managed key.  Left out: what it is     *)
(* configured with, the Standard tier's nodes, and writes of the durable   *)
(* store that fail.                                                        *)
(***************************************************************************)
EXTENDS Integers, FiniteSets

CONSTANTS MaxCreated,   \* creations of the name
          MaxOps,       \* operations
          MaxEvents     \* projects reset, operations deleted, stops, times the key fails

ASSUME MemorystoreAssumption ==
    {MaxCreated, MaxOps, MaxEvents} \subseteq Nat

VARIABLES inst,       \* instances.byID[name]
          kept,       \* the creation whose record is in the store; 0: none
          busy,       \* instances.busy[name]: 0 none, an operation, or Unnamed
          ops,        \* lro.Store: the state of each operation
          serving,    \* the creation whose server runs; 0: none
          workers,    \* goroutines
          call,       \* a call has found the instance and not locked yet
          probe,      \* checkKeys: what unwrap said, before it locks again
          keyUsable,  \* the key can unwrap
          created,    \* creations so far
          events,     \* of the kinds that MaxEvents bounds
          stuck,      \* a call left instances.mu locked
          overlapped  \* something ran on the instance without its busy mark

memorystoreVars == <<inst, kept, busy, ops, serving, workers, call, probe, keyUsable,
                     created, events, stuck, overlapped>>

NoInstance == [id |-> 0]
Unnamed == -1   \* the mark of a "resume" or a "certificate rotation"

\* A goroutine: what it does, the operation it ends (0: none), the creation
\* it was started for, where it is and whether its work succeeded.
Worker == [kind: {"run", "delete", "io", "remove", "suspend", "reset"},
           op: {Unnamed} \cup 0..MaxOps, id: 1..MaxCreated,
           pc: {"work", "settle", "finish", "fail", "forget"}, ok: BOOLEAN]

Start(kind, op, id) ==
    [kind |-> kind, op |-> op, id |-> id, ok |-> TRUE,
     pc |-> IF kind = "reset" THEN "fail" ELSE "work"]

At(w, pc) == [w EXCEPT !.pc = pc]
Moves(w, next) == workers' = (workers \ {w}) \cup {next}
Exits(w) == workers' = workers \ {w}

\* lro.Store.Create.
NextOp == Cardinality({o \in 1..MaxOps : ops[o] # "none"}) + 1
NewOp(state) == NextOp <= MaxOps /\ ops' = [ops EXCEPT ![NextOp] = state]

\* Mutant: an operation that is done may end again.
SettledAgain(o, state) == IF o \in 1..MaxOps THEN [ops EXCEPT ![o] = state] ELSE ops

\* lro.Store.finish: terminal states are final, and an operation that was
\* deleted, or a mark that is none, is not found.
Settled(o, state) ==
    IF o \in 1..MaxOps /\ ops[o] = "pending" THEN [ops EXCEPT ![o] = state] ELSE ops

counts == <<created, events, stuck>>

(* Calls. *)

\* CreateInstance, from where it locks; its key wrapped the data key before.
CreateInstance ==
    /\ ~stuck /\ inst = NoInstance /\ created < MaxCreated
    /\ created' = created + 1
    /\ inst' = [id |-> created + 1, state |-> "CREATING", suspended |-> FALSE]
    /\ kept' = created + 1
    /\ NewOp("pending") /\ busy' = NextOp
    /\ workers' = workers \cup {Start("run", NextOp, created + 1)}
    /\ UNCHANGED <<serving, call, probe, keyUsable, events, stuck, overlapped>>

\* find: the instance exists.
Find ==
    /\ ~stuck /\ ~call /\ inst # NoInstance
    /\ call' = TRUE
    /\ UNCHANGED <<inst, kept, busy, ops, serving, workers, probe, keyUsable, counts,
                   overlapped>>

Refused == UNCHANGED <<inst, kept, busy, ops, workers>>

\* Mutant: a deletion does not look at the busy mark.
MayDeleteAlways == TRUE
MayDelete == busy = 0
MayChange == busy = 0 /\ inst.state = "READY"

DeleteInstance ==
    IF ~MayDelete THEN Refused
    ELSE /\ inst' = [inst EXCEPT !.state = "DELETING"]
         /\ NewOp("pending") /\ busy' = NextOp
         /\ workers' = workers \cup {Start("delete", NextOp, inst.id)}
         /\ UNCHANGED kept

\* UpdateInstance, but for a change of the number of nodes: done at once.
UpdateInstance ==
    \/ Refused
    \/ /\ MayChange /\ kept' = inst.id
       /\ NewOp("succeeded") /\ UNCHANGED <<inst, busy, workers>>

\* ExportInstance and ImportInstance: claim.
ExportOrImport(verb) ==
    IF ~MayChange THEN Refused
    ELSE /\ inst' = IF verb = "import" THEN [inst EXCEPT !.state = "IMPORTING"] ELSE inst
         /\ NewOp("pending") /\ busy' = NextOp
         /\ workers' = workers \cup {Start("io", NextOp, inst.id)}
         /\ UNCHANGED kept

\* RotateServerCA and rotateDue: the server is started again.
RotateServerCA ==
    IF ~MayChange THEN Refused
    ELSE /\ kept' = inst.id /\ busy' = Unnamed /\ UNCHANGED <<inst, ops>>
         /\ workers' = workers \cup {Start("run", 0, inst.id)}

\* The call takes the lock.
Locks ==
    /\ ~stuck /\ call /\ inst # NoInstance
    /\ call' = FALSE
    /\ \/ DeleteInstance
       \/ UpdateInstance
       \/ \E verb \in {"export", "import"} : ExportOrImport(verb)
       \/ RotateServerCA
    /\ UNCHANGED <<serving, probe, keyUsable, counts, overlapped>>

\* The call reads the record again and does not check that it is still there:
\* a nil pointer.  When it came as JSON, net/http recovers the panic and only
\* a deferred Unlock releases the lock; when by gRPC, the process stops (Panics).
LocksNothing ==
    /\ ~stuck /\ call /\ inst = NoInstance
    /\ call' = FALSE
    /\ stuck' \in BOOLEAN
    /\ UNCHANGED <<inst, kept, busy, ops, serving, workers, probe, keyUsable, created,
                   events, overlapped>>

\* DeleteOperation.
DeleteOperation ==
    /\ events < MaxEvents /\ events' = events + 1
    /\ \E o \in 1..MaxOps :
        ops[o] \notin {"none", "deleted"} /\ ops' = [ops EXCEPT ![o] = "deleted"]
    /\ UNCHANGED <<inst, kept, busy, serving, workers, call, probe, keyUsable, created,
                   stuck, overlapped>>

\* ResetProject takes the record and the mark, and then fails the operation,
\* removes the server and forgets the record, holding no lock.
ResetProject ==
    /\ ~stuck /\ inst # NoInstance /\ events < MaxEvents /\ events' = events + 1
    /\ inst' = NoInstance /\ busy' = 0
    /\ workers' = workers \cup {Start("reset", busy, inst.id)}
    /\ overlapped' = TRUE
    /\ UNCHANGED <<kept, ops, serving, call, probe, keyUsable, created, stuck>>

(* Workers. *)

\* Mutant: the mark stays.
UnmarkNever == UNCHANGED busy

\* delete(c.busy, name).
Unmark == busy' = 0

\* Provision: the server serves, or did not come up.
Provisions(w) ==
    /\ ~stuck /\ w.kind = "run" /\ w.pc = "work"
    /\ \/ serving' = w.id /\ Moves(w, At(w, "settle"))
       \/ serving' \in {serving, w.id} /\ Moves(w, [At(w, "settle") EXCEPT !.ok = FALSE])
    /\ UNCHANGED <<inst, kept, busy, ops, call, probe, keyUsable, counts, overlapped>>

\* run's end: a create that failed leaves no instance, and its servers are
\* removed in the background.
RunSettles(w) ==
    LET failedCreate == inst # NoInstance /\ ~w.ok /\ w.op # 0
        after == IF w.op = 0 THEN {} ELSE {At(w, "finish")} IN
    /\ ~stuck /\ w.kind = "run" /\ w.pc = "settle"
    /\ inst' = IF inst = NoInstance \/ failedCreate THEN NoInstance
               ELSE [inst EXCEPT !.state = IF w.ok THEN "READY" ELSE "STOPPED"]
    /\ kept' = IF failedCreate THEN 0 ELSE kept
    /\ overlapped' = (overlapped \/ failedCreate)
    /\ Unmark
    /\ workers' = (workers \ {w}) \cup after
                  \cup (IF failedCreate THEN {Start("remove", 0, inst.id)} ELSE {})
    /\ UNCHANGED <<ops, serving, call, probe, keyUsable, counts>>

\* removeServers: for a deletion, for a create that failed, and for a reset,
\* which goes on whatever it returns.  A failure leaves the server or not.
Removes(w) ==
    /\ w.kind \in {"delete", "remove", "reset"} /\ w.pc = "work"
    /\ \E ok \in BOOLEAN :
          /\ serving' \in IF ok THEN {0} ELSE {0, serving}
          /\ overlapped' = (overlapped \/ ~ok)
          /\ CASE w.kind = "delete" -> Moves(w, [At(w, "settle") EXCEPT !.ok = ok])
               [] w.kind = "reset"  -> Moves(w, At(w, "forget"))
               [] w.kind = "remove" -> Exits(w)
    /\ UNCHANGED <<inst, kept, busy, ops, call, probe, keyUsable, counts>>

\* DeleteInstance's end: by name, whichever record is there.
DeleteSettles(w) ==
    /\ ~stuck /\ w.kind = "delete" /\ w.pc = "settle"
    /\ Unmark
    /\ IF w.ok THEN kept' = 0 /\ inst' = NoInstance
       ELSE /\ inst' = IF inst.id = w.id THEN [inst EXCEPT !.state = "READY"] ELSE inst
            /\ UNCHANGED kept
    /\ Moves(w, At(w, "finish"))
    /\ UNCHANGED <<ops, serving, call, probe, keyUsable, counts, overlapped>>

\* An export or import ends, fails or is cancelled.
Transfers(w) ==
    /\ ~stuck /\ w.kind = "io" /\ w.pc = "work"
    /\ \E ok \in BOOLEAN : Moves(w, [At(w, "settle") EXCEPT !.ok = ok])
    /\ UNCHANGED <<inst, kept, busy, ops, serving, call, probe, keyUsable, counts,
                   overlapped>>

\* done.
TransferSettles(w) ==
    /\ ~stuck /\ w.kind = "io" /\ w.pc = "settle"
    /\ Unmark
    /\ inst' = IF inst = NoInstance THEN inst ELSE [inst EXCEPT !.state = "READY"]
    /\ Moves(w, At(w, "finish"))
    /\ UNCHANGED <<kept, ops, serving, call, probe, keyUsable, counts, overlapped>>

\* Mutant: a failure does not end the operation.
FinishesOnSuccess(w) ==
    /\ w.pc = "finish"
    /\ ops' = IF w.ok THEN Settled(w.op, "succeeded") ELSE ops
    /\ Exits(w)
    /\ UNCHANGED <<inst, kept, busy, serving, call, probe, keyUsable, counts, overlapped>>

\* The operation ends, after the lock is released.
Finishes(w) ==
    /\ w.pc = "finish"
    /\ ops' = Settled(w.op, IF w.ok THEN "succeeded" ELSE "failed")
    /\ Exits(w)
    /\ UNCHANGED <<inst, kept, busy, serving, call, probe, keyUsable, counts, overlapped>>

\* ResetProject fails the operation it took, then removes, then forgets.
ResetFails(w) ==
    /\ w.kind = "reset" /\ w.pc = "fail"
    /\ ops' = Settled(w.op, "failed")
    /\ Moves(w, At(w, "work"))
    /\ UNCHANGED <<inst, kept, busy, serving, call, probe, keyUsable, counts, overlapped>>

ResetForgets(w) ==
    /\ w.kind = "reset" /\ w.pc = "forget"
    /\ kept' = 0 /\ Exits(w)
    /\ UNCHANGED <<inst, busy, ops, serving, call, probe, keyUsable, counts, overlapped>>

\* suspend's goroutine stops the server; if that fails it says so in the log.
Suspends(w) ==
    /\ w.kind = "suspend" /\ serving' \in {0, serving} /\ Exits(w)
    /\ UNCHANGED <<inst, kept, busy, ops, call, probe, keyUsable, counts, overlapped>>

WorkerStep(w) ==
    \/ Provisions(w) \/ RunSettles(w) \/ Removes(w) \/ DeleteSettles(w)
    \/ Transfers(w) \/ TransferSettles(w) \/ Finishes(w)
    \/ ResetFails(w) \/ ResetForgets(w) \/ Suspends(w)

\* The goroutines that end operation o (Unnamed and 0: none).
Works(o) == \E w \in workers : w.op = o /\ WorkerStep(w)

(* checkKeys. *)

\* It lists the instances with nothing pending, and asks Cloud KMS unlocked.
AsksKey ==
    /\ ~stuck /\ probe = "none"
    /\ inst # NoInstance /\ busy = 0 /\ inst.state # "DELETING"
    /\ probe' = IF keyUsable THEN "usable" ELSE "unusable"
    /\ UNCHANGED <<inst, kept, busy, ops, serving, workers, call, keyUsable, counts,
                   overlapped>>

\* It suspends the instance, whose server a goroutine stops, or resumes it.
ActsOnKey ==
    /\ ~stuck /\ probe # "none" /\ probe' = "none"
    /\ IF inst = NoInstance \/ busy # 0 THEN UNCHANGED <<inst, busy, workers, overlapped>>
       ELSE \/ /\ probe = "unusable" /\ ~inst.suspended
               /\ inst' = [inst EXCEPT !.suspended = TRUE, !.state = "STOPPED"]
               /\ workers' = workers \cup {Start("suspend", 0, inst.id)}
               /\ overlapped' = TRUE /\ UNCHANGED busy
            \/ /\ probe = "usable" /\ inst.suspended
               /\ inst' = [inst EXCEPT !.suspended = FALSE, !.state = "REPAIRING"]
               /\ workers' = workers \cup {Start("run", 0, inst.id)}
               /\ busy' = Unnamed /\ UNCHANGED overlapped
            \/ /\ (probe = "unusable") = inst.suspended
               /\ UNCHANGED <<inst, busy, workers, overlapped>>
    /\ UNCHANGED <<kept, ops, serving, call, keyUsable, counts>>

\* The key is disabled or destroyed in Cloud KMS, or enabled again.
KeyFlips ==
    /\ keyUsable' = ~keyUsable
    /\ IF keyUsable THEN events < MaxEvents /\ events' = events + 1 ELSE UNCHANGED events
    /\ UNCHANGED <<inst, kept, busy, ops, serving, workers, call, probe, created, stuck,
                   overlapped>>

(* The process. *)

\* Mutant: a record is made up where none is kept.
RestoredInstBlind ==
    [id |-> kept, state |-> IF keyUsable THEN "REPAIRING" ELSE "STOPPED",
     suspended |-> ~keyUsable]

\* Restore: each kept record, REPAIRING, or suspended when its key cannot
\* unwrap.
RestoredInst ==
    IF kept = 0 THEN NoInstance
    ELSE [id |-> kept, state |-> IF keyUsable THEN "REPAIRING" ELSE "STOPPED",
          suspended |-> ~keyUsable]

\* The process stops, operations and goroutines with it, and starts again:
\* the servers run again, with no busy mark.
Restored ==
    /\ events' = events + 1
    /\ ops' = [o \in 1..MaxOps |-> IF ops[o] = "none" THEN "none" ELSE "deleted"]
    /\ busy' = 0 /\ call' = FALSE /\ probe' = "none" /\ stuck' = FALSE
    /\ overlapped' = TRUE
    /\ inst' = RestoredInst
    /\ workers' = IF kept = 0 \/ ~keyUsable THEN {} ELSE {Start("run", 0, kept)}
    /\ UNCHANGED <<kept, serving, keyUsable, created>>

Stops == events < MaxEvents /\ Restored

\* A gRPC call finds no record under the lock.
Panics == events < MaxEvents /\ call /\ inst = NoInstance /\ Restored

MemorystoreInit ==
    /\ inst = NoInstance /\ kept = 0 /\ busy = 0 /\ serving = 0
    /\ ops = [o \in 1..MaxOps |-> "none"] /\ workers = {}
    /\ call = FALSE /\ probe = "none" /\ keyUsable = TRUE
    /\ created = 0 /\ events = 0
    /\ stuck = FALSE /\ overlapped = FALSE

MemorystoreNext ==
    \/ CreateInstance \/ Find \/ Locks \/ LocksNothing \/ DeleteOperation \/ ResetProject
    \/ (\E w \in workers : WorkerStep(w))
    \/ AsksKey \/ ActsOnKey \/ KeyFlips \/ Stops \/ Panics

MemorystoreSpec == MemorystoreInit /\ [][MemorystoreNext]_memorystoreVars

\* The goroutines run.
MemorystoreFairSpec ==
    MemorystoreSpec /\ \A o \in {Unnamed} \cup 0..MaxOps : WF_memorystoreVars(Works(o))
------------------------------------------------------------------------------
\* The state has its types; in particular what Restore puts in place of a
\* record is one.
MemorystoreTypeOK ==
    /\ inst = NoInstance
       \/ inst \in [id: 1..MaxCreated, suspended: BOOLEAN,
                    state: {"CREATING", "READY", "STOPPED", "REPAIRING", "DELETING",
                            "IMPORTING"}]
    /\ ops \in [1..MaxOps -> {"none", "pending", "succeeded", "failed", "deleted"}]
    /\ workers \subseteq Worker
    /\ {kept, serving} \subseteq 0..MaxCreated
    /\ busy \in {Unnamed} \cup 0..MaxOps

\* An instance is never left marked busy, and so refused to every later call,
\* with nobody to clear the mark: a goroutine is under way for the marked
\* operation, or for the resume or rotation the mark names, whatever resets,
\* stops, failures and re-creations came between.
BusyHasWorker ==
    busy # 0 => \E w \in workers :
        /\ w.kind \in {"run", "delete", "io"} /\ w.pc \in {"work", "settle"}
        /\ w.op = IF busy = Unnamed THEN 0 ELSE busy

\* "Terminal states are final" (lro.Store.finish): an operation that has ended
\* never ends otherwise, though a reset and the goroutine it did not stop both
\* end it.
OperationsFinal ==
    [][\A o \in 1..MaxOps :
         ops[o] \in {"succeeded", "failed"} => ops'[o] \in {ops[o], "deleted"}]_memorystoreVars

\* The busy mark keeps what touches the server in order: once no goroutine is
\* left, a name without an instance has neither a record nor a server, and an
\* instance has its own record and, when READY, its own server.  Not claimed
\* once something has run beside the mark (overlapped): a reset, the run that
\* Restore starts, the removal after a create that failed, a suspension, or a
\* removal that failed half-way.
IdleConsistent ==
    (workers = {} /\ ~overlapped) =>
        IF inst = NoInstance THEN kept = 0 /\ serving = 0
        ELSE kept = inst.id /\ (inst.state = "READY" => serving = inst.id)

\* Every operation ends, whether its work succeeds, fails, is reset or has
\* its record taken away, unless a call that panicked left the lock held.
OperationsEnd ==
    \A o \in 1..MaxOps : []<>(ops[o] # "pending" \/ stuck)
==============================================================================
