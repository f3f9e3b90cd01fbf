-------------------------- MODULE DurableStoreProofs --------------------------
(***************************************************************************)
(* Proofs about DurableStore, for any number of instances, launches, power *)
(* losses and commits.  Ownership is proved for instances that start one   *)
(* at a time, which is what the claim needs (MaxStarting = 1); memory and  *)
(* disk agree when, besides, callers have finished with the store before   *)
(* they close it (~LateCommits).                                           *)
(***************************************************************************)
EXTENDS DurableStore, FiniteSetTheorems, TLAPS

\* The sets of places, and what no step names, are always visible.
USE DurableAssumption
    DEF Starting, Flushing, Committing, Owning, idVars, memVars, diskVars, countVars

\* Every operation leaves values of the right types.
THEOREM TypeCorrect == Spec => []TypeOK
<1>1. Init => TypeOK
  BY DEF Init, TypeOK, Data, Empty, NoTemp
<1>2. TypeOK /\ [Next]_vars => TypeOK'
  <2> SUFFICES ASSUME TypeOK, [Next]_vars PROVE TypeOK'
    OBVIOUS
  <2> Empty \in Data /\ NoTemp \in [data: Data, synced: BOOLEAN]
    BY DEF Empty, NoTemp, Data
  <2>1. ASSUME NEW p \in Instances, Open(p) PROVE TypeOK'
    <3>1. CASE Launch(p)
      BY <3>1 DEF Launch, Move, TypeOK
    <3>2. ASSUME NEW from, NEW exists \in {"read", "closed"}, Create(p, from, exists)
          PROVE TypeOK'
      <4>1. pc' \in [Instances -> {"off", "closed"} \cup Starting \cup Owning]
        BY <3>2 DEF Create, Move, TypeOK
      <4>2. lock' \in [by: Instances, pid: Pids \cup {0}] \cup {NoLock}
        BY <3>2 DEF Create, TypeOK
      <4> QED BY <3>2, <4>1, <4>2 DEF Create, TypeOK
    <3>3. CASE ReadLock(p)
      BY <3>3, Zenon DEF ReadLock, LooksLive, Move, TypeOK
    <3>4. CASE Probe(p) \/ RemoveStale(p)
      BY <3>4 DEF Probe, RemoveStale, Move, TypeOK
    <3>5. CASE WritePid(p)
      BY <3>5, ZenonT(30) DEF WritePid, Move, TypeOK
    <3>6. CASE Load(p)
      BY <3>6 DEF Load, Move, TypeOK
    <3> QED BY <2>1, <3>1, <3>2, <3>3, <3>4, <3>5, <3>6 DEF Open, Claim, Reclaim
  <2>2. ASSUME NEW p \in Instances, Use(p) PROVE TypeOK'
    <3>1. CASE Commit(p)
      <4>1. PICK ops \in Batches : mem' = [mem EXCEPT ![p] = Store!Apply(@, ops)]
        BY <3>1, Zenon DEF Commit
      <4>2. Store!Apply(mem[p], ops) \in Data
        BY BatchAssumption DEF TypeOK
      <4>3. mem' \in [Instances -> Data]
        BY <4>1, <4>2 DEF TypeOK
      <4> QED BY <3>1, <4>3 DEF Commit, Move, TypeOK
    <3>2. CASE WriteTemp(p)
      BY <3>2 DEF WriteTemp, Move, TypeOK
    <3>3. CASE SyncTemp(p)
      BY <3>3, Zenon DEF SyncTemp, Move, TypeOK
    <3>6. CASE Rename(p)
      BY <3>6 DEF Rename, Move, TypeOK
    <3>4. CASE FlushFails(p)
      BY <3>4 DEF FlushFails, Restore, Move, TypeOK
    <3>5. CASE Return(p) \/ Close(p)
      BY <3>5, ZenonT(30) DEF Return, Close, Move, TypeOK
    <3> QED BY <2>2, <3>1, <3>2, <3>3, <3>4, <3>5, <3>6 DEF Use
  <2>3. ASSUME NEW p \in Instances, Exit(p) PROVE TypeOK'
    BY <2>3 DEF Exit, Forget, TypeOK
  <2>4. CASE Writeback
    BY <2>4 DEF Writeback, TypeOK
  <2>5. CASE PowerLoss
    <3>1. lock' \in [by: Instances, pid: Pids \cup {0}] \cup {NoLock}
      BY <2>5 DEF PowerLoss, TypeOK
    <3>2. /\ pc' \in [Instances -> {"off", "closed"} \cup Starting \cup Owning]
          /\ pid' \in [Instances -> Pids \cup {0}] /\ seen' \in [Instances -> Pids \cup {0}]
          /\ released' \in [Instances -> BOOLEAN]
      BY <2>5 DEF PowerLoss, Forget, TypeOK
    <3>3. /\ mem' \in [Instances -> Data] /\ prev' \in [Instances -> Data]
          /\ temp' \in [Instances -> [data: Data, synced: BOOLEAN]]
      BY <2>5 DEF PowerLoss, Forget, TypeOK
    <3> QED BY <2>5, <3>1, <3>2, <3>3 DEF PowerLoss, TypeOK
  <2>6. CASE UNCHANGED vars
    BY <2>6 DEF vars, TypeOK
  <2> QED BY <2>1, <2>2, <2>3, <2>4, <2>5, <2>6 DEF Next
<1> QED BY <1>1, <1>2, PTL DEF Spec

------------------------------------------------------------------------------
(***************************************************************************)
(* The lock and its owner.  The owner's lock is the one in the directory,  *)
(* with the owner's pid once it is written; only one instance is starting; *)
(* and what that one concluded from an earlier read of the lock still      *)
(* holds: the pid it read is the owner's, and once it found no such        *)
(* process there is no owner to remove the lock of.                        *)
(***************************************************************************)
LockHeld ==
    \A p \in Instances : Owns(p) =>
        /\ lock # NoLock /\ lock.by = p
        /\ pc[p] = "pid" => lock.pid = 0
        /\ pc[p] # "pid" => lock.pid = pid[p]
OneStarting ==
    \A p, q \in Instances : pc[p] \in Starting /\ pc[q] \in Starting => p = q
SeenFresh ==
    \A p \in Instances :
        /\ pc[p] = "probe" => \A q \in Instances : Owns(q) => pid[q] = seen[p]
        /\ pc[p] \in {"remove", "reclaim"} => \A q \in Instances : ~Owns(q)
ReleasedUp ==
    \A p \in Instances : released[p] => pc[p] \in {"up"} \cup Committing
OwnInv == LockHeld /\ OneStarting /\ SeenFresh /\ ReleasedUp

\* The owner's lock names it, so there is one owner.
LEMMA HeldByOne == LockHeld => OneOwner
BY DEF LockHeld, OneOwner

\* An instance is launched only when no other one is starting.
LEMMA LaunchAlone ==
    ASSUME TypeOK, MaxStarting = 1, NEW p \in Instances, Launch(p)
    PROVE  \A q \in Instances : pc[q] \notin Starting
<1> DEFINE S == {i \in Instances : pc[i] \in Starting}
<1>1. IsFiniteSet(S)
  BY FS_Subset, S \subseteq Instances
<1>2. Cardinality(S) \in Nat /\ Cardinality(S) < 1
  BY <1>1, FS_CardinalityType DEF Launch
<1>3. S = {}
  BY <1>1, <1>2, FS_EmptySet
<1> QED BY <1>3

\* Steps that move an instance and touch no lock, from a place where it does
\* not own the directory to another, or from one where it does to another.
LEMMA QuietStep ==
    ASSUME TypeOK, OwnInv, NEW p \in Instances, NEW to,
           pc' = [pc EXCEPT ![p] = to], UNCHANGED <<pid, released, seen, lock>>,
           \/ pc[p] \in {"up"} \cup Committing /\ to \in {"up"} \cup Committing
           \/ pc[p] \in Starting /\ to = "closed"
           \/ pc[p] = "pid" /\ to = "closed"
    PROVE  OwnInv'
<1> USE DEF Owns, TypeOK
<1>1. LockHeld'
  BY DEF OwnInv, LockHeld
<1>2. OneStarting'
  BY DEF OwnInv, OneStarting
<1>3. SeenFresh'
  BY DEF OwnInv, SeenFresh
<1>4. ReleasedUp'
  BY DEF OwnInv, ReleasedUp
<1> QED BY <1>1, <1>2, <1>3, <1>4, SMTT(30) DEF OwnInv

\* The lock is created: there was none, so no owner.
LEMMA CreateKeepsOwn ==
    ASSUME TypeOK, OwnInv, NEW p \in Instances, pc[p] \in Starting, lock = NoLock,
           pc' = [pc EXCEPT ![p] = "pid"], lock' = [by |-> p, pid |-> 0],
           UNCHANGED <<pid, released, seen>>
    PROVE  OwnInv'
<1> USE DEF Owns, TypeOK
<1>1. \A q \in Instances : ~Owns(q)
  BY DEF OwnInv, LockHeld
<1>2. LockHeld'
  BY <1>1 DEF LockHeld
<1>3. OneStarting'
  BY DEF OwnInv, OneStarting
<1>4. \A q \in Instances : pc[q] \in Starting => q = p
  BY DEF OwnInv, OneStarting
<1>5. SeenFresh'
  BY <1>4 DEF SeenFresh
<1>6. ReleasedUp'
  BY DEF OwnInv, ReleasedUp
<1> QED BY <1>2, <1>3, <1>5, <1>6 DEF OwnInv

\* Steps of an instance that is opening the store.
LEMMA OpenKeepsOwn ==
    ASSUME TypeOK, OwnInv, MaxStarting = 1, NEW p \in Instances, Open(p)
    PROVE  OwnInv'
<1> USE DEF Owns, TypeOK
<1>1. CASE Launch(p)
  <2>1. \A q \in Instances : pc[q] \notin Starting
    BY <1>1, LaunchAlone, SMTT(30)
  <2> USE <1>1 DEF Launch, Move
  <2>2. LockHeld' BY DEF OwnInv, LockHeld
  <2>3. OneStarting' BY <2>1 DEF OneStarting
  <2>4. SeenFresh' BY <2>1 DEF SeenFresh
  <2>5. ReleasedUp' BY DEF OwnInv, ReleasedUp
  <2> QED BY <2>2, <2>3, <2>4, <2>5 DEF OwnInv
<1>2. CASE Claim(p)
  <2>1. CASE lock = NoLock
    BY <1>2, <2>1, CreateKeepsOwn, SMTT(30) DEF Claim, Create, Move
  <2>2. CASE lock # NoLock
    <3> USE <1>2, <2>2 DEF Claim, Create, Move
    <3>1. LockHeld' BY DEF OwnInv, LockHeld
    <3>2. OneStarting' BY DEF OwnInv, OneStarting
    <3>3. SeenFresh' BY DEF OwnInv, SeenFresh
    <3>4. ReleasedUp' BY DEF OwnInv, ReleasedUp
    <3> QED BY <3>1, <3>2, <3>3, <3>4 DEF OwnInv
  <2> QED BY <2>1, <2>2
<1>3. CASE ReadLock(p)
  <2>1. CASE Move(p, "read", "closed") /\ seen' = seen
    BY <1>3, <2>1, QuietStep, Zenon DEF ReadLock, Move
  <2>2. CASE /\ lock # NoLock /\ lock.pid # 0
             /\ Move(p, "read", "probe") /\ seen' = [seen EXCEPT ![p] = lock.pid]
    <3> USE <1>3, <2>2 DEF ReadLock, Move
    <3>1. LockHeld' BY DEF OwnInv, LockHeld
    <3>2. OneStarting' BY DEF OwnInv, OneStarting
    <3>3. \A q \in Instances : Owns(q) => pid[q] = lock.pid
      BY DEF OwnInv, LockHeld
    <3>4. SeenFresh' BY <3>3 DEF OwnInv, SeenFresh
    <3>5. ReleasedUp' BY DEF OwnInv, ReleasedUp
    <3> QED BY <3>1, <3>2, <3>4, <3>5 DEF OwnInv
  <2> QED BY <1>3, <2>1, <2>2, SMTT(30) DEF ReadLock, LooksLive
<1>4. CASE Probe(p)
  <2>1. CASE Move(p, "probe", "closed")
    BY <1>4, <2>1, QuietStep, Zenon DEF Probe, Move
  <2>2. CASE /\ \A o \in Instances : pc[o] # "off" => pid[o] # seen[p]
             /\ Move(p, "probe", "remove")
    <3> USE <1>4, <2>2 DEF Probe, Move
    <3>1. \A q \in Instances : ~Owns(q)
      BY DEF OwnInv, SeenFresh
    <3>2. LockHeld' BY <3>1 DEF LockHeld
    <3>3. OneStarting' BY DEF OwnInv, OneStarting
    <3>4. SeenFresh' BY <3>1 DEF SeenFresh
    <3>5. ReleasedUp' BY DEF OwnInv, ReleasedUp
    <3> QED BY <3>2, <3>3, <3>4, <3>5 DEF OwnInv
  <2> QED BY <1>4, <2>1, <2>2 DEF Probe
<1>5. CASE RemoveStale(p)
  BY <1>5 DEF RemoveStale, Move, OwnInv, LockHeld, OneStarting, SeenFresh, ReleasedUp
<1>6. CASE Reclaim(p)
  BY <1>6, CreateKeepsOwn, QuietStep DEF Reclaim, Create, Move
<1>7. CASE WritePid(p)
  <2>1. CASE Move(p, "pid", "closed") /\ lock' = lock
    BY <1>7, <2>1, QuietStep, Zenon DEF WritePid, Move
  <2>2. CASE /\ Move(p, "pid", "load")
             /\ lock' = IF lock = NoLock THEN lock
                        ELSE IF lock.by # p THEN lock ELSE [lock EXCEPT !.pid = pid[p]]
    <3> USE <1>7, <2>2 DEF WritePid, Move
    <3>1. Owns(p) /\ lock # NoLock /\ lock.by = p
      BY DEF OwnInv, LockHeld, ReleasedUp
    <3>2. \A q \in Instances : Owns(q) => q = p
      BY <3>1 DEF OwnInv, LockHeld
    <3>3. LockHeld' BY <3>1, <3>2 DEF LockHeld
    <3>4. OneStarting' BY DEF OwnInv, OneStarting
    <3>5. SeenFresh' BY DEF OwnInv, SeenFresh
    <3>6. ReleasedUp' BY DEF OwnInv, ReleasedUp
    <3> QED BY <3>3, <3>4, <3>5, <3>6 DEF OwnInv
  <2> QED BY <1>7, <2>1, <2>2 DEF WritePid
<1>8. CASE Load(p)
  <2> USE <1>8 DEF Load, Move
  <2>1. Owns(p)
    BY DEF OwnInv, ReleasedUp
  <2>2. \A q \in Instances : Owns(q) => q = p
    BY <2>1 DEF OwnInv, LockHeld
  <2>3. LockHeld' BY <2>2 DEF OwnInv, LockHeld
  <2>4. OneStarting' BY DEF OwnInv, OneStarting
  <2>5. SeenFresh' BY DEF OwnInv, SeenFresh
  <2>6. ReleasedUp' BY DEF OwnInv, ReleasedUp
  <2> QED BY <2>3, <2>4, <2>5, <2>6 DEF OwnInv
<1> QED BY <1>1, <1>2, <1>3, <1>4, <1>5, <1>6, <1>7, <1>8 DEF Open

\* Steps of an instance that has it open.
LEMMA UseKeepsOwn ==
    ASSUME TypeOK, OwnInv, NEW p \in Instances, Use(p)
    PROVE  OwnInv'
<1>1. CASE Commit(p)
  BY <1>1, QuietStep, Zenon DEF Commit, Move
<1>2. CASE WriteTemp(p)
  BY <1>2, QuietStep, Zenon DEF WriteTemp, Move
<1>3. CASE SyncTemp(p)
  BY <1>3, QuietStep, Zenon DEF SyncTemp, Move
<1>4. CASE Rename(p)
  BY <1>4, QuietStep, Zenon DEF Rename, Move
<1>5. CASE Return(p)
  BY <1>5, QuietStep, Zenon DEF Return, Move
<1>6. CASE FlushFails(p)
  BY <1>6, QuietStep, Zenon DEF FlushFails, Move
<1>7. CASE Close(p)
  BY <1>7 DEF Close, OwnInv, LockHeld, OneStarting, SeenFresh, ReleasedUp, Owns, TypeOK
<1> QED BY <1>1, <1>2, <1>3, <1>4, <1>5, <1>6, <1>7 DEF Use

\* One instance owns the directory at a time, when instances start one at a
\* time: whatever crashed, was closed, refused or lost its power before, the
\* lock an opening instance removes is nobody's (OpenDurable, lockIsLive).
THEOREM SingleOwner ==
    ASSUME MaxStarting = 1
    PROVE  Spec => [](OwnInv /\ OneOwner)
<1>1. Init => OwnInv
  BY SMTT(30) DEF Init, OwnInv, LockHeld, OneStarting, SeenFresh, ReleasedUp, Owns
<1>2. TypeOK /\ OwnInv /\ [Next]_vars => OwnInv'
  <2> SUFFICES ASSUME TypeOK, OwnInv, [Next]_vars PROVE OwnInv'
    OBVIOUS
  <2> USE DEF OwnInv, LockHeld, OneStarting, SeenFresh, ReleasedUp, Owns, TypeOK
  <2>1. ASSUME NEW p \in Instances, Exit(p) PROVE OwnInv'
    BY <2>1, ZenonT(30) DEF Exit, Forget
  <2>2. CASE PowerLoss
    BY <2>2, Zenon DEF PowerLoss, Forget
  <2>3. CASE Writeback \/ UNCHANGED vars
    BY <2>3 DEF Writeback, vars
  <2> QED BY <2>1, <2>2, <2>3, OpenKeepsOwn, UseKeepsOwn, Zenon DEF Next
<1>3. OwnInv => OneOwner
  BY HeldByOne DEF OwnInv
<1> QED BY <1>1, <1>2, <1>3, TypeCorrect, PTL DEF Spec

------------------------------------------------------------------------------
\* What is renamed into place was synced before.
SyncedInv ==
    /\ NeverTorn /\ file.synced
    /\ \A p \in Instances : pc[p] = "synced" => temp[p].synced

\* The metadata file holds whole contents at all times, on disk as well as
\* for running processes: flush syncs before it renames.
THEOREM WholeFile == Spec => [](SyncedInv /\ NeverTorn)
<1>1. Init => SyncedInv
  BY DEF Init, SyncedInv, NeverTorn, Empty, Data
<1>2. TypeOK /\ SyncedInv /\ [Next]_vars => SyncedInv'
  <2> SUFFICES ASSUME TypeOK, SyncedInv, [Next]_vars PROVE SyncedInv'
    OBVIOUS
  <2> USE DEF SyncedInv, NeverTorn
  <2>2. ASSUME NEW p \in Instances, Open(p) PROVE SyncedInv'
    BY <2>2 DEF Open, Launch, Claim, Reclaim, Create, ReadLock, Probe, RemoveStale,
                WritePid, Load, Move, TypeOK
  <2>3. ASSUME NEW p \in Instances, Use(p) PROVE SyncedInv'
    <3>1. CASE Commit(p)
      BY <3>1 DEF Commit, Move, TypeOK
    <3>2. CASE WriteTemp(p)
      BY <3>2 DEF WriteTemp, Move, TypeOK
    <3>3. CASE SyncTemp(p)
      BY <3>3 DEF SyncTemp, Move, TypeOK
    <3>4. CASE Rename(p)
      BY <3>4 DEF Rename, Move, TypeOK
    <3>5. CASE Return(p) \/ Close(p)
      BY <3>5 DEF Return, Close, Move, TypeOK
    <3>6. CASE FlushFails(p)
      BY <3>6 DEF FlushFails, Move, TypeOK
    <3> QED BY <2>3, <3>1, <3>2, <3>3, <3>4, <3>5, <3>6 DEF Use
  <2>4. ASSUME NEW p \in Instances, Exit(p) PROVE SyncedInv'
    BY <2>4 DEF Exit, Forget, TypeOK
  <2>5. CASE Writeback
    BY <2>5 DEF Writeback
  <2>6. CASE PowerLoss
    BY <2>6 DEF PowerLoss, Forget, TypeOK
  <2>7. CASE UNCHANGED vars
    BY <2>7 DEF vars
  <2> QED BY <2>2, <2>3, <2>4, <2>5, <2>6, <2>7 DEF Next
<1>3. SyncedInv => NeverTorn
  BY DEF SyncedInv
<1> QED BY <1>1, <1>2, <1>3, TypeCorrect, PTL DEF Spec

------------------------------------------------------------------------------
(***************************************************************************)
(* The owner's map and the metadata file.  Between commits they are equal; *)
(* in a commit, the map Commit would put back is what the file says, and   *)
(* the staged map is one batch further.                                    *)
(***************************************************************************)
Staged(p) == \E ops \in Batches : mem[p] = Store!Apply(file.data, ops)
InStep(p) ==
    /\ pc[p] \in {"up", "renamed"} => mem[p] = file.data
    /\ pc[p] \in Flushing => prev[p] = file.data /\ Staged(p)
    /\ pc[p] \in {"written", "synced"} => temp[p].data = mem[p]
DataInv ==
    /\ \A p \in Instances : Owns(p) => InStep(p)
    /\ \A p \in Instances : pc[p] \in Committing => ~released[p]

\* A step of p keeps the others in step when it leaves the file alone, or
\* when there is no other owner.
LEMMA OthersInStep ==
    ASSUME TypeOK, DataInv, NEW p \in Instances,
           \A q \in Instances \ {p} :
              /\ pc'[q] = pc[q] /\ released'[q] = released[q]
              /\ mem'[q] = mem[q] /\ prev'[q] = prev[q] /\ temp'[q] = temp[q],
           file' = file \/ \A q \in Instances \ {p} : ~Owns(q),
           Owns(p)' => InStep(p)',
           pc'[p] \in Committing => ~released'[p]
    PROVE  DataInv'
<1>1. ASSUME NEW q \in Instances \ {p}, Owns(q)' PROVE InStep(q)'
  <2>1. Owns(q) /\ file' = file
    BY <1>1, SMTT(30) DEF Owns
  <2>2. InStep(q)
    BY <2>1 DEF DataInv
  <2> QED BY <2>1, <2>2 DEF InStep, Staged
<1>2. ASSUME NEW q \in Instances, pc'[q] \in Committing PROVE ~released'[q]
  BY <1>2 DEF DataInv
<1> QED BY <1>1, <1>2 DEF DataInv

\* Every step keeps the owner's map and the file in step, as long as nobody
\* commits to a store it has closed.
LEMMA DataStep ==
    ASSUME TypeOK, OneOwner, DataInv, ~LateCommits, [Next]_vars
    PROVE  DataInv'
<1>1. ASSUME NEW p \in Instances, Open(p) PROVE DataInv'
  <2>1. CASE Load(p)
    <3>1. Owns(p)' => InStep(p)'
      BY <2>1 DEF Load, Move, Owns, InStep, TypeOK
    <3> QED BY <2>1, <3>1, OthersInStep, SMTT(30) DEF Load, Move, TypeOK
  <2>2. CASE ~Load(p)
    <3>1. /\ UNCHANGED <<mem, prev, temp, file, released>>
          /\ \E to \in Starting \cup {"closed", "pid", "load"} :
                pc' = [pc EXCEPT ![p] = to]
      BY <1>1, <2>2 DEF Open, Launch, Claim, ReadLock, Probe, RemoveStale, Reclaim,
                        Create, WritePid, Move
    <3>2. pc'[p] \notin {"up"} \cup Committing
      BY <3>1 DEF TypeOK
    <3>3. InStep(p)'
      BY <3>2 DEF InStep
    <3> QED BY <3>1, <3>2, <3>3, OthersInStep DEF TypeOK
  <2> QED BY <2>1, <2>2, SMTT(30)
<1>2. ASSUME NEW p \in Instances, Commit(p) PROVE DataInv'
  <2>1. PICK ops \in Batches : mem' = [mem EXCEPT ![p] = Store!Apply(@, ops)]
    BY <1>2, Zenon DEF Commit
  <2>2. Owns(p) /\ mem[p] = file.data
    BY <1>2 DEF Commit, Move, Owns, DataInv, InStep
  <2>3. mem'[p] = Store!Apply(file.data, ops) /\ file' = file
    BY <1>2, <2>1, <2>2 DEF Commit, TypeOK
  <2>4. InStep(p)'
    BY <1>2, <2>2, <2>3 DEF Commit, Move, InStep, Staged, TypeOK
  <2>5. \A q \in Instances \ {p} : mem'[q] = mem[q]
    BY <2>1 DEF TypeOK
  <2> QED BY <1>2, <2>4, <2>5, OthersInStep DEF Commit, Move, TypeOK
<1>3. ASSUME NEW p \in Instances, WriteTemp(p) PROVE DataInv'
  <2>1. Owns(p) /\ InStep(p)
    BY <1>3 DEF WriteTemp, Move, Owns, DataInv
  <2>2. InStep(p)'
    BY <1>3, <2>1 DEF WriteTemp, Move, InStep, Staged, TypeOK
  <2> QED BY <1>3, <2>1, <2>2, OthersInStep, SMTT(30) DEF WriteTemp, Move, Owns, TypeOK
<1>4. ASSUME NEW p \in Instances, SyncTemp(p) PROVE DataInv'
  <2>1. Owns(p) /\ InStep(p)
    BY <1>4 DEF SyncTemp, Move, Owns, DataInv
  <2>2. InStep(p)'
    BY <1>4, <2>1, SMTT(30) DEF SyncTemp, Move, InStep, Staged, TypeOK
  <2> QED BY <1>4, <2>1, <2>2, OthersInStep DEF SyncTemp, Move, Owns, TypeOK
<1>5. ASSUME NEW p \in Instances, Rename(p) PROVE DataInv'
  <2>1. Owns(p) /\ InStep(p)
    BY <1>5 DEF Rename, Move, Owns, DataInv
  <2>2. \A q \in Instances \ {p} : ~Owns(q)
    BY <2>1 DEF OneOwner
  <2>3. InStep(p)'
    BY <1>5, <2>1 DEF Rename, Move, InStep, TypeOK
  <2> QED BY <1>5, <2>1, <2>2, <2>3, OthersInStep DEF Rename, Move, Owns, TypeOK
<1>6. ASSUME NEW p \in Instances, Return(p) PROVE DataInv'
  <2>1. Owns(p) /\ InStep(p)
    BY <1>6 DEF Return, Move, Owns, DataInv
  <2>2. InStep(p)'
    BY <1>6, <2>1 DEF Return, Move, InStep, TypeOK
  <2> QED BY <1>6, <2>2, OthersInStep, SMTT(30) DEF Return, Move, TypeOK
<1>7. ASSUME NEW p \in Instances, FlushFails(p) PROVE DataInv'
  <2>1. Owns(p) /\ InStep(p)
    BY <1>7 DEF FlushFails, Move, Owns, DataInv
  <2>2. InStep(p)'
    BY <1>7, <2>1 DEF FlushFails, Restore, Move, InStep, TypeOK
  <2> QED BY <1>7, <2>2, OthersInStep DEF FlushFails, Restore, Move, TypeOK
<1>8. ASSUME NEW p \in Instances, Close(p) PROVE DataInv'
  <2>1. ~Owns(p)'
    BY <1>8 DEF Close, Owns, TypeOK
  <2> QED BY <1>8, <2>1, OthersInStep, Zenon DEF Close, TypeOK
<1>9. ASSUME NEW p \in Instances, Exit(p) PROVE DataInv'
  <2>1. ~Owns(p)' /\ pc'[p] = "off"
    BY <1>9, SMTT(30) DEF Exit, Forget, Owns, TypeOK
  <2> QED BY <1>9, <2>1, OthersInStep, SMTT(30) DEF Exit, Forget, TypeOK
<1>10. CASE Writeback \/ UNCHANGED vars
  BY <1>10 DEF Writeback, vars, DataInv, InStep, Staged, Owns
<1>11. CASE PowerLoss
  BY <1>11 DEF PowerLoss, Forget, DataInv, Owns
<1> QED BY <1>1, <1>2, <1>3, <1>4, <1>5, <1>6, <1>7, <1>8, <1>9, <1>10, <1>11
        DEF Next, Use

\* Outside a commit the owner answers with what a restart would load, after
\* failed flushes, crashes and power losses too (Commit puts prev back).
THEOREM MemoryIsDisk ==
    ASSUME MaxStarting = 1, ~LateCommits
    PROVE  Spec => [](DataInv /\ MemoryMatchesDisk)
<1>1. Init => DataInv
  BY DEF Init, DataInv, Owns
<1>2. TypeOK /\ OneOwner /\ DataInv /\ [Next]_vars => DataInv'
  BY DataStep
<1>3. DataInv => MemoryMatchesDisk
  BY DEF DataInv, InStep, Owns, MemoryMatchesDisk
<1> QED BY <1>1, <1>2, <1>3, TypeCorrect, SingleOwner, PTL DEF Spec

\* The durable store implements the atomic one: the file changes only by a
\* rename, to its last contents with one whole batch applied, or by a power
\* loss, to contents it had before.
THEOREM Implements ==
    ASSUME MaxStarting = 1, ~LateCommits
    PROVE  Spec => Atomic
<1>1. Init => Store!Init
  BY DEF Init, Store!Init, Empty
<1> DEFINE Steps == Store!Commit \/ Store!Settle \/ Store!Lose
<1>2. TypeOK /\ DataInv /\ SyncedInv /\ [Next]_vars => [Steps]_<<file.data, saved>>
  <2> SUFFICES ASSUME TypeOK, DataInv, SyncedInv, [Next]_vars
               PROVE  Steps \/ UNCHANGED <<file.data, saved>>
    OBVIOUS
  <2>1. ASSUME NEW p \in Instances, Rename(p) PROVE Store!Commit
    <3>1. InStep(p) /\ pc[p] = "synced"
      BY <2>1 DEF Rename, Move, Owns, DataInv
    <3>2. PICK ops \in Batches : mem[p] = Store!Apply(file.data, ops)
      BY <3>1, SMTT(30) DEF InStep, Staged
    <3>3. file'.data = Store!Apply(file.data, ops)
      BY <2>1, <3>1, <3>2, Zenon DEF Rename, InStep
    <3>4. UNCHANGED saved
      BY <2>1 DEF Rename
    <3> QED BY <3>3, <3>4 DEF Store!Commit
  <2>2. ASSUME NEW p \in Instances, Open(p) PROVE UNCHANGED <<file, saved>>
    BY <2>2 DEF Open, Launch, Claim, ReadLock, Probe, RemoveStale, Reclaim, Create,
                WritePid, Load, diskVars
  <2>3. ASSUME NEW p \in Instances, Use(p), ~Rename(p) PROVE UNCHANGED <<file, saved>>
    BY <2>3 DEF Use, Commit, WriteTemp, SyncTemp, Return, FlushFails, Close, diskVars
  <2>4. ASSUME NEW p \in Instances, Exit(p) PROVE UNCHANGED <<file, saved>>
    BY <2>4 DEF Exit, diskVars
  <2>5. CASE Writeback
    BY <2>5 DEF Writeback, Store!Settle, SyncedInv
  <2>6. CASE PowerLoss
    BY <2>6 DEF PowerLoss, Store!Lose
  <2>7. CASE UNCHANGED vars
    BY <2>7 DEF vars
  <2> QED BY <2>1, <2>2, <2>3, <2>4, <2>5, <2>6, <2>7 DEF Next
<1> QED BY <1>1, <1>2, TypeCorrect, MemoryIsDisk, WholeFile, PTL DEF Spec, Atomic, Store!Spec
==============================================================================
