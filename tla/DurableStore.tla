----------------------------- MODULE DurableStore -----------------------------
(***************************************************************************)
(* The durable store (internal/store/store.go): instances that claim a     *)
(* data directory with a lock file, load the metadata file, and commit by  *)
(* writing a temporary file, syncing it and renaming it into place.        *)
(*                                                                         *)
(* A step is one system call, or code that touches only the instance's own *)
(* memory.  An instance may crash between any two steps, and the machine   *)
(* may lose power: what was written and not synced, and a rename the       *)
(* directory did not get to disk, may then be lost.                        *)
(***************************************************************************)
EXTENDS Naturals, FiniteSets, Sequences

CONSTANTS
    Keys, Values, Absent, Batches,  \* as in AtomicStore
    Instances,      \* processes given the same data directory
    Pids,           \* process ids, positive
    MaxStarting,    \* how many instances may be starting at one time
    LateCommits,    \* whether Close may be called with commits still to come
    NoLock, Torn,   \* no lock file; a metadata file with part of its bytes
    MaxLaunches, MaxLosses          \* bounds: starts and power losses in a run

Data == [Keys -> Values \cup {Absent}]

ASSUME DurableAssumption ==
    /\ IsFiniteSet(Instances)
    /\ Absent \notin Values /\ Torn \notin Data
    /\ NoLock \notin [by: Instances, pid: Pids \cup {0}]
    /\ Pids \subseteq Nat \ {0} /\ LateCommits \in BOOLEAN
    /\ MaxStarting \in Nat /\ MaxLaunches \in Nat /\ MaxLosses \in Nat

VARIABLES
    pc,         \* where each instance is
    pid,        \* its process id
    released,   \* whether it has called Close
    seen,       \* the pid it read from a lock that was there
    mem, prev,  \* Durable.data, and Commit's prev
    temp,       \* its temporary file: contents, and whether they are synced
    lock,       \* owner.lock: who created it, and the pid in it (0: empty)
    file,       \* metadata.json, as processes see it
    saved,      \* metadata.json, as a power loss would leave it
    launches, losses

vars == <<pc, pid, released, seen, mem, prev, temp, lock, file, saved, launches, losses>>
diskVars == <<lock, file, saved>>
idVars == <<pid, released>>
memVars == <<mem, prev, temp>>
countVars == <<launches, losses>>

\* The store as its clients know it is what the metadata file says; what
\* survives a power loss is the file on disk.
Store == INSTANCE AtomicStore WITH kv <- file.data, safe <- saved

\* The batches write keys and values of the store.
ASSUME BatchAssumption ==
    \A data \in Data : \A ops \in Batches : Store!Apply(data, ops) \in Data

Empty == [k \in Keys |-> Absent]
NoTemp == [data |-> Empty, synced |-> FALSE]

\* Opening, holding the directory, committing.
Starting == {"claim", "read", "probe", "remove", "reclaim"}
Flushing == {"temp", "written", "synced"}
Committing == Flushing \cup {"renamed"}
Owning == {"pid", "load", "up"} \cup Committing
Owns(p) == pc[p] \in Owning /\ ~released[p]

Init ==
    /\ pc = [p \in Instances |-> "off"]
    /\ pid = [p \in Instances |-> 0]
    /\ released = [p \in Instances |-> FALSE]
    /\ seen = [p \in Instances |-> 0]
    /\ mem = [p \in Instances |-> Empty]
    /\ prev = [p \in Instances |-> Empty]
    /\ temp = [p \in Instances |-> NoTemp]
    /\ lock = NoLock
    /\ file = [data |-> Empty, synced |-> TRUE]
    /\ saved = Empty
    /\ launches = 0 /\ losses = 0

\* Instance p goes from one place to another.
Move(p, from, to) == pc[p] = from /\ pc' = [pc EXCEPT ![p] = to]

------------------------------------------------------------------------------
\* OpenDurable.

Launch(p) ==
    /\ Move(p, "off", "claim")
    /\ launches < MaxLaunches
    /\ Cardinality({i \in Instances : pc[i] \in Starting}) < MaxStarting
    /\ \E i \in Pids :
          /\ \A o \in Instances : pc[o] # "off" => pid[o] # i
          /\ pid' = [pid EXCEPT ![p] = i]
    /\ launches' = launches + 1
    /\ UNCHANGED <<released, seen, memVars, diskVars, losses>>

\* OpenFile with O_EXCL: the lock is created, or it exists.
Create(p, from, exists) ==
    /\ \/ /\ lock = NoLock
          /\ lock' = [by |-> p, pid |-> 0]
          /\ Move(p, from, "pid")
       \/ /\ lock # NoLock
          /\ lock' = lock
          /\ Move(p, from, exists)
    /\ UNCHANGED <<idVars, seen, memVars, file, saved, countVars>>

Claim(p) == Create(p, "claim", "read")

\* Mutant: an empty lock is nobody's.
LooksLiveEmpty(p) == IF lock = NoLock THEN TRUE ELSE lock.pid = pid[p]

\* lockIsLive reads the lock.  One it cannot read, or with nothing in it, or
\* with its own pid, counts as live.
LooksLive(p) == IF lock = NoLock THEN TRUE ELSE lock.pid \in {0, pid[p]}

ReadLock(p) ==
    /\ \/ /\ LooksLive(p)
          /\ Move(p, "read", "closed")
          /\ seen' = seen
       \/ /\ ~LooksLive(p)
          /\ Move(p, "read", "probe")
          /\ seen' = [seen EXCEPT ![p] = lock.pid]
    /\ UNCHANGED <<idVars, memVars, diskVars, countVars>>

\* Then asks whether the process is there.  Some other program may have been
\* given the pid of an instance that is gone.
Probe(p) ==
    /\ \/ Move(p, "probe", "closed")
       \/ /\ \A o \in Instances : pc[o] # "off" => pid[o] # seen[p]
          /\ Move(p, "probe", "remove")
    /\ UNCHANGED <<idVars, seen, memVars, diskVars, countVars>>

\* Remove takes the name, whoever's lock it is by now.
RemoveStale(p) ==
    /\ Move(p, "remove", "reclaim")
    /\ lock' = NoLock
    /\ UNCHANGED <<idVars, seen, memVars, file, saved, countVars>>

Reclaim(p) == Create(p, "reclaim", "closed")

\* The pid goes into the file p created, if that still is the lock.  When the
\* write fails the lock stays as it is.
WritePid(p) ==
    /\ \/ /\ Move(p, "pid", "load")
          /\ lock' = IF lock = NoLock THEN lock
                     ELSE IF lock.by # p THEN lock ELSE [lock EXCEPT !.pid = pid[p]]
       \/ /\ Move(p, "pid", "closed")
          /\ lock' = lock
    /\ UNCHANGED <<idVars, seen, memVars, file, saved, countVars>>

\* load; a metadata file it cannot read or parse releases the directory again.
Load(p) ==
    /\ \/ /\ file.data # Torn
          /\ Move(p, "load", "up")
          /\ mem' = [mem EXCEPT ![p] = file.data]
          /\ lock' = lock
       \/ /\ Move(p, "load", "closed")
          /\ mem' = mem
          /\ lock' = NoLock
    /\ UNCHANGED <<idVars, seen, prev, temp, file, saved, countVars>>

------------------------------------------------------------------------------
\* Commit, under Durable.mu from its first step to its last.

\* Mutants: a commit that flushes after each write; a failed flush that leaves
\* the staged map in memory.
CommitEach(p) ==
    /\ Move(p, "up", "temp")
    /\ released[p] => LateCommits
    /\ \E ops \in Batches : \E n \in 1..Len(ops) :
          mem' = [mem EXCEPT ![p] = Store!Apply(@, SubSeq(ops, 1, n))]
    /\ prev' = [prev EXCEPT ![p] = mem[p]]
    /\ UNCHANGED <<idVars, seen, temp, diskVars, countVars>>
RestoreNothing(p) == mem' = mem

\* The writes are staged into a copy, which takes the place of the map.
\* Nothing in it asks whether the store was closed.
Commit(p) ==
    /\ Move(p, "up", "temp")
    /\ released[p] => LateCommits
    /\ \E ops \in Batches : mem' = [mem EXCEPT ![p] = Store!Apply(@, ops)]
    /\ prev' = [prev EXCEPT ![p] = mem[p]]
    /\ UNCHANGED <<idVars, seen, temp, diskVars, countVars>>

\* flush: CreateTemp and Write.
WriteTemp(p) ==
    /\ Move(p, "temp", "written")
    /\ temp' = [temp EXCEPT ![p] = [data |-> mem[p], synced |-> FALSE]]
    /\ UNCHANGED <<idVars, seen, mem, prev, diskVars, countVars>>

SyncTemp(p) ==
    /\ Move(p, "written", "synced")
    /\ temp' = [temp EXCEPT ![p].synced = TRUE]
    /\ UNCHANGED <<idVars, seen, mem, prev, diskVars, countVars>>

Rename(p) ==
    /\ Move(p, "synced", "renamed")
    /\ file' = temp[p]
    /\ temp' = [temp EXCEPT ![p] = NoTemp]
    /\ UNCHANGED <<idVars, seen, mem, prev, lock, saved, countVars>>

\* Commit answers its caller and releases the mutex.
Return(p) ==
    /\ Move(p, "renamed", "up")
    /\ UNCHANGED <<idVars, seen, memVars, diskVars, countVars>>

\* The map as it was before the commit.
Restore(p) == mem' = [mem EXCEPT ![p] = prev[p]]

\* CreateTemp, Write, Sync, Close or Rename fails: the temporary file is
\* removed and the map put back.
FlushFails(p) ==
    /\ \E s \in Flushing : Move(p, s, "up")
    /\ Restore(p)
    /\ temp' = [temp EXCEPT ![p] = NoTemp]
    /\ UNCHANGED <<idVars, seen, prev, diskVars, countVars>>

------------------------------------------------------------------------------
\* Close removes the lock by its name, the first time, and does not take the
\* mutex: callers that did not stop in time may be in a commit.
Close(p) ==
    /\ pc[p] \in {"up"} \cup (IF LateCommits THEN Committing ELSE {})
    /\ ~released[p]
    /\ released' = [released EXCEPT ![p] = TRUE]
    /\ lock' = NoLock
    /\ UNCHANGED <<pc, pid, seen, memVars, file, saved, countVars>>

\* What an instance has in memory is gone.
Forget(P) ==
    /\ pc' = [p \in Instances |-> IF p \in P THEN "off" ELSE pc[p]]
    /\ pid' = [p \in Instances |-> IF p \in P THEN 0 ELSE pid[p]]
    /\ released' = [p \in Instances |-> p \notin P /\ released[p]]
    /\ seen' = [p \in Instances |-> IF p \in P THEN 0 ELSE seen[p]]
    /\ mem' = [p \in Instances |-> IF p \in P THEN Empty ELSE mem[p]]
    /\ prev' = [p \in Instances |-> IF p \in P THEN Empty ELSE prev[p]]
    /\ temp' = [p \in Instances |-> IF p \in P THEN NoTemp ELSE temp[p]]

\* The process ends, after Close or a refusal, or at any point by a crash.
\* Its lock and its temporary file stay where they are.
Exit(p) ==
    /\ pc[p] # "off"
    /\ Forget({p})
    /\ UNCHANGED <<diskVars, countVars>>

\* The kernel gets the directory entry to disk.  Contents not synced may
\* not be there with it.
Writeback ==
    /\ saved' = IF file.synced THEN file.data ELSE Torn
    /\ UNCHANGED <<pc, idVars, seen, memVars, lock, file, countVars>>

\* The machine loses power: every instance is gone, the metadata file is the
\* one on disk, and the lock, which is never synced, may be there, be there
\* empty, or not be there.
PowerLoss ==
    /\ losses < MaxLosses
    /\ Forget(Instances)
    /\ file' = [data |-> saved, synced |-> TRUE]
    /\ \/ lock' = lock \/ lock' = NoLock
       \/ lock # NoLock /\ lock' = [lock EXCEPT !.pid = 0]
    /\ losses' = losses + 1
    /\ UNCHANGED <<saved, launches>>

Open(p) == \/ Launch(p) \/ Claim(p) \/ ReadLock(p) \/ Probe(p) \/ RemoveStale(p)
           \/ Reclaim(p) \/ WritePid(p) \/ Load(p)
Use(p) == \/ Commit(p) \/ WriteTemp(p) \/ SyncTemp(p) \/ Rename(p) \/ Return(p)
          \/ FlushFails(p) \/ Close(p)

Next == \/ \E p \in Instances : Open(p) \/ Use(p) \/ Exit(p)
        \/ Writeback \/ PowerLoss

Spec == Init /\ [][Next]_vars

------------------------------------------------------------------------------
\* The instances, the lock and the files have their types.
TypeOK ==
    /\ pc \in [Instances -> {"off", "closed"} \cup Starting \cup Owning]
    /\ pid \in [Instances -> Pids \cup {0}] /\ seen \in [Instances -> Pids \cup {0}]
    /\ released \in [Instances -> BOOLEAN]
    /\ mem \in [Instances -> Data] /\ prev \in [Instances -> Data]
    /\ temp \in [Instances -> [data: Data, synced: BOOLEAN]]
    /\ lock \in [by: Instances, pid: Pids \cup {0}] \cup {NoLock}
    /\ file \in [data: Data \cup {Torn}, synced: BOOLEAN]
    /\ saved \in Data \cup {Torn}
    /\ launches \in 0..MaxLaunches /\ losses \in 0..MaxLosses

(***************************************************************************)
(* One instance owns the directory at a time: "the loser gets the ordinary *)
(* refusal" (OpenDurable), whatever crashed or was closed before.          *)
(***************************************************************************)
OneOwner == \A p, q \in Instances : Owns(p) /\ Owns(q) => p = q

(***************************************************************************)
(* "Memory and disk cannot disagree" (Commit): outside a commit, what the  *)
(* owner answers with is what a restart would load, failed flushes         *)
(* included.                                                               *)
(***************************************************************************)
MemoryMatchesDisk ==
    \A p \in Instances : pc[p] = "up" /\ ~released[p] => mem[p] = file.data

(***************************************************************************)
(* "A crash mid-write leaves either the previous state or the new one,     *)
(* never a truncated file" (flush), a power loss included.                 *)
(***************************************************************************)
NeverTorn == file.data # Torn /\ saved # Torn

(***************************************************************************)
(* The metadata file changes by whole commits on its last contents, across *)
(* failures, crashes and restarts, and a power loss takes back the last of *)
(* them, never part of one: the durable store implements the atomic one.   *)
(***************************************************************************)
Atomic == Store!Spec
==============================================================================
