-------------------------- MODULE TasksRecordProofs --------------------------
(***************************************************************************)
(* What an attempt's write-back can do to the record of its task: proofs   *)
(* that a tombstoned task stays gone and that no task outlives its queue;  *)
(* from the latter's invariant, that the counts of attempts in flight are  *)
(* exact and its limit is kept; and that a task is attempted no more often *)
(* than its queue allows.                                                  *)
(***************************************************************************)
EXTENDS TasksDispatchProofs, FiniteSetTheorems

USE StoreAssumption

------------------------------------------------------------------------------
\* Tombstones.

\* The worker has a copy of creation m of n that it may write back, read no
\* earlier than s.
Copy(n, m, s) ==
    \/ \E g \in Procs : att[g] # Idle /\ att[g].n = n /\ att[g].t.made = m /\ att[g].since = s
    \/ pc = "taking" /\ cur = n /\ fresh.made = m /\ s = now

\* A copy of a removed task finds its tombstone standing for as long as the
\* copy can live, so the name cannot be used again before the copy is gone.
TombInv ==
    /\ \A n \in Names : tasks[n] # NoTask =>
          tombs[n] = 0 /\ tasks[n].made \notin gone[n] /\ tasks[n].made <= made[n]
    /\ \A n \in Names : \A m \in gone[n] : m <= made[n]
    /\ \A n \in Names, m \in 1..MaxMade, s \in Nat : Copy(n, m, s) =>
          /\ m <= made[n] /\ s <= now /\ now <= s + Deadline
          /\ m \in gone[n] => tasks[n] = NoTask /\ tombs[n] >= s + TTL

\* What one operation does to one name.
Kept(n) ==
    /\ tombs'[n] = tombs[n] /\ gone'[n] = gone[n] /\ made'[n] = made[n]
    /\ \/ tasks'[n] = NoTask
       \/ /\ tasks[n] # NoTask /\ tasks'[n] # NoTask
          /\ \/ tasks'[n].made = tasks[n].made
             \/ \E s \in Nat : Copy(n, tasks'[n].made, s)
Swept(n) ==
    /\ tasks'[n] = tasks[n] /\ gone'[n] = gone[n] /\ made'[n] = made[n]
    /\ now >= tombs[n] /\ tombs'[n] = 0
Emptied(n) == tasks'[n] = NoTask /\ gone'[n] = {} /\ made'[n] = made[n]
Created(n) ==
    /\ tasks[n] = NoTask /\ now >= tombs[n] /\ tombs'[n] = 0
    /\ gone'[n] = gone[n] /\ made'[n] = made[n] + 1 /\ tasks'[n].made = made[n] + 1
Deleted(n) ==
    /\ tasks[n] # NoTask /\ tasks'[n] = NoTask /\ made'[n] = made[n]
    /\ tombs'[n] = now + TTL /\ gone'[n] = gone[n] \cup {tasks[n].made}

TombStep(n) == Kept(n) \/ Swept(n) \/ Emptied(n) \/ Created(n) \/ Deleted(n)

\* Store steps of that shape, with no new copies, keep TombInv.
LEMMA TombStepInv ==
    ASSUME Deadline < TTL, Typed, Typed', TombInv, now' = now,
           \A n \in Names : TombStep(n),
           \A n \in Names, m \in 1..MaxMade, s \in Nat : Copy(n, m, s)' => Copy(n, m, s)
    PROVE  TombInv'
  <1> USE DispatchAssumption
  <1>t. /\ now \in Nat /\ TTL \in Nat
        /\ \A n \in Names : /\ made[n] \in Nat /\ made'[n] \in Nat
                            /\ tombs[n] \in Nat /\ tombs'[n] \in Nat
                            /\ gone[n] \subseteq 1..MaxMade /\ gone'[n] \subseteq 1..MaxMade
                            /\ tasks[n] # NoTask => tasks[n].made \in 1..MaxMade
                            /\ tasks'[n] # NoTask => tasks'[n].made \in 1..MaxMade
    BY DEF Typed, TypeOK, StoreTypeOK, Task
  <1>1. ASSUME NEW n \in Names
        PROVE  /\ tasks'[n] # NoTask =>
                     tombs'[n] = 0 /\ tasks'[n].made \notin gone'[n] /\ tasks'[n].made <= made'[n]
               /\ \A m \in gone'[n] : m <= made'[n]
    <2>1. CASE Kept(n)
      <3>1. ASSUME NEW s \in Nat, tasks'[n] # NoTask, Copy(n, tasks'[n].made, s), tasks[n] # NoTask
            PROVE  tasks'[n].made \notin gone[n] /\ tasks'[n].made <= made[n]
        BY <1>t, <3>1, Zenon DEF TombInv
      <3> QED BY <1>t, <2>1, <3>1, Zenon DEF Kept, TombInv
    <2>2. CASE Swept(n) \/ Emptied(n) \/ Deleted(n)
      BY <1>t, <2>2 DEF Swept, Emptied, Deleted, TombInv
    <2>3. CASE Created(n)
      BY <1>t, <2>3 DEF Created, TombInv
    <2> QED BY <2>1, <2>2, <2>3, Zenon DEF TombStep
  <1>2. ASSUME NEW n \in Names, NEW m \in 1..MaxMade, NEW s \in Nat, Copy(n, m, s)'
        PROVE  /\ m <= made'[n] /\ s <= now' /\ now' <= s + Deadline
               /\ m \in gone'[n] => tasks'[n] = NoTask /\ tombs'[n] >= s + TTL
    <2>1. /\ m <= made[n] /\ s <= now /\ now <= s + Deadline
          /\ m \in gone[n] => tasks[n] = NoTask /\ tombs[n] >= s + TTL
      BY <1>2, Zenon DEF TombInv
    <2>2. m \in gone[n] => now < tombs[n]
      BY <1>t, <2>1
    <2>3. CASE Kept(n)
      BY <1>t, <2>1, <2>3, Zenon DEF Kept
    <2>4. CASE Swept(n) \/ Emptied(n) \/ Created(n)
      BY <1>t, <2>1, <2>2, <2>4 DEF Swept, Emptied, Created
    <2>5. CASE Deleted(n)
      BY <1>t, <2>1, <2>5 DEF Deleted
    <2> QED BY <2>3, <2>4, <2>5, Zenon DEF TombStep
  <1> QED BY <1>1, <1>2, Zenon DEF TombInv

\* The store's operations.
LEMMA SameTombStep ==
    ASSUME UNCHANGED <<tasks, tombs, gone, made>>
    PROVE  \A n \in Names : TombStep(n)
  BY Zenon DEF TombStep, Kept

\* The queue operations are such steps.
LEMMA QueueOpsTombStep ==
    ASSUME StoreTypeOK, NEW q \in Queues,
           \/ CreateQueue(q) \/ UpdateQueue(q) \/ DeleteQueue(q) \/ PurgeQueue(q)
           \/ \E s \in {"RUNNING", "PAUSED"} : SetQueueState(q, s)
    PROVE  now' = now /\ \A n \in Names : TombStep(n)
  <1>1. CASE CreateQueue(q) \/ UpdateQueue(q) \/ \E s \in {"RUNNING", "PAUSED"} : SetQueueState(q, s)
    BY <1>1, SameTombStep, Zenon DEF CreateQueue, UpdateQueue, SetQueueState
  <1>2. CASE PurgeQueue(q)
    BY <1>2, Zenon DEF PurgeQueue, Wipe, TombStep, Kept, StoreTypeOK
  <1>3. CASE DeleteQueue(q)
    <2>1. ASSUME NEW n \in Names PROVE TombStep(n)
      BY <1>3, Zenon DEF DeleteQueue, Wipe, TombStep, Kept, Emptied, StoreTypeOK
    <2> QED BY <1>3, <2>1, Zenon DEF DeleteQueue
  <1> QED BY <1>1, <1>2, <1>3, Zenon

\* DeleteTask is one: the name it tombstones had no tombstone.
LEMMA DeleteTombStep ==
    ASSUME Typed, TombInv, NEW k \in Names, DeleteTask(k) \/ DeleteTaskMissing(k)
    PROVE  now' = now /\ \A n \in Names : TombStep(n)
  <1>1. CASE DeleteTaskMissing(k)
    BY <1>1, SameTombStep, Zenon DEF DeleteTaskMissing, storeVars
  <1>2. CASE DeleteTask(k)
    <2>1. /\ tasks[k] # NoTask /\ tombs[k] = 0 /\ tasks'[k] = NoTask
          /\ \A n \in Names \ {k} : tasks'[n] = tasks[n]
          /\ made' = made /\ now' = now
      BY <1>2, Zenon DEF DeleteTask, TombInv, Typed, TypeOK, StoreTypeOK
    <2>2. k \notin Expired
      BY <2>1, Zenon DEF Expired
    <2>3. CASE tasks[k].server
      <3>1. gone' = gone /\ tombs'[k] = tombs[k]
        BY <1>2, <2>2, <2>3, Zenon DEF DeleteTask
      <3>2. \A n \in Names \ {k} : IF n \in Expired THEN tombs'[n] = 0 ELSE tombs'[n] = tombs[n]
        BY <1>2, Zenon DEF DeleteTask
      <3> QED BY <2>1, <3>1, <3>2, Zenon DEF TombStep, Kept, Swept, Expired
    <2>4. CASE ~tasks[k].server
      <3>1. /\ gone'[k] = gone[k] \cup {tasks[k].made} /\ tombs'[k] = now + TTL
            /\ \A n \in Names \ {k} : gone'[n] = gone[n]
        BY <1>2, <2>2, <2>4, ZenonT(30) DEF DeleteTask, Typed, TypeOK, StoreTypeOK
      <3>2. \A n \in Names \ {k} : IF n \in Expired THEN tombs'[n] = 0 ELSE tombs'[n] = tombs[n]
        BY <1>2, Zenon DEF DeleteTask
      <3>3. TombStep(k)
        BY <2>1, <3>1, Zenon DEF TombStep, Deleted
      <3>4. \A n \in Names \ {k} : TombStep(n)
        BY <2>1, <3>1, <3>2, Zenon DEF TombStep, Kept, Swept, Expired
      <3> QED BY <2>1, <3>3, <3>4, Zenon
    <2> QED BY <2>3, <2>4, Zenon
  <1> QED BY <1>1, <1>2, Zenon

\* CreateTask, RunTask and TakeRun are such steps.
LEMMA TaskOpsTombStep ==
    ASSUME Typed, NEW k \in Names
    PROVE  /\ CreateTask(k) => now' = now /\ \A n \in Names : TombStep(n)
           /\ RunTask(k) => now' = now /\ \A n \in Names : TombStep(n)
           /\ \A r : TakeRun(k, r) => now' = now /\ \A n \in Names : TombStep(n)
  <1>a. StoreTypeOK
    BY Zenon DEF Typed, TypeOK
  <1>1. ASSUME CreateTask(k) PROVE now' = now /\ \A n \in Names : TombStep(n)
    <2>1. PICK q \in Queues, b \in BOOLEAN, at \in now..(now + Lead) :
             tasks' = [tasks EXCEPT ![k] =
                [q |-> q, made |-> made[k] + 1, at |-> at, count |-> 0, first |-> NoTime,
                 run |-> 0, server |-> b]]
      BY <1>1, Zenon DEF CreateTask
    <2>2. tasks'[k].made = made[k] + 1 /\ \A n \in Names \ {k} : tasks'[n] = tasks[n]
      BY <1>a, <2>1, Zenon DEF StoreTypeOK
    <2>3. /\ tasks[k] = NoTask /\ now >= tombs[k] /\ tombs'[k] = 0 /\ made'[k] = made[k] + 1
          /\ \A n \in Names \ {k} : tombs'[n] = tombs[n] /\ made'[n] = made[n]
          /\ gone' = gone /\ now' = now
      BY <1>a, <1>1, Zenon DEF CreateTask, NameFree, StoreTypeOK
    <2>4. TombStep(k)
      BY <2>2, <2>3, Zenon DEF TombStep, Created
    <2>5. \A n \in Names \ {k} : TombStep(n)
      BY <2>2, <2>3, Zenon DEF TombStep, Kept
    <2> QED BY <2>3, <2>4, <2>5, Zenon
  <1>2. ASSUME UNCHANGED <<now, tombs, gone, made>>,
               \A n \in Names : \/ tasks'[n] = NoTask
                               \/ /\ tasks[n] # NoTask /\ tasks'[n] # NoTask
                                  /\ tasks'[n].made = tasks[n].made
        PROVE  now' = now /\ \A n \in Names : TombStep(n)
    BY <1>2, Zenon DEF TombStep, Kept
  <1>3. ASSUME RunTask(k) PROVE now' = now /\ \A n \in Names : TombStep(n)
    <2>1. runs + 1 \in 0..MaxRuns
      BY <1>a, <1>3 DEF RunTask, StoreTypeOK
    <2>2. tasks'[k] \in Task /\ tasks'[k].made = tasks[k].made /\ tasks[k] # NoTask
      BY <1>a, <1>3, <2>1 DEF RunTask, StoreTypeOK, Task
    <2>3. \A n \in Names \ {k} : tasks'[n] = tasks[n]
      BY <1>a, <1>3, Zenon DEF RunTask, StoreTypeOK
    <2> QED BY <1>2, <1>3, <2>2, <2>3, Zenon DEF RunTask
  <1>4. ASSUME NEW r, TakeRun(k, r) PROVE now' = now /\ \A n \in Names : TombStep(n)
    <2>1. CASE tasks' = tasks
      BY <1>2, <1>4, <2>1, Zenon DEF TakeRun
    <2>2. CASE tasks[k] # NoTask /\ tasks' = [tasks EXCEPT ![k].run = 0]
      <3>1. tasks'[k] \in Task /\ tasks'[k].made = tasks[k].made
        BY <1>a, <2>2 DEF StoreTypeOK, Task
      <3>2. \A n \in Names \ {k} : tasks'[n] = tasks[n]
        BY <1>a, <2>2, Zenon DEF StoreTypeOK
      <3> QED BY <1>2, <1>4, <2>2, <3>1, <3>2, Zenon DEF TakeRun
    <2> QED BY <1>4, <2>1, <2>2, Zenon DEF TakeRun
  <1> QED BY <1>1, <1>3, <1>4, Zenon

\* The write-back of a copy.
LEMMA UpdateTombStep ==
    ASSUME Typed, NEW k \in Names, NEW t \in Task, UpdateTask(k, t),
           \E s \in Nat : Copy(k, t.made, s)
    PROVE  now' = now /\ \A n \in Names : TombStep(n)
  <1>a. StoreTypeOK
    BY Zenon DEF Typed, TypeOK
  <1>1. \A n \in Names \ {k} : tasks'[n] = tasks[n]
    BY <1>a, Zenon DEF UpdateTask, StoreTypeOK
  <1>2. UNCHANGED <<now, tombs, gone, made>>
    BY Zenon DEF UpdateTask
  <1>3. CASE tasks[k] = NoTask
    BY <1>1, <1>2, <1>3, SMTT(30) DEF UpdateTask, TombStep, Kept
  <1>4. CASE tasks[k] # NoTask
    <2>1. tasks'[k] = MergeRun(tasks[k], t)
      BY <1>a, <1>4, Zenon DEF UpdateTask, StoreTypeOK
    <2>2. tasks[k] \in Task
      BY <1>a, <1>4, Zenon DEF StoreTypeOK
    <2>3. MergeRun(tasks[k], t).made = t.made /\ MergeRun(tasks[k], t) \in Task
      BY <2>2, Zenon DEF MergeRun, Task
    <2>4. TombStep(k)
      BY <1>2, <1>4, <2>1, <2>3, SMTT(30) DEF TombStep, Kept
    <2> QED BY <1>1, <1>2, <2>4, Zenon DEF TombStep, Kept
  <1> QED BY <1>3, <1>4, Zenon

\* The worker's steps.
NoNewCopy == \A n \in Names, m \in 1..MaxMade, s \in Nat : Copy(n, m, s)' => Copy(n, m, s)

\* An attempt that goes on with the same creation makes no new copy.
LEMMA GoNoNewCopy ==
    ASSUME Typed, NEW g \in Procs, att[g].step \in Stages, NEW s \in Stages,
           NEW t \in Task, Go(g, s, t), t.made = att[g].t.made,
           UNCHANGED <<pc, cur, fresh>>, now' = now
    PROVE  NoNewCopy
  <1>1. /\ att[g] # Idle /\ att'[g].n = att[g].n /\ att'[g].t = t
        /\ att'[g].since = att[g].since
        /\ \A h \in Procs \ {g} : att'[h] = att[h]
    BY GoFacts, HasAttempt, NotIdle
  <1> QED BY <1>1, Zenon DEF NoNewCopy, Copy

\* A step that reads a stored task and changes no record.
LEMMA ReadTombInv ==
    ASSUME Typed, TombInv, UNCHANGED <<now, tasks, tombs, gone, made>>,
           \A n \in Names, m \in 1..MaxMade, s \in Nat : Copy(n, m, s)' =>
               \/ Copy(n, m, s)
               \/ tasks[n] # NoTask /\ m = tasks[n].made /\ s <= now /\ now <= s + Deadline
    PROVE  TombInv'
  BY Zenon DEF TombInv

\* The steps of an attempt keep TombInv.
LEMMA AttemptTombInv ==
    ASSUME Deadline < TTL, Typed, Typed', TombInv, NEW g \in Procs, AttemptStep(g)
    PROVE  TombInv'
  <1> DEFINE n == att[g].n
  <1>t. ASSUME att[g].step \in Stages
        PROVE  /\ att[g] # Idle /\ n \in Names /\ att[g].t \in Task /\ att[g].since \in Nat
               /\ Copy(n, att[g].t.made, att[g].since)
    BY <1>t, HasAttempt, NotIdle, Zenon DEF Copy
  <1>1. CASE BuildFails(g) \/ Refused(g) \/ Acknowledged(g)
    <2>1. /\ att[g].step \in {"prepare", "waiting"}
          /\ \E s \in {"reread", "record", "delete"} : Go(g, s, att[g].t)
          /\ UNCHANGED <<now, tasks, tombs, gone, made, pc, cur, fresh>>
      BY <1>1, Zenon DEF BuildFails, Refused, Acknowledged, storeVars, passVars
    <2>2. NoNewCopy
      BY <1>t, <2>1, GoNoNewCopy, SMTT(30) DEF Stages
    <2> QED BY <2>1, <2>2, ReadTombInv, Zenon DEF NoNewCopy
  <1>2. CASE FailsUnsent(g) \/ Send(g)
    <2>1. /\ att[g].step = "prepare"
          /\ \E s \in {"waiting", "record"} : Go(g, s, Counted(att[g].t))
          /\ UNCHANGED <<now, tasks, tombs, gone, made, pc, cur, fresh>>
      BY <1>2, Zenon DEF FailsUnsent, Send, storeVars, passVars
    <2>2. Counted(att[g].t) \in Task /\ Counted(att[g].t).made = att[g].t.made
      BY <1>t, <2>1, CountedTyped, Zenon DEF Stages
    <2>3. NoNewCopy
      BY <2>1, <2>2, GoNoNewCopy, Zenon DEF Stages
    <2> QED BY <2>1, <2>3, ReadTombInv, SMTT(30) DEF NoNewCopy
  <1>3. CASE DeleteDone(g) \/ Drop(g)
    <2>1. /\ att[g].step \in {"delete", "drop"}
          /\ DeleteTask(n) \/ DeleteTaskMissing(n)
          /\ \E s \in {"reread", "exit"} : Go(g, s, att[g].t)
          /\ UNCHANGED <<pc, cur, fresh>>
      BY <1>3, Zenon DEF DeleteDone, Drop, passVars
    <2>2. n \in Names /\ att[g].t \in Task
      BY <1>t, <2>1, Zenon DEF Stages
    <2>3. now' = now /\ \A k \in Names : TombStep(k)
      BY <2>1, <2>2, DeleteTombStep, SMTT(30)
    <2>4. NoNewCopy
      BY <2>1, <2>2, <2>3, GoNoNewCopy, Zenon DEF Stages
    <2> QED BY <2>3, <2>4, TombStepInv, SMTT(30) DEF NoNewCopy
  <1>4. CASE RecordFailure(g) \/ StoreSchedule(g)
    <2>1. /\ att[g].step \in {"record", "store"} /\ UpdateTask(n, att[g].t)
          /\ \E s \in {"reread", "exit"} : Go(g, s, att[g].t)
          /\ UNCHANGED <<pc, cur, fresh>>
      BY <1>4, Zenon DEF RecordFailure, StoreSchedule, passVars
    <2>2. /\ n \in Names /\ att[g].t \in Task
          /\ \E s \in Nat : Copy(n, att[g].t.made, s)
      BY <1>t, <2>1, Zenon DEF Stages
    <2>3. now' = now /\ \A k \in Names : TombStep(k)
      BY <2>1, <2>2, UpdateTombStep, SMTT(30)
    <2>4. NoNewCopy
      BY <2>1, <2>2, <2>3, GoNoNewCopy, Zenon DEF Stages
    <2> QED BY <2>3, <2>4, TombStepInv, Zenon DEF NoNewCopy
  <1>5. CASE Reread(g)
    <2>1. /\ att[g].step = "reread"
          /\ UNCHANGED <<now, tasks, tombs, gone, made, pc, cur, fresh>>
      BY <1>5, Zenon DEF Reread, storeVars, passVars
    <2>2. CASE tasks[n] = NoTask
      <3>1. NoNewCopy
        BY <1>5, <1>t, <2>1, <2>2, GoNoNewCopy, ZenonT(30) DEF Reread, Stages
      <3> QED BY <2>1, <3>1, ReadTombInv, Zenon DEF NoNewCopy
    <2>3. CASE tasks[n] # NoTask
      <3>1. tasks[n] \in Task /\ Go(g, "decide", tasks[n])
        BY <1>5, <1>t, <2>1, <2>3, ZenonT(30) DEF Reread, Typed, TypeOK, StoreTypeOK, Stages
      <3>2. /\ att'[g].n = n /\ att'[g].t = tasks[n] /\ att'[g].since = att[g].since
            /\ \A h \in Procs \ {g} : att'[h] = att[h]
        BY <2>1, <3>1, GoFacts, SMTT(30) DEF Stages
      <3>3. att[g].since <= now /\ now <= att[g].since + Deadline
        BY <1>t, <2>1, Zenon DEF TombInv, Stages, Task
      <3> QED BY <2>1, <2>3, <3>2, <3>3, ReadTombInv DEF Copy
    <2> QED BY <2>2, <2>3, Zenon
  <1>6. CASE Decide(g)
    <2>1. /\ att[g].step = "decide"
          /\ UNCHANGED <<now, tasks, tombs, gone, made, pc, cur, fresh>>
      BY <1>6, ZenonT(30) DEF Decide, storeVars, passVars
    <2>2. \E s \in {"exit", "store", "drop"}, t \in Task :
             Go(g, s, t) /\ t.made = att[g].t.made
      BY <1>6, DecideGoes, Zenon
    <2>3. NoNewCopy
      BY <2>1, <2>2, GoNoNewCopy, Zenon DEF Stages
    <2> QED BY <2>1, <2>3, ReadTombInv, Zenon DEF NoNewCopy
  <1>7. CASE Exit(g)
    <2>1. /\ UNCHANGED <<now, tasks, tombs, gone, made, pc, cur, fresh>>
          /\ att'[g] = Idle /\ \A h \in Procs \ {g} : att'[h] = att[h]
      BY <1>7, Zenon DEF Exit, storeVars, passVars, Typed, TypeOK, WorkerTypeOK
    <2> QED BY <2>1, ReadTombInv, ZenonT(30) DEF Copy
  <1> QED BY <1>1, <1>2, <1>3, <1>4, <1>5, <1>6, <1>7, SMTT(30) DEF AttemptStep

\* The steps of the pass keep TombInv: what it starts is stored at that moment.
LEMMA PassTombInv ==
    ASSUME Deadline < TTL, Typed, Typed', TombInv, Pass
    PROVE  TombInv'
  <1> USE DispatchAssumption
  <1>1. CASE BeginPass \/ ListDue \/ EndPass
    <2>1. pc' # "taking" /\ UNCHANGED <<now, tasks, tombs, gone, made, att>>
      BY <1>1, Zenon DEF BeginPass, ListDue, EndPass, storeVars
    <2> QED BY <2>1, ReadTombInv, Zenon DEF Copy
  <1>2. ASSUME NEW k \in Names,
               Turn(k) \/ MarkForced(k) \/ MarkDue(k) \/ Skip(k) \/ Release(k)
        PROVE  TombInv'
    <2>1. pc' # "taking" /\ UNCHANGED <<now, tasks, tombs, gone, made, att>>
      BY <1>2, Zenon DEF Turn, MarkForced, MarkDue, Skip, Release, EndTurn, storeVars
    <2> QED BY <2>1, ReadTombInv, ZenonT(30) DEF Copy
  <1>3. ASSUME NEW k \in Names, StartDue(k) PROVE TombInv'
    <2>1. /\ tasks[k] # NoTask /\ Start(k, tasks[k], FALSE)
          /\ pc' = "walking" /\ UNCHANGED <<now, tasks, tombs, gone, made>>
      BY <1>3, Zenon DEF StartDue, StillDue, EndTurn, storeVars
    <2>2. PICK g \in Procs :
             att' = [att EXCEPT ![g] = [step |-> "prepare", n |-> k, q |-> tasks[k].q,
                                        t |-> tasks[k], forced |-> FALSE, since |-> now]]
      BY <2>1, Zenon DEF Start
    <2>3. /\ att'[g].n = k /\ att'[g].t = tasks[k] /\ att'[g].since = now
          /\ \A h \in Procs \ {g} : att'[h] = att[h]
      BY <2>2, Zenon DEF Typed, TypeOK, WorkerTypeOK
    <2>4. now <= now /\ now <= now + Deadline
      BY DEF Typed, TypeOK, StoreTypeOK
    <2> QED BY <2>1, <2>3, <2>4, ReadTombInv, ZenonT(30) DEF Copy
  <1>4. ASSUME NEW k \in Names, ReadForced(k) PROVE TombInv'
    <2>1. /\ tasks[k] # NoTask /\ fresh' = tasks[k] /\ cur = k /\ cur' = k
          /\ UNCHANGED <<now, tasks, tombs, gone, made, att>>
      BY <1>4, Zenon DEF ReadForced, StillDue, storeVars
    <2>2. now <= now /\ now <= now + Deadline
      BY DEF Typed, TypeOK, StoreTypeOK
    <2> QED BY <2>1, <2>2, ReadTombInv, ZenonT(30) DEF Copy
  <1>5. ASSUME NEW k \in Names, StartForced(k) PROVE TombInv'
    <2>1. /\ cur = k /\ pc = "taking" /\ Start(k, [fresh EXCEPT !.run = 0], TRUE)
          /\ TakeRun(k, fresh.run) /\ pc' = "walking"
      BY <1>5, Zenon DEF StartForced, EndTurn
    <2>2. now' = now /\ \A n \in Names : TombStep(n)
      BY <2>1, TaskOpsTombStep, Zenon
    <2>3. fresh \in Task
      BY <2>1, Zenon DEF Typed, TypeOK, WorkerTypeOK, PassOK
    <2>4. PICK g \in Procs :
             att' = [att EXCEPT ![g] = [step |-> "prepare", n |-> k,
                                        q |-> [fresh EXCEPT !.run = 0].q,
                                        t |-> [fresh EXCEPT !.run = 0],
                                        forced |-> TRUE, since |-> now]]
      BY <2>1, Zenon DEF Start
    <2>5. /\ att'[g].n = k /\ att'[g].t.made = fresh.made /\ att'[g].since = now
          /\ \A h \in Procs \ {g} : att'[h] = att[h]
      BY <2>3, <2>4, Zenon DEF Typed, TypeOK, WorkerTypeOK, Task
    <2>6. NoNewCopy
      BY <2>1, <2>5, Zenon DEF NoNewCopy, Copy
    <2> QED BY <2>2, <2>6, TombStepInv, Zenon DEF NoNewCopy
  <1> QED BY <1>1, <1>2, <1>3, <1>4, <1>5, ZenonT(30) DEF Pass

\* Every step keeps TombInv.
LEMMA StepTombInv ==
    ASSUME Deadline < TTL, Typed, Typed', TombInv, [Next]_vars
    PROVE  TombInv'
  <1> USE DispatchAssumption
  <1>1. CASE UNCHANGED vars \/ Cancel \/ Restart
    <2>1. UNCHANGED <<now, tasks, tombs, gone, made, att, pc, cur, fresh>>
      BY <1>1, Zenon DEF vars, workerVars, storeVars, Cancel, Restart, passVars
    <2> QED BY <2>1, ReadTombInv, ZenonT(30) DEF Copy
  <1>2. CASE Stopped \/ Crash
    <2>1. /\ pc' = "idle" /\ \A g \in Procs : att'[g] = Idle
          /\ UNCHANGED <<now, tasks, tombs, gone, made>>
      BY <1>2, Zenon DEF Stopped, Crash, Down, FreshWorker
    <2> QED BY <2>1, ReadTombInv, ZenonT(30) DEF Copy
  <1>3. CASE Client
    <2>1. UNCHANGED <<att, pc, cur, fresh>>
      BY <1>3, Zenon DEF Client, workerVars
    <2>2. StoreTypeOK
      BY Zenon DEF Typed, TypeOK
    <2>3. now' = now /\ \A n \in Names : TombStep(n)
      BY <1>3, <2>2, QueueOpsTombStep, TaskOpsTombStep, DeleteTombStep, Zenon DEF Client
    <2>4. NoNewCopy
      BY <2>1, <2>3, Zenon DEF NoNewCopy, Copy
    <2> QED BY <2>3, <2>4, TombStepInv, Zenon DEF NoNewCopy
  <1>4. CASE Tick
    <2>1. /\ now' = now + 1 /\ now \in Nat /\ pc # "taking"
          /\ UNCHANGED <<tasks, tombs, gone, made, att, pc, cur, fresh>>
          /\ \A g \in Procs : att[g] # Idle => now - att[g].since < Deadline
      BY <1>4, Zenon DEF Tick, workerVars, Typed, TypeOK, StoreTypeOK
    <2>2. ASSUME NEW n \in Names, NEW m \in 1..MaxMade, NEW s \in Nat, Copy(n, m, s)'
          PROVE  Copy(n, m, s) /\ now' <= s + Deadline
      <3>1. PICK g \in Procs : /\ att[g] # Idle /\ att[g].n = n /\ att[g].t.made = m
                               /\ att[g].since = s
        BY <2>1, <2>2, Zenon DEF Copy
      <3>2. now - s < Deadline
        BY <2>1, <3>1, Zenon
      <3>3. now' <= s + Deadline
        BY <2>1, <3>2
      <3>4. Copy(n, m, s)
        BY <3>1, ZenonT(30) DEF Copy
      <3> QED BY <3>3, <3>4, SMTT(30)
    <2>3. ASSUME NEW n \in Names
          PROVE  /\ tasks'[n] # NoTask =>
                       tombs'[n] = 0 /\ tasks'[n].made \notin gone'[n] /\ tasks'[n].made <= made'[n]
                 /\ \A m \in gone'[n] : m <= made'[n]
      BY <2>1, Zenon DEF TombInv
    <2>4. ASSUME NEW n \in Names, NEW m \in 1..MaxMade, NEW s \in Nat, Copy(n, m, s)'
          PROVE  /\ m <= made'[n] /\ s <= now' /\ now' <= s + Deadline
                 /\ m \in gone'[n] => tasks'[n] = NoTask /\ tombs'[n] >= s + TTL
      <3>1. Copy(n, m, s) /\ now' <= s + Deadline
        BY <2>2, <2>4, Zenon
      <3>2. /\ m <= made[n] /\ s <= now
            /\ m \in gone[n] => tasks[n] = NoTask /\ tombs[n] >= s + TTL
        BY <3>1, Zenon DEF TombInv
      <3>3. s <= now'
        BY <2>1, <3>2, SMTT(30)
      <3> QED BY <2>1, <3>1, <3>2, <3>3, Zenon
    <2> QED BY <2>3, <2>4, ZenonT(30) DEF TombInv
  <1> QED BY <1>1, <1>2, <1>3, <1>4, PassTombInv, AttemptTombInv, ZenonT(30) DEF Next

\* At first nothing is gone.
LEMMA InitTombInv == Init => TombInv
  BY DEF Init, StoreInit, FreshWorker, TombInv, Copy

(***************************************************************************)
(* A task removed and tombstoned never comes back by the write-back of an  *)
(* attempt that was in flight (#656), as long as no attempt outlasts       *)
(* TombstoneTTL: HTTP deadlines do not, App Engine ones may.               *)
(***************************************************************************)
THEOREM TombstonesHold == ASSUME Deadline < TTL PROVE Spec => []TombstonedStaysGone
  <1> DEFINE IInv == Typed /\ TombInv
  <1>1. Init => IInv
    BY InitTyped, InitTombInv, Zenon
  <1>2. IInv /\ [Next]_vars => IInv'
    BY StepTyped, StepTombInv, Zenon
  <1>3. IInv => TombstonedStaysGone
    BY Zenon DEF TombInv, TombstonedStaysGone
  <1> QED BY <1>1, <1>2, <1>3, PTL DEF Spec

------------------------------------------------------------------------------
\* Queues: a stored task, and every copy of it, is in the queue its name is
\* under, and that queue exists while the task does.

OwnParents == \A n \in Names : Parents[n] \subseteq {QueueOf[n]}

QueueInv ==
    /\ \A n \in Names : tasks[n] # NoTask =>
          tasks[n].q = QueueOf[n] /\ queues[QueueOf[n]] # NoQueue
    /\ \A g \in Procs : att[g] # Idle => att[g].t.q = QueueOf[att[g].n]
    /\ pc = "taking" => fresh.q = QueueOf[cur]

\* What one step does to the record of one name and to its queue.
QueueStep(n) ==
    tasks'[n] # NoTask =>
        /\ tasks'[n].q = QueueOf[n]
        /\ queues'[QueueOf[n]] # NoQueue

\* A store left alone.
LEMMA SameQueueStep ==
    ASSUME QueueInv, UNCHANGED <<tasks, queues>>
    PROVE  \A n \in Names : QueueStep(n)
  BY ZenonT(30) DEF QueueStep, QueueInv

\* DeleteTask.
LEMMA DeleteQueueStep ==
    ASSUME Typed, QueueInv, NEW k \in Names, DeleteTask(k) \/ DeleteTaskMissing(k)
    PROVE  \A n \in Names : QueueStep(n)
  BY Zenon DEF DeleteTask, DeleteTaskMissing, QueueStep, QueueInv, storeVars, Typed, TypeOK, StoreTypeOK

\* TakeRun.
LEMMA TakeRunQueueStep ==
    ASSUME Typed, QueueInv, NEW k \in Names, NEW r, TakeRun(k, r)
    PROVE  \A n \in Names : QueueStep(n)
  <1>1. CASE tasks' = tasks
    BY <1>1, Zenon DEF TakeRun, QueueStep, QueueInv
  <1>2. CASE tasks[k] # NoTask /\ tasks' = [tasks EXCEPT ![k].run = 0]
    <2>1. tasks'[k].q = tasks[k].q /\ \A n \in Names \ {k} : tasks'[n] = tasks[n]
      BY <1>2 DEF Typed, TypeOK, StoreTypeOK, Task
    <2> QED BY <1>2, <2>1, Zenon DEF TakeRun, QueueStep, QueueInv
  <1> QED BY <1>1, <1>2, Zenon DEF TakeRun

\* Clients that create tasks under their own queue.
LEMMA ClientQueueStep ==
    ASSUME OwnParents, Typed, QueueInv, Client
    PROVE  \A n \in Names : QueueStep(n)
  <1>a. StoreTypeOK
    BY ZenonT(30) DEF Typed, TypeOK
  <1>1. ASSUME NEW q \in Queues, DeleteQueue(q) \/ PurgeQueue(q)
        PROVE  \A n \in Names : QueueStep(n)
    BY <1>a, <1>1, SMTT(30) DEF DeleteQueue, PurgeQueue, Wipe, QueueStep, QueueInv, StoreTypeOK
  <1>2. ASSUME NEW q \in Queues,
               \/ CreateQueue(q) \/ UpdateQueue(q)
               \/ \E s \in {"RUNNING", "PAUSED"} : SetQueueState(q, s)
        PROVE  \A n \in Names : QueueStep(n)
    <2>1. tasks' = tasks /\ \A p \in Queues \ {q} : queues'[p] = queues[p]
      BY <1>a, <1>2 DEF CreateQueue, UpdateQueue, SetQueueState, StoreTypeOK
    <2>2. queues'[q] \in Queue
      BY <1>a, <1>2 DEF CreateQueue, UpdateQueue, SetQueueState, StoreTypeOK, Queue
    <2> QED BY <2>1, <2>2, Zenon DEF QueueStep, QueueInv
  <1>3. ASSUME NEW k \in Names, CreateTask(k) PROVE \A n \in Names : QueueStep(n)
    <2>1. PICK q \in Parents[k], b \in BOOLEAN, at \in now..(now + Lead) :
             /\ queues[q] # NoQueue
             /\ tasks' = [tasks EXCEPT ![k] =
                  [q |-> q, made |-> made[k] + 1, at |-> at, count |-> 0, first |-> NoTime,
                   run |-> 0, server |-> b]]
      BY <1>3, Zenon DEF CreateTask
    <2>2. q = QueueOf[k]
      BY Zenon DEF OwnParents
    <2>3. tasks'[k].q = q /\ \A n \in Names \ {k} : tasks'[n] = tasks[n]
      BY <1>a, <2>1, Zenon DEF StoreTypeOK
    <2> QED BY <1>3, <2>1, <2>2, <2>3, ZenonT(30) DEF CreateTask, QueueStep, QueueInv
  <1>4. ASSUME NEW k \in Names, RunTask(k) PROVE \A n \in Names : QueueStep(n)
    <2>1. /\ tasks[k] # NoTask /\ tasks'[k].q = tasks[k].q
          /\ \A n \in Names \ {k} : tasks'[n] = tasks[n]
      BY <1>a, <1>4, SMTT(30) DEF RunTask, StoreTypeOK, Task
    <2> QED BY <1>4, <2>1, Zenon DEF RunTask, QueueStep, QueueInv
  <1> QED BY <1>1, <1>2, <1>3, <1>4, DeleteQueueStep, Zenon DEF Client

\* An attempt that goes on with a task of its queue.
LEMMA GoQueueInv ==
    ASSUME Typed, QueueInv, NEW g \in Procs, att[g].step \in Stages,
           NEW s \in Stages, NEW t \in Task, Go(g, s, t), t.q = QueueOf[att[g].n],
           UNCHANGED <<pc, cur, fresh>>, \A n \in Names : QueueStep(n)
    PROVE  QueueInv'
  <1>1. /\ att[g] # Idle /\ att'[g].n = att[g].n /\ att'[g].t = t
        /\ \A h \in Procs \ {g} : att'[h] = att[h]
    BY GoFacts, HasAttempt, NotIdle
  <1> QED BY <1>1, ZenonT(30) DEF QueueInv, QueueStep

\* The steps of an attempt keep QueueInv.
LEMMA AttemptQueueInv ==
    ASSUME Typed, QueueInv, NEW g \in Procs, AttemptStep(g)
    PROVE  QueueInv'
  <1> DEFINE n == att[g].n
  <1>t. ASSUME att[g].step \in Stages
        PROVE  n \in Names /\ att[g].t \in Task /\ att[g].t.q = QueueOf[n]
    BY <1>t, HasAttempt, NotIdle, Zenon DEF QueueInv
  <1>1. CASE BuildFails(g) \/ Refused(g) \/ Acknowledged(g)
    <2>1. /\ att[g].step \in {"prepare", "waiting"}
          /\ \E s \in {"reread", "record", "delete"} : Go(g, s, att[g].t)
          /\ UNCHANGED <<tasks, queues, pc, cur, fresh>>
      BY <1>1, Zenon DEF BuildFails, Refused, Acknowledged, storeVars, passVars
    <2> QED BY <1>t, <2>1, SameQueueStep, GoQueueInv, ZenonT(30) DEF Stages
  <1>2. CASE FailsUnsent(g) \/ Send(g)
    <2>1. /\ att[g].step = "prepare"
          /\ \E s \in {"waiting", "record"} : Go(g, s, Counted(att[g].t))
          /\ UNCHANGED <<tasks, queues, pc, cur, fresh>>
      BY <1>2, Zenon DEF FailsUnsent, Send, storeVars, passVars
    <2>2. Counted(att[g].t) \in Task /\ Counted(att[g].t).q = QueueOf[n]
      BY <1>t, <2>1, CountedTyped, Zenon DEF Stages
    <2> QED BY <2>1, <2>2, SameQueueStep, GoQueueInv, ZenonT(30) DEF Stages
  <1>3. CASE DeleteDone(g) \/ Drop(g)
    <2>1. /\ att[g].step \in {"delete", "drop"}
          /\ DeleteTask(n) \/ DeleteTaskMissing(n)
          /\ \E s \in {"reread", "exit"} : Go(g, s, att[g].t)
          /\ UNCHANGED <<pc, cur, fresh>>
      BY <1>3, Zenon DEF DeleteDone, Drop, passVars
    <2>2. n \in Names /\ att[g].t \in Task
      BY <1>t, <2>1, Zenon DEF Stages
    <2>3. \A k \in Names : QueueStep(k)
      BY <2>1, <2>2, DeleteQueueStep, Zenon
    <2> QED BY <1>t, <2>1, <2>3, GoQueueInv, Zenon DEF Stages
  <1>4. CASE RecordFailure(g) \/ StoreSchedule(g)
    <2>1. /\ att[g].step \in {"record", "store"} /\ UpdateTask(n, att[g].t)
          /\ \E s \in {"reread", "exit"} : Go(g, s, att[g].t)
          /\ UNCHANGED <<pc, cur, fresh>>
      BY <1>4, Zenon DEF RecordFailure, StoreSchedule, passVars
    <2>2. n \in Names /\ att[g].t \in Task /\ att[g].t.q = QueueOf[n]
      BY <1>t, <2>1, ZenonT(30) DEF Stages
    <2>3. /\ queues' = queues /\ \A m \in Names \ {n} : tasks'[m] = tasks[m]
          /\ \/ tasks'[n] = NoTask
             \/ tasks[n] # NoTask /\ tasks'[n] = MergeRun(tasks[n], att[g].t)
      BY <2>1, <2>2, Zenon DEF UpdateTask, Typed, TypeOK, StoreTypeOK
    <2>4. MergeRun(tasks[n], att[g].t).q = QueueOf[n]
      BY <2>2, Zenon DEF MergeRun, Task
    <2>5. QueueStep(n)
      BY <2>2, <2>3, <2>4, ZenonT(30) DEF QueueStep, QueueInv
    <2>6. \A m \in Names : QueueStep(m)
      BY <2>3, <2>5, ZenonT(30) DEF QueueStep, QueueInv
    <2> HIDE DEF n
    <2> QED BY <2>1, <2>2, <2>6, GoQueueInv, Zenon DEF Stages, n
  <1>5. CASE Reread(g)
    <2>1. att[g].step = "reread" /\ UNCHANGED <<tasks, queues, pc, cur, fresh>>
      BY <1>5, ZenonT(30) DEF Reread, storeVars, passVars
    <2>2. tasks[n] # NoTask => tasks[n] \in Task /\ tasks[n].q = QueueOf[n]
      BY <1>t, <2>1, Zenon DEF Typed, TypeOK, StoreTypeOK, QueueInv, Stages
    <2>3. PICK s \in {"exit", "decide"}, t \in Task : Go(g, s, t) /\ t.q = QueueOf[n]
      BY <1>5, <1>t, <2>1, <2>2, Zenon DEF Reread, Stages
    <2> QED BY <2>1, <2>3, SameQueueStep, GoQueueInv, Zenon DEF Stages
  <1>6. CASE Decide(g)
    <2>1. att[g].step = "decide" /\ UNCHANGED <<tasks, queues, pc, cur, fresh>>
      BY <1>6, Zenon DEF Decide, storeVars, passVars
    <2>2. \E s \in {"exit", "store", "drop"}, t \in Task :
             Go(g, s, t) /\ t.q = QueueOf[n]
      BY <1>6, <1>t, <2>1, DecideGoes, ZenonT(30) DEF Stages
    <2> QED BY <2>1, <2>2, SameQueueStep, GoQueueInv, ZenonT(30) DEF Stages
  <1>7. CASE Exit(g)
    <2>1. /\ UNCHANGED <<tasks, queues, pc, cur, fresh>>
          /\ att'[g] = Idle /\ \A h \in Procs \ {g} : att'[h] = att[h]
      BY <1>7, ZenonT(30) DEF Exit, storeVars, passVars, Typed, TypeOK, WorkerTypeOK
    <2> QED BY <2>1, Zenon DEF QueueInv
  <1> QED BY <1>1, <1>2, <1>3, <1>4, <1>5, <1>6, <1>7, ZenonT(30) DEF AttemptStep

\* A start of a task of its own queue.
LEMMA StartQueueInv ==
    ASSUME Typed, QueueInv, NEW k \in Names, NEW t \in Task, NEW f, Start(k, t, f),
           t.q = QueueOf[k], pc' = "walking", \A n \in Names : QueueStep(n)
    PROVE  QueueInv'
  <1>1. PICK g \in Procs :
           att' = [att EXCEPT ![g] = [step |-> "prepare", n |-> k, q |-> t.q, t |-> t,
                                      forced |-> f, since |-> now]]
    BY Zenon DEF Start
  <1>2. /\ att'[g].n = k /\ att'[g].t = t
        /\ \A h \in Procs \ {g} : att'[h] = att[h]
    BY <1>1, Zenon DEF Typed, TypeOK, WorkerTypeOK
  <1> QED BY <1>2, Zenon DEF QueueInv, QueueStep

\* Every step keeps QueueInv.
LEMMA StepQueueInv ==
    ASSUME OwnParents, Typed, QueueInv, [Next]_vars
    PROVE  QueueInv'
  <1>0. ASSUME UNCHANGED <<att, tasks, queues>>, pc' = "taking" => UNCHANGED <<pc, cur, fresh>>
        PROVE  QueueInv'
    BY <1>0, Zenon DEF QueueInv
  <1>1. CASE UNCHANGED vars \/ Tick \/ Cancel \/ Restart
    BY <1>0, <1>1, Zenon DEF vars, workerVars, storeVars, Tick, Cancel, Restart, passVars
  <1>2. CASE Stopped \/ Crash
    <2>1. /\ pc' = "idle" /\ \A g \in Procs : att'[g] = Idle
          /\ UNCHANGED <<tasks, queues>>
      BY <1>2, ZenonT(30) DEF Stopped, Crash, Down, FreshWorker
    <2> QED BY <2>1, Zenon DEF QueueInv
  <1>3. CASE Client
    <2>1. UNCHANGED <<att, pc, cur, fresh>>
      BY <1>3, ZenonT(30) DEF Client, workerVars
    <2> QED BY <1>3, <2>1, ClientQueueStep, Zenon DEF QueueInv, QueueStep
  <1>4. CASE BeginPass \/ ListDue \/ EndPass
    BY <1>0, <1>4, Zenon DEF BeginPass, ListDue, EndPass, storeVars
  <1>5. ASSUME NEW k \in Names,
               Turn(k) \/ MarkForced(k) \/ MarkDue(k) \/ Skip(k) \/ Release(k)
        PROVE  QueueInv'
    BY <1>0, <1>5, Zenon DEF Turn, MarkForced, MarkDue, Skip, Release, EndTurn, storeVars
  <1>6. ASSUME NEW k \in Names, StartDue(k) PROVE QueueInv'
    <2>1. /\ tasks[k] # NoTask /\ Start(k, tasks[k], FALSE)
          /\ pc' = "walking" /\ UNCHANGED <<tasks, queues>>
      BY <1>6, Zenon DEF StartDue, StillDue, EndTurn, storeVars
    <2>2. tasks[k] \in Task /\ tasks[k].q = QueueOf[k]
      BY <2>1, Zenon DEF QueueInv, Typed, TypeOK, StoreTypeOK
    <2> QED BY <2>1, <2>2, SameQueueStep, StartQueueInv, Zenon
  <1>7. ASSUME NEW k \in Names, ReadForced(k) PROVE QueueInv'
    BY <1>7, Zenon DEF ReadForced, StillDue, QueueInv, storeVars
  <1>8. ASSUME NEW k \in Names, StartForced(k) PROVE QueueInv'
    <2>1. /\ cur = k /\ pc = "taking" /\ Start(k, [fresh EXCEPT !.run = 0], TRUE)
          /\ TakeRun(k, fresh.run) /\ pc' = "walking"
      BY <1>8, Zenon DEF StartForced, EndTurn
    <2>2. fresh \in Task /\ fresh.q = QueueOf[k]
      BY <2>1, Zenon DEF Typed, TypeOK, WorkerTypeOK, PassOK, QueueInv
    <2>3. [fresh EXCEPT !.run = 0] \in Task /\ [fresh EXCEPT !.run = 0].q = QueueOf[k]
      BY <2>2 DEF Task
    <2> QED BY <2>1, <2>3, TakeRunQueueStep, StartQueueInv, Zenon
  <1> QED BY <1>1, <1>2, <1>3, <1>4, <1>5, <1>6, <1>7, <1>8, AttemptQueueInv, ZenonT(30) DEF Next, Pass

\* At first there are no tasks.
LEMMA InitQueueInv == Init => QueueInv
  BY InitEmpty, Zenon DEF QueueInv

(***************************************************************************)
(* No task outlives its queue when clients create tasks under their own    *)
(* queue: DeleteQueue removes them all, and UpdateTask's check that the    *)
(* task is still there lets no attempt in flight bring one back.           *)
(***************************************************************************)
THEOREM QueuesOutliveTasks == ASSUME OwnParents PROVE Spec => []TasksHaveQueues
  <1> DEFINE IInv == Typed /\ QueueInv
  <1>1. Init => IInv
    BY InitTyped, InitQueueInv, Zenon
  <1>2. IInv /\ [Next]_vars => IInv'
    BY StepTyped, StepQueueInv, SMTT(30)
  <1>3. IInv => TasksHaveQueues
    BY Zenon DEF QueueInv, TasksHaveQueues
  <1> QED BY <1>1, <1>2, <1>3, PTL DEF Spec

------------------------------------------------------------------------------
HIDE StoreAssumption

\* Counts: startAll counts under the queue the task was listed with, start
\* counts back under that of the record it read again; they are one queue.

DueOwn == \A n \in Names : due[n] # NoTask => due[n].q = QueueOf[n]
AttOwn == \A g \in Procs : att[g] # Idle => att[g].q = QueueOf[att[g].n]

OfQueue(q) == {g \in Active : att[g].q = q}
PassHolds(q) == Holding /\ due[cur].q = q
Counts == \A q \in Queues :
    perQueue[q] = Cardinality(OfQueue(q)) + (IF PassHolds(q) THEN 1 ELSE 0)

CountInv == DueOwn /\ AttOwn /\ Counts

\* What the pass lists is a stored task, under the queue it is in.
LEMMA ListedFrom ==
    ASSUME Typed, [Next]_vars
    PROVE  \A n \in Names : \/ due'[n] \in {NoTask, due[n]}
                            \/ tasks[n] # NoTask /\ due'[n].q = tasks[n].q
  <1>0. due \in [Names -> [q: Queues, run: 0..MaxRuns] \cup {NoTask}]
    BY Zenon DEF Typed, TypeOK, WorkerTypeOK
  <1>1. CASE ListDue
    <2>1. ASSUME NEW n \in Names, due'[n] # NoTask
          PROVE  tasks[n] # NoTask /\ due'[n].q = tasks[n].q
      <3>1. tasks[n] # NoTask /\ due'[n] = [q |-> tasks[n].q, run |-> tasks[n].run]
        BY <1>1, <2>1, SMTT(30) DEF ListDue, DueTasks
      <3> QED BY <3>1, SMTT(30)
    <2> QED BY <2>1, Zenon
  <1>2. ASSUME NEW n \in Names, EndTurn(n)
        PROVE  \A m \in Names : due'[m] \in {NoTask, due[m]}
    BY <1>0, <1>2, Zenon DEF EndTurn
  <1>3. CASE EndPass \/ Stopped \/ Crash
    BY <1>3, Zenon DEF EndPass, Stopped, Crash, Down, FreshWorker
  <1>4. CASE UNCHANGED due
    BY <1>4, Zenon
  <1>5. CASE UNCHANGED vars \/ Client \/ Tick \/ BeginPass \/ Cancel \/ Restart
    BY <1>4, <1>5, Zenon DEF vars, workerVars, Client, Tick, BeginPass, Cancel, Restart, passVars
  <1>6. ASSUME NEW n \in Names,
               Turn(n) \/ MarkForced(n) \/ MarkDue(n) \/ ReadForced(n)
        PROVE  UNCHANGED due
    BY <1>6, Zenon DEF Turn, MarkForced, MarkDue, ReadForced, passVars
  <1>7. ASSUME NEW n \in Names, Skip(n) \/ Release(n) \/ StartDue(n) \/ StartForced(n)
        PROVE  \A m \in Names : due'[m] \in {NoTask, due[m]}
    BY <1>2, <1>7, ZenonT(30) DEF Skip, Release, StartDue, StartForced
  <1>8. CASE \E g \in Procs : AttemptStep(g)
    BY <1>4, <1>8, SMTT(30) DEF AttemptStep, BuildFails, FailsUnsent, Send, Acknowledged, Refused,
       DeleteDone, RecordFailure, Reread, Decide, Drop, StoreSchedule, Exit, passVars
  <1>9. CASE Pass
    BY <1>1, <1>3, <1>4, <1>5, <1>6, <1>7, <1>9, ZenonT(30) DEF Pass
  <1> QED BY <1>3, <1>5, <1>8, <1>9, ZenonT(30) DEF Next

LEMMA StepDueOwn ==
    ASSUME Typed, QueueInv, DueOwn, [Next]_vars
    PROVE  DueOwn'
  BY ListedFrom, Zenon DEF DueOwn, QueueInv

\* Steps that keep the marks keep the counts.
LEMMA KeepsCounts ==
    ASSUME AttOwn, Counts, KeepsMarks
    PROVE  AttOwn' /\ Counts'
  <1>1. AttOwn'
    BY Zenon DEF AttOwn, KeepsMarks
  <1>2. \A q \in Queues : OfQueue(q)' = OfQueue(q)
    BY Zenon DEF OfQueue, Active, KeepsMarks
  <1>3. \A q \in Queues : PassHolds(q)' <=> PassHolds(q)
    BY Zenon DEF PassHolds, KeepsMarks
  <1> QED BY <1>1, <1>2, <1>3, SMTT(30) DEF Counts, KeepsMarks

\* The goroutines are finitely many, and so are those of a queue.
LEMMA OfQueueFinite ==
    ASSUME IsFiniteSet(Procs), NEW q
    PROVE  IsFiniteSet(OfQueue(q)) /\ Cardinality(OfQueue(q)) \in Nat
  <1>1. OfQueue(q) \in SUBSET Procs
    BY SMTT(30) DEF OfQueue, Active
  <1> QED BY <1>1, FS_Subset, FS_CardinalityType, Zenon

\* Marking counts one up, under the queue the pass then holds a mark of.
LEMMA MarkCounts ==
    ASSUME IsFiniteSet(Procs), Typed, AttOwn, Counts,
           NEW n \in Names, MarkForced(n) \/ MarkDue(n)
    PROVE  AttOwn' /\ Counts'
  <1>1. /\ pc = "turn" /\ cur = n /\ pc' = "marked" /\ UNCHANGED <<att, cur, due>>
        /\ perQueue' = [perQueue EXCEPT ![due[n].q] = @ + 1]
    BY Zenon DEF MarkForced, MarkDue, Mark, passVars
  <1>2. perQueue \in [Queues -> Int]
    BY Zenon DEF Typed, TypeOK, WorkerTypeOK
  <1>3. AttOwn' /\ \A q : OfQueue(q)' = OfQueue(q)
    BY <1>1, Zenon DEF AttOwn, OfQueue, Active
  <1>4. \A q \in Queues : ~PassHolds(q) /\ (PassHolds(q)' <=> q = due[n].q)
    BY <1>1, Zenon DEF PassHolds, Holding
  <1>5. \A q \in Queues : perQueue'[q] = perQueue[q] + (IF q = due[n].q THEN 1 ELSE 0)
    BY <1>1, <1>2
  <1>6. \A q \in Queues : Cardinality(OfQueue(q)) \in Nat
    BY OfQueueFinite, SMTT(30)
  <1>7. ASSUME NEW q \in Queues
        PROVE  perQueue'[q] = Cardinality(OfQueue(q)') + (IF PassHolds(q)' THEN 1 ELSE 0)
    <2>1. perQueue[q] = Cardinality(OfQueue(q)) + 0
      BY <1>4, Zenon DEF Counts
    <2>2. CASE q = due[n].q
      <3>1. perQueue'[q] = perQueue[q] + 1
        BY <1>5, <2>2, Zenon
      <3>2. perQueue'[q] = Cardinality(OfQueue(q)) + 1
        BY <1>6, <2>1, <3>1
      <3> QED BY <1>3, <1>4, <2>2, <3>2, Zenon
    <2>3. CASE q # due[n].q
      <3>1. perQueue'[q] = perQueue[q] + 0
        BY <1>5, <2>3, Zenon
      <3>2. perQueue'[q] = Cardinality(OfQueue(q)) + 0
        BY <1>6, <2>1, <3>1
      <3> QED BY <1>3, <1>4, <2>3, <3>2, Zenon
    <2> QED BY <2>2, <2>3, Zenon
  <1> QED BY <1>3, <1>7, Zenon DEF Counts

\* A release counts it back.
LEMMA ReleaseCounts ==
    ASSUME IsFiniteSet(Procs), Typed, AttOwn, Counts, NEW n \in Names, Release(n)
    PROVE  AttOwn' /\ Counts'
  <1>1. /\ pc = "marked" /\ cur = n /\ pc' = "walking" /\ att' = att
        /\ perQueue' = [perQueue EXCEPT ![due[n].q] = @ - 1]
    BY Zenon DEF Release, Unmark, EndTurn
  <1>2. perQueue \in [Queues -> Int]
    BY SMTT(30) DEF Typed, TypeOK, WorkerTypeOK
  <1>3. AttOwn' /\ \A q : OfQueue(q)' = OfQueue(q)
    BY <1>1, SMTT(30) DEF AttOwn, OfQueue, Active
  <1>4. \A q \in Queues : ~PassHolds(q)' /\ (PassHolds(q) <=> q = due[n].q)
    BY <1>1, Zenon DEF PassHolds, Holding
  <1>5. \A q \in Queues : perQueue'[q] = perQueue[q] - (IF q = due[n].q THEN 1 ELSE 0)
    BY <1>1, <1>2
  <1>6. \A q \in Queues : Cardinality(OfQueue(q)) \in Nat
    BY OfQueueFinite, SMTT(30)
  <1>7. ASSUME NEW q \in Queues
        PROVE  perQueue'[q] = Cardinality(OfQueue(q)') + (IF PassHolds(q)' THEN 1 ELSE 0)
    <2>1. CASE q = due[n].q
      <3>1. perQueue[q] = Cardinality(OfQueue(q)) + 1 /\ perQueue'[q] = perQueue[q] - 1
        BY <1>4, <1>5, <2>1, Zenon DEF Counts
      <3>2. perQueue'[q] = Cardinality(OfQueue(q)) + 0
        BY <1>6, <3>1
      <3> QED BY <1>3, <1>4, <3>2, Zenon
    <2>2. CASE q # due[n].q
      <3>1. perQueue[q] = Cardinality(OfQueue(q)) + 0 /\ perQueue'[q] = perQueue[q] - 0
        BY <1>4, <1>5, <2>2, Zenon DEF Counts
      <3>2. perQueue'[q] = Cardinality(OfQueue(q)) + 0
        BY <1>6, <3>1
      <3> QED BY <1>3, <1>4, <3>2, Zenon
    <2> QED BY <2>1, <2>2, Zenon
  <1> QED BY <1>3, <1>7, Zenon DEF Counts

\* A start hands the count of the pass to the attempt.
LEMMA StartCounts ==
    ASSUME IsFiniteSet(Procs), Typed, QueueInv, DueOwn, AttOwn, Counts,
           NEW n \in Names, StartDue(n) \/ StartForced(n)
    PROVE  AttOwn' /\ Counts'
  <1>1. /\ pc \in {"marked", "taking"} /\ cur = n /\ pc' = "walking" /\ perQueue' = perQueue
    BY ZenonT(30) DEF StartDue, StartForced, EndTurn, markVars
  <1>2. PICK t, f : Start(n, t, f) /\ t.q = QueueOf[n]
    <2>1. CASE StartDue(n)
      <3>1. tasks[n] # NoTask /\ Start(n, tasks[n], FALSE)
        BY <2>1, Zenon DEF StartDue, StillDue
      <3> QED BY <3>1, Zenon DEF QueueInv
    <2>2. CASE StartForced(n)
      <3>1. pc = "taking" /\ Start(n, [fresh EXCEPT !.run = 0], TRUE)
        BY <2>2, Zenon DEF StartForced
      <3>2. fresh \in Task /\ fresh.q = QueueOf[n]
        BY <1>1, <3>1, Zenon DEF Typed, TypeOK, WorkerTypeOK, PassOK, QueueInv
      <3>3. [fresh EXCEPT !.run = 0].q = QueueOf[n]
        BY <3>2, Zenon DEF Task
      <3> QED BY <3>1, <3>3, Zenon
    <2> QED BY <2>1, <2>2, Zenon
  <1>3. PICK g \in Procs :
           /\ att[g] = Idle
           /\ att' = [att EXCEPT ![g] = [step |-> "prepare", n |-> n, q |-> t.q, t |-> t,
                                         forced |-> f, since |-> now]]
    BY <1>2, Zenon DEF Start
  <1>4. /\ att'[g] # Idle /\ att'[g].n = n /\ att'[g].q = QueueOf[n]
        /\ \A h \in Procs \ {g} : att'[h] = att[h]
    BY <1>2, <1>3, ZenonT(30) DEF Typed, TypeOK, WorkerTypeOK, Idle
  <1>5. AttOwn'
    BY <1>4, ZenonT(30) DEF AttOwn
  <1>6. due[n].q = QueueOf[n] /\ \A q : PassHolds(q) <=> q = QueueOf[n]
    BY <1>1, Zenon DEF Typed, PassOK, DueOwn, PassHolds, Holding
  <1>7. \A q : ~PassHolds(q)'
    BY <1>1, SMTT(30) DEF PassHolds, Holding
  <1>8. ASSUME NEW q \in Queues
        PROVE  perQueue'[q] = Cardinality(OfQueue(q)') + (IF PassHolds(q)' THEN 1 ELSE 0)
    <2>1. CASE q = QueueOf[n]
      <3>1. OfQueue(q)' = OfQueue(q) \cup {g} /\ g \notin OfQueue(q)
        BY <1>3, <1>4, <2>1, Zenon DEF OfQueue, Active
      <3>2. Cardinality(OfQueue(q)') = Cardinality(OfQueue(q)) + 1
        BY <3>1, OfQueueFinite, FS_AddElement, ZenonT(30)
      <3>3. perQueue[q] = Cardinality(OfQueue(q)) + 1
        BY <1>6, <2>1, ZenonT(30) DEF Counts
      <3> QED BY <1>1, <1>7, <3>2, <3>3, OfQueueFinite, SMTT(30)
    <2>2. CASE q # QueueOf[n]
      <3>1. OfQueue(q)' = OfQueue(q)
        BY <1>3, <1>4, <2>2, SMTT(30) DEF OfQueue, Active
      <3> QED BY <1>1, <1>6, <1>7, <2>2, <3>1, OfQueueFinite, ZenonT(30) DEF Counts
    <2> QED BY <2>1, <2>2, Zenon
  <1> QED BY <1>5, <1>8, Zenon DEF Counts

\* The end of an attempt counts it back.
LEMMA ExitCounts ==
    ASSUME IsFiniteSet(Procs), Typed, AttOwn, Counts, NEW g \in Procs, Exit(g)
    PROVE  AttOwn' /\ Counts'
  <1>1. att[g] # Idle /\ att[g].q \in Queues
    BY HasAttempt, NotIdle, SMTT(30) DEF Exit, Stages
  <1>2. att'[g] = Idle /\ \A h \in Procs \ {g} : att'[h] = att[h]
    BY SMTT(30) DEF Exit, Typed, TypeOK, WorkerTypeOK
  <1>3. perQueue \in [Queues -> Int]
    BY Zenon DEF Typed, TypeOK, WorkerTypeOK
  <1>7. /\ UNCHANGED <<pc, cur, due>>
        /\ perQueue' = [perQueue EXCEPT ![att[g].q] = @ - 1]
    BY Zenon DEF Exit, Unmark, passVars
  <1>4. AttOwn'
    BY <1>2, Zenon DEF AttOwn
  <1>5. \A q : PassHolds(q)' <=> PassHolds(q)
    BY <1>7, SMTT(30) DEF PassHolds, Holding
  <1>6. ASSUME NEW q \in Queues
        PROVE  perQueue'[q] = Cardinality(OfQueue(q)') + (IF PassHolds(q)' THEN 1 ELSE 0)
    <2>1. CASE q = att[g].q
      <3>1. OfQueue(q)' = OfQueue(q) \ {g} /\ g \in OfQueue(q)
        BY <1>1, <1>2, <2>1, ZenonT(30) DEF OfQueue, Active
      <3>2. Cardinality(OfQueue(q)') = Cardinality(OfQueue(q)) - 1
        BY <3>1, OfQueueFinite, FS_RemoveElement, Zenon
      <3>3. perQueue'[q] = perQueue[q] - 1
        BY <1>3, <1>7, <2>1, SMTT(30)
      <3>4. Cardinality(OfQueue(q)) \in Nat
        BY OfQueueFinite, Zenon
      <3>5. CASE PassHolds(q)
        <4>1. perQueue[q] = Cardinality(OfQueue(q)) + 1
          BY <3>5, Zenon DEF Counts
        <4>2. perQueue'[q] = Cardinality(OfQueue(q)') + 1
          BY <3>2, <3>3, <3>4, <4>1
        <4> QED BY <1>5, <3>5, <4>2, Zenon
      <3>6. CASE ~PassHolds(q)
        <4>1. perQueue[q] = Cardinality(OfQueue(q)) + 0
          BY <3>6, Zenon DEF Counts
        <4>2. perQueue'[q] = Cardinality(OfQueue(q)') + 0
          BY <3>2, <3>3, <3>4, <4>1
        <4> QED BY <1>5, <3>6, <4>2, Zenon
      <3> QED BY <3>5, <3>6, Zenon
    <2>2. CASE q # att[g].q
      <3>1. OfQueue(q)' = OfQueue(q)
        BY <1>1, <1>2, <2>2 DEF OfQueue, Active
      <3>2. perQueue'[q] = perQueue[q]
        BY <1>3, <1>7, <2>2, SMTT(30)
      <3> QED BY <1>5, <3>1, <3>2, ZenonT(30) DEF Counts
    <2> QED BY <2>1, <2>2, ZenonT(30)
  <1> QED BY <1>4, <1>6, Zenon DEF Counts

\* No goroutine, no count.
LEMMA FreshCounts ==
    ASSUME \A g \in Procs : att[g] = Idle, \A q \in Queues : perQueue[q] = 0, ~Holding
    PROVE  AttOwn /\ Counts
  <1>1. \A q : OfQueue(q) = {}
    BY Zenon DEF OfQueue, Active
  <1> QED BY <1>1, FS_EmptySet DEF AttOwn, Counts, PassHolds

\* Every step keeps CountInv.
LEMMA StepCountInv ==
    ASSUME IsFiniteSet(Procs), Typed, QueueInv, CountInv, [Next]_vars
    PROVE  CountInv'
  <1>1. DueOwn'
    BY StepDueOwn, Zenon DEF CountInv
  <1>2. CASE Stopped \/ Crash
    <2>1. /\ \A g \in Procs : att'[g] = Idle
          /\ \A q \in Queues : perQueue'[q] = 0
          /\ pc' = "idle"
      BY <1>2, Zenon DEF Stopped, Crash, Down, FreshWorker
    <2>2. \A q : OfQueue(q)' = {}
      BY <2>1, Zenon DEF OfQueue, Active
    <2>3. AttOwn'
      BY <2>1, Zenon DEF AttOwn
    <2>4. \A q : ~PassHolds(q)'
      BY <2>1, Zenon DEF PassHolds, Holding
    <2>5. Counts'
      <3>1. \A q \in Queues : Cardinality(OfQueue(q)') = 0
        BY <2>2, FS_EmptySet, SMTT(30)
      <3> QED BY <2>1, <2>4, <3>1 DEF Counts
    <2> QED BY <1>1, <2>3, <2>5, ZenonT(30) DEF CountInv
  <1>3. CASE ~(Stopped \/ Crash)
    BY <1>1, <1>3, StepsKeepMarks, KeepsCounts, MarkCounts, ReleaseCounts, StartCounts,
       ExitCounts, SMTT(30)
    DEF CountInv, MarkStep
  <1> QED BY <1>2, <1>3, Zenon

(***************************************************************************)
(* The marks and counts are exact, for any queues, tasks and goroutines    *)
(* and across restarts, when clients create tasks under their own queue: a *)
(* pass or an attempt counts back what was counted for it, whatever is     *)
(* done to the task meanwhile, so no queue is slowed by a count leaked.    *)
(***************************************************************************)
THEOREM CountsExact == ASSUME OwnParents, IsFiniteSet(Procs) PROVE Spec => []MarksExact
  <1> DEFINE IInv == Typed /\ MarkInv /\ QueueInv /\ CountInv
  <1>1. Init => IInv
    <2>1. Init => CountInv
      <3> SUFFICES ASSUME Init PROVE CountInv
        BY Zenon
      <3>1. /\ \A g \in Procs : att[g] = Idle
            /\ \A q \in Queues : perQueue[q] = 0
            /\ ~Holding /\ \A n \in Names : due[n] = NoTask
        BY Zenon DEF Init, FreshWorker, Holding
      <3> QED BY <3>1, FreshCounts, Zenon DEF CountInv, DueOwn
    <2> QED BY <2>1, InitTyped, InitMarkInv, InitQueueInv, SMTT(30)
  <1>2. IInv /\ [Next]_vars => IInv'
    BY StepTyped, StepMarkInv, StepQueueInv, StepCountInv, SMTT(30)
  <1>3. IInv => MarksExact
    <2> SUFFICES ASSUME IInv PROVE MarksExact
      BY SMTT(30)
    <2>1. \A g \in Active : att[g].n \in Names
      BY ActiveTyped, SMTT(30) DEF Active
    <2>2. Holding => cur \in Names
      BY Zenon DEF Typed, PassOK, Holding
    <2>3. inflight = {att[g].n : g \in Active} \cup (IF Holding THEN {cur} ELSE {})
      <3> DEFINE held == {att[g].n : g \in Active} \cup (IF Holding THEN {cur} ELSE {})
      <3>1. inflight \subseteq Names /\ \A n \in Names : n \in inflight <=> Held(n)
        BY Zenon DEF MarkInv, Typed, TypeOK, WorkerTypeOK
      <3>2. \A n \in Names : Held(n) <=> n \in held
        BY Zenon DEF Held, Active
      <3>3. held \subseteq Names
        BY <2>1, <2>2, Zenon
      <3> HIDE DEF held
      <3>4. inflight = held
        BY <3>1, <3>2, <3>3, Zenon
      <3> QED BY <3>4, SMTT(30) DEF held
    <2> QED BY <2>3, Zenon DEF CountInv, Counts, OfQueue, PassHolds, MarksExact
  <1> QED BY <1>1, <1>2, <1>3, PTL DEF Spec

------------------------------------------------------------------------------
\* Limits: while the pass holds the mark of a scheduled task, the queue has
\* fewer scheduled attempts than the limit the pass has read for it.

PassDue(q) == PassHolds(q) /\ due[cur].run = 0
RoomHeld == \A q \in Queues : PassDue(q) => Cardinality(Scheduled(q)) < limits[q]

\* The limit that is read is the queue's, at the turn of a task listed under
\* it, and none changes while the pass holds a mark.
LEMMA LimitsRead ==
    ASSUME Typed, [Next]_vars
    PROVE  \/ UNCHANGED limits
           \/ /\ ~Holding'
              /\ \A q \in Queues :
                    \/ limits'[q] \in {0, limits[q]}
                    \/ /\ limits'[q] = LimitOf(q)
                       /\ \E n \in Names : due[n] # NoTask /\ due[n].q = q
  <1>0. limits \in [Queues -> Nat]
    BY Zenon DEF Typed, TypeOK, WorkerTypeOK
  <1>1. CASE ListDue \/ EndPass \/ Stopped \/ Crash
    <2>1. \A q \in Queues : limits'[q] = 0
      BY <1>1, Zenon DEF ListDue, EndPass, Stopped, Crash, Down, FreshWorker
    <2>2. ~Holding'
      BY <1>1, Zenon DEF ListDue, EndPass, Stopped, Crash, Down, FreshWorker, Holding
    <2> QED BY <2>1, <2>2, Zenon
  <1>2. ASSUME NEW n \in Names, Turn(n)
        PROVE  /\ ~Holding'
               /\ \A q \in Queues :
                     \/ limits'[q] \in {0, limits[q]}
                     \/ limits'[q] = LimitOf(q) /\ due[n] # NoTask /\ due[n].q = q
    <2>1. ~Holding' /\ due[n] # NoTask
      BY <1>2, Zenon DEF Turn, Holding
    <2>2. \A q \in Queues : limits'[q] = limits[q] \/ (limits'[q] = LimitOf(q) /\ due[n].q = q)
      BY <1>0, <1>2, Zenon DEF Turn
    <2> QED BY <2>1, <2>2, Zenon
  <1>3. CASE UNCHANGED vars \/ Client \/ Tick \/ BeginPass \/ Cancel \/ Restart
    BY <1>3, Zenon
    DEF vars, workerVars, Client, Tick, BeginPass, Cancel, Restart, passVars
  <1>4. ASSUME NEW n \in Names, \/ MarkForced(n) \/ MarkDue(n) \/ Skip(n) \/ Release(n)
                                \/ StartDue(n) \/ ReadForced(n) \/ StartForced(n)
        PROVE  UNCHANGED limits
    <2>1. CASE MarkForced(n) \/ MarkDue(n) \/ ReadForced(n)
      BY <2>1, Zenon DEF MarkForced, MarkDue, ReadForced, passVars
    <2>2. CASE Skip(n) \/ Release(n) \/ StartDue(n) \/ StartForced(n)
      BY <2>2, ZenonT(30) DEF Skip, Release, StartDue, StartForced, EndTurn
    <2> QED BY <1>4, <2>1, <2>2, Zenon
  <1>5. CASE \E g \in Procs : AttemptStep(g)
    BY <1>5, Zenon DEF AttemptStep, BuildFails, FailsUnsent, Send, Acknowledged, Refused,
       DeleteDone, RecordFailure, Reread, Decide, Drop, StoreSchedule, Exit, passVars
  <1>6. CASE Pass
    BY <1>1, <1>2, <1>3, <1>4, <1>6, ZenonT(30) DEF Pass
  <1> QED BY <1>1, <1>3, <1>5, <1>6, ZenonT(30) DEF Next

\* The scheduled attempts are some of those counted.
LEMMA ScheduledFinite ==
    ASSUME IsFiniteSet(Procs), NEW q
    PROVE  /\ IsFiniteSet(Scheduled(q)) /\ Cardinality(Scheduled(q)) \in Nat
           /\ Cardinality(Scheduled(q)) <= Cardinality(OfQueue(q))
  <1>1. Scheduled(q) \in SUBSET OfQueue(q)
    BY Zenon DEF Scheduled, OfQueue
  <1>2. /\ IsFiniteSet(Scheduled(q))
        /\ Cardinality(Scheduled(q)) <= Cardinality(OfQueue(q))
    BY <1>1, OfQueueFinite, FS_Subset, Zenon
  <1> QED BY <1>2, FS_CardinalityType, Zenon

\* A set that a step makes no larger has no larger count.
LEMMA CountFalls ==
    ASSUME IsFiniteSet(Procs), NEW q, Scheduled(q)' \subseteq Scheduled(q)
    PROVE  /\ Cardinality(Scheduled(q)') \in Nat
           /\ Cardinality(Scheduled(q)') <= Cardinality(Scheduled(q))
  <1>1. Scheduled(q)' \in SUBSET Scheduled(q)
    BY Zenon
  <1>2. /\ IsFiniteSet(Scheduled(q)')
        /\ Cardinality(Scheduled(q)') <= Cardinality(Scheduled(q))
    BY <1>1, ScheduledFinite, FS_Subset, Zenon
  <1> QED BY <1>2, FS_CardinalityType, Zenon

\* What a step does to the scheduled attempts: one is added, to a queue whose
\* mark the pass holds and gives up, or none is.
NoneStarts == \A q \in Queues : Scheduled(q)' \subseteq Scheduled(q)
OneStarts(p) ==
    /\ PassDue(p) /\ ~Holding'
    /\ Cardinality(Scheduled(p)') = Cardinality(Scheduled(p)) + 1
    /\ \A q \in Queues \ {p} : Scheduled(q)' \subseteq Scheduled(q)

\* Attempts that stay as they are, or go, are none that start.
LEMMA NoneStartsIf ==
    ASSUME \A g \in Procs : att'[g] # Idle =>
              /\ att[g] # Idle
              /\ att'[g].q = att[g].q /\ att'[g].forced = att[g].forced
    PROVE  NoneStarts
  BY Zenon DEF NoneStarts, Scheduled, Active

\* A start of a task under its queue.
LEMMA StartAdds ==
    ASSUME IsFiniteSet(Procs), Typed, NEW n \in Names, NEW t, NEW f \in BOOLEAN,
           Start(n, t, f), t.q = QueueOf[n], QueueOf[n] \in Queues, pc' = "walking",
           ~f => PassDue(QueueOf[n])
    PROVE  NoneStarts \/ OneStarts(QueueOf[n])
  <1>0. att \in [Procs -> Attempt \cup {Idle}]
    BY Zenon DEF Typed, TypeOK, WorkerTypeOK
  <1>1. PICK g \in Procs :
           /\ att[g] = Idle
           /\ att' = [att EXCEPT ![g] = [step |-> "prepare", n |-> n, q |-> t.q, t |-> t,
                                         forced |-> f, since |-> now]]
    BY Zenon DEF Start
  <1>2. /\ att'[g] # Idle /\ att'[g].q = QueueOf[n] /\ att'[g].forced = f
        /\ \A h \in Procs \ {g} : att'[h] = att[h]
    BY <1>0, <1>1, ZenonT(30) DEF Idle
  <1>3. CASE f
    BY <1>2, <1>3, Zenon DEF NoneStarts, Scheduled, Active
  <1>4. CASE ~f
    <2>1. /\ Scheduled(QueueOf[n])' = Scheduled(QueueOf[n]) \cup {g}
          /\ g \notin Scheduled(QueueOf[n])
      BY <1>1, <1>2, <1>4, Zenon DEF Scheduled, Active
    <2>2. Cardinality(Scheduled(QueueOf[n])') = Cardinality(Scheduled(QueueOf[n])) + 1
      BY <2>1, ScheduledFinite, FS_AddElement, Zenon
    <2>3. \A q \in Queues \ {QueueOf[n]} : Scheduled(q)' \subseteq Scheduled(q)
      BY <1>2, Zenon DEF Scheduled, Active
    <2>4. PassDue(QueueOf[n]) /\ ~Holding'
      BY <1>4, Zenon DEF Holding
    <2> QED BY <2>2, <2>3, <2>4, Zenon DEF OneStarts
  <1> QED BY <1>3, <1>4, Zenon

LEMMA StepStarts ==
    ASSUME IsFiniteSet(Procs), Typed, QueueInv, CountInv, [Next]_vars
    PROVE  NoneStarts \/ \E p \in Queues : OneStarts(p)
  <1>0. att \in [Procs -> Attempt \cup {Idle}]
    BY Zenon DEF Typed, TypeOK, WorkerTypeOK
  <1>1. CASE KeepsMarks
    BY <1>1, NoneStartsIf, Zenon DEF KeepsMarks
  <1>2. ASSUME NEW g \in Procs, Exit(g) PROVE NoneStarts
    <2>1. att'[g] = Idle /\ \A h \in Procs \ {g} : att'[h] = att[h]
      BY <1>0, <1>2, Zenon DEF Exit
    <2> QED BY <2>1, NoneStartsIf, Zenon
  <1>3. ASSUME NEW n \in Names, MarkForced(n) \/ MarkDue(n) \/ Release(n) PROVE NoneStarts
    <2>1. att' = att
      BY <1>3, Zenon DEF MarkForced, MarkDue, Release
    <2> QED BY <2>1, NoneStartsIf, Zenon
  <1>4. CASE Stopped \/ Crash
    <2>1. \A g \in Procs : att'[g] = Idle
      BY <1>4, Zenon DEF Stopped, Crash, Down, FreshWorker
    <2> QED BY <2>1, NoneStartsIf, Zenon
  <1>q. \A n \in Names : QueueOf[n] \in Queues
    BY StoreAssumption, Zenon
  <1>5. ASSUME NEW n \in Names, StartDue(n) PROVE NoneStarts \/ OneStarts(QueueOf[n])
    <2>1. /\ tasks[n] # NoTask /\ Start(n, tasks[n], FALSE) /\ pc' = "walking"
          /\ pc = "marked" /\ cur = n /\ due[n].run = 0
      BY <1>5, ZenonT(30) DEF StartDue, StillDue, EndTurn
    <2>2. tasks[n].q = QueueOf[n] /\ PassDue(QueueOf[n])
      BY <2>1, Zenon DEF QueueInv, CountInv, DueOwn, Typed, PassOK, PassDue, PassHolds, Holding
    <2> QED BY <1>q, <2>1, <2>2, StartAdds, Zenon
  <1>6. ASSUME NEW n \in Names, StartForced(n) PROVE NoneStarts \/ OneStarts(QueueOf[n])
    <2>1. pc = "taking" /\ cur = n /\ Start(n, [fresh EXCEPT !.run = 0], TRUE)
          /\ pc' = "walking"
      BY <1>6, Zenon DEF StartForced, EndTurn
    <2>2. fresh \in Task /\ fresh.q = QueueOf[n]
      BY <2>1, Zenon DEF Typed, TypeOK, WorkerTypeOK, PassOK, QueueInv
    <2>3. [fresh EXCEPT !.run = 0].q = QueueOf[n]
      BY <2>2, Zenon DEF Task
    <2> QED BY <1>q, <2>1, <2>3, StartAdds, Zenon
  <1>7. KeepsMarks \/ MarkStep
    BY StepsKeepMarks, Zenon
  <1> QED
    BY <1>q, <1>1, <1>2, <1>3, <1>4, <1>5, <1>6, <1>7, ZenonT(30) DEF MarkStep

\* There is room from the mark, which takes the count below the limit that was
\* read, to the start.
LEMMA StepRoomHeld ==
    ASSUME IsFiniteSet(Procs), Typed, QueueInv, CountInv, RoomHeld, [Next]_vars
    PROVE  RoomHeld'
  \* A mark the pass held before.
  <1>1. ASSUME NEW q \in Queues, PassDue(q), PassDue(q)'
        PROVE  Cardinality(Scheduled(q)') < limits'[q]
    <2>1. Holding' /\ Cardinality(Scheduled(q)) < limits[q]
      BY <1>1, Zenon DEF RoomHeld, PassDue, PassHolds
    <2>2. limits'[q] = limits[q] /\ Scheduled(q)' \subseteq Scheduled(q)
      BY <2>1, LimitsRead, StepStarts, Zenon DEF NoneStarts, OneStarts
    <2>3. /\ Cardinality(Scheduled(q)') \in Nat /\ Cardinality(Scheduled(q)) \in Nat
          /\ Cardinality(Scheduled(q)') <= Cardinality(Scheduled(q)) /\ limits[q] \in Nat
      BY <2>2, CountFalls, ScheduledFinite, Zenon DEF Typed, TypeOK, WorkerTypeOK
    <2> QED BY <2>1, <2>2, <2>3
  <1>2. CASE KeepsMarks
    <2>1. \A q \in Queues : PassDue(q)' => PassDue(q)
      BY <1>2, ZenonT(30) DEF KeepsMarks, PassDue, PassHolds
    <2> QED BY <1>1, <2>1, Zenon DEF RoomHeld
  <1>3. ASSUME NEW g \in Procs, Exit(g) PROVE RoomHeld'
    <2>1. \A q \in Queues : PassDue(q)' => PassDue(q)
      BY <1>3, ZenonT(30) DEF Exit, passVars, PassDue, PassHolds, Holding
    <2> QED BY <1>1, <2>1, Zenon DEF RoomHeld
  <1>4. ASSUME NEW n \in Names,
               MarkForced(n) \/ Release(n) \/ StartDue(n) \/ StartForced(n)
        PROVE  RoomHeld'
    <2>1. \A q \in Queues : ~PassDue(q)'
      <3>1. CASE MarkForced(n)
        <4>1. cur' = n /\ due'[n].run # 0
          BY <3>1, ZenonT(30) DEF MarkForced, passVars
        <4> QED BY <4>1, Zenon DEF PassDue
      <3>2. CASE Release(n) \/ StartDue(n) \/ StartForced(n)
        <4>1. pc' = "walking"
          BY <3>2, Zenon DEF Release, StartDue, StartForced, EndTurn
        <4> QED BY <4>1, Zenon DEF PassDue, PassHolds, Holding
      <3> QED BY <1>4, <3>1, <3>2, Zenon
    <2> QED BY <2>1, Zenon DEF RoomHeld
  <1>5. CASE Stopped \/ Crash
    <2>1. pc' = "idle"
      BY <1>5, Zenon DEF Stopped, Crash, Down, FreshWorker
    <2> QED BY <2>1, Zenon DEF RoomHeld, PassDue, PassHolds, Holding
  \* The pass marks a task: below the limit it read, all that is counted.
  <1>6. ASSUME NEW n \in Names, MarkDue(n) PROVE RoomHeld'
    <2>1. /\ att' = att /\ due' = due /\ limits' = limits /\ cur' = n /\ pc = "turn"
          /\ perQueue[due[n].q] < limits[due[n].q]
      BY <1>6, Zenon DEF MarkDue, CanMark, passVars
    <2>2. ASSUME NEW q \in Queues, PassDue(q)' PROVE Cardinality(Scheduled(q)') < limits'[q]
      <3>1. q = due[n].q
        BY <2>1, <2>2, Zenon DEF PassDue, PassHolds
      <3>2. perQueue[q] = Cardinality(OfQueue(q))
        <4>1. ~PassHolds(q)
          BY <2>1, ZenonT(30) DEF PassHolds, Holding
        <4> QED BY <4>1, OfQueueFinite DEF CountInv, Counts
      <3>3. Scheduled(q)' = Scheduled(q)
        BY <2>1, ZenonT(30) DEF Scheduled, Active
      <3>4. limits[q] \in Nat
        BY Zenon DEF Typed, TypeOK, WorkerTypeOK
      <3>5. Cardinality(Scheduled(q)) < limits[q]
        BY <2>1, <3>1, <3>2, <3>4, OfQueueFinite, ScheduledFinite
      <3> QED BY <2>1, <3>3, <3>5, Zenon
    <2> QED BY <2>2, Zenon DEF RoomHeld
  <1>7. KeepsMarks \/ MarkStep
    BY StepsKeepMarks, Zenon
  <1> QED BY <1>2, <1>3, <1>4, <1>5, <1>6, <1>7, ZenonT(30) DEF MarkStep

\* At first there is nothing to count.
LEMMA InitRoomHeld ==
    ASSUME IsFiniteSet(Procs), Init
    PROVE  /\ CountInv /\ RoomHeld
           /\ \A q \in Queues : Scheduled(q) = {} /\ queues[q] = NoQueue /\ limits[q] = 0
           /\ \A n \in Names : due[n] = NoTask
  <1>1. /\ \A g \in Procs : att[g] = Idle
        /\ \A q \in Queues : perQueue[q] = 0 /\ limits[q] = 0 /\ queues[q] = NoQueue
        /\ ~Holding /\ \A n \in Names : due[n] = NoTask
    BY SMTT(30) DEF Init, StoreInit, FreshWorker, Holding
  <1>2. CountInv /\ RoomHeld
    BY <1>1, FreshCounts, Zenon DEF CountInv, DueOwn, RoomHeld, PassDue, PassHolds
  <1>3. \A q \in Queues : Scheduled(q) = {}
    BY <1>1, Zenon DEF Scheduled, Active
  <1> QED BY <1>1, <1>2, <1>3, Zenon

(***************************************************************************)
(* A scheduled attempt starts only within the limit the pass has read for  *)
(* its queue, which is the limit that queue had when it was read, for any  *)
(* queues, tasks, goroutines and limits, through changes of the limit,     *)
(* deletions of the queue and restarts; forced runs ignore the limits and  *)
(* are not counted.  Clients create tasks under their own queue.           *)
(***************************************************************************)
THEOREM ConcurrencyKept ==
    ASSUME OwnParents, IsFiniteSet(Procs)
    PROVE  Spec => WithinConcurrency
  <1> DEFINE IInv == Typed /\ QueueInv /\ CountInv /\ RoomHeld
             A == \A q \in Queues :
                     /\ Scheduled(q)' \subseteq Scheduled(q)
                        \/ Cardinality(Scheduled(q)') <= limits[q]
                     /\ limits'[q] \in {0, limits[q], LimitOf(q)}
  <1>1. Init => IInv
    BY InitTyped, InitQueueInv, InitRoomHeld, Zenon
  <1>2. IInv /\ [Next]_vars => IInv'
    BY StepTyped, StepQueueInv, StepCountInv, StepRoomHeld, Zenon
  <1>3. IInv /\ [Next]_vars => A
    <2> SUFFICES ASSUME IInv, [Next]_vars, NEW q \in Queues
                 PROVE  /\ Scheduled(q)' \subseteq Scheduled(q)
                           \/ Cardinality(Scheduled(q)') <= limits[q]
                        /\ limits'[q] \in {0, limits[q], LimitOf(q)}
      BY Zenon
    <2>1. ASSUME OneStarts(q) PROVE Cardinality(Scheduled(q)') <= limits[q]
      <3>1. /\ Cardinality(Scheduled(q)') = Cardinality(Scheduled(q)) + 1
            /\ Cardinality(Scheduled(q)) < limits[q]
        BY <2>1, Zenon DEF OneStarts, RoomHeld
      <3>2. Cardinality(Scheduled(q)) \in Nat /\ limits[q] \in Nat
        BY ScheduledFinite, Zenon DEF Typed, TypeOK, WorkerTypeOK
      <3> QED BY <3>1, <3>2
    <2>2. Scheduled(q)' \subseteq Scheduled(q) \/ OneStarts(q)
      BY StepStarts, Zenon DEF NoneStarts, OneStarts
    <2>3. limits'[q] \in {0, limits[q], LimitOf(q)}
      BY LimitsRead, Zenon
    <2> QED BY <2>1, <2>2, <2>3, Zenon
  <1>4. IInv /\ [Next]_vars => [A]_vars
    BY <1>3, Zenon
  <1> HIDE DEF IInv
  <1> QED BY <1>1, <1>2, <1>4, PTL DEF Spec, WithinConcurrency

\* Nobody changes a queue's limit: the operations clients make leave out
\* UpdateQueue and DeleteQueue.
FixedLimits == "UpdateQueue" \notin Ops /\ "DeleteQueue" \notin Ops

\* Then what a pass lists and what is out is of queues there are, and a limit
\* that was read is still the queue's.
FixedInv ==
    /\ \A n \in Names : due[n] # NoTask => queues[due[n].q] # NoQueue
    /\ \A q \in Queues : limits[q] # 0 => queues[q] # NoQueue /\ limits[q] = queues[q].config.conc
    /\ \A q \in Queues : Scheduled(q) # {} => queues[q] # NoQueue
    /\ OwnLimitKept

\* A queue there is stays, and keeps its configuration.
LEMMA QueuesStay ==
    ASSUME FixedLimits, Typed, [Next]_vars, NEW q \in Queues, queues[q] # NoQueue
    PROVE  queues'[q] # NoQueue /\ queues'[q].config = queues[q].config
  <1>0. queues \in [Queues -> Queue \cup {NoQueue}]
    BY Zenon DEF Typed, TypeOK, StoreTypeOK
  <1>1. CASE UNCHANGED queues
    BY <1>1, Zenon
  <1>2. CASE Client
    <2>1. ASSUME NEW p \in Queues, CreateQueue(p) PROVE queues'[q] = queues[q]
      BY <1>0, <2>1, Zenon DEF CreateQueue
    <2>2. ASSUME NEW p \in Queues, NEW s \in {"PAUSED", "RUNNING"}, SetQueueState(p, s)
          PROVE  queues'[q] # NoQueue /\ queues'[q].config = queues[q].config
      <3>1. queues' = [queues EXCEPT ![p].state = s] /\ queues[q] \in Queue
        BY <1>0, <2>2, Zenon DEF SetQueueState
      <3>2. CASE q = p
        <4>1. queues'[q] = [queues[q] EXCEPT !.state = s]
          BY <1>0, <3>1, <3>2, Zenon
        <4>2. queues'[q] \in Queue /\ queues'[q].config = queues[q].config
          BY <2>2, <3>1, <4>1 DEF Queue
        <4> QED BY <4>2, StoreAssumption, Zenon
      <3>3. CASE q # p
        BY <1>0, <3>1, <3>3, Zenon
      <3> QED BY <3>2, <3>3, Zenon
    <2>3. ASSUME NEW p \in Queues, PurgeQueue(p) PROVE queues'[q] = queues[q]
      BY <2>3, Zenon DEF PurgeQueue
    <2>4. ASSUME NEW n \in Names, CreateTask(n) \/ DeleteTask(n) \/ RunTask(n)
          PROVE  queues'[q] = queues[q]
      BY <2>4, Zenon DEF CreateTask, DeleteTask, RunTask
    <2> QED BY <1>2, <2>1, <2>2, <2>3, <2>4, ZenonT(30) DEF Client, FixedLimits
  <1>3. CASE Pass
    BY <1>1, <1>3, Zenon
    DEF Pass, BeginPass, ListDue, EndPass, Turn, MarkForced, MarkDue, Skip, Release,
        StartDue, ReadForced, StartForced, TakeRun, storeVars
  <1>4. CASE \E g \in Procs : AttemptStep(g)
    BY <1>1, <1>4, ZenonT(30)
    DEF AttemptStep, BuildFails, FailsUnsent, Send, Acknowledged, Refused, DeleteDone,
        RecordFailure, Reread, Decide, Drop, StoreSchedule, Exit, DeleteTask,
        DeleteTaskMissing, UpdateTask, storeVars
  <1>5. CASE UNCHANGED vars \/ Tick \/ Cancel \/ Stopped \/ Crash \/ Restart
    BY <1>1, <1>5, ZenonT(30) DEF vars, Tick, Cancel, Stopped, Crash, Down, Restart, storeVars
  <1> QED BY <1>2, <1>3, <1>4, <1>5, SMTT(30) DEF Next

\* Configured limits are numbers.
LEMMA OwnConc ==
    ASSUME Typed, NEW q \in Queues, queues[q] # NoQueue
    PROVE  queues[q].config.conc \in Nat
  <1>1. queues[q] \in Queue
    BY Zenon DEF Typed, TypeOK, StoreTypeOK
  <1> QED BY <1>1, Zenon DEF Queue, Config

LEMMA StepFixed ==
    ASSUME FixedLimits, IsFiniteSet(Procs), Typed, Typed', QueueInv, CountInv, RoomHeld, FixedInv,
           [Next]_vars
    PROVE  FixedInv'
  <1>1. ASSUME NEW n \in Names, due'[n] # NoTask PROVE queues'[due'[n].q] # NoQueue
    <2>1. PICK q \in Queues : due'[n].q = q /\ queues[q] # NoQueue
      <3>1. due'[n] = due[n] \/ (tasks[n] # NoTask /\ due'[n].q = tasks[n].q)
        BY <1>1, ListedFrom, Zenon
      <3>2. due'[n].q \in Queues
        BY <1>1, SMTT(30) DEF Typed, TypeOK, WorkerTypeOK
      <3>3. queues[due'[n].q] # NoQueue
        BY <1>1, <3>1, Zenon DEF FixedInv, QueueInv
      <3> QED BY <3>2, <3>3, Zenon
    <2> QED BY <2>1, QueuesStay, Zenon
  <1>2. ASSUME NEW q \in Queues, limits'[q] # 0
        PROVE  queues'[q] # NoQueue /\ limits'[q] = queues'[q].config.conc
    <2>1. queues[q] # NoQueue /\ limits'[q] = queues[q].config.conc
      <3>1. CASE limits'[q] = limits[q]
        BY <1>2, <3>1, Zenon DEF FixedInv
      <3>2. CASE /\ limits'[q] = LimitOf(q)
                 /\ \E n \in Names : due[n] # NoTask /\ due[n].q = q
        BY <3>2, Zenon DEF FixedInv, LimitOf
      <3> QED BY <1>2, <3>1, <3>2, LimitsRead, Zenon
    <2> QED BY <2>1, QueuesStay, Zenon
  \* The queue of a mark the pass holds.
  <1>3. ASSUME NEW q \in Queues, PassDue(q) PROVE queues[q] # NoQueue
    BY <1>3, Zenon DEF PassDue, PassHolds, Holding, Typed, PassOK, FixedInv
  <1>4. ASSUME NEW q \in Queues, queues[q] = NoQueue PROVE Scheduled(q)' = {}
    <2>1. Scheduled(q) = {} /\ ~PassDue(q)
      BY <1>3, <1>4, Zenon DEF FixedInv
    <2>2. Scheduled(q)' \subseteq Scheduled(q)
      BY <2>1, StepStarts, Zenon DEF NoneStarts, OneStarts
    <2> QED BY <2>1, <2>2, Zenon
  <1>5. ASSUME NEW q \in Queues, Scheduled(q)' # {} PROVE queues'[q] # NoQueue
    BY <1>4, <1>5, QueuesStay, Zenon
  <1>6. ASSUME NEW q \in Queues, queues'[q] # NoQueue
        PROVE  Cardinality(Scheduled(q)') <= queues'[q].config.conc
    <2>1. CASE queues[q] = NoQueue
      <3>1. Cardinality(Scheduled(q)') = 0
        BY <1>4, <2>1, FS_EmptySet, Zenon
      <3>2. queues'[q].config.conc \in Nat
        <4>1. queues'[q] \in Queue
          BY <1>6, Zenon DEF Typed, TypeOK, StoreTypeOK
        <4> QED BY <4>1, Zenon DEF Queue, Config
      <3> QED BY <3>1, <3>2
    <2>2. CASE queues[q] # NoQueue
      <3> DEFINE own == queues[q].config.conc
      <3>1. queues'[q].config.conc = own /\ own \in Nat
        BY <2>2, QueuesStay, OwnConc, Zenon
      <3>2. Cardinality(Scheduled(q)) <= own
        BY <2>2, Zenon DEF FixedInv, OwnLimitKept
      <3>3. Cardinality(Scheduled(q)) \in Nat
        BY ScheduledFinite, Zenon
      <3> HIDE DEF own
      <3>4. CASE Scheduled(q)' \subseteq Scheduled(q)
        <4>1. /\ Cardinality(Scheduled(q)') \in Nat
              /\ Cardinality(Scheduled(q)') <= Cardinality(Scheduled(q))
          BY <3>4, CountFalls, Zenon
        <4>2. Cardinality(Scheduled(q)') <= own
          BY <3>1, <3>2, <3>3, <4>1
        <4> QED BY <3>1, <4>2, Zenon
      <3>5. CASE OneStarts(q)
        <4>1. /\ Cardinality(Scheduled(q)') = Cardinality(Scheduled(q)) + 1
              /\ Cardinality(Scheduled(q)) < limits[q] /\ limits[q] \in Nat
          BY <3>5, Zenon DEF OneStarts, RoomHeld, Typed, TypeOK, WorkerTypeOK
        <4>2. limits[q] # 0
          BY <3>3, <4>1
        <4>3. limits[q] = own
          BY <4>2, Zenon DEF FixedInv, own
        <4>4. Cardinality(Scheduled(q)') <= own
          BY <3>3, <4>1, <4>3
        <4> QED BY <3>1, <4>4, Zenon
      <3> QED BY <3>4, <3>5, StepStarts, Zenon DEF NoneStarts, OneStarts
    <2> QED BY <2>1, <2>2, Zenon
  <1> QED BY <1>1, <1>2, <1>5, <1>6, Zenon DEF FixedInv, OwnLimitKept

(***************************************************************************)
(* A queue never has more scheduled attempts out than its own              *)
(* max_concurrent_dispatches, as long as nobody updates or deletes queues: *)
(* the pass starts none beyond it, and nothing a crash, a forced run or an *)
(* end does raises their number.                                           *)
(***************************************************************************)
THEOREM LimitOwn ==
    ASSUME OwnParents, IsFiniteSet(Procs), FixedLimits
    PROVE  Spec => []OwnLimitKept
  <1> DEFINE IInv == Typed /\ QueueInv /\ CountInv /\ RoomHeld /\ FixedInv
  <1>1. Init => IInv
    <2> SUFFICES ASSUME Init PROVE IInv
      BY Zenon
    <2>1. FixedInv
      BY InitRoomHeld, Zenon DEF FixedInv, OwnLimitKept
    <2> QED BY <2>1, InitTyped, InitQueueInv, InitRoomHeld, Zenon
  <1>2. IInv /\ [Next]_vars => IInv'
    BY StepTyped, StepQueueInv, StepCountInv, StepRoomHeld, StepFixed, Zenon
  <1>3. IInv => OwnLimitKept
    BY Zenon DEF FixedInv
  <1> HIDE DEF IInv
  <1> QED BY <1>1, <1>2, <1>3, PTL DEF Spec

------------------------------------------------------------------------------
ConfigsOwn == \A q \in Queues : queues[q] # NoQueue => queues[q].config \in QueueConfigs

\* A queue has a configuration a client gave it.
LEMMA StepConfigsOwn ==
    ASSUME Typed, ConfigsOwn, [Next]_vars
    PROVE  ConfigsOwn'
  <1>0. queues \in [Queues -> Queue \cup {NoQueue}]
    BY Zenon DEF Typed, TypeOK, StoreTypeOK
  <1>1. CASE UNCHANGED queues
    BY <1>1, Zenon DEF ConfigsOwn
  <1>2. CASE Client
    <2>1. ASSUME NEW q \in Queues, CreateQueue(q) PROVE ConfigsOwn'
      <3>1. PICK c \in QueueConfigs :
               queues' = [queues EXCEPT ![q] = [state |-> "RUNNING", config |-> c]]
        BY <2>1, Zenon DEF CreateQueue
      <3>2. queues'[q].config = c /\ \A p \in Queues \ {q} : queues'[p] = queues[p]
        BY <1>0, <3>1, Zenon
      <3> QED BY <3>2, Zenon DEF ConfigsOwn
    <2>2. ASSUME NEW q \in Queues, UpdateQueue(q) PROVE ConfigsOwn'
      <3>1. PICK c \in QueueConfigs : queues' = [queues EXCEPT ![q].config = c]
        BY <2>2, Zenon DEF UpdateQueue
      <3>2. queues'[q].config = c /\ \A p \in Queues \ {q} : queues'[p] = queues[p]
        BY <1>0, <2>2, <3>1, SMTT(30) DEF UpdateQueue, Queue
      <3> QED BY <3>2, Zenon DEF ConfigsOwn
    <2>3. ASSUME NEW q \in Queues, NEW s, SetQueueState(q, s) PROVE ConfigsOwn'
      <3>1. /\ queues[q] # NoQueue /\ queues'[q].config = queues[q].config
            /\ \A p \in Queues \ {q} : queues'[p] = queues[p]
        BY <1>0, <2>3, SMTT(30) DEF SetQueueState, Queue
      <3> QED BY <3>1, Zenon DEF ConfigsOwn
    <2>4. ASSUME NEW q \in Queues, DeleteQueue(q) PROVE ConfigsOwn'
      BY <1>0, <2>4, Zenon DEF DeleteQueue, ConfigsOwn
    <2>5. ASSUME NEW q \in Queues, PurgeQueue(q) PROVE ConfigsOwn'
      BY <1>1, <2>5, Zenon DEF PurgeQueue
    <2>6. ASSUME NEW n \in Names, CreateTask(n) \/ DeleteTask(n) \/ RunTask(n)
          PROVE  ConfigsOwn'
      BY <1>1, <2>6, Zenon DEF CreateTask, DeleteTask, RunTask
    <2> QED BY <1>2, <2>1, <2>2, <2>3, <2>4, <2>5, <2>6, ZenonT(30) DEF Client
  <1>3. CASE Pass
    BY <1>1, <1>3, Zenon
    DEF Pass, BeginPass, ListDue, EndPass, Turn, MarkForced, MarkDue, Skip, Release,
        StartDue, ReadForced, StartForced, TakeRun, storeVars
  <1>4. CASE \E g \in Procs : AttemptStep(g)
    BY <1>1, <1>4, ZenonT(30)
    DEF AttemptStep, BuildFails, FailsUnsent, Send, Acknowledged, Refused, DeleteDone,
        RecordFailure, Reread, Decide, Drop, StoreSchedule, Exit, DeleteTask,
       DeleteTaskMissing, UpdateTask, storeVars
  <1>5. CASE UNCHANGED vars \/ Tick \/ Cancel \/ Stopped \/ Crash \/ Restart
    BY <1>1, <1>5, ZenonT(30) DEF vars, Tick, Cancel, Stopped, Crash, Down, Restart, storeVars
  <1> QED BY <1>2, <1>3, <1>4, <1>5, SMTT(30) DEF Next

(***************************************************************************)
(* Attempts: every one of a creation is in the count of the record that    *)
(* the next is decided on, but for those a crash kept from being written.  *)
(***************************************************************************)

\* Configurations that bound the attempts, and names whose request can be built.
Limited ==
    /\ QueueConfigs # {}
    /\ \A c \in QueueConfigs : c.retry.attempts > 0 /\ c.retry.duration = 0
Buildable == \A n \in Names : Target[n] # "bad"

\* So many attempts are within what a client configured.
Room(k) == \E c \in QueueConfigs : k <= c.retry.attempts + crashes

\* An attempt of creation m is out whose count is not in the store; an attempt
\* is out that has not settled what becomes of the stored task.
Unrecorded == {"prepare", "waiting", "delete", "record"}
Open(n, m) ==
    \E g \in Procs : /\ att[g] # Idle /\ att[g].n = n /\ att[g].t.made = m
                     /\ att[g].step \in Unrecorded
Undecided(n) == \E g \in Procs : att[g] # Idle /\ att[g].n = n /\ att[g].step # "exit"

\* The name holds creation m, or one never attempted, or nothing.
Own(n, m) ==
    tasks[n] # NoTask => tasks[n].made = m \/ tries[n][tasks[n].made] = 0

MadeTries == \A n \in Names, m \in 1..MaxMade :
    (m > made[n] => tries[n][m] = 0) /\ Room(tries[n][m])
TaskTries(n) ==
    tasks[n] # NoTask =>
        /\ tasks[n].made <= made[n]
        /\ tries[n][tasks[n].made] <= tasks[n].count + 1 + crashes
        /\ Open(n, tasks[n].made) \/ tries[n][tasks[n].made] <= tasks[n].count + crashes
        /\ Undecided(n) \/ Room(tries[n][tasks[n].made] + 1)
AttTries(g) ==
    att[g] # Idle =>
        /\ att[g].t.made <= made[att[g].n]
        /\ tries[att[g].n][att[g].t.made] <= att[g].t.count + 1 + crashes
        /\ \/ att[g].step = "prepare"
           \/ tries[att[g].n][att[g].t.made] <= att[g].t.count + crashes
        /\ att[g].step = "store" => Room(tries[att[g].n][att[g].t.made] + 1)
        /\ Own(att[g].n, att[g].t.made)
FreshTries ==
    pc = "taking" =>
        /\ fresh.made <= made[cur]
        /\ tries[cur][fresh.made] <= fresh.count + crashes
        /\ Room(tries[cur][fresh.made] + 1)
        /\ Own(cur, fresh.made)
TryInv ==
    /\ MadeTries /\ FreshTries
    /\ \A n \in Names : TaskTries(n)
    /\ \A g \in Procs : AttTries(g)

\* The types of what is counted, and of the records that count.
LEMMA CountsTyped ==
    ASSUME Typed
    PROVE  /\ crashes \in Nat /\ tries \in [Names -> [1..MaxMade -> Nat]]
           /\ \A n \in Names : made[n] \in Nat
  BY DEF Typed, TypeOK, WorkerTypeOK, StoreTypeOK
LEMMA TriesTyped ==
    ASSUME Typed, NEW n \in Names, NEW m \in 1..MaxMade PROVE tries[n][m] \in Nat
  BY CountsTyped, Zenon
LEMMA TaskCounts ==
    ASSUME NEW t \in Task PROVE t.made \in 1..MaxMade /\ t.count \in Nat
  BY Zenon DEF Task
LEMMA RecordTyped ==
    ASSUME Typed, NEW n \in Names, tasks[n] # NoTask
    PROVE  /\ tasks[n] \in Task
           /\ tasks[n].made \in 1..MaxMade /\ tasks[n].count \in Nat
  <1>1. tasks[n] \in Task
    BY Zenon DEF Typed, TypeOK, StoreTypeOK
  <1> QED BY <1>1, TaskCounts, Zenon
LEMMA CopyTyped ==
    ASSUME Typed, NEW g \in Procs, att[g] # Idle
    PROVE  /\ att[g].n \in Names /\ att[g].t \in Task
           /\ att[g].t.made \in 1..MaxMade /\ att[g].t.count \in Nat
  BY ActiveTyped, TaskCounts, Zenon
LEMMA FreshTyped ==
    ASSUME Typed, pc = "taking"
    PROVE  /\ cur \in Names /\ fresh \in Task
           /\ fresh.made \in 1..MaxMade /\ fresh.count \in Nat
  <1>1. cur \in Names /\ fresh \in Task
    BY Zenon DEF Typed, TypeOK, WorkerTypeOK, PassOK
  <1> QED BY <1>1, TaskCounts, Zenon

\* A first attempt is always within a limit.
LEMMA RoomForOne == ASSUME Limited, Typed PROVE Room(0) /\ Room(1)
  <1>1. PICK c \in QueueConfigs : c.retry.attempts \in Int /\ c.retry.attempts > 0
    BY StoreAssumption, Zenon DEF Limited, Config
  <1>2. crashes \in Nat
    BY CountsTyped, Zenon
  <1> QED BY <1>1, <1>2 DEF Room

\* What a step that starts no attempt does to one name: its task goes, stays
\* with the count it had, or is a new creation.
RecordStep(n) ==
    \/ made'[n] = made[n] /\ tasks'[n] = NoTask
    \/ /\ made'[n] = made[n] /\ tasks[n] # NoTask
       /\ tasks'[n].made = tasks[n].made /\ tasks'[n].count = tasks[n].count
    \/ /\ made'[n] = made[n] + 1 /\ tasks'[n].made = made[n] + 1 /\ tasks'[n].count = 0

\* Such steps keep TryInv.
LEMMA RecordTries ==
    ASSUME Limited, Typed, Typed', TryInv, UNCHANGED <<att, tries, crashes>>,
           \A n \in Names : RecordStep(n), pc' = "taking" => UNCHANGED <<pc, cur, fresh>>
    PROVE  TryInv'
  <1>1. /\ \A k : Room(k)' <=> Room(k)
        /\ \A n, m : Open(n, m)' <=> Open(n, m)
        /\ \A n : Undecided(n)' <=> Undecided(n)
    BY Zenon DEF Room, Open, Undecided
  <1>2. ASSUME NEW n \in Names PROVE made[n] \in Nat /\ made'[n] \in Nat /\ made'[n] >= made[n]
    <2>1. made[n] \in Nat
      BY CountsTyped, Zenon
    <2>2. made'[n] = made[n] \/ made'[n] = made[n] + 1
      BY Zenon DEF RecordStep
    <2> QED BY <2>1, <2>2
  <1>3. MadeTries'
    <2>1. ASSUME NEW n \in Names, NEW m \in 1..MaxMade
          PROVE  ((m > made[n] => tries[n][m] = 0) /\ Room(tries[n][m]))'
      <3>1. (m > made[n] => tries[n][m] = 0) /\ Room(tries[n][m])
        BY Zenon DEF TryInv, MadeTries
      <3>2. m > made'[n] => m > made[n]
        BY <1>2
      <3> QED BY <1>1, <3>1, <3>2, Zenon
    <2> QED BY <2>1, Zenon DEF MadeTries
  <1>4. ASSUME NEW n \in Names, tasks'[n] # NoTask
        PROVE  /\ tasks'[n].made \in 1..MaxMade /\ tasks'[n].count \in Nat
               /\ \/ /\ tasks[n] # NoTask /\ made'[n] = made[n]
                     /\ tasks'[n].made = tasks[n].made /\ tasks'[n].count = tasks[n].count
                  \/ tasks'[n].made = made'[n] /\ tries[n][tasks'[n].made] = 0
    <2>1. tasks'[n] \in Task
      BY <1>4, Zenon DEF Typed, TypeOK, StoreTypeOK
    <2>2. tasks'[n].made \in 1..MaxMade /\ tasks'[n].count \in Nat
      BY <2>1, TaskCounts, Zenon
    <2>3. CASE made'[n] = made[n] + 1 /\ tasks'[n].made = made[n] + 1
      <3>1. made[n] + 1 > made[n]
        BY <1>2
      <3> QED BY <2>2, <2>3, <3>1, Zenon DEF TryInv, MadeTries
    <2> QED BY <1>4, <2>2, <2>3, Zenon DEF RecordStep
  <1>5. ASSUME NEW n \in Names PROVE TaskTries(n)'
    <2> SUFFICES ASSUME tasks'[n] # NoTask PROVE TaskTries(n)'
      BY Zenon DEF TaskTries
    <2>1. CASE /\ tasks[n] # NoTask /\ made'[n] = made[n]
               /\ tasks'[n].made = tasks[n].made /\ tasks'[n].count = tasks[n].count
      BY <1>1, <2>1, Zenon DEF TryInv, TaskTries
    <2>2. CASE tasks'[n].made = made'[n] /\ tries[n][tasks'[n].made] = 0
      <3>1. PICK i \in Nat : i = tasks'[n].count
        BY <1>4, Zenon
      <3>2. crashes \in Nat
        BY CountsTyped, Zenon
      <3>3. 0 <= i + 1 + crashes /\ 0 <= i + crashes /\ 0 + 1 = 1
        BY <3>2
      <3>4. made'[n] <= made'[n]
        BY <1>2
      <3> QED BY <1>1, <2>2, <3>1, <3>3, <3>4, RoomForOne, Zenon DEF TaskTries
    <2> QED BY <1>4, <2>1, <2>2, Zenon
  <1>6. ASSUME NEW n \in Names, NEW m, Own(n, m) PROVE Own(n, m)'
    BY <1>4, <1>6, Zenon DEF Own
  <1>9. ASSUME NEW n \in Names, NEW m \in Nat, m <= made[n] PROVE m <= made'[n]
    BY <1>2, <1>9
  <1>7. ASSUME NEW g \in Procs PROVE AttTries(g)'
    <2> SUFFICES ASSUME att[g] # Idle PROVE AttTries(g)'
      BY Zenon DEF AttTries
    <2>1. att[g].n \in Names /\ att[g].t.made \in Nat
      BY CopyTyped
    <2> QED BY <1>1, <1>6, <1>9, <2>1, Zenon DEF TryInv, AttTries
  <1>8. FreshTries'
    <2> SUFFICES ASSUME pc' = "taking" PROVE FreshTries'
      BY Zenon DEF FreshTries
    <2>1. pc = "taking" /\ cur' = cur /\ fresh' = fresh /\ cur \in Names /\ fresh.made \in Nat
      BY FreshTyped
    <2> QED BY <1>1, <1>6, <1>9, <2>1, Zenon DEF TryInv, FreshTries
  <1> QED BY <1>3, <1>5, <1>7, <1>8, Zenon DEF TryInv

\* An attempt that goes on with a counted record: the stored task goes, is
\* that record, or is left as it was by a step that settles nothing.
Settled(n, s, t) == s # "exit" \/ Room(tries[n][t.made] + 1)
Carries(g, s, t, n) ==
    /\ UNCHANGED <<tries, crashes, made, pc, cur, fresh>>
    /\ \A m \in Names \ {n} : tasks'[m] = tasks[m]
    /\ t.made <= made[n] /\ tries[n][t.made] <= t.count + crashes
    /\ s = "store" => Room(tries[n][t.made] + 1)
    /\ \/ tasks'[n] = NoTask
       \/ tasks'[n].made = t.made /\ tasks'[n].count = t.count /\ Settled(n, s, t)
       \/ /\ tasks'[n] = tasks[n] /\ t.made = att[g].t.made /\ s # "exit"
          /\ att[g].step \in Unrecorded => s \in Unrecorded

LEMMA GoTries ==
    ASSUME Typed, Typed', MarkInv, TryInv, NEW g \in Procs, att[g].step \in Stages,
           NEW s \in Stages \ {"prepare"}, NEW t \in Task, NEW n \in Names, n = att[g].n,
           Go(g, s, t), Carries(g, s, t, n)
    PROVE  TryInv'
  <1>1. /\ att[g] # Idle /\ att'[g] # Idle /\ att'[g].n = n /\ att'[g].t = t /\ att'[g].step = s
        /\ \A h \in Procs \ {g} : att'[h] = att[h]
    BY GoFacts, HasAttempt, NotIdle, Zenon
  <1>2. \A h \in Procs \ {g} : att[h] # Idle => att[h].n # n
    BY <1>1, Zenon DEF MarkInv, OneAttemptPerTask, Active
  <1>3. pc = "taking" => cur # n
    BY <1>1, Zenon DEF MarkInv, Holding
  <1>c. /\ UNCHANGED <<tries, crashes, made, pc, cur, fresh>>
        /\ \A m \in Names \ {n} : tasks'[m] = tasks[m]
    BY Zenon DEF Carries
  <1>d. /\ t.made <= made[n] /\ tries[n][t.made] <= t.count + crashes
        /\ s = "store" => Room(tries[n][t.made] + 1)
    BY Zenon DEF Carries
  <1>4. tries[n][t.made] <= t.count + 1 + crashes
    <2>1. PICK i \in Nat, k \in Nat : i = t.count /\ k = tries[n][t.made]
      BY TaskCounts, TriesTyped, Zenon
    <2>2. crashes \in Nat
      BY CountsTyped, Zenon
    <2>3. k <= i + crashes
      BY <1>d, <2>1, Zenon
    <2>4. k <= i + 1 + crashes
      BY <2>2, <2>3
    <2> QED BY <2>1, <2>4, Zenon
  <1>5. /\ \A k : Room(k)' <=> Room(k)
        /\ \A m \in Names \ {n} : \A i : Open(m, i)' <=> Open(m, i)
        /\ \A m \in Names \ {n} : Undecided(m)' <=> Undecided(m)
        /\ \A m \in Names \ {n} : \A i : Own(m, i)' <=> Own(m, i)
    <2>1. \A k : Room(k)' <=> Room(k)
      BY <1>c, Zenon DEF Room
    <2>2. \A m \in Names \ {n} : \A i : Open(m, i)' <=> Open(m, i)
      BY <1>1, Zenon DEF Open
    <2>3. \A m \in Names \ {n} : Undecided(m)' <=> Undecided(m)
      BY <1>1, Zenon DEF Undecided
    <2>4. \A m \in Names \ {n} : \A i : Own(m, i)' <=> Own(m, i)
      BY <1>c, Zenon DEF Own
    <2> QED BY <2>1, <2>2, <2>3, <2>4, Zenon
  <1>6. MadeTries'
    BY <1>c, <1>5, Zenon DEF TryInv, MadeTries
  <1>7. ASSUME NEW m \in Names \ {n} PROVE TaskTries(m)'
    BY <1>c, <1>5, Zenon DEF TryInv, TaskTries
  <1>8. ASSUME NEW h \in Procs \ {g} PROVE AttTries(h)'
    <2> SUFFICES ASSUME att'[h] # Idle PROVE AttTries(h)'
      BY Zenon DEF AttTries
    <2>1. att'[h] = att[h] /\ att[h].n \in Names \ {n}
      BY <1>1, <1>2, CopyTyped, Zenon
    <2> QED BY <1>c, <1>5, <2>1, Zenon DEF TryInv, AttTries
  <1>9. FreshTries'
    <2> SUFFICES ASSUME pc = "taking" PROVE FreshTries'
      BY <1>c, Zenon DEF FreshTries
    <2>1. cur \in Names \ {n}
      BY <1>3, FreshTyped, Zenon
    <2> QED BY <1>c, <1>5, <2>1, Zenon DEF TryInv, FreshTries
  <1>10. AttTries(g)'
    <2>1. Own(n, t.made)'
      <3>1. CASE tasks'[n] = NoTask \/ tasks'[n].made = t.made
        BY <3>1, Zenon DEF Own
      <3>2. CASE tasks'[n] = tasks[n] /\ t.made = att[g].t.made
        <4>1. Own(n, t.made)
          BY <1>1, <3>2, Zenon DEF TryInv, AttTries
        <4> QED BY <1>c, <3>2, <4>1, Zenon DEF Own
      <3> QED BY <3>1, <3>2, Zenon DEF Carries
    <2>2. s = "store" => Room(tries[n][t.made] + 1)'
      BY <1>c, <1>d, <1>5, Zenon
    <2> QED BY <1>c, <1>d, <1>1, <1>4, <2>1, <2>2, Zenon DEF AttTries
  <1>11. TaskTries(n)'
    <2> SUFFICES ASSUME tasks'[n] # NoTask PROVE TaskTries(n)'
      BY Zenon DEF TaskTries
    <2>1. s # "exit" => Undecided(n)'
      BY <1>1, Zenon DEF Undecided
    <2>2. CASE tasks'[n].made = t.made /\ tasks'[n].count = t.count /\ Settled(n, s, t)
      BY <1>c, <1>d, <1>4, <1>5, <2>1, <2>2, Zenon DEF TaskTries, Settled
    <2>3. CASE /\ tasks'[n] = tasks[n] /\ t.made = att[g].t.made /\ s # "exit"
               /\ att[g].step \in Unrecorded => s \in Unrecorded
      <3>1. TaskTries(n)
        BY Zenon DEF TryInv
      <3>2. Open(n, tasks[n].made) => Open(n, tasks[n].made)'
        BY <1>1, <1>2, <2>3, Zenon DEF Open
      <3> QED BY <1>c, <2>1, <2>3, <3>1, <3>2, Zenon DEF TaskTries
    <2> QED BY <2>2, <2>3, Zenon DEF Carries
  <1> QED BY <1>6, <1>7, <1>8, <1>9, <1>10, <1>11, Zenon DEF TryInv

\* The end of an attempt: by then its task is settled.
LEMMA ExitTries ==
    ASSUME Typed, MarkInv, TryInv, NEW g \in Procs, Exit(g)
    PROVE  TryInv'
  <1>1. /\ att[g] # Idle /\ att[g].step = "exit" /\ att'[g] = Idle
        /\ \A h \in Procs \ {g} : att'[h] = att[h]
        /\ UNCHANGED <<tasks, made, tries, crashes, pc, cur, fresh>>
    BY DEF Exit, Idle, storeVars, passVars, histVars, Typed, TypeOK, WorkerTypeOK
  <1>2. /\ \A k : Room(k)' <=> Room(k)
        /\ \A n, m : Own(n, m)' <=> Own(n, m)
    BY <1>1, Zenon DEF Room, Own
  <1>3. \A n, m : Open(n, m)' <=> Open(n, m)
    BY <1>1, Zenon DEF Open, Unrecorded
  <1>4. \A n : Undecided(n)' <=> Undecided(n)
    BY <1>1, Zenon DEF Undecided
  <1>5. MadeTries' /\ FreshTries'
    BY <1>1, <1>2, Zenon DEF TryInv, MadeTries, FreshTries
  <1>7. \A n \in Names : TaskTries(n)'
    BY <1>1, <1>2, <1>3, <1>4, Zenon DEF TryInv, TaskTries
  <1>8. \A h \in Procs : AttTries(h)'
    BY <1>1, <1>2, Zenon DEF TryInv, AttTries
  <1> QED BY <1>5, <1>7, <1>8, Zenon DEF TryInv

\* A start, by the pass that holds the name, of the stored task or of the copy
\* it read: the attempt is one more, and it is within a limit.
Starting(n, t) ==
    /\ Holding /\ cur = n /\ pc' = "walking" /\ UNCHANGED <<crashes, made>>
    /\ \A m \in Names : RecordStep(m)
    /\ t.made <= made[n] /\ tries[n][t.made] <= t.count + crashes
    /\ Room(tries[n][t.made] + 1) /\ Own(n, t.made)

LEMMA StartTries ==
    ASSUME Typed, Typed', MarkInv, TryInv, NEW n \in Names, NEW t \in Task, NEW f,
           Start(n, t, f), Starting(n, t)
    PROVE  TryInv'
  <1>1. PICK g \in Procs :
           /\ att[g] = Idle
           /\ att' = [att EXCEPT ![g] = [step |-> "prepare", n |-> n, q |-> t.q, t |-> t,
                                         forced |-> f, since |-> now]]
           /\ tries' = [tries EXCEPT ![n][t.made] = @ + 1]
    BY Zenon DEF Start
  <1>2. /\ att'[g] # Idle /\ att'[g].n = n /\ att'[g].t = t /\ att'[g].step = "prepare"
        /\ \A h \in Procs \ {g} : att'[h] = att[h]
    <2>1. att' = [att EXCEPT ![g] = [step |-> "prepare", n |-> n, q |-> t.q, t |-> t,
                                     forced |-> f, since |-> now]]
      BY <1>1, Zenon
    <2> QED BY <2>1, Zenon DEF Typed, TypeOK, WorkerTypeOK, Idle
  <1>c. UNCHANGED <<crashes, made>> /\ pc' = "walking" /\ \A m \in Names : RecordStep(m)
    BY Zenon DEF Starting
  <1>d. /\ t.made <= made[n] /\ tries[n][t.made] <= t.count + crashes
        /\ Room(tries[n][t.made] + 1) /\ Own(n, t.made)
    BY Zenon DEF Starting
  <1>3. \A h \in Procs : att[h] # Idle => att[h].n # n
    BY Zenon DEF MarkInv, Starting
  <1>4. t.made \in 1..MaxMade /\ t.count \in Nat /\ crashes \in Nat
    BY TaskCounts, CountsTyped, Zenon
  <1>a. PICK k \in Nat : k = tries[n][t.made]
    BY <1>4, TriesTyped, Zenon
  <1>6. /\ tries'[n][t.made] = k + 1
        /\ \A i \in 1..MaxMade \ {t.made} : tries'[n][i] = tries[n][i]
        /\ \A m \in Names \ {n} : tries'[m] = tries[m]
    BY <1>1, <1>4, <1>a, CountsTyped, Zenon
  <1>7. ASSUME NEW m \in Names, tasks'[m] # NoTask
        PROVE  /\ tasks[m] # NoTask
               /\ tasks'[m].made = tasks[m].made /\ tasks'[m].count = tasks[m].count
               /\ tasks[m].made \in 1..MaxMade /\ tasks[m].count \in Nat
    <2>1. made[m] # made[m] + 1
      BY CountsTyped
    <2>2. /\ tasks[m] # NoTask
          /\ tasks'[m].made = tasks[m].made /\ tasks'[m].count = tasks[m].count
      BY <1>c, <1>7, <2>1, Zenon DEF RecordStep
    <2> QED BY <2>2, RecordTyped, Zenon
  <1>8. /\ \A e : Room(e)' <=> Room(e)
        /\ \A m \in Names \ {n} : \A i : Open(m, i)' <=> Open(m, i)
        /\ \A m \in Names \ {n} : Undecided(m)' <=> Undecided(m)
        /\ \A m \in Names \ {n} : \A i : Own(m, i) => Own(m, i)'
    <2>1. \A e : Room(e)' <=> Room(e)
      BY <1>c, Zenon DEF Room
    <2>2. \A m \in Names \ {n} : \A i : Open(m, i)' <=> Open(m, i)
      BY <1>1, <1>2, Zenon DEF Open
    <2>3. \A m \in Names \ {n} : Undecided(m)' <=> Undecided(m)
      BY <1>1, <1>2, Zenon DEF Undecided
    <2>4. \A m \in Names \ {n} : \A i : Own(m, i) => Own(m, i)'
      BY <1>6, <1>7, Zenon DEF Own
    <2> QED BY <2>1, <2>2, <2>3, <2>4, Zenon
  <1>9. MadeTries'
    <2>1. ASSUME NEW m \in Names, NEW i \in 1..MaxMade
          PROVE  ((i > made[m] => tries[m][i] = 0) /\ Room(tries[m][i]))'
      <3>1. (i > made[m] => tries[m][i] = 0) /\ Room(tries[m][i])
        BY Zenon DEF TryInv, MadeTries
      <3>2. CASE m = n /\ i = t.made
        <4>1. PICK j \in Nat : j = made[n]
          BY CountsTyped, Zenon
        <4>2. ~(i > j)
          BY <1>d, <3>2, <4>1
        <4>3. Room(k + 1)'
          BY <1>8, <1>a, <1>d, Zenon
        <4> QED BY <1>c, <1>6, <3>2, <4>1, <4>2, <4>3, Zenon
      <3>3. CASE ~(m = n /\ i = t.made)
        <4>1. tries'[m][i] = tries[m][i]
          BY <1>6, <3>3, Zenon
        <4> QED BY <1>c, <1>8, <3>1, <4>1, Zenon
      <3> QED BY <3>2, <3>3, Zenon
    <2> QED BY <2>1, Zenon DEF MadeTries
  <1>10. ASSUME NEW m \in Names \ {n} PROVE TaskTries(m)'
    BY <1>c, <1>6, <1>7, <1>8, Zenon DEF TryInv, TaskTries
  <1>11. ASSUME NEW h \in Procs \ {g} PROVE AttTries(h)'
    <2> SUFFICES ASSUME att'[h] # Idle PROVE AttTries(h)'
      BY Zenon DEF AttTries
    <2>1. att'[h] = att[h] /\ att[h].n \in Names \ {n}
      BY <1>2, <1>3, CopyTyped, Zenon
    <2> QED BY <1>c, <1>6, <1>8, <2>1, Zenon DEF TryInv, AttTries
  <1>12. AttTries(g)'
    <2>1. Own(n, t.made)'
      <3>1. tasks'[n] # NoTask => tasks[n].made = t.made \/ tries[n][tasks[n].made] = 0
        BY <1>d, <1>7, Zenon DEF Own
      <3> QED BY <1>6, <1>7, <3>1, Zenon DEF Own
    <2>2. PICK i \in Nat : i = t.count
      BY <1>4, Zenon
    <2>3. k <= i + crashes
      BY <1>a, <1>d, <2>2, Zenon
    <2>4. k + 1 <= i + 1 + crashes
      BY <1>4, <2>3
    <2> QED BY <1>c, <1>d, <1>2, <1>6, <2>1, <2>2, <2>4, Zenon DEF AttTries
  <1>13. TaskTries(n)'
    <2> SUFFICES ASSUME tasks'[n] # NoTask PROVE TaskTries(n)'
      BY Zenon DEF TaskTries
    <2>1. Undecided(n)' /\ Open(n, t.made)'
      BY <1>2, Zenon DEF Undecided, Open, Unrecorded
    <2>2. ~Open(n, tasks[n].made)
      BY <1>3, Zenon DEF Open
    <2>3. TaskTries(n)
      BY Zenon DEF TryInv
    <2>6. /\ tasks[n] # NoTask /\ tasks'[n].made = tasks[n].made
          /\ tasks'[n].count = tasks[n].count /\ made'[n] = made[n] /\ crashes' = crashes
      BY <1>c, <1>7, Zenon
    <2>7. PICK i \in Nat : i = tasks[n].count
      BY <1>7, Zenon
    <2>4. CASE tasks[n].made = t.made
      <3>1. k <= i + crashes /\ tasks[n].made <= made[n]
        BY <1>a, <2>2, <2>3, <2>4, <2>6, <2>7, Zenon DEF TaskTries
      <3>2. k + 1 <= i + 1 + crashes
        BY <1>4, <3>1
      <3> QED BY <1>6, <2>1, <2>4, <2>6, <2>7, <3>1, <3>2, Zenon DEF TaskTries
    <2>5. CASE tasks[n].made # t.made
      <3>1. tries[n][tasks[n].made] = 0 /\ tries'[n][tasks[n].made] = 0
        BY <1>d, <1>6, <1>7, <2>5, Zenon DEF Own
      <3>2. 0 <= i + 1 + crashes /\ 0 <= i + crashes
        BY <1>4
      <3> QED BY <2>1, <2>3, <2>6, <2>7, <3>1, <3>2, Zenon DEF TaskTries
    <2> QED BY <2>4, <2>5, Zenon
  <1>14. FreshTries'
    BY <1>c, Zenon DEF FreshTries
  <1> QED BY <1>9, <1>10, <1>11, <1>12, <1>13, <1>14, Zenon DEF TryInv

\* A stop ends no attempt early; a crash may, and makes room for one more.
LEMMA DownTries ==
    ASSUME Typed, TryInv, Stopped \/ Crash
    PROVE  TryInv'
  <1>1. /\ pc' = "idle" /\ \A g \in Procs : att'[g] = Idle
        /\ UNCHANGED <<tasks, made, tries>>
    BY Zenon DEF Stopped, Crash, Down, FreshWorker
  <1>2. crashes \in Nat /\ \A n \in Names, m \in 1..MaxMade : tries[n][m] \in Nat
    BY CountsTyped, TriesTyped, Zenon
  <1>3. \/ crashes' = crashes + 1
        \/ crashes' = crashes /\ \A g \in Procs : att[g] = Idle
    <2>1. CASE Stopped
      BY <2>1, Zenon DEF Stopped
    <2>2. CASE Crash
      BY <2>2, Zenon DEF Crash
    <2> QED BY <2>1, <2>2, Zenon
  <1>4. \A k \in Nat : Room(k) => Room(k)'
    <2> SUFFICES ASSUME NEW k \in Nat, Room(k) PROVE Room(k)'
      BY Zenon
    <2>1. PICK c \in QueueConfigs : k <= c.retry.attempts + crashes
      BY Zenon DEF Room
    <2>2. c.retry.attempts \in Int
      BY StoreAssumption, Zenon DEF Config
    <2>3. k <= c.retry.attempts + crashes'
      BY <1>2, <1>3, <2>1, <2>2
    <2> QED BY <2>3, Zenon DEF Room
  <1>5. MadeTries'
    BY <1>1, <1>2, <1>4, Zenon DEF TryInv, MadeTries
  <1>6. ASSUME NEW n \in Names PROVE TaskTries(n)'
    <2> SUFFICES ASSUME tasks[n] # NoTask PROVE TaskTries(n)'
      BY <1>1, Zenon DEF TaskTries
    <2>1. tasks[n].made \in 1..MaxMade /\ tasks[n].count \in Nat
      BY RecordTyped, Zenon
    <2>2. PICK k \in Nat : k = tries[n][tasks[n].made]
      BY <1>2, <2>1, Zenon
    <2>3. TaskTries(n) /\ Room(k)
      BY <2>1, <2>2, Zenon DEF TryInv, MadeTries
    <2>4. CASE crashes' = crashes + 1
      <3>1. Room(k + 1)'
        <4>1. PICK c \in QueueConfigs : k <= c.retry.attempts + crashes
          BY <2>3, Zenon DEF Room
        <4>2. c.retry.attempts \in Int
          BY StoreAssumption, Zenon DEF Config
        <4>3. k + 1 <= c.retry.attempts + crashes'
          BY <1>2, <2>4, <4>1, <4>2
        <4> QED BY <4>3, Zenon DEF Room
      <3>2. PICK i \in Nat : i = tasks[n].count
        BY <2>1, Zenon
      <3>3. k <= i + 1 + crashes /\ tasks[n].made <= made[n]
        BY <2>2, <2>3, <3>2, Zenon DEF TaskTries
      <3>4. k <= i + 1 + crashes' /\ k <= i + crashes'
        BY <1>2, <2>4, <3>3
      <3> QED BY <1>1, <2>2, <3>1, <3>2, <3>3, <3>4, Zenon DEF TaskTries
    <2>5. CASE crashes' = crashes /\ \A g \in Procs : att[g] = Idle
      <3>1. ~Open(n, tasks[n].made) /\ ~Undecided(n)
        BY <2>5, Zenon DEF Open, Undecided
      <3>2. Room(k + 1) => Room(k + 1)'
        <4>1. k + 1 \in Nat
          OBVIOUS
        <4> QED BY <1>4, <4>1, Zenon
      <3> QED BY <1>1, <2>2, <2>3, <2>5, <3>1, <3>2, Zenon DEF TaskTries
    <2> QED BY <1>3, <2>4, <2>5, Zenon
  <1> QED BY <1>1, <1>5, <1>6, Zenon DEF TryInv, AttTries, FreshTries

\* What each operation of a client does to the records.
LEMMA ClientRecords ==
    ASSUME Typed, Client
    PROVE  \A n \in Names : RecordStep(n)
  <1>a. StoreTypeOK
    BY Zenon DEF Typed, TypeOK
  <1>0. ASSUME made' = made, \A n \in Names : tasks'[n] \in {NoTask, tasks[n]}
        PROVE  \A n \in Names : RecordStep(n)
    BY <1>0, Zenon DEF RecordStep
  <1>1. ASSUME NEW q \in Queues,
               \/ CreateQueue(q) \/ UpdateQueue(q) \/ DeleteQueue(q) \/ PurgeQueue(q)
               \/ \E s \in {"RUNNING", "PAUSED"} : SetQueueState(q, s)
        PROVE  \A n \in Names : RecordStep(n)
    <2>1. made' = made /\ \A n \in Names : tasks'[n] \in {NoTask, tasks[n]}
      BY <1>1, Zenon DEF CreateQueue, UpdateQueue, DeleteQueue, PurgeQueue, SetQueueState, Wipe
    <2> QED BY <1>0, <2>1, Zenon
  <1>2. ASSUME NEW k \in Names, CreateTask(k) PROVE \A n \in Names : RecordStep(n)
    <2>1. PICK q \in Queues, b \in BOOLEAN, at \in now..(now + Lead) :
             tasks' = [tasks EXCEPT ![k] =
                [q |-> q, made |-> made[k] + 1, at |-> at, count |-> 0, first |-> NoTime,
                 run |-> 0, server |-> b]]
      BY <1>2, StoreAssumption, Zenon DEF CreateTask
    <2>2. /\ tasks'[k].made = made[k] + 1 /\ tasks'[k].count = 0
          /\ \A n \in Names \ {k} : tasks'[n] = tasks[n]
      BY <1>a, <2>1, Zenon DEF StoreTypeOK
    <2>3. made'[k] = made[k] + 1 /\ \A n \in Names \ {k} : made'[n] = made[n]
      BY <1>a, <1>2, Zenon DEF CreateTask, StoreTypeOK
    <2> QED BY <2>2, <2>3, Zenon DEF RecordStep
  <1>3. ASSUME NEW k \in Names, DeleteTask(k) PROVE \A n \in Names : RecordStep(n)
    <2>1. made' = made /\ \A n \in Names : tasks'[n] \in {NoTask, tasks[n]}
      BY <1>a, <1>3, Zenon DEF DeleteTask, StoreTypeOK
    <2> QED BY <1>0, <2>1, Zenon
  <1>4. ASSUME NEW k \in Names, RunTask(k) PROVE \A n \in Names : RecordStep(n)
    <2>1. /\ tasks[k] # NoTask /\ made' = made
          /\ tasks'[k].made = tasks[k].made /\ tasks'[k].count = tasks[k].count
          /\ \A n \in Names \ {k} : tasks'[n] = tasks[n]
      BY <1>a, <1>4, Zenon DEF RunTask, StoreTypeOK, Task
    <2> QED BY <2>1, Zenon DEF RecordStep
  <1> QED BY <1>1, <1>2, <1>3, <1>4, Zenon DEF Client

\* A store left alone is left alone for every name.
LEMMA SameRecords ==
    ASSUME UNCHANGED <<tasks, made>>
    PROVE  \A n \in Names : RecordStep(n)
  BY Zenon DEF RecordStep

\* So is one whose forced run is taken.
LEMMA TakeRunRecords ==
    ASSUME Typed, NEW k \in Names, NEW r, TakeRun(k, r)
    PROVE  \A n \in Names : RecordStep(n)
  <1>1. CASE tasks' = tasks
    BY <1>1, SameRecords, Zenon DEF TakeRun
  <1>2. CASE tasks[k] # NoTask /\ tasks' = [tasks EXCEPT ![k].run = 0]
    <2>1. /\ tasks'[k].made = tasks[k].made /\ tasks'[k].count = tasks[k].count
          /\ \A n \in Names \ {k} : tasks'[n] = tasks[n]
      BY <1>2, Zenon DEF Typed, TypeOK, StoreTypeOK, Task
    <2> QED BY <1>2, <2>1, Zenon DEF TakeRun, RecordStep
  <1> QED BY <1>1, <1>2, Zenon DEF TakeRun

\* The pass keeps TryInv: it starts only a task it holds, no attempt of which
\* is out, and so one that its last attempt has settled.
LEMMA PassTries ==
    ASSUME Limited, Typed, Typed', MarkInv, TryInv, Pass
    PROVE  TryInv'
  <1>1. CASE BeginPass \/ ListDue \/ EndPass
    <2>1. pc' # "taking" /\ UNCHANGED <<tasks, made, tries, crashes, att>>
      BY <1>1, Zenon DEF BeginPass, ListDue, EndPass, storeVars, histVars
    <2> QED BY <2>1, SameRecords, RecordTries, Zenon
  <1>2. ASSUME NEW k \in Names,
               Turn(k) \/ MarkForced(k) \/ MarkDue(k) \/ Skip(k) \/ Release(k)
        PROVE  TryInv'
    <2>1. pc' # "taking" /\ UNCHANGED <<tasks, made, tries, crashes, att>>
      BY <1>2, Zenon DEF Turn, MarkForced, MarkDue, Skip, Release, EndTurn, storeVars, histVars
    <2> QED BY <2>1, SameRecords, RecordTries, Zenon
  <1>h. ASSUME Holding, cur \in Names, tasks[cur] # NoTask
        PROVE  /\ tasks[cur].made <= made[cur]
               /\ tries[cur][tasks[cur].made] <= tasks[cur].count + crashes
               /\ Room(tries[cur][tasks[cur].made] + 1)
    <2>1. ~Open(cur, tasks[cur].made) /\ ~Undecided(cur)
      BY <1>h, Zenon DEF MarkInv, Open, Undecided
    <2> QED BY <1>h, <2>1, Zenon DEF TryInv, TaskTries
  <1>3. ASSUME NEW k \in Names, StartDue(k) PROVE TryInv'
    <2>1. /\ Holding /\ cur = k /\ tasks[k] # NoTask /\ Start(k, tasks[k], FALSE)
          /\ pc' = "walking" /\ UNCHANGED <<tasks, made, crashes>>
      BY <1>3, Zenon DEF StartDue, StillDue, EndTurn, Holding, storeVars
    <2>2. tasks[k] \in Task
      BY <2>1, RecordTyped, Zenon
    <2>3. Own(k, tasks[k].made)
      BY Zenon DEF Own
    <2>4. /\ tasks[k].made <= made[k]
          /\ tries[k][tasks[k].made] <= tasks[k].count + crashes
          /\ Room(tries[k][tasks[k].made] + 1)
      BY <1>h, <2>1, Zenon
    <2> QED BY <2>1, <2>2, <2>3, <2>4, SameRecords, StartTries, Zenon DEF Starting
  <1>4. ASSUME NEW k \in Names, ReadForced(k) PROVE TryInv'
    <2>1. /\ Holding /\ cur = k /\ tasks[k] # NoTask
          /\ fresh' = tasks[k] /\ cur' = cur
          /\ UNCHANGED <<tasks, made, tries, crashes, att>>
      BY <1>4, Zenon DEF ReadForced, StillDue, Holding, storeVars, histVars
    <2>2. /\ \A i : Room(i)' <=> Room(i)
          /\ \A n, m : Open(n, m)' <=> Open(n, m)
          /\ \A n : Undecided(n)' <=> Undecided(n)
          /\ \A n, m : Own(n, m)' <=> Own(n, m)
      BY <2>1, Zenon DEF Room, Open, Undecided, Own
    <2>3. FreshTries'
      <3>1. Own(k, tasks[k].made)
        BY Zenon DEF Own
      <3> QED BY <1>h, <2>1, <2>2, <3>1, Zenon DEF FreshTries
    <2>4. MadeTries' /\ \A n \in Names : TaskTries(n)'
      BY <2>1, <2>2, Zenon DEF TryInv, MadeTries, TaskTries
    <2>5. \A g \in Procs : AttTries(g)'
      BY <2>1, <2>2, Zenon DEF TryInv, AttTries
    <2> QED BY <2>3, <2>4, <2>5, Zenon DEF TryInv
  <1>5. ASSUME NEW k \in Names, StartForced(k) PROVE TryInv'
    <2>1. /\ cur = k /\ pc = "taking" /\ Start(k, [fresh EXCEPT !.run = 0], TRUE)
          /\ TakeRun(k, fresh.run) /\ pc' = "walking" /\ UNCHANGED <<crashes, made>>
      BY <1>5, Zenon DEF StartForced, EndTurn, TakeRun
    <2>2. fresh \in Task
      BY <2>1, FreshTyped, Zenon
    <2>3. [fresh EXCEPT !.run = 0] \in Task
      BY <2>2, StoreAssumption DEF Task
    <2>7. PICK t \in Task : t = [fresh EXCEPT !.run = 0]
      BY <2>3, Zenon
    <2>4. t.made = fresh.made /\ t.count = fresh.count
      BY <2>2, <2>7, Zenon DEF Task
    <2>5. /\ t.made <= made[k] /\ tries[k][t.made] <= t.count + crashes
          /\ Room(tries[k][t.made] + 1) /\ Own(k, t.made)
      BY <2>1, <2>4, Zenon DEF TryInv, FreshTries
    <2>6. Holding /\ \A n \in Names : RecordStep(n)
      BY <2>1, TakeRunRecords, Zenon DEF Holding
    <2> QED BY <2>1, <2>5, <2>6, <2>7, StartTries, Zenon DEF Starting
  <1> QED BY <1>1, <1>2, <1>3, <1>4, <1>5, Zenon DEF Pass

\* A write-back leaves the record it writes, or nothing where there was nothing.
LEMMA UpdateRecord ==
    ASSUME Typed, NEW k \in Names, NEW t \in Task, UpdateTask(k, t)
    PROVE  /\ made' = made /\ \A n \in Names \ {k} : tasks'[n] = tasks[n]
           /\ \/ tasks'[k] = NoTask
              \/ tasks'[k].made = t.made /\ tasks'[k].count = t.count
  <1>1. /\ made' = made /\ \A n \in Names \ {k} : tasks'[n] = tasks[n]
        /\ tasks'[k] = NoTask \/ tasks'[k] = MergeRun(tasks[k], t)
    BY Zenon DEF UpdateTask, Typed, TypeOK, StoreTypeOK
  <1>2. MergeRun(tasks[k], t).made = t.made /\ MergeRun(tasks[k], t).count = t.count
    BY Zenon DEF MergeRun, Task
  <1> QED BY <1>1, <1>2, Zenon

\* reschedule lets a task be attempted again only when it is within its limit.
LEMMA DecideRoom ==
    ASSUME Limited, Typed, ConfigsOwn, NEW t \in Task, queues[t.q] # NoQueue,
           Retries(t, queues[t.q].config), NEW k \in Nat, k <= t.count + crashes
    PROVE  Room(k + 1)
  <1>1. t.q \in Queues /\ t.count \in Nat /\ crashes \in Nat
    BY CountsTyped, Zenon DEF Task
  <1>2. PICK c \in QueueConfigs : c = queues[t.q].config
    BY <1>1, Zenon DEF ConfigsOwn
  <1>3. c.retry.attempts \in Int /\ c.retry.attempts > 0 /\ c.retry.duration = 0
    BY StoreAssumption, Zenon DEF Limited, Config
  <1>4. t.count < c.retry.attempts
    BY <1>2, <1>3 DEF Retries, ShouldRetry, ShouldRetryAfter
  <1>5. k + 1 <= c.retry.attempts + crashes
    BY <1>1, <1>3, <1>4
  <1> QED BY <1>5, Zenon DEF Room

\* The steps of an attempt keep TryInv.
LEMMA AttemptTries ==
    ASSUME Limited, Buildable, Typed, Typed', MarkInv, QueueInv, ConfigsOwn, TryInv,
           NEW g \in Procs, AttemptStep(g)
    PROVE  TryInv'
  <1>s. ASSUME ~Exit(g) PROVE att[g].step \in Stages
    BY <1>s, Zenon DEF AttemptStep, BuildFails, FailsUnsent, Send, Acknowledged, Refused,
        DeleteDone, RecordFailure, Reread, Decide, Drop, StoreSchedule, Stages
  <1> SUFFICES ASSUME ~Exit(g) PROVE TryInv'
    BY ExitTries, Zenon
  <1>0. PICK n \in Names, u \in Task : n = att[g].n /\ u = att[g].t /\ att[g] # Idle
    BY <1>s, HasAttempt, NotIdle, Zenon
  <1>t. /\ u.made \in 1..MaxMade /\ u.count \in Nat /\ crashes \in Nat
        /\ tries[n][u.made] \in Nat
    BY TaskCounts, CountsTyped, TriesTyped, Zenon
  <1>a. /\ u.made <= made[n] /\ tries[n][u.made] <= u.count + 1 + crashes
        /\ att[g].step # "prepare" => tries[n][u.made] <= u.count + crashes
        /\ att[g].step = "store" => Room(tries[n][u.made] + 1)
    BY <1>0, Zenon DEF TryInv, AttTries
  <1>b. UNCHANGED <<tries, crashes, pc, cur, fresh>>
    BY Zenon DEF AttemptStep, BuildFails, FailsUnsent, Send, Acknowledged, Refused,
        DeleteDone, RecordFailure, Reread, Decide, Drop, StoreSchedule, passVars, histVars
  <1>1. CASE Refused(g) \/ Acknowledged(g)
    <2>1. /\ att[g].step = "waiting" /\ UNCHANGED <<tasks, made>>
          /\ \E s \in {"record", "delete"} : Go(g, s, u)
      BY <1>0, <1>1, Zenon DEF Refused, Acknowledged, storeVars
    <2>2. PICK s \in {"record", "delete"} : Go(g, s, u)
      BY <2>1, Zenon
    <2>3. s \in Stages \ {"prepare"} /\ s \in Unrecorded /\ s # "exit" /\ s # "store"
      BY Zenon DEF Stages, Unrecorded
    <2> QED BY <1>0, <1>a, <1>b, <1>s, <2>1, <2>2, <2>3, GoTries, Zenon DEF Carries, Settled
  <1>2. CASE FailsUnsent(g) \/ Send(g)
    <2>1. /\ att[g].step = "prepare" /\ UNCHANGED <<tasks, made>>
          /\ \E s \in {"waiting", "record"} : Go(g, s, Counted(u))
      BY <1>0, <1>2, Zenon DEF FailsUnsent, Send, storeVars
    <2>2. PICK s \in {"waiting", "record"} : Go(g, s, Counted(u))
      BY <2>1, Zenon
    <2>3. s \in Stages \ {"prepare"} /\ s \in Unrecorded /\ s # "exit" /\ s # "store"
      BY Zenon DEF Stages, Unrecorded
    <2>4. PICK t \in Task : t = Counted(u) /\ t.made = u.made
      BY CountedTyped, Zenon
    <2>5. t.count = u.count + 1
      BY <2>4, Zenon DEF Counted, Task
    <2>6. tries[n][t.made] <= t.count + crashes
      <3>1. PICK i \in Nat, k \in Nat : i = u.count /\ k = tries[n][u.made]
        BY <1>t, Zenon
      <3>2. k <= i + 1 + crashes
        BY <1>a, <3>1, Zenon
      <3> QED BY <1>t, <2>4, <2>5, <3>1, <3>2, Zenon
    <2> QED BY <1>0, <1>a, <1>b, <1>s, <2>1, <2>2, <2>3, <2>4, <2>6, GoTries, Zenon DEF Carries, Settled
  <1>3. CASE DeleteDone(g) \/ Drop(g)
    <2>1. /\ att[g].step \in {"delete", "drop"}
          /\ DeleteTask(n) \/ DeleteTaskMissing(n)
          /\ \E s \in {"exit", "reread"} : Go(g, s, u)
      BY <1>0, <1>3, Zenon DEF DeleteDone, Drop
    <2>2. PICK s \in {"exit", "reread"} : Go(g, s, u)
      BY <2>1, Zenon
    <2>3. s \in Stages \ {"prepare"} /\ s # "store" /\ att[g].step # "prepare"
      BY <2>1, Zenon DEF Stages
    <2>4. /\ made' = made /\ tasks'[n] = NoTask
          /\ \A m \in Names \ {n} : tasks'[m] = tasks[m]
      BY <2>1, Zenon DEF DeleteTask, DeleteTaskMissing, storeVars, Typed, TypeOK, StoreTypeOK
    <2> QED BY <1>0, <1>a, <1>b, <1>s, <2>2, <2>3, <2>4, GoTries, Zenon DEF Carries, Settled
  <1>4. CASE RecordFailure(g) \/ StoreSchedule(g)
    <2>1. /\ UpdateTask(n, u)
          /\ \/ att[g].step = "record" /\ Go(g, "reread", u)
             \/ att[g].step = "store" /\ Go(g, "exit", u)
      BY <1>0, <1>4, Zenon DEF RecordFailure, StoreSchedule
    <2>2. /\ made' = made /\ \A m \in Names \ {n} : tasks'[m] = tasks[m]
          /\ \/ tasks'[n] = NoTask
             \/ tasks'[n].made = u.made /\ tasks'[n].count = u.count
      BY <2>1, UpdateRecord, Zenon
    <2>3. CASE att[g].step = "record" /\ Go(g, "reread", u)
      <3>1. "reread" \in Stages \ {"prepare"}
        BY Zenon DEF Stages
      <3> QED BY <1>0, <1>a, <1>b, <1>s, <2>2, <2>3, <3>1, GoTries, Zenon DEF Carries, Settled
    <2>4. CASE att[g].step = "store" /\ Go(g, "exit", u)
      <3>1. "exit" \in Stages \ {"prepare"}
        BY Zenon DEF Stages
      <3> QED BY <1>0, <1>a, <1>b, <1>s, <2>2, <2>4, <3>1, GoTries, Zenon DEF Carries, Settled
    <2> QED BY <2>1, <2>3, <2>4, Zenon
  <1>5. CASE Reread(g)
    <2>1. /\ att[g].step = "reread" /\ UNCHANGED <<tasks, made>>
          /\ \/ tasks[n] = NoTask /\ Go(g, "exit", u)
             \/ tasks[n] # NoTask /\ Go(g, "decide", tasks[n])
      BY <1>0, <1>5, Zenon DEF Reread, storeVars
    <2>2. CASE tasks[n] = NoTask /\ Go(g, "exit", u)
      <3>1. "exit" \in Stages \ {"prepare"}
        BY Zenon DEF Stages
      <3> QED BY <1>0, <1>a, <1>b, <1>s, <2>1, <2>2, <3>1, GoTries, Zenon DEF Carries, Settled
    <2>3. CASE tasks[n] # NoTask /\ Go(g, "decide", tasks[n])
      <3>1. "decide" \in Stages \ {"prepare"} /\ tasks[n] \in Task
        BY <2>3, RecordTyped, Zenon DEF Stages
      <3>2. ~Open(n, tasks[n].made)
        BY <1>0, <2>1, Zenon DEF Open, Unrecorded, MarkInv, OneAttemptPerTask, Active
      <3>3. tasks[n].made <= made[n] /\ tries[n][tasks[n].made] <= tasks[n].count + crashes
        BY <2>3, <3>2, Zenon DEF TryInv, TaskTries
      <3> QED BY <1>0, <1>b, <1>s, <2>1, <2>3, <3>1, <3>3, GoTries, Zenon DEF Carries, Settled
    <2> QED BY <2>1, <2>2, <2>3, Zenon
  <1>6. CASE Decide(g)
    <2>1. att[g].step = "decide" /\ UNCHANGED <<tasks, made>>
      BY <1>6, Zenon DEF Decide, storeVars
    <2>2. /\ {"exit", "store", "drop"} \subseteq Stages \ {"prepare"}
          /\ "decide" \notin Unrecorded
      BY Zenon DEF Stages, Unrecorded
    <2>3. CASE queues[u.q] = NoQueue
      <3>1. tasks[n] = NoTask
        BY <1>0, <2>3, Zenon DEF QueueInv
      <3>2. Go(g, "exit", u)
        BY <1>0, <1>6, <2>3, Zenon DEF Decide
      <3> QED BY <1>0, <1>a, <1>b, <1>s, <2>1, <2>2, <3>1, <3>2, GoTries, Zenon DEF Carries, Settled
    <2>4. CASE queues[u.q] # NoQueue /\ ~Retries(u, queues[u.q].config)
      <3>1. Go(g, "drop", u)
        BY <1>0, <1>6, <2>4, Zenon DEF Decide
      <3> QED BY <1>0, <1>a, <1>b, <1>s, <2>1, <2>2, <3>1, GoTries, Zenon DEF Carries, Settled
    <2>5. CASE queues[u.q] # NoQueue /\ Retries(u, queues[u.q].config)
      <3> DEFINE d == now + Delay(queues[u.q].config.retry, u.count)
      <3>1. Go(g, "store", [u EXCEPT !.at = d])
        BY <1>0, <1>6, <2>5, Zenon DEF Decide
      <3>2. d \in Nat
        <4>1. u.q \in Queues /\ u.count \in Nat
          BY <1>t, Zenon DEF Task
        <4>2. queues[u.q].config \in Config /\ now \in Nat
          BY <2>5, <4>1, Zenon DEF Typed, TypeOK, StoreTypeOK, Queue
        <4>3. Delay(queues[u.q].config.retry, u.count) \in Nat
          BY <4>1, <4>2, DelayTyped, Zenon
        <4> QED BY <4>2, <4>3
      <3> HIDE DEF d
      <3>3. [u EXCEPT !.at = d] \in Task
        BY <3>2, Zenon DEF Task
      <3>4. PICK t \in Task : t = [u EXCEPT !.at = d]
        BY <3>3, Zenon
      <3>5. t.made = u.made /\ t.count = u.count
        BY <3>4, Zenon DEF Task
      <3>6. Room(tries[n][u.made] + 1)
        BY <1>a, <1>t, <2>1, <2>5, DecideRoom, Zenon
      <3> QED BY <1>0, <1>a, <1>b, <1>s, <2>1, <2>2, <3>1, <3>4, <3>5, <3>6, GoTries, Zenon DEF Carries, Settled
    <2> QED BY <2>3, <2>4, <2>5, Zenon
  <1>7. ~BuildFails(g)
    BY <1>0, Zenon DEF BuildFails, Buildable
  <1> QED BY <1>1, <1>2, <1>3, <1>4, <1>5, <1>6, <1>7, Zenon DEF AttemptStep

\* Every step keeps TryInv.
LEMMA StepTries ==
    ASSUME Limited, Buildable, Typed, Typed', MarkInv, QueueInv, ConfigsOwn, TryInv, [Next]_vars
    PROVE  TryInv'
  <1>1. CASE UNCHANGED vars \/ Tick \/ Cancel \/ Restart
    <2>1. UNCHANGED <<tasks, made, tries, crashes, att, pc, cur, fresh>>
      BY <1>1, Zenon DEF vars, workerVars, storeVars, Tick, Cancel, Restart, passVars, histVars
    <2> QED BY <2>1, SameRecords, RecordTries, Zenon
  <1>2. CASE Client
    <2>1. UNCHANGED <<tries, crashes, att, pc, cur, fresh>>
      BY <1>2, Zenon DEF Client, workerVars
    <2> QED BY <1>2, <2>1, ClientRecords, RecordTries, Zenon
  <1> QED BY <1>1, <1>2, PassTries, AttemptTries, DownTries, Zenon DEF Next

(***************************************************************************)
(* A task is attempted at most MaxAttempts times, and once more for each   *)
(* crash, whatever clients do to it, its name and its queue meanwhile:     *)
(* every attempt is in the count reschedule compares with the limit.  The  *)
(* configurations limit attempts and set no retry duration, requests can   *)
(* be built (one that cannot is not counted), and clients create tasks     *)
(* under their own queue.                                                  *)
(***************************************************************************)
THEOREM AttemptsLimited ==
    ASSUME OwnParents, Limited, Buildable
    PROVE  Spec => []AttemptsBounded
  <1> DEFINE IInv == Typed /\ MarkInv /\ QueueInv /\ ConfigsOwn /\ TryInv
  <1>1. Init => IInv
    <2> SUFFICES ASSUME Init PROVE IInv
      BY Zenon
    <2>1. /\ \A n \in Names, m \in 1..MaxMade : tries[n][m] = 0
          /\ \A q \in Queues : queues[q] = NoQueue
      BY Zenon DEF Init, StoreInit
    <2>2. Room(0) /\ Typed
      BY InitTyped, RoomForOne, Zenon
    <2>3. MadeTries
      BY <2>1, <2>2, SMT DEF MadeTries
    <2>4. FreshTries /\ \A n \in Names : TaskTries(n)
      BY InitEmpty, SMT DEF FreshTries, TaskTries
    <2>5. \A g \in Procs : AttTries(g)
      BY InitEmpty, Zenon DEF AttTries
    <2> QED BY <2>1, <2>2, <2>3, <2>4, <2>5, InitMarkInv, InitQueueInv, Zenon DEF ConfigsOwn, TryInv
  <1>2. IInv /\ [Next]_vars => IInv'
    <2> SUFFICES ASSUME IInv, [Next]_vars PROVE IInv'
      BY Zenon
    <2>1. Typed' /\ MarkInv'
      BY StepTyped, StepMarkInv, Zenon
    <2>2. QueueInv' /\ ConfigsOwn'
      BY StepQueueInv, StepConfigsOwn, Zenon
    <2>3. TryInv'
      BY <2>1, StepTries, Zenon
    <2> QED BY <2>1, <2>2, <2>3, Zenon
  <1>3. IInv => AttemptsBounded
    BY Zenon DEF TryInv, MadeTries, Room, AttemptsBounded
  <1> QED BY <1>1, <1>2, <1>3, PTL DEF Spec
==============================================================================
