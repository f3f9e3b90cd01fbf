------------------------- MODULE TasksDispatchProofs -------------------------
(***************************************************************************)
(* Proofs about Cloud Tasks dispatch, for every set of queues, names and   *)
(* goroutines and every bound: the types, that two attempts of a task are  *)
(* never out together, and then what an answer and a RunTask come to.      *)
(***************************************************************************)
EXTENDS TasksDispatch, TLAPS

\* What is assumed of the constants, and that NoTime is no time.
USE StoreAssumption DEF NoTime

------------------------------------------------------------------------------
\* Types of the store's operations.

\* The store starts empty and typed.
LEMMA InitStoreType == StoreInit => StoreTypeOK
  BY DEF StoreInit, StoreTypeOK

\* The queue operations keep the types.
LEMMA QueueOpsType ==
    ASSUME StoreTypeOK, NEW q \in Queues
    PROVE  /\ CreateQueue(q) => StoreTypeOK'
           /\ UpdateQueue(q) => StoreTypeOK'
           /\ \A s \in {"RUNNING", "PAUSED"} : SetQueueState(q, s) => StoreTypeOK'
           /\ DeleteQueue(q) => StoreTypeOK'
           /\ PurgeQueue(q) => StoreTypeOK'
  <1>1. CreateQueue(q) => StoreTypeOK'
    BY DEF CreateQueue, StoreTypeOK, Queue
  <1>2. UpdateQueue(q) => StoreTypeOK'
    BY DEF UpdateQueue, StoreTypeOK, Queue
  <1>3. \A s \in {"RUNNING", "PAUSED"} : SetQueueState(q, s) => StoreTypeOK'
    BY DEF SetQueueState, StoreTypeOK, Queue
  <1>4. Wiped(q) \in [Names -> SUBSET (1..MaxMade)]
    BY DEF Wiped, StoreTypeOK, Task
  <1>5. DeleteQueue(q) => StoreTypeOK'
    BY <1>4 DEF DeleteQueue, Wipe, StoreTypeOK
  <1>6. PurgeQueue(q) => StoreTypeOK'
    BY <1>4, Zenon DEF PurgeQueue, Wipe, StoreTypeOK
  <1> QED BY <1>1, <1>2, <1>3, <1>5, <1>6, Zenon

\* The task operations keep the types.
LEMMA TaskOpsType ==
    ASSUME StoreTypeOK, NEW n \in Names
    PROVE  /\ CreateTask(n) => StoreTypeOK'
           /\ DeleteTask(n) => StoreTypeOK'
           /\ DeleteTaskMissing(n) => StoreTypeOK'
           /\ RunTask(n) => StoreTypeOK'
           /\ \A t \in Task : UpdateTask(n, t) => StoreTypeOK'
           /\ \A r : TakeRun(n, r) => StoreTypeOK'
  <1>1. CreateTask(n) => StoreTypeOK'
    BY DEF CreateTask, NameFree, StoreTypeOK, Task
  <1>2. DeleteTask(n) => StoreTypeOK'
    BY DEF DeleteTask, Expired, StoreTypeOK, Task
  <1>3. DeleteTaskMissing(n) => StoreTypeOK'
    BY Zenon DEF DeleteTaskMissing, storeVars, StoreTypeOK
  <1>4. RunTask(n) => StoreTypeOK'
    BY DEF RunTask, StoreTypeOK, Task
  <1>5. \A t \in Task : UpdateTask(n, t) => StoreTypeOK'
    BY DEF UpdateTask, MergeRun, StoreTypeOK, Task
  <1>6. ASSUME NEW r, TakeRun(n, r) PROVE StoreTypeOK'
    <2>1. CASE tasks' = tasks
      BY <1>6, <2>1, Zenon DEF TakeRun, StoreTypeOK
    <2>2. CASE tasks[n] # NoTask /\ tasks' = [tasks EXCEPT ![n].run = 0]
      <3>1. [tasks[n] EXCEPT !.run = 0] \in Task
        BY <2>2 DEF StoreTypeOK, Task
      <3>2. tasks' \in [Names -> Task \cup {NoTask}]
        BY <2>2, <3>1, Zenon DEF StoreTypeOK
      <3> QED BY <1>6, <3>2, Zenon DEF TakeRun, StoreTypeOK
    <2> QED BY <1>6, <2>1, <2>2, Zenon DEF TakeRun
  <1> QED BY <1>1, <1>2, <1>3, <1>4, <1>5, <1>6, Zenon

------------------------------------------------------------------------------
\* Types of the worker's steps.

\* What the pass holds at each point of a turn.
PassOK ==
    /\ pc \in {"turn", "marked", "taking"} => cur \in Names /\ due[cur] # NoTask
    /\ pc = "taking" => fresh # NoTask /\ fresh.run # 0

Typed == TypeOK /\ PassOK

\* A new process is typed.
LEMMA InitTyped == Init => Typed
  <1> SUFFICES ASSUME Init PROVE Typed
    BY Zenon
  <1>1. StoreTypeOK
    BY InitStoreType, Zenon DEF Init
  <1>2. WorkerTypeOK /\ PassOK
    BY DispatchAssumption DEF Init, FreshWorker, WorkerTypeOK, PassOK
  <1> QED BY <1>1, <1>2, Zenon DEF Typed, TypeOK

\* At first nothing is stored, and nobody holds anything.
LEMMA InitEmpty ==
    ASSUME Init
    PROVE  /\ \A n \in Names : tasks[n] = NoTask /\ made[n] = 0 /\ acked[n] = {}
           /\ \A g \in Procs : att[g] = Idle
           /\ \A r \in 1..MaxRuns : started[r] = 0
           /\ pc = "idle" /\ inflight = {} /\ runs = 0
  BY Zenon DEF Init, StoreInit, FreshWorker

\* Clients keep the types: what the store operations do.
LEMMA ClientTyped == Typed /\ Client => Typed'
  <1> SUFFICES ASSUME Typed, Client PROVE Typed'
    BY Zenon
  <1>1. StoreTypeOK'
    BY QueueOpsType, TaskOpsType, Zenon DEF Client, Typed, TypeOK
  <1>2. WorkerTypeOK' /\ PassOK'
    BY Zenon DEF Client, Typed, TypeOK, WorkerTypeOK, PassOK, workerVars
  <1> QED BY <1>1, <1>2, Zenon DEF Typed, TypeOK

\* So does time.
LEMMA TickTyped == Typed /\ Tick => Typed'
  <1> SUFFICES ASSUME Typed, Tick PROVE Typed'
    BY Zenon
  <1>1. StoreTypeOK'
    BY DEF Tick, Typed, TypeOK, StoreTypeOK
  <1>2. WorkerTypeOK' /\ PassOK'
    BY Zenon DEF Tick, Typed, TypeOK, WorkerTypeOK, PassOK, workerVars
  <1> QED BY <1>1, <1>2, Zenon DEF Typed, TypeOK

\* Marking and unmarking keep the marks and counts typed.
LEMMA MarksTyped ==
    ASSUME WorkerTypeOK, NEW n \in Names, NEW q \in Queues
    PROVE  /\ Mark(n) /\ due[n].q = q =>
                  inflight' \subseteq Names /\ perQueue' \in [Queues -> Int]
           /\ Unmark(n, q) =>
                  inflight' \subseteq Names /\ perQueue' \in [Queues -> Int]
  <1>1. inflight \subseteq Names /\ perQueue \in [Queues -> Int]
    BY Zenon DEF WorkerTypeOK
  <1>2. /\ [perQueue EXCEPT ![q] = @ + 1] \in [Queues -> Int]
        /\ [perQueue EXCEPT ![q] = @ - 1] \in [Queues -> Int]
    BY <1>1
  <1> QED BY <1>1, <1>2, Zenon DEF Mark, Unmark

\* One more attempt of a creation is a count of them.
LEMMA CountUp ==
    ASSUME NEW f \in [Names -> [1..MaxMade -> Nat]], NEW n \in Names, NEW m \in 1..MaxMade
    PROVE  [f EXCEPT ![n][m] = @ + 1] \in [Names -> [1..MaxMade -> Nat]]
  <1>1. [f[n] EXCEPT ![m] = @ + 1] \in [1..MaxMade -> Nat]
    OBVIOUS
  <1> QED BY <1>1, Zenon

\* A started attempt is an attempt.
LEMMA StartTyped ==
    ASSUME Typed, NEW n \in Names, NEW t \in Task, NEW f \in BOOLEAN, Start(n, t, f)
    PROVE  /\ att' \in [Procs -> Attempt \cup {Idle}]
           /\ tries' \in [Names -> [1..MaxMade -> Nat]]
  <1>1. PICK g \in Procs :
           /\ att' = [att EXCEPT ![g] = [step |-> "prepare", n |-> n, q |-> t.q, t |-> t,
                                         forced |-> f, since |-> now]]
           /\ tries' = [tries EXCEPT ![n][t.made] = @ + 1]
    BY Zenon DEF Start
  <1>2. [step |-> "prepare", n |-> n, q |-> t.q, t |-> t, forced |-> f, since |-> now] \in Attempt
    BY Zenon DEF Attempt, Stages, Task, Typed, TypeOK, StoreTypeOK
  <1>3. att' \in [Procs -> Attempt \cup {Idle}]
    BY <1>1, <1>2, Zenon DEF Typed, TypeOK, WorkerTypeOK
  <1>4. t.made \in 1..MaxMade
    BY Zenon DEF Task
  <1>5. tries \in [Names -> [1..MaxMade -> Nat]]
    BY Zenon DEF Typed, TypeOK, WorkerTypeOK
  <1>6. tries' \in [Names -> [1..MaxMade -> Nat]]
    BY <1>1, <1>4, <1>5, CountUp, Zenon
  <1> QED BY <1>3, <1>6, Zenon

\* The steps of the pass keep the types and the due list of the task it holds.
LEMMA PassTyped == Typed /\ Pass => Typed'
  <1> SUFFICES ASSUME Typed, Pass PROVE Typed'
    BY Zenon
  <1> USE DispatchAssumption, RateAssumption DEF Typed, TypeOK
  <1>0. UNCHANGED storeVars => StoreTypeOK'
    BY Zenon DEF StoreTypeOK, storeVars
  <1>1. CASE BeginPass
    BY <1>0, <1>1, Zenon DEF BeginPass, StoreTypeOK, WorkerTypeOK, PassOK, markVars, histVars
  <1>2. CASE ListDue
    <2>1. due' \in [Names -> [q: Queues, run: 0..MaxRuns] \cup {NoTask}]
      BY <1>2, Zenon DEF ListDue, DueTasks, StoreTypeOK, Task
    <2> QED BY <1>0, <1>2, <2>1, Zenon DEF ListDue, WorkerTypeOK, PassOK, markVars, histVars
  <1>3. CASE EndPass
    BY <1>0, <1>3, Zenon DEF EndPass, WorkerTypeOK, PassOK, markVars, histVars
  <1>4. ASSUME NEW n \in Names, Turn(n) PROVE Typed'
    <2>1. due[n] \in [q: Queues, run: 0..MaxRuns]
      BY <1>4, Zenon DEF Turn, WorkerTypeOK
    <2>2. LimitOf(due[n].q) \in Nat
      BY <2>1, Zenon DEF LimitOf, StoreTypeOK, Queue, Config
    <2> QED BY <1>0, <1>4, <2>1, <2>2, Zenon DEF Turn, WorkerTypeOK, PassOK, markVars, histVars
  <1>5. ASSUME NEW n \in Names, MarkForced(n) PROVE Typed'
    <2>1. due[n] \in [q: Queues, run: 0..MaxRuns]
      BY <1>5, Zenon DEF MarkForced, WorkerTypeOK, PassOK
    <2>2. inflight' \subseteq Names /\ perQueue' \in [Queues -> Int]
      BY <1>5, <2>1, MarksTyped, Zenon DEF MarkForced
    <2> QED BY <1>0, <1>5, <2>2, Zenon DEF MarkForced, WorkerTypeOK, PassOK, passVars, histVars
  <1>6. ASSUME NEW n \in Names, MarkDue(n) PROVE Typed'
    <2>1. due[n] \in [q: Queues, run: 0..MaxRuns]
      BY <1>6, Zenon DEF MarkDue, WorkerTypeOK, PassOK
    <2>2. buckets' \in [Queues -> Nat]
      BY <1>6, <2>1 DEF MarkDue, Taken, WorkerTypeOK
    <2>3. inflight' \subseteq Names /\ perQueue' \in [Queues -> Int]
      BY <1>6, <2>1, MarksTyped, Zenon DEF MarkDue
    <2> QED BY <1>0, <1>6, <2>2, <2>3, Zenon DEF MarkDue, WorkerTypeOK, PassOK, passVars, histVars
  <1>7. ASSUME NEW n \in Names, Skip(n) PROVE Typed'
    BY <1>0, <1>7, Zenon DEF Skip, EndTurn, WorkerTypeOK, PassOK, markVars, histVars
  <1>8. ASSUME NEW n \in Names, Release(n) PROVE Typed'
    <2>1. due[n] \in [q: Queues, run: 0..MaxRuns]
      BY <1>8, Zenon DEF Release, WorkerTypeOK, PassOK
    <2>2. inflight' \subseteq Names /\ perQueue' \in [Queues -> Int]
      BY <1>8, <2>1, MarksTyped, Zenon DEF Release
    <2> QED BY <1>0, <1>8, <2>2, Zenon DEF Release, EndTurn, WorkerTypeOK, PassOK, histVars
  <1>9. ASSUME NEW n \in Names, StartDue(n) PROVE Typed'
    <2>1. tasks[n] \in Task
      BY <1>9, Zenon DEF StartDue, StillDue, StoreTypeOK
    <2>2. att' \in [Procs -> Attempt \cup {Idle}] /\ tries' \in [Names -> [1..MaxMade -> Nat]]
      BY <1>9, <2>1, StartTyped, Zenon DEF StartDue
    <2> QED BY <1>0, <1>9, <2>2, Zenon DEF StartDue, EndTurn, WorkerTypeOK, PassOK, markVars
  <1>10. ASSUME NEW n \in Names, ReadForced(n) PROVE Typed'
    BY <1>0, <1>10, Zenon DEF ReadForced, StillDue, StoreTypeOK, WorkerTypeOK, PassOK, markVars, histVars
  <1>11. ASSUME NEW n \in Names, StartForced(n) PROVE Typed'
    <2>0. fresh \in Task /\ fresh.run # 0
      BY <1>11, Zenon DEF StartForced, WorkerTypeOK, PassOK
    <2>1. [fresh EXCEPT !.run = 0] \in Task /\ fresh.run \in 1..MaxRuns
      BY <2>0 DEF Task
    <2>2. att' \in [Procs -> Attempt \cup {Idle}] /\ tries' \in [Names -> [1..MaxMade -> Nat]]
      BY <1>11, <2>1, StartTyped, Zenon DEF StartForced
    <2>3. StoreTypeOK'
      BY <1>11, TaskOpsType, Zenon DEF StartForced
    <2>4. started' \in [1..MaxRuns -> Nat]
      <3>1. started \in [1..MaxRuns -> Nat]
        BY Zenon DEF WorkerTypeOK
      <3>2. started' = [started EXCEPT ![fresh.run] = @ + 1]
        BY <1>11, Zenon DEF StartForced
      <3> HIDE DEF Typed, TypeOK
      <3> QED BY <2>1, <3>1, <3>2
    <2> QED BY <1>11, <2>2, <2>3, <2>4, Zenon DEF StartForced, EndTurn, WorkerTypeOK, PassOK, markVars
  <1> QED BY <1>1, <1>2, <1>3, <1>4, <1>5, <1>6, <1>7, <1>8, <1>9, <1>10, <1>11, Zenon DEF Pass

\* No attempt is Idle.
LEMMA NotIdle == \A a \in Attempt : a # Idle /\ a.step # "idle"
  BY DEF Attempt, Idle, Stages

\* A goroutine at some stage has an attempt.
LEMMA HasAttempt ==
    ASSUME Typed, NEW g \in Procs, att[g].step \in Stages
    PROVE  /\ att[g] \in Attempt
           /\ att[g].n \in Names /\ att[g].q \in Queues /\ att[g].t \in Task
           /\ att[g].since \in Nat
  <1>1. att[g] \in Attempt
    BY DEF Typed, TypeOK, WorkerTypeOK, Idle, Stages
  <1> QED BY <1>1, Zenon DEF Attempt

\* What a goroutine with an attempt holds.
LEMMA ActiveTyped ==
    ASSUME Typed, NEW g \in Procs, att[g] # Idle
    PROVE  /\ att[g] \in Attempt /\ att[g].step \in Stages
           /\ att[g].n \in Names /\ att[g].q \in Queues /\ att[g].t \in Task
           /\ att[g].since \in Nat
  <1>1. att[g] \in Attempt
    BY Zenon DEF Typed, TypeOK, WorkerTypeOK
  <1> QED BY <1>1, Zenon DEF Attempt

\* Go changes the stage and the record of one goroutine and nothing else.
LEMMA GoFacts ==
    ASSUME Typed, NEW g \in Procs, att[g].step \in Stages,
           NEW s \in Stages, NEW t \in Task, Go(g, s, t)
    PROVE  /\ att' \in [Procs -> Attempt \cup {Idle}]
           /\ att'[g] \in Attempt
           /\ att'[g].step = s /\ att'[g].t = t
           /\ att'[g].n = att[g].n /\ att'[g].q = att[g].q
           /\ att'[g].since = att[g].since /\ att'[g].forced = att[g].forced
           /\ \A h \in Procs \ {g} : att'[h] = att[h]
  <1>1. att[g] \in Attempt
    BY HasAttempt, Zenon
  <1>2. att \in [Procs -> Attempt \cup {Idle}]
    BY Zenon DEF Typed, TypeOK, WorkerTypeOK
  <1>3. att' = [att EXCEPT ![g] = [[att[g] EXCEPT !.step = s] EXCEPT !.t = t]]
    BY <1>1, <1>2, Zenon DEF Go
  <1>4. [[att[g] EXCEPT !.step = s] EXCEPT !.t = t] \in Attempt
    BY <1>1, Zenon DEF Attempt
  <1> QED BY <1>1, <1>2, <1>3, <1>4, Zenon DEF Attempt

\* What an attempt counts is a task.
LEMMA CountedTyped ==
    ASSUME Typed, NEW t \in Task
    PROVE  Counted(t) \in Task /\ Counted(t).made = t.made /\ Counted(t).run = t.run
           /\ Counted(t).q = t.q
  <1>1. now \in Nat
    BY Zenon DEF Typed, TypeOK, StoreTypeOK
  <1>2. CASE t.first = NoTime
    <2>1. Counted(t) = [[t EXCEPT !.count = @ + 1] EXCEPT !.first = now]
      BY <1>2, Zenon DEF Counted, Task
    <2> DEFINE c == [t EXCEPT !.count = @ + 1]
    <2>2. c \in Task /\ c.made = t.made /\ c.run = t.run /\ c.q = t.q
      BY DEF Task
    <2> HIDE DEF c
    <2>3. Counted(t) = [c EXCEPT !.first = now]
      BY <2>1, Zenon DEF c
    <2> QED BY <1>1, <2>2, <2>3, Zenon DEF Task
  <1>3. CASE t.first # NoTime
    <2>1. Counted(t) = [t EXCEPT !.count = @ + 1]
      BY <1>3, Zenon DEF Counted, Task
    <2> QED BY <2>1 DEF Task
  <1> QED BY <1>2, <1>3, Zenon

\* A wait is a time, for any configuration and count.
LEMMA DelayTyped ==
    ASSUME NEW c \in Config, NEW k \in Nat
    PROVE  Delay(c.retry, k) \in Nat
  BY DEF Delay, Cap, Config

\* What reschedule decides on is the task it read, at most scheduled anew.
LEMMA DecideGoes ==
    ASSUME Typed, NEW g \in Procs, Decide(g)
    PROVE  \E s \in {"exit", "store", "drop"}, t \in Task :
              /\ Go(g, s, t)
              /\ t.made = att[g].t.made /\ t.run = att[g].t.run /\ t.q = att[g].t.q
  <1>1. att[g].t \in Task
    BY HasAttempt, Zenon DEF Decide, Stages
  <1>2. CASE queues[att[g].t.q] # NoQueue
    <2> DEFINE d == now + Delay(queues[att[g].t.q].config.retry, att[g].t.count)
    <2>1. d \in Nat
      BY <1>1, <1>2, DelayTyped DEF Typed, TypeOK, StoreTypeOK, Queue, Task
    <2> DEFINE t == [att[g].t EXCEPT !.at = d]
    <2>2. Go(g, "store", t) \/ Go(g, "drop", att[g].t)
      BY <1>2, Zenon DEF Decide
    <2> HIDE DEF d
    <2>3. /\ t \in Task
          /\ t.made = att[g].t.made /\ t.run = att[g].t.run /\ t.q = att[g].t.q
      BY <1>1, <2>1, Zenon DEF Task
    <2> HIDE DEF t
    <2> QED BY <1>1, <2>2, <2>3, Zenon
  <1>3. CASE queues[att[g].t.q] = NoQueue
    BY <1>1, <1>3, Zenon DEF Decide
  <1> QED BY <1>2, <1>3, Zenon

\* The steps of an attempt keep the types.
LEMMA AttemptTyped ==
    ASSUME Typed, NEW g \in Procs, AttemptStep(g)
    PROVE  Typed'
  <1> USE DEF Stages
  <1>0. UNCHANGED storeVars => StoreTypeOK'
    BY Zenon DEF Typed, TypeOK, StoreTypeOK, storeVars
  <1>a. StoreTypeOK /\ WorkerTypeOK /\ PassOK
    BY Zenon DEF Typed, TypeOK
  <1>t. ASSUME att[g].step \in Stages
        PROVE  att[g].n \in Names /\ att[g].t \in Task /\ att[g].q \in Queues
    BY <1>t, HasAttempt, Zenon
  <1>1. CASE BuildFails(g)
    <2>1. att' \in [Procs -> Attempt \cup {Idle}]
      BY <1>1, <1>t, GoFacts, Zenon DEF BuildFails
    <2> QED BY <1>0, <1>1, <1>a, <2>1, Zenon
            DEF BuildFails, Typed, TypeOK, WorkerTypeOK, PassOK, passVars, markVars, histVars
  <1>2. CASE FailsUnsent(g)
    <2>1. att' \in [Procs -> Attempt \cup {Idle}]
      BY <1>2, <1>t, GoFacts, CountedTyped, Zenon DEF FailsUnsent
    <2> QED BY <1>0, <1>2, <1>a, <2>1, Zenon
            DEF FailsUnsent, Typed, TypeOK, WorkerTypeOK, PassOK, passVars, markVars, histVars
  <1>3. CASE Send(g)
    <2>1. att' \in [Procs -> Attempt \cup {Idle}]
      BY <1>3, <1>t, GoFacts, CountedTyped, Zenon DEF Send
    <2>2. sends' \in [Names -> [1..MaxMade -> Nat]]
      <3>1. att[g].n \in Names /\ att[g].t.made \in 1..MaxMade
        BY <1>3, <1>t, Zenon DEF Send, Task
      <3>2. sends \in [Names -> [1..MaxMade -> Nat]]
        BY <1>a, Zenon DEF WorkerTypeOK
      <3>3. sends' = [sends EXCEPT ![att[g].n][att[g].t.made] = @ + 1]
        BY <1>3, Zenon DEF Send
      <3> QED BY <3>1, <3>2, <3>3, CountUp, Zenon
    <2> QED BY <1>0, <1>3, <1>a, <2>1, <2>2, Zenon
            DEF Send, Typed, TypeOK, WorkerTypeOK, PassOK, passVars, markVars
  <1>4. CASE Acknowledged(g)
    <2>1. att' \in [Procs -> Attempt \cup {Idle}]
      BY <1>4, <1>t, GoFacts, Zenon DEF Acknowledged
    <2>2. acked' \in [Names -> SUBSET (1..MaxMade)]
      BY <1>4, <1>a, <1>t, Zenon DEF Acknowledged, Task, WorkerTypeOK
    <2> QED BY <1>0, <1>4, <1>a, <2>1, <2>2, Zenon
            DEF Acknowledged, Typed, TypeOK, WorkerTypeOK, PassOK, passVars, markVars
  <1>5. CASE Refused(g)
    <2>1. att' \in [Procs -> Attempt \cup {Idle}]
      BY <1>5, <1>t, GoFacts, Zenon DEF Refused
    <2> QED BY <1>0, <1>5, <1>a, <2>1, Zenon
            DEF Refused, Typed, TypeOK, WorkerTypeOK, PassOK, passVars, markVars, histVars
  <1>6. CASE DeleteDone(g)
    <2>1. att' \in [Procs -> Attempt \cup {Idle}]
      BY <1>6, <1>t, GoFacts, Zenon DEF DeleteDone
    <2>2. StoreTypeOK'
      BY <1>6, <1>a, <1>t, TaskOpsType, Zenon DEF DeleteDone
    <2> QED BY <1>6, <1>a, <2>1, <2>2, Zenon
            DEF DeleteDone, Typed, TypeOK, WorkerTypeOK, PassOK, passVars, markVars, histVars
  <1>7. CASE RecordFailure(g)
    <2>1. att' \in [Procs -> Attempt \cup {Idle}]
      BY <1>7, <1>t, GoFacts, Zenon DEF RecordFailure
    <2>2. StoreTypeOK'
      BY <1>7, <1>a, <1>t, TaskOpsType, Zenon DEF RecordFailure
    <2> QED BY <1>7, <1>a, <2>1, <2>2, Zenon
            DEF RecordFailure, Typed, TypeOK, WorkerTypeOK, PassOK, passVars, markVars, histVars
  <1>8. CASE Reread(g)
    <2>1. tasks[att[g].n] # NoTask => tasks[att[g].n] \in Task
      BY <1>8, <1>a, <1>t, Zenon DEF Reread, StoreTypeOK
    <2>2. att' \in [Procs -> Attempt \cup {Idle}]
      BY <1>8, <1>t, <2>1, GoFacts, Zenon DEF Reread
    <2> QED BY <1>0, <1>8, <1>a, <2>2, Zenon
            DEF Reread, Typed, TypeOK, WorkerTypeOK, PassOK, passVars, markVars, histVars
  <1>9. CASE Decide(g)
    <2>1. att' \in [Procs -> Attempt \cup {Idle}]
      BY <1>9, DecideGoes, GoFacts DEF Decide
    <2> QED BY <1>0, <1>9, <1>a, <2>1, Zenon
            DEF Decide, Typed, TypeOK, WorkerTypeOK, PassOK, passVars, markVars, histVars
  <1>10. CASE Drop(g)
    <2>1. att' \in [Procs -> Attempt \cup {Idle}]
      BY <1>10, <1>t, GoFacts, Zenon DEF Drop
    <2>2. StoreTypeOK'
      BY <1>10, <1>a, <1>t, TaskOpsType, Zenon DEF Drop
    <2> QED BY <1>10, <1>a, <2>1, <2>2, Zenon
            DEF Drop, Typed, TypeOK, WorkerTypeOK, PassOK, passVars, markVars, histVars
  <1>11. CASE StoreSchedule(g)
    <2>1. att' \in [Procs -> Attempt \cup {Idle}]
      BY <1>11, <1>t, GoFacts, Zenon DEF StoreSchedule
    <2>2. StoreTypeOK'
      BY <1>11, <1>a, <1>t, TaskOpsType, Zenon DEF StoreSchedule
    <2> QED BY <1>11, <1>a, <2>1, <2>2, Zenon
            DEF StoreSchedule, Typed, TypeOK, WorkerTypeOK, PassOK, passVars, markVars, histVars
  <1>12. CASE Exit(g)
    <2>1. inflight' \subseteq Names /\ perQueue' \in [Queues -> Int]
      BY <1>12, <1>a, <1>t, MarksTyped, Zenon DEF Exit
    <2>2. att' \in [Procs -> Attempt \cup {Idle}]
      BY <1>12, <1>a, Zenon DEF Exit, WorkerTypeOK
    <2> QED BY <1>0, <1>12, <1>a, <2>1, <2>2, ZenonT(30)
            DEF Exit, Typed, TypeOK, WorkerTypeOK, PassOK, passVars, histVars
  <1> QED BY <1>1, <1>2, <1>3, <1>4, <1>5, <1>6, <1>7, <1>8, <1>9, <1>10, <1>11, <1>12, Zenon
          DEF AttemptStep

\* Stops, crashes and restarts keep the types.
LEMMA ProcessTyped ==
    Typed /\ (Cancel \/ Stopped \/ Crash \/ Restart) => Typed'
  <1> SUFFICES ASSUME Typed, Cancel \/ Stopped \/ Crash \/ Restart PROVE Typed'
    BY Zenon
  <1>0. UNCHANGED storeVars => StoreTypeOK'
    BY Zenon DEF Typed, TypeOK, StoreTypeOK, storeVars
  <1>1. CASE Cancel
    <2>1. restarts' \in 0..MaxRestarts /\ crashes' \in 0..restarts'
      BY <1>1, DispatchAssumption DEF Cancel, Typed, TypeOK, WorkerTypeOK
    <2> QED BY <1>0, <1>1, <2>1, Zenon
            DEF Cancel, Typed, TypeOK, WorkerTypeOK, PassOK, passVars, markVars
  <1>2. CASE Restart
    BY <1>0, <1>2, Zenon DEF Restart, Typed, TypeOK, WorkerTypeOK, PassOK, passVars, markVars, histVars
  <1>3. CASE Stopped \/ Crash
    <2>1. StoreTypeOK'
      BY <1>3 DEF Stopped, Crash, Down, Typed, TypeOK, StoreTypeOK
    <2>2. restarts' \in 0..MaxRestarts /\ crashes' \in 0..restarts'
      BY <1>3, DispatchAssumption DEF Stopped, Crash, Typed, TypeOK, WorkerTypeOK
    <2>3. Down
      BY <1>3, Zenon DEF Stopped, Crash
    <2>4. /\ phase' = "down" /\ pc' = "idle" /\ passNow' = 0 /\ cur' = NoTask
          /\ fresh' = NoTask /\ inflight' = {}
          /\ due' \in [Names -> {NoTask}] /\ limits' \in [Queues -> Nat]
          /\ perQueue' \in [Queues -> Int] /\ buckets' \in [Queues -> Nat]
          /\ att' \in [Procs -> {Idle}] /\ acked' \in [Names -> SUBSET (1..MaxMade)]
      BY <2>3 DEF Down, FreshWorker
    <2>5. UNCHANGED <<tries, sends, started>>
      BY <2>3, Zenon DEF Down
    <2>6. WorkerTypeOK' /\ PassOK'
      BY <2>2, <2>4, <2>5, Zenon DEF Typed, TypeOK, WorkerTypeOK, PassOK
    <2> QED BY <2>1, <2>6, Zenon DEF Typed, TypeOK
  <1> QED BY <1>1, <1>2, <1>3, Zenon

\* Every step keeps the types.
LEMMA StepTyped == Typed /\ [Next]_vars => Typed'
  <1> SUFFICES ASSUME Typed, [Next]_vars PROVE Typed'
    BY Zenon
  <1>1. CASE UNCHANGED vars
    BY <1>1, Zenon DEF vars, storeVars, workerVars, Typed, TypeOK, StoreTypeOK, WorkerTypeOK, PassOK
  <1> QED BY <1>1, ClientTyped, TickTyped, PassTyped, AttemptTyped, ProcessTyped, Zenon DEF Next

(***************************************************************************)
(* Types hold in every reachable state of the store and of the worker.     *)
(***************************************************************************)
THEOREM TypeCorrect == Spec => []TypeOK
  <1>1. Init => Typed
    BY InitTyped, Zenon
  <1>2. Typed /\ [Next]_vars => Typed'
    BY StepTyped, Zenon
  <1>3. Typed => TypeOK
    BY Zenon DEF Typed
  <1> QED BY <1>1, <1>2, <1>3, PTL DEF Spec

------------------------------------------------------------------------------
\* The in-flight marks: a name is marked exactly while an attempt or the pass
\* holds it, and only one of them does.

Held(n) == (\E g \in Procs : att[g] # Idle /\ att[g].n = n) \/ (Holding /\ cur = n)

MarkInv ==
    /\ \A n \in Names : n \in inflight <=> Held(n)
    /\ OneAttemptPerTask
    /\ Holding => \A g \in Procs : att[g] # Idle => att[g].n # cur

\* Steps after which the same goroutines and the same pass hold the same names.
KeepsMarks ==
    /\ \A g \in Procs : att'[g] = Idle <=> att[g] = Idle
    /\ \A g \in Procs : att[g] # Idle =>
          att'[g].n = att[g].n /\ att'[g].q = att[g].q /\ att'[g].forced = att[g].forced
    /\ inflight' = inflight /\ perQueue' = perQueue
    /\ Holding' = Holding
    /\ Holding => cur' = cur /\ due'[cur] = due[cur]

\* Steps that touch no mark and no owner of one keep MarkInv.
LEMMA KeepsMarkInv == MarkInv /\ KeepsMarks => MarkInv'
  <1> SUFFICES ASSUME MarkInv, KeepsMarks PROVE MarkInv'
    BY Zenon
  <1>1. \A n \in Names : Held(n)' <=> Held(n)
    BY Zenon DEF KeepsMarks, Held
  <1>2. OneAttemptPerTask'
    BY Zenon DEF KeepsMarks, MarkInv, OneAttemptPerTask, Active
  <1>3. (Holding => \A g \in Procs : att[g] # Idle => att[g].n # cur)'
    BY Zenon DEF KeepsMarks, MarkInv
  <1> QED BY <1>1, <1>2, <1>3, Zenon DEF KeepsMarks, MarkInv

\* Every step of an attempt but the last one keeps the marks.
LEMMA GoKeepsMarks ==
    ASSUME Typed, NEW g \in Procs, att[g].step \in Stages, NEW s \in Stages,
           NEW t \in Task, Go(g, s, t), UNCHANGED <<inflight, perQueue, pc, cur, due>>
    PROVE  KeepsMarks
  <1>1. /\ att[g] # Idle /\ att'[g] # Idle
        /\ att'[g].n = att[g].n /\ att'[g].q = att[g].q /\ att'[g].forced = att[g].forced
        /\ \A h \in Procs \ {g} : att'[h] = att[h]
    BY GoFacts, HasAttempt, NotIdle, Zenon
  <1> QED BY <1>1, Zenon DEF KeepsMarks, Holding

\* An attempt touches no mark before it ends.
LEMMA AttemptKeepsMarks ==
    ASSUME Typed, NEW g \in Procs, AttemptStep(g), ~Exit(g)
    PROVE  KeepsMarks
  <1> USE DEF Stages, passVars, markVars
  <1>t. ASSUME att[g].step \in Stages PROVE att[g].n \in Names /\ att[g].t \in Task
    BY <1>t, HasAttempt, Zenon
  <1>1. CASE BuildFails(g) \/ Refused(g) \/ Acknowledged(g)
    BY <1>1, <1>t, GoKeepsMarks, Zenon DEF BuildFails, Refused, Acknowledged
  <1>2. CASE FailsUnsent(g) \/ Send(g)
    BY <1>2, <1>t, CountedTyped, GoKeepsMarks, ZenonT(30) DEF FailsUnsent, Send
  <1>3. CASE DeleteDone(g) \/ RecordFailure(g) \/ Drop(g) \/ StoreSchedule(g)
    BY <1>3, <1>t, GoKeepsMarks, Zenon DEF DeleteDone, RecordFailure, Drop, StoreSchedule
  <1>4. CASE Reread(g)
    <2>1. tasks[att[g].n] # NoTask => tasks[att[g].n] \in Task
      BY <1>4, <1>t, Zenon DEF Reread, Typed, TypeOK, StoreTypeOK
    <2> QED BY <1>4, <1>t, <2>1, GoKeepsMarks, Zenon DEF Reread
  <1>5. CASE Decide(g)
    BY <1>5, DecideGoes, GoKeepsMarks, Zenon DEF Decide
  <1> QED BY <1>1, <1>2, <1>3, <1>4, <1>5, Zenon DEF AttemptStep

\* Its end clears the mark, the last thing it does.
LEMMA ExitMarkInv ==
    ASSUME Typed, MarkInv, NEW g \in Procs, Exit(g)
    PROVE  MarkInv'
  <1>1. att[g] \in Attempt /\ att[g] # Idle
    BY HasAttempt, NotIdle, Zenon DEF Exit, Stages
  <1>2. att' = [att EXCEPT ![g] = Idle] /\ att \in [Procs -> Attempt \cup {Idle}]
    BY Zenon DEF Exit, Typed, TypeOK, WorkerTypeOK
  <1>3. att'[g] = Idle /\ \A h \in Procs \ {g} : att'[h] = att[h]
    BY <1>2, Zenon
  <1>4. inflight' = inflight \ {att[g].n} /\ UNCHANGED <<pc, cur>>
    BY Zenon DEF Exit, Unmark, passVars
  <1> QED BY <1>1, <1>3, <1>4 DEF MarkInv, Held, OneAttemptPerTask, Active, Holding

\* Marking a name nobody holds, releasing it and starting its attempt.
LEMMA MarkMarkInv ==
    ASSUME Typed, MarkInv, NEW n \in Names, MarkForced(n) \/ MarkDue(n)
    PROVE  MarkInv'
  <1>1. /\ n \notin inflight /\ inflight' = inflight \cup {n}
        /\ cur' = n /\ pc' = "marked" /\ pc = "turn" /\ att' = att
    BY Zenon DEF MarkForced, MarkDue, CanMark, Mark, passVars
  <1> QED BY <1>1, Zenon DEF MarkInv, Held, OneAttemptPerTask, Active, Holding

\* A release clears the mark only the pass held.
LEMMA ReleaseMarkInv ==
    ASSUME Typed, MarkInv, NEW n \in Names, Release(n)
    PROVE  MarkInv'
  <1>1. /\ inflight' = inflight \ {n} /\ cur = n
        /\ pc = "marked" /\ pc' = "walking" /\ att' = att
    BY Zenon DEF Release, Unmark, EndTurn
  <1> QED BY <1>1, Zenon DEF MarkInv, Held, OneAttemptPerTask, Active, Holding

\* A start hands the mark of the pass to the attempt.
LEMMA StartMarkInv ==
    ASSUME Typed, MarkInv, NEW n \in Names, StartDue(n) \/ StartForced(n)
    PROVE  MarkInv'
  <1>1. /\ inflight' = inflight /\ cur = n /\ Holding /\ pc' = "walking"
    BY Zenon DEF StartDue, StartForced, EndTurn, Holding, markVars
  <1>2. PICK t, f : Start(n, t, f)
    BY Zenon DEF StartDue, StartForced
  <1>3. PICK g \in Procs :
           /\ att[g] = Idle
           /\ att' = [att EXCEPT ![g] = [step |-> "prepare", n |-> n, q |-> t.q, t |-> t,
                                         forced |-> f, since |-> now]]
    BY <1>2, Zenon DEF Start
  <1>4. /\ att'[g] # Idle /\ att'[g].n = n
        /\ \A h \in Procs \ {g} : att'[h] = att[h]
    BY <1>3, Zenon DEF Typed, TypeOK, WorkerTypeOK, Idle
  <1>5. \A m \in Names : Held(m)' <=> Held(m)
    BY <1>1, <1>3, <1>4, Zenon DEF Held, Holding
  <1>6. OneAttemptPerTask'
    BY <1>1, <1>3, <1>4 DEF MarkInv, OneAttemptPerTask, Active
  <1> QED BY <1>1, <1>5, <1>6, Zenon DEF MarkInv, Holding

\* The steps that touch marks, or who holds them; every other step keeps them.
MarkStep ==
    \/ \E g \in Procs : Exit(g)
    \/ \E n \in Names :
          MarkForced(n) \/ MarkDue(n) \/ Release(n) \/ StartDue(n) \/ StartForced(n)
    \/ Stopped \/ Crash

LEMMA StepsKeepMarks == ASSUME Typed, [Next]_vars PROVE KeepsMarks \/ MarkStep
  <1>1. CASE UNCHANGED vars \/ Client \/ Tick
    BY <1>1, Zenon DEF KeepsMarks, Client, Tick, vars, workerVars, Holding
  <1>2. CASE BeginPass \/ ListDue \/ EndPass
    BY <1>2, SMTT(30) DEF KeepsMarks, BeginPass, ListDue, EndPass, markVars, Holding
  <1>3. ASSUME NEW n \in Names, Turn(n) \/ Skip(n) \/ ReadForced(n) PROVE KeepsMarks
    BY <1>3 DEF KeepsMarks, Turn, Skip, EndTurn, ReadForced, markVars, Holding
  <1>4. CASE Pass
    BY <1>2, <1>3, <1>4, Zenon DEF Pass, MarkStep
  <1>5. CASE \E g \in Procs : AttemptStep(g)
    BY <1>5, AttemptKeepsMarks, Zenon DEF MarkStep
  <1>6. CASE Cancel \/ Restart
    BY <1>6, Zenon DEF KeepsMarks, Cancel, Restart, passVars, markVars, Holding
  <1> QED BY <1>1, <1>4, <1>5, <1>6, Zenon DEF Next, MarkStep

\* Every step keeps MarkInv.
LEMMA StepMarkInv == Typed /\ MarkInv /\ [Next]_vars => MarkInv'
  <1> SUFFICES ASSUME Typed, MarkInv, [Next]_vars PROVE MarkInv'
    BY Zenon
  <1>1. CASE Stopped \/ Crash
    <2>1. pc' = "idle" /\ inflight' = {} /\ \A g \in Procs : att'[g] = Idle
      BY <1>1, Zenon DEF Stopped, Crash, Down, FreshWorker
    <2> QED BY <2>1, Zenon DEF MarkInv, Held, OneAttemptPerTask, Active, Holding
  <1> QED
    BY <1>1, StepsKeepMarks, KeepsMarkInv, ExitMarkInv, MarkMarkInv, ReleaseMarkInv,
       StartMarkInv, Zenon
    DEF MarkStep

\* A new process has no marks.
LEMMA InitMarkInv == Init => MarkInv
  BY InitEmpty, Zenon DEF MarkInv, Held, OneAttemptPerTask, Active, Holding

(***************************************************************************)
(* Two attempts of one task are never out together, for any number of      *)
(* queues, tasks and goroutines and across restarts: the mark of startAll  *)
(* is set before the task is read again and cleared last (start).          *)
(***************************************************************************)
THEOREM OneAttempt == Spec => []OneAttemptPerTask
  <1>1. Init => Typed /\ MarkInv
    BY InitTyped, InitMarkInv, Zenon
  <1>2. Typed /\ MarkInv /\ [Next]_vars => (Typed /\ MarkInv)'
    BY StepTyped, StepMarkInv, Zenon
  <1>3. MarkInv => OneAttemptPerTask
    BY Zenon DEF MarkInv
  <1> QED BY <1>1, <1>2, <1>3, PTL DEF Spec
------------------------------------------------------------------------------
\* Acknowledged tasks: a stored task that answered 2xx is about to be deleted
\* by the attempt that got the answer, and no copy of it can be sent again.

Answered == {"delete", "reread", "exit"}

AckInv ==
    /\ \A n \in Names : tasks[n] # NoTask => tasks[n].made <= made[n]
    /\ \A n \in Names : \A m \in acked[n] : m <= made[n]
    /\ \A g \in Procs : att[g] # Idle => att[g].t.made <= made[att[g].n]
    /\ pc = "taking" => fresh.made <= made[cur] /\ fresh.made \notin acked[cur]
    /\ \A n \in Names : tasks[n] # NoTask /\ tasks[n].made \in acked[n] =>
          \E g \in Procs : att[g] # Idle /\ att[g].n = n /\ att[g].step = "delete"
    /\ \A g \in Procs : att[g] # Idle /\ att[g].t.made \in acked[att[g].n] =>
          att[g].step \in Answered

\* What every operation but the write-back does to the creation a name holds.
HeldOrNew(n) ==
    \/ tasks'[n] = NoTask /\ made'[n] >= made[n]
    \/ tasks[n] # NoTask /\ tasks'[n].made = tasks[n].made /\ made'[n] = made[n]
    \/ tasks'[n] \in Task /\ made'[n] = made[n] + 1 /\ tasks'[n].made = made'[n]

LEMMA MadeTyped ==
    ASSUME Typed PROVE \A n \in Names : made[n] \in Nat
  BY DEF Typed, TypeOK, StoreTypeOK

LEMMA HeldBounded ==
    ASSUME AckInv, NEW n \in Names, made[n] \in Nat, HeldOrNew(n), tasks'[n] # NoTask
    PROVE  tasks'[n].made <= made'[n]
  BY DEF HeldOrNew, AckInv

\* DeleteTask leaves no task, and adds none.
LEMMA DeleteHolds ==
    ASSUME StoreTypeOK, NEW k \in Names, DeleteTask(k) \/ DeleteTaskMissing(k)
    PROVE  /\ \A n \in Names : HeldOrNew(n)
           /\ tasks'[k] = NoTask /\ made' = made
  BY DEF DeleteTask, DeleteTaskMissing, HeldOrNew, StoreTypeOK, storeVars

\* TakeRun changes no creation.
LEMMA TakeRunHolds ==
    ASSUME StoreTypeOK, NEW k \in Names, NEW r, TakeRun(k, r)
    PROVE  made' = made /\ \A n \in Names : HeldOrNew(n)
  <1>1. CASE tasks' = tasks
    BY <1>1 DEF TakeRun, HeldOrNew, StoreTypeOK
  <1>2. CASE tasks[k] # NoTask /\ tasks' = [tasks EXCEPT ![k].run = 0]
    BY <1>2 DEF TakeRun, HeldOrNew, StoreTypeOK, Task
  <1> QED BY <1>1, <1>2, Zenon DEF TakeRun

\* Clients store a new creation or leave the old one.
LEMMA ClientHolds ==
    ASSUME StoreTypeOK, Client
    PROVE  \A n \in Names : HeldOrNew(n)
  <1>1. ASSUME NEW q \in Queues,
               \/ CreateQueue(q) \/ UpdateQueue(q) \/ DeleteQueue(q) \/ PurgeQueue(q)
               \/ \E s \in {"RUNNING", "PAUSED"} : SetQueueState(q, s)
        PROVE  \A n \in Names : HeldOrNew(n)
    BY <1>1 DEF CreateQueue, UpdateQueue, DeleteQueue, PurgeQueue, SetQueueState, Wipe,
                HeldOrNew, StoreTypeOK
  <1>2. ASSUME NEW k \in Names, CreateTask(k) PROVE \A n \in Names : HeldOrNew(n)
    <2>1. PICK q \in Queues, b \in BOOLEAN, at \in now..(now + Lead) :
             tasks' = [tasks EXCEPT ![k] =
                [q |-> q, made |-> made[k] + 1, at |-> at, count |-> 0, first |-> NoTime,
                 run |-> 0, server |-> b]]
      BY <1>2, Zenon DEF CreateTask
    <2>2. /\ \A n \in Names \ {k} : tasks'[n] = tasks[n]
          /\ tasks'[k].made = made[k] + 1
      BY <2>1, Zenon DEF StoreTypeOK
    <2>3. tasks'[k] \in Task
      BY <1>2, <2>1 DEF CreateTask, StoreTypeOK, Task
    <2> QED BY <1>2, <2>2, <2>3 DEF CreateTask, HeldOrNew, StoreTypeOK
  <1>3. ASSUME NEW k \in Names, RunTask(k) PROVE \A n \in Names : HeldOrNew(n)
    BY <1>3 DEF RunTask, HeldOrNew, StoreTypeOK, Task
  <1> QED BY <1>1, <1>2, <1>3, DeleteHolds, Zenon DEF Client

\* The pass and the attempts as they were.
LEMMA IdleAckInv ==
    ASSUME Typed, Typed', AckInv, \A n \in Names : HeldOrNew(n),
           UNCHANGED <<acked, att>>, pc' = "taking" => UNCHANGED <<pc, cur, fresh>>
    PROVE  AckInv'
  <1>1. \A n \in Names : made[n] \in Nat /\ made'[n] \in Nat /\ made'[n] >= made[n]
    BY DEF HeldOrNew, Typed, TypeOK, StoreTypeOK
  <1>2. \A n \in Names : acked[n] \subseteq Nat
    BY DEF Typed, TypeOK, WorkerTypeOK
  <1>3. \A n \in Names : /\ tasks[n] # NoTask => tasks[n].made \in Nat
                        /\ tasks'[n] # NoTask => tasks'[n].made \in Nat
    BY DEF Typed, TypeOK, StoreTypeOK, Task
  <1>4. \A g \in Procs : att[g] # Idle => att[g].t.made \in Nat /\ att[g].n \in Names
    BY ActiveTyped DEF Task
  <1>5. pc = "taking" => fresh.made \in Nat /\ cur \in Names
    BY DEF Typed, TypeOK, WorkerTypeOK, PassOK, Task
  <1>6. (\A n \in Names : tasks[n] # NoTask => tasks[n].made <= made[n])'
    BY <1>1, <1>3 DEF HeldOrNew, AckInv
  <1>7. (\A n \in Names : \A m \in acked[n] : m <= made[n])'
    BY <1>1, <1>2 DEF AckInv
  <1>8. (\A g \in Procs : att[g] # Idle => att[g].t.made <= made[att[g].n])'
    BY <1>1, <1>4 DEF AckInv
  <1>9. (pc = "taking" => fresh.made <= made[cur] /\ fresh.made \notin acked[cur])'
    BY <1>1, <1>5 DEF AckInv
  <1>10. (\A n \in Names : tasks[n] # NoTask /\ tasks[n].made \in acked[n] =>
            \E g \in Procs : att[g] # Idle /\ att[g].n = n /\ att[g].step = "delete")'
    BY <1>1, <1>2, <1>3 DEF HeldOrNew, AckInv
  <1>11. (\A g \in Procs : att[g] # Idle /\ att[g].t.made \in acked[att[g].n] =>
            att[g].step \in Answered)'
    BY Zenon DEF AckInv
  <1> QED BY <1>6, <1>7, <1>8, <1>9, <1>10, <1>11, Zenon DEF AckInv

\* A step of one attempt that keeps what it holds or reads the stored task.
LEMMA GoAckInv ==
    ASSUME Typed, Typed', AckInv, NEW g \in Procs, att[g].step \in Stages,
           NEW s \in Stages, NEW t \in Task, Go(g, s, t),
           UNCHANGED <<acked, made, pc, cur, fresh>>,
           t.made <= made[att[g].n],
           t.made \in acked[att[g].n] => s \in Answered,
           \A n \in Names \ {att[g].n} : HeldOrNew(n),
           \/ tasks'[att[g].n] = NoTask
           \/ att[g].step # "delete" /\ HeldOrNew(att[g].n)
           \/ /\ tasks'[att[g].n].made \notin acked[att[g].n]
              /\ tasks'[att[g].n].made <= made[att[g].n]
    PROVE  AckInv'
  <1>1. /\ att[g] # Idle /\ att[g].n \in Names
        /\ att'[g] # Idle /\ att'[g].n = att[g].n /\ att'[g].t = t /\ att'[g].step = s
        /\ \A h \in Procs \ {g} : att'[h] = att[h]
    BY GoFacts, HasAttempt, NotIdle
  <1>2. \A n \in Names : made[n] \in Nat
    BY MadeTyped, Zenon
  <1>3. (\A n \in Names : tasks[n] # NoTask => tasks[n].made <= made[n])'
    <2> SUFFICES ASSUME NEW n \in Names, tasks'[n] # NoTask PROVE tasks'[n].made <= made'[n]
      BY Zenon
    <2>1. CASE HeldOrNew(n)
      BY <1>2, <2>1, HeldBounded, Zenon
    <2>2. CASE n = att[g].n /\ tasks'[n].made <= made[n]
      BY <2>2, Zenon
    <2> QED BY <1>1, <2>1, <2>2, Zenon
  <1>4. (\A g_1 \in Procs : att[g_1] # Idle => att[g_1].t.made <= made[att[g_1].n])'
    BY <1>1, Zenon DEF AckInv
  <1>5. (\A n \in Names : tasks[n] # NoTask /\ tasks[n].made \in acked[n] =>
            \E h \in Procs : att[h] # Idle /\ att[h].n = n /\ att[h].step = "delete")'
    <2> SUFFICES ASSUME NEW n \in Names, tasks'[n] # NoTask, tasks'[n].made \in acked[n]
                 PROVE  \E h \in Procs : att'[h] # Idle /\ att'[h].n = n /\ att'[h].step = "delete"
      BY Zenon
    <2>1. tasks[n] # NoTask /\ tasks'[n].made = tasks[n].made
      BY <1>1, <1>2 DEF HeldOrNew
    <2>2. PICK h \in Procs : att[h] # Idle /\ att[h].n = n /\ att[h].step = "delete"
      BY <2>1, Zenon DEF AckInv
    <2>3. h # g
      BY <1>1, <2>2, Zenon
    <2> QED BY <1>1, <2>2, <2>3, Zenon
  <1>6. (\A h \in Procs : att[h] # Idle /\ att[h].t.made \in acked[att[h].n] =>
            att[h].step \in Answered)'
    BY <1>1, Zenon DEF AckInv
  <1> QED BY <1>3, <1>4, <1>5, <1>6, Zenon DEF AckInv

\* A 2xx: the attempt that got it is the only one of its task.
LEMMA AcknowledgedAckInv ==
    ASSUME Typed, Typed', MarkInv, AckInv, NEW g \in Procs, Acknowledged(g)
    PROVE  AckInv'
  <1> DEFINE n == att[g].n
  <1> DEFINE t == att[g].t
  <1>1. /\ att[g] # Idle /\ n \in Names /\ t \in Task
        /\ att'[g] # Idle /\ att'[g].n = n /\ att'[g].t = t /\ att'[g].step = "delete"
        /\ \A h \in Procs \ {g} : att'[h] = att[h]
    BY GoFacts, HasAttempt, NotIdle, ZenonT(30) DEF Acknowledged, Stages
  <1>2. /\ acked'[n] = acked[n] \cup {t.made}
        /\ \A m \in Names \ {n} : acked'[m] = acked[m]
    BY <1>1, Zenon DEF Acknowledged, Typed, TypeOK, WorkerTypeOK
  <1>3. UNCHANGED <<tasks, made, pc, cur, fresh>>
    BY Zenon DEF Acknowledged, storeVars, passVars
  <1>4. \A h \in Procs : att[h] # Idle /\ att[h].n = n => h = g
    BY <1>1, Zenon DEF MarkInv, OneAttemptPerTask, Active
  <1>5. pc = "taking" => cur # n
    BY <1>1, Zenon DEF MarkInv, Holding
  <1> HIDE DEF n, t
  <1>6. t.made <= made[n]
    BY <1>1, Zenon DEF AckInv, n, t
  <1>7. (pc = "taking" => fresh.made <= made[cur] /\ fresh.made \notin acked[cur])'
    BY <1>2, <1>3, <1>5, Zenon DEF AckInv, Typed, PassOK
  <1>8. (\A h \in Procs : att[h] # Idle => att[h].t.made <= made[att[h].n])'
    BY <1>1, <1>3, <1>6, Zenon DEF AckInv
  <1>9. (\A m \in Names : \A k \in acked[m] : k <= made[m])'
    BY <1>1, <1>2, <1>3, <1>6 DEF AckInv
  <1>10. (\A m \in Names : tasks[m] # NoTask /\ tasks[m].made \in acked[m] =>
            \E h \in Procs : att[h] # Idle /\ att[h].n = m /\ att[h].step = "delete")'
    <2> SUFFICES ASSUME NEW m \in Names, tasks'[m] # NoTask, tasks'[m].made \in acked'[m]
                 PROVE  \E h \in Procs : att'[h] # Idle /\ att'[h].n = m /\ att'[h].step = "delete"
      BY Zenon
    <2>1. CASE m = n
      BY <1>1, <2>1, Zenon
    <2>2. CASE m # n
      <3>1. PICK h \in Procs : att[h] # Idle /\ att[h].n = m /\ att[h].step = "delete"
        BY <1>2, <1>3, <2>2, Zenon DEF AckInv
      <3> QED BY <1>1, <2>2, <3>1, Zenon DEF n
    <2> QED BY <2>1, <2>2, Zenon
  <1>11. (\A h \in Procs : att[h] # Idle /\ att[h].t.made \in acked[att[h].n] =>
            att[h].step \in Answered)'
    <2> SUFFICES ASSUME NEW h \in Procs, att'[h] # Idle, att'[h].t.made \in acked'[att'[h].n]
                 PROVE  att'[h].step \in Answered
      BY Zenon
    <2>1. CASE h = g
      BY <1>1, <2>1, Zenon DEF Answered
    <2>2. CASE h # g
      <3>1. att'[h] = att[h] /\ att[h].n # n
        BY <1>1, <1>4, <2>2, Zenon
      <3> QED BY <1>2, <3>1, ActiveTyped, Zenon DEF AckInv
    <2> QED BY <2>1, <2>2, Zenon
  <1> QED BY <1>3, <1>7, <1>8, <1>9, <1>10, <1>11, Zenon DEF AckInv

\* A store left alone holds what it held.
LEMMA UnchangedHolds ==
    ASSUME StoreTypeOK, UNCHANGED <<tasks, made>>
    PROVE  \A n \in Names : HeldOrNew(n)
  BY SMTT(30) DEF HeldOrNew, StoreTypeOK

\* The write-back of an attempt's record, which answered nothing.
LEMMA UpdateAckInv ==
    ASSUME Typed, Typed', AckInv, NEW g \in Procs, att[g].step \in {"record", "store"},
           UpdateTask(att[g].n, att[g].t), NEW s \in {"reread", "exit"},
           Go(g, s, att[g].t), UNCHANGED <<acked, pc, cur, fresh>>
    PROVE  AckInv'
  <1> DEFINE n == att[g].n
  <1> DEFINE t == att[g].t
  <1>1. att[g] # Idle /\ n \in Names /\ t \in Task /\ att[g].step \in Stages
    BY HasAttempt, NotIdle, Zenon DEF Stages
  <1>2. t.made \notin acked[n] /\ t.made <= made[n]
    BY <1>1, Zenon DEF AckInv, Answered
  <1> HIDE DEF n, t
  <1>3. made' = made /\ \A m \in Names \ {n} : HeldOrNew(m)
    BY DEF UpdateTask, HeldOrNew, Typed, TypeOK, StoreTypeOK, n
  <1>4. tasks'[n] = NoTask \/ tasks'[n].made = t.made
    BY <1>1, Zenon DEF UpdateTask, MergeRun, Typed, TypeOK, StoreTypeOK, Task, n, t
  <1> QED BY <1>1, <1>2, <1>3, <1>4, GoAckInv, ZenonT(30) DEF Stages, Answered, n, t

\* The steps of an attempt keep AckInv.
LEMMA AttemptAckInv ==
    ASSUME Typed, Typed', MarkInv, AckInv, NEW g \in Procs, AttemptStep(g)
    PROVE  AckInv'
  <1> DEFINE n == att[g].n
  <1>a. StoreTypeOK
    BY Zenon DEF Typed, TypeOK
  <1>t. ASSUME att[g].step \in Stages
        PROVE  /\ att[g] # Idle /\ n \in Names /\ att[g].t \in Task
               /\ att[g].t.made <= made[n]
               /\ att[g].t.made \in acked[n] => att[g].step \in Answered
    BY <1>t, HasAttempt, NotIdle, Zenon DEF AckInv
  <1>1. CASE BuildFails(g) \/ Refused(g)
    <2>1. /\ att[g].step \in {"prepare", "waiting"}
          /\ \E s \in {"reread", "record"} : Go(g, s, att[g].t)
          /\ UNCHANGED <<tasks, made, acked, pc, cur, fresh>>
      BY <1>1, Zenon DEF BuildFails, Refused, storeVars, passVars, histVars
    <2> QED BY <1>a, <1>t, <2>1, UnchangedHolds, GoAckInv, ZenonT(30) DEF Stages, Answered
  <1>2. CASE FailsUnsent(g) \/ Send(g)
    <2>1. /\ att[g].step = "prepare"
          /\ \E s \in {"waiting", "record"} : Go(g, s, Counted(att[g].t))
          /\ UNCHANGED <<tasks, made, acked, pc, cur, fresh>>
      BY <1>2, Zenon DEF FailsUnsent, Send, storeVars, passVars, histVars
    <2>2. Counted(att[g].t) \in Task /\ Counted(att[g].t).made = att[g].t.made
      <3>1. att[g].step \in Stages
        BY <2>1, Zenon DEF Stages
      <3> QED BY <1>t, <3>1, CountedTyped, Zenon
    <2> QED BY <1>a, <1>t, <2>1, <2>2, UnchangedHolds, GoAckInv, Zenon DEF Stages, Answered
  <1>3. CASE DeleteDone(g) \/ Drop(g)
    <2>1. /\ att[g].step \in {"delete", "drop"}
          /\ DeleteTask(n) \/ DeleteTaskMissing(n)
          /\ \E s \in {"reread", "exit"} : Go(g, s, att[g].t)
          /\ UNCHANGED <<acked, pc, cur, fresh>>
      BY <1>3, ZenonT(30) DEF DeleteDone, Drop, passVars, histVars
    <2>2. n \in Names
      BY <1>t, <2>1, Zenon DEF Stages
    <2>3. tasks'[n] = NoTask /\ made' = made /\ \A m \in Names : HeldOrNew(m)
      BY <1>a, <2>1, <2>2, DeleteHolds, Zenon
    <2> QED BY <1>t, <2>1, <2>3, GoAckInv, ZenonT(30) DEF Stages, Answered
  <1>4. CASE RecordFailure(g) \/ StoreSchedule(g)
    BY <1>4, UpdateAckInv, Zenon DEF RecordFailure, StoreSchedule, passVars, histVars
  <1>5. CASE Reread(g)
    <2>1. att[g].step = "reread" /\ UNCHANGED <<tasks, made, acked, pc, cur, fresh>>
      BY <1>5, Zenon DEF Reread, storeVars, passVars, histVars
    <2>2. CASE tasks[n] = NoTask
      BY <1>a, <1>5, <1>t, <2>1, <2>2, UnchangedHolds, GoAckInv, Zenon DEF Reread, Stages, Answered
    <2>3. CASE tasks[n] # NoTask
      <3>1. tasks[n] \in Task /\ tasks[n].made <= made[n] /\ Go(g, "decide", tasks[n])
        BY <1>a, <1>5, <1>t, <2>1, <2>3, Zenon DEF Reread, StoreTypeOK, Stages, AckInv
      <3>2. tasks[n].made \notin acked[n]
        <4>1. \A h \in Procs : att[h] # Idle /\ att[h].n = n => h = g
          BY <1>t, <2>1, Zenon DEF MarkInv, OneAttemptPerTask, Active, Stages
        <4> QED BY <1>t, <2>1, <2>3, <4>1, Zenon DEF AckInv, Stages
      <3> QED BY <1>a, <1>t, <2>1, <3>1, <3>2, UnchangedHolds, GoAckInv, ZenonT(30) DEF Stages
    <2> QED BY <2>2, <2>3, Zenon
  <1>6. CASE Decide(g)
    <2>1. att[g].step = "decide" /\ UNCHANGED <<tasks, made, acked, pc, cur, fresh>>
      BY <1>6, Zenon DEF Decide, storeVars, passVars, histVars
    <2>2. \E s \in {"exit", "store", "drop"}, t \in Task :
             Go(g, s, t) /\ t.made = att[g].t.made
      BY <1>6, <1>t, DecideGoes, Zenon DEF Stages, Decide
    <2> QED BY <1>a, <1>t, <2>1, <2>2, UnchangedHolds, GoAckInv, ZenonT(30) DEF Stages, Answered
  <1>7. CASE Exit(g)
    <2>1. /\ att[g].step = "exit" /\ UNCHANGED <<tasks, made, acked, pc, cur, fresh>>
          /\ att'[g] = Idle /\ \A h \in Procs \ {g} : att'[h] = att[h]
      BY <1>7, ZenonT(30) DEF Exit, storeVars, passVars, histVars, Typed, TypeOK, WorkerTypeOK
    <2> QED BY <2>1 DEF AckInv
  <1> QED BY <1>1, <1>2, <1>3, <1>4, <1>5, <1>6, <1>7, AcknowledgedAckInv, Zenon DEF AttemptStep

\* start: the attempt of a name the pass holds, so of a task not answered.
LEMMA StartAckInv ==
    ASSUME Typed, Typed', AckInv, NEW n \in Names, NEW t \in Task, NEW f \in BOOLEAN,
           Start(n, t, f), \A k \in Names : HeldOrNew(k),
           UNCHANGED <<acked, made>>, pc' = "walking",
           t.made <= made[n], t.made \notin acked[n]
    PROVE  AckInv'
  <1>1. PICK g \in Procs :
           /\ att[g] = Idle
           /\ att' = [att EXCEPT ![g] = [step |-> "prepare", n |-> n, q |-> t.q, t |-> t,
                                         forced |-> f, since |-> now]]
    BY Zenon DEF Start
  <1>2. /\ att'[g].n = n /\ att'[g].t = t
        /\ \A h \in Procs \ {g} : att'[h] = att[h]
    BY <1>1, ZenonT(30) DEF Typed, TypeOK, WorkerTypeOK
  <1>3. \A k \in Names : made[k] \in Nat
    BY MadeTyped, Zenon
  <1>4. (\A k \in Names : tasks[k] # NoTask => tasks[k].made <= made[k])'
    BY <1>3, HeldBounded, Zenon
  <1>5. (\A k \in Names : tasks[k] # NoTask /\ tasks[k].made \in acked[k] =>
            \E h \in Procs : att[h] # Idle /\ att[h].n = k /\ att[h].step = "delete")'
    <2> SUFFICES ASSUME NEW k \in Names, tasks'[k] # NoTask, tasks'[k].made \in acked[k]
                 PROVE  \E h \in Procs : att'[h] # Idle /\ att'[h].n = k /\ att'[h].step = "delete"
      BY Zenon
    <2>1. tasks[k] # NoTask /\ tasks'[k].made = tasks[k].made
      BY <1>3 DEF HeldOrNew
    <2>2. PICK h \in Procs : att[h] # Idle /\ att[h].n = k /\ att[h].step = "delete"
      BY <2>1, Zenon DEF AckInv
    <2> QED BY <1>1, <1>2, <2>2, Zenon
  <1>6. (\A h \in Procs : att[h] # Idle => att[h].t.made <= made[att[h].n])'
    BY <1>1, <1>2, ZenonT(30) DEF AckInv
  <1>7. (\A h \in Procs : att[h] # Idle /\ att[h].t.made \in acked[att[h].n] =>
            att[h].step \in Answered)'
    BY <1>1, <1>2, Zenon DEF AckInv
  <1> QED BY <1>4, <1>5, <1>6, <1>7, Zenon DEF AckInv

\* The steps of the pass keep AckInv.
LEMMA PassAckInv ==
    ASSUME Typed, Typed', MarkInv, AckInv, Pass
    PROVE  AckInv'
  <1>a. StoreTypeOK
    BY Zenon DEF Typed, TypeOK
  <1>h. ASSUME NEW n \in Names, Holding, cur = n, tasks[n] # NoTask
        PROVE  tasks[n] \in Task /\ tasks[n].made \notin acked[n] /\ tasks[n].made <= made[n]
    BY <1>a, <1>h, Zenon DEF AckInv, MarkInv, StoreTypeOK
  <1>1. CASE BeginPass \/ ListDue \/ EndPass
    <2>1. pc' # "taking" /\ UNCHANGED <<tasks, made, acked, att>>
      BY <1>1, Zenon DEF BeginPass, ListDue, EndPass, storeVars, histVars
    <2> QED BY <1>a, <2>1, UnchangedHolds, IdleAckInv, Zenon
  <1>2. ASSUME NEW n \in Names,
               Turn(n) \/ MarkForced(n) \/ MarkDue(n) \/ Skip(n) \/ Release(n)
        PROVE  AckInv'
    <2>1. pc' # "taking" /\ UNCHANGED <<tasks, made, acked, att>>
      BY <1>2, Zenon DEF Turn, MarkForced, MarkDue, Skip, Release, EndTurn, storeVars, histVars
    <2> QED BY <1>a, <2>1, UnchangedHolds, IdleAckInv, ZenonT(30)
  <1>3. ASSUME NEW n \in Names, StartDue(n) PROVE AckInv'
    <2>1. /\ cur = n /\ Holding /\ tasks[n] # NoTask /\ Start(n, tasks[n], FALSE)
          /\ pc' = "walking" /\ UNCHANGED <<tasks, made, acked>>
      BY <1>3, Zenon DEF StartDue, StillDue, EndTurn, Holding, storeVars
    <2> QED BY <1>a, <1>h, <2>1, UnchangedHolds, StartAckInv, Zenon
  <1>4. ASSUME NEW n \in Names, ReadForced(n) PROVE AckInv'
    <2>1. /\ cur = n /\ Holding /\ tasks[n] # NoTask /\ fresh' = tasks[n] /\ cur' = cur
          /\ UNCHANGED <<tasks, made, acked, att>>
      BY <1>4, Zenon DEF ReadForced, StillDue, Holding, storeVars, histVars
    <2> QED BY <1>h, <2>1, Zenon DEF AckInv
  <1>5. ASSUME NEW n \in Names, StartForced(n) PROVE AckInv'
    <2>1. /\ cur = n /\ pc = "taking" /\ Start(n, [fresh EXCEPT !.run = 0], TRUE)
          /\ TakeRun(n, fresh.run) /\ pc' = "walking" /\ acked' = acked
      BY <1>5, Zenon DEF StartForced, EndTurn
    <2>2. made' = made /\ \A k \in Names : HeldOrNew(k)
      BY <1>a, <2>1, TakeRunHolds, Zenon
    <2>3. fresh \in Task
      BY <2>1, Zenon DEF Typed, TypeOK, WorkerTypeOK, PassOK
    <2>4. [fresh EXCEPT !.run = 0] \in Task /\ [fresh EXCEPT !.run = 0].made = fresh.made
      BY <2>3 DEF Task
    <2> QED BY <2>1, <2>2, <2>4, StartAckInv, Zenon DEF AckInv
  <1> QED BY <1>1, <1>2, <1>3, <1>4, <1>5, Zenon DEF Pass

\* Every step keeps AckInv.
LEMMA StepAckInv ==
    ASSUME Typed, Typed', MarkInv, AckInv, [Next]_vars
    PROVE  AckInv'
  <1>a. StoreTypeOK
    BY Zenon DEF Typed, TypeOK
  <1>1. CASE UNCHANGED vars \/ Tick \/ Cancel \/ Restart
    <2>1. UNCHANGED <<tasks, made, acked, att, pc, cur, fresh>>
      BY <1>1, Zenon DEF vars, workerVars, storeVars, Tick, Cancel, Restart, passVars, histVars
    <2> QED BY <1>a, <2>1, UnchangedHolds, IdleAckInv, Zenon
  <1>2. CASE Client
    <2>1. UNCHANGED <<acked, att, pc, cur, fresh>>
      BY <1>2, SMTT(30) DEF Client, workerVars
    <2> QED BY <1>a, <1>2, <2>1, ClientHolds, IdleAckInv, Zenon
  <1>3. CASE Stopped \/ Crash
    <2>1. /\ pc' = "idle" /\ \A g \in Procs : att'[g] = Idle
          /\ \A n \in Names : acked'[n] = {}
          /\ UNCHANGED <<tasks, made>>
      BY <1>3, Zenon DEF Stopped, Crash, Down, FreshWorker
    <2> QED BY <2>1, Zenon DEF AckInv
  <1> QED BY <1>1, <1>2, <1>3, PassAckInv, AttemptAckInv, Zenon DEF Next

\* A new process has no answers.
LEMMA InitAckInv == Init => AckInv
  BY InitEmpty, Zenon DEF AckInv

\* Only an attempt not answered sends.
LEMMA SendsUnanswered ==
    ASSUME Typed, AckInv, [Next]_vars
    PROVE  \A n \in Names : \A m \in acked[n] : sends'[n][m] = sends[n][m]
  <1>1. ASSUME NEW g \in Procs, Send(g)
        PROVE  \A n \in Names : \A m \in acked[n] : sends'[n][m] = sends[n][m]
    <2>1. /\ att[g] # Idle /\ att[g].n \in Names /\ att[g].t.made \in 1..MaxMade
          /\ att[g].step = "prepare"
          /\ sends' = [sends EXCEPT ![att[g].n][att[g].t.made] = @ + 1]
      BY <1>1, HasAttempt, NotIdle, Zenon DEF Send, Stages, Task
    <2>2. att[g].t.made \notin acked[att[g].n]
      BY <2>1, Zenon DEF AckInv, Answered
    <2>3. sends \in [Names -> [1..MaxMade -> Nat]] /\ acked \in [Names -> SUBSET (1..MaxMade)]
      BY Zenon DEF Typed, TypeOK, WorkerTypeOK
    <2> QED BY <2>1, <2>2, <2>3, Zenon
  <1>2. CASE sends' = sends
    BY <1>2, Zenon
  <1>3. CASE UNCHANGED vars \/ Client \/ Tick \/ Cancel \/ Restart \/ Stopped \/ Crash
    BY <1>2, <1>3, Zenon DEF vars, workerVars, Client, Tick, Cancel, Restart, Stopped, Crash, Down,
                      histVars
  <1>4. CASE Pass
    BY <1>2, <1>4, Zenon DEF Pass, BeginPass, ListDue, EndPass, Turn, MarkForced, MarkDue, Skip,
                      Release, StartDue, ReadForced, StartForced, histVars
  <1>5. ASSUME NEW g \in Procs, AttemptStep(g), ~Send(g)
        PROVE  sends' = sends
    BY <1>5, Zenon DEF AttemptStep, BuildFails, FailsUnsent, Acknowledged, Refused, DeleteDone,
                RecordFailure, Reread, Decide, Drop, StoreSchedule, Exit, histVars
  <1> QED BY <1>1, <1>2, <1>3, <1>4, <1>5, Zenon DEF Next

(***************************************************************************)
(* A task answered 2xx is not delivered again by the process that got the  *)
(* answer, whatever clients, passes and other attempts do meanwhile.       *)
(***************************************************************************)
THEOREM AckedIsLast == Spec => AckedNeverResent
  <1> DEFINE IInv == Typed /\ MarkInv /\ AckInv
  <1>1. Init => IInv
    BY InitTyped, InitMarkInv, InitAckInv, Zenon
  <1>2. IInv /\ [Next]_vars => IInv'
    BY StepTyped, StepMarkInv, StepAckInv, Zenon
  <1>3. IInv /\ [Next]_vars =>
          [\A n \in Names : \A m \in acked[n] : sends'[n][m] = sends[n][m]]_vars
    BY SendsUnanswered, Zenon
  <1> QED BY <1>1, <1>2, <1>3, PTL DEF Spec, AckedNeverResent

------------------------------------------------------------------------------
\* Forced runs: whoever still holds a run, a record or a copy of it, holds
\* one not started, and all of them hold it for the one task it was asked of.

HasRun(n, r) ==
    \/ tasks[n] # NoTask /\ tasks[n].run = r
    \/ \E g \in Procs : att[g] # Idle /\ att[g].n = n /\ att[g].t.run = r
    \/ pc = "taking" /\ cur = n /\ fresh.run = r

RunInv ==
    \A r \in 1..MaxRuns :
        /\ \A n \in Names : HasRun(n, r) => r <= runs /\ started[r] = 0
        /\ \A n, m \in Names : HasRun(n, r) /\ HasRun(m, r) => n = m
        /\ r > runs => started[r] = 0
        /\ started[r] <= 1

\* Run 0 is no run.
LEMMA RunsNumbered == \A r \in 1..MaxRuns : r # 0
  OBVIOUS

\* Steps that make no copy of a run keep RunInv.
LEMMA KeepsRunInv ==
    ASSUME RunInv, UNCHANGED <<runs, started>>,
           \A n \in Names, r \in 1..MaxRuns : HasRun(n, r)' => HasRun(n, r)
    PROVE  RunInv'
  BY Zenon DEF RunInv

\* No operation but RunTask and the write-back gives a stored task a run.
NoNewRun(n) == tasks'[n] = NoTask \/ tasks'[n].run = 0
               \/ (tasks[n] # NoTask /\ tasks'[n].run = tasks[n].run)

\* DeleteTask makes no copy of a run.
LEMMA DeleteNoNewRun ==
    ASSUME StoreTypeOK, NEW k \in Names, DeleteTask(k) \/ DeleteTaskMissing(k)
    PROVE  runs' = runs /\ \A n \in Names : NoNewRun(n)
  BY Zenon DEF DeleteTask, DeleteTaskMissing, NoNewRun, StoreTypeOK, storeVars

\* Clients make new runs only, by RunTask.
LEMMA ClientRunInv ==
    ASSUME Typed, RunInv, Client
    PROVE  RunInv'
  <1>a. StoreTypeOK
    BY Zenon DEF Typed, TypeOK
  <1>0. UNCHANGED <<att, pc, cur, fresh, started>>
    BY Zenon DEF Client, workerVars
  <1>1. ASSUME runs' = runs, \A n \in Names : NoNewRun(n) PROVE RunInv'
    <2>1. \A n \in Names, r \in 1..MaxRuns : HasRun(n, r)' => HasRun(n, r)
      BY <1>0, <1>1 DEF NoNewRun, HasRun
    <2> QED BY <1>0, <1>1, <2>1, KeepsRunInv, Zenon
  <1>2. ASSUME NEW q \in Queues,
               \/ CreateQueue(q) \/ UpdateQueue(q) \/ DeleteQueue(q) \/ PurgeQueue(q)
               \/ \E s \in {"RUNNING", "PAUSED"} : SetQueueState(q, s)
        PROVE  runs' = runs /\ \A n \in Names : NoNewRun(n)
    BY <1>a, <1>2, Zenon DEF CreateQueue, UpdateQueue, DeleteQueue, PurgeQueue, SetQueueState, Wipe,
                NoNewRun, StoreTypeOK
  <1>3. ASSUME NEW k \in Names, CreateTask(k)
        PROVE  runs' = runs /\ \A n \in Names : NoNewRun(n)
    <2>1. PICK q \in Queues, b \in BOOLEAN, at \in now..(now + Lead) :
             tasks' = [tasks EXCEPT ![k] =
                [q |-> q, made |-> made[k] + 1, at |-> at, count |-> 0, first |-> NoTime,
                 run |-> 0, server |-> b]]
      BY <1>3, Zenon DEF CreateTask
    <2>2. tasks'[k].run = 0 /\ \A n \in Names \ {k} : tasks'[n] = tasks[n]
      BY <1>a, <2>1, Zenon DEF StoreTypeOK
    <2> QED BY <1>a, <1>3, <2>2, Zenon DEF CreateTask, NoNewRun
  <1>4. ASSUME NEW k \in Names, RunTask(k) PROVE RunInv'
    <2>1. /\ runs' = runs + 1 /\ runs \in Nat
          /\ tasks'[k].run = runs + 1 /\ \A n \in Names \ {k} : tasks'[n] = tasks[n]
      BY <1>a, <1>4 DEF RunTask, StoreTypeOK, Task
    <2>2. \A n \in Names, r \in 1..MaxRuns :
             HasRun(n, r)' => HasRun(n, r) \/ (n = k /\ r = runs + 1)
      BY <1>0, <2>1, Zenon DEF HasRun
    <2>3. \A r \in 1..MaxRuns : started'[r] = started[r]
      BY <1>0, Zenon
    <2>4. \A n \in Names, r \in 1..MaxRuns : HasRun(n, r) => r <= runs /\ started[r] = 0
      BY Zenon DEF RunInv
    <2>5. ASSUME NEW r \in 1..MaxRuns
          PROVE  /\ \A n \in Names : HasRun(n, r)' => r <= runs' /\ started'[r] = 0
                 /\ \A n, m \in Names : HasRun(n, r)' /\ HasRun(m, r)' => n = m
                 /\ r > runs' => started'[r] = 0
                 /\ started'[r] <= 1
      <3>1. r \in Nat /\ (r > runs => started[r] = 0) /\ started[r] <= 1
        BY DEF RunInv
      <3>2. \A n \in Names : HasRun(n, r)' => r <= runs' /\ started'[r] = 0
        BY <2>1, <2>2, <2>3, <2>4, <3>1
      <3>3. \A n, m \in Names : HasRun(n, r)' /\ HasRun(m, r)' => n = m
        <4>1. CASE r = runs + 1
          <5>1. \A n \in Names : ~HasRun(n, r)
            BY <2>1, <2>4, <4>1
          <5> QED BY <2>2, <5>1, Zenon
        <4>2. CASE r # runs + 1
          <5>1. \A n \in Names : HasRun(n, r)' => HasRun(n, r)
            BY <2>2, <4>2, Zenon
          <5>2. \A n, m \in Names : HasRun(n, r) /\ HasRun(m, r) => n = m
            BY Zenon DEF RunInv
          <5> QED BY <5>1, <5>2, Zenon
        <4> QED BY <4>1, <4>2, Zenon
      <3>4. r > runs' => r > runs
        BY <2>1, <3>1
      <3> QED BY <2>3, <3>1, <3>2, <3>3, <3>4, Zenon
    <2> QED BY <2>5, Zenon DEF RunInv
  <1> QED BY <1>a, <1>1, <1>2, <1>3, <1>4, DeleteNoNewRun, Zenon DEF Client

\* A step of an attempt holds and stores only runs its name already has.
LEMMA GoRunInv ==
    ASSUME Typed, RunInv, NEW g \in Procs, att[g].step \in Stages,
           NEW s \in Stages, NEW t \in Task, Go(g, s, t),
           UNCHANGED <<pc, cur, fresh, runs, started>>,
           t.run = att[g].t.run \/ HasRun(att[g].n, t.run),
           \A n \in Names : NoNewRun(n) \/ HasRun(n, tasks'[n].run)
    PROVE  RunInv'
  <1>0. att[g] \in Attempt
    BY HasAttempt, Zenon
  <1>1. /\ att[g] # Idle
        /\ att'[g] # Idle /\ att'[g].n = att[g].n /\ att'[g].t = t
        /\ \A h \in Procs \ {g} : att'[h] = att[h]
    BY <1>0, GoFacts, NotIdle, ZenonT(30)
  <1>2. ASSUME NEW n \in Names, NEW r \in 1..MaxRuns, HasRun(n, r)'
        PROVE  HasRun(n, r)
    <2>1. CASE tasks'[n] # NoTask /\ tasks'[n].run = r
      <3>1. NoNewRun(n) \/ HasRun(n, r)
        BY <2>1, Zenon
      <3>2. r # 0
        BY RunsNumbered, Zenon
      <3> QED BY <2>1, <3>1, <3>2, Zenon DEF NoNewRun, HasRun
    <2>2. ASSUME NEW h \in Procs, att'[h] # Idle /\ att'[h].n = n /\ att'[h].t.run = r
          PROVE  HasRun(n, r)
      BY <1>1, <2>2, Zenon DEF HasRun
    <2>3. CASE pc' = "taking" /\ cur' = n /\ fresh'.run = r
      BY <2>3, Zenon DEF HasRun
    <2> QED BY <1>2, <2>1, <2>2, <2>3, Zenon DEF HasRun
  <1> QED BY <1>2, KeepsRunInv, Zenon

\* The steps of an attempt keep RunInv.
LEMMA AttemptRunInv ==
    ASSUME Typed, RunInv, NEW g \in Procs, AttemptStep(g)
    PROVE  RunInv'
  <1> DEFINE n == att[g].n
  <1>a. StoreTypeOK
    BY Zenon DEF Typed, TypeOK
  <1>t. ASSUME att[g].step \in Stages
        PROVE  /\ att[g] # Idle /\ n \in Names /\ att[g].t \in Task
               /\ HasRun(n, att[g].t.run)
    BY <1>t, HasAttempt, NotIdle, Zenon DEF HasRun
  <1>u. tasks' = tasks => \A k \in Names : NoNewRun(k)
    BY Zenon DEF NoNewRun
  <1>1. CASE BuildFails(g) \/ Refused(g) \/ Acknowledged(g)
    <2>1. /\ att[g].step \in {"prepare", "waiting"}
          /\ \E s \in {"reread", "record", "delete"} : Go(g, s, att[g].t)
          /\ UNCHANGED <<tasks, runs, started, pc, cur, fresh>>
      BY <1>1, Zenon DEF BuildFails, Refused, Acknowledged, storeVars, passVars, histVars
    <2> QED BY <1>t, <1>u, <2>1, GoRunInv, Zenon DEF Stages
  <1>2. CASE FailsUnsent(g) \/ Send(g)
    <2>1. /\ att[g].step = "prepare"
          /\ \E s \in {"waiting", "record"} : Go(g, s, Counted(att[g].t))
          /\ UNCHANGED <<tasks, runs, started, pc, cur, fresh>>
      BY <1>2, Zenon DEF FailsUnsent, Send, storeVars, passVars, histVars
    <2>2. Counted(att[g].t) \in Task /\ Counted(att[g].t).run = att[g].t.run
      BY <1>t, <2>1, CountedTyped, Zenon DEF Stages
    <2> QED BY <1>u, <2>1, <2>2, GoRunInv, ZenonT(30) DEF Stages
  <1>3. CASE DeleteDone(g) \/ Drop(g)
    <2>1. /\ att[g].step \in {"delete", "drop"}
          /\ DeleteTask(n) \/ DeleteTaskMissing(n)
          /\ \E s \in {"reread", "exit"} : Go(g, s, att[g].t)
          /\ UNCHANGED <<started, pc, cur, fresh>>
      BY <1>3, Zenon DEF DeleteDone, Drop, passVars, histVars
    <2>2. n \in Names /\ att[g].t \in Task
      BY <1>t, <2>1, Zenon DEF Stages
    <2>3. runs' = runs /\ \A m \in Names : NoNewRun(m)
      BY <1>a, <2>1, <2>2, DeleteNoNewRun, ZenonT(30)
    <2> QED BY <2>1, <2>2, <2>3, GoRunInv, Zenon DEF Stages
  <1>4. CASE RecordFailure(g) \/ StoreSchedule(g)
    <2>1. /\ att[g].step \in {"record", "store"} /\ UpdateTask(n, att[g].t)
          /\ \E s \in {"reread", "exit"} : Go(g, s, att[g].t)
          /\ UNCHANGED <<started, pc, cur, fresh>>
      BY <1>4, Zenon DEF RecordFailure, StoreSchedule, passVars, histVars
    <2>2. n \in Names /\ att[g].t \in Task /\ HasRun(n, att[g].t.run)
      BY <1>t, <2>1, ZenonT(30) DEF Stages
    <2>3. runs' = runs /\ \A m \in Names \ {n} : tasks'[m] = tasks[m]
      BY <1>a, <2>1, Zenon DEF UpdateTask, StoreTypeOK
    <2>4. \/ tasks'[n] = tasks[n]
          \/ tasks[n] # NoTask /\ tasks'[n] = MergeRun(tasks[n], att[g].t)
      BY <1>a, <2>1, <2>2, Zenon DEF UpdateTask, StoreTypeOK
    <2>5. MergeRun(tasks[n], att[g].t).run \in {tasks[n].run, att[g].t.run}
      BY <2>2, Zenon DEF MergeRun, Task
    <2>6. NoNewRun(n) \/ HasRun(n, tasks'[n].run)
      BY <2>2, <2>4, <2>5, Zenon DEF NoNewRun
    <2>7. \A m \in Names : NoNewRun(m) \/ HasRun(m, tasks'[m].run)
      BY <2>3, <2>6, ZenonT(30) DEF NoNewRun
    <2> HIDE DEF n
    <2> QED BY <2>1, <2>2, <2>3, <2>7, GoRunInv, Zenon DEF Stages
  <1>5. CASE Reread(g)
    <2>1. att[g].step = "reread" /\ UNCHANGED <<tasks, runs, started, pc, cur, fresh>>
      BY <1>5, Zenon DEF Reread, storeVars, passVars, histVars
    <2>2. CASE tasks[n] = NoTask
      BY <1>5, <1>t, <1>u, <2>1, <2>2, GoRunInv, Zenon DEF Reread, Stages
    <2>3. CASE tasks[n] # NoTask
      <3>1. tasks[n] \in Task /\ Go(g, "decide", tasks[n]) /\ HasRun(n, tasks[n].run)
        BY <1>a, <1>5, <1>t, <2>1, <2>3, Zenon DEF Reread, StoreTypeOK, Stages, HasRun
      <3> QED BY <1>t, <1>u, <2>1, <3>1, GoRunInv, Zenon DEF Stages
    <2> QED BY <2>2, <2>3, Zenon
  <1>6. CASE Decide(g)
    <2>1. att[g].step = "decide" /\ UNCHANGED <<tasks, runs, started, pc, cur, fresh>>
      BY <1>6, Zenon DEF Decide, storeVars, passVars, histVars
    <2>2. \E s \in {"exit", "store", "drop"}, t \in Task :
             Go(g, s, t) /\ t.run = att[g].t.run
      BY <1>6, DecideGoes, ZenonT(30)
    <2> QED BY <1>t, <1>u, <2>1, <2>2, GoRunInv, Zenon DEF Stages
  <1>7. CASE Exit(g)
    <2>1. /\ UNCHANGED <<tasks, runs, started, pc, cur, fresh>>
          /\ att'[g] = Idle /\ \A h \in Procs \ {g} : att'[h] = att[h]
      BY <1>7, Zenon DEF Exit, storeVars, passVars, histVars, Typed, TypeOK, WorkerTypeOK
    <2>2. \A k \in Names, r \in 1..MaxRuns : HasRun(k, r)' => HasRun(k, r)
      BY <2>1, Zenon DEF HasRun
    <2> QED BY <2>1, <2>2, KeepsRunInv, Zenon
  <1> QED BY <1>1, <1>2, <1>3, <1>4, <1>5, <1>6, <1>7, Zenon DEF AttemptStep

\* Taking a run: its name is held by the pass, so no attempt holds the run,
\* and the stored task gives it up.
LEMMA StartForcedRunInv ==
    ASSUME Typed, MarkInv, RunInv, NEW n \in Names, StartForced(n)
    PROVE  RunInv'
  <1>a. pc = "taking" /\ fresh \in Task /\ fresh.run # 0
    BY Zenon DEF StartForced, Typed, TypeOK, WorkerTypeOK, PassOK
  <1>b. PICK k \in 1..MaxRuns : k = fresh.run
    BY <1>a DEF Task
  <1>1. /\ pc = "taking" /\ cur = n /\ fresh \in Task /\ pc' = "walking" /\ UNCHANGED runs
        /\ TakeRun(n, k) /\ Start(n, [fresh EXCEPT !.run = 0], TRUE)
    BY <1>a, <1>b, Zenon DEF StartForced, EndTurn, TakeRun
  <1>2. started'[k] = started[k] + 1 /\ \A r \in 1..MaxRuns \ {k} : started'[r] = started[r]
    BY <1>b, Zenon DEF StartForced, Typed, TypeOK, WorkerTypeOK
  <1>3. PICK g \in Procs :
           /\ att[g] = Idle
           /\ att' = [att EXCEPT ![g] = [step |-> "prepare", n |-> n, q |-> [fresh EXCEPT !.run = 0].q,
                                         t |-> [fresh EXCEPT !.run = 0],
                                         forced |-> TRUE, since |-> now]]
    BY <1>1, Zenon DEF Start
  <1>4. att'[g].t.run = 0 /\ \A h \in Procs \ {g} : att'[h] = att[h]
    BY <1>1, <1>3, Zenon DEF Typed, TypeOK, WorkerTypeOK, Task
  <1>5. /\ \A m \in Names \ {n} : tasks'[m] = tasks[m]
        /\ tasks'[n] = NoTask \/ tasks'[n].run = 0 \/ (tasks'[n] = tasks[n] /\ tasks[n].run # k)
    <2>1. CASE tasks' = tasks /\ (tasks[n] = NoTask \/ tasks[n].run # k)
      BY <2>1, Zenon
    <2>2. CASE tasks[n] # NoTask /\ tasks' = [tasks EXCEPT ![n].run = 0]
      BY <2>2 DEF Typed, TypeOK, StoreTypeOK, Task
    <2> QED BY <1>1, <2>1, <2>2, Zenon DEF TakeRun
  <1>6. HasRun(n, k)
    BY <1>1, <1>b, Zenon DEF HasRun
  <1>7. \A m \in Names, r \in 1..MaxRuns : HasRun(m, r)' => HasRun(m, r)
    BY <1>1, <1>4, <1>5 DEF HasRun
  <1>8. \A m \in Names : ~HasRun(m, k)'
    <2>1. \A m \in Names \ {n} : ~HasRun(m, k)
      BY <1>1, <1>6, Zenon DEF RunInv
    <2>2. \A h \in Procs : att[h] # Idle => att[h].n # n
      BY <1>1, Zenon DEF MarkInv, Holding
    <2>3. ~HasRun(n, k)'
      BY <1>1, <1>4, <1>5, <2>2 DEF HasRun
    <2> QED BY <1>1, <1>7, <2>1, <2>3, Zenon
  <1>9. started[k] = 0 /\ k <= runs
    BY <1>1, <1>6, Zenon DEF RunInv
  <1>10. ASSUME NEW r \in 1..MaxRuns
         PROVE  /\ \A m \in Names : HasRun(m, r)' => r <= runs' /\ started'[r] = 0
                /\ \A m, o \in Names : HasRun(m, r)' /\ HasRun(o, r)' => m = o
                /\ r > runs' => started'[r] = 0
                /\ started'[r] <= 1
    <2>1. CASE r = k
      BY <1>1, <1>2, <1>8, <1>9, <2>1 DEF Typed, TypeOK, StoreTypeOK
    <2>2. CASE r # k
      <3>1. started'[r] = started[r] /\ runs' = runs
        BY <1>1, <1>2, <2>2, Zenon
      <3> QED BY <1>7, <3>1, Zenon DEF RunInv
    <2> QED BY <2>1, <2>2, Zenon
  <1> QED BY <1>10, Zenon DEF RunInv

\* Every step keeps RunInv.
LEMMA StepRunInv ==
    ASSUME Typed, MarkInv, RunInv, [Next]_vars
    PROVE  RunInv'
  <1>a. StoreTypeOK
    BY Zenon DEF Typed, TypeOK
  <1>1. CASE UNCHANGED vars \/ Tick \/ Cancel \/ Restart
    <2>1. UNCHANGED <<tasks, runs, started, att, pc, cur, fresh>>
      BY <1>1, Zenon DEF vars, workerVars, storeVars, Tick, Cancel, Restart, passVars, histVars
    <2>2. \A n \in Names, r \in 1..MaxRuns : HasRun(n, r)' => HasRun(n, r)
      BY <2>1, Zenon DEF HasRun
    <2> QED BY <2>1, <2>2, KeepsRunInv, Zenon
  <1>2. CASE Stopped \/ Crash
    <2>1. /\ pc' = "idle" /\ \A g \in Procs : att'[g] = Idle
          /\ UNCHANGED <<tasks, runs, started>>
      BY <1>2, Zenon DEF Stopped, Crash, Down, FreshWorker
    <2>2. \A n \in Names, r \in 1..MaxRuns : HasRun(n, r)' => HasRun(n, r)
      BY <2>1, Zenon DEF HasRun
    <2> QED BY <2>1, <2>2, KeepsRunInv, Zenon
  <1>3. CASE BeginPass \/ ListDue \/ EndPass
    <2>1. pc' # "taking" /\ UNCHANGED <<tasks, runs, started, att>>
      BY <1>3, Zenon DEF BeginPass, ListDue, EndPass, storeVars, histVars
    <2>2. \A n \in Names, r \in 1..MaxRuns : HasRun(n, r)' => HasRun(n, r)
      BY <2>1, Zenon DEF HasRun
    <2> QED BY <2>1, <2>2, KeepsRunInv, Zenon
  <1>4. ASSUME NEW k \in Names,
               Turn(k) \/ MarkForced(k) \/ MarkDue(k) \/ Skip(k) \/ Release(k)
        PROVE  RunInv'
    <2>1. pc' # "taking" /\ UNCHANGED <<tasks, runs, started, att>>
      BY <1>4, Zenon DEF Turn, MarkForced, MarkDue, Skip, Release, EndTurn, storeVars, histVars
    <2>2. \A n \in Names, r \in 1..MaxRuns : HasRun(n, r)' => HasRun(n, r)
      BY <2>1, Zenon DEF HasRun
    <2> QED BY <2>1, <2>2, KeepsRunInv, Zenon
  <1>5. ASSUME NEW k \in Names, StartDue(k) PROVE RunInv'
    <2>1. /\ tasks[k] # NoTask /\ Start(k, tasks[k], FALSE)
          /\ pc' = "walking" /\ UNCHANGED <<tasks, runs, started>>
      BY <1>5, Zenon DEF StartDue, StillDue, EndTurn, storeVars
    <2>2. PICK g \in Procs :
             att' = [att EXCEPT ![g] = [step |-> "prepare", n |-> k, q |-> tasks[k].q,
                                        t |-> tasks[k], forced |-> FALSE, since |-> now]]
      BY <2>1, Zenon DEF Start
    <2>3. /\ att'[g].n = k /\ att'[g].t = tasks[k]
          /\ \A h \in Procs \ {g} : att'[h] = att[h]
      BY <2>2, Zenon DEF Typed, TypeOK, WorkerTypeOK
    <2>4. \A n \in Names, r \in 1..MaxRuns : HasRun(n, r)' => HasRun(n, r)
      BY <2>1, <2>3, ZenonT(30) DEF HasRun
    <2> QED BY <2>1, <2>4, KeepsRunInv, Zenon
  <1>6. ASSUME NEW k \in Names, ReadForced(k) PROVE RunInv'
    <2>1. /\ tasks[k] # NoTask /\ fresh' = tasks[k] /\ cur = k /\ cur' = k
          /\ UNCHANGED <<tasks, runs, started, att>>
      BY <1>6, ZenonT(30) DEF ReadForced, StillDue, storeVars, histVars
    <2>2. \A n \in Names, r \in 1..MaxRuns : HasRun(n, r)' => HasRun(n, r)
      BY <2>1, Zenon DEF HasRun
    <2> QED BY <2>1, <2>2, KeepsRunInv, Zenon
  <1> QED BY <1>1, <1>2, <1>3, <1>4, <1>5, <1>6, ClientRunInv, AttemptRunInv, StartForcedRunInv, Zenon
          DEF Next, Pass

\* At first there are no runs.
LEMMA InitRunInv == Init => RunInv
  <1> SUFFICES ASSUME Init PROVE RunInv
    BY Zenon
  <1>1. \A n \in Names, r \in 1..MaxRuns : ~HasRun(n, r)
    BY InitEmpty, Zenon DEF HasRun
  <1>2. \A r \in 1..MaxRuns : started[r] = 0
    BY InitEmpty, Zenon
  <1>3. \A r \in 1..MaxRuns : started[r] <= 1
    BY <1>2
  <1> QED BY <1>1, <1>2, <1>3, Zenon DEF RunInv

(***************************************************************************)
(* One RunTask is one dispatch: TakeRun before the attempt, the mark and   *)
(* the write-back that keeps a later request let no copy of a run be       *)
(* started twice, across crashes and restarts too.                         *)
(***************************************************************************)
THEOREM RunsStartOnce == Spec => []OneRunOneDispatch
  <1> DEFINE IInv == Typed /\ MarkInv /\ RunInv
  <1>1. Init => IInv
    BY InitTyped, InitMarkInv, InitRunInv, Zenon
  <1>2. IInv /\ [Next]_vars => IInv'
    BY StepTyped, StepMarkInv, StepRunInv, Zenon
  <1>3. IInv => OneRunOneDispatch
    BY Zenon DEF RunInv, OneRunOneDispatch
  <1> QED BY <1>1, <1>2, <1>3, PTL DEF Spec
==============================================================================
