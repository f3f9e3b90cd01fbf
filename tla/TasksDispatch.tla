---------------------------- MODULE TasksDispatch ----------------------------
(***************************************************************************)
(* Cloud Tasks: the store (TasksStore), the clients that change it, and    *)
(* the worker that dispatches its tasks (internal/service/tasks/           *)
(* dispatch.go).                                                           *)
(*                                                                         *)
(* The worker is one goroutine making passes over the due tasks (startDue, *)
(* startAll) and one goroutine per attempt (start, Dispatch, reschedule).  *)
(* They share the store, through its own lock, and the in-flight marks and *)
(* counts, under Worker.mu.  A step below is what happens between two      *)
(* acquisitions of a lock, so clients, the pass and the attempts           *)
(* interleave wherever the code lets them.                                 *)
(*                                                                         *)
(* In a persistent instance the store outlives the process: a stop or a    *)
(* crash loses the worker's state and keeps the store's.                   *)
(***************************************************************************)
EXTENDS TasksStore, TokenBucket

CONSTANTS
    Target,         \* what dispatching a name meets: "http", a request that
                    \* cannot be built ("bad"), or an App Engine task with no
                    \* app to send it to ("appengine")
    Procs,          \* attempt goroutines
    DefaultConc,    \* DefaultRateLimits().MaxConcurrentDispatches
    Ops,            \* bound: the operations clients make in a run
    Deadline,       \* the longest an attempt lasts: its dispatch_deadline
    MaxRestarts     \* bound: stops and crashes in a run

ASSUME DispatchAssumption ==
    /\ Target \in [Names -> {"http", "bad", "appengine"}]
    /\ DefaultConc \in Nat \ {0}
    /\ Deadline \in Nat
    /\ MaxRestarts \in Nat

VARIABLES
    phase,          \* the worker's process: "up", "stopping" (ctx cancelled), "down"
    pc,             \* where the pass is
    passNow,        \* startDue's now
    due,            \* the due list: the queue and RunRequested a name was listed
                    \* with, NoTask if it is not listed
    limits,         \* startAll's limits; 0: not read in this pass
    cur,            \* the task the pass has marked in flight
    fresh,          \* and its record as current read it
    inflight, perQueue, buckets,    \* Worker's fields, under Worker.mu
    att,            \* the attempts: what each goroutine of start is doing
    tries,          \* history: attempts started of each creation of a name
    sends,          \* history: requests sent for each creation of a name
    acked,          \* history: creations answered 2xx since the process started
    started,        \* history: attempts each RunTask call started
    restarts,       \* history: stops and crashes
    crashes         \* history: crashes

workerVars == <<phase, pc, passNow, due, limits, cur, fresh, inflight, perQueue,
                buckets, att, tries, sends, acked, started, restarts, crashes>>
passVars == <<passNow, due, limits, cur, fresh>>
markVars == <<inflight, perQueue, buckets>>
histVars == <<tries, sends, acked, started, restarts, crashes>>
vars == <<storeVars, workerVars>>

\* Where an attempt is: before its request, waiting for the answer, about to
\* call DeleteTask or UpdateTask, in reschedule, or about to clear its mark.
Stages == {"prepare", "waiting", "delete", "record", "reread", "decide",
           "drop", "store", "exit"}

Idle == [step |-> "idle"]
Attempt == [step: Stages, n: Names, q: Queues, t: Task, forced: BOOLEAN, since: Nat]

\* NewWorker: what a process starts with.
FreshWorker(p, pn, d, l, c, f, i, q, b, a) ==
    /\ p = "idle" /\ pn = 0
    /\ d = [n \in Names |-> NoTask]
    /\ l = [x \in Queues |-> 0]
    /\ c = NoTask /\ f = NoTask
    /\ i = {}
    /\ q = [x \in Queues |-> 0]
    /\ b = [x \in Queues |-> 0]
    /\ a = [g \in Procs |-> Idle]

Init ==
    /\ StoreInit
    /\ phase = "up"
    /\ FreshWorker(pc, passNow, due, limits, cur, fresh, inflight, perQueue, buckets, att)
    /\ tries = [n \in Names |-> [m \in 1..MaxMade |-> 0]]
    /\ sends = [n \in Names |-> [m \in 1..MaxMade |-> 0]]
    /\ acked = [n \in Names |-> {}]
    /\ started = [r \in 1..MaxRuns |-> 0]
    /\ restarts = 0 /\ crashes = 0

------------------------------------------------------------------------------
\* What clients do.
Client ==
    /\ \/ \E q \in Queues :
             \/ CreateQueue(q)
             \/ "UpdateQueue" \in Ops /\ UpdateQueue(q)
             \/ "PauseQueue" \in Ops /\ SetQueueState(q, "PAUSED")
             \/ "PauseQueue" \in Ops /\ SetQueueState(q, "RUNNING")
             \/ "DeleteQueue" \in Ops /\ DeleteQueue(q)
             \/ "PurgeQueue" \in Ops /\ PurgeQueue(q)
       \/ \E n \in Names :
             \/ CreateTask(n)
             \/ "DeleteTask" \in Ops /\ DeleteTask(n)
             \/ "RunTask" \in Ops /\ RunTask(n)
    /\ phase # "down"
    /\ UNCHANGED workerVars

\* Time passes, but no attempt outlives its deadline, and the pass does not
\* hold a task it has read for any length of time.
Tick ==
    /\ now < MaxTime
    /\ pc # "taking"
    /\ \A g \in Procs : att[g] # Idle => now - att[g].since < Deadline
    /\ now' = now + 1
    /\ UNCHANGED <<queues, tasks, tombs, swept, made, runs, gone, wiped>>
    /\ UNCHANGED workerVars

------------------------------------------------------------------------------
\* The pass: startDue and startAll.

\* startDue reads the clock.
BeginPass ==
    /\ phase = "up" /\ pc = "idle"
    /\ pc' = "listing"
    /\ passNow' = now
    /\ UNCHANGED <<storeVars, phase, due, limits, cur, fresh, markVars, att, histVars>>

\* Then the due list; the limits are read again in every pass.
ListDue ==
    /\ pc = "listing"
    /\ pc' = "walking"
    /\ due' = [n \in Names |-> IF n \in DueTasks(passNow)
                              THEN [q |-> tasks[n].q, run |-> tasks[n].run] ELSE NoTask]
    /\ limits' = [q \in Queues |-> 0]
    /\ UNCHANGED <<storeVars, phase, passNow, cur, fresh, markVars, att, histVars>>

\* The limit a queue has now: the default when there is no such queue.
LimitOf(q) == IF queues[q] = NoQueue THEN DefaultConc ELSE queues[q].config.conc

\* A listed task's turn, unless the context is cancelled: its queue's limit
\* is read the first time.  The order of the list is abstracted to any order.
Turn(n) ==
    /\ pc = "walking" /\ phase = "up" /\ due[n] # NoTask
    /\ pc' = "turn"
    /\ cur' = n
    /\ limits' = [limits EXCEPT ![due[n].q] = IF @ = 0 THEN LimitOf(due[n].q) ELSE @]
    /\ UNCHANGED <<storeVars, phase, passNow, due, fresh, markVars, att, histVars>>

\* The turn of n is over.
EndTurn(n) ==
    /\ pc' = "walking"
    /\ due' = [due EXCEPT ![n] = NoTask]
    /\ cur' = NoTask
    /\ fresh' = NoTask
    /\ UNCHANGED <<passNow, limits>>

\* Mutants: no in-flight check; one attempt of the queue too many; a mark
\* that counts nothing, one that is not counted back.
CanMarkAgain(n) == perQueue[due[n].q] < limits[due[n].q]
                   /\ HasToken(buckets[due[n].q], passNow)
CanMarkOver(n) == n \notin inflight /\ perQueue[due[n].q] <= limits[due[n].q]
                  /\ HasToken(buckets[due[n].q], passNow)
MarkUncounted(n) == inflight' = inflight \cup {n} /\ perQueue' = perQueue
UnmarkUncounted(n, q) == inflight' = inflight \ {n} /\ perQueue' = perQueue

\* Not in flight, and its queue has room and a token.
CanMark(n) ==
    /\ n \notin inflight
    /\ perQueue[due[n].q] < limits[due[n].q]
    /\ HasToken(buckets[due[n].q], passNow)

\* The in-flight mark and its count.
Mark(n) ==
    /\ inflight' = inflight \cup {n}
    /\ perQueue' = [perQueue EXCEPT ![due[n].q] = @ + 1]

\* release, and what start defers: for the queue of the record each holds.
Unmark(n, q) ==
    /\ inflight' = inflight \ {n}
    /\ perQueue' = [perQueue EXCEPT ![q] = @ - 1]

\* Under Worker.mu: a forced run ignores the limits but not an attempt in flight.
MarkForced(n) ==
    /\ pc = "turn" /\ cur = n /\ due[n].run # 0
    /\ n \notin inflight
    /\ Mark(n)
    /\ pc' = "marked"
    /\ UNCHANGED <<storeVars, phase, passVars, buckets, att, histVars>>

MarkDue(n) ==
    /\ pc = "turn" /\ cur = n /\ due[n].run = 0
    /\ CanMark(n)
    /\ Mark(n)
    /\ buckets' = [buckets EXCEPT ![due[n].q] = Taken(@, passNow)]
    /\ pc' = "marked"
    /\ UNCHANGED <<storeVars, phase, passVars, att, histVars>>

Skip(n) ==
    /\ pc = "turn" /\ cur = n
    /\ IF due[n].run # 0 THEN n \in inflight ELSE ~CanMark(n)
    /\ EndTurn(n)
    /\ UNCHANGED <<storeVars, phase, markVars, att, histVars>>

\* current, for a forced run with its comparison: the task read again once
\* no other attempt of it can be out.
StillDue(n) ==
    /\ tasks[n] # NoTask
    /\ IF due[n].run # 0 THEN tasks[n].run = due[n].run
                         ELSE tasks[n].at <= passNow \/ tasks[n].run # 0

\* The task is gone or no longer due: its mark is released.
Release(n) ==
    /\ pc = "marked" /\ cur = n
    /\ ~StillDue(n)
    /\ Unmark(n, due[n].q)
    /\ EndTurn(n)
    /\ UNCHANGED <<storeVars, phase, buckets, att, histVars>>

\* start: a goroutine runs one attempt of t.
Start(n, t, forced) ==
    \E g \in Procs :
        /\ att[g] = Idle
        /\ att' = [att EXCEPT ![g] = [step |-> "prepare", n |-> n, q |-> t.q, t |-> t,
                                      forced |-> forced, since |-> now]]
        /\ tries' = [tries EXCEPT ![n][t.made] = @ + 1]

StartDue(n) ==
    /\ pc = "marked" /\ cur = n /\ due[n].run = 0
    /\ StillDue(n)
    /\ Start(n, tasks[n], FALSE)
    /\ EndTurn(n)
    /\ UNCHANGED <<storeVars, phase, markVars, sends, acked, started, restarts, crashes>>

ReadForced(n) ==
    /\ pc = "marked" /\ cur = n /\ due[n].run # 0
    /\ StillDue(n)
    /\ fresh' = tasks[n]
    /\ pc' = "taking"
    /\ UNCHANGED <<storeVars, phase, passNow, due, limits, cur, markVars, att, histVars>>

StartForced(n) ==
    /\ pc = "taking" /\ cur = n
    /\ TakeRun(n, fresh.run)
    /\ Start(n, [fresh EXCEPT !.run = 0], TRUE)
    /\ started' = [started EXCEPT ![fresh.run] = @ + 1]
    /\ EndTurn(n)
    /\ UNCHANGED <<phase, markVars, sends, acked, restarts, crashes>>

EndPass ==
    /\ pc = "walking"
    /\ phase = "stopping" \/ \A n \in Names : due[n] = NoTask
    /\ pc' = "idle"
    /\ passNow' = 0
    /\ due' = [n \in Names |-> NoTask]
    /\ limits' = [q \in Queues |-> 0]
    /\ UNCHANGED <<storeVars, phase, cur, fresh, markVars, att, histVars>>

Pass == \/ BeginPass \/ ListDue \/ EndPass
        \/ \E n \in Names : \/ Turn(n) \/ MarkForced(n) \/ MarkDue(n) \/ Skip(n)
                             \/ Release(n) \/ StartDue(n) \/ ReadForced(n) \/ StartForced(n)

------------------------------------------------------------------------------
\* The attempts: Dispatch and reschedule, in the goroutine g.

\* Goroutine g goes on to step s with the task as t.
Go(g, s, t) == att' = [att EXCEPT ![g].step = s, ![g].t = t]

\* Mutant: a 2xx taken for a failure.
AcknowledgedRetried(g) ==
    /\ att[g].step = "waiting"
    /\ Go(g, "record", att[g].t)
    /\ acked' = [acked EXCEPT ![att[g].n] = @ \cup {att[g].t.made}]
    /\ UNCHANGED <<storeVars, phase, pc, passVars, markVars, tries, sends, started, restarts, crashes>>

\* The task as the attempt counts it: FirstAttempt and DispatchCount.
Counted(t) == [t EXCEPT !.count = @ + 1, !.first = IF @ = NoTime THEN now ELSE @]

\* buildRequest or authorize fails: Dispatch returns before it counts anything.
BuildFails(g) ==
    /\ att[g].step = "prepare" /\ Target[att[g].n] = "bad"
    /\ Go(g, "reread", att[g].t)
    /\ UNCHANGED <<storeVars, phase, pc, passVars, markVars, histVars>>

\* attemptAppEngine: a counted attempt that fails without a request.  So is
\* one whose context was cancelled before the client sent anything.
FailsUnsent(g) ==
    /\ att[g].step = "prepare"
    /\ \/ Target[att[g].n] = "appengine"
       \/ Target[att[g].n] = "http" /\ phase = "stopping"
    /\ Go(g, "record", Counted(att[g].t))
    /\ UNCHANGED <<storeVars, phase, pc, passVars, markVars, histVars>>

Send(g) ==
    /\ att[g].step = "prepare" /\ Target[att[g].n] = "http"
    /\ Go(g, "waiting", Counted(att[g].t))
    /\ sends' = [sends EXCEPT ![att[g].n][att[g].t.made] = @ + 1]
    /\ UNCHANGED <<storeVars, phase, pc, passVars, markVars, tries, acked, started, restarts, crashes>>

\* The target answers 2xx.
Acknowledged(g) ==
    /\ att[g].step = "waiting"
    /\ Go(g, "delete", att[g].t)
    /\ acked' = [acked EXCEPT ![att[g].n] = @ \cup {att[g].t.made}]
    /\ UNCHANGED <<storeVars, phase, pc, passVars, markVars, tries, sends, started, restarts, crashes>>

\* The target answers anything else, or nothing before the deadline.
Refused(g) ==
    /\ att[g].step = "waiting"
    /\ Go(g, "record", att[g].t)
    /\ UNCHANGED <<storeVars, phase, pc, passVars, markVars, histVars>>

\* After a 2xx: DeleteTask.  Its NOT_FOUND is Dispatch's error, so the
\* goroutine goes on to reschedule.
DeleteDone(g) ==
    /\ att[g].step = "delete"
    /\ \/ DeleteTask(att[g].n) /\ Go(g, "exit", att[g].t)
       \/ DeleteTaskMissing(att[g].n) /\ Go(g, "reread", att[g].t)
    /\ UNCHANGED <<phase, pc, passVars, markVars, histVars>>

\* After a failure: the write-back of the attempt.
RecordFailure(g) ==
    /\ att[g].step = "record"
    /\ UpdateTask(att[g].n, att[g].t)
    /\ Go(g, "reread", att[g].t)
    /\ UNCHANGED <<phase, pc, passVars, markVars, histVars>>

\* reschedule reads the task again.
Reread(g) ==
    /\ att[g].step = "reread"
    /\ IF tasks[att[g].n] = NoTask THEN Go(g, "exit", att[g].t)
                                   ELSE Go(g, "decide", tasks[att[g].n])
    /\ UNCHANGED <<storeVars, phase, pc, passVars, markVars, histVars>>

\* The retry policy of the task's queue, on the task as read.  A task never
\* attempted has the zero FirstAttempt, longer ago than any duration.
Retries(t, c) ==
    IF t.first = NoTime THEN ShouldRetry(c.retry, t.count)
                        ELSE ShouldRetryAfter(c.retry, t.count, now - t.first)

\* reschedule reads the queue and decides.
Decide(g) ==
    LET a == att[g]
        q == queues[a.t.q]
    IN  /\ a.step = "decide"
        /\ IF q = NoQueue THEN Go(g, "exit", a.t)
           ELSE IF Retries(a.t, q.config)
                THEN Go(g, "store", [a.t EXCEPT !.at = now + Delay(q.config.retry, a.t.count)])
                ELSE Go(g, "drop", a.t)
        /\ UNCHANGED <<storeVars, phase, pc, passVars, markVars, histVars>>

\* The last attempt is spent: the task is deleted, if it still is there.
Drop(g) ==
    /\ att[g].step = "drop"
    /\ DeleteTask(att[g].n) \/ DeleteTaskMissing(att[g].n)
    /\ Go(g, "exit", att[g].t)
    /\ UNCHANGED <<phase, pc, passVars, markVars, histVars>>

\* The next schedule time is written back.
StoreSchedule(g) ==
    /\ att[g].step = "store"
    /\ UpdateTask(att[g].n, att[g].t)
    /\ Go(g, "exit", att[g].t)
    /\ UNCHANGED <<phase, pc, passVars, markVars, histVars>>

\* What start defers: the mark is cleared and the goroutine ends.
Exit(g) ==
    /\ att[g].step = "exit"
    /\ Unmark(att[g].n, att[g].q)
    /\ att' = [att EXCEPT ![g] = Idle]
    /\ UNCHANGED <<storeVars, phase, pc, passVars, buckets, histVars>>

AttemptStep(g) ==
    \/ BuildFails(g) \/ FailsUnsent(g) \/ Send(g) \/ Acknowledged(g) \/ Refused(g)
    \/ DeleteDone(g) \/ RecordFailure(g) \/ Reread(g) \/ Decide(g) \/ Drop(g)
    \/ StoreSchedule(g) \/ Exit(g)

------------------------------------------------------------------------------
\* The process.

\* The coordinator cancels the worker's context.
Cancel ==
    /\ phase = "up" /\ restarts < MaxRestarts
    /\ phase' = "stopping"
    /\ restarts' = restarts + 1
    /\ UNCHANGED <<storeVars, pc, passVars, markVars, att, tries, sends, acked, started, crashes>>

\* The worker's memory is lost; the store's swept is its own memory too.
Down ==
    /\ phase' = "down"
    /\ FreshWorker(pc', passNow', due', limits', cur', fresh', inflight', perQueue',
                   buckets', att')
    /\ acked' = [n \in Names |-> {}]
    /\ swept' = -SweepEvery
    /\ UNCHANGED <<now, queues, tasks, tombs, made, runs, gone, wiped, tries, sends, started>>

\* Run returns once its pass is over and every attempt has ended.
Stopped ==
    /\ phase = "stopping" /\ pc = "idle"
    /\ \A g \in Procs : att[g] = Idle
    /\ Down
    /\ UNCHANGED <<restarts, crashes>>

\* The process dies at any point, or leaves when the coordinator's shutdown
\* timeout ends the wait for its worker.
Crash ==
    /\ phase # "down" /\ restarts < MaxRestarts
    /\ Down
    /\ restarts' = restarts + 1 /\ crashes' = crashes + 1

Restart ==
    /\ phase = "down"
    /\ phase' = "up"
    /\ UNCHANGED <<storeVars, pc, passVars, markVars, att, histVars>>

Next == \/ Client \/ Tick \/ Pass
        \/ \E g \in Procs : AttemptStep(g)
        \/ Cancel \/ Stopped \/ Crash \/ Restart

Spec == Init /\ [][Next]_vars

(***************************************************************************)
(* The polling loop and every attempt keep going, a stopped process is     *)
(* started again, and time passes; clients owe nothing.                    *)
(***************************************************************************)
Fairness == /\ WF_vars(Pass) /\ WF_vars(Tick)
            /\ WF_vars(Stopped) /\ WF_vars(Restart)
            /\ \A g \in Procs : WF_vars(AttemptStep(g))

FairSpec == Spec /\ Fairness

------------------------------------------------------------------------------
WorkerTypeOK ==
    /\ phase \in {"up", "stopping", "down"}
    /\ pc \in {"idle", "listing", "walking", "turn", "marked", "taking"}
    /\ passNow \in Nat
    /\ due \in [Names -> [q: Queues, run: 0..MaxRuns] \cup {NoTask}]
    /\ limits \in [Queues -> Nat]
    /\ cur \in Names \cup {NoTask}
    /\ fresh \in Task \cup {NoTask}
    /\ inflight \subseteq Names
    /\ perQueue \in [Queues -> Int]
    /\ buckets \in [Queues -> Nat]
    /\ att \in [Procs -> Attempt \cup {Idle}]
    /\ sends \in [Names -> [1..MaxMade -> Nat]]
    /\ acked \in [Names -> SUBSET (1..MaxMade)]
    /\ started \in [1..MaxRuns -> Nat]
    /\ tries \in [Names -> [1..MaxMade -> Nat]]
    /\ restarts \in 0..MaxRestarts
    /\ crashes \in 0..restarts

\* The store's and the worker's state have their types.
TypeOK == StoreTypeOK /\ WorkerTypeOK

\* The goroutines with an attempt, and those of one name.
Active == {g \in Procs : att[g] # Idle}
AttemptsOf(n) == {g \in Active : att[g].n = n}

(***************************************************************************)
(* Two attempts of one task are never out together: they would race on its *)
(* record (startAll).                                                      *)
(***************************************************************************)
OneAttemptPerTask ==
    \A g, h \in Active : att[g].n = att[h].n => g = h

(***************************************************************************)
(* The marks are exact: a name is marked while the pass or an attempt holds *)
(* it and at no other time, and each queue's count is the number of its    *)
(* marks.  A mark leaked would stop the task, a count leaked would in time *)
(* stop the queue.                                                         *)
(***************************************************************************)
Holding == pc \in {"marked", "taking"}      \* the pass holds a mark, of cur
MarksExact ==
    /\ inflight = {att[g].n : g \in Active} \cup (IF Holding THEN {cur} ELSE {})
    /\ \A q \in Queues :
          perQueue[q] = Cardinality({g \in Active : att[g].q = q})
                        + (IF Holding /\ due[cur].q = q THEN 1 ELSE 0)

(***************************************************************************)
(* A task that answered 2xx is not delivered again by the process that got *)
(* the answer (#1594).                                                     *)
(***************************************************************************)
AckedNeverResent ==
    [][\A n \in Names : \A m \in acked[n] : sends'[n][m] = sends[n][m]]_vars

(***************************************************************************)
(* A task removed and tombstoned does not come back, whatever an attempt   *)
(* of it that was in flight still writes (#656): the tombstone outlives    *)
(* every such attempt.                                                     *)
(***************************************************************************)
TombstonedStaysGone ==
    \A n \in Names : tasks[n] # NoTask => tasks[n].made \notin gone[n]

(***************************************************************************)
(* One RunTask is one dispatch (TakeRun): it starts at most one attempt of *)
(* its own, crashes included.                                              *)
(***************************************************************************)
OneRunOneDispatch == \A r \in 1..MaxRuns : started[r] <= 1

(***************************************************************************)
(* max_concurrent_dispatches: a scheduled attempt starts only while, with  *)
(* it, its queue has no more of them out than the limit startAll has read  *)
(* for that queue, and what it reads is the limit the queue then has,      *)
(* however passes, forced runs, releases, ends, changes of the limit and   *)
(* deletions of the queue interleave.                                      *)
(***************************************************************************)
Scheduled(q) == {g \in Active : att[g].q = q /\ ~att[g].forced}
WithinConcurrency ==
    [][\A q \in Queues :
          /\ Scheduled(q)' \subseteq Scheduled(q)
             \/ Cardinality(Scheduled(q)') <= limits[q]
          /\ limits'[q] \in {0, limits[q], LimitOf(q)}]_vars

(***************************************************************************)
(* So a queue whose limit nobody changes never has more than that limit of *)
(* scheduled attempts out.                                                 *)
(***************************************************************************)
OwnLimitKept ==
    \A q \in Queues :
        queues[q] # NoQueue => Cardinality(Scheduled(q)) <= queues[q].config.conc

(***************************************************************************)
(* A task is attempted at most MaxAttempts times, forced runs included,    *)
(* plus once for each crash that lost the record of an attempt; a clean    *)
(* stop loses none.  "A task that exhausts its attempts is deleted"        *)
(* (reschedule).                                                           *)
(***************************************************************************)
AttemptsBounded ==
    \A n \in Names : \A m \in 1..MaxMade :
        \E c \in QueueConfigs : tries[n][m] <= c.retry.attempts + crashes

(***************************************************************************)
(* No task outlives its queue: "DeleteQueue removes a queue and every task *)
(* in it", and no write-back brings one back.                              *)
(***************************************************************************)
TasksHaveQueues ==
    \A n \in Names : tasks[n] # NoTask => queues[tasks[n].q] # NoQueue

(***************************************************************************)
(* Nothing is written back into a queue that did not accept it: a stored   *)
(* task is never one that was purged or deleted with its queue.  "Leaving  *)
(* them would let a later queue of the same name inherit work it never     *)
(* accepted" (DeleteQueue).                                                *)
(***************************************************************************)
NoInheritedWork ==
    \A n \in Names : tasks[n] # NoTask => tasks[n].made \notin wiped[n]

(***************************************************************************)
(* RunTask is honoured, paused queue or not, and however it falls among    *)
(* the reads and write-backs of an attempt already out: the run is started *)
(* unless the task goes or a later RunTask takes its place.                *)
(***************************************************************************)
RunHonoured ==
    \A n \in Names, r \in 1..MaxRuns :
        (tasks[n] # NoTask /\ tasks[n].run = r)
            ~> \/ started[r] > 0
               \/ IF tasks[n] = NoTask THEN TRUE ELSE tasks[n].run > r

(***************************************************************************)
(* A due task of a running queue is attempted: it is removed or scheduled  *)
(* for later.  No mark, count or token is lost that it would wait for.     *)
(***************************************************************************)
Waiting(n) == /\ tasks[n] # NoTask
              /\ tasks[n].at <= now
              /\ queues[tasks[n].q] # NoQueue
              /\ queues[tasks[n].q].state = "RUNNING"
DueServed == \A n \in Names : Waiting(n) ~> ~Waiting(n)
==============================================================================
