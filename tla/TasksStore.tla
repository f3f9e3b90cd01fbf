------------------------------ MODULE TasksStore ------------------------------
(***************************************************************************)
(* The Cloud Tasks store (internal/service/tasks/store.go): queues, their  *)
(* tasks and the tombstones of removed task names.  Every operation runs   *)
(* under Store.mu, so each is one step.                                    *)
(*                                                                         *)
(* A task is what dispatch tells apart: its queue, which creation of the   *)
(* name it is (made, for the payload), when it is scheduled, its attempts  *)
(* so far, its first attempt, its pending forced run, and whether the      *)
(* server chose its name.  Operations that answer an error change nothing  *)
(* and are not steps.                                                      *)
(***************************************************************************)
EXTENDS Integers, FiniteSets, CloudTasksBackoff

CONSTANTS
    Queues,         \* queue names
    Names,          \* task names
    QueueOf,        \* the queue a task name is under: its prefix
    Parents,        \* the queues clients create a name in: CreateTask does
                    \* not compare the parent with the name's prefix
    QueueConfigs,   \* [conc, retry]: max_concurrent_dispatches, retry_config
    TTL,            \* TombstoneTTL
    SweepEvery,     \* tombstoneSweep
    Lead,           \* how far ahead a client may schedule a task
    NoQueue, NoTask,
    MaxMade,        \* bound: creations of one name in a run
    MaxRuns,        \* bound: RunTask calls in a run
    MaxTime,        \* bound: the clock of a run
    LastCreate      \* bound: the last moment a client creates or runs a task

NoTime == -1        \* the zero time.Time of a first attempt not made yet

Task == [q: Queues, made: 1..MaxMade, at: Nat, count: Nat, first: Nat \cup {NoTime},
         run: 0..MaxRuns, server: BOOLEAN]

Config == [conc: Nat \ {0}, retry: [attempts: Int, min: Nat, max: Nat,
                                    doublings: Nat, duration: Nat]]

Queue == [state: {"RUNNING", "PAUSED"}, config: Config]

ASSUME StoreAssumption ==
    /\ QueueOf \in [Names -> Queues]
    /\ Parents \in [Names -> SUBSET Queues]
    /\ QueueConfigs \subseteq Config
    /\ TTL \in Nat \ {0} /\ SweepEvery \in Nat /\ Lead \in Nat
    /\ MaxMade \in Nat /\ MaxRuns \in Nat /\ MaxTime \in Nat /\ LastCreate \in Nat
    /\ NoQueue \notin Queue /\ NoTask \notin Task

VARIABLES
    now,            \* the clock
    queues,         \* queueKey -> Queue
    tasks,          \* taskKey -> Task
    tombs,          \* tombstoneKey -> the time the name is free again; 0: none
    swept,          \* Store.swept
    made,           \* history: creations of each name
    runs,           \* history: RunTask calls so far; their times are distinct
    gone,           \* history: creations removed and tombstoned
    wiped           \* history: creations removed and not tombstoned

storeVars == <<now, queues, tasks, tombs, swept, made, runs, gone, wiped>>

StoreInit ==
    /\ now = 0
    /\ queues = [q \in Queues |-> NoQueue]
    /\ tasks = [n \in Names |-> NoTask]
    /\ tombs = [n \in Names |-> 0]
    /\ swept = -SweepEvery
    /\ made = [n \in Names |-> 0]
    /\ runs = 0
    /\ gone = [n \in Names |-> {}]
    /\ wiped = [n \in Names |-> {}]

------------------------------------------------------------------------------
\* CreateQueue, and UpdateQueue of a queue that does not exist.
CreateQueue(q) ==
    /\ queues[q] = NoQueue
    /\ \E c \in QueueConfigs :
          queues' = [queues EXCEPT ![q] = [state |-> "RUNNING", config |-> c]]
    /\ UNCHANGED <<now, tasks, tombs, swept, made, runs, gone, wiped>>

\* UpdateQueue of a queue that exists: its configuration only.
UpdateQueue(q) ==
    /\ queues[q] # NoQueue
    /\ \E c \in QueueConfigs : queues' = [queues EXCEPT ![q].config = c]
    /\ UNCHANGED <<now, tasks, tombs, swept, made, runs, gone, wiped>>

\* PauseQueue and ResumeQueue.
SetQueueState(q, s) ==
    /\ queues[q] # NoQueue
    /\ queues' = [queues EXCEPT ![q].state = s]
    /\ UNCHANGED <<now, tasks, tombs, swept, made, runs, gone, wiped>>

\* The tasks whose names are under a queue are deleted without tombstones.
Wipe(q) ==
    tasks' = [n \in Names |-> IF QueueOf[n] = q THEN NoTask ELSE tasks[n]]

\* The creations a Wipe of q removes.
Wiped(q) ==
    [n \in Names |-> wiped[n] \cup
        IF QueueOf[n] = q /\ tasks[n] # NoTask THEN {tasks[n].made} ELSE {}]

\* DeleteQueue: the queue, its tasks and its tombstones, in one commit.
\* Names it frees are free at once, those of tombstoned tasks included.
DeleteQueue(q) ==
    /\ queues[q] # NoQueue
    /\ queues' = [queues EXCEPT ![q] = NoQueue]
    /\ Wipe(q)
    /\ tombs' = [n \in Names |-> IF QueueOf[n] = q THEN 0 ELSE tombs[n]]
    /\ wiped' = [n \in Names |-> Wiped(q)[n] \cup IF QueueOf[n] = q THEN gone[n] ELSE {}]
    /\ gone' = [n \in Names |-> IF QueueOf[n] = q THEN {} ELSE gone[n]]
    /\ UNCHANGED <<now, swept, made, runs>>

\* PurgeQueue: every task of the queue, and no tombstone.
PurgeQueue(q) ==
    /\ queues[q] # NoQueue
    /\ Wipe(q)
    /\ wiped' = Wiped(q)
    /\ UNCHANGED <<now, queues, tombs, swept, made, runs, gone>>

------------------------------------------------------------------------------
\* Mutants: a write-back that stores whatever the name holds now (#656); one
\* that loses a RunTask; a forced run that is never taken.
UpdateTaskAlways(n, t) ==
    /\ tasks' = [tasks EXCEPT ![n] = t]
    /\ UNCHANGED <<now, queues, tombs, swept, made, runs, gone, wiped>>
MergeRunLost(stored, t) == t
TakeRunNever(n, r) == UNCHANGED storeVars

\* The name neither holds a task nor carries a tombstone still in force.
NameFree(n) == tasks[n] = NoTask /\ now >= tombs[n]

\* CreateTask.  The server makes up a name nobody used; a client may use any
\* free one.  An expired tombstone of the name is deleted on the way.
CreateTask(n) ==
    /\ NameFree(n)
    /\ made[n] < MaxMade /\ now <= LastCreate
    /\ made' = [made EXCEPT ![n] = @ + 1]
    /\ \E q \in Parents[n], server \in BOOLEAN, at \in now..(now + Lead) :
          /\ queues[q] # NoQueue
          /\ server => made[n] = 0 /\ q = QueueOf[n]
          /\ tasks' = [tasks EXCEPT ![n] =
                [q |-> q, made |-> made[n] + 1, at |-> at, count |-> 0, first |-> NoTime,
                 run |-> 0, server |-> server]]
    /\ tombs' = [tombs EXCEPT ![n] = 0]
    /\ UNCHANGED <<now, queues, swept, runs, gone, wiped>>

\* expiredTombstones, when DeleteTask's sweep is due: listed before it puts
\* its own tombstone, deleted after it in the same commit.
Expired == {n \in Names : now - swept >= SweepEvery /\ tombs[n] # 0 /\ now >= tombs[n]}

\* DeleteTask of a task that exists: by a client, by a 2xx answer or after
\* its last attempt.  The name is tombstoned unless it is the server's.
DeleteTask(n) ==
    LET t == tasks[n]
    IN  /\ t # NoTask
        /\ tasks' = [tasks EXCEPT ![n] = NoTask]
        /\ tombs' = [m \in Names |-> IF m \in Expired THEN 0
                                    ELSE IF m = n /\ ~t.server THEN now + TTL
                                    ELSE tombs[m]]
        /\ swept' = IF now - swept >= SweepEvery THEN now ELSE swept
        /\ gone' = IF t.server THEN gone ELSE [gone EXCEPT ![n] = @ \cup {t.made}]
        /\ wiped' = IF t.server THEN [wiped EXCEPT ![n] = @ \cup {t.made}] ELSE wiped
        /\ UNCHANGED <<now, queues, made, runs>>

\* DeleteTask of a name that holds no task: NOT_FOUND, nothing changes.
DeleteTaskMissing(n) == tasks[n] = NoTask /\ UNCHANGED storeVars

\* A RunTask that landed after t was read is kept over t's own.
MergeRun(stored, t) ==
    IF stored.run # 0 /\ stored.run # t.run THEN [t EXCEPT !.run = stored.run] ELSE t

\* UpdateTask, the dispatcher's write-back: only a task that still exists.
UpdateTask(n, t) ==
    /\ tasks' = IF tasks[n] = NoTask THEN tasks
                ELSE [tasks EXCEPT ![n] = MergeRun(tasks[n], t)]
    /\ UNCHANGED <<now, queues, tombs, swept, made, runs, gone, wiped>>

\* RunTask: stamped with the time of the call.
RunTask(n) ==
    /\ tasks[n] # NoTask
    /\ runs < MaxRuns /\ now <= LastCreate
    /\ runs' = runs + 1
    /\ tasks' = [tasks EXCEPT ![n].run = runs + 1]
    /\ UNCHANGED <<now, queues, tombs, swept, made, gone, wiped>>

\* TakeRun: clears the forced run if it is still the one requested as r.
TakeRun(n, r) ==
    /\ tasks' = IF tasks[n] = NoTask THEN tasks
                ELSE IF tasks[n].run # r THEN tasks
                ELSE [tasks EXCEPT ![n].run = 0]
    /\ UNCHANGED <<now, queues, tombs, swept, made, runs, gone, wiped>>

\* DueTasks(t): every forced task, and those scheduled by t in running queues.
DueTasks(t) ==
    {n \in Names :
        /\ tasks[n] # NoTask
        /\ \/ tasks[n].run # 0
           \/ /\ tasks[n].at <= t
              /\ queues[tasks[n].q] # NoQueue
              /\ queues[tasks[n].q].state = "RUNNING"}

StoreTypeOK ==
    /\ now \in Nat
    /\ queues \in [Queues -> Queue \cup {NoQueue}]
    /\ tasks \in [Names -> Task \cup {NoTask}]
    /\ tombs \in [Names -> Nat]
    /\ swept \in Int
    /\ made \in [Names -> 0..MaxMade]
    /\ runs \in 0..MaxRuns
    /\ gone \in [Names -> SUBSET (1..MaxMade)]
    /\ wiped \in [Names -> SUBSET (1..MaxMade)]
==============================================================================
