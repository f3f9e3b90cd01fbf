---------------------------- MODULE CloudScheduler ----------------------------
(***************************************************************************)
(* Cloud Scheduler (internal/service/scheduler): jobs with schedules, the  *)
(* API calls that change them, the runner's passes over the due ones       *)
(* (fireDue) and a goroutine per delivery (fire, deliver).                 *)
(*                                                                         *)
(* The store's operations run under Store.mu and fire under Runner.mu, so  *)
(* each is one step; what a call or a pass read before it (the clock, a    *)
(* job, the list of jobs) may be out of date by then.  The store is that   *)
(* of a persistent instance and outlives the process (any other starts     *)
(* empty, as after a Reset).                                               *)
(*                                                                         *)
(* A cron schedule is the period of its slots, 0 for one that has none     *)
(* (30 February); of a job the model keeps what firing it depends on.      *)
(* Requests refused before they reach the store change nothing and are     *)
(* not steps.                                                              *)
(***************************************************************************)
EXTENDS CloudTasksBackoff, FiniteSets, Sequences

CONSTANTS
    Jobs,           \* job names
    Periods,        \* schedules
    Retries,        \* retry policies: [count, min, max, doublings, duration]
    Callers,        \* API calls that can be under way together
    Procs,          \* delivery goroutines
    SlowCalls,      \* whether a slot may come while a call or a pass is under way
    NoJob,
    MaxCalls,       \* bound: two-step API calls
    MaxTime,        \* bound: the clock
    MaxRestarts     \* bound: ends of the process

RetryConfig ==
    [count: Nat, min: Nat, max: Nat, doublings: Nat, duration: Nat]

Job == [period: Periods, state: {"ENABLED", "PAUSED"}, at: Nat,
        retry: Retries, last: {"none", "ok", "failed"}]

ASSUME SchedulerAssumption ==
    /\ Periods \subseteq Nat /\ Retries \subseteq RetryConfig
    /\ SlowCalls \in BOOLEAN /\ NoJob \notin Job /\ NoJob \notin Jobs
    /\ MaxCalls \in Nat /\ MaxTime \in Nat /\ MaxRestarts \in Nat

VARIABLES
    now,            \* the clock
    jobs,           \* the store: a job or NoJob under each name
    calls,          \* API calls that have read the clock or a job, not yet acted
    phase,          \* "serving" before Run, "up", "stopping" once its context
                    \* ended, "down" when there is no process
    pc,             \* the pass: "idle", "listed", "walk" or "fire"
    passNow,        \* fireDue's now
    listed,         \* the jobs fireDue has still to visit, as List returned them
    cur,            \* the job whose schedule it has advanced and not fired
    inflight,       \* Runner.inflight
    att,            \* the delivery each goroutine is making
    asked,          \* history: two-step API calls
    fired,          \* history: the slots each name was started for, in order
    missed,         \* history: the times at which each name was paused
    restarts        \* history: ends of the process

passVars == <<pc, passNow, listed, cur>>
runVars == <<inflight, att>>
vars == <<now, jobs, calls, phase, passVars, runVars,
          asked, fired, missed, restarts>>

Idle == [op |-> "idle"]
Nothing == [n \in Jobs |-> NoJob]
Alive == phase # "down"

Init ==
    /\ now = 0 /\ jobs = Nothing
    /\ calls = [c \in Callers |-> Idle]
    /\ phase = "serving"
    /\ pc = "idle" /\ passNow = 0 /\ listed = Nothing /\ cur = NoJob
    /\ inflight = {} /\ att = [g \in Procs |-> Idle]
    /\ asked = 0 /\ restarts = 0
    /\ fired = [n \in Jobs |-> <<>>] /\ missed = [n \in Jobs |-> {}]

-----------------------------------------------------------------------------
(* The clock and the schedules.                                            *)

\* The first slot after t; the zero time, earlier than any other, when the
\* schedule has none.
NextRun(p, t) == IF p = 0 THEN 0 ELSE (t \div p + 1) * p

\* A slot is long against a call or a pass: without SlowCalls none comes
\* while one is under way.
Tick ==
    /\ now < MaxTime
    /\ SlowCalls \/ (pc = "idle" /\ \A c \in Callers : calls[c] = Idle)
    /\ now' = now + 1
    /\ missed' = [n \in Jobs |->
                    IF jobs[n] # NoJob /\ jobs[n].state = "PAUSED"
                    THEN missed[n] \cup {now'} ELSE missed[n]]
    /\ UNCHANGED <<jobs, calls, phase, passVars, runVars, asked, fired, restarts>>

-----------------------------------------------------------------------------
(* fire: a job already being delivered is not started a second time.  A    *)
(* delivery has Run's context once Run has been called, and one that never *)
(* ends before that.                                                       *)

\* Mutant: fire without the inflight check.
CanFireAlways(n) == TRUE
CanFire(n) == n \notin inflight

Delivery(n, j) ==
    [op |-> "begin", n |-> n, retry |-> j.retry, bound |-> phase # "serving",
     k |-> 0, start |-> 0, due |-> 0, ok |-> FALSE]

Fire(n, j) ==
    \/ /\ CanFire(n)
       /\ \E g \in Procs :
            /\ att[g] = Idle
            /\ att' = [att EXCEPT ![g] = Delivery(n, j)]
       /\ inflight' = inflight \cup {n}
    \/ ~CanFire(n) /\ UNCHANGED runVars

-----------------------------------------------------------------------------
(* The API.  CreateJob, UpdateJob and ResumeJob read the clock and then    *)
(* take the store's lock; RunJob reads the job and then takes the          *)
(* runner's.                                                               *)

apiSame == <<now, phase, passVars, fired, missed, restarts>>

ReadClock(c, op, n) ==
    /\ Alive /\ calls[c] = Idle /\ asked < MaxCalls
    /\ calls' = [calls EXCEPT ![c] = [op |-> op, n |-> n, t |-> now]]
    /\ asked' = asked + 1
    /\ UNCHANGED <<apiSame, jobs, runVars>>

\* What a call in its second step leaves alone.
Answer(c, op) ==
    /\ Alive /\ calls[c].op = op
    /\ calls' = [calls EXCEPT ![c] = Idle]
    /\ UNCHANGED <<apiSame, asked>>

NewJob(p, r, t) ==
    [period |-> p, state |-> "ENABLED", at |-> NextRun(p, t),
     retry |-> r, last |-> "none"]

CreateJob(c) ==
    LET n == calls[c].n IN
    /\ Answer(c, "create")
    /\ UNCHANGED runVars
    /\ \/ /\ jobs[n] = NoJob
          /\ \E p \in Periods, r \in Retries :
                jobs' = [jobs EXCEPT ![n] = NewJob(p, r, calls[c].t)]
       \/ jobs[n] # NoJob /\ UNCHANGED jobs

\* A mask that names neither field keeps the old ones; the next run is
\* recomputed whatever it names.
UpdateJob(c) ==
    LET n == calls[c].n IN
    /\ Answer(c, "update")
    /\ UNCHANGED runVars
    /\ \/ /\ jobs[n] # NoJob
          /\ \E p \in Periods, r \in Retries :
                jobs' = [jobs EXCEPT ![n].period = p, ![n].retry = r,
                                     ![n].at = NextRun(p, calls[c].t)]
       \/ jobs[n] = NoJob /\ UNCHANGED jobs

\* Mutant: the next run left where the pause found it.
ResumedLate(j, t) == [j EXCEPT !.state = "ENABLED"]
Resumed(j, t) ==
    IF j.state = "ENABLED" THEN j
    ELSE [j EXCEPT !.state = "ENABLED", !.at = NextRun(j.period, t)]

ResumeJob(c) ==
    LET n == calls[c].n IN
    /\ Answer(c, "resume")
    /\ UNCHANGED runVars
    /\ jobs' = [jobs EXCEPT ![n] = IF @ = NoJob THEN @ ELSE Resumed(@, calls[c].t)]

PauseJob(n) ==
    /\ Alive /\ jobs[n] # NoJob
    /\ jobs' = [jobs EXCEPT ![n].state = "PAUSED"]
    /\ UNCHANGED <<apiSame, calls, asked, runVars>>

DeleteJob(n) ==
    /\ Alive /\ jobs[n] # NoJob
    /\ jobs' = [jobs EXCEPT ![n] = NoJob]
    /\ UNCHANGED <<apiSame, calls, asked, runVars>>

Reset ==
    /\ Alive /\ jobs' = Nothing
    /\ UNCHANGED <<apiSame, calls, asked, runVars>>

GetToRun(c, n) ==
    /\ Alive /\ calls[c] = Idle /\ asked < MaxCalls
    /\ jobs[n] # NoJob
    /\ calls' = [calls EXCEPT ![c] = [op |-> "run", n |-> n, j |-> jobs[n]]]
    /\ asked' = asked + 1
    /\ UNCHANGED <<apiSame, jobs, runVars>>

RunJob(c) ==
    /\ Answer(c, "run")
    /\ Fire(calls[c].n, calls[c].j)
    /\ UNCHANGED jobs

Call(c) ==
    \/ \E op \in {"create", "update", "resume"}, n \in Jobs : ReadClock(c, op, n)
    \/ \E n \in Jobs : GetToRun(c, n)

Act(c) == CreateJob(c) \/ UpdateJob(c) \/ ResumeJob(c) \/ RunJob(c)

-----------------------------------------------------------------------------
(* The runner's loop.  Run looks at its context only after a pass, and     *)
(* then not always: the timer may be ready too.                            *)

passSame == <<now, calls, phase, asked, missed, restarts>>

Due(j, t) == j # NoJob /\ j.state = "ENABLED" /\ j.at <= t

List ==
    /\ phase \in {"up", "stopping"} /\ pc = "idle"
    /\ pc' = "listed" /\ listed' = jobs
    /\ UNCHANGED <<passSame, jobs, passNow, cur, runVars, fired>>

\* Mutant: a job whose time is now taken to be still ahead.
ReadNowStrict ==
    /\ pc = "listed"
    /\ pc' = "walk" /\ passNow' = now
    /\ listed' = [n \in Jobs |-> IF Due(listed[n], now - 1) THEN listed[n] ELSE NoJob]
    /\ UNCHANGED <<passSame, jobs, cur, runVars, fired>>
\* Those not due are passed over here: now and the list are fixed.
ReadNow ==
    /\ pc = "listed"
    /\ pc' = "walk" /\ passNow' = now
    /\ listed' = [n \in Jobs |-> IF Due(listed[n], now) THEN listed[n] ELSE NoJob]
    /\ UNCHANGED <<passSame, jobs, cur, runVars, fired>>

\* Mutant: a job fired with its schedule not advanced.
AdvancedNot(j, l) == j
Advanced(j, l) == [j EXCEPT !.at = NextRun(l.period, passNow)]

\* The schedule is the listed one's, the job the store's; one deleted since
\* is passed over.
Advance(n) ==
    /\ pc = "walk" /\ listed[n] # NoJob
    /\ \/ /\ jobs[n] # NoJob
          /\ jobs' = [jobs EXCEPT ![n] = Advanced(@, listed[n])]
          /\ pc' = "fire" /\ cur' = n
          /\ UNCHANGED listed
       \/ /\ jobs[n] = NoJob
          /\ listed' = [listed EXCEPT ![n] = NoJob]
          /\ UNCHANGED <<jobs, pc, cur>>
    /\ UNCHANGED <<passSame, passNow, runVars, fired>>

FireListed ==
    /\ pc = "fire"
    /\ Fire(cur, listed[cur])
    /\ fired' = IF CanFire(cur)
                THEN [fired EXCEPT ![cur] = Append(@, listed[cur].at)] ELSE fired
    /\ listed' = [listed EXCEPT ![cur] = NoJob]
    /\ pc' = "walk" /\ cur' = NoJob
    /\ UNCHANGED <<passSame, jobs, passNow>>

EndPass ==
    /\ pc = "walk" /\ listed = Nothing
    /\ pc' = "idle" /\ passNow' = 0
    /\ UNCHANGED <<passSame, jobs, listed, cur, runVars, fired>>

Pass == List \/ ReadNow \/ (\E n \in Jobs : Advance(n)) \/ FireListed \/ EndPass

-----------------------------------------------------------------------------
(* deliver: up to RetryCount retries, each after its backoff, while the    *)
(* retry duration lasts.  The outcome of every attempt is written to the   *)
(* job then stored under the name.                                         *)

deliverSame == <<now, calls, phase, passVars, asked, fired, missed, restarts>>

\* MaxAttempts counts the first attempt; RetryCount does not.
Backoff(r) ==
    WithDefaults([attempts |-> r.count + 1, min |-> r.min, max |-> r.max,
                  doublings |-> r.doublings, duration |-> 0])

Begin(g) ==
    /\ att[g].op = "begin"
    /\ att' = [att EXCEPT ![g].op = "attempt", ![g].k = 1, ![g].start = now]
    /\ UNCHANGED <<deliverSame, jobs, inflight>>

\* The target answers, or the attempt's deadline or the context ends it.
Attempt(g) ==
    /\ att[g].op = "attempt"
    /\ \E ok \in BOOLEAN : att' = [att EXCEPT ![g].op = "record", ![g].ok = ok]
    /\ UNCHANGED <<deliverSame, jobs, inflight>>

TriesAgain(a) ==
    /\ ~a.ok /\ ShouldRetry(Backoff(a.retry), a.k)
    /\ ~(a.retry.duration > 0 /\ now - a.start >= a.retry.duration)

\* A timer past the clock's bound goes off at the bound.
RetryAt(a) ==
    LET t == now + Delay(Backoff(a.retry), a.k) IN IF t > MaxTime THEN MaxTime ELSE t

Record(g) ==
    LET a == att[g] IN
    /\ a.op = "record"
    /\ jobs' = [jobs EXCEPT ![a.n] =
                  IF @ = NoJob THEN @
                  ELSE [@ EXCEPT !.last = IF a.ok THEN "ok" ELSE "failed"]]
    /\ att' = [att EXCEPT ![g] =
                 IF TriesAgain(a)
                 THEN [a EXCEPT !.op = "wait", !.due = RetryAt(a)]
                 ELSE [a EXCEPT !.op = "exit"]]
    /\ UNCHANGED <<deliverSame, inflight>>

\* Mutant: a retry that is not counted.
AgainUncounted(g) ==
    /\ att[g].op = "wait" /\ now >= att[g].due
    /\ att' = [att EXCEPT ![g].op = "attempt"]
    /\ UNCHANGED <<deliverSame, jobs, inflight>>
Again(g) ==
    /\ att[g].op = "wait" /\ now >= att[g].due
    /\ att' = [att EXCEPT ![g].op = "attempt", ![g].k = @ + 1]
    /\ UNCHANGED <<deliverSame, jobs, inflight>>

Abandon(g) ==
    /\ att[g].op = "wait" /\ att[g].bound /\ phase = "stopping"
    /\ att' = [att EXCEPT ![g].op = "exit"]
    /\ UNCHANGED <<deliverSame, jobs, inflight>>

Exit(g) ==
    /\ att[g].op = "exit"
    /\ att' = [att EXCEPT ![g] = Idle]
    /\ inflight' = inflight \ {att[g].n}
    /\ UNCHANGED <<deliverSame, jobs>>

Deliver(g) ==
    Begin(g) \/ Attempt(g) \/ Record(g) \/ Again(g) \/ Abandon(g) \/ Exit(g)

-----------------------------------------------------------------------------
(* The process.  It serves the API before Run is called and until after    *)
(* Run's context has ended, and may end at any time: the coordinator stops *)
(* waiting for Run at its deadline.                                        *)

processSame == <<now, jobs, asked, fired, missed>>

Run ==
    /\ phase = "serving" /\ phase' = "up"
    /\ UNCHANGED <<processSame, calls, passVars, runVars, restarts>>

Cancel ==
    /\ phase = "up" /\ phase' = "stopping"
    /\ UNCHANGED <<processSame, calls, passVars, runVars, restarts>>

Down ==
    /\ Alive /\ restarts < MaxRestarts
    /\ phase' = "down" /\ restarts' = restarts + 1
    /\ calls' = [c \in Callers |-> Idle]
    /\ pc' = "idle" /\ passNow' = 0 /\ listed' = Nothing /\ cur' = NoJob
    /\ inflight' = {} /\ att' = [g \in Procs |-> Idle]
    /\ UNCHANGED processSame

Restart ==
    /\ phase = "down" /\ phase' = "serving"
    /\ UNCHANGED <<processSame, calls, passVars, runVars, restarts>>

Next ==
    \/ Tick \/ Reset \/ Pass
    \/ \E n \in Jobs : PauseJob(n) \/ DeleteJob(n)
    \/ \E c \in Callers : Call(c) \/ Act(c)
    \/ \E g \in Procs : Deliver(g)
    \/ Run \/ Cancel \/ Down \/ Restart

Spec == Init /\ [][Next]_vars

-----------------------------------------------------------------------------
(* Properties.                                                             *)

CallType ==
    {Idle} \cup [op: {"create", "update", "resume"}, n: Jobs, t: Nat]
           \cup [op: {"run"}, n: Jobs, j: Job]
DeliveryType ==
    [op: {"begin", "attempt", "record", "wait", "exit"}, n: Jobs, retry: Retries,
     bound: BOOLEAN, k: Nat, start: Nat, due: Nat, ok: BOOLEAN]

\* The types; a pass about to fire has the job it listed under the name.
TypeOK ==
    /\ now \in Nat /\ jobs \in [Jobs -> Job \cup {NoJob}]
    /\ calls \in [Callers -> CallType]
    /\ phase \in {"serving", "up", "stopping", "down"}
    /\ pc \in {"idle", "listed", "walk", "fire"}
    /\ passNow \in Nat /\ listed \in [Jobs -> Job \cup {NoJob}]
    /\ cur \in Jobs \cup {NoJob}
    /\ pc = "fire" => cur \in Jobs /\ listed[cur] # NoJob
    /\ inflight \subseteq Jobs /\ att \in [Procs -> {Idle} \cup DeliveryType]
    /\ asked \in Nat /\ restarts \in Nat
    /\ fired \in [Jobs -> Seq(Nat)] /\ missed \in [Jobs -> SUBSET Nat]

\* A job is never delivered twice at once, and the marks of Runner.inflight
\* are the names being delivered: a delivery the runner has forgotten would be
\* joined by a second, a mark with no delivery would silence the job for good.
OneDelivery ==
    /\ inflight = {att[g].n : g \in {h \in Procs : att[h] # Idle}}
    /\ \A g, h \in Procs :
         g # h /\ att[g] # Idle /\ att[h] # Idle => att[g].n # att[h].n

\* The schedule is advanced before a job is fired, so that it is not fired
\* again for the same slot: the slots a name is fired for only grow, over
\* passes, updates, pauses, deletions, new jobs of the name and restarts.
SlotsOnce ==
    \A n \in Jobs : \A i, j \in DOMAIN fired[n] : i < j => fired[n][i] < fired[n][j]

\* Runs missed while a job was paused are not made up: no slot that came
\* while it was paused is fired once it is resumed.
MissedNotMadeUp ==
    \A n \in Jobs : \A i \in DOMAIN fired[n] : fired[n][i] \notin missed[n]

-----------------------------------------------------------------------------
(* Liveness.  Goroutines run, calls under way finish, and the clock does   *)
(* not stop: that Tick waits for a pass to end is this model's doing.      *)

Fairness ==
    /\ WF_vars(Pass) /\ WF_vars(Run) /\ SF_vars(Tick)
    /\ \A c \in Callers : WF_vars(Act(c))
    /\ \A g \in Procs : WF_vars(Deliver(g))

FairSpec == Spec /\ Fairness

\* A delivery ends, whatever its target answers: the job can be run again.
DeliveriesEnd == \A n \in Jobs : n \in inflight ~> n \notin inflight

\* While the runner runs, no enabled job stays due.
NoneStaysDue ==
    \A n \in Jobs :
        Due(jobs[n], now) ~> (~Due(jobs[n], now) \/ phase \in {"stopping", "down"})
==============================================================================
