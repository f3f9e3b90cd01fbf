------------------------- MODULE CloudSchedulerProofs -------------------------
(***************************************************************************)
(* Proofs about CloudScheduler, for any jobs, schedules, callers,          *)
(* goroutines and bounds: its types, one delivery of a job at a time and,  *)
(* when no slot comes while a call or a pass is under way and every        *)
(* schedule has slots, each slot fired once and none made up.              *)
(***************************************************************************)
EXTENDS CloudScheduler, TLAPS

-----------------------------------------------------------------------------
(* Schedules.                                                              *)

\* nextRun gives a time, and for a schedule that has slots a later one than
\* the time it starts from.
LEMMA NextRunLater ==
    ASSUME NEW p \in Nat, NEW t \in Nat
    PROVE  NextRun(p, t) \in Nat /\ (p # 0 => NextRun(p, t) > t)
<1>1. CASE p = 0
    BY <1>1 DEF NextRun
<1>2. CASE p # 0
    <2> DEFINE q == t \div p
    <2>1. q \in Nat /\ t % p \in 0..(p - 1) /\ t = p * q + (t % p)
        BY <1>2, SMT
    <2>2. (q + 1) * p = p * q + p
        BY <2>1, SMT
    <2>3. p * q \in Nat
        BY <2>1, SMT
    <2> HIDE DEF q
    <2>4. (q + 1) * p \in Nat /\ (q + 1) * p > t
        BY <2>1, <2>2, <2>3, <1>2, SMT
    <2> QED BY <2>4, <1>2 DEF NextRun, q
<1> QED BY <1>1, <1>2

-----------------------------------------------------------------------------
(* Types.                                                                  *)

\* The wait before a retry is a time.
LEMMA RetryAtNat ==
    ASSUME NEW a \in DeliveryType, now \in Nat
    PROVE  RetryAt(a) \in Nat
<1>1. a.retry \in RetryConfig
    BY SchedulerAssumption DEF DeliveryType
<1>2. Backoff(a.retry).max \in Nat
    BY <1>1 DEF Backoff, WithDefaults, DefaultBackoff, RetryConfig
<1> DEFINE b == Backoff(a.retry)
<1>3. Delay(b, a.k) \in Nat
    <2> DEFINE d == Growth(b, a.k - 1)
    <2>1. Cap(d, b.max) \in Nat
        <3> HIDE DEF d, b
        <3> SUFFICES b.max \in Nat => Cap(d, b.max) \in Nat
            BY <1>2 DEF b
        <3> QED BY DEF Cap
    <2> QED BY <2>1 DEF Delay
<1> HIDE DEF b
<1> QED BY <1>3, SchedulerAssumption DEF RetryAt, b

\* fire keeps the types of the deliveries and their marks.
LEMMA FireType ==
    ASSUME TypeOK, NEW n \in Jobs, NEW j \in Job, Fire(n, j)
    PROVE  inflight' \subseteq Jobs /\ att' \in [Procs -> {Idle} \cup DeliveryType]
<1>1. Delivery(n, j) \in DeliveryType
    BY DEF Delivery, DeliveryType, Job
<1> QED BY <1>1 DEF Fire, runVars, TypeOK

\* A new process with an empty store is typed.
LEMMA InitType == Init => TypeOK
  BY DEF Init, TypeOK, Nothing, CallType

\* The clock keeps the types.
LEMMA TickType == TypeOK /\ Tick => TypeOK'
<1> SUFFICES ASSUME TypeOK, Tick PROVE TypeOK'
    OBVIOUS
<1>1. now' \in Nat /\ missed' \in [Jobs -> SUBSET Nat]
    BY DEF Tick, TypeOK
<1> QED BY <1>1 DEF Tick, TypeOK, passVars, runVars

\* The first step of a call keeps the types.
LEMMA CallStepType == ASSUME TypeOK, NEW c \in Callers, Call(c) PROVE TypeOK'
<1>1. ASSUME NEW op \in {"create", "update", "resume"}, NEW n \in Jobs, ReadClock(c, op, n)
      PROVE  TypeOK'
    <2>1. [op |-> op, n |-> n, t |-> now] \in CallType
        BY DEF CallType, TypeOK
    <2> QED BY <1>1, <2>1 DEF ReadClock, TypeOK, apiSame, passVars, runVars
<1>2. ASSUME NEW n \in Jobs, GetToRun(c, n) PROVE TypeOK'
    <2>1. [op |-> "run", n |-> n, j |-> jobs[n]] \in CallType
        BY <1>2 DEF CallType, TypeOK, GetToRun
    <2> QED BY <1>2, <2>1 DEF GetToRun, TypeOK, apiSame, passVars, runVars
<1> QED BY <1>1, <1>2 DEF Call

\* What a call under way holds.
LEMMA CallHolds ==
    ASSUME TypeOK, NEW c \in Callers
    PROVE  /\ calls[c].op \in {"create", "update", "resume"} =>
                calls[c].n \in Jobs /\ calls[c].t \in Nat
           /\ calls[c].op = "run" => calls[c].n \in Jobs /\ calls[c].j \in Job
  BY DEF TypeOK, CallType, Idle

\* A call that answers leaves everything but the store, the deliveries and
\* itself alone.
LEMMA AnswerType ==
    ASSUME TypeOK, NEW c \in Callers, NEW op, Answer(c, op),
           jobs' \in [Jobs -> Job \cup {NoJob}],
           inflight' \subseteq Jobs, att' \in [Procs -> {Idle} \cup DeliveryType]
    PROVE  TypeOK'
<1>1. calls' \in [Callers -> CallType]
    BY DEF Answer, TypeOK, CallType
<1> QED BY <1>1 DEF Answer, TypeOK, apiSame, passVars

\* The second step of a call keeps the types.
LEMMA ActType == ASSUME TypeOK, NEW c \in Callers, Act(c) PROVE TypeOK'
<1>1. CASE CreateJob(c)
    <2>1. calls[c].n \in Jobs /\ calls[c].t \in Nat
        BY <1>1, CallHolds DEF CreateJob, Answer
    <2>2. \A p \in Periods, r \in Retries : NewJob(p, r, calls[c].t) \in Job
        BY <2>1, NextRunLater, SchedulerAssumption, ZenonT(30) DEF NewJob, Job
    <2>3. jobs' \in [Jobs -> Job \cup {NoJob}]
        <3>1. CASE jobs' = jobs
            BY <3>1 DEF TypeOK
        <3>2. ASSUME NEW p \in Periods, NEW r \in Retries,
                     jobs' = [jobs EXCEPT ![calls[c].n] = NewJob(p, r, calls[c].t)]
              PROVE  jobs' \in [Jobs -> Job \cup {NoJob}]
            BY <2>1, <2>2, <3>2 DEF TypeOK
        <3> QED BY <1>1, <3>1, <3>2 DEF CreateJob
    <2> QED BY <1>1, <2>3, AnswerType, Zenon DEF CreateJob, runVars, TypeOK
<1>2. CASE UpdateJob(c)
    <2>1. calls[c].n \in Jobs /\ calls[c].t \in Nat
        BY <1>2, CallHolds, Zenon DEF UpdateJob, Answer
    <2>2. \A p \in Periods : NextRun(p, calls[c].t) \in Nat
        BY <2>1, NextRunLater, SchedulerAssumption, Zenon
    <2>3. jobs' \in [Jobs -> Job \cup {NoJob}]
        <3> DEFINE n == calls[c].n
        <3>1. CASE jobs[n] = NoJob
            BY <1>2, <3>1 DEF UpdateJob, TypeOK
        <3>2. CASE jobs[n] # NoJob
            <4>1. PICK p \in Periods, r \in Retries :
                    jobs' = [jobs EXCEPT ![n].period = p, ![n].retry = r,
                                         ![n].at = NextRun(p, calls[c].t)]
                BY <1>2, <3>2, Zenon DEF UpdateJob
            <4>2. jobs[n] \in Job
                BY <2>1, <3>2 DEF TypeOK
            <4>3. [[[jobs[n] EXCEPT !.period = p] EXCEPT !.retry = r]
                     EXCEPT !.at = NextRun(p, calls[c].t)] \in Job
                BY <2>2, <4>2, Zenon DEF Job
            <4>4. jobs' = [jobs EXCEPT ![n] =
                             [[[jobs[n] EXCEPT !.period = p] EXCEPT !.retry = r]
                                EXCEPT !.at = NextRun(p, calls[c].t)]]
                BY <4>1, <4>2, <2>1, Zenon DEF TypeOK, Job
            <4> QED BY <4>3, <4>4, <2>1 DEF TypeOK
        <3> QED BY <3>1, <3>2
    <2> QED BY <1>2, <2>3, AnswerType, ZenonT(30) DEF UpdateJob, runVars, TypeOK
<1>3. CASE ResumeJob(c)
    <2>1. calls[c].n \in Jobs /\ calls[c].t \in Nat
        BY <1>3, CallHolds DEF ResumeJob, Answer
    <2>2. ASSUME NEW j \in Job PROVE Resumed(j, calls[c].t) \in Job
        <3>1. NextRun(j.period, calls[c].t) \in Nat
            BY <2>1, NextRunLater, SchedulerAssumption, Zenon DEF Job
        <3> QED BY <3>1, Zenon DEF Resumed, Job
    <2>3. jobs' \in [Jobs -> Job \cup {NoJob}]
        BY <1>3, <2>1, <2>2 DEF ResumeJob, TypeOK
    <2> QED BY <1>3, <2>3, AnswerType, Zenon DEF ResumeJob, runVars, TypeOK
<1>4. CASE RunJob(c)
    <2>1. calls[c].n \in Jobs /\ calls[c].j \in Job
        BY <1>4, CallHolds DEF RunJob, Answer
    <2>2. inflight' \subseteq Jobs /\ att' \in [Procs -> {Idle} \cup DeliveryType]
        BY <1>4, <2>1, FireType DEF RunJob
    <2> QED BY <1>4, <2>2, AnswerType DEF RunJob, TypeOK
<1> QED BY <1>1, <1>2, <1>3, <1>4 DEF Act

\* Pauses, deletions and resets keep the types.
LEMMA StoreOpType ==
    ASSUME TypeOK, Reset \/ \E n \in Jobs : PauseJob(n) \/ DeleteJob(n)
    PROVE  TypeOK'
<1>1. ASSUME NEW n \in Jobs, PauseJob(n) PROVE TypeOK'
    <2>1. jobs[n] \in Job
        BY <1>1 DEF PauseJob, TypeOK
    <2>2. [jobs[n] EXCEPT !.state = "PAUSED"] \in Job
        BY <2>1 DEF Job
    <2>3. jobs' \in [Jobs -> Job \cup {NoJob}]
        BY <1>1, <2>2 DEF PauseJob, TypeOK
    <2> QED BY <1>1, <2>3 DEF PauseJob, TypeOK, apiSame, passVars, runVars
<1>2. ASSUME NEW n \in Jobs, DeleteJob(n) PROVE TypeOK'
    BY <1>2 DEF DeleteJob, TypeOK, apiSame, passVars, runVars
<1>3. CASE Reset
    BY <1>3 DEF Reset, Nothing, TypeOK, apiSame, passVars, runVars
<1> QED BY <1>1, <1>2, <1>3

\* A pass keeps the types.
LEMMA PassType == TypeOK /\ Pass => TypeOK'
<1> SUFFICES ASSUME TypeOK, Pass PROVE TypeOK'
    OBVIOUS
<1>1. CASE List
    BY <1>1 DEF List, TypeOK, passSame, runVars
<1>2. CASE ReadNow
    BY <1>2 DEF ReadNow, TypeOK, passSame, runVars
<1>3. ASSUME NEW n \in Jobs, Advance(n) PROVE TypeOK'
    <2>1. listed[n] \in Job
        BY <1>3 DEF Advance, TypeOK
    <2>2. ASSUME NEW j \in Job PROVE Advanced(j, listed[n]) \in Job
        <3>1. NextRun(listed[n].period, passNow) \in Nat
            BY <2>1, NextRunLater, SchedulerAssumption, Zenon DEF Job, TypeOK
        <3> QED BY <3>1 DEF Advanced, Job
    <2>3. jobs' \in [Jobs -> Job \cup {NoJob}]
        <3>1. CASE jobs[n] = NoJob
            BY <1>3, <3>1 DEF Advance, TypeOK
        <3>2. CASE jobs[n] # NoJob
            <4>1. jobs' = [jobs EXCEPT ![n] = Advanced(jobs[n], listed[n])]
                BY <1>3, <3>2 DEF Advance
            <4>2. Advanced(jobs[n], listed[n]) \in Job
                BY <2>2, <3>2 DEF TypeOK
            <4> QED BY <4>1, <4>2 DEF TypeOK
        <3> QED BY <3>1, <3>2
    <2> QED BY <1>3, <2>3, Zenon DEF Advance, TypeOK, passSame, runVars
<1>4. CASE FireListed
    <2>1. cur \in Jobs /\ listed[cur] \in Job
        BY <1>4 DEF FireListed, TypeOK
    <2>2. inflight' \subseteq Jobs /\ att' \in [Procs -> {Idle} \cup DeliveryType]
        BY <1>4, <2>1, FireType DEF FireListed
    <2>3. fired' \in [Jobs -> Seq(Nat)]
        <3>1. listed[cur].at \in Nat /\ fired[cur] \in Seq(Nat)
            BY <2>1 DEF Job, TypeOK
        <3>2. Append(fired[cur], listed[cur].at) \in Seq(Nat)
            BY <3>1
        <3> QED BY <1>4, <2>1, <3>2 DEF FireListed, TypeOK
    <2> QED BY <1>4, <2>2, <2>3 DEF FireListed, TypeOK, passSame
<1>5. CASE EndPass
    BY <1>5 DEF EndPass, TypeOK, passSame, runVars
<1> QED BY <1>1, <1>2, <1>3, <1>4, <1>5 DEF Pass

\* A delivery keeps the types.
LEMMA DeliverType == ASSUME TypeOK, NEW g \in Procs, Deliver(g) PROVE TypeOK'
<1>1. att[g] \in DeliveryType
    BY DEF Deliver, Begin, Attempt, Record, Again, Abandon, Exit, TypeOK, Idle
<1>2. CASE Begin(g) \/ Attempt(g) \/ Again(g) \/ Abandon(g) \/ Exit(g)
    <2>1. att' \in [Procs -> {Idle} \cup DeliveryType]
        <3>1. CASE Begin(g)
            <4>1. [[[att[g] EXCEPT !.op = "attempt"] EXCEPT !.k = 1] EXCEPT !.start = now]
                    \in DeliveryType
                BY <1>1, Zenon DEF DeliveryType, TypeOK
            <4>2. att' = [att EXCEPT ![g] =
                    [[[att[g] EXCEPT !.op = "attempt"] EXCEPT !.k = 1] EXCEPT !.start = now]]
                BY <1>1, <3>1, Zenon DEF Begin, DeliveryType, TypeOK
            <4> QED BY <4>1, <4>2 DEF TypeOK
        <3>2. CASE Attempt(g)
            <4>1. PICK ok \in BOOLEAN :
                    att' = [att EXCEPT ![g].op = "record", ![g].ok = ok]
                BY <3>2, Zenon DEF Attempt
            <4>2. [[att[g] EXCEPT !.op = "record"] EXCEPT !.ok = ok] \in DeliveryType
                BY <1>1, Zenon DEF DeliveryType
            <4>3. att' = [att EXCEPT ![g] = [[att[g] EXCEPT !.op = "record"] EXCEPT !.ok = ok]]
                BY <1>1, <4>1, Zenon DEF DeliveryType, TypeOK
            <4> QED BY <4>2, <4>3 DEF TypeOK
        <3>3. CASE Again(g)
            <4>1. [[att[g] EXCEPT !.op = "attempt"] EXCEPT !.k = att[g].k + 1]
                    \in DeliveryType
                <5> DEFINE k == att[g].k + 1
                <5>1. k \in Nat
                    BY <1>1 DEF DeliveryType
                <5> HIDE DEF k
                <5>2. [[att[g] EXCEPT !.op = "attempt"] EXCEPT !.k = k] \in DeliveryType
                    BY <1>1, <5>1, Zenon DEF DeliveryType
                <5> QED BY <5>2 DEF k
            <4>2. att' = [att EXCEPT ![g] =
                    [[att[g] EXCEPT !.op = "attempt"] EXCEPT !.k = att[g].k + 1]]
                BY <1>1, <3>3, Zenon DEF Again, DeliveryType, TypeOK
            <4> QED BY <4>1, <4>2 DEF TypeOK
        <3>4. CASE Abandon(g)
            BY <1>1, <3>4, Zenon DEF Abandon, DeliveryType, TypeOK
        <3>5. CASE Exit(g)
            BY <3>5 DEF Exit, TypeOK
        <3> QED BY <1>2, <3>1, <3>2, <3>3, <3>4, <3>5
    <2>2. UNCHANGED <<deliverSame, jobs>> /\ inflight' \subseteq inflight
        BY <1>2 DEF Begin, Attempt, Again, Abandon, Exit
    <2> QED BY <2>1, <2>2 DEF deliverSame, passVars, TypeOK
<1>3. CASE Record(g)
    <2> DEFINE a == att[g]
    <2>1. RetryAt(a) \in Nat /\ a.n \in Jobs
        BY <1>1, RetryAtNat DEF TypeOK, DeliveryType
    <2>2. att' \in [Procs -> {Idle} \cup DeliveryType]
        <3>1. [a EXCEPT !.op = "wait", !.due = RetryAt(a)] \in DeliveryType
            BY <1>1, <2>1, Zenon DEF DeliveryType
        <3>2. [a EXCEPT !.op = "exit"] \in DeliveryType
            BY <1>1 DEF DeliveryType
        <3> QED BY <1>3, <3>1, <3>2 DEF Record, TypeOK
    <2>3. jobs' \in [Jobs -> Job \cup {NoJob}]
        <3>1. ASSUME NEW j \in Job
              PROVE  [j EXCEPT !.last = IF a.ok THEN "ok" ELSE "failed"] \in Job
            BY DEF Job
        <3> QED BY <1>3, <2>1, <3>1 DEF Record, TypeOK
    <2> QED BY <1>3, <2>2, <2>3 DEF Record, deliverSame, passVars, TypeOK
<1> QED BY <1>2, <1>3 DEF Deliver

\* Starts and ends of the process keep the types.
LEMMA ProcessType == TypeOK /\ (Run \/ Cancel \/ Down \/ Restart) => TypeOK'
<1> SUFFICES ASSUME TypeOK, Run \/ Cancel \/ Down \/ Restart PROVE TypeOK'
    OBVIOUS
<1>1. CASE Run \/ Cancel \/ Restart
    BY <1>1 DEF Run, Cancel, Restart, processSame, passVars, runVars, TypeOK
<1>2. CASE Down
    BY <1>2 DEF Down, processSame, Nothing, CallType, TypeOK
<1> QED BY <1>1, <1>2

\* So does every step.
LEMMA NextType == TypeOK /\ [Next]_vars => TypeOK'
<1> SUFFICES ASSUME TypeOK, [Next]_vars PROVE TypeOK'
    OBVIOUS
<1>1. CASE Next
    BY <1>1, TickType, StoreOpType, PassType, CallStepType, ActType, DeliverType, ProcessType
    DEF Next
<1>2. CASE UNCHANGED vars
    BY <1>2 DEF vars, passVars, runVars, TypeOK
<1> QED BY <1>1, <1>2

\* The runner, the store and the calls keep their types, and a pass about to
\* fire always has the job it listed.
THEOREM TypeCorrect == Spec => []TypeOK
<1>1. QED BY InitType, NextType, PTL DEF Spec

-----------------------------------------------------------------------------
(* One delivery of a job at a time.                                        *)

\* A delivery is not an idle goroutine.
LEMMA NotIdle == \A a \in DeliveryType : a # Idle
  BY DEF DeliveryType, Idle

\* fire keeps the marks exact: it takes an idle goroutine, and only for a
\* name without a mark.
LEMMA FireMarks ==
    ASSUME TypeOK, OneDelivery, NEW n \in Jobs, NEW j \in Job, Fire(n, j)
    PROVE  OneDelivery'
<1>1. CASE UNCHANGED runVars
    BY <1>1 DEF OneDelivery, runVars
<1>2. CASE CanFire(n) /\ ~UNCHANGED runVars
    <2>1. PICK g \in Procs :
            att[g] = Idle /\ att' = [att EXCEPT ![g] = Delivery(n, j)]
        BY <1>2 DEF Fire
    <2>2. Delivery(n, j) # Idle /\ Delivery(n, j).n = n
        BY NotIdle DEF Delivery, Idle
    <2>3. n \notin inflight /\ inflight' = inflight \cup {n}
        BY <1>2 DEF Fire, CanFire
    <2>4. \A h \in Procs : att'[h] = IF h = g THEN Delivery(n, j) ELSE att[h]
        BY <2>1 DEF TypeOK
    <2> HIDE DEF Delivery
    <2>5. \A h \in Procs : att[h] # Idle => att[h].n # n
        BY <2>3 DEF OneDelivery
    <2>6. inflight' = {att'[h].n : h \in {x \in Procs : att'[x] # Idle}}
        BY <2>1, <2>2, <2>3, <2>4 DEF OneDelivery
    <2>7. \A x, y \in Procs :
            x # y /\ att'[x] # Idle /\ att'[y] # Idle => att'[x].n # att'[y].n
        BY <2>2, <2>4, <2>5 DEF OneDelivery
    <2> QED BY <2>6, <2>7 DEF OneDelivery
<1> QED BY <1>1, <1>2 DEF Fire

\* A step of a delivery keeps its name until it ends, and its mark goes with
\* it.
LEMMA DeliverMarks ==
    ASSUME TypeOK, OneDelivery, NEW g \in Procs, Deliver(g)
    PROVE  OneDelivery'
<1>1. att[g] \in DeliveryType /\ att[g] # Idle
    BY NotIdle DEF Deliver, Begin, Attempt, Record, Again, Abandon, Exit, TypeOK, Idle
<1>2. CASE Exit(g)
    <2>1. \A h \in Procs : att'[h] = IF h = g THEN Idle ELSE att[h]
        BY <1>2 DEF Exit, TypeOK
    <2>2. inflight' = inflight \ {att[g].n}
        BY <1>2 DEF Exit
    <2>3. inflight' = {att'[h].n : h \in {x \in Procs : att'[x] # Idle}}
        BY <1>1, <2>1, <2>2 DEF OneDelivery
    <2>4. \A x, y \in Procs :
            x # y /\ att'[x] # Idle /\ att'[y] # Idle => att'[x].n # att'[y].n
        BY <2>1 DEF OneDelivery
    <2> QED BY <2>3, <2>4 DEF OneDelivery
<1>3. CASE ~Exit(g)
    <2>1. /\ \A h \in Procs : h # g => att'[h] = att[h]
          /\ inflight' = inflight
        BY <1>3 DEF Deliver, Begin, Attempt, Record, Again, Abandon, TypeOK
    <2>2. att'[g].n = att[g].n /\ att'[g].op # "idle"
        <3>1. CASE Begin(g)
            BY <1>1, <3>1 DEF Begin, DeliveryType, TypeOK
        <3>2. CASE Attempt(g)
            BY <1>1, <3>2 DEF Attempt, DeliveryType, TypeOK
        <3>3. CASE Record(g)
            BY <1>1, <3>3 DEF Record, DeliveryType, TypeOK
        <3>4. CASE Again(g)
            BY <1>1, <3>4 DEF Again, DeliveryType, TypeOK
        <3>5. CASE Abandon(g)
            BY <1>1, <3>5 DEF Abandon, DeliveryType, TypeOK
        <3> QED BY <1>3, <3>1, <3>2, <3>3, <3>4, <3>5 DEF Deliver
    <2>3. att'[g] # Idle
        BY <2>2 DEF Idle
    <2>4. inflight' = {att'[h].n : h \in {x \in Procs : att'[x] # Idle}}
        BY <1>1, <2>1, <2>2, <2>3 DEF OneDelivery
    <2>5. \A x, y \in Procs :
            x # y /\ att'[x] # Idle /\ att'[y] # Idle => att'[x].n # att'[y].n
        BY <1>1, <2>1, <2>2, <2>3 DEF OneDelivery
    <2> QED BY <2>4, <2>5 DEF OneDelivery
<1> QED BY <1>2, <1>3

\* The other steps change neither the deliveries nor the marks, and a
\* process that ends leaves none.
LEMMA NextMarks == TypeOK /\ OneDelivery /\ [Next]_vars => OneDelivery'
<1> SUFFICES ASSUME TypeOK, OneDelivery, [Next]_vars PROVE OneDelivery'
    OBVIOUS
<1>1. CASE UNCHANGED runVars
    BY <1>1 DEF OneDelivery, runVars
<1>2. ASSUME NEW c \in Callers, RunJob(c) PROVE OneDelivery'
    <2>1. calls[c].n \in Jobs /\ calls[c].j \in Job
        BY <1>2, CallHolds DEF RunJob, Answer
    <2> QED BY <1>2, <2>1, FireMarks DEF RunJob
<1>3. CASE FireListed
    <2>1. cur \in Jobs /\ listed[cur] \in Job
        BY <1>3 DEF FireListed, TypeOK
    <2> QED BY <1>3, <2>1, FireMarks DEF FireListed
<1>4. ASSUME NEW g \in Procs, Deliver(g) PROVE OneDelivery'
    BY <1>4, DeliverMarks
<1>5. CASE Down
    BY <1>5 DEF Down, OneDelivery
<1>6. CASE Tick \/ Reset \/ List \/ ReadNow \/ EndPass \/ Run \/ Cancel \/ Restart
    BY <1>1, <1>6
    DEF Tick, Reset, List, ReadNow, EndPass, Run, Cancel, Restart
<1>7. ASSUME NEW n \in Jobs, PauseJob(n) \/ DeleteJob(n) \/ Advance(n) PROVE OneDelivery'
    BY <1>1, <1>7, SMTT(30) DEF PauseJob, DeleteJob, Advance
<1>8. ASSUME NEW c \in Callers, Call(c) \/ CreateJob(c) \/ UpdateJob(c) \/ ResumeJob(c)
      PROVE  OneDelivery'
    BY <1>1, <1>8, Zenon DEF Call, ReadClock, GetToRun, CreateJob, UpdateJob, ResumeJob
<1>9. CASE UNCHANGED vars
    BY <1>1, <1>9 DEF vars
<1> QED BY <1>2, <1>3, <1>4, <1>5, <1>6, <1>7, <1>8, <1>9 DEF Next, Pass, Act

\* A job already being delivered is not started a second time, by a pass or
\* by RunJob, and is marked exactly while it is delivered.
THEOREM DeliveredOnce == Spec => []OneDelivery
<1>1. Init => OneDelivery
    BY DEF Init, OneDelivery
<1> QED BY <1>1, TypeCorrect, NextMarks, PTL DEF Spec

-----------------------------------------------------------------------------
(* Slots.  The invariant: a call's or a pass's clock is the present one; a *)
(* name's next run, in the store and in the list of a pass, is later than  *)
(* every slot it was fired for and, while it is enabled, not one that came *)
(* while it was paused; and between advancing a job and firing it the      *)
(* store has it in the future, whatever calls have done to it since.       *)

\* Later than every slot n was fired for, and not missed.
Fresh(n, j) ==
    /\ \A i \in DOMAIN fired[n] : fired[n][i] < j.at
    /\ j.state = "ENABLED" => j.at \notin missed[n]

SlotInv ==
    /\ \A c \in Callers : calls[c].op \in {"create", "update", "resume"} => calls[c].t = now
    /\ pc \in {"walk", "fire"} => passNow = now
    /\ \A n \in Jobs : /\ \A i \in DOMAIN fired[n] : fired[n][i] <= now
                       /\ \A m \in missed[n] : m <= now
                       /\ jobs[n] # NoJob => Fresh(n, jobs[n])
                       /\ listed[n] # NoJob => pc # "idle" /\ Fresh(n, listed[n])
                       /\ listed[n] # NoJob /\ pc \in {"walk", "fire"} =>
                            listed[n].state = "ENABLED" /\ listed[n].at <= now
    /\ pc = "fire" /\ jobs[cur] # NoJob => jobs[cur].at > now

SlotsInv == SlotInv /\ SlotsOnce /\ MissedNotMadeUp

\* What is not in the past was never fired and never missed.
LEMMA AheadFresh ==
    ASSUME TypeOK, SlotInv, NEW n \in Jobs, NEW j \in Job, j.at > now
    PROVE  Fresh(n, j)
<1>1. /\ now \in Nat /\ j.at \in Nat /\ missed[n] \subseteq Nat
      /\ \A i \in DOMAIN fired[n] : fired[n][i] \in Nat
    BY DEF TypeOK, Job
<1>2. /\ \A i \in DOMAIN fired[n] : fired[n][i] <= now
      /\ \A m \in missed[n] : m <= now
    BY DEF SlotInv
<1> QED BY <1>1, <1>2 DEF Fresh

\* A step that leaves the clock, the pass and the histories alone keeps the
\* invariant when every job it changes is put in the future, or keeps its
\* time and is not enabled by the step.
LEMMA StoreSteps ==
    ASSUME TypeOK, TypeOK', SlotsInv, UNCHANGED <<now, passVars, fired, missed>>,
           \A c \in Callers :
                calls'[c].op \in {"create", "update", "resume"} => calls'[c].t = now,
           \A n \in Jobs : jobs'[n] # NoJob =>
                \/ jobs'[n].at > now
                \/ /\ jobs[n] # NoJob /\ jobs'[n].at = jobs[n].at
                   /\ jobs'[n].state = "ENABLED" => jobs[n].state = "ENABLED"
    PROVE  SlotsInv'
<1>1. ASSUME NEW n \in Jobs, jobs'[n] # NoJob PROVE Fresh(n, jobs'[n])
    <2>1. jobs'[n] \in Job
        BY <1>1 DEF TypeOK
    <2>2. CASE jobs'[n].at > now
        BY <2>1, <2>2, AheadFresh DEF SlotsInv
    <2>3. CASE ~(jobs'[n].at > now)
        BY <1>1, <2>3 DEF SlotsInv, SlotInv, Fresh
    <2> QED BY <2>2, <2>3
<1>2. \A n \in Jobs : jobs'[n] # NoJob => Fresh(n, jobs[n])'
    BY <1>1 DEF Fresh
<1>3. \A n \in Jobs : Fresh(n, listed[n]) => Fresh(n, listed[n])'
    BY DEF Fresh, passVars
<1>4. pc = "fire" /\ jobs'[cur] # NoJob => jobs'[cur].at > now
    BY DEF SlotsInv, SlotInv, TypeOK
<1>5. SlotInv'
    BY <1>2, <1>3, <1>4 DEF SlotsInv, SlotInv, passVars
<1>6. SlotsOnce' /\ MissedNotMadeUp'
    BY DEF SlotsInv, SlotsOnce, MissedNotMadeUp
<1> QED BY <1>5, <1>6 DEF SlotsInv

\* Under the assumption on the schedules, nextRun of the present is ahead.
LEMMA NextAheadOfNow ==
    ASSUME TypeOK, 0 \notin Periods, NEW p \in Periods
    PROVE  NextRun(p, now) \in Nat /\ NextRun(p, now) > now
  BY NextRunLater, SchedulerAssumption, Zenon DEF TypeOK

\* A call that answers leaves no other call's clock behind.
LEMMA AnswerClock ==
    ASSUME TypeOK, SlotsInv, NEW c \in Callers, NEW op, Answer(c, op)
    PROVE  /\ UNCHANGED <<now, passVars, fired, missed>>
           /\ \A d \in Callers :
                calls'[d].op \in {"create", "update", "resume"} => calls'[d].t = now
  BY DEF Answer, apiSame, Idle, SlotsInv, SlotInv, TypeOK

\* The API's steps keep the invariant: each puts the job it changes after
\* the clock it read, which is the present, or only pauses or removes it.
LEMMA ApiSlots ==
    ASSUME TypeOK, TypeOK', SlotsInv, 0 \notin Periods,
           \/ Reset \/ \E n \in Jobs : PauseJob(n) \/ DeleteJob(n)
           \/ \E c \in Callers : Call(c) \/ Act(c)
    PROVE  SlotsInv'
<1>1. ASSUME NEW c \in Callers, CreateJob(c) PROVE SlotsInv'
    <2>1. calls[c].n \in Jobs /\ calls[c].t = now
        BY <1>1, CallHolds DEF CreateJob, Answer, SlotsInv, SlotInv
    <2>2. \A n \in Jobs : jobs'[n] # NoJob => jobs'[n].at > now \/ jobs'[n] = jobs[n]
        <3>1. CASE jobs' = jobs
            BY <3>1
        <3>2. ASSUME NEW p \in Periods, NEW r \in Retries,
                     jobs' = [jobs EXCEPT ![calls[c].n] = NewJob(p, r, calls[c].t)]
              PROVE  \A n \in Jobs : jobs'[n].at > now \/ jobs'[n] = jobs[n]
            <4>1. NewJob(p, r, calls[c].t).at > now
                BY <2>1, NextAheadOfNow, SMTT(30) DEF NewJob
            <4> QED BY <2>1, <3>2, <4>1 DEF TypeOK
        <3> QED BY <1>1, <3>1, <3>2 DEF CreateJob
    <2> QED BY <1>1, <2>2, AnswerClock, StoreSteps DEF CreateJob
<1>2. ASSUME NEW c \in Callers, UpdateJob(c) PROVE SlotsInv'
    <2>1. calls[c].n \in Jobs /\ calls[c].t = now
        BY <1>2, CallHolds, ZenonT(30) DEF UpdateJob, Answer, SlotsInv, SlotInv
    <2>2. \A n \in Jobs : jobs'[n] # NoJob => jobs'[n].at > now \/ jobs'[n] = jobs[n]
        <3>1. CASE jobs' = jobs
            BY <3>1
        <3>2. ASSUME NEW p \in Periods, NEW r \in Retries, jobs[calls[c].n] # NoJob,
                     jobs' = [jobs EXCEPT ![calls[c].n].period = p,
                                          ![calls[c].n].retry = r,
                                          ![calls[c].n].at = NextRun(p, calls[c].t)]
              PROVE  \A n \in Jobs : jobs'[n].at > now \/ jobs'[n] = jobs[n]
            <4>1. jobs'[calls[c].n].at = NextRun(p, now)
                BY <2>1, <3>2 DEF TypeOK, Job
            <4>2. \A n \in Jobs : n # calls[c].n => jobs'[n] = jobs[n]
                BY <2>1, <3>2 DEF TypeOK
            <4> QED BY <4>1, <4>2, NextAheadOfNow
        <3> QED BY <1>2, <3>1, <3>2, Zenon DEF UpdateJob
    <2> QED BY <1>2, <2>2, AnswerClock, StoreSteps, ZenonT(30) DEF UpdateJob
<1>3. ASSUME NEW c \in Callers, ResumeJob(c) PROVE SlotsInv'
    <2>1. calls[c].n \in Jobs /\ calls[c].t = now
        BY <1>3, CallHolds DEF ResumeJob, Answer, SlotsInv, SlotInv
    <2>2. ASSUME NEW j \in Job
          PROVE  Resumed(j, now).at > now \/ Resumed(j, now) = j
        <3>1. NextRun(j.period, now) > now
            BY NextAheadOfNow DEF Job
        <3>2. CASE j.state = "ENABLED"
            BY <3>2 DEF Resumed
        <3>3. CASE j.state # "ENABLED"
            BY <3>1, <3>3 DEF Resumed, Job
        <3> QED BY <3>2, <3>3
    <2>3. \A n \in Jobs : jobs'[n] # NoJob => jobs'[n].at > now \/ jobs'[n] = jobs[n]
        <3>1. \A n \in Jobs : n # calls[c].n => jobs'[n] = jobs[n]
            BY <1>3, <2>1 DEF ResumeJob, TypeOK
        <3>2. jobs'[calls[c].n] = IF jobs[calls[c].n] = NoJob THEN NoJob
                                  ELSE Resumed(jobs[calls[c].n], now)
            BY <1>3, <2>1 DEF ResumeJob, TypeOK
        <3> QED BY <2>1, <2>2, <3>1, <3>2 DEF TypeOK
    <2> QED BY <1>3, <2>3, AnswerClock, StoreSteps DEF ResumeJob
<1>4. ASSUME NEW c \in Callers, RunJob(c) PROVE SlotsInv'
    BY <1>4, AnswerClock, StoreSteps DEF RunJob
<1>5. ASSUME NEW c \in Callers, Call(c) PROVE SlotsInv'
    <2>1. \A d \in Callers :
            calls'[d].op \in {"create", "update", "resume"} => calls'[d].t = now
        <3>1. ASSUME NEW op \in {"create", "update", "resume"}, NEW n \in Jobs,
                     ReadClock(c, op, n)
              PROVE  \A d \in Callers : calls'[d] = calls[d] \/ calls'[d].t = now
            BY <3>1 DEF ReadClock, TypeOK
        <3>2. ASSUME NEW n \in Jobs, GetToRun(c, n)
              PROVE  \A d \in Callers : calls'[d] = calls[d] \/ calls'[d].op = "run"
            BY <3>2 DEF GetToRun, TypeOK
        <3> QED BY <1>5, <3>1, <3>2 DEF Call, SlotsInv, SlotInv
    <2>2. UNCHANGED <<now, passVars, fired, missed, jobs>>
        BY <1>5, SMTT(30) DEF Call, ReadClock, GetToRun, apiSame
    <2> QED BY <2>1, <2>2, StoreSteps
<1>6. ASSUME NEW m \in Jobs, PauseJob(m) PROVE SlotsInv'
    <2>1. \A n \in Jobs : jobs'[n] # NoJob =>
            /\ jobs[n] # NoJob /\ jobs'[n].at = jobs[n].at
            /\ jobs'[n].state = "ENABLED" => jobs[n].state = "ENABLED"
        BY <1>6, SMTT(30) DEF PauseJob, TypeOK, Job
    <2>2. UNCHANGED <<now, passVars, fired, missed, calls>>
        BY <1>6 DEF PauseJob, apiSame
    <2> QED BY <2>1, <2>2, StoreSteps, Zenon DEF SlotsInv, SlotInv
<1>7. ASSUME Reset \/ \E m \in Jobs : DeleteJob(m) PROVE SlotsInv'
    <2>1. \A n \in Jobs : jobs'[n] # NoJob => jobs'[n] = jobs[n]
        BY <1>7 DEF Reset, Nothing, DeleteJob, TypeOK
    <2>2. UNCHANGED <<now, passVars, fired, missed, calls>>
        BY <1>7, SMTT(30) DEF Reset, DeleteJob, apiSame
    <2> QED BY <2>1, <2>2, StoreSteps DEF SlotsInv, SlotInv
<1> QED BY <1>1, <1>2, <1>3, <1>4, <1>5, <1>6, <1>7 DEF Act

\* So do deliveries, which only record an outcome in the job, and starts of
\* the process.
LEMMA DeliverSlots ==
    ASSUME TypeOK, TypeOK', SlotsInv,
           (\E g \in Procs : Deliver(g)) \/ Run \/ Cancel \/ Restart
    PROVE  SlotsInv'
<1>1. UNCHANGED <<now, passVars, fired, missed, calls>>
    BY Zenon DEF Deliver, Begin, Attempt, Record, Again, Abandon, Exit, deliverSame,
           Run, Cancel, Restart, processSame
<1>2. CASE jobs' = jobs
    BY <1>1, <1>2, StoreSteps DEF SlotsInv, SlotInv
<1>3. ASSUME NEW g \in Procs, Record(g) PROVE SlotsInv'
    <2>1. att[g].n \in Jobs
        BY <1>3 DEF Record, TypeOK, DeliveryType, Idle
    <2>2. \A n \in Jobs : jobs'[n] # NoJob =>
            /\ jobs[n] # NoJob /\ jobs'[n].at = jobs[n].at
            /\ jobs'[n].state = jobs[n].state
        BY <1>3, <2>1 DEF Record, TypeOK, Job
    <2> QED BY <1>1, <2>2, StoreSteps DEF SlotsInv, SlotInv
<1> QED BY <1>2, <1>3, ZenonT(30)
    DEF Deliver, Begin, Attempt, Again, Abandon, Exit, Run, Cancel, Restart, processSame

\* The clock moves only between calls and passes; what it reaches while a
\* job is enabled is not missed, and no slot fired so far is ahead of it.
LEMMA TickSlots ==
    ASSUME TypeOK, SlotsInv, ~SlowCalls, Tick
    PROVE  SlotsInv'
<1>1. /\ pc = "idle" /\ now' = now + 1 /\ now \in Nat
      /\ \A c \in Callers : calls[c].op = "idle"
    BY DEF Tick, TypeOK, Idle
<1>2. UNCHANGED <<jobs, calls, pc, listed, cur, passNow, fired>>
    BY DEF Tick, passVars
<1>3. ASSUME NEW n \in Jobs
      PROVE  /\ missed'[n] \subseteq missed[n] \cup {now + 1}
             /\ jobs[n] # NoJob /\ jobs[n].state = "ENABLED" => missed'[n] = missed[n]
             /\ missed[n] \subseteq Nat
             /\ \A i \in DOMAIN fired[n] : fired[n][i] \in Nat
    BY <1>1 DEF Tick, TypeOK
<1>4. ASSUME NEW n \in Jobs
      PROVE  /\ \A i \in DOMAIN fired[n] : fired[n][i] <= now + 1
             /\ \A m \in missed'[n] : m <= now + 1
             /\ listed[n] = NoJob
             /\ \A i \in DOMAIN fired[n] : fired[n][i] \notin missed'[n]
    <2>1. /\ \A i \in DOMAIN fired[n] : fired[n][i] <= now /\ fired[n][i] \notin missed[n]
          /\ \A m \in missed[n] : m <= now
          /\ listed[n] = NoJob
        BY <1>1 DEF SlotsInv, SlotInv, MissedNotMadeUp
    <2> QED BY <1>1, <1>3, <2>1
<1>5. \A n \in Jobs : jobs[n] # NoJob => Fresh(n, jobs[n])'
    BY <1>2, <1>3 DEF SlotsInv, SlotInv, Fresh
<1>6. SlotInv'
    BY <1>1, <1>2, <1>4, <1>5 DEF SlotInv
<1>7. SlotsOnce' /\ MissedNotMadeUp'
    BY <1>2, <1>4 DEF SlotsInv, SlotsOnce, MissedNotMadeUp
<1> QED BY <1>6, <1>7 DEF SlotsInv

\* A pass keeps the invariant: the slot it fires is the listed one, later
\* than all before, and the store's is by then in the future.
LEMMA PassSlots ==
    ASSUME TypeOK, TypeOK', SlotsInv, 0 \notin Periods, Pass
    PROVE  SlotsInv'
<1>1. UNCHANGED <<now, calls, missed>>
    BY DEF Pass, List, ReadNow, Advance, FireListed, EndPass, passSame
<1>2. ASSUME UNCHANGED fired
      PROVE  SlotsOnce' /\ MissedNotMadeUp'
    BY <1>1, <1>2 DEF SlotsInv, SlotsOnce, MissedNotMadeUp
<1>3. CASE List
    <2>1. UNCHANGED <<fired, jobs>> /\ pc' = "listed" /\ listed' = jobs
        BY <1>3 DEF List
    <2>2. SlotInv'
        BY <1>1, <2>1 DEF SlotsInv, SlotInv, Fresh
    <2> QED BY <1>2, <2>1, <2>2 DEF SlotsInv
<1>4. CASE ReadNow
    <2>1. /\ UNCHANGED <<fired, jobs>> /\ pc' = "walk" /\ passNow' = now
          /\ \A n \in Jobs : listed'[n] # NoJob => listed'[n] = listed[n] /\ Due(listed[n], now)
        BY <1>4 DEF ReadNow
    <2>2. SlotInv'
        BY <1>1, <2>1, <1>4 DEF ReadNow, SlotsInv, SlotInv, Fresh, Due
    <2> QED BY <1>2, <2>1, <2>2 DEF SlotsInv
<1>5. ASSUME NEW m \in Jobs, Advance(m) PROVE SlotsInv'
    <2>1. UNCHANGED <<fired, passNow>> /\ pc = "walk" /\ passNow = now
        BY <1>5 DEF Advance, SlotsInv, SlotInv
    <2>2. CASE jobs[m] = NoJob
        <3>1. /\ UNCHANGED <<jobs, pc, cur>>
              /\ \A n \in Jobs : listed'[n] # NoJob => listed'[n] = listed[n]
            BY <1>5, <2>2, SMTT(30) DEF Advance, TypeOK
        <3>2. SlotInv'
            BY <1>1, <2>1, <3>1, Zenon DEF SlotsInv, SlotInv, Fresh
        <3> QED BY <1>2, <2>1, <3>2 DEF SlotsInv
    <2>3. CASE jobs[m] # NoJob
        <3>1. /\ pc' = "fire" /\ cur' = m /\ listed' = listed
              /\ jobs' = [jobs EXCEPT ![m] = Advanced(jobs[m], listed[m])]
            BY <1>5, <2>3 DEF Advance
        <3>2. listed[m] \in Job /\ jobs[m] \in Job
            BY <1>5, <2>3 DEF Advance, TypeOK
        <3>3. jobs'[m] \in Job /\ jobs'[m].at > now
            <4>1. Advanced(jobs[m], listed[m]).at = NextRun(listed[m].period, now)
                BY <2>1, <3>2 DEF Advanced, Job
            <4>2. NextRun(listed[m].period, now) \in Nat /\ NextRun(listed[m].period, now) > now
                BY <3>2, NextAheadOfNow DEF Job
            <4>3. Advanced(jobs[m], listed[m]) \in Job
                BY <2>1, <3>2, <4>2 DEF Advanced, Job
            <4> QED BY <3>1, <4>1, <4>2, <4>3 DEF TypeOK
        <3>4. Fresh(m, jobs'[m])
            BY <3>3, AheadFresh DEF SlotsInv
        <3>5. \A n \in Jobs : n # m => jobs'[n] = jobs[n]
            BY <3>1 DEF TypeOK
        <3>6. \A n \in Jobs : jobs'[n] # NoJob => Fresh(n, jobs[n])'
            BY <1>1, <2>1, <3>4, <3>5 DEF SlotsInv, SlotInv, Fresh
        <3>7. \A n \in Jobs : Fresh(n, listed[n]) => Fresh(n, listed[n])'
            BY <1>1, <2>1, <3>1 DEF Fresh
        <3>8. SlotInv'
            BY <1>1, <2>1, <3>1, <3>3, <3>6, <3>7 DEF SlotsInv, SlotInv
        <3> QED BY <1>2, <2>1, <3>8 DEF SlotsInv
    <2> QED BY <2>2, <2>3
<1>6. CASE EndPass
    <2>1. UNCHANGED <<fired, jobs, listed>> /\ pc' = "idle" /\ listed = Nothing
        BY <1>6 DEF EndPass
    <2>2. SlotInv'
        BY <1>1, <2>1 DEF SlotsInv, SlotInv, Fresh, Nothing
    <2> QED BY <1>2, <2>1, <2>2 DEF SlotsInv
<1>7. CASE FireListed
    <2>1. cur \in Jobs /\ listed[cur] # NoJob /\ listed[cur] \in Job /\ pc = "fire"
        BY <1>7, SMTT(30) DEF FireListed, TypeOK
    <2> DEFINE s == listed[cur].at
    <2>2. /\ s \in Nat /\ s <= now /\ s \notin missed[cur] /\ now \in Nat
          /\ \A i \in DOMAIN fired[cur] : fired[cur][i] < s
        BY <2>1, ZenonT(30) DEF SlotsInv, SlotInv, Fresh, TypeOK, Job
    <2>3. /\ UNCHANGED <<jobs, passNow>> /\ pc' = "walk" /\ passNow = now
          /\ listed' = [listed EXCEPT ![cur] = NoJob]
        BY <1>7 DEF FireListed, SlotsInv, SlotInv
    <2>4. \A n \in Jobs : listed'[n] # NoJob => n # cur /\ listed'[n] = listed[n]
        BY <2>1, <2>3 DEF TypeOK
    <2>5. fired' = fired \/ fired' = [fired EXCEPT ![cur] = Append(fired[cur], s)]
        BY <1>7 DEF FireListed
    <2>6. /\ \A n \in Jobs : n # cur => fired'[n] = fired[n]
          /\ fired'[cur] = fired[cur] \/ fired'[cur] = Append(fired[cur], s)
        BY <2>1, <2>5 DEF TypeOK
    <2>7. fired[cur] \in Seq(Nat)
        BY <2>1 DEF TypeOK
    <2> HIDE DEF s
    <2>8. ASSUME NEW i \in DOMAIN fired'[cur]
          PROVE  \/ i \in DOMAIN fired[cur] /\ fired'[cur][i] = fired[cur][i]
                 \/ i = Len(fired[cur]) + 1 /\ fired'[cur][i] = s
        <3>1. CASE fired'[cur] = fired[cur]
            BY <3>1
        <3>2. CASE fired'[cur] = Append(fired[cur], s)
            BY <2>2, <2>7, <3>2
        <3> QED BY <2>6, <3>1, <3>2
    <2>9. /\ \A i \in DOMAIN fired'[cur] : fired'[cur][i] <= now
          /\ jobs[cur] # NoJob => \A i \in DOMAIN fired'[cur] : fired'[cur][i] < jobs[cur].at
        <3>1. \A i \in DOMAIN fired[cur] : fired[cur][i] <= now
            BY <2>1 DEF SlotsInv, SlotInv
        <3>2. jobs[cur] # NoJob => /\ jobs[cur].at \in Nat /\ jobs[cur].at > now
                                  /\ \A i \in DOMAIN fired[cur] : fired[cur][i] < jobs[cur].at
            BY <2>1, SMTT(30) DEF SlotsInv, SlotInv, Fresh, TypeOK, Job
        <3> QED BY <2>2, <2>8, <3>1, <3>2
    <2>10. \A n \in Jobs : jobs[n] # NoJob => Fresh(n, jobs[n])'
        BY <1>1, <2>3, <2>6, <2>9, ZenonT(30) DEF SlotsInv, SlotInv, Fresh
    <2>11. \A n \in Jobs : listed'[n] # NoJob => Fresh(n, listed[n])'
        BY <1>1, <2>4, <2>6, ZenonT(30) DEF SlotsInv, SlotInv, Fresh
    <2>12. SlotInv'
        BY <1>1, <2>1, <2>3, <2>4, <2>6, <2>9, <2>10, <2>11, ZenonT(30) DEF SlotsInv, SlotInv
    <2>13. SlotsOnce'
        <3>1. \A i, j \in DOMAIN fired'[cur] : i < j => fired'[cur][i] < fired'[cur][j]
            <4>1. \A i, j \in DOMAIN fired[cur] : i < j => fired[cur][i] < fired[cur][j]
                BY <2>1 DEF SlotsInv, SlotsOnce
            <4>2. \A i \in DOMAIN fired[cur] : i \in 1..Len(fired[cur])
                BY <2>7
            <4>3. Len(fired[cur]) \in Nat
                BY <2>7
            <4> QED BY <2>2, <2>8, <4>1, <4>2, <4>3
        <3> QED BY <2>6, <3>1, Zenon DEF SlotsInv, SlotsOnce
    <2>14. MissedNotMadeUp'
        BY <1>1, <2>2, <2>6, <2>8 DEF SlotsInv, MissedNotMadeUp
    <2> QED BY <2>12, <2>13, <2>14 DEF SlotsInv
<1> QED BY <1>3, <1>4, <1>5, <1>6, <1>7 DEF Pass

\* The end of the process empties the pass and the calls.
LEMMA DownSlots == ASSUME TypeOK, SlotsInv, Down PROVE SlotsInv'
<1>1. /\ UNCHANGED <<now, jobs, fired, missed>> /\ pc' = "idle" /\ listed' = Nothing
      /\ \A c \in Callers : calls'[c] = Idle
    BY DEF Down, processSame
<1>2. SlotInv'
    BY <1>1 DEF SlotsInv, SlotInv, Fresh, Nothing, Idle
<1>3. SlotsOnce' /\ MissedNotMadeUp'
    BY <1>1 DEF SlotsInv, SlotsOnce, MissedNotMadeUp
<1> QED BY <1>2, <1>3 DEF SlotsInv

\* The invariant is kept where calls and passes are short against a slot and
\* every schedule has slots.
LEMMA SlotsKept ==
    ASSUME ~SlowCalls, 0 \notin Periods
    PROVE  Spec => []SlotsInv
<1>1. Init => SlotsInv
    BY DEF Init, Nothing, Idle, SlotsInv, SlotInv, SlotsOnce, MissedNotMadeUp
<1>2. TypeOK /\ TypeOK' /\ SlotsInv /\ [Next]_vars => SlotsInv'
    <2> SUFFICES ASSUME TypeOK, TypeOK', SlotsInv, [Next]_vars PROVE SlotsInv'
        BY SMTT(30)
    <2>1. CASE UNCHANGED vars
        BY <2>1, StoreSteps, Zenon DEF vars, passVars, SlotsInv, SlotInv
    <2> QED BY <2>1, TickSlots, ApiSlots, PassSlots, DeliverSlots, DownSlots DEF Next
<1> QED BY <1>1, <1>2, TypeCorrect, PTL DEF Spec

\* Under the same conditions fireDue starts a name at most once for each slot,
\* in order, over any calls, deletions, new jobs of the name and restarts.
THEOREM SlotsFiredOnce ==
    ASSUME ~SlowCalls, 0 \notin Periods
    PROVE  Spec => []SlotsOnce
<1>1. SlotsInv => SlotsOnce
    BY DEF SlotsInv
<1> QED BY <1>1, SlotsKept, PTL

\* And it never starts a name for a slot that came while the job was paused:
\* ResumeJob puts the next run after the present, whatever the pause found.
THEOREM PausedSlotsSkipped ==
    ASSUME ~SlowCalls, 0 \notin Periods
    PROVE  Spec => []MissedNotMadeUp
<1>1. SlotsInv => MissedNotMadeUp
    BY DEF SlotsInv
<1> QED BY <1>1, SlotsKept, PTL
==============================================================================
