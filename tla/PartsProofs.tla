------------------------------ MODULE PartsProofs ------------------------------
(***************************************************************************)
(* Proofs about the smaller parts, each for every value of its constants:  *)
(* the supervisor, the coordinator of `up`, Memorystore's instances, the   *)
(* token bucket of a queue, batches and the retry schedule.                *)
(***************************************************************************)
EXTENDS RateBucket, RetrySchedule, TasksBatch, Supervisor, Lifecycle, MemorystoreInstances,
        SequenceTheorems, FiniteSetTheorems, TLAPS

(***************************************************************************)
(* The supervisor.  KilledForCause needs to know why a watcher may kill:   *)
(* each 503 it has counted in a row took a Period, the first came Grace    *)
(* after the start, and its timer runs with the child's age.               *)
(***************************************************************************)
Spent(f) == Grace + f * Period
WatchInv ==
    /\ age \in Nat
    /\ watch \in [on: BOOLEAN, wait: Nat, failed: Nat, kill: BOOLEAN]
    /\ watch.kill => age >= FirstKill
    /\ watch.on /\ ~watch.kill =>
          /\ watch.failed < Failures
          /\ age >= FirstKill \/ age + watch.wait >= Spent(watch.failed)

\* One more 503 takes one more Period; the count that kills is the last.
LEMMA CountedPeriods ==
    /\ Spent(0) = Grace
    /\ \A f \in Nat : Spent(f) \in Nat /\ Spent(f) >= Grace /\ Spent(f + 1) = Spent(f) + Period
    /\ FirstKill = Spent(Failures - 1) /\ FirstKill \in Nat
    /\ MaxAge >= FirstKill /\ MaxAge \in Nat
  <1>1. {Grace, Period, MinUptime} \subseteq Nat /\ Failures - 1 \in Nat
    BY SupervisorAssumption
  <1>2. \A f \in Nat : f * Period \in Nat /\ (f + 1) * Period = f * Period + Period
    BY <1>1
  <1>3. Spent(0) = Grace
    BY <1>1 DEF Spent
  <1>4. ASSUME NEW f \in Nat
        PROVE  Spent(f) \in Nat /\ Spent(f) >= Grace /\ Spent(f + 1) = Spent(f) + Period
    <2> DEFINE p == f * Period
    <2>1. p \in Nat /\ Spent(f) = Grace + p /\ Spent(f + 1) = Grace + (p + Period)
      BY <1>2 DEF Spent
    <2> HIDE DEF p
    <2> QED BY <1>1, <2>1
  <1>5. FirstKill = Spent(Failures - 1)
    BY DEF FirstKill, Spent
  <1>6. FirstKill \in Nat
    BY <1>1, <1>4, <1>5
  <1>7. MaxAge >= FirstKill /\ MaxAge \in Nat
    BY <1>1, <1>6 DEF MaxAge
  <1> QED BY <1>3, <1>4, <1>5, <1>6, <1>7

\* Every step of the loop, of the watchers and of time keeps it.
LEMMA WatchStep == WatchInv /\ [SupervisorNext]_supervisorVars => WatchInv'
  <1> SUFFICES ASSUME WatchInv, [SupervisorNext]_supervisorVars PROVE WatchInv'
    OBVIOUS
  <1> USE SupervisorAssumption, CountedPeriods DEF WatchInv
  <1>1. CASE StartChild
    BY <1>1 DEF StartChild
  <1>2. ASSUME UNCHANGED age, watch' = watch \/ watch' = NoWatch \/ StopWatch
        PROVE  WatchInv'
    <2>1. CASE watch' = watch
      BY <1>2, <2>1
    <2>2. CASE watch' = NoWatch
      BY <1>2, <2>2 DEF NoWatch
    <2>3. CASE watch.kill /\ watch' = [watch EXCEPT !.on = FALSE]
      BY <1>2, <2>3, Zenon
    <2> QED BY <1>2, <2>1, <2>2, <2>3 DEF StopWatch
  <1>3. CASE StartFails \/ Reaped \/ Restart \/ StopSeen \/ StopEnds \/ ChildEnds
             \/ WatcherKills \/ FrontTurns \/ AskStop
    BY <1>2, <1>3, Zenon DEF StartFails, Reaped, Restart, StopSeen, StopEnds, ChildEnds,
             WatcherKills, FrontTurns, AskStop
  <1>4. CASE Check
    <2>1. /\ watch.on /\ ~watch.kill /\ watch.wait = 0 /\ age' = age
          /\ \E f \in {0, watch.failed + 1} :
                watch' = [watch EXCEPT !.wait = Period, !.failed = f, !.kill = f >= Failures]
      BY <1>4, Zenon DEF Check
    <2>2. PICK f \in {0, watch.failed + 1} :
             watch' = [watch EXCEPT !.wait = Period, !.failed = f, !.kill = f >= Failures]
      BY <2>1, Zenon
    <2>3. /\ f \in Nat /\ watch'.wait = Period /\ watch'.failed = f
          /\ watch'.kill = (f >= Failures) /\ watch'.on \in BOOLEAN
      BY <2>2
    <2>4. watch' \in [on: BOOLEAN, wait: Nat, failed: Nat, kill: BOOLEAN]
      <3>1. CASE f >= Failures
        <4>1. watch' = [watch EXCEPT !.wait = Period, !.failed = f, !.kill = TRUE]
          BY <2>2, <3>1, Zenon
        <4> QED BY <2>3, <4>1, Zenon
      <3>2. CASE ~(f >= Failures)
        <4>1. (f >= Failures) = FALSE
          BY <3>2
        <4>2. watch' = [watch EXCEPT !.wait = Period, !.failed = f, !.kill = FALSE]
          BY <2>2, <4>1, Zenon
        <4> QED BY <2>3, <4>2, Zenon
      <3> QED BY <3>1, <3>2
    <2>5. watch.failed \in Nat /\ watch.failed < Failures
          /\ (age >= FirstKill \/ age >= Spent(watch.failed))
      BY <2>1
    <2>6. ASSUME f >= Failures PROVE age >= FirstKill
      <3>1. watch.failed = Failures - 1
        BY <2>2, <2>5, <2>6
      <3> QED BY <2>5, <3>1
    <2>7. age >= FirstKill \/ age + Period >= Spent(f)
      <3>1. Spent(watch.failed) \in Nat /\ Spent(watch.failed) >= Grace
            /\ Spent(watch.failed + 1) = Spent(watch.failed) + Period /\ Spent(0) = Grace
        BY <2>5
      <3>2. CASE f = 0
        BY <2>5, <3>1, <3>2
      <3>3. CASE f = watch.failed + 1
        BY <2>5, <3>1, <3>3
      <3> QED BY <2>2, <3>2, <3>3
    <2> QED BY <2>1, <2>3, <2>4, <2>6, <2>7
  <1>5. CASE SupervisorTick
    <2>1. /\ age' = IF age < MaxAge THEN age + 1 ELSE age
          /\ watch' = [watch EXCEPT !.wait = Less(@)]
      BY <1>5 DEF SupervisorTick
    <2>2. /\ Less(watch.wait) \in Nat /\ age' \in Nat /\ age' >= age
          /\ age >= FirstKill \/ age' + Less(watch.wait) >= age + watch.wait
      BY <2>1 DEF Less
    <2> QED BY <2>1, <2>2
  <1>6. CASE UNCHANGED supervisorVars
    BY <1>6 DEF supervisorVars
  <1> QED BY <1>1, <1>3, <1>4, <1>5, <1>6 DEF SupervisorNext, Supervise

(***************************************************************************)
(* Supervise and watch kill a child only for what its own watcher saw, or  *)
(* when it outlives StopTimeout: for any grace, period, number of failures *)
(* and delays, whatever children came before.                              *)
(***************************************************************************)
THEOREM SupervisorKills == SupervisorSpec => KilledForCause
  <1>1. SupervisorInit => WatchInv
    BY SupervisorAssumption DEF SupervisorInit, WatchInv, NoWatch
  <1>2. WatchInv /\ [SupervisorNext]_supervisorVars =>
           [(child = "running" /\ child' = "killed") =>
                age >= FirstKill \/ (sup = "stopping" /\ left = 0)]_supervisorVars
    <2> SUFFICES ASSUME WatchInv, SupervisorNext, child = "running", child' = "killed"
                 PROVE  age >= FirstKill \/ (sup = "stopping" /\ left = 0)
      OBVIOUS
    <2>1. CASE StopEnds
      BY <2>1 DEF StopEnds
    <2>2. CASE WatcherKills
      BY <2>2 DEF WatcherKills, Kill, WatchInv
    <2>3. CASE StartChild \/ StartFails \/ Reaped \/ Restart \/ StopSeen \/ ChildEnds
               \/ Check \/ FrontTurns \/ AskStop \/ SupervisorTick
      BY <2>3 DEF StartChild, StartFails, Reaped, Restart, StopSeen, ChildEnds, Check,
                  FrontTurns, AskStop, SupervisorTick
    <2> QED BY <2>1, <2>2, <2>3 DEF SupervisorNext, Supervise
  <1> QED BY <1>1, <1>2, WatchStep, PTL DEF SupervisorSpec, KilledForCause

------------------------------------------------------------------------------
(***************************************************************************)
(* For any number of components, however they are grouped, and any         *)
(* workers: a component has what it depends on up, `up` leaves nothing up, *)
(* and workers run only beside components that are up.                     *)
(*                                                                         *)
(* The invariant says what Coordinator.started is worth in each phase: an  *)
(* ascending list of exactly the components that are up (those recorded so *)
(* far, while a step is being recorded).  Stopping its last element then   *)
(* stops the greatest component that is up, on which no other depends.     *)
(***************************************************************************)

CallerSteps == {"start", "step", "unwind", "ready", "drain", "stop", "end"}

LifecycleType ==
    /\ caller \in CallerSteps
    /\ {first, past, noted} \subseteq 1..(N + 1)
    /\ comp \in [Components -> {"new", "starting", "up", "failed", "down"}]
    /\ started \in Seq(Components) /\ closing \in Seq(Components)
    /\ signalled \in BOOLEAN /\ timedOut \in BOOLEAN
    /\ work \in [Workers -> {"none", "running", "done"}]

Ascending(s) == \A p, q \in 1..Len(s) : p < q => s[p] < s[q]
Lists(s, i) == \E p \in 1..Len(s) : s[p] = i
ListsUp(s) == Ascending(s) /\ \A i \in Components : Lists(s, i) <=> comp[i] = "up"

Starting ==
    caller = "start" =>
        /\ ListsUp(started)
        /\ \A i \in Components : comp[i] = IF i < first THEN "up" ELSE "new"

Stepping ==
    caller = "step" =>
        /\ first <= N /\ EndsStep(first, past) /\ noted \in first..past
        /\ \A i \in Components :
              /\ i < first => comp[i] = "up"
              /\ first <= i /\ i < past => comp[i] \in {"starting", "up", "failed"}
              /\ i >= past => comp[i] = "new"
              /\ noted > first => comp[i] # "starting"
        /\ Ascending(started)
        /\ \A i \in Components : Lists(started, i) <=> (comp[i] = "up" /\ i < noted)

Running ==
    caller \in {"ready", "drain"} =>
        ListsUp(started) /\ \A i \in Components : comp[i] = "up"

Closing ==
    caller \in {"unwind", "stop"} =>
        ListsUp(closing) /\ \A i \in Components : comp[i] # "starting"

Working ==
    \A w \in Workers : work[w] = "running" => caller \in {"ready", "drain"} \/ timedOut

LifecycleInv ==
    /\ LifecycleType /\ Starting /\ Stepping /\ Running /\ Closing
    /\ NothingLeftUp /\ DependenciesUp /\ Working

\* Members of one step start together.
LEMMA StepTogether ==
    ASSUME NEW i \in Components, NEW j, EndsStep(i, j),
           NEW a \in i..(j - 1), NEW c \in i..(j - 1), a < c
    PROVE  Together(a, c)
<1>1. \A k \in i..(j - 1) : Groups[i] # 0 /\ Groups[k] = Groups[i]
  BY LifecycleAssumption DEF EndsStep, Components
<1>. QED  BY <1>1, LifecycleAssumption DEF Together, EndsStep, Components

\* Appending a component greater than the listed ones.
LEMMA AppendAscending ==
    ASSUME NEW s \in Seq(Components), NEW n \in Components, Ascending(s),
           \A i \in Components : Lists(s, i) => i < n
    PROVE  /\ Append(s, n) \in Seq(Components)
           /\ Ascending(Append(s, n))
           /\ \A i \in Components : Lists(Append(s, n), i) <=> (Lists(s, i) \/ i = n)
<1>1. \A p \in 1..Len(s) : s[p] \in Components /\ s[p] < n
  BY DEF Lists
<1>2. /\ Append(s, n) \in Seq(Components) /\ Len(Append(s, n)) = Len(s) + 1
      /\ Append(s, n)[Len(s) + 1] = n
      /\ \A p \in 1..Len(s) : Append(s, n)[p] = s[p]
  OBVIOUS
<1>3. Len(s) \in Nat
  OBVIOUS
<1>4. Ascending(Append(s, n))
  BY <1>1, <1>2, <1>3 DEF Ascending
<1>5. ASSUME NEW i \in Components
      PROVE  Lists(Append(s, n), i) <=> (Lists(s, i) \/ i = n)
  BY <1>2, <1>3 DEF Lists
<1>. QED  BY <1>2, <1>4, <1>5

\* A prefix of a sequence.
LEMMA Prefix ==
    ASSUME NEW S, NEW s \in Seq(S), NEW n \in 0..Len(s)
    PROVE  /\ SubSeq(s, 1, n) \in Seq(S) /\ Len(SubSeq(s, 1, n)) = n
           /\ \A p \in 1..n : SubSeq(s, 1, n)[p] = s[p]
<1>1. \A p \in 1..n : s[p] \in S
  OBVIOUS
<1>2. n \in Int /\ 1 \in Int
  OBVIOUS
<1>3. /\ SubSeq(s, 1, n) \in Seq(S)
      /\ Len(SubSeq(s, 1, n)) = IF 1 <= n THEN n - 1 + 1 ELSE 0
      /\ \A p \in 1..(n - 1 + 1) : SubSeq(s, 1, n)[p] = s[1 + p - 1]
  BY <1>1, <1>2, SubSeqProperties
<1>. QED  BY <1>3

\* Dropping the last element drops the greatest.
LEMMA DropLast ==
    ASSUME NEW s \in Seq(Components), NEW t \in Seq(Components), NEW m \in Components,
           s # <<>>, Ascending(s), t = SubSeq(s, 1, Len(s) - 1), m = s[Len(s)]
    PROVE  /\ Ascending(t)
           /\ \A i \in Components : Lists(t, i) <=> (Lists(s, i) /\ i # m)
           /\ \A i \in Components : Lists(s, i) => i <= m
<1>1. Len(s) \in Nat /\ Len(s) >= 1
  OBVIOUS
<1>2. /\ Len(t) = Len(s) - 1
      /\ \A p \in 1..(Len(s) - 1) : t[p] = s[p]
  <2>1. Len(s) - 1 \in 0..Len(s)
    BY <1>1
  <2>. QED  BY <2>1, Prefix, Zenon
<1>3. \A p \in 1..(Len(s) - 1) : s[p] < m
  BY <1>1 DEF Ascending
<1>4. Ascending(t)
  BY <1>1, <1>2 DEF Ascending
<1>5. ASSUME NEW i \in Components
      PROVE  /\ Lists(t, i) <=> (Lists(s, i) /\ i # m)
             /\ Lists(s, i) => i <= m
  BY <1>1, <1>2, <1>3, <1>5, SMTT(30) DEF Lists, Components
<1>. QED  BY <1>4, <1>5
------------------------------------------------------------------------------
\* The invariant holds when `up` begins.
LEMMA LifecycleInvInit == LifecycleInit => LifecycleInv
<1>. SUFFICES ASSUME LifecycleInit PROVE LifecycleInv
  BY Zenon
<1>1. LifecycleType
  <2>1. {first, past, noted} \subseteq 1..(N + 1)
    BY LifecycleAssumption DEF LifecycleInit
  <2>2. comp \in [Components -> {"new", "starting", "up", "failed", "down"}]
    BY Zenon DEF LifecycleInit
  <2>3. work \in [Workers -> {"none", "running", "done"}]
    BY Zenon DEF LifecycleInit
  <2>4. started \in Seq(Components) /\ closing \in Seq(Components)
    BY DEF LifecycleInit
  <2>. QED  BY <2>1, <2>2, <2>3, <2>4, Zenon DEF LifecycleInit, LifecycleType, CallerSteps
<1>2. Starting
  BY DEF LifecycleInit, Starting, ListsUp, Ascending, Lists, Components
<1>3. Stepping /\ Running /\ Closing /\ NothingLeftUp
  BY Zenon DEF LifecycleInit, Stepping, Running, Closing, NothingLeftUp
<1>4. DependenciesUp /\ Working
  BY Zenon DEF LifecycleInit, DependenciesUp, Working
<1>. QED  BY <1>1, <1>2, <1>3, <1>4 DEF LifecycleInv

\* A step begins.
LEMMA BeginStepInv ==
    ASSUME LifecycleInv, BeginStep PROVE LifecycleInv'
<1>. USE LifecycleAssumption
<1>1. /\ first \in Components /\ EndsStep(first, past') /\ past' \in (first + 1)..(N + 1)
      /\ noted' = first /\ first' = first /\ started' = started /\ caller' = "step"
  BY DEF BeginStep, LifecycleInv, LifecycleType, Components
<1>2. \A i \in Components :
         comp'[i] = IF i < first THEN "up" ELSE IF i < past' THEN "starting" ELSE "new"
  BY <1>1 DEF BeginStep, LifecycleInv, Starting, Components
<1>3. LifecycleType'
  BY <1>1 DEF BeginStep, LifecycleInv, LifecycleType, CallerSteps, Components
<1>4. Stepping'
  <2>1. Ascending(started')
    BY <1>1, Zenon DEF BeginStep, LifecycleInv, Starting, ListsUp
  <2>2. \A i \in Components : Lists(started', i) <=> i < first
    BY <1>1, Zenon DEF BeginStep, LifecycleInv, Starting, ListsUp
  <2>3. noted' \in first'..past' /\ first' <= N /\ EndsStep(first', past')
    BY <1>1 DEF Components
  <2>4. \A i \in Components :
           /\ i < first' => comp'[i] = "up"
           /\ first' <= i /\ i < past' => comp'[i] \in {"starting", "up", "failed"}
           /\ i >= past' => comp'[i] = "new"
           /\ Lists(started', i) <=> (comp'[i] = "up" /\ i < noted')
    <3>1. first \in Int /\ past' \in Int /\ first < past'
      BY <1>1 DEF Components
    <3>. SUFFICES ASSUME NEW i \in Components
                  PROVE  /\ i < first => comp'[i] = "up"
                         /\ first <= i /\ i < past' => comp'[i] = "starting"
                         /\ i >= past' => comp'[i] = "new"
                         /\ i < first <=> comp'[i] = "up"
      BY <1>1, <2>2, Zenon
    <3>2. comp'[i] = IF i < first THEN "up" ELSE IF i < past' THEN "starting" ELSE "new"
      BY <1>2, Zenon
    <3>3. i \in Int
      BY DEF Components
    <3>. QED  BY <3>1, <3>2, <3>3
  <2>5. ~(noted' > first')
    BY <1>1 DEF Components
  <2>. QED  BY <2>1, <2>3, <2>4, <2>5 DEF Stepping
<1>5. (Starting /\ Running /\ Closing /\ NothingLeftUp)'
  BY <1>1, Zenon DEF Starting, Running, Closing, NothingLeftUp
<1>6. DependenciesUp'
  <2>. SUFFICES ASSUME NEW a \in Components, NEW c \in Components, a < c, ~Together(a, c),
                       comp'[c] \in {"starting", "up"}
                PROVE  comp'[a] = "up"
    BY Zenon DEF DependenciesUp
  <2>1. c < past'
    BY <1>1, <1>2 DEF Components
  <2>2. a < first
    BY <1>1, <2>1, StepTogether DEF Components
  <2>. QED  BY <1>2, <2>2
<1>7. Working'
  BY Zenon DEF BeginStep, LifecycleInv, Working
<1>. QED  BY <1>3, <1>4, <1>5, <1>6, <1>7 DEF LifecycleInv

\* A component's Start returns: only while a step is under way.
LEMMA StartReturnsInv ==
    ASSUME LifecycleInv, NEW i \in Components, StartReturns(i) PROVE LifecycleInv'
<1>. USE LifecycleAssumption
<1>1. /\ caller = "step" /\ noted = first /\ first <= i /\ i < past
      /\ first \in Int /\ past \in Int
  <2>1. caller \notin {"start", "ready", "drain", "unwind", "stop", "end"}
    BY Zenon DEF StartReturns, LifecycleInv, Starting, Running, Closing, NothingLeftUp
  <2>2. caller = "step"
    BY <2>1, Zenon DEF LifecycleInv, LifecycleType, CallerSteps
  <2>3. /\ first \in Int /\ past \in Int /\ noted \in first..past /\ ~(noted > first)
    BY <2>2 DEF StartReturns, LifecycleInv, LifecycleType, Stepping
  <2>4. ~(i < first) /\ ~(i >= past)
    BY <2>2, Zenon DEF StartReturns, LifecycleInv, Stepping
  <2>. QED  BY <2>2, <2>3, <2>4 DEF Components
<1>2. PICK result \in {"up", "failed"} : comp' = [comp EXCEPT ![i] = result]
  BY Zenon DEF StartReturns
<1>3. LifecycleType'
  BY <1>2, Zenon DEF StartReturns, LifecycleInv, LifecycleType
<1>4. \A k \in Components : comp'[k] = IF k = i THEN result ELSE comp[k]
  BY <1>2, Zenon DEF LifecycleInv, LifecycleType
<1>5. Stepping'
  <2>1. \A k \in Components : Lists(started, k) <=> (comp[k] = "up" /\ k < first)
    BY <1>1, Zenon DEF LifecycleInv, Stepping
  <2>2. \A k \in Components : Lists(started, k) <=> (comp'[k] = "up" /\ k < first)
    BY <1>1, <1>4, <2>1 DEF Components
  <2>. QED  BY <1>1, <1>4, <2>2 DEF StartReturns, LifecycleInv, Stepping, Components
<1>6. (Starting /\ Running /\ Closing /\ NothingLeftUp)'
  BY <1>1, Zenon DEF StartReturns, Starting, Running, Closing, NothingLeftUp
<1>7. DependenciesUp'
  <2>. SUFFICES ASSUME NEW a \in Components, NEW c \in Components, a < c, ~Together(a, c),
                       comp'[c] \in {"starting", "up"}
                PROVE  comp'[a] = "up"
    BY Zenon DEF DependenciesUp
  <2>1. comp[c] \in {"starting", "up"}
    BY <1>4, Zenon DEF StartReturns
  <2>2. comp[a] = "up"
    BY <2>1, Zenon DEF LifecycleInv, DependenciesUp
  <2>. QED  BY <1>4, <2>2 DEF StartReturns
<1>8. Working'
  BY Zenon DEF StartReturns, LifecycleInv, Working
<1>. QED  BY <1>3, <1>5, <1>6, <1>7, <1>8 DEF LifecycleInv

\* A component of the step is recorded: later than those recorded already.
LEMMA RecordInv ==
    ASSUME LifecycleInv, Record PROVE LifecycleInv'
<1>. USE LifecycleAssumption
<1>1. /\ caller = "step" /\ first \in Int /\ past \in 1..(N + 1) /\ noted \in Components
      /\ first <= noted /\ noted < past
  BY DEF Record, LifecycleInv, LifecycleType, Stepping, Components
<1>2. /\ noted' = noted + 1 /\ first' = first /\ past' = past /\ comp' = comp
      /\ caller' = caller
      /\ \A i \in Components : comp[i] # "starting"
  BY Zenon DEF Record
<1>3. /\ started \in Seq(Components) /\ Ascending(started)
      /\ \A i \in Components : Lists(started, i) <=> (comp[i] = "up" /\ i < noted)
  BY <1>1, Zenon DEF LifecycleInv, LifecycleType, Stepping
<1>4. /\ started' \in Seq(Components) /\ Ascending(started')
      /\ \A i \in Components : Lists(started', i) <=> (comp[i] = "up" /\ i < noted + 1)
  <2>1. CASE comp[noted] = "up"
    <3>1. started' = Append(started, noted)
      BY <2>1, Zenon DEF Record
    <3>2. \A i \in Components : Lists(started, i) => i < noted
      BY <1>3, Zenon
    <3>3. /\ started' \in Seq(Components) /\ Ascending(started')
          /\ \A i \in Components : Lists(started', i) <=> (Lists(started, i) \/ i = noted)
      BY <1>1, <1>3, <3>1, <3>2, AppendAscending, Zenon
    <3>. QED  BY <1>1, <1>3, <2>1, <3>3 DEF Components
  <2>2. CASE comp[noted] # "up"
    <3>1. started' = started
      BY <2>2, Zenon DEF Record
    <3>. QED  BY <1>1, <1>3, <2>2, <3>1 DEF Components
  <2>. QED  BY <2>1, <2>2
<1>5. LifecycleType'
  BY <1>1, <1>2, <1>4 DEF Record, LifecycleInv, LifecycleType, Components
<1>6. Stepping'
  <2>1. noted' \in first'..past' /\ first' <= N /\ EndsStep(first', past')
    BY <1>1, <1>2 DEF LifecycleInv, Stepping, Components
  <2>. QED  BY <1>1, <1>2, <1>4, <2>1 DEF LifecycleInv, Stepping
<1>7. (Starting /\ Running /\ Closing /\ NothingLeftUp)'
  BY <1>1, <1>2, Zenon DEF Starting, Running, Closing, NothingLeftUp
<1>8. (DependenciesUp /\ Working)'
  BY <1>2, Zenon DEF Record, LifecycleInv, DependenciesUp, Working
<1>. QED  BY <1>5, <1>6, <1>7, <1>8 DEF LifecycleInv

\* The step is over.
LEMMA StepDoneInv ==
    ASSUME LifecycleInv, StepDone PROVE LifecycleInv'
<1>. USE LifecycleAssumption
<1>1. /\ caller = "step" /\ noted = past /\ comp' = comp /\ past' = past /\ noted' = noted
      /\ work' = work /\ timedOut' = timedOut /\ signalled' = signalled
      /\ first \in Components /\ past \in 1..(N + 1) /\ first < past
  BY DEF StepDone, LifecycleInv, LifecycleType, Stepping, Components, EndsStep
<1>2. /\ Ascending(started)
      /\ \A i \in Components : Lists(started, i) <=> (comp[i] = "up" /\ i < past)
      /\ \A i \in Components : comp[i] # "starting" /\ (i >= past => comp[i] = "new")
  BY <1>1, Zenon DEF LifecycleInv, Stepping, Components
<1>3. ListsUp(started)
  BY <1>1, <1>2 DEF ListsUp, Components
<1>4. (DependenciesUp /\ Working)'
  <2>1. DependenciesUp'
    BY <1>1, Zenon DEF LifecycleInv, DependenciesUp
  <2>2. Working'
    BY <1>1, Zenon DEF LifecycleInv, Working
  <2>. QED  BY <2>1, <2>2
<1>5. CASE \E i \in first..(past - 1) : comp[i] = "failed"
  <2>1. caller' = "unwind" /\ closing' = started /\ started' = <<>> /\ first' = first
    BY <1>5, Zenon DEF StepDone
  <2>2. LifecycleType'
    BY <1>1, <2>1 DEF LifecycleInv, LifecycleType, CallerSteps
  <2>3. Closing'
    BY <1>1, <1>2, <1>3, <2>1, Zenon DEF Closing, ListsUp
  <2>. QED
    BY <1>4, <2>1, <2>2, <2>3, Zenon
    DEF LifecycleInv, Starting, Stepping, Running, NothingLeftUp
<1>6. CASE ~\E i \in first..(past - 1) : comp[i] = "failed"
  <2>1. caller' = "start" /\ first' = past /\ closing' = closing /\ started' = started
    BY <1>6, Zenon DEF StepDone
  <2>2. LifecycleType'
    BY <1>1, <2>1, Zenon DEF LifecycleInv, LifecycleType, CallerSteps
  <2>3. \A i \in Components : i < past => comp[i] = "up"
    <3>. SUFFICES ASSUME NEW i \in Components, i < past, ~(i < first)
                  PROVE  comp[i] = "up"
      BY <1>1, Zenon DEF LifecycleInv, Stepping
    <3>1. comp[i] \in {"starting", "up", "failed"}
      BY <1>1 DEF LifecycleInv, Stepping, Components
    <3>2. i \in first..(past - 1)
      BY <1>1 DEF Components
    <3>. QED  BY <1>2, <1>6, <3>1, <3>2
  <2>4. Starting'
    <3>1. \A i \in Components : comp[i] = IF i < past THEN "up" ELSE "new"
      BY <1>1, <1>2, <2>3 DEF Components
    <3>. QED  BY <1>1, <1>3, <2>1, <3>1 DEF Starting, ListsUp
  <2>. QED
    BY <1>4, <2>1, <2>2, <2>4, Zenon
    DEF LifecycleInv, Closing, Stepping, Running, NothingLeftUp
<1>. QED  BY <1>5, <1>6

\* Components are closed from the last of those listed, the greatest that is up.
LEMMA StopNextInv ==
    ASSUME LifecycleInv, StopNext PROVE LifecycleInv'
<1>. USE LifecycleAssumption
<1>0. PICK m : m = closing[Len(closing)]
  BY Zenon
<1>1. /\ caller \in {"unwind", "stop"} /\ closing # <<>> /\ caller' = caller
      /\ comp' = [comp EXCEPT ![m] = "down"]
      /\ closing' = SubSeq(closing, 1, Len(closing) - 1)
  BY <1>0, Zenon DEF StopNext
<1>2. /\ closing \in Seq(Components) /\ Ascending(closing)
      /\ \A i \in Components : Lists(closing, i) <=> comp[i] = "up"
      /\ \A i \in Components : comp[i] # "starting"
  BY <1>1, Zenon DEF LifecycleInv, LifecycleType, Closing, ListsUp
<1>3. /\ closing' \in Seq(Components) /\ m \in Components /\ Ascending(closing')
      /\ \A i \in Components : Lists(closing', i) <=> (Lists(closing, i) /\ i # m)
      /\ \A i \in Components : Lists(closing, i) => i <= m
  <2>1. Len(closing) \in Nat /\ Len(closing) - 1 \in 0..Len(closing)
    BY <1>1, <1>2
  <2>2. closing' \in Seq(Components)
    BY <1>1, <1>2, <2>1, Prefix, Zenon
  <2>3. m \in Components
    BY <1>0, <1>1, <1>2, <2>1
  <2>. QED  BY <1>0, <1>1, <1>2, <2>2, <2>3, DropLast, ZenonT(30)
<1>4. \A i \in Components : comp'[i] = IF i = m THEN "down" ELSE comp[i]
  BY <1>1, <1>3, Zenon DEF LifecycleInv, LifecycleType
<1>5. LifecycleType'
  BY <1>1, <1>3, Zenon DEF StopNext, LifecycleInv, LifecycleType
<1>6. Closing'
  BY <1>1, <1>2, <1>3, <1>4 DEF Closing, ListsUp
<1>7. DependenciesUp'
  <2>. SUFFICES ASSUME NEW a \in Components, NEW c \in Components, a < c, ~Together(a, c),
                       comp'[c] \in {"starting", "up"}
                PROVE  comp'[a] = "up"
    BY Zenon DEF DependenciesUp
  <2>1. comp[c] \in {"starting", "up"} /\ c <= m
    BY <1>2, <1>3, <1>4, Zenon
  <2>2. comp[a] = "up" /\ a # m
    BY <1>3, <2>1 DEF LifecycleInv, DependenciesUp, Components
  <2>. QED  BY <1>4, <2>2
<1>8. Working'
  BY Zenon DEF StopNext, LifecycleInv, Working
<1>. QED
  BY <1>1, <1>5, <1>6, <1>7, <1>8, Zenon
  DEF LifecycleInv, Starting, Stepping, Running, NothingLeftUp

\* The steps that leave the components and the lists alone, or hand one list
\* over to be closed.
LEMMA OtherStepsInv ==
    ASSUME LifecycleInv,
           \/ StartCancelled \/ BecomeReady \/ (\E w \in Workers : RegisterWorker(w))
           \/ StopBegins \/ Drained \/ Ended
           \/ (\E w \in Workers : WorkerReturns(w)) \/ Signal
           \/ UNCHANGED lifecycleVars
    PROVE  LifecycleInv'
<1>. USE LifecycleAssumption
<1>1. comp' = comp /\ past' = past /\ first' = first /\ noted' = noted
  BY Zenon DEF StartCancelled, BecomeReady, RegisterWorker, StopBegins, Drained, Ended,
         WorkerReturns, Signal, lifecycleVars
<1>2. DependenciesUp'
  BY <1>1, Zenon DEF LifecycleInv, DependenciesUp
<1>3. CASE StartCancelled
  <2>1. LifecycleType'
    BY <1>3 DEF StartCancelled, LifecycleInv, LifecycleType, CallerSteps
  <2>2. Closing'
    <3>1. \A i \in Components : comp[i] \in {"up", "new"}
      BY <1>3, Zenon DEF StartCancelled, LifecycleInv, Starting
    <3>. QED  BY <1>1, <1>3, <3>1 DEF StartCancelled, LifecycleInv, Starting, Closing, ListsUp
  <2>3. Working'
    BY <1>3, Zenon DEF StartCancelled, LifecycleInv, Working
  <2>. QED
    BY <1>2, <1>3, <2>1, <2>2, <2>3, Zenon
    DEF StartCancelled, LifecycleInv, Starting, Stepping, Running, NothingLeftUp
<1>4. CASE BecomeReady
  <2>1. LifecycleType'
    BY <1>4, Zenon DEF BecomeReady, LifecycleInv, LifecycleType, CallerSteps
  <2>2. Running'
    <3>1. \A i \in Components : i < first
      BY <1>4 DEF BecomeReady, Components
    <3>2. \A i \in Components : comp[i] = "up"
      BY <1>4, <3>1, Zenon DEF BecomeReady, LifecycleInv, Starting
    <3>. QED
      BY <1>1, <1>4, <3>2, Zenon DEF BecomeReady, LifecycleInv, Starting, Running, ListsUp
  <2>. QED
    BY <1>2, <1>4, <2>1, <2>2, Zenon
    DEF BecomeReady, LifecycleInv, Starting, Stepping, Closing, NothingLeftUp, Working
<1>5. CASE \/ (\E w \in Workers : RegisterWorker(w)) \/ StopBegins
           \/ (\E w \in Workers : WorkerReturns(w)) \/ Signal \/ UNCHANGED lifecycleVars
  <2>1. /\ started' = started /\ closing' = closing /\ timedOut' = timedOut
        /\ caller' = caller \/ (caller = "ready" /\ caller' = "drain")
    BY <1>5, Zenon DEF RegisterWorker, StopBegins, WorkerReturns, Signal, lifecycleVars
  <2>2. LifecycleType'
    <3>1. work' \in [Workers -> {"none", "running", "done"}]
      BY <1>5, Zenon DEF RegisterWorker, StopBegins, WorkerReturns, Signal, lifecycleVars,
                  LifecycleInv, LifecycleType
    <3>2. signalled' \in BOOLEAN
      BY <1>5, Zenon DEF RegisterWorker, StopBegins, WorkerReturns, Signal, lifecycleVars,
                  LifecycleInv, LifecycleType
    <3>. QED  BY <1>1, <2>1, <3>1, <3>2 DEF LifecycleInv, LifecycleType, CallerSteps
  <2>3. Starting' /\ Stepping'
    BY <1>1, <2>1, Zenon DEF LifecycleInv, Starting, Stepping, ListsUp
  <2>4. Running' /\ Closing' /\ NothingLeftUp'
    BY <1>1, <2>1, Zenon DEF LifecycleInv, Running, Closing, NothingLeftUp, ListsUp
  <2>5. Working'
    <3>. SUFFICES ASSUME NEW w \in Workers, work'[w] = "running"
                  PROVE  caller' \in {"ready", "drain"} \/ timedOut'
      BY Zenon DEF Working
    <3>1. work[w] = "running" \/ caller' = "ready"
      BY <1>5, Zenon DEF RegisterWorker, StopBegins, WorkerReturns, Signal, lifecycleVars,
                  LifecycleInv, LifecycleType
    <3>. QED  BY <2>1, <3>1 DEF LifecycleInv, Working
  <2>. QED  BY <1>2, <2>2, <2>3, <2>4, <2>5 DEF LifecycleInv
<1>6. CASE Drained
  <2>1. LifecycleType'
    <3>1. timedOut' \in BOOLEAN
      BY <1>6, Zenon DEF Drained, LifecycleInv, LifecycleType
    <3>2. /\ caller' = "stop" /\ closing' = started /\ started' = <<>>
          /\ signalled' = signalled /\ work' = work
      BY <1>6, Zenon DEF Drained
    <3>. QED  BY <1>1, <3>1, <3>2 DEF LifecycleInv, LifecycleType, CallerSteps
  <2>2. Closing'
    BY <1>1, <1>6, Zenon DEF Drained, LifecycleInv, Running, Closing, ListsUp
  <2>3. Working'
    BY <1>6, Zenon DEF Drained, LifecycleInv, Working
  <2>. QED
    BY <1>2, <1>6, <2>1, <2>2, <2>3, Zenon
    DEF Drained, LifecycleInv, Starting, Stepping, Running, NothingLeftUp
<1>7. CASE Ended
  <2>1. LifecycleType'
    BY <1>7, Zenon DEF Ended, LifecycleInv, LifecycleType, CallerSteps
  <2>2. NothingLeftUp'
    <3>1. \A i \in Components : ~Lists(closing, i)
      BY <1>7 DEF Ended, Lists
    <3>. QED  BY <1>1, <1>7, <3>1 DEF Ended, LifecycleInv, Closing, ListsUp, NothingLeftUp
  <2>3. Working'
    BY <1>7, Zenon DEF Ended, LifecycleInv, Working
  <2>. QED
    BY <1>2, <1>7, <2>1, <2>2, <2>3, Zenon
    DEF Ended, LifecycleInv, Starting, Stepping, Running, Closing
<1>. QED  BY <1>3, <1>4, <1>5, <1>6, <1>7

\* The invariant holds of every behaviour of `up`.
LEMMA LifecycleInvariant == LifecycleSpec => []LifecycleInv
<1>1. LifecycleInv /\ [LifecycleNext]_lifecycleVars => LifecycleInv'
  BY BeginStepInv, StartReturnsInv, RecordInv, StepDoneInv, StopNextInv, OtherStepsInv, Zenon
  DEF LifecycleNext, CallerStep, SomeStartReturns
<1>. QED  BY <1>1, LifecycleInvInit, PTL DEF LifecycleSpec

\* A component that is starting or up has everything registered before it, but
\* for its own group, up: for any components and groups.
THEOREM LifecycleDependencies == LifecycleSpec => []DependenciesUp
<1>1. LifecycleInv => DependenciesUp
  BY Zenon DEF LifecycleInv
<1>. QED  BY <1>1, LifecycleInvariant, PTL

\* When `up` ends no component is left up: for any components and groups.
THEOREM LifecycleUnwinds == LifecycleSpec => []NothingLeftUp
<1>1. LifecycleInv => NothingLeftUp
  BY Zenon DEF LifecycleInv
<1>. QED  BY <1>1, LifecycleInvariant, PTL

\* A worker that runs within the drain window has every component up: for any
\* components, groups and workers.
THEOREM LifecycleWorkers == LifecycleSpec => []WorkersHaveComponents
<1>1. LifecycleInv => WorkersHaveComponents
  BY Zenon DEF LifecycleInv, Working, Running, WorkersHaveComponents
<1>. QED  BY <1>1, LifecycleInvariant, PTL

------------------------------------------------------------------------------
(***************************************************************************)
(* For any number of creations, operations and events: the busy mark       *)
(* always has a goroutine that will clear it, an operation that has ended  *)
(* stays as it ended, and as long as nothing has run beside the mark the   *)
(* instance, its record and its server agree when no goroutine is left.    *)
(***************************************************************************)

USE MemorystoreAssumption

Instances == [id: 1..MaxCreated, suspended: BOOLEAN,
              state: {"CREATING", "READY", "STOPPED", "REPAIRING", "DELETING", "IMPORTING"}]

MemorystoreTypes ==
    /\ MemorystoreTypeOK
    /\ created \in 0..MaxCreated /\ overlapped \in BOOLEAN /\ keyUsable \in BOOLEAN

\* Operations are made in order.
OperationsInOrder ==
    \E k \in 0..MaxOps : \A o \in 1..MaxOps : ops[o] # "none" <=> o <= k

\* The operation that Create makes is the first that has not been made.
LEMMA NextIsFirst ==
    ASSUME NEW k \in 0..MaxOps, \A o \in 1..MaxOps : ops[o] # "none" <=> o <= k
    PROVE  NextOp = k + 1
<1>1. {o \in 1..MaxOps : ops[o] # "none"} = 1..k
  OBVIOUS
<1>2. Cardinality(1..k) = k
  BY FS_Interval
<1>. QED  BY <1>1, <1>2, Zenon DEF NextOp

\* A new operation has a name of its own.
LEMMA NewOpFresh ==
    ASSUME MemorystoreTypeOK, OperationsInOrder, NEW st, NewOp(st)
    PROVE  /\ NextOp \in 1..MaxOps /\ ops[NextOp] = "none"
           /\ ops' = [ops EXCEPT ![NextOp] = st]
           /\ st # "none" => OperationsInOrder'
<1>1. PICK k \in 0..MaxOps : \A o \in 1..MaxOps : ops[o] # "none" <=> o <= k
  BY Zenon DEF OperationsInOrder
<1>2. NextOp = k + 1
  BY <1>1, NextIsFirst, Zenon
<1>3. NextOp \in 1..MaxOps /\ ops[NextOp] = "none"
  BY <1>1, <1>2 DEF NewOp
<1>4. ops' = [ops EXCEPT ![NextOp] = st] /\ ops \in [1..MaxOps -> {"none", "pending",
                                                        "succeeded", "failed", "deleted"}]
  BY Zenon DEF NewOp, MemorystoreTypeOK
<1>5. ASSUME st # "none" PROVE OperationsInOrder'
  <2>1. \A o \in 1..MaxOps : ops'[o] # "none" <=> o <= k + 1
    BY <1>1, <1>2, <1>3, <1>4, <1>5
  <2>. QED  BY <1>2, <1>3, <2>1 DEF OperationsInOrder
<1>. QED  BY <1>3, <1>4, <1>5

\* What finish does to the operations.
LEMMA SettledOps ==
    ASSUME MemorystoreTypeOK, NEW o, NEW st \in {"succeeded", "failed"},
           ops' = Settled(o, st)
    PROVE  /\ ops' \in [1..MaxOps -> {"none", "pending", "succeeded", "failed", "deleted"}]
           /\ \A p \in 1..MaxOps : ops'[p] = ops[p] \/ (ops[p] = "pending" /\ ops'[p] = st)
BY Zenon DEF Settled, MemorystoreTypeOK

\* What a call may do to the operations, and a worker.
OpsStep ==
    \/ UNCHANGED ops
    \/ \E st \in {"pending", "succeeded"} : NewOp(st)
    \/ \E o \in {Unnamed} \cup 0..MaxOps, st \in {"succeeded", "failed"} :
          ops' = Settled(o, st)
    \/ \E o \in 1..MaxOps : ops[o] # "none" /\ ops' = [ops EXCEPT ![o] = "deleted"]
    \/ ops' = [o \in 1..MaxOps |-> IF ops[o] = "none" THEN "none" ELSE "deleted"]

\* Every step is one of these.
LEMMA StepsOps ==
    ASSUME MemorystoreTypeOK, [MemorystoreNext]_memorystoreVars PROVE OpsStep
<1>1. CASE Locks
  BY <1>1, Zenon DEF Locks, DeleteInstance, UpdateInstance, ExportOrImport, RotateServerCA, Refused,
              OpsStep
<1>2. ASSUME NEW w \in workers, WorkerStep(w) PROVE OpsStep
  <2>0. w.op \in {Unnamed} \cup 0..MaxOps
    BY Zenon DEF MemorystoreTypeOK, Worker
  <2>1. CASE Finishes(w)
    BY <2>0, <2>1, Zenon DEF Finishes, OpsStep
  <2>2. CASE ResetFails(w)
    BY <2>0, <2>2, Zenon DEF ResetFails, OpsStep
  <2>3. CASE ~Finishes(w) /\ ~ResetFails(w)
    BY <1>2, <2>3, Zenon DEF WorkerStep, Provisions, RunSettles, Removes, DeleteSettles, Transfers,
                      TransferSettles, ResetForgets, Suspends, OpsStep
  <2>. QED  BY <2>1, <2>2, <2>3
<1>3. CASE DeleteOperation
  BY <1>3, Zenon DEF DeleteOperation, OpsStep
<1>4. CASE Stops \/ Panics
  BY <1>4, Zenon DEF Stops, Panics, Restored, OpsStep
<1>5. CASE CreateInstance
  BY <1>5, Zenon DEF CreateInstance, OpsStep
<1>6. CASE \/ Find \/ LocksNothing \/ ResetProject \/ AsksKey \/ ActsOnKey \/ KeyFlips
           \/ UNCHANGED memorystoreVars
  BY <1>6, Zenon DEF Find, LocksNothing, ResetProject, AsksKey, ActsOnKey, KeyFlips,
              memorystoreVars, OpsStep
<1>. QED  BY <1>1, <1>2, <1>3, <1>4, <1>5, <1>6 DEF MemorystoreNext

\* What a step does to operations: they keep their order, and one that has
\* ended stays as it ended until it is deleted.
LEMMA OpsStepKeeps ==
    ASSUME MemorystoreTypeOK, OperationsInOrder, OpsStep
    PROVE  /\ OperationsInOrder'
           /\ ops' \in [1..MaxOps -> {"none", "pending", "succeeded", "failed", "deleted"}]
           /\ \A o \in 1..MaxOps :
                 ops[o] \in {"succeeded", "failed"} => ops'[o] \in {ops[o], "deleted"}
<1>. DEFINE States == {"none", "pending", "succeeded", "failed", "deleted"}
<1>0. ops \in [1..MaxOps -> States]
  BY Zenon DEF MemorystoreTypeOK
<1>1. CASE \E st \in {"pending", "succeeded"} : NewOp(st)
  BY <1>0, <1>1, NewOpFresh, Zenon
<1>2. CASE ~\E st \in {"pending", "succeeded"} : NewOp(st)
  <2>1. /\ ops' \in [1..MaxOps -> States]
        /\ \A o \in 1..MaxOps :
              /\ ops[o] = "none" <=> ops'[o] = "none"
              /\ ops[o] \in {"succeeded", "failed"} => ops'[o] \in {ops[o], "deleted"}
    <3>1. CASE UNCHANGED ops
      BY <1>0, <3>1, Zenon
    <3>2. CASE \E o \in {Unnamed} \cup 0..MaxOps, st \in {"succeeded", "failed"} :
                  ops' = Settled(o, st)
      BY <1>0, <3>2, SettledOps, Zenon
    <3>3. CASE \E o \in 1..MaxOps : ops[o] # "none" /\ ops' = [ops EXCEPT ![o] = "deleted"]
      BY <1>0, <3>3, Zenon
    <3>4. CASE ops' = [o \in 1..MaxOps |-> IF ops[o] = "none" THEN "none" ELSE "deleted"]
      BY <1>0, <3>4, Zenon
    <3>. QED  BY <1>2, <3>1, <3>2, <3>3, <3>4 DEF OpsStep
  <2>. QED  BY <2>1, Zenon DEF OperationsInOrder
<1>. QED  BY <1>1, <1>2
------------------------------------------------------------------------------
\* A new goroutine, and one that goes on, are goroutines.
LEMMA StartType ==
    ASSUME NEW kind \in {"run", "delete", "io", "remove", "suspend", "reset"},
           NEW o \in {Unnamed} \cup 0..MaxOps, NEW id \in 1..MaxCreated
    PROVE  Start(kind, o, id) \in Worker
BY SMTT(30) DEF Start, Worker

LEMMA AtType ==
    ASSUME NEW w \in Worker, NEW pc \in {"work", "settle", "finish", "fail", "forget"}
    PROVE  /\ At(w, pc) \in Worker
           /\ \A ok \in BOOLEAN : [At(w, pc) EXCEPT !.ok = ok] \in Worker
BY Zenon DEF At, Worker

\* Calls keep the types.
LEMMA CallsType ==
    ASSUME MemorystoreTypes, OperationsInOrder, CreateInstance \/ Locks
    PROVE  /\ inst' = NoInstance \/ inst' \in Instances
           /\ workers' \subseteq Worker
           /\ kept' \in 0..MaxCreated /\ busy' \in {Unnamed} \cup 0..MaxOps
           /\ created' \in 0..MaxCreated
<1>. USE DEF MemorystoreTypes
<1>0. /\ inst = NoInstance \/ inst \in Instances
      /\ workers \subseteq Worker
      /\ kept \in 0..MaxCreated /\ busy \in {Unnamed} \cup 0..MaxOps
      /\ created \in 0..MaxCreated
  BY Zenon DEF MemorystoreTypeOK, Instances
<1>1. ASSUME NEW st, NewOp(st) PROVE NextOp \in 1..MaxOps
  BY <1>1, NewOpFresh, Zenon
<1>2. CASE CreateInstance
  <2>1. NextOp \in 1..MaxOps /\ created + 1 \in 1..MaxCreated
    BY <1>0, <1>1, <1>2 DEF CreateInstance
  <2>2. Start("run", NextOp, created + 1) \in Worker
    BY <2>1, StartType
  <2>3. inst' \in Instances
    BY <1>2, <2>1, Zenon DEF CreateInstance, Instances
  <2>. QED  BY <1>0, <1>2, <2>1, <2>2, <2>3 DEF CreateInstance
<1>3. CASE Locks
  <2>0. inst \in Instances /\ inst.id \in 1..MaxCreated /\ created' = created
    BY <1>0, <1>3, Zenon DEF Locks, Instances, counts
  <2>1. CASE Refused
    BY <1>0, <2>0, <2>1, Zenon DEF Refused
  <2>2. CASE DeleteInstance /\ ~Refused
    <3>1. NextOp \in 1..MaxOps
      BY <1>1, <2>2, Zenon DEF DeleteInstance
    <3>2. Start("delete", NextOp, inst.id) \in Worker
      BY <2>0, <3>1, StartType
    <3>3. inst' \in Instances
      BY <2>0, <2>2, Zenon DEF DeleteInstance, Instances
    <3>. QED  BY <1>0, <2>0, <2>2, <3>1, <3>2, <3>3 DEF DeleteInstance
  <2>3. CASE UpdateInstance
    BY <1>0, <2>0, <2>3 DEF UpdateInstance, Refused
  <2>4. ASSUME NEW verb \in {"export", "import"}, ExportOrImport(verb), ~Refused
        PROVE  /\ inst' \in Instances /\ workers' \subseteq Worker
               /\ kept' = kept /\ busy' \in 1..MaxOps
    <3>1. NextOp \in 1..MaxOps
      BY <1>1, <2>4, Zenon DEF ExportOrImport
    <3>2. Start("io", NextOp, inst.id) \in Worker
      BY <2>0, <3>1, StartType
    <3>3. inst' \in Instances
      BY <2>0, <2>4, Zenon DEF ExportOrImport, Instances
    <3>. QED  BY <1>0, <2>0, <2>4, <3>1, <3>2, <3>3 DEF ExportOrImport
  <2>5. CASE RotateServerCA /\ ~Refused
    <3>1. Start("run", 0, inst.id) \in Worker
      BY <2>0, StartType
    <3>. QED  BY <1>0, <2>0, <2>5, <3>1 DEF RotateServerCA
  <2>. QED  BY <1>0, <1>3, <2>0, <2>1, <2>2, <2>3, <2>4, <2>5 DEF Locks
<1>. QED  BY <1>2, <1>3

\* So do the goroutines.
LEMMA WorkersType ==
    ASSUME MemorystoreTypes, NEW w \in workers, WorkerStep(w)
    PROVE  /\ inst' = NoInstance \/ inst' \in Instances
           /\ workers' \subseteq Worker
           /\ kept' \in 0..MaxCreated /\ busy' \in {Unnamed} \cup 0..MaxOps
           /\ serving' \in 0..MaxCreated
<1>. USE DEF MemorystoreTypes
<1>0. /\ inst = NoInstance \/ inst \in Instances
      /\ workers \subseteq Worker /\ w \in Worker
      /\ kept \in 0..MaxCreated /\ busy \in {Unnamed} \cup 0..MaxOps
      /\ serving \in 0..MaxCreated
  BY Zenon DEF MemorystoreTypeOK, Instances
<1>1. w.id \in 1..MaxCreated /\ w.ok \in BOOLEAN
  BY <1>0, Zenon DEF Worker
<1>2. /\ \A pc \in {"work", "settle", "finish", "fail", "forget"} : At(w, pc) \in Worker
      /\ \A pc \in {"work", "settle", "finish", "fail", "forget"}, ok \in BOOLEAN :
            [At(w, pc) EXCEPT !.ok = ok] \in Worker
  BY <1>0, AtType, Zenon
<1>3. inst # NoInstance =>
         \A st \in {"READY", "STOPPED"} : [inst EXCEPT !.state = st] \in Instances
  BY <1>0, Zenon DEF Instances
<1>4. CASE Provisions(w)
  <2>1. serving' \in 0..MaxCreated
    BY <1>0, <1>1, <1>4 DEF Provisions
  <2>2. \E then \in Worker : Moves(w, then)
    BY <1>2, <1>4, Zenon DEF Provisions
  <2>. QED  BY <1>0, <1>4, <2>1, <2>2 DEF Provisions, Moves
<1>5. CASE RunSettles(w)
  <2>1. inst' = NoInstance \/ inst' \in Instances
    BY <1>3, <1>5, Zenon DEF RunSettles
  <2>2. inst # NoInstance => Start("remove", 0, inst.id) \in Worker
    <3>1. inst # NoInstance => inst.id \in 1..MaxCreated
      BY <1>0, Zenon DEF Instances
    <3>. QED  BY <3>1, StartType
  <2>3. workers' \subseteq Worker
    BY <1>0, <1>2, <1>5, <2>2, Zenon DEF RunSettles
  <2>. QED  BY <1>0, <1>5, <2>1, <2>3 DEF RunSettles, Unmark
<1>6. CASE Removes(w)
  <2>1. serving' \in 0..MaxCreated
    BY <1>0, <1>6 DEF Removes
  <2>2. Exits(w) \/ \E then \in Worker : Moves(w, then)
    BY <1>2, <1>6, Zenon DEF Removes
  <2>. QED  BY <1>0, <1>6, <2>1, <2>2 DEF Removes, Moves, Exits
<1>7. CASE DeleteSettles(w)
  <2>1. inst.id = w.id => inst # NoInstance
    BY <1>1 DEF NoInstance
  <2>2. inst' = NoInstance \/ inst' \in Instances
    BY <1>0, <1>3, <1>7, <2>1, Zenon DEF DeleteSettles
  <2>. QED  BY <1>0, <1>2, <1>7, <2>2 DEF DeleteSettles, Moves, Unmark
<1>8. CASE Transfers(w)
  BY <1>0, <1>2, <1>8, Zenon DEF Transfers, Moves
<1>9. CASE TransferSettles(w)
  <2>1. inst' = NoInstance \/ inst' \in Instances
    BY <1>0, <1>3, <1>9, Zenon DEF TransferSettles
  <2>. QED  BY <1>0, <1>2, <1>9, <2>1 DEF TransferSettles, Moves, Unmark
<1>10. CASE Finishes(w) \/ ResetForgets(w) \/ Suspends(w)
  BY <1>0, <1>10 DEF Finishes, ResetForgets, Suspends, Exits
<1>11. CASE ResetFails(w)
  BY <1>0, <1>2, <1>11, Zenon DEF ResetFails, Moves
<1>. QED  BY <1>4, <1>5, <1>6, <1>7, <1>8, <1>9, <1>10, <1>11 DEF WorkerStep

\* And everything else.
LEMMA OthersType ==
    ASSUME MemorystoreTypes,
           \/ Find \/ LocksNothing \/ DeleteOperation \/ ResetProject \/ AsksKey
           \/ ActsOnKey \/ KeyFlips \/ Stops \/ Panics \/ UNCHANGED memorystoreVars
    PROVE  /\ inst' = NoInstance \/ inst' \in Instances
           /\ workers' \subseteq Worker
           /\ kept' \in 0..MaxCreated /\ busy' \in {Unnamed} \cup 0..MaxOps
           /\ serving' \in 0..MaxCreated
<1>. USE DEF MemorystoreTypes
<1>0. /\ inst = NoInstance \/ inst \in Instances
      /\ workers \subseteq Worker
      /\ kept \in 0..MaxCreated /\ busy \in {Unnamed} \cup 0..MaxOps
      /\ serving \in 0..MaxCreated
      /\ inst # NoInstance => inst.id \in 1..MaxCreated
  BY Zenon DEF MemorystoreTypeOK, Instances
<1>1. CASE \/ Find \/ LocksNothing \/ DeleteOperation \/ AsksKey \/ KeyFlips
           \/ UNCHANGED memorystoreVars
  <2>1. UNCHANGED <<inst, workers, kept, busy, serving>>
    <3>1. CASE Find \/ LocksNothing
      BY <3>1, Zenon DEF Find, LocksNothing
    <3>2. CASE DeleteOperation
      BY <3>2, Zenon DEF DeleteOperation
    <3>3. CASE AsksKey \/ KeyFlips
      BY <3>3, Zenon DEF AsksKey, KeyFlips
    <3>4. CASE UNCHANGED memorystoreVars
      BY <3>4, Zenon DEF memorystoreVars
    <3>. QED  BY <1>1, <3>1, <3>2, <3>3, <3>4, Zenon
  <2>. QED  BY <1>0, <2>1, Zenon
<1>2. CASE ResetProject
  <2>1. Start("reset", busy, inst.id) \in Worker
    BY <1>0, <1>2, StartType, Zenon DEF ResetProject
  <2>2. /\ inst' = NoInstance /\ busy' = 0 /\ UNCHANGED <<kept, serving>>
        /\ workers' = workers \cup {Start("reset", busy, inst.id)}
    BY <1>2, Zenon DEF ResetProject
  <2>3. workers' \subseteq Worker
    BY <1>0, <2>1, <2>2, Zenon
  <2>4. busy' \in {Unnamed} \cup 0..MaxOps
    BY <2>2
  <2>. QED  BY <1>0, <2>2, <2>3, <2>4, Zenon
<1>3. CASE ActsOnKey
  <2>1. CASE UNCHANGED <<inst, busy, workers, overlapped>>
    BY <1>0, <1>3, <2>1, Zenon DEF ActsOnKey
  <2>2. CASE inst # NoInstance /\ ~UNCHANGED <<inst, busy, workers, overlapped>>
    <3>1. /\ Start("suspend", 0, inst.id) \in Worker /\ Start("run", 0, inst.id) \in Worker
      BY <1>0, <2>2, StartType
    <3>2. inst' \in Instances
      BY <1>0, <1>3, <2>2, Zenon DEF ActsOnKey, Instances
    <3>. QED  BY <1>0, <1>3, <2>2, <3>1, <3>2 DEF ActsOnKey
  <2>. QED  BY <1>3, <2>1, <2>2 DEF ActsOnKey
<1>4. CASE Stops \/ Panics
  <2>1. kept # 0 => Start("run", 0, kept) \in Worker
    BY <1>0, StartType
  <2>2. RestoredInst = NoInstance \/ RestoredInst \in Instances
    BY <1>0 DEF RestoredInst, Instances
  <2>3. /\ inst' = RestoredInst /\ busy' = 0 /\ UNCHANGED <<kept, serving>>
        /\ workers' = IF kept = 0 \/ ~keyUsable THEN {} ELSE {Start("run", 0, kept)}
    BY <1>4, Zenon DEF Stops, Panics, Restored
  <2>4. workers' \subseteq Worker
    BY <2>1, <2>3, Zenon
  <2>5. busy' \in {Unnamed} \cup 0..MaxOps
    BY <2>3
  <2>. QED  BY <1>0, <2>2, <2>3, <2>4, <2>5, Zenon
<1>. QED  BY <1>1, <1>2, <1>3, <1>4

\* Every step keeps the types.
LEMMA TypesStep ==
    ASSUME MemorystoreTypes, OperationsInOrder, [MemorystoreNext]_memorystoreVars
    PROVE  MemorystoreTypes' /\ OperationsInOrder'
<1>1. /\ OperationsInOrder'
      /\ ops' \in [1..MaxOps -> {"none", "pending", "succeeded", "failed", "deleted"}]
  BY StepsOps, OpsStepKeeps, Zenon DEF MemorystoreTypes
<1>2. /\ inst' = NoInstance \/ inst' \in Instances
      /\ workers' \subseteq Worker
      /\ kept' \in 0..MaxCreated /\ busy' \in {Unnamed} \cup 0..MaxOps
      /\ serving' \in 0..MaxCreated
  <2>1. CASE CreateInstance \/ Locks
    <3>1. serving' \in 0..MaxCreated
      BY <2>1, Zenon DEF CreateInstance, Locks, MemorystoreTypes, MemorystoreTypeOK
    <3>. QED  BY <2>1, <3>1, CallsType
  <2>. QED  BY <2>1, WorkersType, OthersType DEF MemorystoreNext
<1>3. created' \in 0..MaxCreated
  <2>1. CASE CreateInstance \/ Locks
    BY <2>1, CallsType, Zenon
  <2>2. CASE ~CreateInstance /\ ~Locks
    BY <2>2, Zenon DEF MemorystoreTypes, MemorystoreNext, memorystoreVars, counts, Find, LocksNothing,
           DeleteOperation, ResetProject, AsksKey, ActsOnKey, KeyFlips, Stops, Panics,
           Restored, WorkerStep, Provisions, RunSettles, Removes, DeleteSettles, Transfers,
           TransferSettles, Finishes, ResetFails, ResetForgets, Suspends
  <2>. QED  BY <2>1, <2>2
<1>4. overlapped' \in BOOLEAN
  BY Zenon DEF MemorystoreTypes, MemorystoreNext, memorystoreVars, CreateInstance, Locks, Find,
         LocksNothing, DeleteOperation, ResetProject, AsksKey, ActsOnKey, KeyFlips, Stops,
         Panics, Restored, WorkerStep, Provisions, RunSettles, Removes, DeleteSettles,
         Transfers, TransferSettles, Finishes, ResetFails, ResetForgets, Suspends
<1>5. keyUsable' \in BOOLEAN
  BY Zenon DEF MemorystoreTypes, MemorystoreNext, memorystoreVars, CreateInstance, Locks, Find,
         LocksNothing, DeleteOperation, ResetProject, AsksKey, ActsOnKey, KeyFlips, Stops,
         Panics, Restored, WorkerStep, Provisions, RunSettles, Removes, DeleteSettles,
         Transfers, TransferSettles, Finishes, ResetFails, ResetForgets, Suspends
<1>. QED  BY <1>1, <1>2, <1>3, <1>4, <1>5 DEF MemorystoreTypes, MemorystoreTypeOK, Instances
------------------------------------------------------------------------------
\* The goroutines that will take the lock to clear a mark.
Clears(w, mark) ==
    /\ w.kind \in {"run", "delete", "io"} /\ w.pc \in {"work", "settle"}
    /\ w.op = IF mark = Unnamed THEN 0 ELSE mark

\* A mark is made with the goroutine that clears it.
LEMMA StartClears ==
    ASSUME NEW kind \in {"run", "delete", "io"}, NEW id
    PROVE  /\ \A o \in 1..MaxOps : Clears(Start(kind, o, id), o)
           /\ Clears(Start(kind, 0, id), Unnamed)
BY DEF Clears, Start, Unnamed

\* A step of a goroutine leaves the mark to the one that clears it, or clears it.
LEMMA WorkerBusy ==
    ASSUME MemorystoreTypes, BusyHasWorker, NEW w \in workers, WorkerStep(w)
    PROVE  BusyHasWorker'
<1>0. w \in Worker
  BY Zenon DEF MemorystoreTypes, MemorystoreTypeOK
<1>1. CASE RunSettles(w) \/ DeleteSettles(w) \/ TransferSettles(w)
  BY <1>1, Zenon DEF RunSettles, DeleteSettles, TransferSettles, Unmark, BusyHasWorker
<1>2. CASE ~(RunSettles(w) \/ DeleteSettles(w) \/ TransferSettles(w))
  <2>. SUFFICES ASSUME busy # 0
                PROVE  \E v \in workers' : Clears(v, busy)
    <3>1. busy' = busy
      BY <1>2, Zenon DEF WorkerStep, Provisions, Removes, Transfers, Finishes, ResetFails,
                  ResetForgets, Suspends
    <3>. QED  BY <3>1 DEF BusyHasWorker, Clears
  <2>1. PICK v \in workers : Clears(v, busy)
    BY Zenon DEF BusyHasWorker, Clears
  <2>2. workers \ {w} \subseteq workers'
    BY <1>2, Zenon DEF WorkerStep, Provisions, Removes, Transfers, Finishes, ResetFails,
                ResetForgets, Suspends, Moves, Exits
  <2>3. CASE v # w
    BY <2>1, <2>2, <2>3, Zenon
  <2>4. CASE v = w
    <3>1. w.kind \in {"run", "delete", "io"} /\ w.pc \in {"work", "settle"}
      BY <2>1, <2>4, Zenon DEF Clears
    <3>2. Provisions(w) \/ Removes(w) \/ Transfers(w)
      BY <1>2, <3>1, Zenon DEF WorkerStep, Finishes, ResetFails, ResetForgets, Suspends
    <3>3. \E ok \in BOOLEAN :
             At(w, "settle") \in workers' \/ [At(w, "settle") EXCEPT !.ok = ok] \in workers'
      BY <3>1, <3>2, Zenon DEF Provisions, Removes, Transfers, Moves
    <3>4. \A ok \in BOOLEAN : /\ Clears(At(w, "settle"), busy)
                              /\ Clears([At(w, "settle") EXCEPT !.ok = ok], busy)
      BY <1>0, <2>1, <2>4, Zenon DEF Clears, At, Worker
    <3>. QED  BY <3>3, <3>4
  <2>. QED  BY <2>3, <2>4
<1>. QED  BY <1>1, <1>2

\* Every step keeps a goroutine for the mark.
LEMMA BusyStep ==
    ASSUME MemorystoreTypes, OperationsInOrder, BusyHasWorker,
           [MemorystoreNext]_memorystoreVars
    PROVE  BusyHasWorker'
<1>0. ASSUME NEW st, NewOp(st) PROVE NextOp \in 1..MaxOps
  BY <1>0, NewOpFresh, Zenon DEF MemorystoreTypes
<1>1. CASE CreateInstance
  BY <1>0, <1>1, StartClears DEF CreateInstance, BusyHasWorker, Clears
<1>2. CASE Locks
  <2>1. CASE Refused
    BY <2>1, Zenon DEF Refused, BusyHasWorker
  <2>2. CASE UpdateInstance
    BY <2>2, Zenon DEF UpdateInstance, Refused, BusyHasWorker
  <2>3. CASE ~Refused /\ ~UpdateInstance
    <3>1. \/ busy' = Unnamed /\ Start("run", 0, inst.id) \in workers'
          \/ \E kind \in {"delete", "io"} :
                /\ NextOp \in 1..MaxOps
                /\ busy' = NextOp /\ Start(kind, NextOp, inst.id) \in workers'
      BY <1>0, <1>2, <2>3, Zenon DEF Locks, DeleteInstance, ExportOrImport, RotateServerCA
    <3>2. \E v \in workers' : Clears(v, busy')
      BY <3>1, StartClears, Zenon
    <3>. QED  BY <3>2 DEF BusyHasWorker, Clears
  <2>. QED  BY <2>1, <2>2, <2>3
<1>3. CASE ActsOnKey
  <2>1. CASE busy = 0 /\ busy' = busy
    BY <2>1, Zenon DEF BusyHasWorker
  <2>2. CASE busy' = Unnamed /\ Start("run", 0, inst.id) \in workers'
    BY <2>2, StartClears DEF BusyHasWorker, Clears
  <2>3. CASE UNCHANGED <<inst, busy, workers, overlapped>>
    BY <2>3, Zenon DEF BusyHasWorker
  <2>. QED  BY <1>3, <2>1, <2>2, <2>3 DEF ActsOnKey
<1>4. CASE ResetProject \/ Stops \/ Panics
  BY <1>4, Zenon DEF ResetProject, Stops, Panics, Restored, BusyHasWorker
<1>5. CASE \/ Find \/ LocksNothing \/ DeleteOperation \/ AsksKey \/ KeyFlips
           \/ UNCHANGED memorystoreVars
  BY <1>5, Zenon DEF Find, LocksNothing, DeleteOperation, AsksKey, KeyFlips, memorystoreVars,
              BusyHasWorker
<1>. QED  BY <1>1, <1>2, <1>3, <1>4, <1>5, WorkerBusy DEF MemorystoreNext
------------------------------------------------------------------------------
\* A goroutine that has not settled yet.
Active(w) == w.pc \in {"work", "settle"}

\* What its work has done so far.
Progress(w) ==
    CASE w.kind = "run"    -> (w.pc = "settle" /\ w.ok) => serving = w.id
      [] w.kind = "io"     -> serving = w.id
      [] w.kind = "delete" -> w.pc = "settle" => (w.ok /\ serving = 0)

\* Until something runs beside the mark there is at most one goroutine at work,
\* on the instance that is there and while it is marked.
Ordered ==
    ~overlapped =>
        /\ \A w \in workers : w.kind \in {"run", "delete", "io"}
                              /\ w.pc \in {"work", "settle", "finish"}
        /\ \A v, w \in workers : Active(v) /\ Active(w) => v = w
        /\ \A w \in workers : Active(w) =>
              busy # 0 /\ inst # NoInstance /\ w.id = inst.id /\ Progress(w)
        /\ IF inst = NoInstance THEN kept = 0 /\ serving = 0
           ELSE kept = inst.id /\ ~inst.suspended
        /\ (inst # NoInstance /\ busy = 0 /\ inst.state = "READY") => serving = inst.id

\* A call adds a goroutine where none is at work.
LEMMA CallsOrdered ==
    ASSUME MemorystoreTypes, OperationsInOrder, BusyHasWorker, Ordered,
           CreateInstance \/ Locks
    PROVE  Ordered'
<1>. SUFFICES ASSUME ~overlapped PROVE Ordered'
  BY DEF CreateInstance, Locks, Ordered
<1>0. ASSUME NEW st, NewOp(st) PROVE NextOp \in 1..MaxOps
  BY <1>0, NewOpFresh, Zenon DEF MemorystoreTypes
<1>1. /\ \A w \in workers : w.kind \in {"run", "delete", "io"}
                            /\ w.pc \in {"work", "settle", "finish"}
      /\ IF inst = NoInstance THEN kept = 0 /\ serving = 0
         ELSE kept = inst.id /\ ~inst.suspended
      /\ serving' = serving /\ overlapped' = overlapped
  BY Zenon DEF Ordered, CreateInstance, Locks
<1>2. (inst = NoInstance \/ busy = 0) => \A w \in workers : ~Active(w)
  BY Zenon DEF Ordered
<1>3. ASSUME NEW kind \in {"run", "delete", "io"}, NEW o, NEW id,
             LET w == Start(kind, o, id) IN
               /\ workers' = workers \cup {w} /\ inst' # NoInstance /\ id = inst'.id
               /\ busy' # 0 /\ kept' = id /\ ~inst'.suspended
               /\ kind = "io" => serving = id
               /\ \A v \in workers : ~Active(v)
      PROVE  Ordered'
  <2>. DEFINE w == Start(kind, o, id)
  <2>1. w.kind = kind /\ w.id = id /\ w.pc = "work" /\ Active(w)
    BY Zenon DEF Start, Active
  <2>2. \A v \in workers' : v = w \/ (v \in workers /\ ~Active(v))
    BY <1>3, Zenon
  <2>3. (Progress(w))'
    BY <1>1, <1>3, <2>1, Zenon DEF Progress
  <2>4. \A v \in workers' : v.kind \in {"run", "delete", "io"}
                            /\ v.pc \in {"work", "settle", "finish"}
    BY <1>1, <2>1, <2>2, Zenon
  <2>. HIDE DEF w
  <2>5. \A v \in workers' : Active(v) =>
              busy' # 0 /\ inst' # NoInstance /\ v.id = inst'.id /\ (Progress(v))'
    BY <1>3, <2>1, <2>2, <2>3, Zenon
  <2>. QED  BY <1>3, <2>2, <2>4, <2>5 DEF Ordered
<1>4. CASE CreateInstance
  <2>1. /\ workers' = workers \cup {Start("run", NextOp, created + 1)}
        /\ inst' # NoInstance /\ created + 1 = inst'.id /\ kept' = created + 1
        /\ busy' # 0 /\ ~inst'.suspended /\ \A v \in workers : ~Active(v)
    BY <1>0, <1>2, <1>4 DEF CreateInstance, NoInstance, MemorystoreTypes
  <2>. QED  BY <1>3, <2>1, ZenonT(30)
<1>5. CASE Locks
  <2>0. inst \in Instances /\ inst.id # 0
    BY <1>5 DEF Locks, MemorystoreTypes, MemorystoreTypeOK, Instances
  <2>1. CASE UNCHANGED <<inst, busy, workers>> /\ (kept' = kept \/ kept' = inst.id)
    BY <1>1, <1>5, <2>1, Zenon DEF Ordered, Locks, Progress
  <2>2. CASE DeleteInstance /\ ~Refused
    <3>1. /\ workers' = workers \cup {Start("delete", NextOp, inst.id)}
          /\ inst' # NoInstance /\ inst.id = inst'.id /\ kept' = inst.id
          /\ busy' # 0 /\ ~inst'.suspended /\ \A v \in workers : ~Active(v)
      BY <1>0, <1>1, <1>2, <1>5, <2>0, <2>2, SMTT(30)
      DEF DeleteInstance, MayDelete, NoInstance, Instances, Locks
    <3>. QED  BY <1>3, <3>1, Zenon
  <2>3. ASSUME NEW verb \in {"export", "import"}, ExportOrImport(verb), ~Refused
        PROVE  Ordered'
    <3>1. /\ workers' = workers \cup {Start("io", NextOp, inst.id)}
          /\ inst' # NoInstance /\ inst.id = inst'.id /\ kept' = inst.id
          /\ busy' # 0 /\ ~inst'.suspended /\ \A v \in workers : ~Active(v)
      BY <1>0, <1>1, <1>2, <1>5, <2>0, <2>3, SMTT(30)
      DEF ExportOrImport, MayChange, NoInstance, Instances, Locks
    <3>2. serving = inst.id
      BY <1>5, <2>3, Zenon DEF ExportOrImport, MayChange, Ordered, Locks
    <3>. QED  BY <1>3, <3>1, <3>2
  <2>4. CASE RotateServerCA /\ ~Refused
    <3>1. /\ workers' = workers \cup {Start("run", 0, inst.id)}
          /\ inst' # NoInstance /\ inst.id = inst'.id /\ kept' = inst.id
          /\ busy' # 0 /\ ~inst'.suspended /\ \A v \in workers : ~Active(v)
      BY <1>1, <1>2, <1>5, <2>4 DEF RotateServerCA, MayChange, Unnamed, Locks
    <3>. QED  BY <1>3, <3>1, SMTT(30)
  <2>. QED
    BY <1>5, <2>1, <2>2, <2>3, <2>4, ZenonT(30) DEF Locks, UpdateInstance, Refused
<1>. QED  BY <1>4, <1>5, Zenon

\* A goroutine goes on with what the marked instance's one goroutine does.
LEMMA WorkersOrdered ==
    ASSUME MemorystoreTypes, Ordered, NEW w \in workers, WorkerStep(w)
    PROVE  Ordered'
<1>. SUFFICES ASSUME ~overlapped, ~overlapped' PROVE Ordered'
  <2>1. overlapped => overlapped'
    BY Zenon DEF WorkerStep, Provisions, RunSettles, Removes, DeleteSettles, Transfers,
           TransferSettles, Finishes, ResetFails, ResetForgets, Suspends
  <2>. QED  BY <2>1 DEF Ordered
<1>0. w \in Worker /\ w.ok \in BOOLEAN /\ w.id # 0
  BY DEF MemorystoreTypes, MemorystoreTypeOK, Worker
<1>1. /\ \A v \in workers : v.kind \in {"run", "delete", "io"}
                            /\ v.pc \in {"work", "settle", "finish"}
      /\ \A u, v \in workers : Active(u) /\ Active(v) => u = v
      /\ \A v \in workers : Active(v) =>
            busy # 0 /\ inst # NoInstance /\ v.id = inst.id /\ Progress(v)
      /\ IF inst = NoInstance THEN kept = 0 /\ serving = 0
         ELSE kept = inst.id /\ ~inst.suspended
      /\ (inst # NoInstance /\ busy = 0 /\ inst.state = "READY") => serving = inst.id
  BY Zenon DEF Ordered
<1>2. inst # NoInstance => inst \in Instances
  BY Zenon DEF MemorystoreTypes, MemorystoreTypeOK, Instances
\* The work is done: the goroutine is about to settle.
<1>3. ASSUME NEW then, Moves(w, then), Active(w), then.pc = "settle",
             then.kind = w.kind, then.id = w.id, (Progress(then))',
             UNCHANGED <<inst, kept, busy>>
      PROVE  Ordered'
  <2>1. \A v \in workers' : v = then \/ (v \in workers /\ ~Active(v))
    BY <1>1, <1>3, Zenon DEF Moves
  <2>2. \A v \in workers' : v.kind \in {"run", "delete", "io"}
                            /\ v.pc \in {"work", "settle", "finish"}
    BY <1>1, <1>3, <2>1, Zenon
  <2>3. \A v \in workers' : Active(v) =>
              busy' # 0 /\ inst' # NoInstance /\ v.id = inst'.id /\ (Progress(v))'
    BY <1>1, <1>3, <2>1, ZenonT(30)
  <2>. QED  BY <1>1, <1>3, <2>1, <2>2, <2>3 DEF Ordered
\* The goroutine has settled: none is at work.
<1>4. ASSUME Active(w), workers' \subseteq (workers \ {w}) \cup {At(w, "finish")},
             IF inst' = NoInstance THEN kept' = 0 /\ serving' = 0
             ELSE /\ kept' = inst'.id /\ ~inst'.suspended
                  /\ inst'.state = "READY" => serving' = inst'.id
      PROVE  Ordered'
  <2>1. At(w, "finish").kind = w.kind /\ At(w, "finish").pc = "finish"
    BY <1>0, Zenon DEF At, Worker
  <2>2. \A v \in workers' : /\ ~Active(v)
                            /\ v.kind \in {"run", "delete", "io"}
                            /\ v.pc \in {"work", "settle", "finish"}
    BY <1>1, <1>4, <2>1, Zenon DEF Active
  <2>. QED  BY <1>4, <2>2 DEF Ordered
<1>5. CASE Provisions(w)
  <2>1. Active(w) /\ UNCHANGED <<inst, kept, busy>> /\ w.kind = "run"
    BY <1>5, Zenon DEF Provisions, Active
  <2>2. PICK then : /\ Moves(w, then)
                    /\ \/ then = At(w, "settle") /\ serving' = w.id
                       \/ then = [At(w, "settle") EXCEPT !.ok = FALSE]
    BY <1>5, Zenon DEF Provisions
  <2>3. then.pc = "settle" /\ then.kind = "run" /\ then.id = w.id
        /\ (then.ok => serving' = w.id)
    BY <1>0, <2>1, <2>2, Zenon DEF At, Worker
  <2>4. (Progress(then))'
    BY <2>3, Zenon DEF Progress
  <2>. QED  BY <1>3, <2>1, <2>2, <2>3, <2>4
<1>6. CASE RunSettles(w)
  <2>1. Active(w) /\ inst # NoInstance /\ w.kind = "run"
    BY <1>1, <1>6, Zenon DEF RunSettles, Active
  <2>2. ~(~w.ok /\ w.op # 0)
    BY <1>6, <2>1, Zenon DEF RunSettles
  <2>3. /\ inst' = [inst EXCEPT !.state = IF w.ok THEN "READY" ELSE "STOPPED"]
        /\ kept' = kept /\ serving' = serving
    BY <1>6, <2>1, <2>2, Zenon DEF RunSettles
  <2>4. workers' \subseteq (workers \ {w}) \cup {At(w, "finish")}
    BY <1>6, <2>1, <2>2, Zenon DEF RunSettles
  <2>5. w.ok => serving = inst.id
    BY <1>1, <1>6, <2>1, Zenon DEF Progress, RunSettles
  <2>6. /\ inst'.id = inst.id /\ inst'.suspended = inst.suspended /\ inst' # NoInstance
        /\ inst'.state = IF w.ok THEN "READY" ELSE "STOPPED"
    BY <1>2, <2>1, <2>3, Zenon DEF Instances, NoInstance
  <2>. QED  BY <1>1, <1>4, <2>1, <2>3, <2>4, <2>5, <2>6, SMTT(30)
<1>7. CASE Removes(w)
  <2>1. Active(w) /\ UNCHANGED <<inst, kept, busy>> /\ w.kind = "delete"
    BY <1>1, <1>7, Zenon DEF Removes, Active
  <2>2. serving' = 0 /\ Moves(w, [At(w, "settle") EXCEPT !.ok = TRUE])
    BY <1>7, <2>1, Zenon DEF Removes
  <2>3. PICK then : then = [At(w, "settle") EXCEPT !.ok = TRUE]
    BY Zenon
  <2>4. then.pc = "settle" /\ then.kind = "delete" /\ then.id = w.id /\ then.ok
    BY <1>0, <2>1, <2>3, Zenon DEF At, Worker
  <2>5. (Progress(then))'
    BY <2>2, <2>4, Zenon DEF Progress
  <2>. QED  BY <1>3, <2>1, <2>2, <2>3, <2>4, <2>5, Zenon
<1>8. CASE DeleteSettles(w)
  <2>1. Active(w) /\ w.ok /\ serving = 0
    BY <1>1, <1>8, Zenon DEF DeleteSettles, Active, Progress
  <2>. QED  BY <1>4, <1>8, <2>1 DEF DeleteSettles, Moves
<1>9. CASE Transfers(w)
  <2>1. Active(w) /\ UNCHANGED <<inst, kept, busy>> /\ w.kind = "io" /\ serving' = serving
    BY <1>9, Zenon DEF Transfers, Active
  <2>2. PICK ok \in BOOLEAN : Moves(w, [At(w, "settle") EXCEPT !.ok = ok])
    BY <1>9, Zenon DEF Transfers
  <2>3. PICK then : then = [At(w, "settle") EXCEPT !.ok = ok]
    BY Zenon
  <2>4. then.pc = "settle" /\ then.kind = "io" /\ then.id = w.id
    BY <1>0, <2>1, <2>3, Zenon DEF At, Worker
  <2>5. serving = w.id
    BY <1>1, <2>1, Zenon DEF Progress
  <2>6. (Progress(then))'
    BY <2>1, <2>4, <2>5, Zenon DEF Progress
  <2>. QED  BY <1>3, <2>1, <2>2, <2>3, <2>4, <2>6, Zenon
<1>10. CASE TransferSettles(w)
  <2>1. Active(w) /\ inst # NoInstance /\ serving = w.id /\ serving' = serving
        /\ kept' = kept
    BY <1>1, <1>10, Zenon DEF TransferSettles, Active, Progress
  <2>2. /\ inst'.id = inst.id /\ inst'.suspended = inst.suspended /\ inst' # NoInstance
    BY <1>2, <1>10, <2>1, Zenon DEF TransferSettles, Instances, NoInstance
  <2>3. w.id = inst.id
    BY <1>1, <2>1, Zenon
  <2>. QED  BY <1>1, <1>4, <1>10, <2>1, <2>2, <2>3 DEF TransferSettles, Moves
<1>11. CASE Finishes(w)
  BY <1>1, <1>11, Zenon DEF Finishes, Exits, Ordered, Progress
<1>12. ~ResetFails(w) /\ ~ResetForgets(w) /\ ~Suspends(w)
  BY <1>1, Zenon DEF ResetFails, ResetForgets, Suspends
<1>. QED
  BY <1>5, <1>6, <1>7, <1>8, <1>9, <1>10, <1>11, <1>12, Zenon DEF WorkerStep

\* The other steps leave the instance alone, or run beside the mark and say so.
LEMMA OthersOrdered ==
    ASSUME MemorystoreTypes, Ordered,
           \/ Find \/ LocksNothing \/ DeleteOperation \/ ResetProject \/ AsksKey
           \/ ActsOnKey \/ KeyFlips \/ Stops \/ Panics \/ UNCHANGED memorystoreVars
    PROVE  Ordered'
<1>1. CASE \/ Find \/ LocksNothing \/ DeleteOperation \/ AsksKey \/ KeyFlips
           \/ UNCHANGED memorystoreVars
  <2>1. UNCHANGED <<inst, kept, busy, serving, workers, overlapped>>
    BY <1>1, Zenon DEF Find, LocksNothing, DeleteOperation, AsksKey, KeyFlips, memorystoreVars
  <2>. QED  BY <2>1, ZenonT(30) DEF Ordered, Progress
<1>2. CASE ResetProject \/ Stops \/ Panics
  BY <1>2, Zenon DEF ResetProject, Stops, Panics, Restored, Ordered
<1>3. CASE ActsOnKey
  <2>. SUFFICES ASSUME ~overlapped, ~overlapped' PROVE Ordered'
    BY <1>3, Zenon DEF ActsOnKey, Ordered
  <2>1. inst # NoInstance => ~inst.suspended
    BY Zenon DEF Ordered
  <2>2. UNCHANGED <<inst, kept, busy, serving, workers, overlapped>>
    BY <1>3, <2>1, Zenon DEF ActsOnKey
  <2>. QED  BY <2>2, Zenon DEF Ordered, Progress
<1>. QED  BY <1>1, <1>2, <1>3
------------------------------------------------------------------------------
MemorystoreInv == MemorystoreTypes /\ OperationsInOrder /\ BusyHasWorker /\ Ordered

\* The invariant holds of every behaviour.
LEMMA MemorystoreInvariant == MemorystoreSpec => []MemorystoreInv
<1>1. MemorystoreInit => MemorystoreInv
  <2>. SUFFICES ASSUME MemorystoreInit PROVE MemorystoreInv
    BY Zenon
  <2>1. MemorystoreTypes
    <3>1. ops \in [1..MaxOps -> {"none", "pending", "succeeded", "failed", "deleted"}]
      BY Zenon DEF MemorystoreInit
    <3>2. {kept, serving} \subseteq 0..MaxCreated /\ created \in 0..MaxCreated
      BY DEF MemorystoreInit
    <3>3. busy \in {Unnamed} \cup 0..MaxOps
      BY DEF MemorystoreInit
    <3>4. inst = NoInstance /\ workers \subseteq Worker
          /\ overlapped \in BOOLEAN /\ keyUsable \in BOOLEAN
      BY Zenon DEF MemorystoreInit
    <3>. QED  BY <3>1, <3>2, <3>3, <3>4 DEF MemorystoreTypes, MemorystoreTypeOK
  <2>2. OperationsInOrder
    BY DEF MemorystoreInit, OperationsInOrder
  <2>3. BusyHasWorker /\ Ordered
    BY Zenon DEF MemorystoreInit, BusyHasWorker, Ordered
  <2>. QED  BY <2>1, <2>2, <2>3 DEF MemorystoreInv
<1>2. MemorystoreInv /\ [MemorystoreNext]_memorystoreVars => MemorystoreInv'
  <2>. SUFFICES ASSUME MemorystoreInv, [MemorystoreNext]_memorystoreVars
                PROVE  MemorystoreInv'
    BY Zenon
  <2>1. (MemorystoreTypes /\ OperationsInOrder)'
    BY TypesStep, Zenon DEF MemorystoreInv
  <2>2. BusyHasWorker'
    BY BusyStep, Zenon DEF MemorystoreInv
  <2>3. Ordered'
    BY CallsOrdered, WorkersOrdered, OthersOrdered, Zenon DEF MemorystoreInv, MemorystoreNext
  <2>. QED  BY <2>1, <2>2, <2>3 DEF MemorystoreInv
<1>. QED  BY <1>1, <1>2, PTL DEF MemorystoreSpec

\* The state keeps its types.
THEOREM MemorystoreTyped == MemorystoreSpec => []MemorystoreTypeOK
<1>1. MemorystoreInv => MemorystoreTypeOK
  BY Zenon DEF MemorystoreInv, MemorystoreTypes
<1>. QED  BY <1>1, MemorystoreInvariant, PTL

\* An instance marked busy has a goroutine under way that clears the mark.
THEOREM MemorystoreBusy == MemorystoreSpec => []BusyHasWorker
<1>1. MemorystoreInv => BusyHasWorker
  BY Zenon DEF MemorystoreInv
<1>. QED  BY <1>1, MemorystoreInvariant, PTL

\* With no goroutine left, and nothing ever run beside the busy mark, the
\* instance, the record kept of it and its server agree.
THEOREM MemorystoreAgrees == MemorystoreSpec => []IdleConsistent
<1>1. MemorystoreInv => IdleConsistent
  BY Zenon DEF MemorystoreInv, BusyHasWorker, Ordered, IdleConsistent
<1>. QED  BY <1>1, MemorystoreInvariant, PTL

\* An operation that has ended never ends otherwise.
THEOREM MemorystoreFinal == MemorystoreSpec => OperationsFinal
<1>1. MemorystoreInv /\ [MemorystoreNext]_memorystoreVars =>
         [\A o \in 1..MaxOps :
            ops[o] \in {"succeeded", "failed"} => ops'[o] \in {ops[o], "deleted"}
         ]_memorystoreVars
  BY StepsOps, OpsStepKeeps, Zenon DEF MemorystoreInv, MemorystoreTypes
<1>. QED  BY <1>1, MemorystoreInvariant, PTL DEF MemorystoreSpec, OperationsFinal

------------------------------------------------------------------------------
\* The token bucket of a queue.

\* What the bucket keeps true at every step.
IInv == TypeOK /\ NextAhead /\ TokenWithinInterval

(***************************************************************************)
(* Interval * (Burst - 1) is a natural number and what it leaves out of    *)
(* Burst * Interval is one interval: the only product the proofs need.     *)
(***************************************************************************)
LEMMA ToleranceFacts ==
    /\ Tolerance \in Nat
    /\ Tolerance = Burst * Interval - Interval
  BY RateAssumption DEF Tolerance

\* Products distribute over the sums and differences used below.
LEMMA Distribute ==
    ASSUME NEW x \in Int, NEW y \in Int
    PROVE  /\ x * Interval \in Int
           /\ (x + y) * Interval = x * Interval + y * Interval
           /\ (x - y) * Interval = x * Interval - y * Interval
           /\ 1 * Interval = Interval
  BY RateAssumption

\* A new bucket satisfies the invariant.
LEMMA InitIInv == Init => IInv
  BY RateAssumption, ToleranceFacts
     DEF Init, IInv, TypeOK, NextAhead, TokenWithinInterval, HasToken

\* Taking a token, and the passing of time, keep the invariant.
LEMMA StepIInv == IInv /\ [Next]_vars => IInv'
  <1> SUFFICES ASSUME IInv, [Next]_vars PROVE IInv'
    OBVIOUS
  <1> USE RateAssumption, ToleranceFacts
  <1>1. CASE Take
    <2>1. now' = now /\ next' \in Nat /\ takes' = Append(takes, now)
      BY <1>1 DEF IInv, TypeOK, Take, Taken
    <2>2. TypeOK'
      BY <2>1 DEF IInv, TypeOK
    <2>3. next' >= next + Interval /\ next' >= now + Interval
      BY <1>1 DEF IInv, TypeOK, Take, Taken
    <2>4. NextAhead'
      <3> SUFFICES ASSUME NEW k \in 1..Len(takes')
                   PROVE  /\ takes'[k] <= now'
                          /\ takes'[k] + (Len(takes') - k + 1) * Interval <= next'
        BY DEF NextAhead
      <3>1. Len(takes') = Len(takes) + 1 /\ Len(takes) \in Nat
        BY <2>1 DEF IInv, TypeOK
      <3>2. CASE k = Len(takes) + 1
        <4>1. takes'[k] = now
          BY <2>1, <3>2 DEF IInv, TypeOK
        <4>2. Len(takes') - k + 1 = 1
          BY <3>1, <3>2
        <4> QED BY <4>1, <4>2, <2>1, <2>3, <3>2, Distribute, SMTT(30) DEF IInv, TypeOK
      <3>3. CASE k \in 1..Len(takes)
        <4>1. takes'[k] = takes[k] /\ takes[k] \in Nat
          BY <2>1, <3>3 DEF IInv, TypeOK
        <4>2. takes[k] + (Len(takes) - k + 1) * Interval <= next /\ takes[k] <= now
          BY <3>3 DEF IInv, NextAhead
        <4>3. Len(takes') - k + 1 = (Len(takes) - k + 1) + 1
          BY <3>1, <3>3
        <4>4. (Len(takes) - k + 1) \in Int
          BY <3>1, <3>3
        <4>5. (Len(takes') - k + 1) * Interval
                 = (Len(takes) - k + 1) * Interval + Interval
          BY <4>3, <4>4, Distribute
        <4>6. (Len(takes) - k + 1) * Interval \in Int
          BY <4>4, Distribute
        <4> QED BY <4>1, <4>2, <4>5, <4>6, <2>1, <2>3, <3>1, SMTT(30) DEF IInv, TypeOK
      <3> QED BY <3>1, <3>2, <3>3
    <2>5. TokenWithinInterval'
      BY <1>1 DEF IInv, TypeOK, Take, Taken, TokenWithinInterval, HasToken
    <2> QED BY <2>2, <2>4, <2>5 DEF IInv
  <1>2. CASE Tick
    <2>1. TypeOK'
      BY <1>2 DEF IInv, TypeOK, Tick
    <2>2. NextAhead'
      <3> SUFFICES ASSUME NEW k \in 1..Len(takes)
                   PROVE  /\ takes[k] <= now'
                          /\ takes[k] + (Len(takes) - k + 1) * Interval <= next
        BY <1>2, Zenon DEF Tick, NextAhead
      <3>1. takes[k] \in Nat
        BY DEF IInv, TypeOK
      <3>2. takes[k] <= now /\ takes[k] + (Len(takes) - k + 1) * Interval <= next
        BY DEF IInv, NextAhead
      <3> QED BY <3>1, <3>2, <1>2, SMTT(30) DEF IInv, TypeOK, Tick
    <2>3. TokenWithinInterval'
      BY <1>2 DEF IInv, TypeOK, Tick, TokenWithinInterval, HasToken
    <2> QED BY <2>1, <2>2, <2>3 DEF IInv
  <1>3. CASE UNCHANGED vars
    BY <1>3 DEF vars, IInv, TypeOK, NextAhead, TokenWithinInterval, HasToken
  <1> QED BY <1>1, <1>2, <1>3 DEF Next

(***************************************************************************)
(* The inductive invariant holds at every step: next is never less than an *)
(* interval past each take per take since, nor more than Burst intervals   *)
(* ahead of the clock.                                                     *)
(***************************************************************************)
LEMMA BucketInvariant == Spec => []IInv
  <1>1. Init => IInv
    BY InitIInv
  <1>2. IInv /\ [Next]_vars => IInv'
    BY StepIInv
  <1> QED BY <1>1, <1>2, PTL DEF Spec

(***************************************************************************)
(* The bucket's fields keep their types, and every take is paid for:       *)
(* rateBucket.next is an interval past it for each take since.             *)
(***************************************************************************)
THEOREM BucketCharges == Spec => [](TypeOK /\ NextAhead)
  BY BucketInvariant, PTL DEF IInv

(***************************************************************************)
(* rateBucket.take overcharges nobody: at any rate and burst, a token is   *)
(* there one interval from now at the latest.                              *)
(***************************************************************************)
THEOREM BucketKeepsRate == Spec => []TokenWithinInterval
  BY BucketInvariant, PTL DEF IInv

(***************************************************************************)
(* A take at now closes every window that ends with it within the bound:   *)
(* the step in which RateBound could break.                                *)
(***************************************************************************)
LEMMA StepRateBound == IInv /\ RateBound /\ [Next]_vars => RateBound'
  <1> SUFFICES ASSUME IInv, RateBound, [Next]_vars PROVE RateBound'
    OBVIOUS
  <1> USE RateAssumption, ToleranceFacts
  <1>1. CASE Take
    <2>1. takes' = Append(takes, now) /\ Len(takes) \in Nat
          /\ Len(takes') = Len(takes) + 1 /\ takes'[Len(takes) + 1] = now
      BY <1>1 DEF IInv, TypeOK, Take
    <2> SUFFICES ASSUME NEW i \in 1..Len(takes'), NEW j \in 1..Len(takes'), i <= j
                 PROVE  (j - i + 1 - Burst) * Interval <= takes'[j] - takes'[i]
      BY DEF RateBound
    <2>2. CASE j \in 1..Len(takes)
      <3>1. i \in 1..Len(takes)
        BY <2>1, <2>2
      <3>2. takes'[i] = takes[i] /\ takes'[j] = takes[j]
        BY <2>1, <2>2, <3>1 DEF IInv, TypeOK
      <3> QED BY <2>2, <3>1, <3>2 DEF RateBound
    <2>3. CASE j = Len(takes) + 1 /\ i \in 1..Len(takes)
      <3>1. takes'[i] = takes[i] /\ takes[i] \in Nat
        BY <2>1, <2>3 DEF IInv, TypeOK
      <3> DEFINE n == Len(takes) - i + 1
      <3>2. takes[i] + n * Interval <= next
        BY <2>3 DEF IInv, NextAhead
      <3>3. n \in Int /\ j - i + 1 - Burst = n + (1 - Burst) /\ 1 - Burst \in Int
        BY <2>1, <2>3
      <3>4. n * Interval \in Int
            /\ (n + (1 - Burst)) * Interval = n * Interval + (1 - Burst) * Interval
            /\ (1 - Burst) * Interval = Interval - Burst * Interval
        <4> HIDE DEF n
        <4> QED BY <3>3, Distribute
      <3>5. next - Tolerance <= now
        BY <1>1 DEF Take, HasToken
      <3>6. (j - i + 1 - Burst) * Interval = n * Interval - Tolerance
        <4> HIDE DEF n
        <4>1. Burst * Interval \in Int
          OBVIOUS
        <4> QED BY <3>3, <3>4, <4>1
      <3>7. takes'[j] = now /\ now \in Nat /\ next \in Nat
        BY <2>1, <2>3 DEF IInv, TypeOK
      <3> DEFINE p == n * Interval
      <3>8. p \in Int /\ takes[i] + p <= next
        BY <3>2, <3>4
      <3>9. p - Tolerance <= now - takes'[i]
        <4> HIDE DEF p
        <4> QED BY <3>1, <3>5, <3>7, <3>8, SMTT(30)
      <3> QED BY <3>6, <3>7, <3>9, Zenon
    <2>4. CASE j = Len(takes) + 1 /\ i = Len(takes) + 1
      <3>1. j - i + 1 - Burst = 1 - Burst
        BY <2>1, <2>4
      <3>2. (1 - Burst) * Interval = Interval - Burst * Interval
        OBVIOUS
      <3>3. takes'[j] - takes'[i] = 0
        BY <2>1, <2>4 DEF IInv, TypeOK
      <3> QED BY <3>1, <3>2, <3>3
    <2> QED BY <2>1, <2>2, <2>3, <2>4
  <1>2. CASE Tick
    BY <1>2 DEF Tick, RateBound
  <1>3. CASE UNCHANGED vars
    BY <1>3 DEF vars, RateBound
  <1> QED BY <1>1, <1>2, <1>3 DEF Next

(***************************************************************************)
(* rateBucket.take enforces max_dispatches_per_second: at any rate and     *)
(* burst, no run of takes is closer together than its tokens allow.        *)
(***************************************************************************)
THEOREM BucketBoundsRate == Spec => []RateBound
  <1>1. Init => RateBound
    BY DEF Init, RateBound
  <1>2. IInv /\ RateBound /\ [Next]_vars => RateBound'
    BY StepRateBound
  <1> QED BY <1>1, <1>2, BucketInvariant, PTL DEF Spec
------------------------------------------------------------------------------
(***************************************************************************)
(* Batches with a request id.  What a repeat finds: once a call returned,  *)
(* an operation is recorded or its recording failed, the one recorded is   *)
(* that of a call that returned, and a call that began later returned at   *)
(* once with another's operation, unless a recording failed.               *)
(***************************************************************************)
BatchInv ==
    /\ batches \in [Callers -> [pc: {"new", "running", "returned", "cut"}, ran: Nat,
                                got: Callers \cup {None}]]
    /\ op \in Callers \cup {None} /\ later \subseteq Callers
    /\ \A c \in Callers : batches[c].pc = "new" => batches[c].ran = 0
    /\ \A c \in Callers : Returned(c) => op # None \/ lost
    /\ op # None => Returned(op)
    /\ \A c \in later : lost \/ /\ Returned(c) /\ batches[c].ran = 0
                                /\ batches[c].got \in Callers \ {c}

\* The lookup, a request, the recording and the end of the process keep it.
LEMMA BatchStep == BatchInv /\ [BatchNext]_batchVars => BatchInv'
  <1> SUFFICES ASSUME BatchInv, [BatchNext]_batchVars PROVE BatchInv'
    OBVIOUS
  <1> USE BatchAssumption DEF BatchInv, Returned
  <1>1. ASSUME NEW c \in Callers, BeginBatch(c) PROVE BatchInv'
    <2>1. CASE op = None
      BY <1>1, <2>1 DEF BeginBatch
    <2>2. CASE op # None
      <3>1. /\ batches' = [batches EXCEPT ![c] = [@ EXCEPT !.pc = "returned", !.got = op]]
            /\ batches[c].pc = "new" /\ batches[c].ran = 0
            /\ later' \subseteq later \cup {c} /\ UNCHANGED <<op, lost>>
        BY <1>1, <2>2 DEF BeginBatch
      <3>2. /\ batches'[c].pc = "returned" /\ batches'[c].ran = 0 /\ batches'[c].got = op
            /\ \A d \in Callers : d # c => batches'[d] = batches[d]
            /\ op \in Callers \ {c}
        BY <2>2, <3>1
      <3>3. batches' \in [Callers -> [pc: {"new", "running", "returned", "cut"}, ran: Nat,
                                      got: Callers \cup {None}]]
        BY <3>1, Zenon
      <3>4. \A e \in later' : lost' \/ /\ Returned(e)' /\ batches'[e].ran = 0
                                       /\ batches'[e].got \in Callers \ {e}
        BY <3>1, <3>2
      <3> QED BY <2>2, <3>1, <3>2, <3>3, <3>4
    <2> QED BY <2>1, <2>2
  <1>2. ASSUME NEW c \in Callers, RunRequest(c) PROVE BatchInv'
    BY <1>2 DEF RunRequest
  <1>3. ASSUME NEW c \in Callers, KeepOperation(c) PROVE BatchInv'
    <2>1. /\ batches' = [batches EXCEPT ![c].pc = "returned", ![c].got = c]
          /\ batches[c].pc = "running" /\ UNCHANGED later
          /\ (op' = c /\ UNCHANGED lost) \/ (lost' = TRUE /\ UNCHANGED op)
      BY <1>3, Zenon DEF KeepOperation
    <2>2. /\ batches'[c].pc = "returned"
          /\ \A d \in Callers : d # c => batches'[d] = batches[d]
      BY <2>1
    <2>3. batches' \in [Callers -> [pc: {"new", "running", "returned", "cut"}, ran: Nat,
                                    got: Callers \cup {None}]]
      BY <2>1, ZenonT(30)
    <2> QED BY <2>1, <2>2, <2>3
  <1>4. CASE StopBatches
    BY <1>4 DEF StopBatches
  <1>5. CASE UNCHANGED batchVars
    BY <1>5 DEF batchVars
  <1> QED BY <1>1, <1>2, <1>3, <1>4, <1>5, ZenonT(30) DEF BatchNext

(***************************************************************************)
(* BatchCreateTasks and BatchDeleteTasks with a request id that a returned *)
(* call has had run nothing and return an earlier operation, for any       *)
(* number of calls and requests, whatever overlaps and stops.              *)
(***************************************************************************)
THEOREM BatchRepeats == BatchSpec => []RepeatRunsNothing
  <1>1. BatchInit => BatchInv
    BY BatchAssumption DEF BatchInit, BatchInv, Returned
  <1>2. BatchInv => RepeatRunsNothing
    BY DEF BatchInv, RepeatRunsNothing
  <1> QED BY <1>1, <1>2, BatchStep, PTL DEF BatchSpec

------------------------------------------------------------------------------
(***************************************************************************)
(* The retry schedule.  The accumulated wait is the closed form, and the   *)
(* wait in force is Delay of it.                                           *)
(***************************************************************************)
RetryInv ==
    /\ raw \in RawConfigs /\ b = WithDefaults(raw)
    /\ attempt \in Nat \ {0} /\ (attempt = 1 \/ attempt <= MaxRetries)
    /\ ref = Growth(b, attempt - 1)
    /\ wait = Delay(b, attempt)

\* WithDefaults leaves no limit of the wait at zero or below.
LEMMA DefaultsPositive ==
    ASSUME NEW r \in RawConfigs
    PROVE  LET d == WithDefaults(r) IN
           /\ d.min \in Nat \ {0} /\ d.max \in Nat \ {0} /\ d.doublings \in Nat \ {0}
  BY RetriesAssumption DEF WithDefaults, DefaultBackoff

\* Products of positive numbers, as the growth of a wait uses them.
LEMMA Times ==
    ASSUME NEW p \in Nat \ {0}, NEW e \in Nat \ {0}
    PROVE  /\ p * e \in Nat \ {0} /\ p * 1 = p
           /\ p * (e + 1) = p * e + p
           /\ p * (2 * e) = 2 * (p * e)
  OBVIOUS

\* Growth's closed form is the accumulated one: a retry doubles it, up to the
\* doublings, and then adds a step.
LEMMA GrowthSteps ==
    ASSUME NEW c, c.min \in Nat \ {0}, c.doublings \in Nat \ {0}
    PROVE  /\ Growth(c, 0) = c.min
           /\ \A k \in 0..MaxRetries :
                 /\ Growth(c, k) \in Nat \ {0}
                 /\ k + 1 <= c.doublings => Growth(c, k + 1) = 2 * Growth(c, k)
                 /\ k + 1 > c.doublings /\ c.doublings <= MaxRetries
                       => Growth(c, k + 1) = Growth(c, k) + c.min * 2^c.doublings
  <1> USE RetriesAssumption
  <1>1. Growth(c, 0) = c.min
    BY PowersAssumption DEF Growth
  <1> SUFFICES ASSUME NEW k \in 0..MaxRetries
               PROVE  /\ Growth(c, k) \in Nat \ {0}
                      /\ k + 1 <= c.doublings => Growth(c, k + 1) = 2 * Growth(c, k)
                      /\ k + 1 > c.doublings /\ c.doublings <= MaxRetries
                            => Growth(c, k + 1) = Growth(c, k) + c.min * 2^c.doublings
    BY <1>1
  <1>2. 2^k \in Nat \ {0} /\ 2^(k + 1) = 2 * 2^k
    BY PowersAssumption
  <1>3. c.doublings <= MaxRetries => 2^c.doublings \in Nat \ {0}
    BY PowersAssumption
  <1>4. CASE k + 1 <= c.doublings
    <2>1. Growth(c, k) = c.min * 2^k /\ Growth(c, k + 1) = c.min * (2 * 2^k)
      BY <1>2, <1>4 DEF Growth
    <2>2. c.min * 2^k \in Nat \ {0} /\ c.min * (2 * 2^k) = 2 * (c.min * 2^k)
      BY <1>2, Times
    <2> QED BY <1>4, <2>1, <2>2
  <1>5. CASE k + 1 > c.doublings
    <2> DEFINE p == c.min * 2^c.doublings
               e == k - c.doublings + 1
    <2>1. p \in Nat \ {0} /\ p * 1 = p
      BY <1>3, <1>5, Times
    <2>2. e \in Nat \ {0} /\ k + 1 - c.doublings + 1 = e + 1
      BY <1>5
    <2>3. p * e \in Nat \ {0} /\ p * (e + 1) = p * e + p
      <3> HIDE DEF p, e
      <3> QED BY <2>1, <2>2, Times
    <2>4. Growth(c, k + 1) = p * (e + 1)
      BY <1>5, <2>2 DEF Growth
    <2>5. Growth(c, k) = p * e
      <3>1. CASE k = c.doublings
        <4>1. Growth(c, k) = p /\ e = 1
          BY <3>1 DEF Growth
        <4> QED BY <2>1, <4>1
      <3>2. CASE k > c.doublings
        BY <3>2 DEF Growth
      <3>3. k = c.doublings \/ k > c.doublings
        BY <1>5
      <3> QED BY <3>1, <3>2, <3>3, Zenon
    <2> QED BY <1>5, <2>3, <2>4, <2>5
  <1> QED BY <1>4, <1>5

\* A retry keeps the schedule: the growth it adds is the one Delay computes.
LEMMA RetryStep == RetryInv /\ [Retry]_retryVars => RetryInv'
  <1> SUFFICES ASSUME RetryInv, [Retry]_retryVars PROVE RetryInv'
    OBVIOUS
  <1>1. CASE Retry
    <2> DEFINE k == attempt - 1
    <2>1. /\ attempt \in Nat \ {0} /\ attempt < MaxRetries /\ attempt' = attempt + 1
          /\ wait' = Delay(b, attempt + 1) /\ raw' = raw /\ b' = b
          /\ ref' = IF attempt <= b.doublings THEN 2 * ref
                                             ELSE ref + b.min * 2^b.doublings
      BY <1>1 DEF Retry, RetryInv
    <2>2. b.min \in Nat \ {0} /\ b.doublings \in Nat \ {0}
      BY DefaultsPositive DEF RetryInv
    <2>3. k \in 0..MaxRetries /\ k + 1 = attempt /\ attempt' - 1 = k + 1
      BY <2>1, RetriesAssumption, SMTT(30)
    <2>4. /\ attempt <= b.doublings => Growth(b, attempt) = 2 * Growth(b, k)
          /\ attempt > b.doublings => Growth(b, attempt) = Growth(b, k) + b.min * 2^b.doublings
      BY <2>1, <2>2, <2>3, GrowthSteps, RetriesAssumption, SMTT(30)
    <2>5. ref' = Growth(b, attempt)
      BY <2>1, <2>2, <2>4 DEF RetryInv
    <2> QED BY <2>1, <2>3, <2>5, RetriesAssumption, SMTT(30) DEF RetryInv
  <1>2. CASE UNCHANGED retryVars
    BY <1>2, SMTT(30) DEF retryVars, RetryInv
  <1> QED BY <1>1, <1>2, SMTT(30)

(***************************************************************************)
(* CloudTasksBackoff.Delay is the documented schedule for every retry      *)
(* configuration a client can send and any number of retries: doubled      *)
(* MaxDoublings times, then stepped, capped, and never zero.               *)
(***************************************************************************)
THEOREM RetriesOnSchedule == RetrySpec => []ScheduleMatches
  <1>1. RetryInit => RetryInv
    BY DefaultsPositive, GrowthSteps DEF RetryInit, RetryInv
  <1>2. RetryInv => ScheduleMatches
    <2> SUFFICES ASSUME RetryInv PROVE ScheduleMatches
      OBVIOUS
    <2>1. /\ b.min \in Nat \ {0} /\ b.max \in Nat \ {0} /\ b.doublings \in Nat \ {0}
      BY DefaultsPositive DEF RetryInv
    <2>2. ref \in Nat \ {0}
      BY <2>1, GrowthSteps, RetriesAssumption DEF RetryInv
    <2>3. wait = Cap(ref, b.max)
      BY DEF RetryInv, Delay
    <2> QED BY <2>1, <2>2, <2>3 DEF Cap, ScheduleMatches
  <1> QED BY <1>1, <1>2, RetryStep, PTL DEF RetrySpec
==============================================================================
