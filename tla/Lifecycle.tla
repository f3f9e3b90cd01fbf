------------------------------- MODULE Lifecycle -------------------------------
(***************************************************************************)
(* The coordinator of `cloudburrow up`: components start in registration   *)
(* order, the members of a concurrent group at the same time, workers run  *)
(* once every component is up, and a signal stops the workers first and    *)
(* the components, in reverse order, after them.  One goroutine (caller)   *)
(* calls Start, RegisterWorker and Stop in turn; each component of a group *)
(* starts in a goroutine of its own, and so does each worker.  A start     *)
(* that fails, or a signal that comes during it, unwinds what has started. *)
(*                                                                         *)
(* Components are numbered in registration order.  Left out: their names,  *)
(* timings and errors, and the readiness map, which follows "up".          *)
(***************************************************************************)
EXTENDS Integers, Sequences

CONSTANTS N,        \* registered components
          Groups,   \* groups[i]: 0 for a component that starts on its own
          Workers,  \* background workers
          Late      \* those registered after Start, as `up` does its dispatchers

ASSUME LifecycleAssumption ==
    N \in Nat /\ Groups \in [1..N -> Nat] /\ Late \subseteq Workers

VARIABLES caller,    \* where `up` is
          first,     \* Start's i
          past,      \* Start's j: the step is components[i:j]
          comp,      \* what each component is doing
          noted,     \* startStep's loop over the step that records the started
          started,   \* Coordinator.started
          closing,   \* stopComponents' copy of it
          state,     \* Coordinator.state
          signalled, \* ctx is done
          work,      \* what each worker is doing
          timedOut   \* Stop's drain window elapsed

lifecycleVars == <<caller, first, past, comp, noted, started, closing, state, signalled,
                   work, timedOut>>

Components == 1..N

\* Where the step that begins at i ends.
EndsStep(i, j) ==
    /\ j \in (i + 1)..(N + 1)
    /\ \A k \in (i + 1)..(j - 1) : Groups[i] # 0 /\ Groups[k] = Groups[i]
    /\ j <= N => Groups[i] = 0 \/ Groups[j] # Groups[i]

\* Start's loop: the next step begins, unless the context is done.
BeginStep ==
    /\ caller = "start" /\ first <= N /\ ~signalled
    /\ \E j \in (first + 1)..(N + 1) : EndsStep(first, j) /\ past' = j
    /\ comp' = [i \in Components |->
                   IF i \in first..(past' - 1) THEN "starting" ELSE comp[i]]
    /\ noted' = first
    /\ caller' = "step" /\ state' = "starting"
    /\ UNCHANGED <<first, started, closing, signalled, work, timedOut>>

\* startOne: the component's Start returns.
StartReturns(i) ==
    /\ comp[i] = "starting"
    /\ \E result \in {"up", "failed"} : comp' = [comp EXCEPT ![i] = result]
    /\ UNCHANGED <<caller, first, past, noted, started, closing, state, signalled, work,
                   timedOut>>

\* Every start of the step has returned (wg.Wait): those that are up are
\* recorded in registration order.
Record ==
    /\ caller = "step" /\ noted < past
    /\ \A i \in Components : comp[i] # "starting"
    /\ noted' = noted + 1
    /\ started' = IF comp[noted] = "up" THEN Append(started, noted) ELSE started
    /\ UNCHANGED <<caller, first, past, comp, closing, state, signalled, work, timedOut>>

\* A step with a failure unwinds; otherwise the next begins.
StepDone ==
    /\ caller = "step" /\ noted = past
    /\ IF \E i \in first..(past - 1) : comp[i] = "failed"
       THEN /\ caller' = "unwind" /\ closing' = started /\ started' = <<>>
            /\ UNCHANGED first
       ELSE /\ caller' = "start" /\ first' = past
            /\ UNCHANGED <<closing, started>>
    /\ UNCHANGED <<past, comp, noted, state, signalled, work, timedOut>>

\* The context ended between two steps.
StartCancelled ==
    /\ caller = "start" /\ first <= N /\ signalled
    /\ caller' = "unwind" /\ closing' = started /\ started' = <<>>
    /\ UNCHANGED <<first, past, comp, noted, state, signalled, work, timedOut>>

\* Every component is up: Start runs the registered workers.  It does not
\* look at the context again.
BecomeReady ==
    /\ caller = "start" /\ first = N + 1
    /\ caller' = "ready" /\ state' = "ready"
    /\ work' = [w \in Workers |-> IF w \in Late THEN work[w] ELSE "running"]
    /\ UNCHANGED <<first, past, comp, noted, started, closing, signalled, timedOut>>

\* RegisterWorker, of a coordinator that is ready.
RegisterWorker(w) ==
    /\ caller = "ready" /\ state = "ready" /\ w \in Late /\ work[w] = "none"
    /\ work' = [work EXCEPT ![w] = "running"]
    /\ UNCHANGED <<caller, first, past, comp, noted, started, closing, state, signalled,
                   timedOut>>

\* A worker's Run returns: it failed, or saw its context cancelled.
WorkerReturns(w) ==
    /\ work[w] = "running"
    /\ work' = [work EXCEPT ![w] = "done"]
    /\ UNCHANGED <<caller, first, past, comp, noted, started, closing, state, signalled,
                   timedOut>>

\* Stop, once every worker has been registered and the signal has come.
StopBegins ==
    /\ caller = "ready" /\ signalled /\ \A w \in Late : work[w] # "none"
    /\ caller' = "drain" /\ state' = "stopping"
    /\ UNCHANGED <<first, past, comp, noted, started, closing, signalled, work, timedOut>>

\* Mutants: Stop does not wait for the workers; it waits without bound.
DrainedAtOnce ==
    /\ caller = "drain"
    /\ caller' = "stop" /\ closing' = started /\ started' = <<>>
    /\ UNCHANGED <<first, past, comp, noted, state, signalled, work, timedOut>>
DrainedFully ==
    /\ caller = "drain"
    /\ \A w \in Workers : work[w] # "running"
    /\ caller' = "stop" /\ closing' = started /\ started' = <<>>
    /\ UNCHANGED <<first, past, comp, noted, state, signalled, work, timedOut>>

\* The workers have drained, or their window has elapsed.
Drained ==
    /\ caller = "drain"
    /\ \/ (\A w \in Workers : work[w] # "running") /\ UNCHANGED timedOut
       \/ timedOut' = TRUE
    /\ caller' = "stop" /\ closing' = started /\ started' = <<>>
    /\ UNCHANGED <<first, past, comp, noted, state, signalled, work>>

\* Mutant: components stop in the order they started.
StopNextFirst ==
    /\ caller \in {"unwind", "stop"} /\ closing # <<>>
    /\ comp' = [comp EXCEPT ![Head(closing)] = "down"]
    /\ closing' = Tail(closing)
    /\ UNCHANGED <<caller, first, past, noted, started, state, signalled, work, timedOut>>

\* stopComponents, last started first; whatever its Stop returns, the next
\* is stopped.
StopNext ==
    /\ caller \in {"unwind", "stop"} /\ closing # <<>>
    /\ comp' = [comp EXCEPT ![closing[Len(closing)]] = "down"]
    /\ closing' = SubSeq(closing, 1, Len(closing) - 1)
    /\ UNCHANGED <<caller, first, past, noted, started, state, signalled, work, timedOut>>

\* Mutant: the loop ends before the first component.
EndedEarly ==
    /\ caller \in {"unwind", "stop"} /\ Len(closing) <= 1
    /\ caller' = "end"
    /\ state' = IF caller = "unwind" THEN "failed" ELSE "stopped"
    /\ UNCHANGED <<first, past, comp, noted, started, closing, signalled, work, timedOut>>
Ended ==
    /\ caller \in {"unwind", "stop"} /\ closing = <<>>
    /\ caller' = "end"
    /\ state' = IF caller = "unwind" THEN "failed" ELSE "stopped"
    /\ UNCHANGED <<first, past, comp, noted, started, closing, signalled, work, timedOut>>

Signal ==
    /\ ~signalled /\ signalled' = TRUE
    /\ UNCHANGED <<caller, first, past, comp, noted, started, closing, state, work,
                   timedOut>>

LifecycleInit ==
    /\ caller = "start" /\ first = 1 /\ past = 1 /\ noted = 1
    /\ comp = [i \in Components |-> "new"]
    /\ started = <<>> /\ closing = <<>>
    /\ state = "new" /\ signalled = FALSE /\ timedOut = FALSE
    /\ work = [w \in Workers |-> "none"]

CallerStep ==
    \/ BeginStep \/ Record \/ StepDone \/ StartCancelled \/ BecomeReady
    \/ (\E w \in Workers : RegisterWorker(w))
    \/ StopBegins \/ Drained \/ StopNext \/ Ended

SomeStartReturns == \E i \in Components : StartReturns(i)

LifecycleNext ==
    \/ CallerStep
    \/ SomeStartReturns
    \/ \E w \in Workers : WorkerReturns(w)
    \/ Signal

LifecycleSpec == LifecycleInit /\ [][LifecycleNext]_lifecycleVars

\* `up` goes on, and a component's Start returns ("Start must not block");
\* nothing is said of workers.
LifecycleFairSpec ==
    LifecycleSpec /\ WF_lifecycleVars(CallerStep) /\ WF_lifecycleVars(SomeStartReturns)
------------------------------------------------------------------------------
\* Two components that start together.
Together(a, b) == Groups[a] # 0 /\ \A k \in a..b : Groups[k] = Groups[a]

\* "Components start in registration order and stop in reverse, so a component
\* may depend on those registered before it": whatever fails, and whenever
\* the signal comes, a component that is starting or up has everything
\* registered before it, but for its own group, up.
DependenciesUp ==
    \A a, b \in Components :
        (a < b /\ ~Together(a, b) /\ comp[b] \in {"starting", "up"}) => comp[a] = "up"

\* "A partially started process is never left running": when `up` ends, by a
\* failed start or by Stop, no component is up, members of a group whose
\* start another's failure did not prevent included.
NothingLeftUp ==
    caller = "end" => \A i \in Components : comp[i] \notin {"starting", "up"}

\* Workers are drained before the components are closed, and start after all
\* of them: while one runs every component is up, unless the drain window
\* elapsed.
WorkersHaveComponents ==
    \A w \in Workers :
        (work[w] = "running" /\ ~timedOut) => \A i \in Components : comp[i] = "up"

\* Once the signal has come `up` ends, with a worker that never returns too
\* (the drain window is bounded).
UpEnds == []<>(signalled => caller = "end")
==============================================================================
