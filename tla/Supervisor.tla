------------------------------ MODULE Supervisor ------------------------------
(***************************************************************************)
(* `cloudburrow-storage supervise`: a process that runs a backend as its   *)
(* child, starts it again when it ends, kills it when the front beside it  *)
(* keeps answering 503, and ends with it on a signal.  One goroutine is    *)
(* Supervise's loop (sup); each child has a watcher of its own (watch).    *)
(* The watcher of an earlier child may still be about to kill it when the  *)
(* next one runs (late): it holds the earlier child's process.             *)
(*                                                                         *)
(* Times are ticks; a timer that is at 0 has gone off, and time may pass   *)
(* before it is seen, as it may while a liveness request is out.           *)
(***************************************************************************)
EXTENDS Integers

CONSTANTS Grace, Period, Failures,          \* Config of the liveness checks
          MinUptime, MinDelay, MaxDelay,    \* and of the wait before a restart
          StopTimeout,
          MaxRefused                        \* bound on starts that fail

ASSUME SupervisorAssumption ==
    /\ {Grace, Period, MinUptime, MinDelay, MaxDelay, StopTimeout, MaxRefused} \subseteq Nat
    /\ Failures \in Nat \ {0}

VARIABLES sup,      \* where Supervise is
          child,    \* "none" before the first start
          age,      \* time since it was started, as far as anything depends on it
          delay,    \* before the next restart
          left,     \* of the timer Supervise waits for
          watch,    \* the child's watcher
          late,     \* the watcher of an earlier child is about to kill it
          front,    \* what the liveness URL answers
          asked,    \* ctx is done
          refused   \* starts that failed

supervisorVars == <<sup, child, age, delay, left, watch, late, front, asked, refused>>

NoWatch == [on |-> FALSE, wait |-> 0, failed |-> 0, kill |-> FALSE]
\* How long a child has run when its watcher may first kill it.
FirstKill == Grace + (Failures - 1) * Period
MaxAge == IF MinUptime > FirstKill THEN MinUptime ELSE FirstKill

\* cancel of watchCtx: a watcher that has counted its last 503 does not see it.
StopWatch == watch' = IF watch.kill THEN [watch EXCEPT !.on = FALSE] ELSE NoWatch

\* The loop goes on after an end or a failed start: it ends with the context,
\* or sets the timer of the restart.
Pause(d) == IF asked THEN sup' = "ended" /\ UNCHANGED <<left, delay>>
            ELSE sup' = "pause" /\ left' = d /\ delay' = d

\* Mutant: only the first child is watched.
StartChildUnwatched ==
    /\ sup = "start"
    /\ sup' = "up" /\ child' = "running" /\ age' = 0
    /\ watch' = IF child # "none" THEN NoWatch
                ELSE [on |-> TRUE, wait |-> Grace, failed |-> 0, kill |-> FALSE]
    /\ late' = (late \/ watch.kill)
    /\ UNCHANGED <<delay, left, front, asked, refused>>
\* cmd.Start succeeds: the child runs, with a watcher.
StartChild ==
    /\ sup = "start"
    /\ sup' = "up" /\ child' = "running" /\ age' = 0
    /\ watch' = [on |-> TRUE, wait |-> Grace, failed |-> 0, kill |-> FALSE]
    /\ late' = (late \/ watch.kill)
    /\ UNCHANGED <<delay, left, front, asked, refused>>

\* cmd.Start fails: for good the first time, "as a crash would be" later.
StartFails ==
    /\ sup = "start" /\ refused < MaxRefused
    /\ refused' = refused + 1
    /\ IF child = "none" THEN sup' = "ended" /\ UNCHANGED <<left, delay>>
                         ELSE Pause(delay)
    /\ UNCHANGED <<child, age, watch, late, front, asked>>

\* The child ends by itself: a crash, an out-of-memory kill, or SIGTERM.
ChildEnds ==
    /\ child = "running" /\ child' = "crashed"
    /\ UNCHANGED <<sup, age, delay, left, watch, late, front, asked, refused>>

\* The loop receives the child's end (exited).
Reaped ==
    /\ sup = "up" /\ child # "running"
    /\ StopWatch
    /\ Pause(IF age >= MinUptime THEN MinDelay ELSE delay)
    /\ UNCHANGED <<child, age, late, front, asked, refused>>

\* The restart's timer: the next delay is doubled up to MaxDelay.
Restart ==
    /\ sup = "pause"
    /\ \/ asked /\ sup' = "ended" /\ UNCHANGED delay
       \/ left = 0 /\ sup' = "start"
          /\ delay' = IF 2 * delay > MaxDelay THEN MaxDelay ELSE 2 * delay
    /\ UNCHANGED <<child, age, left, watch, late, front, asked, refused>>

\* The signal: the child gets SIGTERM, and StopTimeout to end.
StopSeen ==
    /\ sup = "up" /\ asked
    /\ sup' = "stopping" /\ left' = StopTimeout
    /\ StopWatch
    /\ UNCHANGED <<child, age, delay, late, front, asked, refused>>

\* The child has ended, or its time is over and it is killed and waited for.
StopEnds ==
    /\ sup = "stopping" /\ (child # "running" \/ left = 0)
    /\ sup' = "ended"
    /\ child' = IF child = "running" THEN "killed" ELSE child
    /\ UNCHANGED <<age, delay, left, watch, late, front, asked, refused>>

\* The watcher's timer goes off and the front answers: 503s in a row count,
\* any other answer, and none, starts the count again.  Once the context is
\* done a request fails, and the watcher returns.
Check ==
    /\ watch.on /\ ~watch.kill /\ watch.wait = 0 /\ ~asked
    /\ LET failed == IF front = "503" THEN watch.failed + 1 ELSE 0 IN
       watch' = [watch EXCEPT !.wait = Period, !.failed = failed,
                              !.kill = failed >= Failures]
    /\ UNCHANGED <<sup, child, age, delay, left, late, front, asked, refused>>

\* Mutant: the process is looked up when it is killed, not kept.
KillAny(own) == child' = IF child = "running" THEN "killed" ELSE child
\* cmd.Process.Kill: of a process that has been waited for it does nothing.
Kill(own) == child' = IF own /\ child = "running" THEN "killed" ELSE child

\* kill, by the child's own watcher or by that of an earlier child.
WatcherKills ==
    \/ watch.kill /\ Kill(TRUE) /\ watch' = NoWatch
       /\ UNCHANGED <<sup, age, delay, left, late, front, asked, refused>>
    \/ late /\ Kill(FALSE) /\ late' = FALSE
       /\ UNCHANGED <<sup, age, delay, left, watch, front, asked, refused>>

\* The environment: the front changes its answer, the signal comes.
FrontTurns ==
    /\ sup # "ended" /\ front' \in {"200", "503", "none"} \ {front}
    /\ UNCHANGED <<sup, child, age, delay, left, watch, late, asked, refused>>
AskStop ==
    /\ ~asked /\ asked' = TRUE
    /\ UNCHANGED <<sup, child, age, delay, left, watch, late, front, refused>>

Less(t) == IF t > 0 THEN t - 1 ELSE 0
SupervisorTick ==
    /\ sup # "ended"
    /\ age' = IF age < MaxAge THEN age + 1 ELSE age
    /\ left' = Less(left) /\ watch' = [watch EXCEPT !.wait = Less(@)]
    /\ UNCHANGED <<sup, child, delay, late, front, asked, refused>>

SupervisorInit ==
    /\ sup = "start" /\ child = "none" /\ age = 0 /\ delay = MinDelay /\ left = 0
    /\ watch = NoWatch /\ late = FALSE /\ front = "200" /\ asked = FALSE /\ refused = 0

Supervise == StartChild \/ StartFails \/ Reaped \/ Restart \/ StopSeen \/ StopEnds
SupervisorNext == Supervise \/ ChildEnds \/ Check \/ WatcherKills \/ FrontTurns
                  \/ AskStop \/ SupervisorTick

SupervisorSpec == SupervisorInit /\ [][SupervisorNext]_supervisorVars

\* The loop and the watcher run and time passes; nothing is assumed of the
\* child, the front or the signal.
SupervisorFairSpec ==
    /\ SupervisorSpec
    /\ WF_supervisorVars(Supervise) /\ WF_supervisorVars(Check \/ WatcherKills)
    /\ WF_supervisorVars(SupervisorTick)
------------------------------------------------------------------------------
\* A child is killed only for what its own watcher saw ("the first no sooner
\* than Grace after the child started"): never for the failures of an earlier
\* child, and otherwise only when it has not ended StopTimeout after SIGTERM.
KilledForCause ==
    [][(child = "running" /\ child' = "killed") =>
           age >= FirstKill \/ (sup = "stopping" /\ left = 0)]_supervisorVars

\* A child that has ended runs again, one that the front keeps calling failed
\* does not stay, and a signal ends both child and supervisor, whatever
\* crashes and failed starts come between.
ChildComesBack ==
    /\ []<>(child # "none" =>
               IF sup = "ended" THEN child # "running" ELSE child = "running" /\ ~asked)
    /\ []<>(child # "running" \/ front # "503" \/ sup = "ended")
==============================================================================
