---------------------------- MODULE RetrySchedule ----------------------------
(***************************************************************************)
(* A task that fails again and again, under any retry configuration of a   *)
(* small set: the waits CloudTasksBackoff gives it, beside the schedule    *)
(* the service documents, computed by accumulation.                        *)
(***************************************************************************)
EXTENDS CloudTasksBackoff

CONSTANTS
    RawConfigs,     \* retry configurations as clients send them
    MaxRetries      \* bound on the retries of a run

ASSUME RetriesAssumption ==
    /\ MaxRetries \in Nat
    /\ RawConfigs \subseteq [attempts: Int, min: Int, max: Int, doublings: Int, duration: Int]

\* What ^ is, as far as the runs and the proofs use it: a prover that does not
\* know powers takes it from here.
ASSUME PowersAssumption ==
    2^0 = 1 /\ \A n \in 0..MaxRetries : 2^n \in Nat \ {0} /\ 2^(n + 1) = 2 * 2^n

VARIABLES
    raw,        \* the configuration as sent
    b,          \* the configuration in force, WithDefaults(raw)
    attempt,    \* attempts made
    wait,       \* Delay before the next one
    ref         \* the documented wait before the cap: doubled, then stepped

retryVars == <<raw, b, attempt, wait, ref>>

RetryInit == /\ raw \in RawConfigs
             /\ b = WithDefaults(raw)
             /\ attempt = 1
             /\ wait = Delay(b, 1)
             /\ ref = b.min

\* The attempt failed and another is permitted: the worker's reschedule.
Retry == /\ attempt < MaxRetries
         /\ ShouldRetryAfter(b, attempt, 0)
         /\ attempt' = attempt + 1
         /\ wait' = Delay(b, attempt + 1)
         /\ ref' = IF attempt <= b.doublings THEN 2 * ref
                                            ELSE ref + b.min * 2^b.doublings
         /\ UNCHANGED <<raw, b>>

RetrySpec == RetryInit /\ [][Retry]_retryVars
------------------------------------------------------------------------------
(***************************************************************************)
(* Delay's closed form is the documented schedule: MaxDoublings doublings, *)
(* then equal steps, never above MaxBackoff (#276) and never zero: a task  *)
(* that keeps failing is never retried at once.                            *)
(***************************************************************************)
ScheduleMatches == wait = (IF ref > b.max THEN b.max ELSE ref) /\ wait > 0
==============================================================================
