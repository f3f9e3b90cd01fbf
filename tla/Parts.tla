--------------------------------- MODULE Parts ---------------------------------
(***************************************************************************)
(* Parts of the system that share no state, side by side: a Cloud Tasks    *)
(* queue's token bucket, the retry schedule of a task that keeps failing,  *)
(* its batches, Secret Manager, Memorystore's instances, the coordinator   *)
(* of `up`, the supervisor, Cloud Storage's metadata log and a resumable   *)
(* upload.  A behaviour is one of one of them (part), the others staying   *)
(* as they begin: a product of all would only interleave steps that do not *)
(* see each other.                                                         *)
(***************************************************************************)
EXTENDS RateBucket, RetrySchedule, TasksBatch, SecretManager, MemorystoreInstances,
        Lifecycle, Supervisor, StorageLog, StorageUploads

VARIABLE part \* whose behaviour this is

tasksVars == <<vars, retryVars, batchVars>>
servicesVars == <<secretVars, memorystoreVars>>
processVars == <<lifecycleVars, supervisorVars>>
storageVars == <<storageLogVars, uploadVars>>
partsVars == <<part, tasksVars, servicesVars, processVars, storageVars>>

\* A part that stands still begins in one of its initial states, not in all.
PartsInit ==
    /\ part \in {"bucket", "retries", "batches", "secrets", "memorystore", "lifecycle",
                "supervisor", "metadata", "uploads"}
    /\ Init /\ RetryInit /\ BatchInit /\ SecretInit /\ MemorystoreInit
    /\ LifecycleInit /\ SupervisorInit /\ StorageLogInit /\ UploadsInit
    /\ part # "retries" => raw = CHOOSE r \in RawConfigs : TRUE
    /\ part # "secrets" => scene = CHOOSE s \in Scenarios : TRUE

\* The other parts stand still.
ButTasks == UNCHANGED <<part, servicesVars, processVars, storageVars>>
ButServices == UNCHANGED <<part, tasksVars, processVars, storageVars>>
ButProcess == UNCHANGED <<part, tasksVars, servicesVars, storageVars>>
ButStorage == UNCHANGED <<part, tasksVars, servicesVars, processVars>>
ButBucket == ButTasks /\ UNCHANGED <<retryVars, batchVars>>
ButRetries == ButTasks /\ UNCHANGED <<vars, batchVars>>
ButBatches == ButTasks /\ UNCHANGED <<vars, retryVars>>
ButSecrets == ButServices /\ UNCHANGED memorystoreVars
ButMemorystore == ButServices /\ UNCHANGED secretVars
ButLifecycle == ButProcess /\ UNCHANGED supervisorVars
ButSupervisor == ButProcess /\ UNCHANGED lifecycleVars
ButLog == ButStorage /\ UNCHANGED uploadVars
ButUploads == ButStorage /\ UNCHANGED storageLogVars

PartsNext ==
    \/ part = "bucket" /\ Next /\ ButBucket
    \/ part = "retries" /\ Retry /\ ButRetries
    \/ part = "batches" /\ BatchNext /\ ButBatches
    \/ part = "secrets" /\ SecretNext /\ ButSecrets
    \/ part = "memorystore" /\ MemorystoreNext /\ ButMemorystore
    \/ part = "lifecycle" /\ LifecycleNext /\ ButLifecycle
    \/ part = "supervisor" /\ SupervisorNext /\ ButSupervisor
    \/ part = "metadata" /\ StorageLogNext /\ ButLog
    \/ part = "uploads" /\ UploadsNext /\ ButUploads

\* The fairness of each part.  A behaviour is one part's, so one condition
\* can stand for a condition of each: weak fairness of A or B, where only
\* steps of one of the two can ever happen, is weak fairness of that one.
\* The operations 0..2 of Memorystore are all there are when MaxOps is 2.
Secrets(A) == part = "secrets" /\ A /\ ButSecrets
Memorystore(A) == part = "memorystore" /\ A /\ ButMemorystore
Coordinator(A) == part = "lifecycle" /\ A /\ ButLifecycle
Supervised(A) == part = "supervisor" /\ A /\ ButSupervisor
Uploading(A) == part = "uploads" /\ A /\ ButUploads

PartsFairness ==
    /\ WF_partsVars(Secrets(Sweep) \/ Memorystore(Works(0)) \/ Coordinator(CallerStep)
                    \/ Supervised(Supervise) \/ Uploading(ClientSends))
    /\ WF_partsVars(Secrets(RunWakes) \/ Memorystore(Works(1))
                    \/ Coordinator(SomeStartReturns)
                    \/ Supervised(Check \/ WatcherKills) \/ Uploading(HandlerStep))
    /\ WF_partsVars(Secrets(AdvanceSweeps) \/ Memorystore(Works(2))
                    \/ Supervised(SupervisorTick))
    /\ WF_partsVars(Secrets(RefreshMounts))

PartsSpec == PartsInit /\ [][PartsNext]_partsVars /\ PartsFairness

\* The bucket, Secret Manager and Memorystore keep their types: a bucket's
\* times, a secret's versions (a destroyed one has no payload), the states of
\* an instance and of its goroutines, over failed writes, resets and restarts.
PartsTypeOK == TypeOK /\ SecretTypeOK /\ MemorystoreTypeOK
==============================================================================
