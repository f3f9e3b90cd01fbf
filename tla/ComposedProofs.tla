---------------------------- MODULE ComposedProofs ----------------------------
(***************************************************************************)
(* The parts side by side: each does in a behaviour of Parts what it may   *)
(* do alone, so that what is proved of it alone holds there.               *)
(***************************************************************************)
EXTENDS Parts, PartsProofs, SecretProofs, StorageProofs

\* The parts that stand still.
StillTasks == UNCHANGED vars /\ UNCHANGED retryVars /\ UNCHANGED batchVars
StillServices == UNCHANGED secretVars /\ UNCHANGED memorystoreVars
StillProcess == UNCHANGED lifecycleVars /\ UNCHANGED supervisorVars
StillStorage == UNCHANGED storageLogVars /\ UNCHANGED uploadVars

\* What the composition says of the parts that stand still.
LEMMA StandStill ==
    /\ UNCHANGED partsVars => StillTasks /\ StillServices /\ StillProcess /\ StillStorage
    /\ ButTasks => StillServices /\ StillProcess /\ StillStorage
    /\ ButServices => StillTasks /\ StillProcess /\ StillStorage
    /\ ButProcess => StillTasks /\ StillServices /\ StillStorage
    /\ ButStorage => StillTasks /\ StillServices /\ StillProcess
  <1>1. /\ UNCHANGED tasksVars => StillTasks
        /\ UNCHANGED servicesVars => StillServices
        /\ UNCHANGED processVars => StillProcess
        /\ UNCHANGED storageVars => StillStorage
    BY DEF tasksVars, servicesVars, processVars, storageVars, StillTasks, StillServices,
           StillProcess, StillStorage
  <1> QED BY <1>1, SMTT(30) DEF partsVars, ButTasks, ButServices, ButProcess, ButStorage

\* A step of Parts is a step of one part, and leaves the others as they are.
LEMMA PartsSteps ==
    [PartsNext]_partsVars =>
       /\ [Next]_vars /\ [Retry]_retryVars /\ [BatchNext]_batchVars
       /\ [SecretNext]_secretVars /\ [MemorystoreNext]_memorystoreVars
       /\ [LifecycleNext]_lifecycleVars /\ [SupervisorNext]_supervisorVars
       /\ [StorageLogNext]_storageLogVars /\ [UploadsNext]_uploadVars
  <1> SUFFICES ASSUME [PartsNext]_partsVars
               PROVE  /\ [Next]_vars /\ [Retry]_retryVars /\ [BatchNext]_batchVars
                      /\ [SecretNext]_secretVars /\ [MemorystoreNext]_memorystoreVars
                      /\ [LifecycleNext]_lifecycleVars /\ [SupervisorNext]_supervisorVars
                      /\ [StorageLogNext]_storageLogVars /\ [UploadsNext]_uploadVars
    BY ZenonT(30)
  <1> USE StandStill DEF StillTasks, StillServices, StillProcess, StillStorage
  <1>1. CASE UNCHANGED partsVars
    BY <1>1, Zenon
  <1>2. CASE Next /\ ButBucket
    BY <1>2, ZenonT(30) DEF ButBucket
  <1>3. CASE Retry /\ ButRetries
    BY <1>3, Zenon DEF ButRetries
  <1>4. CASE BatchNext /\ ButBatches
    BY <1>4, Zenon DEF ButBatches
  <1>5. CASE SecretNext /\ ButSecrets
    BY <1>5, Zenon DEF ButSecrets
  <1>6. CASE MemorystoreNext /\ ButMemorystore
    BY <1>6, ZenonT(30) DEF ButMemorystore
  <1>7. CASE LifecycleNext /\ ButLifecycle
    BY <1>7, Zenon DEF ButLifecycle
  <1>8. CASE SupervisorNext /\ ButSupervisor
    BY <1>8, Zenon DEF ButSupervisor
  <1>9. CASE StorageLogNext /\ ButLog
    BY <1>9, Zenon DEF ButLog
  <1>10. CASE UploadsNext /\ ButUploads
    BY <1>10, Zenon DEF ButUploads
  <1> QED BY <1>1, <1>2, <1>3, <1>4, <1>5, <1>6, <1>7, <1>8, <1>9, <1>10, Zenon DEF PartsNext

(***************************************************************************)
(* Every part of Parts behaves as it does alone: what the theorems about   *)
(* the parts say of their specifications, they say of the composition that *)
(* is model-checked.                                                       *)
(***************************************************************************)
THEOREM PartsIndependent ==
    PartsSpec => /\ Spec /\ RetrySpec /\ BatchSpec /\ SecretSpec /\ MemorystoreSpec
                 /\ LifecycleSpec /\ SupervisorSpec /\ StorageLogSpec /\ UploadsSpec
  <1>1. PartsInit => /\ Init /\ RetryInit /\ BatchInit /\ SecretInit /\ MemorystoreInit
                     /\ LifecycleInit /\ SupervisorInit /\ StorageLogInit /\ UploadsInit
    BY ZenonT(30) DEF PartsInit
  <1> QED BY <1>1, PartsSteps, PTL
       DEF PartsSpec, Spec, RetrySpec, BatchSpec, SecretSpec, MemorystoreSpec, LifecycleSpec,
           SupervisorSpec, StorageLogSpec, UploadsSpec

\* The bucket, Secret Manager and Memorystore keep their types, whichever part
\* runs: a bucket's times, a secret's versions, an instance's states and its
\* goroutines.
THEOREM PartsTyped == PartsSpec => []PartsTypeOK
  <1>1. TypeOK /\ SecretTypeOK /\ MemorystoreTypeOK => PartsTypeOK
    BY Zenon DEF PartsTypeOK
  <1> QED BY <1>1, PartsIndependent, BucketCharges, SecretsTyped, MemorystoreTyped, PTL

(***************************************************************************)
(* The safety properties of the parts, for the composition: the rate and   *)
(* the schedule of Cloud Tasks, batches, secrets, instances, the order of  *)
(* starting and stopping, the supervisor's kills, acknowledged metadata    *)
(* and whole objects, for every value of every part's constants.           *)
(***************************************************************************)
THEOREM PartsSafe ==
    PartsSpec =>
       /\ [](RateBound /\ ScheduleMatches /\ RepeatRunsNothing)
       /\ []OwnVersions /\ NumbersNotReused /\ DestroyedStays /\ CancelledKept
       /\ [](BusyHasWorker /\ IdleConsistent) /\ OperationsFinal
       /\ [](DependenciesUp /\ NothingLeftUp /\ WorkersHaveComponents)
       /\ KilledForCause
       /\ [](NothingLost /\ ObjectIsWhole)
  BY PartsIndependent, BucketBoundsRate, RetriesOnSchedule, BatchRepeats, VersionsOwned, NumbersKept,
     DestructionLasts, CancelledNotSwept, MemorystoreBusy, MemorystoreAgrees, MemorystoreFinal,
     LifecycleDependencies, LifecycleUnwinds, LifecycleWorkers, SupervisorKills, AcknowledgedKept,
     UploadsWhole, PTL
==============================================================================
