-------------------------- MODULE PodmanWorkerProofs --------------------------
(***************************************************************************)
(* Proofs about PodmanWorker, for every instance.  Most steps are docker's *)
(* steps, whose lemmas apply as they stand: CommonInv does not say that a  *)
(* oneshot container has no unit, which only docker guarantees.  What is   *)
(* left are the methods that podman writes its own way.                    *)
(***************************************************************************)
EXTENDS PodmanWorker, DockerWorkerProofs

\* The steps podman has in common with docker.
SharedSteps ==
    \/ PodmanCompare
    \/ PodmanCompareConfig
    \/ PodmanPull
    \/ PodmanEnsureImage
    \/ PodmanRemoveImage
    \/ PodmanVolumes
    \/ StopByEngine
    \/ StopBySystemd
    \/ RemoveContainer
    \/ PodmanStopAndRemove
    \/ PodmanStart
    \/ PodmanStarts
    \/ PodmanWaits
    \/ RestartBySystemd
    \/ PodmanRecreateImage

\* The steps it does not: stop_container, remove_container, create_container,
\* restart_container and recreate_or_restart_container.
RemovesByEngine == PodmanRemove /\ pc = "rm_engine"
StopsUnit ==
    \/ WriteUnitFile("sp_unit", "sp_enable", "sp_systemd")
    \/ EnableUnitFile("sp_enable", "sp_systemd")
Restarts == PodmanRestart /\ pc = "restart_container"

OwnSteps ==
    \/ PodmanStop
    \/ StopsUnit
    \/ RemovesByEngine
    \/ PodmanCreate
    \/ PodmanCreateUnit
    \/ Restarts
    \/ PodmanRecreate
    \/ PodmanRecreateDiffers

\* Every step of a podman method is one or the other.
LEMMA PodmanStepsSplit ==
    ASSUME PodmanSteps
    PROVE  SharedSteps \/ OwnSteps
<1>1. PodmanRemove => RemoveContainer \/ RemovesByEngine
  BY DEF PodmanRemove, RemovesByEngine
<1>2. PodmanRestart => Restarts \/ RestartBySystemd
  BY DEF PodmanRestart, Restarts
<1> QED
  BY <1>1, <1>2 DEF PodmanSteps, SharedSteps, OwnSteps, PodmanStops, StopsUnit

\* The shared steps are steps of the docker worker.
LEMMA SharedAreDocker ==
    ASSUME SharedSteps
    PROVE  WorkerSteps
BY DEF SharedSteps, WorkerSteps, PodmanCompare, PodmanCompareConfig, PodmanPull,
    PodmanEnsureImage, PodmanRemoveImage, PodmanVolumes, PodmanStopAndRemove,
    PodmanStart, PodmanStarts, PodmanWaits, PodmanRecreateImage, CompareContainer

-----------------------------------------------------------------------------
(* Types.                                                                  *)

\* Podman's own steps keep the Boolean variables Boolean.
LEMMA OwnStepsFlags ==
    ASSUME FlagsOK, OwnSteps
    PROVE  FlagsOK'
<1> USE DEF FlagsOK, containerVars, unitVars, taskVars, hostVars
<1>1. CASE PodmanStop
  BY <1>1, Zenon DEF PodmanStop, Reads
<1>2. CASE StopsUnit
  BY <1>2, Zenon DEF StopsUnit, WriteUnitFile, EnableUnitFile
<1>3. CASE RemovesByEngine
  BY <1>3, Zenon DEF RemovesByEngine, PodmanRemove, RemoveContainer, RemoveUnitFile
<1>4. CASE PodmanCreate \/ PodmanCreateUnit
  BY <1>4, Zenon DEF PodmanCreate, PodmanCreateUnit, EnableUnitFile, CheckUnitChange
<1>5. CASE Restarts
  BY <1>5, Zenon DEF Restarts, PodmanRestart, RestartBySystemd, Reads, WriteUnitFile,
      EnableUnitFile, JobQueued, JobRefused, UnitReached, UnitTimesOut, UnitPolled
<1>6. CASE PodmanRecreate \/ PodmanRecreateDiffers
  BY <1>6, Zenon DEF PodmanRecreate, PodmanRecreateDiffers, Reads
<1> QED
  BY <1>1, <1>2, <1>3, <1>4, <1>5, <1>6 DEF OwnSteps

\* Podman's own steps keep the other types.
LEMMA OwnStepsData ==
    ASSUME DataOK, OwnSteps
    PROVE  DataOK' /\ pc' \in PodmanLabels
<1> USE HostAssumption, WorkerAssumption
    DEF DataOK, HostDataOK, SubStates, Jobs, PodmanLabels, Labels, Actions, Goto, Done,
        Fail, containerVars, unitVars, taskVars, hostVars, Delay
<1>1. CASE PodmanStop
  BY <1>1 DEF PodmanStop, Stopped, Reads
<1>2. CASE StopsUnit
  BY <1>2, ParamsType DEF StopsUnit, WriteUnitFile, EnableUnitFile
<1>3. CASE RemovesByEngine
  BY <1>3 DEF RemovesByEngine, PodmanRemove, RemoveContainer, RemoveUnitFile,
      EngineRemoves, UnitLosesProcess, Removed
<1>4. CASE PodmanCreate
  BY <1>4, ParamsType DEF PodmanCreate, EngineCreates
<1>5. CASE PodmanCreateUnit
  BY <1>5, ParamsType DEF PodmanCreateUnit, EnableUnitFile
<1>6. CASE Restarts
  BY <1>6 DEF Restarts, PodmanRestart, RestartBySystemd, Reads, WriteUnitFile,
      EnableUnitFile, JobQueued, JobRefused, UnitReached, UnitTimesOut, UnitPolled
<1>7. CASE PodmanRecreate \/ PodmanRecreateDiffers
  BY <1>7 DEF PodmanRecreate, PodmanRecreateDiffers, Reads
<1> QED
  BY <1>1, <1>2, <1>3, <1>4, <1>5, <1>6, <1>7 DEF OwnSteps

\* Type correctness of the podman worker on its host.
THEOREM PodmanTypeCorrect == PodmanSpec => []PodmanTypeOK
<1>1. PodmanTypeOK <=> FlagsOK /\ DataOK /\ pc \in PodmanLabels
  BY DEF PodmanTypeOK, HostTypeOK, FlagsOK, DataOK, HostDataOK
<1>2. Init => PodmanTypeOK
  BY <1>1, InitInv DEF Inv, CommonInv, Init, PodmanLabels, Labels
<1>3. PodmanTypeOK /\ [PodmanNext]_vars => PodmanTypeOK'
  <2> SUFFICES ASSUME FlagsOK, DataOK, pc \in PodmanLabels, [PodmanNext]_vars
               PROVE  FlagsOK' /\ DataOK' /\ pc' \in PodmanLabels
    BY DEF PodmanTypeOK, HostTypeOK, FlagsOK, DataOK, HostDataOK
  <2>1. CASE SharedSteps
    BY <2>1, SharedAreDocker, WorkerStepsFlags, WorkerStepsData DEF PodmanLabels
  <2>2. CASE OwnSteps
    BY <2>2, OwnStepsFlags, OwnStepsData
  <2>3. CASE OtherSteps
    BY <2>3, OtherStepsType DEF PodmanLabels, Labels
  <2>4. CASE UNCHANGED vars
    BY <2>4 DEF vars, hostVars, workerVars, FlagsOK, DataOK, HostDataOK
  <2> QED
    BY <2>1, <2>2, <2>3, <2>4, PodmanStepsSplit DEF PodmanNext, OtherSteps
<1> QED
  BY <1>2, <1>3, PTL DEF PodmanSpec

-----------------------------------------------------------------------------
(* The inductive invariant.                                                *)

\* recreate_or_restart_container recreates and never restarts.
NeverRestarts == pc \in RestartLabels => op # Recreate

PodmanInv == ContractInv /\ NeverRestarts

\* A shared step keeps a recreation from turning into a restart.
LEMMA SharedNeverRestarts ==
    ASSUME Control, NeverRestarts, SharedSteps
    PROVE  NeverRestarts'
<1> USE DEF NeverRestarts, RestartLabels, Recreate, Goto, Done, Fail, taskVars
<1>1. CASE PodmanCompare \/ PodmanCompareConfig
  BY <1>1 DEF PodmanCompare, PodmanCompareConfig, CompareExists, CompareDiffers,
      CompareFiles, CompareUnit, Reads
<1>2. CASE PodmanPull \/ PodmanEnsureImage \/ PodmanRemoveImage \/ PodmanVolumes
  BY <1>2 DEF PodmanPull, PodmanEnsureImage, PodmanRemoveImage, PodmanVolumes,
      PullImage, EnsureImage, RemoveImage, CreateVolume, RemoveVolume, Reads
<1>3. CASE StopByEngine \/ StopBySystemd \/ RemoveContainer \/ PodmanStopAndRemove
  BY <1>3 DEF StopByEngine, StopBySystemd, Stopped, JobQueued, JobRefused,
      UnitReached, UnitTimesOut, UnitPolled, RemoveContainer, RemoveUnitFile,
      PodmanStopAndRemove, StopAndRemoveContainer, Reads
<1>4. CASE PodmanStart
  BY <1>4 DEF PodmanStart, StartContainer, StartCheck, StartDiffers, StartRecheck,
      StartUnlessUp, Reads
<1>5. CASE PodmanStarts
  BY <1>5 DEF PodmanStarts, StartByEngine, StartBySystemd, WriteUnitFile,
      EnableUnitFile, JobQueued, JobRefused, UnitReached, UnitTimesOut, UnitPolled
<1>6. CASE PodmanWaits \/ PodmanRecreateImage
  BY <1>6 DEF PodmanWaits, StartWaits, StartExitCode, PodmanRecreateImage,
      RecreateImage
<1>7. CASE RestartBySystemd
  BY <1>7 DEF RestartBySystemd, WriteUnitFile, EnableUnitFile, JobQueued, JobRefused,
      UnitReached, UnitTimesOut, UnitPolled
<1> QED
  BY <1>1, <1>2, <1>3, <1>4, <1>5, <1>6, <1>7 DEF SharedSteps

\* Podman's own steps keep task, call, return address and image consistent.
LEMMA OwnStepsControl ==
    ASSUME DataOK, Control, PullOrder, Grounds, NeverRestarts, OwnSteps
    PROVE  Control' /\ PullOrder' /\ Grounds' /\ NeverRestarts'
<1> USE DEF PcMatchesOp, ReturnAddress, Control, PullOrder, Grounds, NeverRestarts,
      StopLabels, StartLabels, RestartLabels, Recreate, Goto, Done, Fail, taskVars,
      hostVars, containerVars, DataOK
<1>1. CASE PodmanStop
  BY <1>1 DEF PodmanStop, Stopped, Reads
<1>2. CASE StopsUnit
  BY <1>2 DEF StopsUnit, WriteUnitFile, EnableUnitFile
<1>3. CASE RemovesByEngine
  BY <1>3 DEF RemovesByEngine, PodmanRemove, RemoveContainer, RemoveUnitFile,
      EngineRemoves, Removed
<1>4. CASE PodmanCreate
  BY <1>4 DEF PodmanCreate
<1>5. CASE PodmanCreateUnit
  BY <1>5 DEF PodmanCreateUnit, EnableUnitFile
<1>6. CASE Restarts
  BY <1>6 DEF Restarts, PodmanRestart, RestartBySystemd, Reads, WriteUnitFile,
      EnableUnitFile, JobQueued, JobRefused, UnitReached, UnitTimesOut, UnitPolled
<1>7. CASE PodmanRecreate \/ PodmanRecreateDiffers
  BY <1>7 DEF PodmanRecreate, PodmanRecreateDiffers, Reads
<1> QED
  BY <1>1, <1>2, <1>3, <1>4, <1>5, <1>6, <1>7 DEF OwnSteps

\* Podman's own steps keep the container, its files and its unit as the task
\* wants them at that step.
LEMMA OwnStepsContent ==
    ASSUME DataOK, Control, NeverRestarts, Content, OwnSteps
    PROVE  Content'
<1> USE HostAssumption, WorkerAssumption
    DEF DataOK, HostDataOK, Content, AsAsked, Fresh, hostVars, containerVars, unitVars,
      PcMatchesOp, ReturnAddress, Control, NeverRestarts, StopLabels, StartLabels,
      RestartLabels, Recreate, Goto, Done, Fail, taskVars
<1>1. CASE PodmanStop
  BY <1>1 DEF PodmanStop, Stopped, Reads
<1>2. CASE StopsUnit
  BY <1>2 DEF StopsUnit, WriteUnitFile, EnableUnitFile
<1>3. CASE RemovesByEngine
  BY <1>3 DEF RemovesByEngine, PodmanRemove, RemoveContainer, RemoveUnitFile,
      EngineRemoves, UnitLosesProcess, Removed
<1>4. CASE PodmanCreate
  BY <1>4 DEF PodmanCreate, EngineCreates
<1>5. CASE PodmanCreateUnit
  BY <1>5 DEF PodmanCreateUnit, CheckUnitChange, EnableUnitFile
<1>6. CASE Restarts
  BY <1>6 DEF Restarts, PodmanRestart, RestartBySystemd, Reads, WriteUnitFile,
      EnableUnitFile, JobQueued, JobRefused, UnitReached, UnitTimesOut, UnitPolled
<1>7. CASE PodmanRecreate \/ PodmanRecreateDiffers
  BY <1>7 DEF PodmanRecreate, PodmanRecreateDiffers, Reads
<1> QED
  BY <1>1, <1>2, <1>3, <1>4, <1>5, <1>6, <1>7 DEF OwnSteps

\* The invariant of the podman worker.
LEMMA PodmanInvariance == PodmanSpec => []PodmanInv
<1>1. Init => PodmanInv
  BY InitInv DEF Inv, PodmanInv, ContractInv, Init, Grounds, NeverRestarts, StopLabels,
      StartLabels, RestartLabels
<1>2. PodmanInv /\ [PodmanNext]_vars => PodmanInv'
  <2> SUFFICES ASSUME PodmanInv, [PodmanNext]_vars PROVE PodmanInv'
    OBVIOUS
  <2>1. DataOK /\ Control /\ PullOrder /\ Content /\ CommonInv /\ FlagsOK /\ Grounds
        /\ NeverRestarts
    BY DEF PodmanInv, ContractInv, CommonInv
  <2>2. CASE SharedSteps
    <3>1. WorkerSteps
      BY <2>2, SharedAreDocker
    <3>2. DataOK' /\ FlagsOK' /\ Control' /\ PullOrder' /\ Content' /\ Grounds'
      BY <2>1, <3>1, WorkerStepsData, WorkerStepsFlags, WorkerStepsControl,
         WorkerStepsAccounting, WorkerStepsContent, WorkerStepsGrounds
    <3>3. NeverRestarts'
      BY <2>1, <2>2, SharedNeverRestarts
    <3> QED
      BY <3>2, <3>3 DEF PodmanInv, ContractInv, CommonInv
  <2>3. CASE OwnSteps
    BY <2>1, <2>3, OwnStepsData, OwnStepsFlags, OwnStepsControl, OwnStepsContent
    DEF PodmanInv, ContractInv, CommonInv
  <2>4. CASE OtherSteps
    <3>1. CommonInv' /\ FlagsOK' /\ Grounds'
      BY <2>1, <2>4, OtherStepsInv, OtherStepsType, OtherStepsGrounds DEF DataOK
    <3>2. NeverRestarts'
      BY <2>1, <2>4, TasksAssumption
      DEF OtherSteps, Call, Raise, Fail, Killed, HostSteps, RenderConfig,
          ReferenceChanges, Reboot, workerVars, NeverRestarts, RestartLabels, Recreate,
          Actions
    <3> QED
      BY <3>1, <3>2 DEF PodmanInv, ContractInv
  <2>5. CASE UNCHANGED vars
    BY <2>1, <2>5
    DEF vars, hostVars, workerVars, PodmanInv, ContractInv, CommonInv, DataOK, FlagsOK,
        HostDataOK, Control, PcMatchesOp, ReturnAddress, PullOrder, Content, AsAsked,
        Fresh, Grounds, NeverRestarts
  <2> QED
    BY <2>2, <2>3, <2>4, <2>5, PodmanStepsSplit DEF PodmanNext, OtherSteps
<1> QED
  BY <1>1, <1>2, PTL DEF PodmanSpec

-----------------------------------------------------------------------------
(* The promises.                                                           *)

\* Podman's own steps keep the five promises of DockerWorkerProofs.
LEMMA OwnStepsPromises ==
    ASSUME PodmanInv, OwnSteps
    PROVE  Promises
<1> USE HostAssumption
    DEF Promises, ConvergedStep, UnitInstalledStep, ConfigDeliveredStep,
      DriftStep, OwnContainerStep, Finishes, PodmanInv, ContractInv, CommonInv, DataOK,
      HostDataOK, Content, AsAsked, Fresh, hostVars, containerVars, unitVars,
      PcMatchesOp, ReturnAddress, Control, NeverRestarts, StopLabels, StartLabels,
      RestartLabels, Recreate, Goto, Done, Fail, taskVars
<1>1. CASE PodmanStop
  BY <1>1 DEF PodmanStop, Stopped, Reads
<1>2. CASE StopsUnit
  BY <1>2 DEF StopsUnit, WriteUnitFile, EnableUnitFile
<1>3. CASE RemovesByEngine
  BY <1>3 DEF RemovesByEngine, PodmanRemove, RemoveContainer, RemoveUnitFile,
      EngineRemoves, Removed
<1>4. CASE PodmanCreate \/ PodmanCreateUnit
  BY <1>4 DEF PodmanCreate, PodmanCreateUnit, EnableUnitFile
<1>5. CASE Restarts
  BY <1>5 DEF Restarts, PodmanRestart, RestartBySystemd, Reads, WriteUnitFile,
      EnableUnitFile, JobQueued, JobRefused, UnitReached, UnitTimesOut, UnitPolled
<1>6. CASE PodmanRecreate
  BY <1>6 DEF PodmanRecreate, Reads
<1>7. CASE PodmanRecreateDiffers
  BY <1>7 DEF PodmanRecreateDiffers, CheckContainerDiffers, CompareImage, Reads
<1> QED
  BY <1>1, <1>2, <1>3, <1>4, <1>5, <1>6, <1>7 DEF OwnSteps

\* Every step of the podman worker and of its host keeps them.
LEMMA PodmanNextPromises ==
    ASSUME PodmanInv, [PodmanNext]_vars
    PROVE  Promises
<1>1. CASE SharedSteps
  <2>1. CommonInv /\ (pc = "rs_start" => op # Recreate)
    BY DEF PodmanInv, ContractInv, NeverRestarts, RestartLabels
  <2> QED
    BY <1>1, <2>1, SharedAreDocker, WorkerStepsPromises
<1>2. CASE OwnSteps
  BY <1>2, OwnStepsPromises
<1>3. CASE OtherSteps \/ UNCHANGED vars
  BY <1>3, OtherStepsPromises
<1> QED
  BY <1>1, <1>2, <1>3, PodmanStepsSplit DEF PodmanNext, OtherSteps

\* The podman worker keeps the promises of the docker worker, for every
\* container, service or oneshot.
THEOREM PodmanKeepsPromises == PodmanSpec => KeepsDockerPromises
<1>1. PodmanInv => NothingTouchedBeforePull
  BY DEF PodmanInv, ContractInv, CommonInv, PullOrder, NothingTouchedBeforePull
<1>2. PodmanInv /\ [PodmanNext]_vars
        => /\ [UnitInstalledStep]_vars
           /\ [ConfigDeliveredStep]_vars
           /\ [DriftStep]_vars
           /\ [OwnContainerStep]_vars
  BY PodmanNextPromises DEF Promises
<1> QED
  BY <1>1, <1>2, PodmanInvariance, PTL
  DEF PodmanSpec, KeepsDockerPromises, UnitInstalledOnSuccess,
      ConfigDeliveredOnSuccess, DriftIsReported, WaitsForItsOwnContainer

-----------------------------------------------------------------------------
(* The refinement of ContainerContract.                                    *)

\* Podman's own steps have the effects the contract lists.
LEMMA OwnStepsEffect ==
    ASSUME PodmanInv, OwnSteps
    PROVE  Effect
<1>1. Control /\ Content /\ Grounds
  BY DEF PodmanInv, ContractInv, CommonInv
<1> USE <1>1 DEF hostVars, containerVars
<1>2. CASE PodmanStop
  BY <1>2, Leaves DEF PodmanStop, Reads
<1>3. CASE StopsUnit
  BY <1>3, Leaves DEF StopsUnit, WriteUnitFile, EnableUnitFile
<1>4. CASE RemovesByEngine
  <2>1. \/ op \in Contract!Removing
        \/ op \in Contract!Deploying /\ image # None
    BY <1>4 DEF RemovesByEngine, Control, PcMatchesOp, Grounds, StopLabels, Recreate,
        Contract!Removing, Contract!Deploying
  <2>2. pc # "idle" /\ status' = "absent" /\ UNCHANGED <<image, volume>>
    BY <1>4 DEF RemovesByEngine, PodmanRemove, RemoveContainer, RemoveUnitFile,
        EngineRemoves
  <2> QED
    BY <2>1, <2>2 DEF Effect, Contract!Remove
<1>5. CASE PodmanCreate
  <2>1. op \in Contract!Deploying /\ pc # "idle" /\ status = "absent"
    BY <1>5 DEF PodmanCreate, Control, PcMatchesOp, Content, StartLabels, Recreate,
        Contract!Deploying
  <2> QED
    BY <1>5, <2>1 DEF PodmanCreate, EngineCreates, Effect, Contract!Create
<1>6. CASE PodmanCreateUnit
  BY <1>6, Leaves DEF PodmanCreateUnit, EnableUnitFile
<1>7. CASE Restarts
  BY <1>7, Leaves DEF Restarts, PodmanRestart, RestartBySystemd, Reads, WriteUnitFile,
      EnableUnitFile, JobQueued, JobRefused, UnitReached, UnitTimesOut, UnitPolled
<1>8. CASE PodmanRecreate \/ PodmanRecreateDiffers
  BY <1>8, Leaves DEF PodmanRecreate, PodmanRecreateDiffers, Reads
<1> QED
  BY <1>2, <1>3, <1>4, <1>5, <1>6, <1>7, <1>8 DEF OwnSteps

\* Podman's own steps go on, fail, or succeed with the host as the action
\* promises.
LEMMA OwnStepsEnd ==
    ASSUME PodmanInv, OwnSteps
    PROVE  Leaving /\ Keeping
<1>1. DataOK /\ Control /\ Grounds /\ NeverRestarts
  BY DEF PodmanInv, ContractInv, CommonInv
<1> USE <1>1
    DEF Leaving, Keeping, Grounds, PcMatchesOp, ReturnAddress, Control, NeverRestarts,
      StopLabels, StartLabels, RestartLabels, Recreate, Goto, Done, Fail, taskVars,
      DataOK, HostDataOK, hostVars
<1>2. CASE PodmanStop
  BY <1>2 DEF PodmanStop, Stopped, Reads
<1>3. CASE StopsUnit
  BY <1>3 DEF StopsUnit, WriteUnitFile, EnableUnitFile
<1>4. CASE RemovesByEngine
  BY <1>4 DEF RemovesByEngine, PodmanRemove, RemoveContainer, RemoveUnitFile,
      EngineRemoves, Removed, containerVars
<1>5. CASE PodmanCreate \/ PodmanCreateUnit
  BY <1>5 DEF PodmanCreate, PodmanCreateUnit, EnableUnitFile
<1>6. CASE Restarts
  BY <1>6 DEF Restarts, PodmanRestart, RestartBySystemd, Reads, WriteUnitFile,
      EnableUnitFile, JobQueued, JobRefused, UnitReached, UnitTimesOut, UnitPolled
<1>7. CASE PodmanRecreate
  BY <1>7 DEF PodmanRecreate, Reads
<1>8. CASE PodmanRecreateDiffers
  BY <1>8 DEF PodmanRecreateDiffers, CheckContainerDiffers, CompareImage, Reads
<1> QED
  BY <1>2, <1>3, <1>4, <1>5, <1>6, <1>7, <1>8 DEF OwnSteps

\* The podman worker implements the contract of a kolla_container task.
THEOREM PodmanKeepsContract == PodmanSpec => ImplementsContract
<1>1. Init => Contract!Init
  BY DEF Init, HostInit, Contract!Init
<1>2. PodmanInv /\ [PodmanNext]_vars => [Contract!Next]_(Contract!contractVars)
  <2> SUFFICES ASSUME PodmanInv, [PodmanNext]_vars
               PROVE  [Contract!Next]_(Contract!contractVars)
    OBVIOUS
  <2>1. op \in Actions /\ ContractInv
    BY DEF PodmanInv, ContractInv, CommonInv, DataOK
  <2>2. ConvergedStep
    BY PodmanNextPromises DEF Promises
  <2>3. CASE SharedSteps
    <3>1. Contract!Step
      BY <2>1, <2>2, <2>3, SharedAreDocker, WorkerStepsEffect, WorkerStepsEnd,
         StepOfContract
    <3> QED
      BY <3>1 DEF Contract!Next
  <2>4. CASE OwnSteps
    <3>1. Contract!Step
      BY <2>1, <2>2, <2>4, OwnStepsEffect, OwnStepsEnd, StepOfContract
    <3> QED
      BY <3>1 DEF Contract!Next
  <2>5. CASE OtherSteps
    BY <2>1, <2>5, OtherStepsContract
  <2>6. CASE UNCHANGED vars
    BY <2>6 DEF vars, hostVars, workerVars, Contract!contractVars
  <2> QED
    BY <2>3, <2>4, <2>5, <2>6, PodmanStepsSplit DEF PodmanNext, OtherSteps
<1> QED
  BY <1>1, <1>2, PodmanInvariance, PTL
  DEF PodmanSpec, ImplementsContract, Contract!Spec

=============================================================================
