-------------------------- MODULE DockerWorkerProofs --------------------------
(***************************************************************************)
(* Proofs about DockerWorker, for every set of images, parameters, file    *)
(* versions and unit files, and every client_timeout.                      *)
(***************************************************************************)
EXTENDS WorkerContract, TLAPS

(***************************************************************************)
(* The type invariant in parts: the Boolean variables, which Zenon reasons *)
(* about, the others, for the SMT solver, and pc, whose labels differ from *)
(* one engine to the other.                                                *)
(***************************************************************************)
FlagsOK ==
    changed \in BOOLEAN /\ touched \in BOOLEAN /\ volume \in BOOLEAN /\ enabled \in BOOLEAN

HostDataOK ==
    /\ registry \in Images \cup {None}
    /\ image \in Images \cup {None}
    /\ status \in {"absent", "created", "running", "exited"}
    /\ cImage \in Images \cup {None}
    /\ cSpec \in Specs \cup {None}
    /\ cFiles \in Confs \cup {None}
    /\ conf \in Confs
    /\ unitFile \in Units \cup {None}
    /\ sub \in SubStates
    /\ job \in Jobs

DataOK ==
    /\ HostDataOK
    /\ op \in Actions
    /\ par \in Params
    /\ ret \in {"idle", "start_container", "st_recheck", "st_rc"}
    /\ seen \in {"absent", "created", "running", "exited"}
    /\ elapsed \in 0 .. (RestartTimeout + Delay)
    /\ rc \in {0, 1}
    /\ result \in {"none", "ok", "failed", "killed"}

\* The parts make the type invariant.
LEMMA TypeSplit == TypeOK <=> FlagsOK /\ DataOK /\ pc \in Labels
BY DEF TypeOK, HostTypeOK, FlagsOK, DataOK, HostDataOK

\* Type correctness of the steps the host takes by itself.
LEMMA HostNextType ==
    ASSUME HostDataOK, HostNext
    PROVE  HostDataOK'
<1> USE DEF HostDataOK, SubStates, Jobs
<1>1. CASE ContainerExits
  BY <1>1 DEF ContainerExits, ContainerStops, UnitLosesProcess
<1>2. CASE StartJobRuns
  BY <1>2 DEF StartJobRuns, UnitStarts, ContainerStarts, FilesAfterStart, containerVars
<1>3. CASE StopJobRuns
  BY <1>3 DEF StopJobRuns, ContainerStops, containerVars
<1>4. CASE AutoRestarts
  BY <1>4 DEF AutoRestarts, UnitStarts, ContainerStarts, FilesAfterStart, containerVars
<1>5. CASE RegistryChanges
  BY <1>5 DEF RegistryChanges, containerVars
<1> QED
  BY <1>1, <1>2, <1>3, <1>4, <1>5 DEF HostNext

\* Facts about one record of parameters.
LEMMA ParamsType ==
    ASSUME NEW p \in Params
    PROVE  p.spec \in Specs /\ p.unit \in Units
BY WorkerAssumption

\* Every step of a worker method keeps the types.
LEMMA WorkerStepsData ==
    ASSUME DataOK, WorkerSteps
    PROVE  DataOK' /\ pc' \in Labels
<1> USE HostAssumption, WorkerAssumption
    DEF DataOK, HostDataOK, SubStates, Jobs, Labels, Actions, Goto, Done, Fail,
        containerVars, unitVars, taskVars, hostVars, Delay
<1>1. CASE CompareContainer
  BY <1>1 DEF CompareContainer, CompareExists, CompareDiffers, CompareFiles,
              CompareUnit, Reads
<1>2. CASE PullImage("pull_image", "idle")
  BY <1>2 DEF PullImage
<1>3. CASE PullImage("rc_pull", "stop")
  BY <1>3 DEF PullImage
<1>4. CASE PullImage("st_pull", "st_check")
  BY <1>4 DEF PullImage
<1>5. CASE EnsureImage
  BY <1>5 DEF EnsureImage, Reads
<1>6. CASE RemoveImage
  BY <1>6 DEF RemoveImage
<1>7. CASE CreateVolume
  BY <1>7 DEF CreateVolume
<1>8. CASE RemoveVolume
  BY <1>8 DEF RemoveVolume
<1>9. CASE StopContainer
  BY <1>9 DEF StopContainer, Stopped, Reads
<1>10. CASE StopByEngine
  BY <1>10 DEF StopByEngine, ContainerStops, UnitLosesProcess, Stopped
<1>11. CASE StopBySystemd
  BY <1>11 DEF StopBySystemd, JobQueued, JobRefused, UnitReached, UnitTimesOut,
               UnitPolled, Delay, Stopped
<1>12. CASE RemoveContainer
  BY <1>12 DEF RemoveContainer, RemoveUnitFile
<1>13. CASE RemoveByEngine
  BY <1>13 DEF RemoveByEngine, EngineRemoves, UnitLosesProcess, Removed
<1>14. CASE StopAndRemoveContainer
  BY <1>14 DEF StopAndRemoveContainer, Reads
<1>15. CASE CreateContainer
  BY <1>15, ParamsType DEF CreateContainer, EngineCreates
<1>16. CASE CreateUnit
  BY <1>16, ParamsType DEF CreateUnit, WriteUnitFile, EnableUnitFile
<1>17. CASE StartContainer
  BY <1>17 DEF StartContainer, Reads
<1>18. CASE StartCheck
  BY <1>18 DEF StartCheck
<1>19. CASE StartDiffers
  BY <1>19 DEF StartDiffers, StartUnlessUp
<1>20. CASE StartRecheck
  BY <1>20 DEF StartRecheck, StartUnlessUp, Reads
<1>21. CASE StartByEngine
  BY <1>21 DEF StartByEngine, ContainerStarts, FilesAfterStart
<1>22. CASE StartBySystemd
  BY <1>22, ParamsType
  DEF StartBySystemd, WriteUnitFile, EnableUnitFile, JobQueued, JobRefused,
      UnitReached, UnitTimesOut, UnitPolled, Delay
<1>23. CASE StartWaits
  BY <1>23 DEF StartWaits
<1>24. CASE StartExitCode
  BY <1>24 DEF StartExitCode
<1>25. CASE RestartContainer
  BY <1>25 DEF RestartContainer, Reads
<1>26. CASE RestartBySystemd
  BY <1>26, ParamsType
  DEF RestartBySystemd, WriteUnitFile, EnableUnitFile, JobQueued, JobRefused,
      UnitReached, UnitTimesOut, UnitPolled, Delay
<1>27. CASE RestartByEngine
  BY <1>27 DEF RestartByEngine, ContainerStarts, ContainerStops,
               FilesAfterStart, UnitLosesProcess
<1>28. CASE RecreateOrRestart
  BY <1>28 DEF RecreateOrRestart, Reads
<1>29. CASE RecreateDiffers
  BY <1>29 DEF RecreateDiffers, Reads
<1>30. CASE RecreateImage
  BY <1>30 DEF RecreateImage
<1> QED
  BY <1>1, <1>2, <1>3, <1>4, <1>5, <1>6, <1>7, <1>8, <1>9, <1>10, <1>11, <1>12,
     <1>13, <1>14, <1>15, <1>16, <1>17, <1>18, <1>19, <1>20, <1>21, <1>22,
     <1>23, <1>24, <1>25, <1>26, <1>27, <1>28, <1>29, <1>30
  DEF WorkerSteps

\* Every step of a worker method keeps the Boolean variables Boolean.
LEMMA WorkerStepsFlags ==
    ASSUME FlagsOK, WorkerSteps
    PROVE  FlagsOK'
<1> USE DEF FlagsOK, containerVars, unitVars, taskVars, hostVars
<1>1. CASE CompareContainer
  BY <1>1, Zenon DEF CompareContainer, CompareExists, CompareDiffers, CompareFiles,
              CompareUnit, CheckUnitChange, Reads
<1>2. CASE \/ PullImage("pull_image", "idle")
           \/ PullImage("rc_pull", "stop")
           \/ PullImage("st_pull", "st_check")
  BY <1>2, Zenon DEF PullImage
<1>3. CASE EnsureImage \/ RemoveImage \/ CreateVolume \/ RemoveVolume
  BY <1>3, Zenon DEF EnsureImage, RemoveImage, CreateVolume, RemoveVolume, Reads
<1>4. CASE StopContainer \/ StopByEngine
  BY <1>4, Zenon DEF StopContainer, StopByEngine, Reads
<1>5. CASE StopBySystemd
  BY <1>5, Zenon DEF StopBySystemd, JobQueued, JobRefused, UnitReached,
               UnitTimesOut, UnitPolled
<1>6. CASE RemoveContainer \/ RemoveByEngine \/ StopAndRemoveContainer
  BY <1>6, Zenon DEF RemoveContainer, RemoveUnitFile, RemoveByEngine,
               StopAndRemoveContainer, Reads
<1>7. CASE CreateContainer \/ CreateUnit
  BY <1>7, Zenon DEF CreateContainer, CreateUnit, WriteUnitFile, EnableUnitFile
<1>8. CASE StartContainer \/ StartCheck \/ StartDiffers \/ StartRecheck \/ StartByEngine
  BY <1>8, Zenon DEF StartContainer, StartCheck, StartDiffers, StartRecheck,
               StartByEngine, StartUnlessUp, Reads
<1>9. CASE StartBySystemd
  BY <1>9, Zenon DEF StartBySystemd, WriteUnitFile, EnableUnitFile, JobQueued,
               JobRefused, UnitReached, UnitTimesOut, UnitPolled
<1>10. CASE StartWaits \/ StartExitCode \/ RestartContainer \/ RestartByEngine
  BY <1>10, Zenon DEF StartWaits, StartExitCode, RestartContainer,
               RestartByEngine, Reads
<1>11. CASE RestartBySystemd
  BY <1>11, Zenon DEF RestartBySystemd, WriteUnitFile, EnableUnitFile, JobQueued,
                JobRefused, UnitReached, UnitTimesOut, UnitPolled
<1>12. CASE RecreateOrRestart \/ RecreateDiffers \/ RecreateImage
  BY <1>12, Zenon DEF RecreateOrRestart, RecreateDiffers, RecreateImage, Reads
<1> QED
  BY <1>1, <1>2, <1>3, <1>4, <1>5, <1>6, <1>7, <1>8, <1>9, <1>10, <1>11, <1>12,
     Zenon
  DEF WorkerSteps

\* The steps that no method of a worker takes, whichever the engine.
OtherSteps ==
    \/ \E action \in Tasks, p \in Params : Call(action, p)
    \/ Raise
    \/ Killed
    \/ HostSteps
    \/ RenderConfig
    \/ ReferenceChanges
    \/ Reboot

\* They keep the types, and a task begins at its action.
LEMMA OtherStepsType ==
    ASSUME FlagsOK, DataOK, OtherSteps
    PROVE  FlagsOK' /\ DataOK' /\ pc' \in Actions \cup {"idle", pc}
<1>1. ASSUME NEW action \in Tasks, NEW p \in Params, Call(action, p)
      PROVE  FlagsOK' /\ DataOK' /\ pc' \in Actions
  <2>1. FlagsOK'
    BY <1>1, Zenon DEF Call, FlagsOK, hostVars
  <2>2. action \in Actions
    BY TasksAssumption
  <2>3. DataOK' /\ pc' \in Actions
    BY <1>1, <2>2, WorkerAssumption
    DEF Call, ScratchReset, DataOK, HostDataOK, hostVars, Delay
  <2> QED
    BY <2>1, <2>3
<1>2. CASE Raise \/ Killed
  BY <1>2, WorkerAssumption
  DEF Raise, Killed, Fail, ScratchReset, FlagsOK, DataOK, HostDataOK, hostVars, Delay
<1>3. CASE HostSteps
  <2>1. DataOK' /\ pc' = pc
    BY <1>3, HostNextType DEF HostSteps, workerVars, DataOK
  <2>2. FlagsOK'
    BY <1>3, Zenon
    DEF HostSteps, workerVars, FlagsOK, HostNext, ContainerExits, StartJobRuns,
        StopJobRuns, AutoRestarts, RegistryChanges
  <2> QED
    BY <2>1, <2>2
<1>4. CASE RenderConfig \/ ReferenceChanges
  BY <1>4 DEF RenderConfig, ReferenceChanges, containerVars, unitVars, workerVars,
              FlagsOK, DataOK, HostDataOK
<1>5. CASE Reboot
  BY <1>5, WorkerAssumption
  DEF Reboot, HostReboots, ScratchReset, FlagsOK, DataOK, HostDataOK,
      SubStates, Jobs, Delay
<1> QED
  BY <1>1, <1>2, <1>3, <1>4, <1>5 DEF OtherSteps

\* Type correctness of the kolla_container module on its host, for every
\* instance.
THEOREM TypeCorrect == Spec => []TypeOK
<1>1. Init => TypeOK
  <2> SUFFICES ASSUME Init PROVE TypeOK
    OBVIOUS
  <2>1. FlagsOK
    BY DEF Init, HostInit, FlagsOK
  <2>2. DataOK /\ pc \in Labels
    BY HostAssumption, WorkerAssumption
    DEF Init, HostInit, DataOK, HostDataOK, SubStates, Jobs, Labels, Actions, Delay
  <2> QED
    BY <2>1, <2>2, TypeSplit
<1>2. TypeOK /\ [Next]_vars => TypeOK'
  <2> SUFFICES ASSUME FlagsOK, DataOK, pc \in Labels, [Next]_vars
               PROVE  FlagsOK' /\ DataOK' /\ pc' \in Labels
    BY DEF TypeOK, HostTypeOK, FlagsOK, DataOK, HostDataOK
  <2>1. CASE WorkerSteps
    BY <2>1, WorkerStepsFlags, WorkerStepsData
  <2>2. CASE OtherSteps
    BY <2>2, OtherStepsType DEF Labels
  <2>3. CASE UNCHANGED vars
    BY <2>3 DEF vars, hostVars, workerVars, FlagsOK, DataOK, HostDataOK
  <2> QED
    BY <2>1, <2>2, <2>3 DEF Next, OtherSteps
<1> QED
  BY <1>1, <1>2, PTL DEF Spec

-----------------------------------------------------------------------------
(***************************************************************************)
(* The inductive invariant, in layers.  Control, PullOrder and Content are *)
(* those of either engine's worker; Reporting and Separate are docker's.   *)
(***************************************************************************)

\* "sp_unit" and "sp_enable" are podman's.
StopLabels == {"stop", "sp_engine", "sp_unit", "sp_enable", "sp_systemd", "sp_wait",
               "remove", "rm_engine"}
StartLabels == {"st_pull", "st_check", "st_differs", "st_recheck", "st_engine",
                "st_unit", "st_enable", "st_systemd", "st_wait", "st_exit", "st_rc",
                "create", "cr_unit", "cr_enable", "cr_check"}
RestartLabels == {"restart_container", "rs_unit", "rs_enable", "rs_systemd",
                  "rs_wait", "rs_stop", "rs_start"}
Recreate == "recreate_or_restart_container"

\* Which tasks can be at which call.
PcMatchesOp ==
    /\ pc \in {"compare_container", "cmp_differs", "cmp_config", "cmp_unit"}
         => op = "compare_container"
    /\ pc = "pull_image" => op \in {"pull_image", "ensure_image"}
    /\ pc \in {"ensure_image", "create_volume", "remove_volume", "remove_image",
               "remove_container", "stop_container", "stop_and_remove_container"}
         => op = pc
    /\ pc \in {"recreate_or_restart_container", "rc_differs", "rc_image", "rc_pull"}
         => op = Recreate
    /\ pc \in StartLabels \cup {"start_container"} => op \in {"start_container", Recreate}
    /\ pc \in RestartLabels => op \in {"restart_container", Recreate}
    /\ pc \in StopLabels => op \in {"remove_container", "stop_container",
                                    "stop_and_remove_container",
                                    "start_container", Recreate}

\* Where stop_container and remove_container return to.
ReturnAddress ==
    /\ ret # "idle" => pc \in StopLabels \cup {"rc_pull", "idle"}
    /\ pc \in StopLabels /\ op \in {"start_container", Recreate} => ret # "idle"
    /\ pc = "rc_pull" => ret = "start_container"
    /\ ret = "start_container" => op = Recreate
    /\ ret \in {"st_recheck", "st_rc"} => op \in {"start_container", Recreate}
    /\ ret = "st_rc" \/ pc = "st_rc" => ~par.detach

Control == PcMatchesOp /\ ReturnAddress

\* No pull follows a change of the host.
PullOrder ==
    /\ pc \in {"pull_image", "ensure_image", "recreate_or_restart_container",
               "rc_differs", "rc_image", "rc_pull", "st_pull"} => ~touched
    /\ pc = "start_container" => ~touched \/ image # None
    /\ ret = "start_container" /\ pc \notin {"rc_pull", "idle"} => image # None

\* What the task has done to the host so far, it will report.
Reporting ==
    /\ touched => changed
    /\ pc \in {"sp_engine", "sp_systemd", "sp_wait", "cr_unit", "cr_enable",
               "st_engine", "st_unit", "st_enable", "st_systemd", "st_wait",
               "rs_unit", "rs_enable", "rs_systemd", "rs_wait", "rs_stop",
               "rs_start"} => changed

\* The container has the image and the parameters of the task.
AsAsked == status # "absent" /\ cSpec = par.spec /\ cImage = image

\* A container that has been started holds the current files.
Fresh == status = "created" \/ cFiles = conf

\* The container, its files and its unit at each step of a task.  A container
\* that is not oneshot runs exactly when its unit does.
Content ==
    /\ ~Oneshot => (status = "running" <=> sub = "running")
    /\ status \in {"running", "exited"} => cFiles # None
    /\ status = "created" => cFiles = None
    /\ pc \in {"cr_unit", "cr_enable", "cr_check", "st_engine", "st_unit",
               "st_enable", "st_systemd", "st_wait", "st_exit"} => AsAsked
    /\ pc \in RestartLabels /\ op = Recreate => AsAsked /\ par.spec \in CopyAlways
    /\ pc = "rc_differs" => par.spec \notin CopyOnce
    /\ pc \in {"st_recheck", "create"} => status = "absent"
    /\ pc \in {"start_container", "st_pull", "st_check", "st_differs"} /\ op = Recreate
         => status = "absent"
    /\ pc \in {"cr_unit", "cr_enable", "cr_check", "st_engine", "st_unit",
               "st_enable", "st_systemd", "st_wait"} /\ op = Recreate => Fresh
    /\ pc = "st_exit" /\ op = Recreate => cFiles = conf
    /\ pc \in {"cr_enable", "cr_check", "st_unit", "st_enable", "st_systemd",
               "st_wait", "st_exit"} /\ op = Recreate /\ ~Oneshot
         => unitFile = par.unit
    /\ pc \in {"rs_enable", "rs_systemd", "rs_wait"} => unitFile = par.unit
    /\ pc = "rs_wait" /\ op = Recreate
         => job = "restart" \/ (job = "start" /\ sub = "dead") \/ cFiles = conf
    /\ pc \in {"rs_stop", "rs_start"} => Oneshot
    /\ pc \in {"st_unit", "st_enable", "st_systemd", "st_wait"} => ~Oneshot
    /\ pc \in {"rs_unit", "rs_enable", "rs_systemd", "rs_wait"} /\ op = Recreate
         => ~Oneshot
    /\ pc = "st_engine" => Oneshot
    /\ pc \in {"cmp_config", "cmp_unit"} => AsAsked
    /\ pc = "cmp_unit" => cFiles = conf

\* docker: a oneshot container has no unit file and never meets systemd, which
\* therefore cannot start it between the two halves of a restart.
Separate ==
    /\ Oneshot => unitFile = None /\ job = "none" /\ sub = "dead"
    /\ pc \in {"cr_unit", "cr_enable", "rs_unit", "rs_enable", "rs_systemd", "rs_wait",
               "sp_systemd", "sp_wait"} => ~Oneshot
    /\ pc = "rs_start" => status # "running"

-----------------------------------------------------------------------------
(* Preservation of the layers.                                             *)

\* A worker step keeps task, call and return address consistent.
LEMMA WorkerStepsControl ==
    ASSUME DataOK, Control, WorkerSteps
    PROVE  Control'
<1> USE DEF PcMatchesOp, ReturnAddress, Control, StopLabels, StartLabels,
      RestartLabels, Recreate, Goto, Done, Fail, taskVars, DataOK
<1>1. CASE CompareExists \/ CompareDiffers
  BY <1>1 DEF CompareExists, CompareDiffers, Reads
<1>2. CASE CompareFiles
  BY <1>2 DEF CompareFiles, Reads
<1>3. CASE CompareUnit
  BY <1>3 DEF CompareUnit, Reads
<1>4. CASE PullImage("pull_image", "idle")
  BY <1>4 DEF PullImage
<1>5. CASE PullImage("rc_pull", "stop")
  BY <1>5 DEF PullImage
<1>6. CASE PullImage("st_pull", "st_check")
  BY <1>6 DEF PullImage
<1>7. CASE EnsureImage \/ RemoveImage
  BY <1>7 DEF EnsureImage, RemoveImage, Reads
<1>8. CASE CreateVolume \/ RemoveVolume
  BY <1>8 DEF CreateVolume, RemoveVolume
<1>9. CASE StopContainer
  BY <1>9 DEF StopContainer, Stopped, Reads
<1>10. CASE StopByEngine
  BY <1>10 DEF StopByEngine, Stopped
<1>11. CASE StopBySystemd
  BY <1>11 DEF StopBySystemd, JobQueued, JobRefused, UnitReached, UnitTimesOut,
      UnitPolled, Stopped
<1>12. CASE RemoveContainer
  BY <1>12 DEF RemoveContainer, RemoveUnitFile
<1>13. CASE RemoveByEngine
  BY <1>13 DEF RemoveByEngine, Removed
<1>14. CASE StopAndRemoveContainer \/ StartContainer \/ StartCheck
  BY <1>14 DEF StopAndRemoveContainer, StartContainer, StartCheck, Reads
<1>15. CASE CreateContainer
  BY <1>15 DEF CreateContainer
<1>16. CASE CreateUnit
  BY <1>16 DEF CreateUnit, WriteUnitFile, EnableUnitFile
<1>17. CASE StartDiffers
  BY <1>17 DEF StartDiffers, StartUnlessUp
<1>18. CASE StartRecheck
  BY <1>18 DEF StartRecheck, StartUnlessUp, Reads
<1>19. CASE StartByEngine
  BY <1>19 DEF StartByEngine
<1>20. CASE StartBySystemd
  BY <1>20 DEF StartBySystemd, WriteUnitFile, EnableUnitFile, JobQueued,
      JobRefused, UnitReached, UnitTimesOut, UnitPolled
<1>21. CASE StartWaits \/ StartExitCode
  BY <1>21 DEF StartWaits, StartExitCode
<1>22. CASE RestartContainer
  BY <1>22 DEF RestartContainer, Reads
<1>23. CASE RestartBySystemd
  BY <1>23 DEF RestartBySystemd, WriteUnitFile, EnableUnitFile, JobQueued,
      JobRefused, UnitReached, UnitTimesOut, UnitPolled
<1>24. CASE RestartByEngine
  BY <1>24 DEF RestartByEngine
<1>25. CASE RecreateOrRestart \/ RecreateImage
  BY <1>25 DEF RecreateOrRestart, RecreateImage, Reads
<1>26. CASE RecreateDiffers
  BY <1>26 DEF RecreateDiffers, Reads
<1> QED
  BY <1>1, <1>2, <1>3, <1>4, <1>5, <1>6, <1>7, <1>8, <1>9, <1>10, <1>11, <1>12,
      <1>13, <1>14, <1>15, <1>16, <1>17, <1>18, <1>19, <1>20, <1>21, <1>22, <1>23,
      <1>24, <1>25, <1>26
  DEF WorkerSteps, CompareContainer

\* A worker step keeps the account of what was touched and what is reported.
LEMMA WorkerStepsAccounting ==
    ASSUME DataOK, Control, PullOrder, WorkerSteps
    PROVE  PullOrder' /\ (Reporting => Reporting')
<1> USE DEF PullOrder, Reporting, hostVars, DataOK, PcMatchesOp, ReturnAddress, Control,
      StopLabels, StartLabels, RestartLabels, Recreate, Goto, Done, Fail, taskVars
<1>1. CASE CompareExists \/ CompareDiffers
  BY <1>1 DEF CompareExists, CompareDiffers, Reads
<1>2. CASE CompareFiles
  BY <1>2 DEF CompareFiles, Reads
<1>3. CASE CompareUnit
  BY <1>3 DEF CompareUnit, CheckUnitChange, Reads
<1>4. CASE PullImage("pull_image", "idle")
  BY <1>4 DEF PullImage
<1>5. CASE PullImage("rc_pull", "stop")
  BY <1>5 DEF PullImage
<1>6. CASE PullImage("st_pull", "st_check")
  BY <1>6 DEF PullImage
<1>7. CASE EnsureImage \/ RemoveImage
  BY <1>7 DEF EnsureImage, RemoveImage, Reads
<1>8. CASE CreateVolume \/ RemoveVolume
  BY <1>8 DEF CreateVolume, RemoveVolume
<1>9. CASE StopContainer
  BY <1>9 DEF StopContainer, Stopped, Reads
<1>10. CASE StopByEngine
  BY <1>10 DEF StopByEngine, Stopped
<1>11. CASE StopBySystemd
  BY <1>11 DEF StopBySystemd, JobQueued, JobRefused, UnitReached, UnitTimesOut,
      UnitPolled, Stopped
<1>12. CASE RemoveContainer
  BY <1>12 DEF RemoveContainer, RemoveUnitFile
<1>13. CASE RemoveByEngine
  BY <1>13 DEF RemoveByEngine, Removed
<1>14. CASE StopAndRemoveContainer \/ StartContainer \/ StartCheck
  BY <1>14 DEF StopAndRemoveContainer, StartContainer, StartCheck, Reads
<1>15. CASE CreateContainer
  BY <1>15 DEF CreateContainer
<1>16. CASE CreateUnit
  BY <1>16 DEF CreateUnit, WriteUnitFile, CheckUnitChange, EnableUnitFile
<1>17. CASE StartDiffers
  BY <1>17 DEF StartDiffers, StartUnlessUp
<1>18. CASE StartRecheck
  BY <1>18 DEF StartRecheck, StartUnlessUp, Reads
<1>19. CASE StartByEngine
  BY <1>19 DEF StartByEngine
<1>20. CASE StartBySystemd
  BY <1>20 DEF StartBySystemd, WriteUnitFile, CheckUnitChange, EnableUnitFile,
      JobQueued, JobRefused, UnitReached, UnitTimesOut, UnitPolled
<1>21. CASE StartWaits \/ StartExitCode
  BY <1>21 DEF StartWaits, StartExitCode
<1>22. CASE RestartContainer
  BY <1>22 DEF RestartContainer, Reads
<1>23. CASE RestartBySystemd
  BY <1>23 DEF RestartBySystemd, WriteUnitFile, CheckUnitChange, EnableUnitFile,
      JobQueued, JobRefused, UnitReached, UnitTimesOut, UnitPolled
<1>24. CASE RestartByEngine
  BY <1>24 DEF RestartByEngine
<1>25. CASE RecreateOrRestart \/ RecreateImage
  BY <1>25 DEF RecreateOrRestart, RecreateImage, Reads
<1>26. CASE RecreateDiffers
  BY <1>26 DEF RecreateDiffers, Reads
<1> QED
  BY <1>1, <1>2, <1>3, <1>4, <1>5, <1>6, <1>7, <1>8, <1>9, <1>10, <1>11, <1>12,
      <1>13, <1>14, <1>15, <1>16, <1>17, <1>18, <1>19, <1>20, <1>21, <1>22, <1>23,
      <1>24, <1>25, <1>26
  DEF WorkerSteps, CompareContainer

\* A worker step keeps the container, its files and its unit as the task wants
\* them at that step.
LEMMA WorkerStepsContent ==
    ASSUME DataOK, Control, Content, WorkerSteps
    PROVE  Content' /\ (Separate => Separate')
<1> USE HostAssumption, WorkerAssumption
    DEF DataOK, HostDataOK, Content, Separate, AsAsked,
      Fresh, hostVars, containerVars, unitVars, PcMatchesOp, ReturnAddress,
      Control, StopLabels, StartLabels, RestartLabels, Recreate, Goto, Done, Fail,
      taskVars
<1>1. CASE CompareExists \/ CompareDiffers
  BY <1>1 DEF CompareExists, CompareDiffers, CheckContainerDiffers, CompareImage,
      Reads
<1>2. CASE CompareFiles
  BY <1>2 DEF CompareFiles, CompareConfig, Reads
<1>3. CASE CompareUnit
  BY <1>3 DEF CompareUnit, CheckUnitChange, Reads
<1>4. CASE PullImage("pull_image", "idle")
  BY <1>4 DEF PullImage
<1>5. CASE PullImage("rc_pull", "stop")
  BY <1>5 DEF PullImage
<1>6. CASE PullImage("st_pull", "st_check")
  BY <1>6 DEF PullImage
<1>7. CASE EnsureImage \/ RemoveImage
  BY <1>7 DEF EnsureImage, RemoveImage, Reads
<1>8. CASE CreateVolume \/ RemoveVolume
  BY <1>8 DEF CreateVolume, RemoveVolume
<1>9. CASE StopContainer
  BY <1>9 DEF StopContainer, Stopped, Reads
<1>10. CASE StopByEngine
  BY <1>10 DEF StopByEngine, ContainerStops, UnitLosesProcess, Stopped
<1>11. CASE StopBySystemd
  BY <1>11 DEF StopBySystemd, JobQueued, JobRefused, UnitReached, UnitTimesOut,
      UnitPolled, UnitStates, Stopped
<1>12. CASE RemoveContainer
  BY <1>12 DEF RemoveContainer, RemoveUnitFile
<1>13. CASE RemoveByEngine
  BY <1>13 DEF RemoveByEngine, EngineRemoves, UnitLosesProcess, Removed
<1>14. CASE StopAndRemoveContainer \/ StartContainer \/ StartCheck
  BY <1>14 DEF StopAndRemoveContainer, StartContainer, StartCheck, Reads
<1>15. CASE CreateContainer
  BY <1>15 DEF CreateContainer, EngineCreates
<1>16. CASE CreateUnit
  BY <1>16 DEF CreateUnit, WriteUnitFile, CheckUnitChange, EnableUnitFile
<1>17. CASE StartDiffers
  BY <1>17 DEF StartDiffers, StartUnlessUp, CheckContainerDiffers, CompareImage
<1>18. CASE StartRecheck
  BY <1>18 DEF StartRecheck, StartUnlessUp, Reads
<1>19. CASE StartByEngine
  BY <1>19 DEF StartByEngine, ContainerStarts, FilesAfterStart
<1>20. CASE StartBySystemd
  BY <1>20 DEF StartBySystemd, WriteUnitFile, CheckUnitChange, EnableUnitFile,
      JobQueued, JobRefused, UnitReached, UnitTimesOut, UnitPolled, UnitStates
<1>21. CASE StartWaits \/ StartExitCode
  BY <1>21 DEF StartWaits, StartExitCode
<1>22. CASE RestartContainer
  BY <1>22 DEF RestartContainer, Reads
<1>23. CASE RestartBySystemd
  BY <1>23 DEF RestartBySystemd, WriteUnitFile, CheckUnitChange, EnableUnitFile,
      JobQueued, JobRefused, UnitReached, UnitTimesOut, UnitPolled, UnitStates
<1>24. CASE RestartByEngine
  BY <1>24 DEF RestartByEngine, ContainerStarts, ContainerStops, FilesAfterStart,
      UnitLosesProcess
<1>25. CASE RecreateOrRestart \/ RecreateImage
  BY <1>25 DEF RecreateOrRestart, RecreateImage, Reads
<1>26. CASE RecreateDiffers
  BY <1>26 DEF RecreateDiffers, CheckContainerDiffers, CompareImage, Reads
<1> QED
  BY <1>1, <1>2, <1>3, <1>4, <1>5, <1>6, <1>7, <1>8, <1>9, <1>10, <1>11, <1>12,
      <1>13, <1>14, <1>15, <1>16, <1>17, <1>18, <1>19, <1>20, <1>21, <1>22, <1>23,
      <1>24, <1>25, <1>26
  DEF WorkerSteps, CompareContainer

-----------------------------------------------------------------------------
(* The invariant holds in every reachable state.                           *)

\* What holds of either worker; docker's adds Reporting and Separate.
CommonInv == DataOK /\ Control /\ PullOrder /\ Content

Inv == CommonInv /\ Reporting /\ Separate

\* What a step of the host may do to the container and its unit.
LEMMA HostStepsInv ==
    ASSUME CommonInv, HostSteps
    PROVE  Control' /\ PullOrder' /\ Content' /\ (Separate => Separate')
<1> USE DEF HostSteps, workerVars
<1>1. HostNext => image' = image
  BY DEF HostNext, ContainerExits, StartJobRuns, StopJobRuns, AutoRestarts,
         RegistryChanges
<1>2. Control' /\ PullOrder'
  BY <1>1 DEF CommonInv, Control, PcMatchesOp, ReturnAddress, PullOrder
<1>3. Content' /\ (Separate => Separate')
  <2> USE HostAssumption
      DEF CommonInv, DataOK, HostDataOK, SubStates, Jobs, Content, Separate,
          AsAsked, Fresh, RestartLabels, Recreate
  <2>1. CASE ContainerExits
    BY <2>1 DEF ContainerExits, ContainerStops, UnitLosesProcess
  <2>2. CASE StartJobRuns
    BY <2>2 DEF StartJobRuns, UnitStarts, ContainerStarts, FilesAfterStart,
                containerVars
  <2>3. CASE StopJobRuns
    BY <2>3 DEF StopJobRuns, ContainerStops, containerVars
  <2>4. CASE AutoRestarts
    BY <2>4 DEF AutoRestarts, UnitStarts, ContainerStarts, FilesAfterStart,
                containerVars
  <2>5. CASE RegistryChanges
    BY <2>5 DEF RegistryChanges, containerVars
  <2> QED
    BY <2>1, <2>2, <2>3, <2>4, <2>5 DEF HostNext
<1> QED
  BY <1>2, <1>3

\* A task begins with nothing touched and no return address.
LEMMA CallInv ==
    ASSUME CommonInv, NEW action \in Tasks, NEW p \in Params, Call(action, p)
    PROVE  Control' /\ PullOrder' /\ Content' /\ Reporting' /\ (Separate => Separate')
<1>1. action \in Actions
  BY TasksAssumption
<1>2. Control' /\ PullOrder' /\ Reporting'
  BY <1>1 DEF Call, ScratchReset, Control, PcMatchesOp, ReturnAddress, PullOrder,
              Reporting, Actions, StopLabels, StartLabels, RestartLabels, Recreate
<1>3. Content' /\ (Separate => Separate')
  BY <1>1 DEF CommonInv, Content, Separate, AsAsked, Fresh, Call, hostVars,
              Actions, RestartLabels, Recreate
<1> QED
  BY <1>2, <1>3

\* A task that ends between two calls leaves a host that satisfies the
\* invariant: so do the other steps taken while no task runs.
LEMMA InterruptionInv ==
    ASSUME CommonInv,
           Raise \/ Killed \/ RenderConfig \/ ReferenceChanges \/ Reboot
    PROVE  Control' /\ PullOrder' /\ Content' /\ (Separate => Separate')
<1> USE DEF ScratchReset, Fail, hostVars, workerVars, containerVars, unitVars
<1>1. Control' /\ PullOrder'
  BY DEF CommonInv, Raise, Killed, RenderConfig, ReferenceChanges, Reboot, Control,
         PcMatchesOp, ReturnAddress, PullOrder, StopLabels, StartLabels,
         RestartLabels
<1>2. Content' /\ (Separate => Separate')
  BY DEF CommonInv, Raise, Killed, RenderConfig, ReferenceChanges, Reboot, HostReboots,
         Content, Separate, RestartLabels
<1> QED
  BY <1>1, <1>2

\* Together: the steps that no method takes keep every layer.
LEMMA OtherStepsInv ==
    ASSUME CommonInv, FlagsOK, OtherSteps
    PROVE  CommonInv' /\ (Reporting => Reporting') /\ (Separate => Separate')
<1>1. DataOK'
  BY OtherStepsType DEF CommonInv
<1>2. ASSUME NEW action \in Tasks, NEW p \in Params, Call(action, p)
      PROVE  Control' /\ PullOrder' /\ Content' /\ Reporting' /\ (Separate => Separate')
  BY <1>2, CallInv
<1>3. CASE Raise \/ Killed \/ RenderConfig \/ ReferenceChanges \/ Reboot \/ HostSteps
  <2>1. Control' /\ PullOrder' /\ Content' /\ (Separate => Separate')
    BY <1>3, HostStepsInv, InterruptionInv
  <2>2. Reporting => Reporting'
    BY <1>3 DEF Reporting, Raise, Killed, RenderConfig, ReferenceChanges, Reboot,
        HostSteps, Fail, workerVars
  <2> QED
    BY <1>1, <2>1, <2>2 DEF CommonInv
<1> QED
  BY <1>1, <1>2, <1>3 DEF CommonInv, OtherSteps

\* Nothing holds of a host that no task has touched but what Init says.
LEMMA InitInv == Init => Inv /\ FlagsOK
<1>1. Init => Inv
  BY HostAssumption, WorkerAssumption
  DEF Init, HostInit, Inv, CommonInv, DataOK, HostDataOK, SubStates, Jobs, Actions,
      Delay, Control, PcMatchesOp, ReturnAddress, PullOrder, Reporting, Content,
      Separate, StopLabels, StartLabels, RestartLabels
<1>2. Init => FlagsOK
  BY DEF Init, HostInit, FlagsOK
<1> QED
  BY <1>1, <1>2

\* The invariant that the safety properties below are read off.
THEOREM Invariance == Spec => []Inv
<1>1. Inv /\ FlagsOK /\ [Next]_vars => Inv'
  <2> SUFFICES ASSUME Inv, FlagsOK, [Next]_vars PROVE Inv'
    OBVIOUS
  <2>1. CASE WorkerSteps
    BY <2>1, WorkerStepsData, WorkerStepsControl, WorkerStepsAccounting,
       WorkerStepsContent
    DEF Inv, CommonInv
  <2>2. CASE OtherSteps
    BY <2>2, OtherStepsInv DEF Inv
  <2>3. CASE UNCHANGED vars
    BY <2>3
    DEF vars, hostVars, workerVars, Inv, CommonInv, DataOK, HostDataOK, Control,
        PcMatchesOp, ReturnAddress, PullOrder, Reporting, Content, Separate, AsAsked,
        Fresh
  <2> QED
    BY <2>1, <2>2, <2>3 DEF Next, OtherSteps
<1>2. TypeOK => FlagsOK
  BY TypeSplit
<1> QED
  BY <1>1, <1>2, InitInv, TypeCorrect, PTL DEF Spec

-----------------------------------------------------------------------------
(* The properties.                                                         *)

\* A failing pull never finds a host that the task has already modified.
THEOREM PullsFirst == Spec => []NothingTouchedBeforePull
<1>1. Inv => NothingTouchedBeforePull
  BY DEF Inv, CommonInv, PullOrder, NothingTouchedBeforePull
<1> QED
  BY <1>1, Invariance, PTL

\* changed=False is never reported for a host the task has modified.
THEOREM ReportsItsChanges == Spec => []UnchangedMeansUntouched
<1>1. Inv => UnchangedMeansUntouched
  BY DEF Inv, Reporting, UnchangedMeansUntouched
<1> QED
  BY <1>1, Invariance, PTL

Promises == ConvergedStep /\ UnitInstalledStep /\ ConfigDeliveredStep
            /\ DriftStep /\ OwnContainerStep

\* Every step of a worker method keeps the five promises: a restart by the
\* engine, only if nothing else has started the container.
LEMMA WorkerStepsPromises ==
    ASSUME CommonInv, WorkerSteps,
           pc = "rs_start" /\ op = Recreate => status # "running"
    PROVE  Promises
<1> USE HostAssumption
    DEF Promises, ConvergedStep, UnitInstalledStep, ConfigDeliveredStep,
      DriftStep, OwnContainerStep, Finishes, CommonInv, DataOK, HostDataOK, Content,
      AsAsked, Fresh, hostVars, containerVars, unitVars,
      PcMatchesOp, ReturnAddress, Control, StopLabels, StartLabels, RestartLabels,
      Recreate, Goto, Done, Fail, taskVars
<1>1. CASE CompareExists \/ CompareDiffers
  BY <1>1 DEF CompareExists, CompareDiffers, CheckContainerDiffers, CompareImage,
      Reads
<1>2. CASE CompareFiles
  BY <1>2 DEF CompareFiles, CompareConfig, Reads
<1>3. CASE CompareUnit
  BY <1>3 DEF CompareUnit, CheckUnitChange, Reads
<1>4. CASE PullImage("pull_image", "idle")
  BY <1>4 DEF PullImage
<1>5. CASE PullImage("rc_pull", "stop")
  BY <1>5 DEF PullImage
<1>6. CASE PullImage("st_pull", "st_check")
  BY <1>6 DEF PullImage
<1>7. CASE EnsureImage \/ RemoveImage
  BY <1>7 DEF EnsureImage, RemoveImage, Reads
<1>8. CASE CreateVolume \/ RemoveVolume
  BY <1>8 DEF CreateVolume, RemoveVolume
<1>9. CASE StopContainer
  BY <1>9 DEF StopContainer, Stopped, Reads
<1>10. CASE StopByEngine
  BY <1>10 DEF StopByEngine, ContainerStops, UnitLosesProcess, Stopped
<1>11. CASE StopBySystemd
  BY <1>11 DEF StopBySystemd, JobQueued, JobRefused, UnitReached, UnitTimesOut,
      UnitPolled, UnitStates, Stopped
<1>12. CASE RemoveContainer
  BY <1>12 DEF RemoveContainer, RemoveUnitFile
<1>13. CASE RemoveByEngine
  BY <1>13 DEF RemoveByEngine, EngineRemoves, UnitLosesProcess, Removed
<1>14. CASE StopAndRemoveContainer \/ StartContainer \/ StartCheck
  BY <1>14 DEF StopAndRemoveContainer, StartContainer, StartCheck, Reads
<1>15. CASE CreateContainer
  BY <1>15 DEF CreateContainer, EngineCreates
<1>16. CASE CreateUnit
  BY <1>16 DEF CreateUnit, WriteUnitFile, CheckUnitChange, EnableUnitFile
<1>17. CASE StartDiffers
  BY <1>17 DEF StartDiffers, StartUnlessUp, CheckContainerDiffers, CompareImage
<1>18. CASE StartRecheck
  BY <1>18 DEF StartRecheck, StartUnlessUp, Reads
<1>19. CASE StartByEngine
  BY <1>19 DEF StartByEngine, ContainerStarts, FilesAfterStart
<1>20. CASE StartBySystemd
  BY <1>20 DEF StartBySystemd, WriteUnitFile, CheckUnitChange, EnableUnitFile,
      JobQueued, JobRefused, UnitReached, UnitTimesOut, UnitPolled, UnitStates
<1>21. CASE StartWaits \/ StartExitCode
  BY <1>21 DEF StartWaits, StartExitCode
<1>22. CASE RestartContainer
  BY <1>22 DEF RestartContainer, Reads
<1>23. CASE RestartBySystemd
  BY <1>23 DEF RestartBySystemd, WriteUnitFile, CheckUnitChange, EnableUnitFile,
      JobQueued, JobRefused, UnitReached, UnitTimesOut, UnitPolled, UnitStates
<1>24. CASE RestartByEngine
  BY <1>24 DEF RestartByEngine, ContainerStarts, ContainerStops, FilesAfterStart,
      UnitLosesProcess
<1>25. CASE RecreateOrRestart \/ RecreateImage
  BY <1>25 DEF RecreateOrRestart, RecreateImage, Reads
<1>26. CASE RecreateDiffers
  BY <1>26 DEF RecreateDiffers, CheckContainerDiffers, CompareImage, Reads
<1> QED
  BY <1>1, <1>2, <1>3, <1>4, <1>5, <1>6, <1>7, <1>8, <1>9, <1>10, <1>11, <1>12,
      <1>13, <1>14, <1>15, <1>16, <1>17, <1>18, <1>19, <1>20, <1>21, <1>22, <1>23,
      <1>24, <1>25, <1>26
  DEF WorkerSteps, CompareContainer

\* No other step ends a task with success.
LEMMA OtherStepsPromises ==
    ASSUME OtherSteps \/ UNCHANGED vars
    PROVE  Promises
<1>1. ~(pc # "idle" /\ pc' = "idle" /\ result' = "ok")
  BY DEF OtherSteps, Call, Raise, Fail, Killed, HostSteps, RenderConfig,
         ReferenceChanges, Reboot, vars, workerVars
<1>2. pc = "st_exit" => pc' \notin {"stop", "st_rc"}
  BY DEF OtherSteps, Call, Raise, Fail, Killed, HostSteps, RenderConfig,
         ReferenceChanges, Reboot, vars, workerVars
<1> QED
  BY <1>1, <1>2
  DEF Promises, ConvergedStep, UnitInstalledStep, ConfigDeliveredStep, DriftStep,
      OwnContainerStep, Finishes

\* Every step keeps the five promises.
LEMMA NextPromises ==
    ASSUME Inv, [Next]_vars
    PROVE  Promises
<1>1. CASE WorkerSteps
  BY <1>1, WorkerStepsPromises DEF Inv, Separate
<1> QED
  BY <1>1, OtherStepsPromises DEF Next, OtherSteps

\* Success of start or recreate means the container asked for is there.
THEOREM Converges == Spec => ConvergedOnSuccess
BY Invariance, NextPromises, PTL DEF Spec, Promises, ConvergedOnSuccess

\* Success of the handler means the unit file asked for is there.
THEOREM InstallsUnit == Spec => UnitInstalledOnSuccess
BY Invariance, NextPromises, PTL DEF Spec, Promises, UnitInstalledOnSuccess

\* Success of the handler means the container has, or is about to get, the
\* rendered files.
THEOREM DeliversConfig == Spec => ConfigDeliveredOnSuccess
BY Invariance, NextPromises, PTL DEF Spec, Promises, ConfigDeliveredOnSuccess

\* compare_container misses no drift.
THEOREM ReportsDrift == Spec => DriftIsReported
BY Invariance, NextPromises, PTL DEF Spec, Promises, DriftIsReported

\* A bootstrap task reports the exit code of its own container.
THEOREM WaitsForOwn == Spec => WaitsForItsOwnContainer
BY Invariance, NextPromises, PTL DEF Spec, Promises, WaitsForItsOwnContainer

-----------------------------------------------------------------------------
(***************************************************************************)
(* The refinement of ContainerContract.  Its Remove and Kept need one more *)
(* layer: a deployment that gives its container up, or that is past the    *)
(* pull, has an image, a bootstrap container that was to be removed is     *)
(* gone when its exit code is reported, and stop_container on its own      *)
(* never reaches remove_container.                                         *)
(***************************************************************************)
Grounds ==
    /\ pc \in {"remove", "rm_engine"} => op # "stop_container"
    /\ pc \in StopLabels /\ op \in {"start_container", Recreate} => image # None
    /\ pc \in StartLabels \ {"st_pull"} => image # None
    /\ pc \in RestartLabels /\ op = Recreate => image # None
    /\ pc = "st_rc" /\ par.remove_on_exit => status = "absent"

\* A worker step keeps the image that a deployment has found or pulled.
LEMMA WorkerStepsGrounds ==
    ASSUME DataOK, Control, Grounds, WorkerSteps
    PROVE  Grounds'
<1> USE DEF Grounds, PcMatchesOp, ReturnAddress, Control, StopLabels, StartLabels,
      RestartLabels, Recreate, Goto, Done, Fail, taskVars, DataOK, HostDataOK,
      hostVars, containerVars
<1>1. CASE CompareContainer
  BY <1>1 DEF CompareContainer, CompareExists, CompareDiffers, CompareFiles,
      CompareUnit, Reads
<1>2. CASE PullImage("pull_image", "idle")
  BY <1>2 DEF PullImage
<1>3. CASE PullImage("rc_pull", "stop")
  BY <1>3 DEF PullImage
<1>4. CASE PullImage("st_pull", "st_check")
  BY <1>4 DEF PullImage
<1>5. CASE EnsureImage \/ RemoveImage
  BY <1>5 DEF EnsureImage, RemoveImage, Reads
<1>6. CASE CreateVolume \/ RemoveVolume
  BY <1>6 DEF CreateVolume, RemoveVolume
<1>7. CASE StopContainer
  BY <1>7 DEF StopContainer, Stopped, Reads
<1>8. CASE StopByEngine
  BY <1>8 DEF StopByEngine, ContainerStops, Stopped
<1>9. CASE StopBySystemd
  BY <1>9 DEF StopBySystemd, JobQueued, JobRefused, UnitReached, UnitTimesOut,
      UnitPolled, Stopped
<1>10. CASE RemoveContainer
  BY <1>10 DEF RemoveContainer, RemoveUnitFile
<1>11. CASE RemoveByEngine
  BY <1>11 DEF RemoveByEngine, EngineRemoves, Removed
<1>12. CASE StopAndRemoveContainer \/ StartContainer \/ StartCheck
  BY <1>12 DEF StopAndRemoveContainer, StartContainer, StartCheck, Reads
<1>13. CASE CreateContainer \/ CreateUnit
  BY <1>13 DEF CreateContainer, CreateUnit, WriteUnitFile, EnableUnitFile
<1>14. CASE StartDiffers
  BY <1>14 DEF StartDiffers, StartUnlessUp
<1>15. CASE StartRecheck
  BY <1>15 DEF StartRecheck, StartUnlessUp, Reads
<1>16. CASE StartByEngine
  BY <1>16 DEF StartByEngine
<1>17. CASE StartBySystemd
  BY <1>17 DEF StartBySystemd, WriteUnitFile, EnableUnitFile, JobQueued, JobRefused,
      UnitReached, UnitTimesOut, UnitPolled
<1>18. CASE StartWaits \/ StartExitCode
  BY <1>18 DEF StartWaits, StartExitCode
<1>19. CASE RestartContainer
  BY <1>19 DEF RestartContainer, Reads
<1>20. CASE RestartBySystemd
  BY <1>20 DEF RestartBySystemd, WriteUnitFile, EnableUnitFile, JobQueued,
      JobRefused, UnitReached, UnitTimesOut, UnitPolled
<1>21. CASE RestartByEngine
  BY <1>21 DEF RestartByEngine
<1>22. CASE RecreateOrRestart \/ RecreateImage
  BY <1>22 DEF RecreateOrRestart, RecreateImage, Reads
<1>23. CASE RecreateDiffers
  BY <1>23 DEF RecreateDiffers, CheckContainerDiffers, CompareImage, Reads
<1> QED
  BY <1>1, <1>2, <1>3, <1>4, <1>5, <1>6, <1>7, <1>8, <1>9, <1>10, <1>11, <1>12,
      <1>13, <1>14, <1>15, <1>16, <1>17, <1>18, <1>19, <1>20, <1>21, <1>22, <1>23
  DEF WorkerSteps

\* What the host does between two calls, it does to neither the image nor the
\* identity of the container.
LEMMA HostKeepsIdentity ==
    ASSUME HostDataOK, HostNext
    PROVE  /\ UNCHANGED <<image, cImage, cSpec, volume>>
           /\ status' = "absent" <=> status = "absent"
<1> USE DEF HostDataOK, containerVars
<1>1. CASE ContainerExits
  BY <1>1 DEF ContainerExits, ContainerStops
<1>2. CASE StartJobRuns
  BY <1>2 DEF StartJobRuns, UnitStarts, ContainerStarts
<1>3. CASE StopJobRuns
  BY <1>3 DEF StopJobRuns, ContainerStops
<1>4. CASE AutoRestarts
  BY <1>4 DEF AutoRestarts, UnitStarts, ContainerStarts
<1>5. CASE RegistryChanges
  BY <1>5 DEF RegistryChanges
<1> QED
  BY <1>1, <1>2, <1>3, <1>4, <1>5 DEF HostNext

ContractInv == CommonInv /\ FlagsOK /\ Grounds

\* The steps that no method takes keep it, too.
LEMMA OtherStepsGrounds ==
    ASSUME HostDataOK, Grounds, OtherSteps
    PROVE  Grounds'
<1> USE DEF Grounds, StopLabels, StartLabels, RestartLabels, Recreate
<1>1. ASSUME NEW action \in Tasks, NEW p \in Params, Call(action, p)
      PROVE  Grounds'
  BY <1>1, TasksAssumption DEF Call, Actions
<1>2. CASE Raise \/ Killed \/ RenderConfig \/ ReferenceChanges \/ Reboot
  BY <1>2 DEF Raise, Killed, RenderConfig, ReferenceChanges, Reboot, Fail, workerVars
<1>3. CASE HostSteps
  BY <1>3, HostKeepsIdentity DEF HostSteps, workerVars
<1> QED
  BY <1>1, <1>2, <1>3 DEF OtherSteps

\* The invariant of the refinement.
LEMMA ContractInvariance == Spec => []ContractInv
<1>1. Init => Grounds
  BY DEF Init, Grounds, StopLabels, StartLabels, RestartLabels
<1>2. Inv /\ Grounds /\ [Next]_vars => Grounds'
  <2> SUFFICES ASSUME Inv, Grounds, [Next]_vars PROVE Grounds'
    OBVIOUS
  <2>1. DataOK /\ Control
    BY DEF Inv, CommonInv
  <2>2. CASE WorkerSteps
    BY <2>1, <2>2, WorkerStepsGrounds
  <2>3. CASE OtherSteps
    BY <2>1, <2>3, OtherStepsGrounds DEF DataOK
  <2>4. CASE UNCHANGED vars
    BY <2>4 DEF Grounds, vars, hostVars, workerVars
  <2> QED
    BY <2>2, <2>3, <2>4 DEF Next, OtherSteps
<1>3. TypeOK => FlagsOK
  BY TypeSplit
<1> QED
  BY <1>1, <1>2, <1>3, TypeCorrect, Invariance, PTL DEF Spec, ContractInv, Inv

\* What a step does to the host, in the terms of the contract.
Effect ==
    \/ Contract!Pull
    \/ Contract!DropImage
    \/ Contract!Remove
    \/ Contract!Create
    \/ Contract!MakeVolume
    \/ Contract!DropVolume
    \/ Contract!Leave

\* A step that keeps these keeps all the contract knows of the host.
LEMMA Leaves ==
    ASSUME UNCHANGED <<image, cImage, cSpec, volume>>,
           status' = "absent" <=> status = "absent"
    PROVE  Effect
BY DEF Effect, Contract!Leave

\* Every step of a worker method has one of the effects the contract lists.
LEMMA WorkerStepsEffect ==
    ASSUME ContractInv, WorkerSteps
    PROVE  Effect
<1>1. DataOK /\ Control /\ Content /\ Grounds /\ FlagsOK
  BY DEF ContractInv, CommonInv
<1> USE <1>1 DEF hostVars, containerVars
<1>2. CASE CompareContainer
  BY <1>2, Leaves DEF CompareContainer, CompareExists, CompareDiffers, CompareFiles,
      CompareUnit, Reads
<1>3. CASE \/ PullImage("pull_image", "idle")
           \/ PullImage("rc_pull", "stop")
           \/ PullImage("st_pull", "st_check")
  <2>1. op \in Contract!Fetching /\ pc # "idle"
    BY <1>3 DEF PullImage, Control, PcMatchesOp, StartLabels, Recreate,
        Contract!Fetching, Contract!Deploying
  <2>2. CASE registry = None
    BY <1>3, <2>2, Leaves DEF PullImage
  <2>3. CASE registry # None
    BY <1>3, <2>1, <2>3 DEF PullImage, Effect, Contract!Pull
  <2> QED
    BY <2>2, <2>3
<1>4. CASE EnsureImage
  BY <1>4, Leaves DEF EnsureImage, Reads
<1>5. CASE RemoveImage
  <2>1. op = "remove_image" /\ pc # "idle"
    BY <1>5 DEF RemoveImage, Control, PcMatchesOp
  <2>2. CASE image' = image
    BY <1>5, <2>2, Leaves DEF RemoveImage
  <2>3. CASE image' # image
    BY <1>5, <2>1, <2>3 DEF RemoveImage, Effect, Contract!DropImage
  <2> QED
    BY <2>2, <2>3
<1>6. CASE CreateVolume
  BY <1>6 DEF CreateVolume, Control, PcMatchesOp, Effect, Contract!MakeVolume
<1>7. CASE RemoveVolume
  <2>1. op = "remove_volume" /\ pc # "idle"
    BY <1>7 DEF RemoveVolume, Control, PcMatchesOp
  <2>2. CASE volume' = volume
    BY <1>7, <2>2, Leaves DEF RemoveVolume
  <2>3. CASE volume' # volume
    <3>1. status = "absent" /\ volume' = FALSE
      BY <1>7, <2>3 DEF RemoveVolume, FlagsOK
    <3> QED
      BY <1>7, <2>1, <3>1 DEF RemoveVolume, Effect, Contract!DropVolume
  <2> QED
    BY <2>2, <2>3
<1>8. CASE StopContainer \/ StopByEngine
  BY <1>8, Leaves DEF StopContainer, Reads, StopByEngine, ContainerStops
<1>9. CASE StopBySystemd
  BY <1>9, Leaves DEF StopBySystemd, JobQueued, JobRefused, UnitReached,
      UnitTimesOut, UnitPolled
<1>10. CASE RemoveContainer
  BY <1>10, Leaves DEF RemoveContainer, RemoveUnitFile
<1>11. CASE RemoveByEngine
  <2>1. \/ op \in Contract!Removing
        \/ op \in Contract!Deploying /\ image # None
    BY <1>11 DEF RemoveByEngine, Control, PcMatchesOp, Grounds, StopLabels, Recreate,
        Contract!Removing, Contract!Deploying
  <2>2. pc # "idle" /\ status' = "absent"
    BY <1>11 DEF RemoveByEngine, EngineRemoves
  <2> QED
    BY <1>11, <2>1, <2>2 DEF RemoveByEngine, Effect, Contract!Remove
<1>12. CASE StopAndRemoveContainer \/ StartContainer \/ StartCheck
  BY <1>12, Leaves DEF StopAndRemoveContainer, StartContainer, StartCheck, Reads
<1>13. CASE CreateContainer
  <2>1. op \in Contract!Deploying /\ pc # "idle" /\ status = "absent"
    BY <1>13 DEF CreateContainer, Control, PcMatchesOp, Content, StartLabels, Recreate,
        Contract!Deploying
  <2> QED
    BY <1>13, <2>1 DEF CreateContainer, EngineCreates, Effect, Contract!Create
<1>14. CASE CreateUnit
  BY <1>14, Leaves DEF CreateUnit, WriteUnitFile, EnableUnitFile
<1>15. CASE StartDiffers \/ StartRecheck
  BY <1>15, Leaves DEF StartDiffers, StartRecheck, Reads
<1>16. CASE StartByEngine
  BY <1>16, Leaves DEF StartByEngine, ContainerStarts
<1>17. CASE StartBySystemd
  BY <1>17, Leaves DEF StartBySystemd, WriteUnitFile, EnableUnitFile, JobQueued,
      JobRefused, UnitReached, UnitTimesOut, UnitPolled
<1>18. CASE StartWaits \/ StartExitCode
  BY <1>18, Leaves DEF StartWaits, StartExitCode
<1>19. CASE RestartContainer
  BY <1>19, Leaves DEF RestartContainer, Reads
<1>20. CASE RestartBySystemd
  BY <1>20, Leaves DEF RestartBySystemd, WriteUnitFile, EnableUnitFile, JobQueued,
      JobRefused, UnitReached, UnitTimesOut, UnitPolled
<1>21. CASE RestartByEngine
  BY <1>21, Leaves DEF RestartByEngine, ContainerStarts, ContainerStops
<1>22. CASE RecreateOrRestart \/ RecreateDiffers \/ RecreateImage
  BY <1>22, Leaves DEF RecreateOrRestart, RecreateDiffers, RecreateImage, Reads
<1> QED
  BY <1>2, <1>3, <1>4, <1>5, <1>6, <1>7, <1>8, <1>9, <1>10, <1>11, <1>12,
      <1>13, <1>14, <1>15, <1>16, <1>17, <1>18, <1>19, <1>20, <1>21, <1>22
  DEF WorkerSteps

\* How a step of a worker method leaves its task.
Leaving ==
    /\ pc # "idle"
    /\ UNCHANGED <<op, par, registry>>
    /\ pc' # "idle" => UNCHANGED result
    /\ pc' = "idle" => result' \in {"ok", "failed"}

\* What success says beyond ConvergedStep.
Keeping ==
    pc' = "idle" /\ result' = "ok" =>
        /\ op = "start_container" /\ ~par.detach /\ par.remove_on_exit
             => status' = "absent"
        /\ op \in {"remove_container", "stop_and_remove_container"} => status' = "absent"
        /\ op \in {"start_container", Recreate, "pull_image", "ensure_image"}
             => image' # None
        /\ op = "remove_image" => image' = None
        /\ op = "create_volume" => volume' = TRUE
        /\ op = "remove_volume" => volume' = FALSE

\* Every step of a worker method goes on, fails, or succeeds with the host as
\* the action promises.
LEMMA WorkerStepsEnd ==
    ASSUME ContractInv, WorkerSteps
    PROVE  Leaving /\ Keeping
<1>1. DataOK /\ Control /\ Grounds
  BY DEF ContractInv, CommonInv
<1> USE <1>1
    DEF Leaving, Keeping, Grounds, PcMatchesOp, ReturnAddress, Control, StopLabels,
      StartLabels, RestartLabels, Recreate, Goto, Done, Fail, taskVars, DataOK,
      HostDataOK, hostVars
<1>2. CASE CompareContainer
  BY <1>2 DEF CompareContainer, CompareExists, CompareDiffers, CompareFiles,
      CompareUnit, Reads
<1>3. CASE PullImage("pull_image", "idle")
  BY <1>3 DEF PullImage
<1>4. CASE PullImage("rc_pull", "stop")
  BY <1>4 DEF PullImage
<1>5. CASE PullImage("st_pull", "st_check")
  BY <1>5 DEF PullImage
<1>6. CASE EnsureImage \/ RemoveImage
  BY <1>6 DEF EnsureImage, RemoveImage, Reads
<1>7. CASE CreateVolume \/ RemoveVolume
  BY <1>7 DEF CreateVolume, RemoveVolume
<1>8. CASE StopContainer
  BY <1>8 DEF StopContainer, Stopped, Reads
<1>9. CASE StopByEngine
  BY <1>9 DEF StopByEngine, Stopped
<1>10. CASE StopBySystemd
  BY <1>10 DEF StopBySystemd, JobQueued, JobRefused, UnitReached, UnitTimesOut,
      UnitPolled, Stopped
<1>11. CASE RemoveContainer
  BY <1>11 DEF RemoveContainer, RemoveUnitFile
<1>12. CASE RemoveByEngine
  BY <1>12 DEF RemoveByEngine, EngineRemoves, Removed, containerVars
<1>13. CASE StopAndRemoveContainer \/ StartContainer \/ StartCheck
  BY <1>13 DEF StopAndRemoveContainer, StartContainer, StartCheck, Reads
<1>14. CASE CreateContainer \/ CreateUnit
  BY <1>14 DEF CreateContainer, CreateUnit, WriteUnitFile, EnableUnitFile
<1>15. CASE StartDiffers
  BY <1>15 DEF StartDiffers, StartUnlessUp
<1>16. CASE StartRecheck
  BY <1>16 DEF StartRecheck, StartUnlessUp, Reads
<1>17. CASE StartByEngine
  BY <1>17 DEF StartByEngine
<1>18. CASE StartBySystemd
  BY <1>18 DEF StartBySystemd, WriteUnitFile, EnableUnitFile, JobQueued, JobRefused,
      UnitReached, UnitTimesOut, UnitPolled
<1>19. CASE StartWaits \/ StartExitCode
  BY <1>19 DEF StartWaits, StartExitCode
<1>20. CASE RestartContainer
  BY <1>20 DEF RestartContainer, Reads
<1>21. CASE RestartBySystemd
  BY <1>21 DEF RestartBySystemd, WriteUnitFile, EnableUnitFile, JobQueued,
      JobRefused, UnitReached, UnitTimesOut, UnitPolled
<1>22. CASE RestartByEngine
  BY <1>22 DEF RestartByEngine
<1>23. CASE RecreateOrRestart \/ RecreateImage
  BY <1>23 DEF RecreateOrRestart, RecreateImage, Reads
<1>24. CASE RecreateDiffers
  BY <1>24 DEF RecreateDiffers, CheckContainerDiffers, CompareImage, Reads
<1> QED
  BY <1>2, <1>3, <1>4, <1>5, <1>6, <1>7, <1>8, <1>9, <1>10, <1>11, <1>12,
      <1>13, <1>14, <1>15, <1>16, <1>17, <1>18, <1>19, <1>20, <1>21, <1>22, <1>23,
      <1>24
  DEF WorkerSteps

\* A step with such an effect and such an end is a step of the contract.
LEMMA StepOfContract ==
    ASSUME op \in Actions, Effect, Leaving, Keeping, ConvergedStep
    PROVE  Contract!Step
<1>1. pc' = "idle" /\ result' = "ok" => Contract!Kept
  BY DEF Leaving, Keeping, ConvergedStep, Finishes, Recreate, Contract!Kept,
      Contract!Deploying, Contract!Removing, Contract!Fetching
<1>2. Contract!Outcome
  BY <1>1 DEF Leaving, Contract!Outcome
<1>3. op # "idle"
  BY DEF Actions
<1> QED
  BY <1>2, <1>3 DEF Effect, Leaving, Contract!Step

\* Steps that no method takes: a task begins or is cut short, and the host, the
\* registry, the operator or a reboot moves.
LEMMA OtherStepsContract ==
    ASSUME ContractInv, OtherSteps
    PROVE  [Contract!Next]_(Contract!contractVars)
<1>1. DataOK
  BY DEF ContractInv, CommonInv
<1>2. ASSUME NEW action \in Tasks, NEW p \in Params, Call(action, p)
      PROVE  Contract!Call
  <2>1. action \in Actions /\ action # "idle" /\ p.spec \in Specs
    BY TasksAssumption, ParamsType DEF Actions
  <2> QED
    BY <1>2, <2>1 DEF Call, Contract!Call, hostVars
<1>3. CASE Raise \/ Killed
  <2>1. op # "idle"
    BY <1>1 DEF DataOK, Actions
  <2> QED
    BY <1>3, <2>1 DEF Raise, Killed, Fail, hostVars, Contract!Next, Contract!Step,
        Contract!Outcome, Contract!Leave
<1>4. CASE HostSteps
  BY <1>1, <1>4, HostKeepsIdentity
  DEF DataOK, HostSteps, workerVars, Contract!Next, Contract!RegistryMoves
<1>5. CASE RenderConfig
  BY <1>5 DEF RenderConfig, workerVars, containerVars, Contract!contractVars
<1>6. CASE ReferenceChanges
  BY <1>6 DEF ReferenceChanges, workerVars, containerVars, Contract!Next,
      Contract!ReferenceMoves
<1>7. CASE Reboot
  <2>1. op # "idle"
    BY <1>1 DEF DataOK, Actions
  <2>2. UNCHANGED <<op, par, registry, image, cImage, cSpec, volume>>
        /\ (status' = "absent" <=> status = "absent") /\ pc' = "idle"
    BY <1>7 DEF Reboot, HostReboots
  <2>3. CASE pc = "idle"
    BY <1>7, <2>2, <2>3 DEF Reboot, Contract!contractVars
  <2>4. CASE pc # "idle"
    <3>1. result' = "killed"
      BY <1>7, <2>4 DEF Reboot
    <3> QED
      BY <2>1, <2>2, <2>4, <3>1 DEF Contract!Next, Contract!Step, Contract!Outcome,
          Contract!Leave
  <2> QED
    BY <2>3, <2>4
<1> QED
  BY <1>2, <1>3, <1>4, <1>5, <1>6, <1>7 DEF Contract!Next, OtherSteps

\* The docker worker implements the contract of a kolla_container task.
THEOREM KeepsContract == Spec => ImplementsContract
<1>1. Init => Contract!Init
  BY DEF Init, HostInit, Contract!Init
<1>2. Inv /\ ContractInv /\ [Next]_vars => [Contract!Next]_(Contract!contractVars)
  <2> SUFFICES ASSUME Inv, ContractInv, [Next]_vars
               PROVE  [Contract!Next]_(Contract!contractVars)
    OBVIOUS
  <2>1. CASE WorkerSteps
    <3>1. ConvergedStep /\ op \in Actions
      BY <2>1, WorkerStepsPromises DEF Inv, Separate, CommonInv, DataOK, Promises
    <3>2. Contract!Step
      BY <2>1, <3>1, WorkerStepsEffect, WorkerStepsEnd, StepOfContract
    <3> QED
      BY <3>2 DEF Contract!Next
  <2>2. CASE UNCHANGED vars
    BY <2>2 DEF vars, hostVars, workerVars, Contract!contractVars
  <2> QED
    BY <2>1, <2>2, OtherStepsContract DEF Next, OtherSteps
<1> QED
  BY <1>1, <1>2, Invariance, ContractInvariance, PTL
  DEF Spec, ImplementsContract, Contract!Spec

-----------------------------------------------------------------------------
(***************************************************************************)
(* "duration * retries should be less than timeout otherwise service will  *)
(* indefinitely try to restart" (SystemdWorker.__init__): the RestartSec   *)
(* that __init__ computes lets restart_retries restarts fall within        *)
(* client_timeout, whatever the two are, so that StartLimitBurst is hit    *)
(* and a container that keeps failing is given up.                         *)
(***************************************************************************)
THEOREM RestartsAreLimited ==
  ASSUME NEW timeout \in Nat, NEW retries \in Nat \ {0}
  PROVE  RestartDuration(timeout, retries) * retries < timeout
<1> DEFINE q == timeout \div retries
<1>1. timeout = q * retries + (timeout % retries) /\ timeout % retries \in 0 .. (retries - 1)
  BY SMT
<1>2. q \in Int
  BY SMT
<1>3. (q - 1) * retries = q * retries - retries
  BY <1>2, SMT
<1> QED
  BY <1>1, <1>2, <1>3 DEF RestartDuration

=============================================================================
