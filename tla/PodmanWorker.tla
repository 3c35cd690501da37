---------------------------- MODULE PodmanWorker ----------------------------
(***************************************************************************)
(* ansible/module_utils/kolla_podman_worker.py against the same host.      *)
(* What the two workers do alike is taken from DockerWorker and named      *)
(* after the podman method; the actions written out here are the methods   *)
(* that differ.  A podman service container always has a unit: stop and    *)
(* restart go through systemd, and create_container writes the unit file   *)
(* even for oneshot containers.                                            *)
(***************************************************************************)
EXTENDS WorkerContract

PodmanLabels == Labels \cup {"sp_unit", "sp_enable"}

PodmanTypeOK ==
    /\ HostTypeOK
    /\ pc \in PodmanLabels
    /\ op \in Actions
    /\ par \in Params
    /\ ret \in {"idle", "start_container", "st_recheck", "st_rc"}
    /\ seen \in {"absent", "created", "running", "exited"}
    /\ elapsed \in 0 .. (RestartTimeout + Delay)
    /\ rc \in {0, 1}
    /\ changed \in BOOLEAN
    /\ result \in {"none", "ok", "failed", "killed"}
    /\ touched \in BOOLEAN

-----------------------------------------------------------------------------
(* Methods that take the same steps as docker's.                           *)

PodmanCompare == CompareExists \/ CompareDiffers \/ CompareUnit

\* compare_config.  An exec that dies with the container raises here.
PodmanCompareConfig == CompareFiles

\* pull_image, and the two calls of ensure_image that reach it.
PodmanPull ==
    \/ PullImage("pull_image", "idle")
    \/ PullImage("rc_pull", "stop")
    \/ PullImage("st_pull", "st_check")

PodmanEnsureImage == EnsureImage

PodmanRemoveImage == RemoveImage

PodmanVolumes == CreateVolume \/ RemoveVolume

PodmanStopAndRemove == StopAndRemoveContainer

\* start_container up to the decision what to do with a container in the way.
PodmanStart == StartContainer \/ StartCheck \/ StartDiffers \/ StartRecheck

\* start_container: container.start(), or create_unit_file and systemd.start.
PodmanStarts == StartByEngine \/ StartBySystemd

\* start_container without detach: container.wait() and its exit code.
PodmanWaits == StartWaits \/ StartExitCode

-----------------------------------------------------------------------------
(* stop_container, remove_container                                        *)

PodmanStop ==
    /\ pc \in {"stop_container", "stop"}
    /\ \/ /\ status = "absent"
          /\ IF par.ignore_missing THEN Stopped ELSE Fail
          /\ UNCHANGED changed
       \/ status = "exited" /\ Stopped /\ UNCHANGED changed
       \/ /\ status \in {"created", "running"}
          /\ changed' = TRUE
          /\ Goto(IF Oneshot THEN "sp_engine" ELSE "sp_unit")
    /\ Reads

\* create_unit_file before systemd.stop(): the unit may not exist yet.
PodmanStops ==
    \/ StopByEngine
    \/ WriteUnitFile("sp_unit", "sp_enable", "sp_systemd")
    \/ EnableUnitFile("sp_enable", "sp_systemd")
    \/ StopBySystemd

\* self.changed says whether there was a unit file, not whether there was a
\* container.
PodmanRemove ==
    \/ RemoveContainer
    \/ /\ pc = "rm_engine"
       /\ IF status = "absent"
            THEN UNCHANGED <<containerVars, sub, touched>>
            ELSE EngineRemoves /\ touched' = TRUE
       /\ Removed
       /\ UNCHANGED <<registry, image, volume, conf, unitVars, job, op, par,
                      seen, elapsed, rc, changed>>

-----------------------------------------------------------------------------
(* create_container                                                        *)

PodmanCreate ==
    /\ pc = "create"
    /\ image # None
    /\ EngineCreates(image, par.spec)
    /\ touched' = TRUE
    /\ Goto("cr_unit")
    /\ UNCHANGED <<registry, image, volume, conf, unitVars, sub, job, taskVars,
                   seen, elapsed, rc, changed>>

\* `self.changed |= self.systemd.create_unit_file()`
PodmanCreateUnit ==
    \/ /\ pc = "cr_unit"
       /\ changed' = (changed \/ CheckUnitChange)
       /\ IF CheckUnitChange
            THEN unitFile' = par.unit /\ touched' = TRUE /\ Goto("cr_enable")
            ELSE UNCHANGED <<unitFile, touched>> /\ Goto("cr_check")
       /\ UNCHANGED <<registry, image, containerVars, volume, conf, enabled,
                      sub, job, taskVars, seen, elapsed, rc>>
    \/ EnableUnitFile("cr_enable", "cr_check")

-----------------------------------------------------------------------------
(* restart_container, recreate_or_restart_container                        *)

PodmanRestart ==
    \/ /\ pc = "restart_container"
       /\ IF status = "absent"
            THEN UNCHANGED changed /\ Fail
            ELSE changed' = TRUE /\ Goto("rs_unit")
       /\ Reads
    \/ RestartBySystemd

\* self.changed is left to the methods that are called.
PodmanRecreate ==
    /\ pc = "recreate_or_restart_container"
    /\ IF status = "absent"
         THEN Goto("start_container")
         ELSE Goto(IF par.spec \in CopyOnce THEN "rc_image" ELSE "rc_differs")
    /\ Reads
    /\ UNCHANGED changed

\* Fault: COPY_ALWAYS containers are not recreated either.
PodmanRecreateOnlyDiffering ==
    /\ pc = "rc_differs"
    /\ IF CheckContainerDiffers THEN Goto("rc_image") ELSE Done
    /\ Reads
    /\ UNCHANGED changed

\* COPY_ALWAYS: recreated, too.
PodmanRecreateDiffers ==
    /\ pc = "rc_differs"
    /\ IF CheckContainerDiffers \/ par.spec \in CopyAlways
         THEN Goto("rc_image") ELSE Done
    /\ Reads
    /\ UNCHANGED changed

PodmanRecreateImage == RecreateImage

-----------------------------------------------------------------------------
PodmanSteps ==
    \/ PodmanCompare
    \/ PodmanCompareConfig
    \/ PodmanPull
    \/ PodmanEnsureImage
    \/ PodmanRemoveImage
    \/ PodmanVolumes
    \/ PodmanStop
    \/ PodmanStops
    \/ PodmanRemove
    \/ PodmanStopAndRemove
    \/ PodmanCreate
    \/ PodmanCreateUnit
    \/ PodmanStart
    \/ PodmanStarts
    \/ PodmanWaits
    \/ PodmanRestart
    \/ PodmanRecreate
    \/ PodmanRecreateDiffers
    \/ PodmanRecreateImage

PodmanNext ==
    \/ \E action \in Tasks, p \in Params : Call(action, p)
    \/ PodmanSteps
    \/ Raise
    \/ Killed
    \/ HostSteps
    \/ RenderConfig
    \/ ReferenceChanges
    \/ Reboot

PodmanSpec == Init /\ [][PodmanNext]_vars

\* As for docker: the process goes on, and a bootstrap container exits.  Its
\* unit may start it again at once, but container.wait() returns for the exit.
PodmanFairSpec ==
    /\ PodmanSpec
    /\ WF_vars(PodmanSteps)
    /\ SF_vars(PodmanWaits)
    /\ WF_vars(Oneshot /\ ContainerExits /\ UNCHANGED workerVars)

-----------------------------------------------------------------------------
(* Properties                                                              *)

\* The podman worker keeps the promises of the docker worker: it pulls before it
\* modifies anything, the handler leaves the unit file and the configuration the
\* task asked for, compare_container reports every drift, and a task that waits
\* reports the exit code of its own container.
KeepsDockerPromises ==
    /\ []NothingTouchedBeforePull
    /\ UnitInstalledOnSuccess
    /\ ConfigDeliveredOnSuccess
    /\ DriftIsReported
    /\ WaitsForItsOwnContainer

=============================================================================
