----------------------------- MODULE DockerWorker -----------------------------
(***************************************************************************)
(* ansible/module_utils/kolla_docker_worker.py, with the parts of          *)
(* kolla_container_worker.py it inherits and main() of                     *)
(* ansible/library/kolla_container.py: one kolla_container task at a time  *)
(* runs against a KollaHost that moves by itself.  One action per engine   *)
(* or systemd call; `ret` holds the return address of the sequence         *)
(* stop_container, remove_container, which four methods share.             *)
(***************************************************************************)
EXTENDS SystemdWorker

CONSTANT Tasks   \* the actions that tasks of the instance ask for

Actions == {"compare_container", "ensure_image", "pull_image",
            "recreate_or_restart_container", "remove_container",
            "restart_container", "start_container", "stop_container",
            "stop_and_remove_container", "create_volume", "remove_volume",
            "remove_image"}

Labels == Actions \cup
    {"idle",
     "cmp_differs", "cmp_config", "cmp_unit",
     "rc_differs", "rc_image", "rc_pull",
     "st_pull", "st_check", "st_differs", "st_recheck", "st_engine", "st_unit",
     "st_enable", "st_systemd", "st_wait", "st_exit", "st_rc",
     "create", "cr_unit", "cr_enable", "cr_check",
     "stop", "sp_engine", "sp_systemd", "sp_wait",
     "remove", "rm_engine",
     "rs_unit", "rs_enable", "rs_systemd", "rs_wait", "rs_stop", "rs_start"}

ASSUME TasksAssumption == Tasks \subseteq Actions

vars == <<hostVars, workerVars>>

TypeOK ==
    /\ HostTypeOK
    /\ pc \in Labels
    /\ op \in Actions
    /\ par \in Params
    /\ ret \in {"idle", "start_container", "st_recheck", "st_rc"}
    /\ seen \in {"absent", "created", "running", "exited"}
    /\ elapsed \in 0 .. (RestartTimeout + Delay)
    /\ rc \in {0, 1}
    /\ changed \in BOOLEAN
    /\ result \in {"none", "ok", "failed", "killed"}
    /\ touched \in BOOLEAN

Init ==
    /\ HostInit
    /\ pc = "idle"
    /\ op = "compare_container"   \* arbitrary: no task has run
    /\ par \in Params
    /\ ret = "idle"
    /\ seen = "absent"
    /\ elapsed = 0
    /\ rc = 0
    /\ changed = FALSE
    /\ result = "none"
    /\ touched = FALSE

-----------------------------------------------------------------------------
(* main()                                                                  *)

\* The locals of the process die with it; a method that consumes one clears it.
ScratchReset == ret' = "idle" /\ seen' = "absent" /\ elapsed' = 0 /\ rc' = 0

Call(action, p) ==
    /\ pc = "idle"
    /\ pc' = action
    /\ op' = action
    /\ par' = p
    /\ changed' = FALSE
    /\ result' = "none"
    /\ touched' = FALSE
    /\ ScratchReset
    /\ UNCHANGED hostVars

\* `except Exception`: an engine or D-Bus error that no method catches.
Raise ==
    /\ pc \notin {"idle", "st_rc"}
    /\ Fail
    /\ ScratchReset
    /\ UNCHANGED <<hostVars, op, par, changed, touched>>

\* The connection from the control host is lost and the process dies.
Killed ==
    /\ pc # "idle"
    /\ pc' = "idle"
    /\ result' = "killed"
    /\ ScratchReset
    /\ UNCHANGED <<hostVars, op, par, changed, touched>>

\* A step that only reads the host.
Reads == UNCHANGED <<hostVars, taskVars, seen, elapsed, rc, touched>>

-----------------------------------------------------------------------------
(* Comparisons                                                             *)

\* compare_image: the reference must resolve, and to the container's image.
\* (A container created under another reference has another spec.)
CompareImage == image = None \/ cImage # image

\* Fault: a new image under the same name goes unnoticed.
CheckContainerDiffersNoImage ==
    status = "absent" \/ cSpec # par.spec \/ status # "running"

\* check_container_differs; compare_container_state wants 'running', the
\* default of params['state'].
CheckContainerDiffers ==
    \/ status = "absent"
    \/ CompareImage
    \/ cSpec # par.spec
    \/ status # "running"

\* Fault: an exec in a running container is taken for success.
CompareConfigBlind == status # "running"

\* compare_config: set_configs --check in the container.  An exec that the
\* container cannot serve, or that dies with it, counts as a change.
CompareConfig == status # "running" \/ cFiles # conf

\* compare_container, one action for each operand of the disjunction.
CompareExists ==
    /\ pc = "compare_container"
    /\ IF status = "absent" THEN changed' = TRUE /\ Done
                            ELSE UNCHANGED changed /\ Goto("cmp_differs")
    /\ Reads

CompareDiffers ==
    /\ pc = "cmp_differs"
    /\ IF CheckContainerDiffers THEN changed' = TRUE /\ Done
                                ELSE UNCHANGED changed /\ Goto("cmp_config")
    /\ Reads

CompareFiles ==
    /\ pc = "cmp_config"
    /\ IF CompareConfig THEN changed' = TRUE /\ Done
                        ELSE UNCHANGED changed /\ Goto("cmp_unit")
    /\ Reads

CompareUnit ==
    /\ pc = "cmp_unit"
    /\ changed' = (changed \/ CheckUnitChange)
    /\ Done
    /\ Reads

CompareContainer == CompareExists \/ CompareDiffers \/ CompareFiles \/ CompareUnit

-----------------------------------------------------------------------------
(* Images                                                                  *)

\* pull_image, with its assignment (not a disjunction) to self.changed.
PullImage(at, next) ==
    /\ pc = at
    /\ IF registry = None
         THEN UNCHANGED <<image, changed, touched>> /\ Fail
         ELSE /\ image' = registry
              /\ changed' = (image # registry)
              /\ touched' = (touched \/ image # registry)
              /\ IF next = "idle" THEN Done ELSE Goto(next)
    /\ UNCHANGED <<registry, containerVars, volume, conf, unitVars, sub, job,
                   taskVars, seen, elapsed, rc>>

EnsureImage ==
    /\ pc = "ensure_image"
    /\ IF image = None THEN Goto("pull_image") ELSE Done
    /\ Reads
    /\ UNCHANGED changed

\* remove_image: 409 while a container uses the image.
RemoveImage ==
    /\ pc = "remove_image"
    /\ IF image = None
         THEN UNCHANGED <<image, changed, touched>> /\ Done
         ELSE /\ changed' = TRUE
              /\ IF status # "absent" /\ cImage = image
                   THEN UNCHANGED <<image, touched>> /\ Fail
                   ELSE image' = None /\ touched' = TRUE /\ Done
    /\ UNCHANGED <<registry, containerVars, volume, conf, unitVars, sub, job,
                   taskVars, seen, elapsed, rc>>

-----------------------------------------------------------------------------
(* Volumes                                                                 *)

CreateVolume ==
    /\ pc = "create_volume"
    /\ changed' = ~volume
    /\ touched' = ~volume
    /\ volume' = TRUE
    /\ Done
    /\ UNCHANGED <<registry, image, containerVars, conf, unitVars, sub, job,
                   taskVars, seen, elapsed, rc>>

\* remove_volume: 409 while a container mounts it.
RemoveVolume ==
    /\ pc = "remove_volume"
    /\ changed' = volume
    /\ IF volume /\ status # "absent"
         THEN UNCHANGED <<volume, touched>> /\ Fail
         ELSE volume' = FALSE /\ touched' = volume /\ Done
    /\ UNCHANGED <<registry, image, containerVars, conf, unitVars, sub, job,
                   taskVars, seen, elapsed, rc>>

-----------------------------------------------------------------------------
(* stop_container, remove_container, stop_and_remove_container             *)

\* stop_container returns: to its caller's remove_container, or to main().
Stopped == IF op = "stop_container" THEN Done ELSE Goto("remove")

StopContainer ==
    /\ pc \in {"stop_container", "stop"}
    /\ \/ /\ status = "absent"
          /\ IF par.ignore_missing THEN Stopped ELSE Fail
          /\ UNCHANGED changed
       \/ status = "exited" /\ Stopped /\ UNCHANGED changed
       \/ /\ status \in {"created", "running"}
          /\ changed' = TRUE
          /\ Goto(IF unitFile = None THEN "sp_engine" ELSE "sp_systemd")
    /\ Reads

StopByEngine ==
    /\ pc = "sp_engine"
    /\ ContainerStops
    /\ IF status = "running" THEN UnitLosesProcess ELSE UNCHANGED sub
    /\ touched' = TRUE
    /\ Stopped
    /\ UNCHANGED <<registry, image, volume, conf, unitVars, job, taskVars, seen,
                   elapsed, rc, changed>>

\* The result of systemd.stop() is ignored.
StopBySystemd ==
    \/ JobQueued("sp_systemd", "stop", "sp_wait")
    \/ JobRefused("sp_systemd") /\ Stopped
    \/ UnitReached("sp_wait", "dead") /\ Stopped
    \/ UnitTimesOut("sp_wait", "dead") /\ Stopped
    \/ UnitPolled("sp_wait", "dead")

\* remove_container returns.
Removed ==
    /\ ret' = "idle"
    /\ IF ret = "idle" THEN Done ELSE Goto(ret)

\* remove_container: the unit file first, the container next.  An APIError
\* that leaves the container in place is a Raise.
RemoveContainer ==
    \/ RemoveUnitFile("remove_container", "rm_engine")
    \/ RemoveUnitFile("remove", "rm_engine")

\* Fault: only the removal of the unit file counts as a change.
RemoveByEngineSilently ==
    /\ pc = "rm_engine"
    /\ IF status = "absent"
         THEN UNCHANGED <<containerVars, sub, touched>>
         ELSE EngineRemoves /\ touched' = TRUE
    /\ Removed
    /\ UNCHANGED <<registry, image, volume, conf, unitVars, job, op, par, seen,
                   elapsed, rc, changed>>

RemoveByEngine ==
    /\ pc = "rm_engine"
    /\ IF status = "absent"
         THEN UNCHANGED <<containerVars, sub, changed, touched>>
         ELSE EngineRemoves /\ changed' = TRUE /\ touched' = TRUE
    /\ Removed
    /\ UNCHANGED <<registry, image, volume, conf, unitVars, job, op, par, seen,
                   elapsed, rc>>

StopAndRemoveContainer ==
    /\ pc = "stop_and_remove_container"
    /\ IF status = "absent" THEN Done ELSE Goto("stop")
    /\ Reads
    /\ UNCHANGED changed

-----------------------------------------------------------------------------
(* create_container, start_container                                       *)

CreateContainer ==
    /\ pc = "create"
    /\ image # None
    /\ EngineCreates(image, par.spec)
    /\ changed' = TRUE
    /\ touched' = TRUE
    /\ Goto(IF Oneshot THEN "cr_check" ELSE "cr_unit")
    /\ UNCHANGED <<registry, image, volume, conf, unitVars, sub, job, taskVars,
                   seen, elapsed, rc>>

CreateUnit ==
    \/ WriteUnitFile("cr_unit", "cr_enable", "cr_check")
    \/ EnableUnitFile("cr_enable", "cr_check")

StartContainer ==
    /\ pc = "start_container"
    /\ Goto(IF image = None THEN "st_pull" ELSE "st_check")
    /\ Reads
    /\ UNCHANGED changed

\* check_container; the status listed here may be stale when it is used.
StartCheck ==
    /\ pc = "st_check"
    /\ seen' = status   \* "absent" is also its value when it is not in use
    /\ Goto(IF status = "absent" THEN "create" ELSE "st_differs")
    /\ UNCHANGED <<hostVars, taskVars, elapsed, rc, changed, touched>>

\* `if not container['Status'].startswith('Up ')`.
StartUnlessUp(listed) ==
    IF listed = "running"
      THEN UNCHANGED changed /\ Goto("st_exit")
      ELSE changed' = TRUE /\ Goto(IF Oneshot THEN "st_engine" ELSE "st_unit")

\* Fault: an existing container is started as it is.
StartDiffersNot ==
    /\ pc = "st_differs"
    /\ StartUnlessUp(seen)
    /\ seen' = "absent"
    /\ UNCHANGED <<hostVars, taskVars, elapsed, rc, touched>>

StartDiffers ==
    /\ pc = "st_differs"
    /\ IF CheckContainerDiffers
         THEN ret' = "st_recheck" /\ UNCHANGED changed /\ Goto("stop")
         ELSE UNCHANGED ret /\ StartUnlessUp(seen)
    /\ seen' = "absent"
    /\ UNCHANGED <<hostVars, op, par, elapsed, rc, touched>>

\* check_container after the removal, and after the creation.
StartRecheck ==
    /\ pc \in {"st_recheck", "cr_check"}
    /\ IF status = "absent"
         THEN pc = "st_recheck" /\ UNCHANGED changed /\ Goto("create")
         ELSE StartUnlessUp(status)
    /\ Reads

StartByEngine ==
    /\ pc = "st_engine"
    /\ ContainerStarts
    /\ touched' = TRUE
    /\ Goto("st_exit")
    /\ UNCHANGED <<registry, image, volume, conf, unitVars, sub, job, taskVars,
                   seen, elapsed, rc, changed>>

StartBySystemd ==
    \/ WriteUnitFile("st_unit", "st_enable", "st_systemd")
    \/ EnableUnitFile("st_enable", "st_systemd")
    \/ JobQueued("st_systemd", "start", "st_wait")
    \/ JobRefused("st_systemd") /\ Fail
    \/ UnitReached("st_wait", "running") /\ Goto("st_exit")
    \/ UnitTimesOut("st_wait", "running") /\ Fail
    \/ UnitPolled("st_wait", "running")

\* Detached: done.  Otherwise wait for the container to exit, and then stop
\* and remove it or leave it.
StartWaits ==
    /\ pc = "st_exit"
    /\ IF par.detach
         THEN Done /\ UNCHANGED <<ret, rc>>
         ELSE /\ status = "exited"
              /\ rc' \in {0, 1}
              /\ IF par.remove_on_exit THEN ret' = "st_rc" /\ Goto("stop")
                                       ELSE UNCHANGED ret /\ Goto("st_rc")
    /\ UNCHANGED <<hostVars, op, par, seen, elapsed, changed, touched>>

StartExitCode ==
    /\ pc = "st_rc"
    /\ IF rc = 0 THEN Done ELSE Fail
    /\ rc' = 0
    /\ UNCHANGED <<hostVars, taskVars, seen, elapsed, changed, touched>>

-----------------------------------------------------------------------------
(* restart_container                                                       *)

\* Fault: the unit file is not refreshed before the restart.
RestartContainerKeepsUnit ==
    /\ pc = "restart_container"
    /\ IF status = "absent"
         THEN UNCHANGED changed /\ Fail
         ELSE changed' = TRUE /\ Goto(IF Oneshot THEN "rs_stop" ELSE "rs_systemd")
    /\ Reads

RestartContainer ==
    /\ pc = "restart_container"
    /\ IF status = "absent"
         THEN UNCHANGED changed /\ Fail
         ELSE changed' = TRUE /\ Goto(IF Oneshot THEN "rs_stop" ELSE "rs_unit")
    /\ Reads

RestartBySystemd ==
    \/ WriteUnitFile("rs_unit", "rs_enable", "rs_systemd")
    \/ EnableUnitFile("rs_enable", "rs_systemd")
    \/ JobQueued("rs_systemd", "restart", "rs_wait")
    \/ JobRefused("rs_systemd") /\ Fail
    \/ UnitReached("rs_wait", "running") /\ Done
    \/ UnitTimesOut("rs_wait", "running") /\ Fail
    \/ UnitPolled("rs_wait", "running")

RestartByEngine ==
    /\ \/ /\ pc = "rs_stop"
          /\ ContainerStops
          /\ IF status = "running" THEN UnitLosesProcess ELSE UNCHANGED sub
          /\ Goto("rs_start")
       \/ /\ pc = "rs_start"
          /\ ContainerStarts
          /\ UNCHANGED sub
          /\ Done
    /\ touched' = TRUE
    /\ UNCHANGED <<registry, image, volume, conf, unitVars, job, taskVars, seen,
                   elapsed, rc, changed>>

-----------------------------------------------------------------------------
(* recreate_or_restart_container                                           *)

\* Fault: COPY_ONCE containers are only compared, like all the others.
RecreateOrRestartNoCopyOnce ==
    /\ pc = "recreate_or_restart_container"
    /\ changed' = TRUE
    /\ Goto(IF status = "absent" THEN "start_container" ELSE "rc_differs")
    /\ Reads

RecreateOrRestart ==
    /\ pc = "recreate_or_restart_container"
    /\ changed' = TRUE
    /\ IF status = "absent"
         THEN Goto("start_container")
         ELSE Goto(IF par.spec \in CopyOnce THEN "rc_image" ELSE "rc_differs")
    /\ Reads

RecreateDiffers ==
    /\ pc = "rc_differs"
    /\ \/ CheckContainerDiffers /\ Goto("rc_image")
       \/ /\ ~CheckContainerDiffers
          /\ IF par.spec \in CopyAlways THEN Goto("restart_container") ELSE Done
    /\ Reads
    /\ UNCHANGED changed

\* Fault: the container is stopped before the image is known to be there.
RecreateImageLate ==
    /\ pc = "rc_image"
    /\ ret' = "start_container"
    /\ Goto("stop")
    /\ UNCHANGED <<hostVars, op, par, seen, elapsed, rc, changed, touched>>

\* The image is fetched before the container is stopped.
RecreateImage ==
    /\ pc = "rc_image"
    /\ ret' = "start_container"
    /\ Goto(IF image = None THEN "rc_pull" ELSE "stop")
    /\ UNCHANGED <<hostVars, op, par, seen, elapsed, rc, changed, touched>>

-----------------------------------------------------------------------------
(* The host moves between the calls, and between the tasks.                *)

HostSteps == HostNext /\ UNCHANGED workerVars

\* genconfig and the config tasks of a role render new files.
RenderConfig ==
    /\ pc = "idle"
    /\ conf' \in Confs \ {conf}
    /\ UNCHANGED <<registry, image, containerVars, volume, unitVars, sub, job,
                   workerVars>>

\* The operator changes the image's tag, as an upgrade does: params['image'] is
\* another reference from now on, pulled before or not.
ReferenceChanges ==
    /\ pc = "idle"
    /\ image' \in (Images \cup {None}) \ {image}
    /\ UNCHANGED <<registry, containerVars, volume, conf, unitVars, sub, job,
                   workerVars>>

\* A reboot takes the module down with the host.
Reboot ==
    /\ HostReboots
    /\ pc' = "idle"
    /\ result' = IF pc = "idle" THEN result ELSE "killed"
    /\ ScratchReset
    /\ UNCHANGED <<op, par, changed, touched>>

WorkerSteps ==
    \/ CompareContainer
    \/ PullImage("pull_image", "idle")
    \/ PullImage("rc_pull", "stop")
    \/ PullImage("st_pull", "st_check")
    \/ EnsureImage
    \/ RemoveImage
    \/ CreateVolume
    \/ RemoveVolume
    \/ StopContainer
    \/ StopByEngine
    \/ StopBySystemd
    \/ RemoveContainer
    \/ RemoveByEngine
    \/ StopAndRemoveContainer
    \/ CreateContainer
    \/ CreateUnit
    \/ StartContainer
    \/ StartCheck
    \/ StartDiffers
    \/ StartRecheck
    \/ StartByEngine
    \/ StartBySystemd
    \/ StartWaits
    \/ StartExitCode
    \/ RestartContainer
    \/ RestartBySystemd
    \/ RestartByEngine
    \/ RecreateOrRestart
    \/ RecreateDiffers
    \/ RecreateImage

Next ==
    \/ \E action \in Tasks, p \in Params : Call(action, p)
    \/ WorkerSteps
    \/ Raise
    \/ Killed
    \/ HostSteps
    \/ RenderConfig
    \/ ReferenceChanges
    \/ Reboot

Spec == Init /\ [][Next]_vars

\* The process runs until it ends; a bootstrap container runs until it exits.
FairSpec ==
    /\ Spec
    /\ WF_vars(WorkerSteps)
    /\ WF_vars(Oneshot /\ ContainerExits /\ UNCHANGED workerVars)

-----------------------------------------------------------------------------
(* Properties                                                              *)

\* A step that ends a task of the given action with exit_json.
Finishes(action) ==
    pc # "idle" /\ pc' = "idle" /\ result' = "ok" /\ op = action

\* The NOTE in recreate_or_restart_container: an image that cannot be pulled
\* must not cost the host its container.  Whenever a task is about to pull, it
\* has not yet modified the host in any way.
NothingTouchedBeforePull ==
    pc \in {"pull_image", "rc_pull", "st_pull"} => ~touched

\* When start_container or recreate_or_restart_container, detached, reports
\* success, the container exists with the parameters of the task and the image
\* the host resolves its name to, whatever crashed or was restarted on the way.
ConvergedStep ==
    /\ Finishes("start_container") \/ Finishes("recreate_or_restart_container")
    /\ par.detach
    => status' # "absent" /\ cSpec' = par.spec /\ cImage' = image'

ConvergedOnSuccess == [][ConvergedStep]_vars

\* The handler of a service whose config strategy is set leaves the unit file
\* of the task's parameters on disk, so that a unit change that
\* compare_container reported is not reported again.
UnitInstalledStep ==
    /\ Finishes("recreate_or_restart_container")
    /\ par.detach
    /\ ~Oneshot
    /\ par.spec \in CopyAlways \cup CopyOnce
    => unitFile' = par.unit

UnitInstalledOnSuccess == [][UnitInstalledStep]_vars

\* The same handler makes the container use the files now on the host: it has
\* copied them, or a start that copies them is queued in systemd
\* (wait_for_unit may see the state from before the queued restart).
ConfigDeliveredStep ==
    /\ Finishes("recreate_or_restart_container")
    /\ par.detach
    /\ par.spec \in CopyAlways \cup CopyOnce
    => cFiles' = conf' \/ job' \in {"start", "restart"}

ConfigDeliveredOnSuccess == [][ConfigDeliveredStep]_vars

\* A task that reports changed=False has modified nothing: Ansible would skip
\* the handlers of a change that did happen.
UnchangedMeansUntouched ==
    pc = "idle" /\ result = "ok" /\ ~changed => ~touched

\* A drift that a lost handler left behind is reported by the next run:
\* compare_container answers "unchanged" only when image, parameters, copied
\* files and unit file all are what the task asks for.
DriftStep ==
    /\ Finishes("compare_container")
    /\ ~changed'
    => /\ cSpec = par.spec
       /\ cImage = image
       /\ cFiles = conf
       /\ unitFile = par.unit

DriftIsReported == [][DriftStep]_vars

\* The exit code that a task with detach=False reports is that of a container
\* with the task's own parameters and image which has really been started, also
\* where an interrupted earlier run has left a container behind; what it left counts
\* if it is of the same parameters and image.
OwnContainerStep ==
    /\ pc = "st_exit"
    /\ ~par.detach
    /\ pc' \in {"stop", "st_rc"}
    => cSpec = par.spec /\ cImage = image /\ cFiles # None

WaitsForItsOwnContainer == [][OwnContainerStep]_vars

\* After a successful stop_container nothing starts the container before the
\* next task does ("stop is used to stop running containers").
StoppedStaysStopped ==
    [][pc = "idle" /\ op = "stop_container" /\ result = "ok"
       /\ status # "running" => status' # "running"]_vars

\* Every task ends: wait_for_unit gives up, and dc.wait returns.
TaskEnds == pc # "idle" ~> pc = "idle"

=============================================================================
