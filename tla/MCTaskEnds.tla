----------------------------- MODULE MCTaskEnds -----------------------------
(***************************************************************************)
(* Tasks that wait: for the exit of a bootstrap container (docker and      *)
(* podman), and for a service's unit to stop and to run again (docker).    *)
(* The tasks that clean up after a bootstrap container come with it.       *)
(***************************************************************************)
EXTENDS PodmanWorker

BootstrapTasks == {"start_container", "restart_container",
                   "remove_container", "ensure_image",
                   "remove_image", "create_volume", "remove_volume"}

StopTasks == {"start_container", "stop_container", "restart_container"}

BootstrapParams == [spec : Specs, unit : Units, detach : {FALSE},
                    remove_on_exit : BOOLEAN, ignore_missing : {FALSE}]

\* Where one container parameter set will do: a container that copies its files
\* whenever it starts.
Some(S) == {CHOOSE x \in S : TRUE}

\* Both ways of stopping a container that may be missing, and a restart.
StopParams == [spec : CopyAlways, unit : Units, detach : {TRUE},
               remove_on_exit : {TRUE}, ignore_missing : BOOLEAN]

WaitParams == BootstrapParams \cup StopParams
WaitTasks == BootstrapTasks \cup StopTasks

Docker == INSTANCE DockerWorker WITH
    Params <- BootstrapParams, Tasks <- BootstrapTasks, Oneshot <- TRUE

Stops == INSTANCE DockerWorker WITH
    Params <- StopParams, Tasks <- StopTasks, Oneshot <- FALSE, MayReboot <- FALSE,
    Images <- Some(Images), Confs <- Some(Confs), Specs <- CopyAlways

Podman == INSTANCE PodmanWorker WITH
    Params <- {p \in BootstrapParams : p.spec \in CopyAlways},
    Tasks <- BootstrapTasks, Oneshot <- TRUE,
    Images <- Some(Images), Confs <- Some(Confs), Specs <- CopyAlways

VARIABLE waiting

WaitInit ==
    \/ waiting = "docker bootstrap" /\ Docker!Init
    \/ waiting = "docker service" /\ Stops!Init
    \/ waiting = "podman bootstrap" /\ Podman!Init

WaitNext ==
    /\ \/ waiting = "docker bootstrap" /\ Docker!Next
       \/ waiting = "docker service" /\ Stops!Next
       \/ waiting = "podman bootstrap" /\ Podman!PodmanNext
    /\ UNCHANGED waiting

\* The fairness of FairSpec in DockerWorker and of PodmanFairSpec.
WaitSpec ==
    /\ WaitInit
    /\ [][WaitNext]_<<vars, waiting>>
    /\ WF_vars(waiting = "docker bootstrap" /\ Docker!WorkerSteps)
    /\ WF_vars(waiting = "docker service" /\ Stops!WorkerSteps)
    /\ WF_vars(waiting = "podman bootstrap" /\ Podman!PodmanSteps)
    /\ SF_vars(waiting = "podman bootstrap" /\ Podman!PodmanWaits)
    /\ WF_vars(waiting # "docker service" /\ ContainerExits /\ UNCHANGED workerVars)

=============================================================================
