--------------------------- MODULE MCDockerWorker ---------------------------
(***************************************************************************)
(* DockerWorker on the two sorts of containers that roles deploy: a        *)
(* service, and a bootstrap container, which is oneshot.                   *)
(***************************************************************************)
EXTENDS WorkerContract, TLC

\* Tasks of a long-running service: detached.
ServiceParams == [spec : Specs, unit : Units, detach : {TRUE},
                  remove_on_exit : {TRUE}, ignore_missing : {FALSE}]

\* What the roles ask for on a service container.
ServiceTasks == {"compare_container", "pull_image",
                 "recreate_or_restart_container", "start_container",
                 "stop_container", "stop_and_remove_container"}

\* Tasks of a bootstrap container: the module waits for it to exit.  It has no
\* unit, so that one unit parameter will do.
BootstrapParams == [spec : Specs, unit : {CHOOSE u \in Units : TRUE}, detach : {FALSE},
                    remove_on_exit : BOOLEAN, ignore_missing : {FALSE}]

\* A bootstrap container, and the tasks that clean up after it.
BootstrapTasks == {"start_container", "restart_container",
                   "remove_container", "ensure_image",
                   "remove_image", "create_volume", "remove_volume"}

EitherParams == ServiceParams \cup BootstrapParams
EitherTasks == ServiceTasks \cup BootstrapTasks

Service == INSTANCE DockerWorker WITH
    Params <- ServiceParams, Tasks <- ServiceTasks, Oneshot <- FALSE

Bootstrap == INSTANCE DockerWorker WITH
    Params <- BootstrapParams, Tasks <- BootstrapTasks, Oneshot <- TRUE,
    CopyOnce <- {}

VARIABLE container

EitherInit == \/ container = "service" /\ Service!Init
              \/ container = "bootstrap" /\ Bootstrap!Init

EitherNext ==
    /\ \/ container = "service" /\ Service!Next
       \/ container = "bootstrap" /\ Bootstrap!Next
    /\ UNCHANGED container

EitherSpec == EitherInit /\ [][EitherNext]_<<vars, container>>

Symmetry == Permutations(Images) \cup Permutations(Confs)

=============================================================================
