--------------------------- MODULE MCPodmanWorker ---------------------------
(***************************************************************************)
(* PodmanWorker on the two sorts of containers that roles deploy: a        *)
(* service, and a bootstrap container, which is oneshot.                   *)
(***************************************************************************)
EXTENDS PodmanWorker, TLC

ServiceParams == [spec : Specs, unit : Units, detach : {TRUE},
                  remove_on_exit : {TRUE}, ignore_missing : {FALSE}]

ServiceTasks == {"compare_container", "pull_image",
                 "recreate_or_restart_container", "start_container",
                 "stop_container", "stop_and_remove_container"}

BootstrapParams == [spec : Specs, unit : {CHOOSE u \in Units : TRUE}, detach : {FALSE},
                    remove_on_exit : BOOLEAN, ignore_missing : {FALSE}]

BootstrapTasks == {"start_container", "restart_container",
                   "remove_container", "remove_image"}

EitherParams == ServiceParams \cup BootstrapParams
EitherTasks == ServiceTasks \cup BootstrapTasks

Service == INSTANCE PodmanWorker WITH
    Params <- ServiceParams, Tasks <- ServiceTasks, Oneshot <- FALSE

Bootstrap == INSTANCE PodmanWorker WITH
    Params <- BootstrapParams, Tasks <- BootstrapTasks, Oneshot <- TRUE,
    CopyOnce <- {}

VARIABLE container

EitherInit == \/ container = "service" /\ Service!Init
              \/ container = "bootstrap" /\ Bootstrap!Init

EitherNext ==
    /\ \/ container = "service" /\ Service!PodmanNext
       \/ container = "bootstrap" /\ Bootstrap!PodmanNext
    /\ UNCHANGED container

EitherSpec == EitherInit /\ [][EitherNext]_<<vars, container>>

Symmetry == Permutations(Images) \cup Permutations(Confs)

=============================================================================
