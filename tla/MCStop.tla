------------------------------- MODULE MCStop -------------------------------
(* DockerWorker on a service that is started, stopped and restarted.       *)
EXTENDS DockerWorker

\* Both ways of stopping a container that may be missing, and a restart.
StopParams == [spec : Specs, unit : Units, detach : {TRUE},
               remove_on_exit : {TRUE}, ignore_missing : BOOLEAN]

StopTasks == {"start_container", "stop_container", "restart_container"}

=============================================================================
