--------------------------- MODULE WorkerContract ---------------------------
(* The refinement mapping from a worker on a host to ContainerContract.    *)
EXTENDS DockerWorker

Contract == INSTANCE ContainerContract WITH
    task <- IF pc = "idle" THEN "idle" ELSE op,
    want <- par,
    outcome <- result,
    held <- IF status = "absent" THEN None ELSE <<cImage, cSpec>>

\* The worker implements the contract: every step it or the host takes is one
\* the contract allows, or changes nothing the contract speaks of.  In particular
\* a container never changes in place, a deployment gives a container up only
\* with an image at hand, and success means what Kept says, whatever the engine,
\* systemd, a kill or a reboot did meanwhile.
ImplementsContract == Contract!Spec

=============================================================================
