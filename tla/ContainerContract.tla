------------------------- MODULE ContainerContract -------------------------
(***************************************************************************)
(* What a kolla_container task promises its role, whichever engine runs    *)
(* the container: docker or podman, with or without systemd.  The state    *)
(* of the host is reduced to the image the task's reference resolves to,   *)
(* the identity <<image, spec>> of the container that holds the name, and  *)
(* the named volume.                                                       *)
(***************************************************************************)
CONSTANTS Images, Specs, Actions, None

VARIABLES
    task,      \* action of the task that runs, "idle" between two tasks
    want,      \* its parameters [spec, detach, remove_on_exit]
    outcome,   \* of the last task: "none", "ok", "failed", "killed"
    registry,  \* image the registry serves
    image,     \* image the reference resolves to on the host
    held,      \* <<image, spec>> of the container, None: there is none
    volume     \* does the volume exist?

contractVars == <<task, want, outcome, registry, image, held, volume>>

Deploying == {"start_container", "recreate_or_restart_container"}
Removing == {"remove_container", "stop_and_remove_container"}
Fetching == Deploying \cup {"pull_image", "ensure_image"}

Init ==
    /\ task = "idle"
    /\ outcome = "none"
    /\ image = None
    /\ held = None
    /\ volume = FALSE

Call ==
    /\ task = "idle"
    /\ task' \in Actions
    /\ want'.spec \in Specs
    /\ outcome' = "none"
    /\ UNCHANGED <<registry, image, held, volume>>

-----------------------------------------------------------------------------
(* What a step of a task may do to the host.                               *)

Pull ==
    /\ task \in Fetching
    /\ registry # None
    /\ image' = registry
    /\ UNCHANGED <<held, volume>>

DropImage ==
    /\ task = "remove_image"
    /\ held = None \/ held[1] # image
    /\ image' = None
    /\ UNCHANGED <<held, volume>>

\* A deployment never gives up a container without an image for the next one.
Remove ==
    /\ task \in Removing \/ (task \in Deploying /\ image # None)
    /\ held' = None
    /\ UNCHANGED <<image, volume>>

\* A container is never changed in place.
Create ==
    /\ task \in Deploying
    /\ held = None
    /\ held' = <<image, want.spec>>
    /\ UNCHANGED <<image, volume>>

MakeVolume ==
    /\ task = "create_volume"
    /\ volume' = TRUE
    /\ UNCHANGED <<image, held>>

DropVolume ==
    /\ task = "remove_volume"
    /\ held = None
    /\ volume' = FALSE
    /\ UNCHANGED <<image, held>>

Leave == UNCHANGED <<image, held, volume>>

-----------------------------------------------------------------------------
(* What the end of a task says about the host.                             *)

Kept ==
    /\ task \in Deploying /\ want.detach => held' = <<image', want.spec>>
    /\ task = "start_container" /\ ~want.detach /\ want.remove_on_exit => held' = None
    /\ task \in Removing => held' = None
    /\ task \in Fetching => image' # None
    /\ task = "remove_image" => image' = None
    /\ task = "create_volume" => volume'
    /\ task = "remove_volume" => ~volume'

Outcome ==
    \/ UNCHANGED <<task, outcome>>
    \/ task' = "idle" /\ outcome' \in {"failed", "killed"}
    \/ task' = "idle" /\ outcome' = "ok" /\ Kept

Step ==
    /\ task # "idle"
    /\ Pull \/ DropImage \/ Remove \/ Create \/ MakeVolume \/ DropVolume \/ Leave
    /\ Outcome
    /\ UNCHANGED <<want, registry>>

\* The registry serves another image, or none.
RegistryMoves == UNCHANGED <<task, want, outcome, image, held, volume>>

\* Between two tasks the reference may become another one.
ReferenceMoves ==
    /\ task = "idle"
    /\ UNCHANGED <<task, want, outcome, registry, held, volume>>

Next == Call \/ Step \/ RegistryMoves \/ ReferenceMoves

Spec == Init /\ [][Next]_contractVars

=============================================================================
