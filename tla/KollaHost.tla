------------------------------ MODULE KollaHost ------------------------------
(***************************************************************************)
(* One managed host, seen through the calls that ansible/module_utils      *)
(* makes on it: the container engine (docker-py), systemd (D-Bus and the   *)
(* unit directory) and the files rendered for one service.  Nothing here   *)
(* is code of the repository: the engine and systemd are modelled from how *)
(* DockerWorker and SystemdWorker use them.  The state is that of ONE      *)
(* container name and ONE image reference, the pair a kolla_container task *)
(* is about.                                                               *)
(***************************************************************************)
EXTENDS Naturals

CONSTANTS
    Images,        \* image ids the registry may serve under params['image']
    Specs,         \* everything create_container is given, by name
    CopyAlways,    \* the Specs with KOLLA_CONFIG_STRATEGY = COPY_ALWAYS
    CopyOnce,      \* the Specs with KOLLA_CONFIG_STRATEGY = COPY_ONCE
    Confs,         \* versions of the files under /etc/kolla/<service>
    Units,         \* contents generate_unit_file can produce
    None,          \* absence of an image, a file, a container attribute
    BusMayFail,    \* may a D-Bus method call raise?
    MayReboot      \* may the host reboot?

ASSUME HostAssumption ==
    /\ None \notin Images \cup Specs \cup Confs \cup Units
    /\ CopyAlways \subseteq Specs
    /\ CopyOnce \subseteq Specs
    /\ CopyAlways \cap CopyOnce = {}
    /\ BusMayFail \in BOOLEAN
    /\ MayReboot \in BOOLEAN

VARIABLES
    registry,   \* image id served by the registry, None: the pull reports an error
    image,      \* image id params['image'] resolves to on the host
    status,     \* the container: "absent", "created", "running", "exited"
    cImage,     \* image id it was created from
    cSpec,      \* parameters it was created with
    cFiles,     \* version of the files kolla_set_configs last copied into it
    volume,     \* does the named volume exist?
    conf,       \* version of the rendered files on the host
    unitFile,   \* content of kolla-<name>-container.service on disk
    enabled,    \* did EnableUnitFiles succeed for the unit?
    sub,        \* sub-state of the unit, as ListUnits reports it
    job         \* systemd job queued for the unit

containerVars == <<status, cImage, cSpec, cFiles>>
unitVars == <<unitFile, enabled>>
hostVars == <<registry, image, status, cImage, cSpec, cFiles, volume, conf,
              unitFile, enabled, sub, job>>

SubStates == {"dead", "running", "auto-restart", "failed"}
Jobs == {"none", "start", "stop", "restart"}

HostTypeOK ==
    /\ registry \in Images \cup {None}
    /\ image \in Images \cup {None}
    /\ status \in {"absent", "created", "running", "exited"}
    /\ cImage \in Images \cup {None}
    /\ cSpec \in Specs \cup {None}
    /\ cFiles \in Confs \cup {None}
    /\ volume \in BOOLEAN
    /\ conf \in Confs
    /\ unitFile \in Units \cup {None}
    /\ enabled \in BOOLEAN
    /\ sub \in SubStates
    /\ job \in Jobs

\* A host on which the service has never been deployed.
HostInit ==
    /\ registry \in Images \cup {None}
    /\ image = None
    /\ status = "absent"
    /\ cImage = None
    /\ cSpec = None
    /\ cFiles = None
    /\ volume = FALSE
    /\ conf \in Confs
    /\ unitFile = None
    /\ enabled = FALSE
    /\ sub = "dead"
    /\ job = "none"

-----------------------------------------------------------------------------
(* Effects of engine calls.                                                *)

\* kolla_set_configs, run by the image's entrypoint at every start: COPY_ONCE
\* keeps what the first start copied.
FilesAfterStart == IF cSpec \in CopyOnce /\ cFiles # None THEN cFiles ELSE conf

\* `docker start`: by the engine API, or by the unit's ExecStart.
ContainerStarts ==
    /\ status # "absent"
    /\ status' = "running"
    /\ cFiles' = IF status = "running" THEN cFiles ELSE FilesAfterStart
    /\ UNCHANGED <<cImage, cSpec>>

\* `docker stop`, a no-op on a container that does not run.
ContainerStops ==
    /\ status' = IF status = "running" THEN "exited" ELSE status
    /\ UNCHANGED <<cImage, cSpec, cFiles>>

\* The unit's main process is `docker start -a`: it ends with the container.
\* Restart= and the start limit decide what the unit becomes.
UnitLosesProcess ==
    IF sub = "running" THEN sub' \in {"auto-restart", "dead", "failed"}
                       ELSE UNCHANGED sub

EngineCreates(img, spec) ==
    /\ status' = "created"
    /\ cImage' = img
    /\ cSpec' = spec
    /\ cFiles' = None

\* remove(force=True) kills the process of a running container.
EngineRemoves ==
    /\ status' = "absent"
    /\ cImage' = None
    /\ cSpec' = None
    /\ cFiles' = None
    /\ IF status = "running" THEN UnitLosesProcess ELSE UNCHANGED sub

-----------------------------------------------------------------------------
(* Steps the host takes by itself.                                         *)

ContainerExits ==
    /\ status = "running"
    /\ ContainerStops
    /\ UnitLosesProcess
    /\ UNCHANGED <<registry, image, volume, conf, unitFile, enabled, job>>

\* Start of the unit's process; it fails when there is no such container.
UnitStarts ==
    \/ /\ ContainerStarts
       /\ sub' = "running"
    \/ /\ status = "absent"
       /\ sub' \in {"auto-restart", "failed"}
       /\ UNCHANGED containerVars

StartJobRuns ==
    /\ job = "start"
    /\ job' = "none"
    /\ IF sub = "running" THEN UNCHANGED <<containerVars, sub>> ELSE UnitStarts
    /\ UNCHANGED <<registry, image, volume, conf, unitFile, enabled>>

\* ExecStop, `docker stop`, runs only when the unit is active.
StopJobRuns ==
    /\ job \in {"stop", "restart"}
    /\ job' = IF job = "restart" THEN "start" ELSE "none"
    /\ IF sub = "running" THEN ContainerStops ELSE UNCHANGED containerVars
    /\ sub' = "dead"
    /\ UNCHANGED <<registry, image, volume, conf, unitFile, enabled>>

\* RestartSec has elapsed.
AutoRestarts ==
    /\ sub = "auto-restart"
    /\ job = "none"
    /\ UnitStarts
    /\ UNCHANGED <<registry, image, volume, conf, unitFile, enabled, job>>

\* Another image is pushed under the tag, or the registry goes away or returns.
RegistryChanges ==
    /\ registry' \in (Images \cup {None}) \ {registry}
    /\ UNCHANGED <<image, containerVars, volume, conf, unitFile, enabled, sub, job>>

\* The unit is pulled in by multi-user.target when its file is there and enabled.
HostReboots ==
    /\ MayReboot
    /\ status' = IF status = "running" THEN "exited" ELSE status
    /\ sub' = "dead"
    /\ job' = IF unitFile # None /\ enabled THEN "start" ELSE "none"
    /\ UNCHANGED <<registry, image, cImage, cSpec, cFiles, volume, conf,
                   unitFile, enabled>>

HostNext ==
    \/ ContainerExits
    \/ StartJobRuns
    \/ StopJobRuns
    \/ AutoRestarts
    \/ RegistryChanges

=============================================================================
