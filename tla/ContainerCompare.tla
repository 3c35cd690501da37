-------------------------- MODULE ContainerCompare --------------------------
(***************************************************************************)
(* check_container_differs of kolla_container_worker.py, field by field,   *)
(* against what create_container of the two workers hands to the engine:   *)
(* the inequality of specs that DockerWorker takes for granted.  A         *)
(* container is created with one set of parameters; images move; then any  *)
(* parameters are compared with it.  Texts are small tuples:               *)
(*   image          <<what precedes the last '/', name:tag>>               *)
(*   volume         vol.split(':'), <<>> for the empty string              *)
(*   environment    <<kind, text>>, kind "str", "int" or "none" (YAML null)*)
(*   dimension      <<number, unit>>, unit "" for an int, "null" for null  *)
(*   healthcheck    test is [kind, val]; NotInt is a text int() rejects    *)
(***************************************************************************)
EXTENDS Integers, Sequences, SequencesExt, FiniteSetsExt, Dicts

CONSTANTS
    DockerParams,         \* parameters, as generate_module leaves them, of
    PodmanParams,         \* hosts with docker and with podman
    Images,               \* image ids
    ImageLabels,          \* [Images -> labels of the image]
    Paths,                \* the texts with a '/' in them
    CgroupnsSupported,    \* API version >= 1.41
    KernelMemoryRemoved   \* API version >= 1.42

NotInt == -1
NoImage == "no image"
Unset == "unset"   \* a parameter generate_module dropped or left None
None == [kind |-> "none", hc |-> <<>>]

VARIABLES
    engine,    \* kolla_container_engine: "docker" or "podman"
    image,     \* id params['image'] resolves to, NoImage when it does not
    made,      \* parameters of the container, as a sequence of at most one
    info,      \* container_info, as a sequence of at most one
    asked,     \* parameters last compared, as a sequence of at most one
    verdict    \* "same", "differs", "fail"; "none" before a comparison

compareVars == <<engine, image, made, info, asked, verdict>>

-----------------------------------------------------------------------------
(* Parsing                                                                 *)

\* generate_volumes.  An item "/a:b" has no third part: IndexError.
Items(vols) == ToSet(vols) \ {<<>>}     \* without the empty strings
Full(v) == IF Len(v) = 2 /\ (v[1] \notin Paths \/ v[2] \in Paths)
           THEN Append(v, "rw") ELSE v
VolumesParse(vols) == \A v \in Items(vols) : Len(Full(v)) # 2
VolList(vols) == {IF Len(v) = 1 THEN v[1] ELSE v[2] : v \in Items(vols)}
BindItems(vols) == {i \in DOMAIN vols : Len(vols[i]) > 1}

\* Fault: keyed by the target.
VolDictByTarget(vols) ==
    LET last(t) == Max({i \in BindItems(vols) : vols[i][2] = t})
    IN  {Full(vols[last(vols[i][2])]) : i \in BindItems(vols)}

\* vol_dict as the set of its <<source, bind, mode>>: the last item of a source.
VolDict(vols) ==
    LET last(s) == Max({i \in BindItems(vols) : vols[i][1] = s})
    IN  {Full(vols[last(vols[i][1])]) : i \in BindItems(vols)}

\* parse_healthcheck: nothing to check, exit_json or an exception, or a record
\* of the values handed to the engine.
HealthKeys == {"test", "interval", "timeout", "start_period", "retries"}
Nanoseconds(n) == <<n, "e9">>      \* n * 10^9, beyond TLC's integers
ParseHealthcheck(hc) ==
    IF DOMAIN hc = {} THEN None
    ELSE IF DOMAIN hc # HealthKeys THEN [kind |-> "fail", hc |-> <<>>]
    ELSE IF hc.test.kind = "NONE" THEN None
    ELSE IF \E k \in HealthKeys \ {"test"} : hc[k] = NotInt
      THEN [kind |-> "fail", hc |-> <<>>]
    ELSE [kind |-> "ok",
          hc |-> <<IF hc.test.kind = "list" THEN hc.test.val
                                            ELSE <<"CMD-SHELL">> \o hc.test.val,
                   Nanoseconds(hc.interval), Nanoseconds(hc.timeout),
                   Nanoseconds(hc.start_period), hc.retries>>]

\* unit_sizes of dimensions_differ, and docker-py's own on creation.
UnitSize(u) == CASE u \in {"", "b"} -> 1 [] u = "k" -> 1024
                 [] u = "m" -> 1048576
Units == {"", "b", "k", "m"}
Bytes(d) == d[1] * UnitSize(d[2])

Supported == {"mem_limit", "cpu_shares", "kernel_memory"}   \* of eleven
DimensionMap == IF engine = "docker" /\ KernelMemoryRemoved
                THEN <<"mem_limit", "cpu_shares">>
                ELSE <<"mem_limit", "cpu_shares", "kernel_memory">>

\* default_podman_dimensions_el9: what podman gives every container.
UlimitDefaults == [RLIMIT_NOFILE |-> <<9, 9>>, RLIMIT_NPROC |-> <<9, 9>>]

\* podman's parse_dimensions drops the names of the defaults.
ParseUlimits(ulimits) ==
    [n \in DOMAIN ulimits \ DOMAIN UlimitDefaults |-> ulimits[n]]

\* build_ulimits, <<soft, hard>> by name to a list of Name, Soft and Hard; only
\* sorted lists are compared.
BuildUlimits(ulimits) ==
    {[Name |-> n, Soft |-> ulimits[n][1], Hard |-> ulimits[n][2]] :
        n \in DOMAIN ulimits}

-----------------------------------------------------------------------------
(* create_container                                                        *)

\* generate_module drops a pid_mode that is "", and the choices exclude it for
\* cgroupns_mode.
IsParams(p) ==
    /\ p.pid_mode # "" /\ p.cgroupns_mode # ""
    /\ p.image \in STRING \X STRING
    /\ p.labels \in [DOMAIN p.labels -> STRING]
    /\ p.environment \in [DOMAIN p.environment -> {"str", "int", "none"} \X STRING]
    /\ p.dimensions \in [DOMAIN p.dimensions -> Int \X STRING]
    /\ p.ulimits \in [DOMAIN p.ulimits -> Int \X Int]
    /\ p.volumes \in Seq(Seq(STRING))
    /\ \A v \in ToSet(p.volumes) : Len(v) <= 3

\* The order in which podman shows two binds of one source is not modelled.
ASSUME CompareAssumption ==
    /\ CgroupnsSupported \in BOOLEAN
    /\ KernelMemoryRemoved \in BOOLEAN
    /\ NoImage \notin Images
    /\ "devpts" \notin Paths
    /\ \A i \in Images : ImageLabels[i] \in [DOMAIN ImageLabels[i] -> STRING]
    /\ \A p \in DockerParams \cup PodmanParams : IsParams(p)
    /\ \A p \in PodmanParams : \A u, v \in Items(p.volumes) :
          u[1] = v[1] /\ u[1] \in Paths => u = v

\* create_container neither raises nor exits, and the engine takes what it gets
\* (it refuses a relative mount point).  podman's args.update(None) raises for a
\* healthcheck with the test NONE; an empty command is the image's.
Creatable(p) ==
    /\ DOMAIN p.dimensions \subseteq Supported
    /\ \A d \in DOMAIN p.dimensions : p.dimensions[d][2] \in Units \cup {"null"}
    /\ ParseHealthcheck(p.healthcheck).kind # "fail"
    /\ engine = "podman" /\ ParseHealthcheck(p.healthcheck) = None
          => DOMAIN p.healthcheck = {}
    /\ VolumesParse(p.volumes)
    /\ engine = "podman" => \A v \in Items(p.volumes) : Len(v) # 1

HostMode(p) == p.ipc_mode = "host" \/ p.pid_mode = "host" \/ p.privileged

ServiceName == <<"str", "name">>      \* params['name'], with '-' for '_'

\* _inject_env_var and _format_env_vars; str(value) of prepare_container_args.
EnvGiven(p) ==
    LET text(v) == IF v[1] # "none" THEN v[2]
                   ELSE IF engine = "docker" THEN "" ELSE "None"
        given == [k \in DOMAIN p.environment |-> <<"str", text(p.environment[k])>>]
    IN  IF engine = "docker"
        THEN Overlay([KOLLA_SERVICE_NAME |-> ServiceName], given)
        ELSE given

\* build_container_options and build_host_config, as inspect_container shows
\* them.  The engine fills in its defaults and the image's labels and command.
DockerCreate(p, img) ==
    [Image |-> img,
     ImageName |-> p.image,
     CapAdd |-> p.cap_add,
     SecurityOpt |-> p.security_opt \cup (IF HostMode(p) THEN {"label=disable"} ELSE {}),
     IpcMode |-> IF p.ipc_mode = Unset THEN "private" ELSE p.ipc_mode,
     Labels |-> Overlay(p.labels, ImageLabels[img]),
     Privileged |-> p.privileged,
     PidMode |-> IF p.pid_mode = Unset THEN "" ELSE p.pid_mode,
     CgroupnsMode |-> IF ~CgroupnsSupported THEN ""
                      ELSE IF p.cgroupns_mode = Unset THEN "private"
                      ELSE p.cgroupns_mode,
     Tmpfs |-> p.tmpfs \ {""},
     Volumes |-> VolList(p.volumes),
     Binds |-> VolDict(p.volumes),
     VolumesFrom |-> p.volumes_from,
     Env |-> EnvGiven(p),
     Status |-> "running",
     Dimensions |-> [d \in ToSet(DimensionMap) |->
                       IF d \in DOMAIN p.dimensions /\ p.dimensions[d][2] # "null"
                       THEN Bytes(p.dimensions[d]) ELSE 0],
     Ulimits |-> BuildUlimits(p.ulimits),
     Command |-> IF p.command \in {<<Unset>>, <<>>} THEN <<"kolla_start">> ELSE p.command,
     Healthcheck |-> ParseHealthcheck(p.healthcheck),
     Devpts |-> {}]

\* parse_volumes: bind mounts are a list, named volumes a dict by name, and a
\* source devpts is a mount of that type, which is no bind; podman shows 'ro' or
\* 'rw' with the propagation after it.
Devpts(vols) == {v \in Items(vols) : v[1] = "devpts"}
PodmanBinds(vols) ==
    LET mode(v) == IF Len(v) = 3 /\ v[3] = "ro" THEN "ro" ELSE "rw"
        shown(v) == <<v[1], v[2], mode(v)>>
    IN  {shown(v) : v \in {w \in Items(vols) : w[1] \in Paths}} \cup
        {shown(v) : v \in {w \in VolDict(vols) : w[1] \notin Paths \cup {"devpts"}}}

\* prepare_container_args.  security_opt and tmpfs are not among the arguments;
\* AUDIT_WRITE is one of podman's own capabilities and is not shown as added.
PodmanCreate(p, img) ==
    [DockerCreate(p, img) EXCEPT
        !.SecurityOpt = IF HostMode(p) THEN {"label=disable"} ELSE {},
        !.PidMode = IF p.pid_mode = Unset THEN "private" ELSE p.pid_mode,
        !.CgroupnsMode = IF p.cgroupns_mode = Unset THEN "private" ELSE p.cgroupns_mode,
        !.Tmpfs = {},
        !.Volumes = {b[2] : b \in PodmanBinds(p.volumes)},
        !.Binds = PodmanBinds(p.volumes),
        !.Devpts = {v[2] : v \in Devpts(p.volumes)},
        !.Ulimits = BuildUlimits(Overlay(UlimitDefaults, ParseUlimits(p.ulimits)))]

Create(p, img) ==
    IF engine = "docker" THEN DockerCreate(p, img) ELSE PodmanCreate(p, img)

-----------------------------------------------------------------------------
(* The comparisons                                                         *)

Differs(b) == IF b THEN "differs" ELSE "same"

CompareCapAdd(p, c) == Differs(p.cap_add # c.CapAdd)

CompareSecurityOpt(p, c) == Differs(~HostMode(p) /\ p.security_opt # c.SecurityOpt)

DockerCompareImage(p, c) ==
    Differs(image = NoImage \/ image # c.Image \/ c.ImageName # p.image)

\* parse_tag: the registry and the namespace may differ.
PodmanCompareImage(p, c) ==
    Differs(image = NoImage \/ image # c.Image \/ c.ImageName[2] # p.image[2])

CompareImage(p, c) ==
    IF engine = "docker" THEN DockerCompareImage(p, c) ELSE PodmanCompareImage(p, c)

CompareIpcMode(p, c) == Differs(p.ipc_mode # Unset /\ p.ipc_mode # c.IpcMode)

\* check_image() is None without an image; `del current_labels[k]` raises for a
\* label the container does not have.
CompareLabels(p, c) ==
    IF image = NoImage THEN "fail"
    ELSE LET inherited == DOMAIN ImageLabels[image]
             kept == inherited \cap DOMAIN p.labels
         IN  IF \E k \in kept : ImageLabels[image][k] # p.labels[k] THEN "differs"
             ELSE IF ~((inherited \ kept) \subseteq DOMAIN c.Labels) THEN "fail"
             ELSE Differs(p.labels #
                    [k \in DOMAIN c.Labels \ (inherited \ kept) |-> c.Labels[k]])

ComparePrivileged(p, c) == Differs(p.privileged # c.Privileged)

DockerComparePidMode(p, c) ==
    Differs(p.pid_mode # IF c.PidMode = "" THEN Unset ELSE c.PidMode)

\* 'private' is podman's default.
PodmanComparePidMode(p, c) ==
    Differs(/\ ~(p.pid_mode = Unset /\ c.PidMode = "private")
            /\ p.pid_mode # IF c.PidMode = "" THEN Unset ELSE c.PidMode)

ComparePidMode(p, c) ==
    IF engine = "docker" THEN DockerComparePidMode(p, c)
                         ELSE PodmanComparePidMode(p, c)

CompareCgroupnsMode(p, c) ==
    Differs(/\ engine = "docker" => CgroupnsSupported
            /\ p.cgroupns_mode # Unset
            /\ p.cgroupns_mode # IF c.CgroupnsMode = "" THEN "host" ELSE c.CgroupnsMode)

CompareTmpfs(p, c) == Differs(p.tmpfs \ {""} # c.Tmpfs)

\* Fault: only the mount points are compared.
CompareVolumeTargets(p, c) == Differs(VolList(p.volumes) # c.Volumes)

\* podman: the current volumes are read from the binds alone, modes reduced to
\* 'ro' and 'rw'; without binds, generate_volumes takes the requested ones for
\* the current ones, and without either its None is iterated.  The trailing
\* slashes that both sides get are left out.
PodmanCompareVolumes(p, c) ==
    LET plain == {<<b[1], b[2], IF b[3] = "ro" THEN "ro" ELSE "rw">> :
                     b \in VolDict(p.volumes)}
    IN  IF p.volumes = <<>> THEN "fail"
        ELSE IF c.Binds = {} THEN Differs(VolDict(p.volumes) # plain)
        ELSE Differs(VolList(p.volumes) # c.Volumes \/ VolDict(p.volumes) # c.Binds)

CompareVolumes(p, c) ==
    IF ~VolumesParse(p.volumes) THEN "fail"
    ELSE IF engine = "podman" THEN PodmanCompareVolumes(p, c)
    ELSE Differs(VolList(p.volumes) # c.Volumes \/ VolDict(p.volumes) # c.Binds)

CompareVolumesFrom(p, c) == Differs(p.volumes_from # c.VolumesFrom)

\* Fault: variables the container has and the task does not ask for count.
CompareEnvironmentBothWays(p, c) == Differs(p.environment # c.Env)

CompareEnvironment(p, c) ==
    Differs(\E k \in DOMAIN p.environment :
               k \notin DOMAIN c.Env \/ c.Env[k] # p.environment[k])

CompareContainerState(p, c) == Differs(p.state # c.Status)

\* The verdict of a chain of comparisons joined by `or`.
FirstOf(verdicts) ==
    LET said == {i \in DOMAIN verdicts : verdicts[i] # "same"}
    IN  IF said = {} THEN "same" ELSE verdicts[Min(said)]

\* dimensions_differ
DimensionsDiffer(new, current) ==
    IF new[2] \notin Units THEN "fail" ELSE Differs(Bytes(new) # current)

CompareUlimits(p, c) == Differs(BuildUlimits(p.ulimits) # c.Ulimits)

\* podman's worker compares the values as they are.
PodmanDimensionsDiffer(new, current) == Differs(new # <<current, "">>)

DimensionDiffers(new, current) ==
    IF engine = "docker" THEN DimensionsDiffer(new, current)
                         ELSE PodmanDimensionsDiffer(new, current)

\* The first dimension that differs, or is set and not asked for.
CompareDimensions(p, c) ==
    IF ~(DOMAIN p.dimensions \subseteq ToSet(DimensionMap)) THEN "fail"
    ELSE FirstOf([i \in DOMAIN DimensionMap |->
                    LET d == DimensionMap[i]
                    IN  IF d \in DOMAIN p.dimensions
                        THEN DimensionDiffers(p.dimensions[d], c.Dimensions[d])
                        ELSE Differs(c.Dimensions[d] # 0)]
                 \o <<CompareUlimits(p, c)>>)

CompareCommand(p, c) ==
    IF p.command = <<>> THEN "fail"
    ELSE Differs(p.command # <<Unset>> /\ p.command # c.Command)

CompareHealthcheck(p, c) ==
    IF ParseHealthcheck(p.healthcheck).kind = "fail" THEN "fail"
    ELSE Differs(ParseHealthcheck(p.healthcheck) # c.Healthcheck)

\* Fault: the labels are compared before the image is known to be the same.
LabelsFirst(p, c) ==
    FirstOf(<<CompareCapAdd(p, c), CompareSecurityOpt(p, c), CompareLabels(p, c),
              CompareImage(p, c), CompareIpcMode(p, c), ComparePrivileged(p, c),
              ComparePidMode(p, c), CompareCgroupnsMode(p, c), CompareTmpfs(p, c),
              CompareVolumes(p, c), CompareVolumesFrom(p, c),
              CompareEnvironment(p, c), CompareContainerState(p, c),
              CompareDimensions(p, c), CompareCommand(p, c),
              CompareHealthcheck(p, c)>>)

CheckContainerDiffers(p, c) ==
    FirstOf(<<CompareCapAdd(p, c), CompareSecurityOpt(p, c), CompareImage(p, c),
              CompareIpcMode(p, c), CompareLabels(p, c), ComparePrivileged(p, c),
              ComparePidMode(p, c), CompareCgroupnsMode(p, c), CompareTmpfs(p, c),
              CompareVolumes(p, c), CompareVolumesFrom(p, c),
              CompareEnvironment(p, c), CompareContainerState(p, c),
              CompareDimensions(p, c), CompareCommand(p, c),
              CompareHealthcheck(p, c)>>)

-----------------------------------------------------------------------------
Init ==
    /\ engine \in {"docker", "podman"}
    /\ image \in Images
    /\ made = <<>>
    /\ info = <<>>
    /\ asked = <<>>
    /\ verdict = "none"

CreateContainer(p) ==
    /\ made = <<>>
    /\ Creatable(p)
    /\ made' = <<p>>
    /\ info' = <<Create(p, image)>>
    /\ UNCHANGED <<engine, image, asked, verdict>>

\* Another image under the reference, or the reference is untagged.
ImageMoves ==
    /\ made # <<>> /\ asked = <<>>
    /\ image' \in (Images \cup {NoImage}) \ {image}
    /\ UNCHANGED <<engine, made, info, asked, verdict>>

ContainerExits ==
    /\ made # <<>> /\ asked = <<>>
    /\ info[1].Status = "running"
    /\ info' = <<[info[1] EXCEPT !.Status = "exited"]>>
    /\ UNCHANGED <<engine, image, made, asked, verdict>>

Compare(p) ==
    /\ made # <<>> /\ asked = <<>>
    /\ asked' = <<p>>
    /\ verdict' = CheckContainerDiffers(p, info[1])
    /\ UNCHANGED <<engine, image, made, info>>

ParamSet == [docker |-> DockerParams, podman |-> PodmanParams]

Next ==
    \/ \E p \in ParamSet[engine] : CreateContainer(p) \/ Compare(p)
    \/ ImageMoves
    \/ ContainerExits

Spec == Init /\ [][Next]_compareVars

-----------------------------------------------------------------------------
(* Properties                                                              *)

\* What makes a second run of the same play find its own container changed: a
\* value that the engine does not show the way it was asked for.
Unrepeatable(p) ==
    \/ \E k \in DOMAIN p.environment : p.environment[k][1] # "str"
    \/ \E k \in DOMAIN p.labels \cap DOMAIN ImageLabels[image] :
          p.labels[k] # ImageLabels[image][k]
    \/ p.state # "running"
    \/ /\ engine = "docker" /\ "KOLLA_SERVICE_NAME" \in DOMAIN p.environment
       /\ p.environment["KOLLA_SERVICE_NAME"] # ServiceName
    \/ /\ engine = "podman"
       /\ \/ p.tmpfs \ {""} # {}
          \/ ~HostMode(p) /\ p.security_opt # {}
          \/ \E v \in VolDict(p.volumes) : v[3] \notin {"rw", "ro"}
          \/ /\ PodmanBinds(p.volumes) # {}
             /\ \/ Devpts(p.volumes) # {}
                \/ VolList(p.volumes) # {b[2] : b \in PodmanBinds(p.volumes)}
          \/ \E d \in DOMAIN p.dimensions : p.dimensions[d][2] # ""
          \/ p.ulimits # Overlay(UlimitDefaults, p.ulimits)

\* What creation accepts and no comparison does: an empty command (IndexError),
\* no volumes at all under podman (TypeError), a dimension that the API no longer
\* has or that has no value.
NeverSame(p) ==
    \/ p.command = <<>>
    \/ engine = "podman" /\ p.volumes = <<>>
    \/ \E d \in DOMAIN p.dimensions :
          p.dimensions[d][2] = "null" \/ d \notin ToSet(DimensionMap)

\* Idempotence of the deployment: check_container_differs finds a running
\* container that has just been created with the same parameters and image to be
\* the same, except exactly for the parameters named by Unrepeatable and
\* NeverSame.  (Under podman that includes the volumes of nova_libvirt, one of
\* which is devpts:/dev/pts.)
SecondRunFindsNoChange ==
    /\ asked # <<>> /\ asked = made
    /\ image = info[1].Image /\ info[1].Status = "running"
    => (verdict = "same" <=> ~Unrepeatable(made[1]) /\ ~NeverSame(made[1]))

\* No drift goes unnoticed: a container found to be the same is the one that
\* would be created now, but for environment variables that were dropped, for
\* dropped labels that the image has as well, for ipc mode, cgroup namespace and
\* command no longer asked for, and for security options that the host modes
\* disable.  (Under podman, also but for the volumes of a container that had
\* none, for a devpts mount no longer asked for, for the registry the same image
\* was pulled from, and for security options it has although creation passes none
\* on.)
NoSilentDrift ==
    verdict = "same" /\ Creatable(asked[1]) =>
        LET p == asked[1]
            new == Create(p, image)
            now == info[1]
        IN  /\ \A k \in DOMAIN p.environment : now.Env[k] = new.Env[k]
            /\ now = [new EXCEPT
                  !.Env = now.Env,
                  !.Status = p.state,
                  !.ImageName = IF engine = "podman" THEN <<now.ImageName[1], @[2]>> ELSE @,
                  !.Labels = [k \in DOMAIN @ |->
                                IF k \in DOMAIN p.labels THEN @[k] ELSE now.Labels[k]],
                  !.IpcMode = IF p.ipc_mode = Unset THEN now.IpcMode ELSE @,
                  !.CgroupnsMode = IF p.cgroupns_mode = Unset \/ now.CgroupnsMode = ""
                                   THEN now.CgroupnsMode ELSE @,
                  !.Command = IF p.command = <<Unset>> THEN now.Command ELSE @,
                  !.SecurityOpt = IF HostMode(p) THEN now.SecurityOpt ELSE p.security_opt,
                  !.Volumes = IF engine = "podman" /\ now.Binds = {} THEN {} ELSE @,
                  !.Binds = IF engine = "podman" /\ now.Binds = {} THEN {} ELSE @,
                  !.Devpts = IF now.Binds = {} \/ @ = {} THEN now.Devpts ELSE @]

\* Whatever container it meets and whatever became of the image, comparing
\* parameters with which a container can be created raises or exits only for those
\* of NeverSame, and for these it never says that nothing has changed.
ComparisonFailsOnlyWhereNamed ==
    asked # <<>> /\ Creatable(asked[1]) =>
        /\ verdict = "fail" => NeverSame(asked[1])
        /\ NeverSame(asked[1]) => verdict # "same"

\* Every volume asked for is mounted where it was asked for, podman's devpts by a
\* mount of its own, if no source is asked for twice.
EveryVolumeMounted ==
    made # <<>> =>
        LET vols == made[1].volumes
        IN  (\A i, j \in BindItems(vols) : i # j => vols[i][1] # vols[j][1]) =>
              \A i \in BindItems(vols) :
                 \/ \E b \in info[1].Binds : b[1] = vols[i][1] /\ b[2] = vols[i][2]
                 \/ vols[i][1] = "devpts" /\ vols[i][2] \in info[1].Devpts

=============================================================================
