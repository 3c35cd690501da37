------------------------- MODULE MCContainerParams -------------------------
(***************************************************************************)
(* The parameters of kolla_container, from the task to the container: in a *)
(* behaviour either "options", generate_module for the combinations of     *)
(* CommonOptions, or "compare", the comparisons of both engines on         *)
(* parameters that vary one group of fields at a time.                     *)
(***************************************************************************)
EXTENDS ContainerCompare, CommonOptions

PartialFunctions(D, R) == UNION {[S -> R] : S \in SUBSET D}

Base(e) ==
    [image |-> <<"r/", "n:1">>, cap_add |-> {}, security_opt |-> {}, ipc_mode |-> Unset, pid_mode |-> Unset,
     privileged |-> FALSE, cgroupns_mode |-> Unset, labels |-> <<>>,
     tmpfs |-> {}, volumes |-> <<<<"v", "/c">>>>, volumes_from |-> {}, environment |-> <<>>,
     state |-> "running", dimensions |-> <<>>,
     ulimits |-> IF e = "podman" THEN UlimitDefaults ELSE <<>>,
     command |-> <<Unset>>, healthcheck |-> <<>>]

MCPaths == {"/s", "/c", "/d", "/e", "/p"}

Volume == {<<>>, <<"/d">>, <<"/s", "/d">>, <<"/s", "/e", "ro">>,
           <<"/s", "/d", "shared">>, <<"v", "/d">>, <<"v", "/e", "ro">>,
           <<"w", "/d", "rw">>, <<"/s", "d">>, <<"devpts", "/p">>}

\* The order in which podman shows two binds of one source is not modelled.
VolumeLists(e) ==
    {<<>>} \cup
    {<<v, w>> : v \in Volume,
                w \in {x \in Volume : e = "podman" =>
                                        x = <<>> \/ x[1] # "/s"}}

Test == {[kind |-> "NONE", val |-> <<>>], [kind |-> "text", val |-> <<"x">>],
         [kind |-> "list", val |-> <<"CMD-SHELL", "x">>],
         [kind |-> "list", val |-> <<"CMD", "x">>]}

Health == {[test |-> t, interval |-> i, timeout |-> 3, start_period |-> 5,
            retries |-> r] : t \in Test, i \in {30, NotInt}, r \in {3, 4}}

MCImageLabels == [i1 |-> [k |-> "a"], i2 |-> [k |-> "a", l |-> "a"]]

ParamSets(e) ==
    {[Base(e) EXCEPT !.image = x] : x \in {"r/", "s/"} \X {"n:1", "n:2"}}
    \cup {[Base(e) EXCEPT !.cap_add = x] : x \in SUBSET {"A", "B"}}
    \cup {[Base(e) EXCEPT !.security_opt = x, !.ipc_mode = i, !.pid_mode = d, !.privileged = b] :
            x \in SUBSET {"o", "label=disable"}, i \in {Unset, "host"},
            d \in {Unset, "host"}, b \in BOOLEAN}
    \cup {[Base(e) EXCEPT !.ipc_mode = i, !.pid_mode = d] :
            i \in {Unset, "private"}, d \in {Unset, "private"}}
    \cup {[Base(e) EXCEPT !.cgroupns_mode = x] : x \in {"private", "host"}}
    \cup {[Base(e) EXCEPT !.labels = x] : x \in PartialFunctions({"k", "u"}, {"a", "b"})}
    \cup {[Base(e) EXCEPT !.tmpfs = x] : x \in SUBSET {"", "/t"}}
    \cup {[Base(e) EXCEPT !.volumes = x] : x \in VolumeLists(e)}
    \cup {[Base(e) EXCEPT !.volumes_from = x] : x \in SUBSET {"c"}}
    \cup {[Base(e) EXCEPT !.environment = x] :
            x \in PartialFunctions({"e", "KOLLA_SERVICE_NAME"},
                                   {<<"str", "1">>, <<"str", "name">>, <<"int", "1">>, <<"none", "">>})}
    \cup {[Base(e) EXCEPT !.state = x] : x \in {"exited", "paused"}}
    \cup {[Base(e) EXCEPT !.dimensions = x] :
            x \in {[mem_limit |-> <<1, u>>] : u \in {"", "b", "k", "m", "x", "null"}}
                  \cup {[mem_limit |-> <<1024, "k">>], [kernel_memory |-> <<1, "">>],
                        [cpu_shares |-> <<1, "">>], [bogus |-> <<1, "">>]}}
    \cup {[Base(e) EXCEPT !.ulimits = x] :
            x \in {<<>>, [nofile |-> <<1, 2>>], [nofile |-> <<1, 1>>],
                   [RLIMIT_NOFILE |-> <<1, 1>>, RLIMIT_NPROC |-> <<9, 9>>]}}
    \cup {[Base(e) EXCEPT !.command = x] : x \in {<<>>, <<"a">>, <<"a", "b">>, <<"kolla_start">>}}
    \cup {[Base(e) EXCEPT !.healthcheck = x] : x \in Health \cup
            {[test |-> [kind |-> "text", val |-> <<"x">>]],
             [bogus |-> 1]}}

MCDockerParams == ParamSets("docker")
MCPodmanParams == ParamSets("podman")

-----------------------------------------------------------------------------
\* What AnsibleModule makes of each parameter.
MCGiven ==
    [restart_retries : {NoValue, <<"int", "3">>},
     api_version : {NoValue, <<"str", "7">>},
     auth_password : {NoValue, <<"str", "07">>},
     name : {NoValue, <<"str", "a">>},
     detach : {<<"bool", "True">>, <<"bool", "False">>},
     pid_mode : {NoValue, <<"str", "">>, <<"str", "host">>},
     ipc_mode : {NoValue, <<"str", "">>}]

\* Any subset of two options, numbers or texts, and parameters of the module.
MCCommon ==
    PartialFunctions({"restart_retries", "auth_password"},
                     {<<"int", "7">>, <<"str", "7">>, <<"str", "07">>, <<"str", "x">>})
    \cup {[pid_mode |-> <<"str", "host">>], [name |-> <<"str", "b">>],
          [detach |-> <<"bool", "False">>]}

MCEnvironments == PartialFunctions({"A"}, {"1", "2"})
MCDigits == [t \in {"7", "07"} |-> "7"]

VARIABLE chosen

paramsVars == <<compareVars, optionVars, chosen>>

NoCompare == Init /\ engine = "docker" /\ image = "i1"
NoOptions == given = <<>> /\ common = <<>> /\ envs = <<>> /\ seen = 0 /\ new_args = <<>>

ParamsInit == \/ chosen = "compare" /\ Init /\ NoOptions
              \/ chosen = "options" /\ NoCompare /\ OptionsInit

ParamsNext ==
    /\ \/ chosen = "compare" /\ Next /\ UNCHANGED optionVars
       \/ chosen = "options" /\ OptionsNext /\ UNCHANGED compareVars
    /\ UNCHANGED chosen

ParamsSpec == ParamsInit /\ [][ParamsNext]_paramsVars

=============================================================================
