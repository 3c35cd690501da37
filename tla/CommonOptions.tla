--------------------------- MODULE CommonOptions ---------------------------
(***************************************************************************)
(* generate_module of ansible/library/kolla_container.py: the parameters   *)
(* of a task, the docker_common_options of the inventory and the defaults  *)
(* become the params the workers see.  One step per parameter of the loop. *)
(* A value is <<kind, text>>; int() drops the leading zeros of a text.     *)
(***************************************************************************)
EXTENDS Naturals, Sequences, Dicts

CONSTANTS
    Given,          \* module.params a task may have, without environment
    Common,         \* dicts common_options may be in the inventory
    Environments,   \* dicts environment may be, of either
    Digits          \* [texts of digits -> the number each is]

\* One parameter of each sort: with a default, with default None, of the module
\* alone and of the module with a default there, and the two that are dropped.
Parameters == <<"restart_retries", "api_version", "auth_password", "name", "detach",
                "pid_mode", "ipc_mode">>
NoValue == <<"none", "">>

common_options_defaults ==
    [restart_retries |-> <<"int", "10">>,
     api_version |-> <<"str", "auto">>,
     auth_password |-> NoValue]

IsDigit(v) == v[1] = "str" /\ v[2] \in DOMAIN Digits
ToInt(v) == <<"int", Digits[v[2]]>>

\* AnsibleModule converts every parameter by its type; what the inventory has as
\* restart_retries is a number or a text.
ASSUME OptionsAssumption ==
    /\ \A p \in Given :
          /\ DOMAIN p = {Parameters[j] : j \in 1 .. Len(Parameters)}
          /\ p.restart_retries = NoValue \/ p.restart_retries[1] = "int"
    /\ \A c \in Common : "restart_retries" \in DOMAIN c => c.restart_retries[1] \in {"int", "str"}

VARIABLES
    given,      \* module.params without common_options and environment
    common,     \* common_options as passed
    envs,       \* <<environment of common_options, of the task>>
    seen,       \* parameters the loop has seen
    new_args    \* the dict under construction, then module.params

optionVars == <<given, common, envs, seen, new_args>>

OptionsInit ==
    /\ given \in Given
    /\ common \in Common
    /\ envs \in Environments \X Environments
    /\ seen = 0
    /\ new_args = common

\* Fault: a text from the inventory stays a text.
MergeKeepsText(k, v) ==
    IF v # NoValue THEN Set(new_args, k, v)
    ELSE IF k \in DOMAIN common_options_defaults \ DOMAIN new_args
      THEN Set(new_args, k, common_options_defaults[k])
    ELSE new_args

\* Body of the loop for parameter k with value v.
MergeParameter(k, v) ==
    CASE v # NoValue -> Set(new_args, k, v)
      [] v = NoValue /\ k \in DOMAIN common_options_defaults /\ k \in DOMAIN new_args ->
           IF IsDigit(new_args[k]) THEN Set(new_args, k, ToInt(new_args[k])) ELSE new_args
      [] v = NoValue /\ k \in DOMAIN common_options_defaults \ DOMAIN new_args ->
           IF common_options_defaults[k] # NoValue
           THEN Set(new_args, k, common_options_defaults[k]) ELSE new_args
      [] OTHER -> new_args

MergeOption ==
    /\ seen < Len(Parameters)
    /\ new_args' = MergeParameter(Parameters[seen + 1], given[Parameters[seen + 1]])
    /\ seen' = seen + 1
    /\ UNCHANGED <<given, common, envs>>

\* The environments are joined, the empty modes dropped.
Finish ==
    /\ seen = Len(Parameters)
    /\ LET falsy == {k \in {"pid_mode", "ipc_mode"} \cap DOMAIN new_args :
                        new_args[k][2] = ""}
       IN  new_args' = Set([k \in DOMAIN new_args \ falsy |-> new_args[k]],
                           "environment", <<"dict", Overlay(envs[2], envs[1])>>)
    /\ seen' = seen + 1
    /\ UNCHANGED <<given, common, envs>>

OptionsNext == MergeOption \/ Finish

OptionsSpec == OptionsInit /\ [][OptionsNext]_optionVars

-----------------------------------------------------------------------------
Finished == seen > Len(Parameters)

\* The numbers the systemd worker divides are numbers, whether the inventory
\* gave them as numbers or as texts, and an absent one has its default; a text
\* that is no number is the only exception.
NumbersAreInts ==
    Finished => \/ new_args.restart_retries[1] = "int"
                \/ /\ given.restart_retries = NoValue /\ common.restart_retries[1] = "str"
                   /\ common.restart_retries[2] \notin DOMAIN Digits

\* A task's own parameter is never lost to the inventory's.
TaskWins ==
    Finished =>
        /\ \A k \in DOMAIN given :
              given[k] # NoValue =>
                 IF k \in {"pid_mode", "ipc_mode"} /\ given[k][2] = ""
                 THEN k \notin DOMAIN new_args ELSE new_args[k] = given[k]
        /\ \A k \in DOMAIN envs[2] : new_args.environment[2][k] = envs[2][k]

\* What args have for a parameter the task does not give: the inventory's value,
\* with a text of digits as its number where there is a default for the parameter,
\* else that default, else nothing.
Inherits(args, k) ==
    IF k \in DOMAIN common
    THEN /\ k \in DOMAIN args
         /\ args[k] = IF k \in DOMAIN common_options_defaults /\ IsDigit(common[k])
                      THEN ToInt(common[k]) ELSE common[k]
    ELSE IF k \in DOMAIN common_options_defaults /\ common_options_defaults[k] # NoValue
    THEN k \in DOMAIN args /\ args[k] = common_options_defaults[k]
    ELSE k \notin DOMAIN args

\* Where the task gives none, a parameter is the inventory's or the default, except
\* that an empty mode is dropped; likewise the variables of the environment.
InventoryElse ==
    Finished =>
        /\ \A k \in DOMAIN given :
              given[k] = NoValue =>
                 IF k \in {"pid_mode", "ipc_mode"} \cap DOMAIN common /\ common[k][2] = ""
                 THEN k \notin DOMAIN new_args ELSE Inherits(new_args, k)
        /\ \A k \in DOMAIN envs[1] \ DOMAIN envs[2] : new_args.environment[2][k] = envs[1][k]

\* generate_module: a parameter is the task's, else the inventory's, else the
\* default, and the numbers the systemd worker divides are numbers, wherever they
\* come from.
OptionsMerged == TaskWins /\ InventoryElse /\ NumbersAreInts

=============================================================================
