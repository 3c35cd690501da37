--------------------------- MODULE GlanceUpgrade ---------------------------
(***************************************************************************)
(* kolla-ansible upgrade of glance, in the two orders the role knows       *)
(* (rolling_upgrade.yml and legacy_upgrade.yml): how a service role gets   *)
(* from templates and comparisons over notified handlers to containers,    *)
(* on several hosts that share one database.  A task ends on every host    *)
(* before the next one begins; a run_once task that fails, fails every     *)
(* host; a host that failed is left behind until the play is run again,    *)
(* and what it was notified of is forgotten.                               *)
(***************************************************************************)
EXTENDS Naturals, Sequences, FiniteSets

CONSTANTS
    N,           \* glance_api_hosts, 1 .. N
    MaxFaults    \* tasks that fail, and interruptions

ASSUME UpgradeAssumption ==
    /\ N \in Nat \ {0}
    /\ MaxFaults \in Nat

Hosts == 1 .. N

VARIABLES
    rolling,    \* glance_enable_rolling_upgrade
    conf,       \* hosts with the files of the new release
    new,        \* hosts whose container is of the new release
    up,         \* hosts whose container runs
    missing,    \* hosts without a container
    schema,     \* "old", "expanded", "migrated", "contracted"
    step,       \* the task that runs, an index in Steps, 0 for none
    ready,      \* hosts that are through with it
    leftOut,    \* hosts that failed, and run no more tasks
    notified,   \* hosts with "Restart glance-api container" pending
    finished,   \* a run has ended without a failure
    behind,     \* history: hosts that failed and have not been upgraded since
    serving,    \* history: containers that ran when the play began
    faults

hostVars == <<conf, new, up, missing, schema>>
runVars == <<step, ready, leftOut, notified, finished>>
upgradeVars == <<rolling, hostVars, runVars, behind, serving, faults>>

\* The tasks of upgrade.yml; those of Once run once.
Steps == IF rolling
        THEN <<"config_first", "stop", "expand", "migrate", "config_rest", "check",
               "handlers", "contract">>
        ELSE <<"config", "check", "bootstrap", "handlers">>
Once == {"expand", "migrate", "contract", "bootstrap"}

Current == IF step = 0 THEN "idle" ELSE Steps[step]

UpgradeTypeOK ==
    /\ conf \subseteq Hosts /\ new \subseteq Hosts /\ up \subseteq Hosts
    /\ missing \subseteq Hosts \ (up \cup new)
    /\ schema \in {"old", "expanded", "migrated", "contracted"}
    /\ step \in 0 .. Len(Steps)
    /\ ready \subseteq Hosts /\ leftOut \subseteq Hosts /\ ready \cap leftOut = {}
    /\ notified \subseteq Hosts
    /\ finished \in BOOLEAN
    /\ new \subseteq conf

\* The old release has been deployed on all hosts.
UpgradeInit ==
    /\ rolling \in BOOLEAN
    /\ conf = {} /\ new = {} /\ up = Hosts /\ missing = {} /\ schema = "old"
    /\ step = 0 /\ ready = {} /\ leftOut = {} /\ notified = {} /\ finished = FALSE
    /\ behind = {} /\ serving = 0 /\ faults = 0

-----------------------------------------------------------------------------
RunsOn(names, h) == Current \in names /\ h \in Hosts \ (ready \cup leftOut)
Passes(h) == ready' = ready \cup {h} /\ UNCHANGED <<step, leftOut, finished>>

\* The operator runs the upgrade until it has succeeded.
Upgrade ==
    /\ step = 0 /\ ~finished
    /\ step' = 1 /\ ready' = {} /\ leftOut' = {} /\ notified' = {}
    /\ serving' = Cardinality(up)
    /\ UNCHANGED <<rolling, hostVars, finished, behind, faults>>

NextStep ==
    /\ step # 0 /\ Current \notin Once /\ ready \cup leftOut = Hosts
    /\ step' = IF leftOut = Hosts \/ step = Len(Steps) THEN 0 ELSE step + 1
    /\ finished' = (step = Len(Steps) /\ leftOut = {})
    /\ ready' = {}
    /\ UNCHANGED <<rolling, hostVars, leftOut, notified, behind, serving, faults>>

\* A host fails in a task, which has not changed anything there.
StepFails(h) ==
    /\ step # 0 /\ Current \notin Once /\ h \in Hosts \ (ready \cup leftOut)
    /\ faults < MaxFaults
    /\ faults' = faults + 1
    /\ leftOut' = leftOut \cup {h} /\ behind' = behind \cup {h}
    /\ UNCHANGED <<rolling, hostVars, step, ready, notified, finished, serving>>

\* The play is interrupted, or a run_once task fails.
Interrupt ==
    /\ step # 0 /\ faults < MaxFaults
    /\ faults' = faults + 1
    /\ step' = 0 /\ ready' = {} /\ leftOut' = Hosts
    /\ UNCHANGED <<rolling, hostVars, notified, finished, behind, serving>>

\* config.yml, on the hosts the include is for: a template notifies where it has
\* changed a file.
ConfigHosts == CASE Current = "config_first" -> {1}
                 [] Current = "config_rest" -> Hosts \ {1}
                 [] OTHER -> Hosts

Config(h) ==
    /\ RunsOn({"config", "config_first", "config_rest"}, h)
    /\ IF h \in ConfigHosts
         THEN /\ conf' = conf \cup {h}
              /\ notified' = notified \cup ({h} \ conf)
         ELSE UNCHANGED <<conf, notified>>
    /\ Passes(h)
    /\ UNCHANGED <<rolling, new, up, missing, schema, behind, serving, faults>>

\* stop_service.yml on the first host, without ignore_missing.  A unit that refuses
\* to stop leaves the container running; the task succeeds.
StopService(h) ==
    /\ RunsOn({"stop"}, h)
    /\ \/ h # 1 /\ Passes(h) /\ UNCHANGED <<up, behind, faults>>
       \/ /\ h = 1 /\ h \notin missing
          /\ up' = up \ {h}
          /\ Passes(h) /\ UNCHANGED <<behind, faults>>
       \/ /\ h = 1 /\ h \in up
          /\ faults < MaxFaults /\ faults' = faults + 1
          /\ Passes(h) /\ UNCHANGED <<up, behind>>
       \/ /\ h = 1 /\ h \in missing
          /\ leftOut' = leftOut \cup {h} /\ behind' = behind \cup {h}
          /\ UNCHANGED <<up, step, ready, finished, faults>>
    /\ UNCHANGED <<rolling, conf, new, missing, schema, notified, serving>>

\* Fault: handlers are notified by changed files alone.
CheckContainersNot(h) ==
    /\ RunsOn({"check"}, h)
    /\ Passes(h)
    /\ UNCHANGED <<rolling, hostVars, notified, behind, serving, faults>>

\* check-containers.yml: the container is of the old release, does not run, or is
\* not there.
CheckContainers(h) ==
    /\ RunsOn({"check"}, h)
    /\ notified' = IF h \in new \cap up THEN notified ELSE notified \cup {h}
    /\ Passes(h)
    /\ UNCHANGED <<rolling, hostVars, behind, serving, faults>>

\* Restart glance-api container
Handler(h) ==
    /\ RunsOn({"handlers"}, h)
    /\ IF h \in notified
         THEN /\ new' = new \cup {h} /\ up' = up \cup {h} /\ missing' = missing \ {h}
              /\ notified' = notified \ {h} /\ behind' = behind \ {h}
         ELSE UNCHANGED <<new, up, missing, notified, behind>>
    /\ Passes(h)
    /\ UNCHANGED <<rolling, conf, schema, serving, faults>>

\* ... which has removed the old container and cannot create or start the new one.
HandlerFails(h) ==
    /\ RunsOn({"handlers"}, h) /\ h \in notified /\ faults < MaxFaults
    /\ faults' = faults + 1
    /\ up' = up \ {h}
    /\ \/ new' = new \ {h} /\ missing' = missing \cup {h}
       \/ new' = new \cup {h} /\ missing' = missing \ {h}
    /\ leftOut' = leftOut \cup {h} /\ behind' = behind \cup {h}
    /\ UNCHANGED <<rolling, conf, schema, step, ready, notified, finished, serving>>

-----------------------------------------------------------------------------
(* The containers that change the database, delegated to the first host    *)

RunsOnce(name, next) ==
    /\ Current = name
    /\ schema' = next
    /\ step' = IF step = Len(Steps) THEN 0 ELSE step + 1
    /\ finished' = (step = Len(Steps) /\ leftOut = {})
    /\ UNCHANGED <<rolling, conf, new, up, missing, ready, leftOut, behind, serving, faults>>

\* Fault: db_sync, which does not stop after the expansion.
ExpandAll ==
    /\ RunsOnce("expand", "contracted")
    /\ UNCHANGED notified

Expand ==
    /\ RunsOnce("expand", IF schema = "old" THEN "expanded" ELSE schema)
    /\ UNCHANGED notified

\* The task runs on, and notifies for, the first host that is left.
Migrate ==
    /\ RunsOnce("migrate", IF schema = "expanded" THEN "migrated" ELSE schema)
    /\ notified' = notified \cup {CHOOSE h \in Hosts \ leftOut :
                                    \A g \in Hosts \ leftOut : h <= g}

Contract ==
    /\ RunsOnce("contract", "contracted")
    /\ UNCHANGED notified

\* bootstrap_service.yml: db_sync of the new release
Bootstrap ==
    /\ RunsOnce("bootstrap", "contracted")
    /\ UNCHANGED notified

UpgradeStep ==
    \/ NextStep \/ Expand \/ Migrate \/ Contract \/ Bootstrap
    \/ \E h \in Hosts : Config(h) \/ StopService(h) \/ CheckContainers(h) \/ Handler(h)

UpgradeNext ==
    \/ Upgrade \/ UpgradeStep \/ Interrupt
    \/ \E h \in Hosts : StepFails(h) \/ HandlerFails(h)

UpgradeSpec == UpgradeInit /\ [][UpgradeNext]_upgradeVars

\* The operator runs the upgrade again until it succeeds, and Ansible goes on.
UpgradeFairSpec == UpgradeSpec /\ WF_upgradeVars(Upgrade) /\ WF_upgradeVars(UpgradeStep)

-----------------------------------------------------------------------------
(* Properties                                                              *)

\* A container never meets a schema it does not know: one of the new release
\* finds it migrated, and one of the old release finds it not yet contracted,
\* except on a host that the upgrade has left behind.
SchemaFits ==
    \A h \in up : /\ h \in new => schema \in {"migrated", "contracted"}
                  /\ rolling /\ h \notin new /\ schema = "contracted" => h \in behind

\* "This mode will reduce the API downtime during upgrade to a minimum of a
\* container restart": outside of the handlers, an API runs, if there were two
\* when the play began.
ApiServes ==
    rolling /\ Current \notin {"idle", "handlers"} /\ serving > 1 => up # {}

\* Glance serves throughout a rolling upgrade: no container meets a schema it does
\* not know, and an API runs, outside of the handlers.
ServesThroughout == SchemaFits /\ ApiServes

\* A run without a failure leaves a container of the new release running on every
\* host, and the database in the new form, also after runs that were interrupted
\* when files had been written and handlers notified.
SuccessMeansUpgraded ==
    finished => up = Hosts /\ new = Hosts /\ schema = "contracted"

\* A rolling upgrade has to stop the container of its first host: without one that
\* host fails at every run.
OutOfReach == IF rolling THEN missing \cap {1} ELSE {}

\* Once failures come to an end the database and every host are upgraded, except
\* that a first host whose handler removed the old container and created none stays
\* without in a rolling upgrade.
Upgraded == <>[](Hosts \ OutOfReach \subseteq up \cap new /\ schema = "contracted")

=============================================================================
