---------------------------- MODULE GaleraDeploy ----------------------------
(***************************************************************************)
(* Deployment and rolling restart of one mariadb shard (mariadb.yml, and   *)
(* lookup_cluster.yml, bootstrap_cluster.yml, the handlers and             *)
(* restart_services.yml of the role): the play finds out from volumes and  *)
(* ports whether there is a cluster, bootstraps one on the first host or   *)
(* not, then restarts the members and starts the new nodes in batches.     *)
(* Galera is external, as in GaleraRecovery, and no node fails by itself:  *)
(* what takes members away here is the play, and the operator who replaces *)
(* a host.                                                                 *)
(***************************************************************************)
EXTENDS Naturals, Sequences, FiniteSetsExt

CONSTANTS
    ShardSize,     \* hosts of the shard, in the order of the inventory
    MaxDeploys,    \* runs of the playbook
    MaxMishaps,    \* tasks that fail on a host, and interruptions
    MaxReplaced,   \* hosts replaced by empty ones
    MaxKills       \* stops that outlast graceful_timeout

ASSUME DeployAssumption ==
    /\ ShardSize \in Nat \ {0}
    /\ MaxDeploys \in Nat /\ MaxMishaps \in Nat
    /\ MaxReplaced \in Nat /\ MaxKills \in Nat

Nodes == 1 .. ShardSize

\* The tasks of the first play, then the three plays that restart in batches.
Tasks == <<"notify", "volume", "port", "sync", "unsynced", "bootstrap", "first", "group">>
Batched == {"restart", "start", "again"}

VARIABLES
    volume,      \* hosts with the mariadb volume
    status,      \* "off", "starting", "member" of a primary component, "lost"
    cluster,     \* cluster whose data each host has, 0 for none
    synced,      \* members that have all of it
    running,     \* what each container was created with: "none", "bootstrap",
                 \* "old" or "current"
    generation,  \* clusters bootstrapped so far
    stage,       \* "idle", a task of Tasks, or "recreate" and "wait"
    play, batch, \* the batched play, and the index of its batch
    through,     \* hosts that are through with it
    dropped,     \* hosts that failed: the run goes on without them
    restart,     \* hosts that are notified "restart mariadb"
    had,         \* group *_had_volume_True
    answering,   \* group *_port_alive_True
    insync,      \* group *_sync_status_Synced
    groups,      \* mariadb_restart, mariadb_start, mariadb_bootstrap_restart
    deploys, mishaps, replaced, kills

nodeVars == <<volume, status, cluster, synced, running, generation>>
lookupVars == <<restart, had, answering, insync, groups>>
stageVars == <<stage, play, batch, through, dropped>>
countVars == <<deploys, mishaps, replaced, kills>>
deployVars == <<nodeVars, lookupVars, stageVars, countVars>>

ClusterMembers == {h \in Nodes : status[h] = "member"}
Clusters == {cluster[h] : h \in ClusterMembers}
ClusterExists == had # {}
NoGroups == [p \in Batched |-> {}]

DeployTypeOK ==
    /\ volume \subseteq Nodes
    /\ status \in [Nodes -> {"off", "starting", "member", "lost"}]
    /\ cluster \in [Nodes -> 0 .. generation]
    /\ synced \subseteq ClusterMembers
    /\ running \in [Nodes -> {"none", "bootstrap", "old", "current"}]
    /\ generation \in Nat
    /\ \A h \in ClusterMembers : cluster[h] # 0 /\ h \in volume

DeployInit ==
    /\ volume = {} /\ synced = {} /\ generation = 0
    /\ status = [h \in Nodes |-> "off"]
    /\ cluster = [h \in Nodes |-> 0]
    /\ running = [h \in Nodes |-> "none"]
    /\ stage = "idle" /\ play = "apply" /\ batch = 0 /\ through = {} /\ dropped = {}
    /\ restart = {} /\ had = {} /\ answering = {} /\ insync = {} /\ groups = NoGroups
    /\ deploys = 0 /\ mishaps = 0 /\ replaced = 0 /\ kills = 0

-----------------------------------------------------------------------------
(* Galera                                                                  *)

\* A node that starts joins a primary component; the only host of a shard has
\* an empty wsrep_cluster_address and is one by itself.
JoinCluster(h) ==
    /\ status[h] = "starting"
    /\ \E c \in IF ShardSize = 1 THEN {cluster[h]} \ {0} ELSE Clusters :
          cluster' = [cluster EXCEPT ![h] = c]
    /\ status' = [status EXCEPT ![h] = "member"]
    /\ UNCHANGED <<volume, synced, running, generation, lookupVars, stageVars, countVars>>

\* The state transfer needs a member that has the state.
Sync(h) ==
    /\ h \in ClusterMembers \ synced
    /\ ShardSize = 1 \/ \E g \in synced : cluster[g] = cluster[h]
    /\ synced' = synced \cup {h}
    /\ UNCHANGED <<volume, status, cluster, running, generation, lookupVars,
                   stageVars, countVars>>

\* Status of the others after h is gone: a member that is killed takes the
\* primary component with it unless a majority is left.
After(h, killed) ==
    LET rest == {g \in ClusterMembers \ {h} : cluster[g] = cluster[h]}
    IN  [g \in Nodes |->
           IF g \in rest /\ h \in ClusterMembers /\ killed
              /\ 2 * Cardinality(rest) <= Cardinality(rest) + 1
           THEN "lost" ELSE status[g]]

\* h goes away and is then in the given status.
Leave(h, killed, next) ==
    /\ status' = [After(h, killed) EXCEPT ![h] = next]
    /\ synced' = {g \in synced \ {h} : After(h, killed)[g] = "member"}

-----------------------------------------------------------------------------
(* The operator                                                            *)

\* A new configuration or image may have been asked for since the last run.
Deploy ==
    /\ stage = "idle" /\ deploys < MaxDeploys
    /\ deploys' = deploys + 1
    /\ stage' = "notify" /\ play' = "apply" /\ batch' = 0
    /\ through' = {} /\ dropped' = {}
    /\ restart' = {} /\ had' = {} /\ answering' = {} /\ insync' = {} /\ groups' = NoGroups
    /\ \/ UNCHANGED running
       \/ running' = [h \in Nodes |-> IF running[h] = "current" THEN "old" ELSE running[h]]
    /\ UNCHANGED <<volume, status, cluster, synced, generation, mishaps, replaced, kills>>

Replace(h) ==
    /\ stage = "idle" /\ replaced < MaxReplaced /\ h \in volume
    /\ replaced' = replaced + 1
    /\ Leave(h, TRUE, "off")
    /\ volume' = volume \ {h}
    /\ cluster' = [cluster EXCEPT ![h] = 0]
    /\ running' = [running EXCEPT ![h] = "none"]
    /\ UNCHANGED <<generation, lookupVars, stageVars, deploys, mishaps, kills>>

InterruptDeploy ==
    /\ stage # "idle" /\ mishaps < MaxMishaps
    /\ mishaps' = mishaps + 1
    /\ stage' = "idle" /\ dropped' = Nodes
    /\ UNCHANGED <<nodeVars, lookupVars, play, batch, through, deploys, replaced, kills>>

-----------------------------------------------------------------------------
(* Apply role mariadb                                                      *)

RunsTask(name, h) ==
    stage = name /\ play = "apply" /\ h \in Nodes \ (through \cup dropped)
GetsThrough(h) == through' = through \cup {h} /\ UNCHANGED <<stage, play, batch, dropped>>
Drops(h) == dropped' = dropped \cup {h} /\ UNCHANGED <<stage, play, batch, through>>

\* A task fails on a host without having done anything.
StageFails(h) ==
    /\ stage \notin {"idle", "recreate", "wait"} /\ h \in Nodes \ (through \cup dropped)
    /\ mishaps < MaxMishaps
    /\ mishaps' = mishaps + 1
    /\ Drops(h)
    /\ UNCHANGED <<nodeVars, lookupVars, deploys, replaced, kills>>

\* check-containers.yml: a container that is missing, that has the bootstrap's
\* parameters, or that has old ones.
Notify(h) ==
    /\ RunsTask("notify", h)
    /\ restart' = IF running[h] = "current" THEN restart ELSE restart \cup {h}
    /\ GetsThrough(h)
    /\ UNCHANGED <<nodeVars, had, answering, insync, groups, countVars>>

\* Create MariaDB volume, Divide hosts by their MariaDB volume availability
Volume(h) ==
    /\ RunsTask("volume", h)
    /\ volume' = volume \cup {h}
    /\ had' = had \cup ({h} \cap volume)
    /\ GetsThrough(h)
    /\ UNCHANGED <<status, cluster, synced, running, generation, restart, answering,
                   insync, groups, countVars>>

\* Check MariaDB service port liveness: a node listens once it has joined.
Port(h) ==
    /\ RunsTask("port", h)
    /\ answering' = answering \cup (IF status[h] \in {"member", "lost"} THEN {h} ELSE {})
    /\ GetsThrough(h)
    /\ UNCHANGED <<nodeVars, restart, had, insync, groups, countVars>>

\* Fail on existing but stopped cluster
Stopped == ShardSize > 1 /\ ClusterExists /\ answering = {}

\* ... Check MariaDB service WSREP sync status, Divide hosts by it
SyncStatus(h) ==
    /\ RunsTask("sync", h)
    /\ IF Stopped THEN Drops(h) /\ UNCHANGED insync
       ELSE /\ insync' = insync \cup ({h} \cap answering \cap synced)
            /\ GetsThrough(h)
    /\ UNCHANGED <<nodeVars, restart, had, answering, groups, countVars>>

\* Fail when MariaDB services are not synced across the whole cluster
Unsynced(h) ==
    /\ RunsTask("unsynced", h)
    /\ IF answering # {} /\ answering # insync THEN Drops(h) ELSE GetsThrough(h)
    /\ UNCHANGED <<nodeVars, lookupVars, countVars>>

Bootstraps(h) == ~ClusterExists /\ h = 1

\* Running MariaDB bootstrap container; the first host has data of its own now.
BootstrapCluster(h) ==
    /\ RunsTask("bootstrap", h)
    /\ IF Bootstraps(h)
         THEN /\ generation' = generation + 1
              /\ cluster' = [cluster EXCEPT ![h] = generation + 1]
         ELSE UNCHANGED <<generation, cluster>>
    /\ GetsThrough(h)
    /\ UNCHANGED <<volume, status, synced, running, lookupVars, countVars>>

\* Fault: the bootstrap container is left as it is.
FirstNodeForGood(h) ==
    /\ RunsTask("first", h)
    /\ IF Bootstraps(h)
         THEN /\ status' = [status EXCEPT ![h] = "member"]
              /\ synced' = synced \cup {h}
              /\ running' = [running EXCEPT ![h] = "bootstrap"]
         ELSE UNCHANGED <<status, synced, running>>
    /\ GetsThrough(h)
    /\ UNCHANGED <<volume, cluster, generation, lookupVars, countVars>>

\* Handlers of "Bootstrap MariaDB cluster", with --wsrep-new-cluster.
FirstNode(h) ==
    /\ RunsTask("first", h)
    /\ IF Bootstraps(h)
         THEN /\ status' = [status EXCEPT ![h] = "member"]
              /\ synced' = synced \cup {h}
              /\ running' = [running EXCEPT ![h] = "bootstrap"]
              /\ groups' = [groups EXCEPT !["again"] = {h}]
         ELSE UNCHANGED <<status, synced, running, groups>>
    /\ GetsThrough(h)
    /\ UNCHANGED <<volume, cluster, generation, restart, had, answering, insync, countVars>>

\* ... and the wait for the first container runs out.
FirstNodeFails(h) ==
    /\ RunsTask("first", h) /\ Bootstraps(h) /\ mishaps < MaxMishaps
    /\ mishaps' = mishaps + 1
    /\ status' = [status EXCEPT ![h] = "member"]
    /\ synced' = synced \cup {h}
    /\ running' = [running EXCEPT ![h] = "bootstrap"]
    /\ Drops(h)
    /\ UNCHANGED <<volume, cluster, generation, lookupVars, deploys, replaced, kills>>

\* Handlers of "restart mariadb"
Group(h) ==
    /\ RunsTask("group", h)
    /\ groups' = IF h \notin restart THEN groups
                 ELSE IF h \in answering THEN [groups EXCEPT !["restart"] = @ \cup {h}]
                 ELSE IF Bootstraps(h) THEN groups
                 ELSE [groups EXCEPT !["start"] = @ \cup {h}]
    /\ GetsThrough(h)
    /\ UNCHANGED <<nodeVars, restart, had, answering, insync, countVars>>

\* The next task; after the last one, the plays that restart.  A play all of
\* whose hosts have failed is the last one.
NextStage ==
    /\ play = "apply" /\ stage # "idle" /\ through \cup dropped = Nodes
    /\ IF dropped = Nodes
         THEN stage' = "idle" /\ UNCHANGED <<play, batch>>
         ELSE LET i == CHOOSE j \in DOMAIN Tasks : Tasks[j] = stage
              IN  IF i < Len(Tasks)
                    THEN stage' = Tasks[i + 1] /\ UNCHANGED <<play, batch>>
                    ELSE stage' = "recreate" /\ play' = "restart" /\ batch' = 1
    /\ through' = {}
    /\ UNCHANGED <<dropped, nodeVars, lookupVars, countVars>>

-----------------------------------------------------------------------------
(* The plays that restart                                                  *)

\* Fault: all hosts at once.
BatchSizeAll(p) == ShardSize

\* serial: "33%" of the hosts of the play, at least one.
BatchSize(p) ==
    LET n == Cardinality(groups[p])
    IN  IF p = "again" THEN ShardSize
        ELSE IF (33 * n) \div 100 = 0 THEN 1 ELSE (33 * n) \div 100

Place(h) == Cardinality({g \in groups[play] : g <= h})
Batch == {h \in groups[play] : /\ (batch - 1) * BatchSize(play) < Place(h)
                               /\ Place(h) <= batch * BatchSize(play)}

InBatch(name, h) ==
    stage = name /\ play \in Batched /\ h \in Batch \ (through \cup dropped)

\* Restart MariaDB container; a member may not stop in time and be killed.
Recreate(h) ==
    /\ InBatch("recreate", h)
    /\ \E killed \in BOOLEAN :
          /\ killed => kills < MaxKills /\ h \in ClusterMembers
          /\ kills' = IF killed THEN kills + 1 ELSE kills
          /\ Leave(h, killed, "starting")
    /\ running' = [running EXCEPT ![h] = "current"]
    /\ GetsThrough(h)
    /\ UNCHANGED <<volume, cluster, generation, lookupVars, deploys, mishaps, replaced>>

\* ... or the container is stopped and not started again.
RecreateFails(h) ==
    /\ InBatch("recreate", h) /\ mishaps < MaxMishaps
    /\ mishaps' = mishaps + 1
    /\ Leave(h, FALSE, "off")
    /\ running' = [running EXCEPT ![h] = "none"]
    /\ Drops(h)
    /\ UNCHANGED <<volume, cluster, generation, lookupVars, deploys, replaced, kills>>

\* New nodes of an existing cluster are not waited for.
WaitsForSync(h) == ~ClusterExists \/ h \in answering

\* Wait for MariaDB service port liveness, Wait for MariaDB service to sync WSREP.
\* The retries run out where the node has nothing to join, or is not primary.
WaitForNode(h) ==
    /\ InBatch("wait", h)
    /\ \/ /\ status[h] \in {"member", "lost"}
          /\ WaitsForSync(h) => h \in synced
          /\ GetsThrough(h)
       \/ /\ \/ status[h] = "starting" /\ Clusters = {} /\ ShardSize > 1
             \/ status[h] = "lost" /\ WaitsForSync(h)
          /\ Drops(h)
    /\ UNCHANGED <<nodeVars, lookupVars, countVars>>

\* The next task, batch or play; no further one when a whole batch has failed.
NextBatch ==
    /\ stage \in {"recreate", "wait"} /\ Batch \subseteq through \cup dropped
    /\ LET over == \A h \in groups[play] : Place(h) <= batch * BatchSize(play)
       IN  IF Batch # {} /\ Batch \subseteq dropped
             THEN stage' = "idle" /\ UNCHANGED <<play, batch>>
             ELSE IF stage = "recreate" /\ Batch # {}
               THEN stage' = "wait" /\ UNCHANGED <<play, batch>>
             ELSE IF ~over
               THEN stage' = "recreate" /\ batch' = batch + 1 /\ UNCHANGED play
             ELSE IF play = "again"
               THEN stage' = "idle" /\ UNCHANGED <<play, batch>>
             ELSE /\ stage' = "recreate"
                  /\ play' = IF play = "restart" THEN "start" ELSE "again"
                  /\ batch' = 1
    /\ through' = {}
    /\ UNCHANGED <<dropped, nodeVars, lookupVars, countVars>>

ApplyStep(h) ==
    \/ Notify(h) \/ Volume(h) \/ Port(h) \/ SyncStatus(h) \/ Unsynced(h)
    \/ BootstrapCluster(h) \/ FirstNode(h) \/ FirstNodeFails(h) \/ Group(h)

DeployNext ==
    \/ Deploy \/ InterruptDeploy \/ NextStage \/ NextBatch
    \/ \E h \in Nodes :
          \/ JoinCluster(h) \/ Sync(h) \/ Replace(h) \/ ApplyStep(h) \/ StageFails(h)
          \/ Recreate(h) \/ RecreateFails(h) \/ WaitForNode(h)

DeploySpec == DeployInit /\ [][DeployNext]_deployVars

-----------------------------------------------------------------------------
(* Properties                                                              *)

\* The hosts the play has to do its restarts with: the members it found, or all
\* hosts it still has when it bootstraps the cluster.
Found == IF ClusterExists THEN answering ELSE Nodes \ dropped

\* The hosts' data is of one cluster.
OneCluster ==
    \A g, h \in Nodes : cluster[g] # 0 /\ cluster[h] # 0 => cluster[g] = cluster[h]

\* "We need to be careful about restarting services, to avoid losing quorum": as
\* long as the play works with two hosts, there is always a member with the whole
\* state, however often a batch fails, a run is interrupted and the play is run
\* again.  When one had to be killed that takes three hosts, all of one cluster: of
\* two clusters side by side, each may lose its majority in turn.
RestartStep ==
    stage # "idle" /\ synced # {} /\ synced' = {}
        => \/ Cardinality(Found) <= 1
           \/ kills' > 0 /\ (Cardinality(Found) <= 2 \/ ~OneCluster)

\* A cluster is never initialised next to the data of another: at least one host
\* that has data would have to answer, and those that have not answered are the
\* ones that failed.
BootstrapStep ==
    generation' > generation => \A h \in Nodes : cluster[h] # 0 => h \in dropped

\* After a run without a failure every host's container is the one the
\* configuration asks for, the bootstrap host's included, and is a member or (a
\* node an earlier run has started) on its way to be one; only a cluster next to
\* another may have lost its majority to a kill unnoticed.
SuccessStep ==
    stage # "idle" /\ stage' = "idle" /\ dropped' = {}
        => \A h \in Nodes :
              /\ running[h] = "current"
              /\ status[h] \in {"member", "starting"} \/ (kills > 0 /\ ~OneCluster)

\* A deployment keeps the cluster: its restarts leave a member with the whole state,
\* it never initialises a cluster next to the data of another, and without a failure
\* it leaves every container as configured.
DeployKeepsCluster == [][RestartStep /\ BootstrapStep /\ SuccessStep]_deployVars

=============================================================================
