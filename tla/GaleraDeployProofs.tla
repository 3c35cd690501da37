------------------------- MODULE GaleraDeployProofs -------------------------
(***************************************************************************)
(* A deployment of mariadb keeps the cluster, on every number of hosts:    *)
(* types, and the three steps of DeployKeepsCluster.  The invariant says,  *)
(* task by task, what the play knows of the hosts that have not failed:    *)
(* which had data, which answer, which groups they are in, which batches   *)
(* have come back.                                                         *)
(***************************************************************************)
EXTENDS GaleraDeploy, FiniteSetTheorems, TLAPS

-----------------------------------------------------------------------------
(* The invariant                                                           *)

Applying == stage \in {"notify", "volume", "port", "sync", "unsynced", "bootstrap",
                       "first", "group"}
Restarting == stage \in {"recreate", "wait"}

\* Hosts that are through with a task of the run.
PassedNotify(h) ==
    h \notin dropped /\ stage # "idle" /\ (stage = "notify" => h \in through)
PassedVolume(h) ==
    h \notin dropped /\ stage \notin {"idle", "notify"} /\ (stage = "volume" => h \in through)
PassedPort(h) ==
    /\ h \notin dropped /\ stage \notin {"idle", "notify", "volume"}
    /\ stage = "port" => h \in through
PassedGroup(h) ==
    h \notin dropped /\ (Restarting \/ (stage = "group" /\ h \in through))

StageTyped ==
    /\ Applying \/ Restarting \/ stage = "idle"
    /\ Applying => play = "apply"
    /\ play \in Batched \cup {"apply"}
    /\ batch \in Nat
    /\ Restarting => play \in Batched /\ batch >= 1
    /\ through \subseteq Nodes /\ dropped \subseteq Nodes /\ restart \subseteq Nodes
    /\ had \subseteq Nodes /\ answering \subseteq Nodes /\ insync \subseteq Nodes
    /\ groups \in [Batched -> SUBSET Nodes]
    /\ deploys \in Nat /\ mishaps \in Nat /\ replaced \in Nat /\ kills \in Nat

\* What is on the hosts: data and containers need the volume, and where a majority
\* was lost no member is left.
NodesInv ==
    /\ \A h \in Nodes : status[h] # "off" \/ cluster[h] # 0 => h \in volume
    /\ \A h \in Nodes : running[h] = "none" <=> status[h] = "off"
    /\ \A l \in Nodes : status[l] = "lost" =>
          cluster[l] # 0 /\ \A g \in ClusterMembers : cluster[g] # cluster[l]

\* The first host has not been bootstrapped in this run.
Unbooted ==
    \/ stage \in {"volume", "port", "sync", "unsynced"}
    \/ stage = "bootstrap" /\ 1 \notin through

\* A host that had no volume had nothing.
HadInv ==
    /\ \A h \in Nodes : PassedVolume(h) => h \in volume
    /\ \A h \in Nodes \ had :
          Applying /\ PassedVolume(h) /\ (h # 1 \/ had # {} \/ Unbooted)
             => status[h] = "off" /\ cluster[h] = 0
    /\ answering \subseteq had

\* The first host between the bootstrap of its data and its first start; then it is
\* one to be started again.
BootInv ==
    had = {} /\ 1 \notin dropped =>
       /\ (stage = "bootstrap" /\ 1 \in through) \/ (stage = "first" /\ 1 \notin through)
             => /\ status[1] = "off" /\ cluster[1] = generation /\ generation # 0
                /\ \A h \in Nodes \ {1} : cluster[h] # generation
       /\ (stage = "first" /\ 1 \in through) \/ stage = "group" \/ Restarting
             => 1 \in groups["again"]

\* What the lookup of the cluster has found.
SyncInv ==
    Applying =>
       /\ \A h \in Nodes : PassedPort(h) /\ status[h] = "lost" => h \in answering
       /\ insync \subseteq answering \cap synced
       /\ stage \in {"bootstrap", "first", "group"} \/ (stage = "unsynced" /\ through # {})
             => answering = {} \/ answering = insync

GroupInv ==
    /\ groups["restart"] \subseteq answering
    /\ groups["start"] \cap answering = {}
    /\ groups["again"] \subseteq {1}
    /\ groups["again"] # {} => had = {}
    /\ 1 \in groups["start"] => had # {}
    /\ Applying /\ stage # "group" => groups["restart"] = {} /\ groups["start"] = {}
    /\ Applying /\ stage \notin {"first", "group"} => groups["again"] = {}
    /\ stage # "idle" => \A p \in Batched : groups[p] \subseteq volume

\* Hosts whose turn to be restarted is still to come.
Ahead(h) == h \in groups[play] /\ Place(h) > batch * BatchSize(play)
Later(p, q) == <<p, q>> \in {<<"restart", "start">>, <<"restart", "again">>, <<"start", "again">>}
Pending(p, h) ==
    /\ h \in groups[p]
    /\ \/ Later(play, p)
       \/ p = play /\ Ahead(h)
       \/ p = play /\ stage = "recreate" /\ h \in Batch \ (through \cup dropped)

\* Who is not as configured is in a group, and its turn is still to come.
CoverInv ==
    /\ \A h \in Nodes : PassedNotify(h) /\ h \notin restart => running[h] = "current"
    /\ \A h \in Nodes : PassedGroup(h) /\ h \in restart => \E p \in Batched : h \in groups[p]
    /\ Restarting => \A h \in Nodes \ dropped :
                        running[h] = "current" \/ \E p \in Batched : Pending(p, h)

\* Nobody is left to join, and a host of the batch waits for it in vain.
Stuck ==
    /\ ClusterMembers = {} /\ ShardSize > 1
    /\ \E h \in Batch : status[h] = "starting" /\ (stage = "recreate" <=> h \in through)

\* A majority that is lost in a run without a failure is that of one of two clusters.
LostInv ==
    Restarting /\ dropped = {} =>
       \A l \in Nodes : status[l] = "lost" =>
          /\ kills > 0
          /\ Stuck \/ \E g \in Nodes : cluster[g] \notin {0, cluster[l]}

\* Members with the whole state, or what was one before its majority was lost.
Kept(h) == h \in synced \/ status[h] = "lost"

\* The restart of a cluster that was found: hosts whose turn has not come are kept,
\* and of every batch so far at least one has come back.
RestartInv ==
    Restarting /\ had # {} =>
       /\ \A h \in answering : status[h] = "lost" => kills > 0
       /\ play = "restart" =>
             /\ \A h \in answering :
                   (h \in groups["restart"] => Ahead(h) \/ (stage = "wait" /\ h \in through))
                      => Kept(h)
             /\ batch >= 2 => \E r \in groups["restart"] :
                                 Kept(r) /\ Place(r) <= (batch - 1) * BatchSize(play)
             /\ batch >= 3 => \E q, r \in groups["restart"] :
                                 /\ q # r /\ Kept(q) /\ Kept(r)
                                 /\ Place(q) <= (batch - 1) * BatchSize(play)
                                 /\ Place(r) <= (batch - 1) * BatchSize(play)
       /\ play # "restart" =>
             /\ answering # {} => \E r \in answering : Kept(r)
             /\ Cardinality(answering) >= 3 =>
                   \E q, r \in answering : q # r /\ Kept(q) /\ Kept(r)

\* The start of a new cluster: nodes are started from nothing, and have all of the
\* first one's state before it is restarted.
StartInv ==
    had = {} =>
       /\ \A h \in Nodes \ {1} : PassedGroup(h) => h \in groups["start"]
       /\ Restarting =>
          /\ \A h \in Nodes \ dropped : Pending("start", h) => status[h] = "off"
          /\ play = "start" => \A h \in groups["start"] \ dropped :
                \/ Pending("start", h) \/ h \in synced
                \/ h \in Batch /\ (stage = "recreate" \/ h \notin through)
          /\ play = "again" /\ Pending("again", 1) => Nodes \ (dropped \cup {1}) \subseteq synced

DeployInv ==
    /\ DeployTypeOK /\ StageTyped /\ NodesInv /\ HadInv /\ BootInv /\ SyncInv /\ GroupInv
    /\ CoverInv /\ LostInv /\ RestartInv /\ StartInv

-----------------------------------------------------------------------------
(* Types, and what the steps of the play do                                *)

\* The hosts of the shard are finitely many, and there is a first one.
LEMMA NodesFinite ==
    /\ IsFiniteSet(Nodes) /\ 1 \in Nodes
    /\ \A S \in SUBSET Nodes : IsFiniteSet(S) /\ Cardinality(S) \in Nat
<1>1. IsFiniteSet(Nodes)
  BY DeployAssumption, FS_Interval DEF Nodes
<1>2. 1 \in Nodes
  BY DeployAssumption DEF Nodes
<1>3. \A S \in SUBSET Nodes : IsFiniteSet(S) /\ Cardinality(S) \in Nat
  BY <1>1, FS_Subset, FS_CardinalityType
<1> QED
  BY <1>1, <1>2, <1>3

\* A host that leaves takes members with it only when it is killed and at most one
\* of its cluster is left, and members that stay in step stay synced.
LEMMA LeaveEffect ==
    ASSUME DeployTypeOK, NEW h \in Nodes, NEW killed \in BOOLEAN,
           NEW next \in {"off", "starting"}, Leave(h, killed, next)
    PROVE  /\ status' \in [Nodes -> {"off", "starting", "member", "lost"}]
           /\ status'[h] = next
           /\ \A g \in Nodes \ {h} :
                 \/ status'[g] = status[g]
                 \/ /\ status[g] = "member" /\ status'[g] = "lost" /\ cluster[g] = cluster[h]
                    /\ killed /\ h \in ClusterMembers
           /\ synced' = {g \in synced \ {h} : status'[g] = "member"}
<1> DEFINE rest == {g \in ClusterMembers \ {h} : cluster[g] = cluster[h]}
           few == 2 * Cardinality(rest) <= Cardinality(rest) + 1
           after == [g \in Nodes |-> IF g \in rest /\ h \in ClusterMembers /\ killed /\ few
                                     THEN "lost" ELSE status[g]]
<1>1. After(h, killed) = after
  BY DEF After
<1> HIDE DEF few
<1>2. /\ after \in [Nodes -> {"off", "starting", "member", "lost"}]
      /\ \A g \in Nodes \ {h} :
            \/ after[g] = status[g]
            \/ /\ status[g] = "member" /\ after[g] = "lost" /\ cluster[g] = cluster[h]
               /\ killed /\ h \in ClusterMembers
  BY DEF DeployTypeOK, ClusterMembers
<1>3. status' = [after EXCEPT ![h] = next]
  BY <1>1 DEF Leave
<1>4. synced' = {g \in synced \ {h} : after[g] = "member"}
  BY <1>1 DEF Leave
<1> HIDE DEF after
<1>5. \A g \in Nodes \ {h} : status'[g] = after[g]
  BY <1>2, <1>3
<1>6. synced \subseteq Nodes
  BY DEF DeployTypeOK, ClusterMembers
<1>7. synced' = {g \in synced \ {h} : status'[g] = "member"}
  BY <1>4, <1>5, <1>6
<1> QED
  BY <1>2, <1>3, <1>5, <1>7

\* Either all other members of a cluster stay with it when a host leaves, or none.
LEMMA LeaveTogether ==
    ASSUME DeployTypeOK, NEW h \in Nodes, NEW killed \in BOOLEAN,
           NEW next \in {"off", "starting"}, Leave(h, killed, next),
           NEW g \in Nodes \ {h}, NEW l \in Nodes \ {h},
           status[l] = "member", status'[l] = "lost", status[g] = "member",
           cluster[g] = cluster[h]
    PROVE  status'[g] = "lost"
<1> DEFINE rest == {x \in ClusterMembers \ {h} : cluster[x] = cluster[h]}
           few == 2 * Cardinality(rest) <= Cardinality(rest) + 1
           after == [x \in Nodes |-> IF x \in rest /\ h \in ClusterMembers /\ killed /\ few
                                     THEN "lost" ELSE status[x]]
<1>1. After(h, killed) = after
  BY DEF After
<1> HIDE DEF few
<1>2. status'[l] = after[l] /\ status'[g] = after[g]
  BY <1>1 DEF Leave, DeployTypeOK
<1>3. l \in rest /\ h \in ClusterMembers /\ killed /\ few
  BY <1>2
<1>4. g \in rest
  BY DEF ClusterMembers
<1> QED
  BY <1>2, <1>3, <1>4

\* The data and the containers have their types.
LEMMA DeployTypeNext ==
    ASSUME DeployInv, DeployNext
    PROVE  DeployTypeOK'
<1> USE DEF DeployInv, nodeVars, lookupVars, stageVars, countVars
<1>1. CASE Deploy
  BY <1>1 DEF Deploy, DeployTypeOK, ClusterMembers
<1>2. CASE InterruptDeploy \/ NextStage \/ NextBatch
  BY <1>2 DEF InterruptDeploy, NextStage, NextBatch, DeployTypeOK, ClusterMembers
<1>3. ASSUME NEW h \in Nodes, JoinCluster(h)
      PROVE  DeployTypeOK'
  BY <1>3 DEF JoinCluster, DeployTypeOK, ClusterMembers, Clusters, NodesInv
<1>4. ASSUME NEW h \in Nodes, Sync(h)
      PROVE  DeployTypeOK'
  BY <1>4 DEF Sync, DeployTypeOK, ClusterMembers
<1>5. ASSUME NEW h \in Nodes, Replace(h)
      PROVE  DeployTypeOK'
  <2>1. Leave(h, TRUE, "off")
    BY <1>5 DEF Replace
  <2>2. /\ status' \in [Nodes -> {"off", "starting", "member", "lost"}]
        /\ status'[h] = "off"
        /\ \A g \in Nodes \ {h} : status'[g] = "member" => status[g] = "member"
        /\ synced' = {g \in synced \ {h} : status'[g] = "member"}
    BY <2>1, LeaveEffect
  <2>3. /\ volume' = volume \ {h} /\ generation' = generation
        /\ cluster' = [cluster EXCEPT ![h] = 0] /\ running' = [running EXCEPT ![h] = "none"]
    BY <1>5 DEF Replace
  <2>4. /\ cluster' \in [Nodes -> 0 .. generation']
        /\ running' \in [Nodes -> {"none", "bootstrap", "old", "current"}]
        /\ \A g \in Nodes \ {h} : cluster'[g] = cluster[g]
    BY <2>3 DEF DeployTypeOK
  <2> QED
    BY <2>2, <2>3, <2>4 DEF DeployTypeOK, ClusterMembers
<1>6. ASSUME NEW h \in Nodes, Recreate(h)
      PROVE  DeployTypeOK'
  BY <1>6, LeaveEffect DEF Recreate, DeployTypeOK, ClusterMembers
<1>7. ASSUME NEW h \in Nodes, RecreateFails(h)
      PROVE  DeployTypeOK'
  BY <1>7, LeaveEffect DEF RecreateFails, DeployTypeOK, ClusterMembers
<1>8. ASSUME NEW h \in Nodes, BootstrapCluster(h)
      PROVE  DeployTypeOK'
  BY <1>8 DEF BootstrapCluster, DeployTypeOK, ClusterMembers
<1>9. ASSUME NEW h \in Nodes, FirstNode(h) \/ FirstNodeFails(h)
      PROVE  DeployTypeOK'
  <2>1. h \in volume
    BY <1>9 DEF FirstNode, FirstNodeFails, RunsTask, HadInv, PassedVolume
  <2>2. Bootstraps(h) => cluster[h] # 0
    BY <1>9 DEF FirstNode, FirstNodeFails, RunsTask, Bootstraps, ClusterExists, BootInv
  <2> QED
    BY <1>9, <2>1, <2>2 DEF FirstNode, FirstNodeFails, DeployTypeOK, ClusterMembers
<1>10. ASSUME NEW h \in Nodes, Notify(h) \/ Port(h) \/ SyncStatus(h) \/ Unsynced(h)
                                 \/ Group(h) \/ StageFails(h) \/ WaitForNode(h)
      PROVE  DeployTypeOK'
  BY <1>10 DEF Notify, Port, SyncStatus, Unsynced, Group, StageFails, WaitForNode,
               DeployTypeOK, ClusterMembers
<1>11. ASSUME NEW h \in Nodes, Volume(h)
      PROVE  DeployTypeOK'
  BY <1>11 DEF Volume, DeployTypeOK, ClusterMembers
<1> QED
  BY <1>1, <1>2, <1>3, <1>4, <1>5, <1>6, <1>7, <1>8, <1>9, <1>10, <1>11
     DEF DeployNext, ApplyStep

\* The order of the tasks.
LEMMA NextStageCases ==
    ASSUME StageTyped, NextStage
    PROVE  /\ Applying /\ through \cup dropped = Nodes /\ through' = {}
           /\ UNCHANGED <<dropped, nodeVars, lookupVars, countVars>>
           /\ \/ dropped = Nodes /\ stage' = "idle" /\ UNCHANGED <<play, batch>>
              \/ /\ dropped # Nodes /\ UNCHANGED <<play, batch>>
                 /\ <<stage, stage'>> \in
                       {<<"notify", "volume">>, <<"volume", "port">>, <<"port", "sync">>,
                        <<"sync", "unsynced">>, <<"unsynced", "bootstrap">>,
                        <<"bootstrap", "first">>, <<"first", "group">>}
              \/ /\ dropped # Nodes /\ stage = "group"
                 /\ stage' = "recreate" /\ play' = "restart" /\ batch' = 1
<1>1. Applying
  BY DEF NextStage, StageTyped, Restarting, Batched
<1> DEFINE i == CHOOSE j \in DOMAIN Tasks : Tasks[j] = stage
<1>2. DOMAIN Tasks = 1 .. 8 /\ Len(Tasks) = 8
  BY DEF Tasks
<1>3. /\ stage = "notify" => i = 1 /\ Tasks[i + 1] = "volume"
      /\ stage = "volume" => i = 2 /\ Tasks[i + 1] = "port"
      /\ stage = "port" => i = 3 /\ Tasks[i + 1] = "sync"
      /\ stage = "sync" => i = 4 /\ Tasks[i + 1] = "unsynced"
      /\ stage = "unsynced" => i = 5 /\ Tasks[i + 1] = "bootstrap"
      /\ stage = "bootstrap" => i = 6 /\ Tasks[i + 1] = "first"
      /\ stage = "first" => i = 7 /\ Tasks[i + 1] = "group"
      /\ stage = "group" => i = 8
  BY <1>2 DEF Tasks
<1>4. IF dropped = Nodes
        THEN stage' = "idle" /\ UNCHANGED <<play, batch>>
        ELSE IF i < Len(Tasks)
               THEN stage' = Tasks[i + 1] /\ UNCHANGED <<play, batch>>
               ELSE stage' = "recreate" /\ play' = "restart" /\ batch' = 1
  BY DEF NextStage
<1> HIDE DEF i
<1> QED
  BY <1>1, <1>2, <1>3, <1>4 DEF NextStage, Applying

\* Every host of the play has had its turn.
Over == \A h \in groups[play] : Place(h) <= batch * BatchSize(play)

\* The order of the batches and of the plays that restart.
LEMMA NextBatchCases ==
    ASSUME StageTyped, NextBatch
    PROVE  /\ Restarting /\ Batch \subseteq through \cup dropped /\ through' = {}
           /\ UNCHANGED <<dropped, nodeVars, lookupVars, countVars>>
           /\ \/ Batch # {} /\ Batch \subseteq dropped /\ stage' = "idle"
              \/ /\ Batch # {} /\ stage = "recreate" /\ stage' = "wait"
                 /\ UNCHANGED <<play, batch>>
              \/ /\ Batch = {} \/ (stage = "wait" /\ ~(Batch \subseteq dropped))
                 /\ \/ ~Over /\ stage' = "recreate" /\ batch' = batch + 1 /\ UNCHANGED play
                    \/ Over /\ play = "again" /\ stage' = "idle"
                    \/ /\ Over /\ stage' = "recreate" /\ batch' = 1
                       /\ <<play, play'>> \in {<<"restart", "start">>, <<"start", "again">>}
  BY DEF NextBatch, StageTyped, Restarting, Over, Batched

\* The play's own state has its types.
LEMMA StageTypedNext ==
    ASSUME DeployInv, DeployNext
    PROVE  StageTyped'
<1> USE DEF DeployInv, nodeVars, lookupVars, stageVars, countVars
<1>1. CASE Deploy \/ InterruptDeploy
  BY <1>1 DEF Deploy, InterruptDeploy, StageTyped, NoGroups, Applying, Restarting, Batched
<1>2. CASE NextStage
  BY <1>2, NextStageCases DEF StageTyped, Applying, Restarting, Batched
<1>3. CASE NextBatch
  <2>1. play' \in Batched \/ stage' = "idle"
    BY <1>3, NextBatchCases DEF StageTyped, Restarting, Batched
  <2> QED
    BY <1>3, <2>1, NextBatchCases DEF NextBatch, StageTyped, Applying, Restarting, Batched
<1>4. ASSUME NEW h \in Nodes, JoinCluster(h) \/ Sync(h) \/ Replace(h)
      PROVE  StageTyped'
  <2>1. /\ UNCHANGED <<lookupVars, stageVars, deploys, mishaps, kills>>
        /\ replaced' \in {replaced, replaced + 1}
    BY <1>4 DEF JoinCluster, Sync, Replace
  <2> QED
    BY <2>1 DEF StageTyped, Applying, Restarting
<1>5. ASSUME NEW h \in Nodes,
             \/ Notify(h) \/ Volume(h) \/ Port(h) \/ SyncStatus(h) \/ Unsynced(h)
             \/ BootstrapCluster(h) \/ StageFails(h) \/ WaitForNode(h)
      PROVE  StageTyped'
  BY <1>5 DEF Notify, Volume, Port, SyncStatus, Unsynced, BootstrapCluster, StageFails,
              WaitForNode, GetsThrough, Drops, StageTyped, Applying, Restarting
<1>6. ASSUME NEW h \in Nodes, FirstNode(h) \/ FirstNodeFails(h) \/ Group(h)
      PROVE  StageTyped'
  BY <1>6 DEF FirstNode, FirstNodeFails, Group, GetsThrough, Drops, StageTyped, Applying,
              Restarting, Batched
<1>7. ASSUME NEW h \in Nodes, Recreate(h) \/ RecreateFails(h)
      PROVE  StageTyped'
  <2>1. /\ UNCHANGED <<lookupVars, stage, play, batch, deploys, replaced>>
        /\ kills' \in {kills, kills + 1} /\ mishaps' \in {mishaps, mishaps + 1}
        /\ through' \in {through, through \cup {h}} /\ dropped' \in {dropped, dropped \cup {h}}
    BY <1>7 DEF Recreate, RecreateFails, GetsThrough, Drops
  <2> QED
    BY <2>1 DEF StageTyped, Applying, Restarting
<1> QED
  BY <1>1, <1>2, <1>3, <1>4, <1>5, <1>6, <1>7 DEF DeployNext, ApplyStep

-----------------------------------------------------------------------------
(* The hosts, and what the play knows of them                              *)

\* The host that is bootstrapped has nothing before, and a cluster of its own after.
LEMMA FirstHost ==
    ASSUME DeployInv, NEW h \in Nodes, Bootstraps(h)
    PROVE  /\ h = 1 /\ had = {}
           /\ BootstrapCluster(h) => status[h] = "off" /\ cluster[h] = 0 /\ h \in volume
           /\ FirstNode(h) \/ FirstNodeFails(h)
                 => /\ status[h] = "off" /\ h \in volume
                    /\ cluster[h] = generation /\ generation # 0
                    /\ \A g \in Nodes \ {h} : cluster[g] # generation
<1>1. h = 1 /\ had = {}
  BY DEF Bootstraps, ClusterExists
<1>2. ASSUME BootstrapCluster(h)
      PROVE  status[h] = "off" /\ cluster[h] = 0 /\ h \in volume
  BY <1>1, <1>2
     DEF BootstrapCluster, RunsTask, DeployInv, HadInv, PassedVolume, Applying, Unbooted
<1>3. ASSUME FirstNode(h) \/ FirstNodeFails(h)
      PROVE  /\ status[h] = "off" /\ h \in volume
             /\ cluster[h] = generation /\ generation # 0
             /\ \A g \in Nodes \ {h} : cluster[g] # generation
  BY <1>1, <1>3
     DEF FirstNode, FirstNodeFails, RunsTask, DeployInv, HadInv, PassedVolume, BootInv
<1> QED
  BY <1>1, <1>2, <1>3

\* The hosts of a batch have the volume.
LEMMA BatchNodes ==
    ASSUME DeployInv, NEW h \in Nodes, Recreate(h) \/ RecreateFails(h)
    PROVE  /\ Restarting /\ h \in Batch /\ h \in groups[play] /\ h \in volume
           /\ play \in Batched /\ stage = "recreate" /\ h \notin through /\ h \notin dropped
<1>1. stage = "recreate" /\ play \in Batched /\ h \in Batch \ (through \cup dropped)
  BY DEF Recreate, RecreateFails, InBatch
<1>2. h \in groups[play]
  BY <1>1 DEF Batch
<1> QED
  BY <1>1, <1>2 DEF DeployInv, GroupInv, Restarting

\* What is on the hosts stays in order.
LEMMA NodesNext ==
    ASSUME DeployInv, DeployNext
    PROVE  NodesInv'
<1> USE DEF DeployInv, nodeVars, lookupVars, stageVars, countVars
<1>1. CASE Deploy
  BY <1>1 DEF Deploy, NodesInv, ClusterMembers, DeployTypeOK
<1>2. CASE InterruptDeploy \/ NextStage \/ NextBatch
  BY <1>2 DEF InterruptDeploy, NextStage, NextBatch, NodesInv, ClusterMembers
<1>3. ASSUME NEW h \in Nodes, JoinCluster(h)
      PROVE  NodesInv'
  <2>1. /\ status[h] = "starting" /\ status' = [status EXCEPT ![h] = "member"]
        /\ UNCHANGED <<volume, running>>
    BY <1>3 DEF JoinCluster
  <2>2. PICK c \in IF ShardSize = 1 THEN {cluster[h]} \ {0} ELSE Clusters :
             cluster' = [cluster EXCEPT ![h] = c]
    BY <1>3 DEF JoinCluster
  <2>3. \A l \in Nodes : status[l] = "lost" => c # cluster[l]
    <3>1. CASE ShardSize = 1
      BY <2>1, <3>1 DEF Nodes
    <3>2. CASE ShardSize # 1
      BY <2>2, <3>2 DEF Clusters, NodesInv
    <3> QED
      BY <3>1, <3>2
  <2> QED
    BY <2>1, <2>2, <2>3 DEF NodesInv, ClusterMembers, DeployTypeOK
<1>4. ASSUME NEW h \in Nodes,
             \/ Sync(h) \/ Notify(h) \/ Port(h) \/ SyncStatus(h) \/ Unsynced(h)
             \/ Group(h) \/ StageFails(h) \/ WaitForNode(h) \/ Volume(h)
      PROVE  NodesInv'
  <2>1. UNCHANGED <<status, cluster, running>> /\ volume \subseteq volume'
    BY <1>4 DEF Sync, Notify, Port, SyncStatus, Unsynced, Group, StageFails, WaitForNode,
                Volume
  <2> QED
    BY <2>1 DEF NodesInv, ClusterMembers
<1>5. ASSUME NEW h \in Nodes, Replace(h)
      PROVE  NodesInv'
  <2>1. Leave(h, TRUE, "off")
    BY <1>5 DEF Replace
  <2>2. /\ volume' = volume \ {h}
        /\ cluster' = [cluster EXCEPT ![h] = 0] /\ running' = [running EXCEPT ![h] = "none"]
    BY <1>5 DEF Replace
  <2>3. /\ status' \in [Nodes -> {"off", "starting", "member", "lost"}]
        /\ status'[h] = "off"
        /\ \A g \in Nodes \ {h} :
              \/ status'[g] = status[g]
              \/ status[g] = "member" /\ status'[g] = "lost" /\ cluster[g] = cluster[h]
    BY <2>1, LeaveEffect
  <2>4. ASSUME NEW g \in Nodes \ {h}, NEW l \in Nodes \ {h},
               status'[l] = "lost", status'[g] = "member"
        PROVE  cluster[g] # cluster[l]
    <3>1. status[g] = "member"
      BY <2>3, <2>4
    <3>2. CASE status[l] = "lost"
      BY <3>1, <3>2 DEF NodesInv, ClusterMembers
    <3>3. CASE status[l] # "lost"
      BY <2>1, <2>3, <2>4, <3>1, <3>3, LeaveTogether
    <3> QED
      BY <3>2, <3>3
  <2> QED
    BY <2>2, <2>3, <2>4 DEF NodesInv, ClusterMembers, DeployTypeOK
<1>6. ASSUME NEW h \in Nodes, Recreate(h) \/ RecreateFails(h)
      PROVE  NodesInv'
  <2>1. PICK killed \in BOOLEAN, next \in {"off", "starting"} :
             /\ Leave(h, killed, next)
             /\ running' = [running EXCEPT ![h] = IF next = "off" THEN "none" ELSE "current"]
    BY <1>6 DEF Recreate, RecreateFails
  <2>2. UNCHANGED <<volume, cluster>> /\ h \in volume
    BY <1>6, BatchNodes DEF Recreate, RecreateFails
  <2>3. /\ status' \in [Nodes -> {"off", "starting", "member", "lost"}]
        /\ status'[h] = next
        /\ \A g \in Nodes \ {h} :
              \/ status'[g] = status[g]
              \/ status[g] = "member" /\ status'[g] = "lost" /\ cluster[g] = cluster[h]
    BY <2>1, LeaveEffect
  <2>4. ASSUME NEW g \in Nodes \ {h}, NEW l \in Nodes \ {h},
               status'[l] = "lost", status'[g] = "member"
        PROVE  cluster[g] # cluster[l]
    <3>1. status[g] = "member"
      BY <2>3, <2>4
    <3>2. CASE status[l] = "lost"
      BY <3>1, <3>2 DEF NodesInv, ClusterMembers
    <3>3. CASE status[l] # "lost"
      BY <2>1, <2>3, <2>4, <3>1, <3>3, LeaveTogether
    <3> QED
      BY <3>2, <3>3
  <2> QED
    BY <2>1, <2>2, <2>3, <2>4 DEF NodesInv, ClusterMembers, DeployTypeOK
<1>7. ASSUME NEW h \in Nodes, BootstrapCluster(h)
      PROVE  NodesInv'
  <2>1. CASE Bootstraps(h)
    <3>1. status[h] = "off" /\ h \in volume
      BY <1>7, <2>1, FirstHost
    <3>2. /\ cluster' = [cluster EXCEPT ![h] = generation + 1]
          /\ UNCHANGED <<volume, status, running>>
      BY <1>7, <2>1 DEF BootstrapCluster
    <3> QED
      BY <3>1, <3>2 DEF NodesInv, ClusterMembers, DeployTypeOK
  <2>2. CASE ~Bootstraps(h)
    BY <1>7, <2>2 DEF BootstrapCluster, NodesInv, ClusterMembers
  <2> QED
    BY <2>1, <2>2
<1>8. ASSUME NEW h \in Nodes, FirstNode(h) \/ FirstNodeFails(h)
      PROVE  NodesInv'
  <2>1. CASE Bootstraps(h)
    <3>1. /\ status[h] = "off" /\ h \in volume /\ cluster[h] = generation
          /\ \A g \in Nodes \ {h} : cluster[g] # generation
      BY <1>8, <2>1, FirstHost
    <3>2. /\ status' = [status EXCEPT ![h] = "member"]
          /\ running' = [running EXCEPT ![h] = "bootstrap"]
          /\ UNCHANGED <<volume, cluster>>
      BY <1>8, <2>1 DEF FirstNode, FirstNodeFails
    <3> QED
      BY <3>1, <3>2 DEF NodesInv, ClusterMembers, DeployTypeOK
  <2>2. CASE ~Bootstraps(h)
    BY <1>8, <2>2 DEF FirstNode, FirstNodeFails, NodesInv, ClusterMembers
  <2> QED
    BY <2>1, <2>2
<1> QED
  BY <1>1, <1>2, <1>3, <1>4, <1>5, <1>6, <1>7, <1>8 DEF DeployNext, ApplyStep

\* What the play has concluded from the volumes stays true.
LEMMA HadNext ==
    ASSUME DeployInv, DeployNext
    PROVE  HadInv'
<1> USE DEF DeployInv, nodeVars, lookupVars, stageVars, countVars
<1>1. CASE Deploy \/ InterruptDeploy
  BY <1>1 DEF Deploy, InterruptDeploy, HadInv, PassedVolume
<1>2. CASE NextStage
  BY <1>2, NextStageCases DEF HadInv, PassedVolume, Applying, Unbooted
<1>3. CASE NextBatch
  BY <1>3, NextBatchCases DEF HadInv, PassedVolume, Applying, Restarting
<1>4. ASSUME NEW h \in Nodes, JoinCluster(h)
      PROVE  HadInv'
  <2>1. /\ status[h] = "starting" /\ status' = [status EXCEPT ![h] = "member"]
        /\ \A g \in Nodes \ {h} : cluster'[g] = cluster[g]
        /\ UNCHANGED <<volume, lookupVars, stageVars>>
    BY <1>4 DEF JoinCluster, DeployTypeOK
  <2> QED
    BY <2>1 DEF HadInv, PassedVolume, Applying, Unbooted, DeployTypeOK
<1>5. ASSUME NEW h \in Nodes, Sync(h) \/ Notify(h) \/ SyncStatus(h) \/ Unsynced(h)
                                \/ Group(h) \/ StageFails(h) \/ WaitForNode(h)
      PROVE  HadInv'
  <2>1. /\ UNCHANGED <<volume, status, cluster, had, answering, stage>>
        /\ stage # "volume" => dropped \subseteq dropped' /\ through \subseteq through'
        /\ stage = "volume" => dropped \subseteq dropped' /\ through' = through
    BY <1>5 DEF Sync, Notify, SyncStatus, Unsynced, Group, StageFails, WaitForNode,
                GetsThrough, Drops, RunsTask, InBatch
  <2> QED
    BY <2>1 DEF HadInv, PassedVolume, Applying, Unbooted
<1>6. ASSUME NEW h \in Nodes, Volume(h)
      PROVE  HadInv'
  BY <1>6 DEF Volume, RunsTask, GetsThrough, HadInv, PassedVolume, Applying, Unbooted,
              NodesInv
<1>7. ASSUME NEW h \in Nodes, Port(h)
      PROVE  HadInv'
  <2>1. status[h] \in {"member", "lost"} => h \in had
    BY <1>7 DEF Port, RunsTask, HadInv, PassedVolume, Applying, Unbooted
  <2> QED
    BY <1>7, <2>1 DEF Port, RunsTask, GetsThrough, HadInv, PassedVolume, Applying, Unbooted
<1>8. ASSUME NEW h \in Nodes, Replace(h)
      PROVE  HadInv'
  BY <1>8 DEF Replace, HadInv, PassedVolume
<1>9. ASSUME NEW h \in Nodes, BootstrapCluster(h)
      PROVE  HadInv'
  <2>1. /\ UNCHANGED <<volume, status, had, answering, stage, dropped>>
        /\ stage = "bootstrap" /\ through' = through \cup {h}
        /\ \A g \in Nodes : cluster'[g] = cluster[g] \/ (g = 1 /\ h = 1 /\ had = {})
    BY <1>9 DEF BootstrapCluster, GetsThrough, RunsTask, Bootstraps, ClusterExists,
                DeployTypeOK
  <2> QED
    BY <2>1 DEF HadInv, PassedVolume, Applying, Unbooted
<1>10. ASSUME NEW h \in Nodes, FirstNode(h) \/ FirstNodeFails(h)
      PROVE  HadInv'
  <2>1. /\ UNCHANGED <<volume, cluster, had, answering, stage>>
        /\ stage = "first" /\ dropped \subseteq dropped'
        /\ \A g \in Nodes : status'[g] = status[g] \/ (g = 1 /\ h = 1 /\ had = {})
    BY <1>10 DEF FirstNode, FirstNodeFails, GetsThrough, Drops, RunsTask, Bootstraps,
                 ClusterExists, DeployTypeOK
  <2> QED
    BY <2>1 DEF HadInv, PassedVolume, Applying, Unbooted
<1>11. ASSUME NEW h \in Nodes, Recreate(h) \/ RecreateFails(h)
      PROVE  HadInv'
  <2>1. /\ UNCHANGED <<volume, had, answering, stage>>
        /\ stage = "recreate" /\ dropped \subseteq dropped'
    BY <1>11 DEF Recreate, RecreateFails, GetsThrough, Drops, InBatch
  <2> QED
    BY <2>1 DEF HadInv, PassedVolume, Applying
<1> QED
  BY <1>1, <1>2, <1>3, <1>4, <1>5, <1>6, <1>7, <1>8, <1>9, <1>10, <1>11
     DEF DeployNext, ApplyStep

\* The first host is as the bootstrap leaves it until its container is started.
LEMMA BootNext ==
    ASSUME DeployInv, DeployNext
    PROVE  BootInv'
<1> USE DEF DeployInv, nodeVars, lookupVars, stageVars, countVars
<1>1. CASE Deploy \/ InterruptDeploy
  BY <1>1 DEF Deploy, InterruptDeploy, BootInv, Restarting
<1>2. CASE NextStage
  BY <1>2, NextStageCases, NodesFinite DEF BootInv, Restarting, Applying
<1>3. CASE NextBatch
  BY <1>3, NextBatchCases DEF BootInv, Restarting
<1>4. ASSUME NEW h \in Nodes, JoinCluster(h)
      PROVE  BootInv'
  <2>1. /\ status[h] = "starting" /\ status' = [status EXCEPT ![h] = "member"]
        /\ UNCHANGED <<generation, lookupVars, stageVars>>
    BY <1>4 DEF JoinCluster
  <2>2. PICK c \in IF ShardSize = 1 THEN {cluster[h]} \ {0} ELSE Clusters :
             cluster' = [cluster EXCEPT ![h] = c]
    BY <1>4 DEF JoinCluster
  <2>3. status[1] = "off" /\ (\A g \in Nodes \ {1} : cluster[g] # generation) => c # generation
    BY <2>1, <2>2 DEF Clusters, ClusterMembers, Nodes
  <2> QED
    BY <2>1, <2>2, <2>3, NodesFinite DEF BootInv, Restarting, DeployTypeOK
<1>5. ASSUME NEW h \in Nodes,
             \/ Sync(h) \/ Notify(h) \/ Volume(h) \/ Port(h) \/ SyncStatus(h)
             \/ Unsynced(h) \/ StageFails(h) \/ WaitForNode(h)
      PROVE  BootInv'
  <2>1. /\ UNCHANGED <<status, cluster, generation, groups, stage>>
        /\ stage \in {"bootstrap", "first"} => through' = through
        /\ stage \in {"bootstrap", "first", "group", "recreate", "wait"} => had' = had
        /\ dropped \subseteq dropped'
    BY <1>5 DEF Sync, Notify, Volume, Port, SyncStatus, Unsynced, StageFails, WaitForNode,
                GetsThrough, Drops, RunsTask, InBatch
  <2> QED
    BY <2>1 DEF BootInv, Restarting
<1>6. ASSUME NEW h \in Nodes, Replace(h)
      PROVE  BootInv'
  BY <1>6 DEF Replace, BootInv, Restarting
<1>7. ASSUME NEW h \in Nodes, BootstrapCluster(h)
      PROVE  BootInv'
  <2>1. /\ UNCHANGED <<status, had, groups, stage, dropped>>
        /\ stage = "bootstrap" /\ through' = through \cup {h}
    BY <1>7 DEF BootstrapCluster, GetsThrough, RunsTask
  <2>2. CASE Bootstraps(h)
    <3>1. /\ status[1] = "off" /\ h = 1 /\ generation' = generation + 1
          /\ cluster' = [cluster EXCEPT ![h] = generation + 1]
      BY <1>7, <2>2, FirstHost DEF BootstrapCluster
    <3>2. /\ generation' # 0 /\ cluster'[1] = generation'
          /\ \A g \in Nodes \ {1} : cluster'[g] # generation'
      BY <3>1, NodesFinite DEF DeployTypeOK
    <3> QED
      BY <2>1, <3>1, <3>2 DEF BootInv, Restarting
  <2>3. CASE ~Bootstraps(h)
    BY <1>7, <2>1, <2>3
       DEF BootstrapCluster, BootInv, Restarting, Bootstraps, ClusterExists
  <2> QED
    BY <2>2, <2>3
<1>8. ASSUME NEW h \in Nodes, FirstNode(h)
      PROVE  BootInv'
  <2>1. /\ UNCHANGED <<cluster, generation, had, stage, dropped>>
        /\ stage = "first" /\ through' = through \cup {h}
        /\ h # 1 => UNCHANGED <<status, groups>>
        /\ h = 1 /\ had = {} => groups' = [groups EXCEPT !["again"] = {h}]
    BY <1>8 DEF FirstNode, GetsThrough, RunsTask, Bootstraps, ClusterExists
  <2> QED
    BY <2>1 DEF BootInv, Restarting, StageTyped, Batched
<1>9. ASSUME NEW h \in Nodes, FirstNodeFails(h)
      PROVE  BootInv'
  BY <1>9 DEF FirstNodeFails, Drops, Bootstraps, BootInv
<1>10. ASSUME NEW h \in Nodes, Group(h)
      PROVE  BootInv'
  <2>1. UNCHANGED <<had, stage, dropped>> /\ stage = "group" /\ groups'["again"] = groups["again"]
    BY <1>10 DEF Group, GetsThrough, RunsTask, StageTyped, Batched
  <2> QED
    BY <2>1 DEF BootInv, Restarting
<1>11. ASSUME NEW h \in Nodes, Recreate(h) \/ RecreateFails(h)
      PROVE  BootInv'
  <2>1. /\ UNCHANGED <<had, groups, stage>>
        /\ stage = "recreate" /\ dropped \subseteq dropped'
    BY <1>11 DEF Recreate, RecreateFails, GetsThrough, Drops, InBatch
  <2> QED
    BY <2>1 DEF BootInv, Restarting
<1> QED
  BY <1>1, <1>2, <1>3, <1>4, <1>5, <1>6, <1>7, <1>8, <1>9, <1>10, <1>11
     DEF DeployNext, ApplyStep

\* What the lookup has found stays true until the restarts begin.
LEMMA SyncNext ==
    ASSUME DeployInv, DeployNext
    PROVE  SyncInv'
<1> USE DEF DeployInv, nodeVars, lookupVars, stageVars, countVars
<1>1. CASE Deploy \/ InterruptDeploy
  BY <1>1 DEF Deploy, InterruptDeploy, SyncInv, PassedPort, Applying
<1>2. CASE NextStage
  BY <1>2, NextStageCases DEF SyncInv, PassedPort, Applying
<1>3. CASE NextBatch
  BY <1>3, NextBatchCases DEF SyncInv, Applying, Restarting
<1>4. ASSUME NEW h \in Nodes,
             \/ JoinCluster(h) \/ Sync(h) \/ Notify(h) \/ Volume(h) \/ StageFails(h)
             \/ WaitForNode(h) \/ BootstrapCluster(h) \/ FirstNode(h) \/ FirstNodeFails(h)
             \/ Group(h)
      PROVE  SyncInv'
  <2>1. /\ UNCHANGED <<answering, insync, stage>> /\ synced \subseteq synced'
        /\ \A g \in Nodes : status'[g] = "lost" => status[g] = "lost"
        /\ dropped \subseteq dropped'
    BY <1>4 DEF JoinCluster, Sync, Notify, Volume, StageFails, WaitForNode,
                BootstrapCluster, FirstNode, FirstNodeFails, Group, GetsThrough, Drops,
                DeployTypeOK
  <2>2. stage \in {"port", "unsynced"} => through' = through
    BY <1>4 DEF JoinCluster, Sync, Notify, Volume, StageFails, WaitForNode,
                BootstrapCluster, FirstNode, FirstNodeFails, Group, Drops,
                RunsTask, InBatch
  <2> QED
    BY <2>1, <2>2 DEF SyncInv, PassedPort, Applying
<1>5. ASSUME NEW h \in Nodes, Port(h)
      PROVE  SyncInv'
  BY <1>5 DEF Port, RunsTask, GetsThrough, SyncInv, PassedPort, Applying
<1>6. ASSUME NEW h \in Nodes, SyncStatus(h)
      PROVE  SyncInv'
  BY <1>6 DEF SyncStatus, RunsTask, GetsThrough, Drops, SyncInv, PassedPort, Applying
<1>7. ASSUME NEW h \in Nodes, Unsynced(h)
      PROVE  SyncInv'
  BY <1>7 DEF Unsynced, RunsTask, GetsThrough, Drops, SyncInv, PassedPort, Applying
<1>8. ASSUME NEW h \in Nodes, Replace(h)
      PROVE  SyncInv'
  BY <1>8 DEF Replace, SyncInv, Applying
<1>9. ASSUME NEW h \in Nodes, Recreate(h) \/ RecreateFails(h)
      PROVE  SyncInv'
  <2>1. stage' = "recreate"
    BY <1>9 DEF Recreate, RecreateFails, GetsThrough, Drops, InBatch
  <2> QED
    BY <2>1 DEF SyncInv, Applying
<1> QED
  BY <1>1, <1>2, <1>3, <1>4, <1>5, <1>6, <1>7, <1>8, <1>9 DEF DeployNext, ApplyStep

\* The groups are what the lookup and the notifications make them.
LEMMA GroupNext ==
    ASSUME DeployInv, DeployNext
    PROVE  GroupInv'
<1> USE DEF DeployInv, nodeVars, lookupVars, stageVars, countVars
<1>1. CASE Deploy
  BY <1>1 DEF Deploy, GroupInv, NoGroups, Batched
<1>2. CASE InterruptDeploy
  BY <1>2 DEF InterruptDeploy, GroupInv, Applying
<1>3. CASE NextStage
  BY <1>3, NextStageCases DEF GroupInv, Applying
<1>4. CASE NextBatch
  BY <1>4, NextBatchCases DEF GroupInv, Applying, Restarting
<1>5. ASSUME NEW h \in Nodes,
             \/ JoinCluster(h) \/ Sync(h) \/ Notify(h) \/ SyncStatus(h) \/ Unsynced(h)
             \/ StageFails(h) \/ WaitForNode(h) \/ BootstrapCluster(h)
             \/ FirstNodeFails(h) \/ Recreate(h) \/ RecreateFails(h)
      PROVE  GroupInv'
  <2>1. UNCHANGED <<groups, had, answering, stage, volume>>
    BY <1>5 DEF JoinCluster, Sync, Notify, SyncStatus, Unsynced, StageFails, WaitForNode,
                BootstrapCluster, FirstNodeFails, Recreate, RecreateFails, GetsThrough, Drops
  <2> QED
    BY <2>1 DEF GroupInv, Applying
<1>6. ASSUME NEW h \in Nodes, Replace(h)
      PROVE  GroupInv'
  BY <1>6 DEF Replace, GroupInv, Applying
<1>7. ASSUME NEW h \in Nodes, Volume(h)
      PROVE  GroupInv'
  <2>1. /\ UNCHANGED <<groups, answering, stage>> /\ stage = "volume"
        /\ volume \subseteq volume' /\ had \subseteq had'
    BY <1>7 DEF Volume, RunsTask, GetsThrough
  <2>2. groups["again"] = {}
    BY <1>7 DEF Volume, RunsTask, GroupInv, Applying
  <2> QED
    BY <2>1, <2>2 DEF GroupInv, Applying
<1>8. ASSUME NEW h \in Nodes, Port(h)
      PROVE  GroupInv'
  <2>1. /\ UNCHANGED <<groups, had, stage, volume>> /\ stage = "port"
        /\ answering \subseteq answering'
    BY <1>8 DEF Port, RunsTask, GetsThrough
  <2> QED
    BY <2>1 DEF GroupInv, Applying
<1>9. ASSUME NEW h \in Nodes, FirstNode(h)
      PROVE  GroupInv'
  <2>1. UNCHANGED <<had, answering, stage, volume>> /\ stage = "first"
    BY <1>9 DEF FirstNode, RunsTask, GetsThrough
  <2>2. \/ groups' = groups
        \/ /\ groups' = [groups EXCEPT !["again"] = {h}]
           /\ h = 1 /\ had = {} /\ h \in volume
    BY <1>9, FirstHost DEF FirstNode
  <2> QED
    BY <2>1, <2>2 DEF GroupInv, Applying, StageTyped, Batched
<1>10. ASSUME NEW h \in Nodes, Group(h)
      PROVE  GroupInv'
  <2>1. UNCHANGED <<had, answering, stage, volume>> /\ stage = "group"
    BY <1>10 DEF Group, RunsTask, GetsThrough
  <2>2. h \in volume
    BY <1>10 DEF Group, RunsTask, HadInv, PassedVolume
  <2>3. \/ groups' = groups
        \/ h \in answering /\ groups' = [groups EXCEPT !["restart"] = @ \cup {h}]
        \/ /\ h \notin answering /\ (h = 1 => had # {})
           /\ groups' = [groups EXCEPT !["start"] = @ \cup {h}]
    BY <1>10 DEF Group, Bootstraps, ClusterExists
  <2> QED
    BY <2>1, <2>2, <2>3 DEF GroupInv, Applying, StageTyped, Batched
<1> QED
  BY <1>1, <1>2, <1>3, <1>4, <1>5, <1>6, <1>7, <1>8, <1>9, <1>10
     DEF DeployNext, ApplyStep

-----------------------------------------------------------------------------
(* Batches                                                                 *)

\* Places begin with one and reach the number of the group's hosts; a batch is not
\* empty, and those that restart or start nodes have a third of the hosts at most.
LEMMA BatchNumbers ==
    ASSUME StageTyped, NEW p \in Batched, NEW n, n = Cardinality(groups[p])
    PROVE  /\ n \in Nat /\ BatchSize(p) \in Nat \ {0}
           /\ p # "again" => BatchSize(p) = 1 \/ 100 * BatchSize(p) <= 33 * n
<1>1. n \in Nat
  BY NodesFinite DEF StageTyped
<1>2. CASE p = "again"
  BY <1>1, <1>2, DeployAssumption DEF BatchSize
<1>3. CASE p # "again"
  <2> DEFINE q == (33 * n) \div 100
  <2>1. q \in Nat /\ 100 * q <= 33 * n
    BY <1>1
  <2>2. BatchSize(p) = IF q = 0 THEN 1 ELSE q
    BY <1>3 DEF BatchSize
  <2> HIDE DEF q
  <2> QED
    BY <1>1, <1>3, <2>1, <2>2
<1> QED
  BY <1>2, <1>3

\* The place of a host in a set of them.
LEMMA Ranks ==
    ASSUME NEW G \in SUBSET Nodes
    PROVE  /\ Cardinality(G) \in Nat
           /\ \A h \in G : Cardinality({g \in G : g <= h}) \in 1 .. Cardinality(G)
           /\ \A g, h \in G : g < h => Cardinality({x \in G : x <= g}) < Cardinality({x \in G : x <= h})
<1>1. IsFiniteSet(G) /\ \A x \in G : x \in Int
  BY NodesFinite DEF Nodes
<1> DEFINE upto(h) == {g \in G : g <= h}
<1>2. \A h \in G : IsFiniteSet(upto(h)) /\ Cardinality(upto(h)) \in Nat
                  /\ Cardinality(upto(h)) <= Cardinality(G)
  BY <1>1, FS_Subset, FS_CardinalityType
<1>3. \A h \in G : h \in upto(h)
  BY DEF Nodes
<1>4. \A h \in G : Cardinality(upto(h)) # 0
  BY <1>2, <1>3, FS_EmptySet
<1>5. ASSUME NEW g \in G, NEW h \in G, g < h
      PROVE  Cardinality(upto(g)) < Cardinality(upto(h))
  <2>1. upto(g) \subseteq upto(h) /\ h \notin upto(g)
    BY <1>1, <1>5
  <2>2. upto(g) # upto(h)
    BY <1>3, <2>1
  <2>3. \A S, T : IsFiniteSet(T) /\ S \subseteq T /\ S # T => Cardinality(S) < Cardinality(T)
    BY FS_Subset, FS_CardinalityType
  <2> HIDE DEF upto
  <2> QED
    BY <1>2, <2>1, <2>2, <2>3
<1>6. Cardinality(G) \in Nat
  BY <1>1, FS_CardinalityType
<1>7. \A h \in G : Cardinality(upto(h)) \in 1 .. Cardinality(G)
  BY <1>2, <1>4, <1>6
<1> QED
  BY <1>5, <1>6, <1>7

\* A host's place in its group.
LEMMA Places ==
    ASSUME StageTyped, play \in Batched
    PROVE  /\ \A h \in groups[play] :
                 Place(h) \in 1 .. Cardinality(groups[play]) /\ Place(h) \in Nat /\ Place(h) >= 1
           /\ \A g, h \in groups[play] : g < h => Place(g) < Place(h)
<1>1. groups[play] \in SUBSET Nodes
  BY DEF StageTyped
<1>2. /\ Cardinality(groups[play]) \in Nat
      /\ \A h \in groups[play] : Place(h) \in 1 .. Cardinality(groups[play])
      /\ \A g, h \in groups[play] : g < h => Place(g) < Place(h)
  BY <1>1, Ranks DEF Place
<1> QED
  BY <1>2

\* Every place up to the number of hosts is taken.
LEMMA EveryPlace ==
    ASSUME StageTyped, play \in Batched, NEW k \in 1 .. Cardinality(groups[play])
    PROVE  \E h \in groups[play] : Place(h) = k
<1> DEFINE G == groups[play]
           T == 1 .. Cardinality(G)
           f == [h \in G |-> Place(h)]
<1>1. IsFiniteSet(G) /\ Cardinality(G) \in Nat /\ \A h \in G : h \in Int
  BY NodesFinite DEF StageTyped, Nodes
<1>2. IsFiniteSet(T) /\ Cardinality(T) = Cardinality(G)
  BY <1>1, FS_Interval
<1>3. f \in [G -> T]
  BY Places
<1>4. \A g, h \in G : f[g] = f[h] => g = h
  <2> SUFFICES ASSUME NEW g \in G, NEW h \in G, Place(g) = Place(h), g # h
               PROVE  FALSE
    OBVIOUS
  <2>1. g < h \/ h < g
    BY <1>1
  <2> QED
    BY <2>1, Places
<1> HIDE DEF f, T
<1>5. f \in Injection(G, T)
  BY <1>3, <1>4 DEF Injection, IsInjective
<1>6. f \in Surjection(G, T)
  BY <1>2, <1>5, FS_Injection
<1>7. \E h \in G : f[h] = k
  BY <1>6 DEF Surjection, T
<1> QED
  BY <1>7 DEF f

\* Where groups and play stay, so do places and batches.
LEMMA SameBatches ==
    ASSUME UNCHANGED <<groups, play>>
    PROVE  /\ \A h : Place(h)' = Place(h)
           /\ BatchSize(play)' = BatchSize(play)
           /\ batch' = batch => Batch' = Batch /\ \A h : Ahead(h)' = Ahead(h)
<1>1. \A h : Place(h)' = Place(h)
  BY DEF Place
<1>2. BatchSize(play)' = BatchSize(play)
  BY DEF BatchSize
<1>3. ASSUME batch' = batch
      PROVE  Batch' = Batch
  BY <1>1, <1>2, <1>3 DEF Batch
<1>4. ASSUME batch' = batch
      PROVE  \A h : Ahead(h)' = Ahead(h)
  BY <1>1, <1>2, <1>4 DEF Ahead
<1> QED
  BY <1>1, <1>2, <1>3, <1>4

\* A host of the batch is not ahead of it, nor behind it.
LEMMA InBatchPlace ==
    ASSUME StageTyped, play \in Batched, NEW h \in Batch
    PROVE  /\ ~Ahead(h) /\ h \in groups[play] /\ h \in Nodes
           /\ ~(Place(h) <= (batch - 1) * BatchSize(play))
           /\ Place(h) <= batch * BatchSize(play)
<1>1. BatchSize(play) \in Nat /\ batch \in Nat
  BY BatchNumbers DEF StageTyped
<1>2. batch * BatchSize(play) \in Int /\ (batch - 1) * BatchSize(play) \in Int
  BY <1>1
<1>3. h \in groups[play] /\ Place(h) \in Nat
  BY Places DEF Batch
<1>4. h \in Nodes
  BY <1>3 DEF StageTyped
<1> QED
  BY <1>2, <1>3, <1>4 DEF Batch, Ahead

\* At the start of a play every host of its group is in the first batch or ahead.
LEMMA BatchOne ==
    ASSUME StageTyped', play' \in Batched, batch' = 1, NEW h \in groups'[play']
    PROVE  Ahead(h)' \/ h \in Batch'
<1>1. groups'[play'] \in SUBSET Nodes
  BY DEF StageTyped
<1>2. /\ Cardinality(groups'[play']) \in Nat
      /\ Place(h)' \in 1 .. Cardinality(groups'[play'])
  BY <1>1, Ranks DEF Place
<1>3. BatchSize(play)' \in Nat
  <2>1. CASE play' = "again"
    BY <2>1, DeployAssumption DEF BatchSize
  <2>2. CASE play' # "again"
    BY <1>2, <2>2 DEF BatchSize
  <2> QED
    BY <2>1, <2>2
<1> QED
  BY <1>2, <1>3 DEF Ahead, Batch

\* Within a batch only the host that has its turn stops being pending.
LEMMA PendingKept ==
    ASSUME UNCHANGED <<groups, play, batch, stage>>, NEW h,
           through' \in {through, through \cup {h}}, dropped' \in {dropped, dropped \cup {h}}
    PROVE  \A p, g : /\ g # h => (Pending(p, g)' <=> Pending(p, g))
                     /\ Pending(p, g)' => Pending(p, g)
<1>1. Batch' = Batch /\ \A g : Ahead(g)' = Ahead(g)
  BY SameBatches
<1> QED
  BY <1>1 DEF Pending, Later

\* A new batch begins with its hosts that were ahead, or is the first of a play.
LEMMA NewBatch ==
    ASSUME DeployInv, NextBatch, stage' = "recreate", NEW h \in Nodes, NEW p \in Batched
    PROVE  /\ Pending(p, h) /\ h \notin dropped => Pending(p, h)'
           /\ Pending(p, h)' => Pending(p, h)
<1> USE DEF DeployInv, lookupVars
<1>1. /\ play \in Batched /\ Batch \subseteq through \cup dropped /\ through' = {}
      /\ UNCHANGED <<dropped, groups>> /\ batch \in Nat
  BY NextBatchCases DEF StageTyped
<1> DEFINE s == BatchSize(play)
<1>2. s \in Nat \ {0}
  BY <1>1, BatchNumbers
<1>3. Batch = {g \in groups[play] : (batch - 1) * s < Place(g) /\ Place(g) <= batch * s}
  BY DEF Batch
<1>4. CASE batch' = batch + 1 /\ play' = play
  <2>1. /\ \A g : Place(g)' = Place(g)
        /\ BatchSize(play)' = s
    BY <1>1, <1>4, SameBatches
  <2> HIDE DEF s
  <2>2. Batch' = {g \in groups[play] : (batch + 1 - 1) * s < Place(g) /\ Place(g) <= (batch + 1) * s}
    BY <1>1, <1>4, <2>1 DEF Batch
  <2>3. (batch + 1 - 1) * s = batch * s /\ batch * s <= (batch + 1) * s
    BY <1>1, <1>2
  <2>4. /\ Ahead(h) <=> h \in groups[play] /\ Place(h) > batch * s
        /\ Ahead(h)' <=> h \in groups[play] /\ Place(h) > (batch + 1) * s
    BY <1>1, <1>4, <2>1 DEF Ahead, s
  <2>5. h \in groups[play] => Place(h) \in Nat
    BY <1>1, Places
  <2>6. batch * s \in Nat /\ (batch + 1) * s \in Nat
    BY <1>1, <1>2
  <2>7. Ahead(h) => Ahead(h)' \/ h \in Batch'
    BY <2>2, <2>3, <2>4, <2>5, <2>6
  <2>8. Ahead(h)' \/ h \in Batch' => Ahead(h)
    BY <2>2, <2>3, <2>4, <2>5, <2>6
  <2>9. h \notin Batch \ (through \cup dropped)
    BY <1>1
  <2> QED
    BY <1>1, <1>4, <2>7, <2>8, <2>9 DEF Pending
<1>5. CASE /\ Over /\ batch' = 1
           /\ <<play, play'>> \in {<<"restart", "start">>, <<"start", "again">>}
  <2>1. StageTyped'
    BY StageTypedNext DEF DeployNext
  <2>2. play' \in Batched
    BY <1>5 DEF Batched
  <2>6. h \in groups'[play'] => Ahead(h)' \/ h \in Batch'
    BY <1>5, <2>1, <2>2, BatchOne
  <2>7. ~Ahead(h) /\ h \notin Batch \ (through \cup dropped)
    <3>1. h \in groups[play] => Place(h) \in Nat /\ Place(h) <= batch * s
      BY <1>1, <1>5, Places DEF Over
    <3>2. batch * s \in Nat
      BY <1>1, <1>2
    <3> QED
      BY <1>1, <3>1, <3>2 DEF Ahead
  <2> QED
    BY <1>1, <1>5, <2>6, <2>7 DEF Pending, Later, Batched, Ahead, Batch
<1> QED
  BY <1>4, <1>5, NextBatchCases

\* Once a batch is recreated, what is pending is ahead or of a later play.
LEMMA WaitBatch ==
    ASSUME DeployInv, NextBatch, stage' = "wait", NEW h, NEW p
    PROVE  Pending(p, h)' <=> Pending(p, h)
<1>1. /\ UNCHANGED <<groups, play, batch, dropped>> /\ Batch \subseteq through \cup dropped
      /\ stage = "recreate"
  BY NextBatchCases DEF DeployInv, lookupVars
<1>2. Batch' = Batch /\ Ahead(h)' = Ahead(h)
  BY <1>1, SameBatches
<1> QED
  BY <1>1, <1>2 DEF Pending, Later

\* The effect of restarting one host on the play.
LEMMA RecreateStep ==
    ASSUME DeployInv, NEW h \in Nodes, Recreate(h) \/ RecreateFails(h)
    PROVE  /\ UNCHANGED <<volume, cluster, generation, groups, play, batch, stage, restart, had,
                          answering, insync>>
           /\ through' \in {through, through \cup {h}} /\ dropped' \in {dropped, dropped \cup {h}}
           /\ \/ h \in dropped' /\ through' = through /\ running'[h] = "none" /\ kills' = kills
                 /\ Leave(h, FALSE, "off")
              \/ /\ h \in through' /\ dropped' = dropped /\ running'[h] = "current"
                 /\ \E killed \in BOOLEAN : /\ killed => h \in ClusterMembers
                                            /\ kills' = IF killed THEN kills + 1 ELSE kills
                                            /\ Leave(h, killed, "starting")
           /\ \A g \in Nodes \ {h} : running'[g] = running[g]
  BY DEF Recreate, RecreateFails, GetsThrough, Drops, lookupVars, DeployInv, DeployTypeOK

\* Every host that is not as configured still has its turn.
LEMMA CoverNext ==
    ASSUME DeployInv, DeployNext
    PROVE  CoverInv'
<1> USE DEF DeployInv, nodeVars, lookupVars, stageVars, countVars
<1>1. CASE Deploy \/ InterruptDeploy
  BY <1>1 DEF Deploy, InterruptDeploy, CoverInv, PassedNotify, PassedGroup, Restarting
<1>2. CASE NextStage
  <2>1. /\ \A h \in Nodes : PassedNotify(h)' /\ h \notin restart' => running'[h] = "current"
        /\ \A h \in Nodes : PassedGroup(h)' /\ h \in restart' =>
              \E p \in Batched : h \in groups'[p]
    BY <1>2, NextStageCases DEF CoverInv, PassedNotify, PassedGroup, Applying, Restarting
  <2>2. ASSUME Restarting', NEW h \in Nodes \ dropped'
        PROVE  running'[h] = "current" \/ \E p \in Batched : Pending(p, h)'
    <3>1. /\ stage' = "recreate" /\ play' = "restart" /\ batch' = 1 /\ through' = {}
          /\ groups' = groups /\ restart' = restart
      BY <1>2, <2>2, NextStageCases DEF Restarting, Applying
    <3>2. CASE h \notin restart'
      BY <2>1, <2>2, <3>1, <3>2 DEF PassedNotify
    <3>3. CASE h \in restart'
      <4>1. PICK p \in Batched : h \in groups'[p]
        BY <2>1, <2>2, <3>3 DEF PassedGroup
      <4>2. CASE p = "restart"
        <5>1. Ahead(h)' \/ h \in Batch'
          BY <1>2, <3>1, <4>1, <4>2, StageTypedNext, BatchOne DEF DeployNext, Batched
        <5> QED
          BY <2>2, <3>1, <4>1, <4>2, <5>1 DEF Pending
      <4>3. CASE p # "restart"
        BY <3>1, <4>1, <4>3 DEF Pending, Later, Batched
      <4> QED
        BY <4>2, <4>3
    <3> QED
      BY <3>2, <3>3
  <2> QED
    BY <2>1, <2>2 DEF CoverInv
<1>3. CASE NextBatch
  <2>1. /\ UNCHANGED <<groups, running, restart, dropped>> /\ Restarting
    BY <1>3, NextBatchCases
  <2>2. ASSUME Restarting', NEW h \in Nodes \ dropped'
        PROVE  running'[h] = "current" \/ \E p \in Batched : Pending(p, h)'
    <3>1. CASE running[h] = "current"
      BY <2>1, <3>1
    <3>2. CASE running[h] # "current"
      <4>1. PICK p \in Batched : Pending(p, h)
        BY <2>1, <3>2 DEF CoverInv
      <4>2. Pending(p, h)'
        BY <1>3, <2>1, <2>2, <4>1, NewBatch, WaitBatch DEF Restarting
      <4> QED
        BY <4>2
    <3> QED
      BY <3>1, <3>2
  <2> QED
    BY <2>1, <2>2 DEF CoverInv, PassedNotify, PassedGroup, Restarting
<1>4. ASSUME NEW h \in Nodes,
             JoinCluster(h) \/ Sync(h) \/ StageFails(h) \/ WaitForNode(h)
      PROVE  CoverInv'
  <2>1. /\ UNCHANGED <<running, restart, groups, play, batch, stage>>
        /\ through' \in {through, through \cup {h}} /\ dropped' \in {dropped, dropped \cup {h}}
        /\ stage \in {"notify", "group", "recreate"} => through' = through
        /\ Restarting => dropped' = dropped \/ stage = "wait"
    BY <1>4 DEF JoinCluster, Sync, StageFails, WaitForNode, GetsThrough, Drops, InBatch, Restarting
  <2>2. \A p, g : g \notin dropped' /\ Pending(p, g) => Pending(p, g)'
    <3>1. Batch' = Batch /\ \A g : Ahead(g)' = Ahead(g)
      BY <2>1, SameBatches
    <3> QED
      BY <2>1, <3>1 DEF Pending, Later
  <2> QED
    BY <2>1, <2>2 DEF CoverInv, PassedNotify, PassedGroup, Restarting
<1>5. ASSUME NEW h \in Nodes,
             \/ Notify(h) \/ Volume(h) \/ Port(h) \/ SyncStatus(h) \/ Unsynced(h)
             \/ BootstrapCluster(h)
      PROVE  CoverInv'
  <2>1. /\ UNCHANGED <<running, stage>>
        /\ stage \in {"notify", "volume", "port", "sync", "unsynced", "bootstrap"}
        /\ stage # "notify" => restart' = restart
        /\ dropped \subseteq dropped'
    BY <1>5 DEF Notify, Volume, Port, SyncStatus, Unsynced, BootstrapCluster, RunsTask,
                GetsThrough, Drops
  <2>2. stage = "notify" => /\ through' = through \cup {h}
                            /\ restart' = IF running[h] = "current" THEN restart
                                          ELSE restart \cup {h}
    BY <1>5 DEF Notify, Volume, Port, SyncStatus, Unsynced, BootstrapCluster, RunsTask,
                GetsThrough, Drops
  <2> QED
    BY <2>1, <2>2 DEF CoverInv, PassedNotify, PassedGroup, Restarting
<1>6. ASSUME NEW h \in Nodes, FirstNode(h) \/ FirstNodeFails(h)
      PROVE  CoverInv'
  <2>1. /\ UNCHANGED <<stage, restart>> /\ stage = "first" /\ dropped \subseteq dropped'
        /\ h \notin dropped
        /\ \A g \in Nodes : running'[g] = running[g] \/ (g = h /\ Bootstraps(h))
    BY <1>6 DEF FirstNode, FirstNodeFails, RunsTask, GetsThrough, Drops, DeployTypeOK
  <2>2. Bootstraps(h) => running[h] = "none"
    BY <1>6, FirstHost DEF NodesInv
  <2> QED
    BY <2>1, <2>2 DEF CoverInv, PassedNotify, PassedGroup, Restarting
<1>7. ASSUME NEW h \in Nodes, Group(h)
      PROVE  CoverInv'
  <2>1. /\ UNCHANGED <<running, stage, restart, dropped, had>> /\ stage = "group"
        /\ through' = through \cup {h} /\ h \notin dropped
    BY <1>7 DEF Group, RunsTask, GetsThrough
  <2>2. Bootstraps(h) => h \in groups["again"]
    BY <2>1 DEF Bootstraps, ClusterExists, BootInv
  <2>3. /\ \A p \in Batched : groups[p] \subseteq groups'[p]
        /\ h \in restart => \E p \in Batched : h \in groups'[p]
    BY <1>7, <2>2 DEF Group, StageTyped, Batched
  <2> QED
    BY <2>1, <2>3 DEF CoverInv, PassedNotify, PassedGroup, Restarting
<1>8. ASSUME NEW h \in Nodes, Replace(h)
      PROVE  CoverInv'
  BY <1>8 DEF Replace, CoverInv, PassedNotify, PassedGroup, Restarting
<1>9. ASSUME NEW h \in Nodes, Recreate(h) \/ RecreateFails(h)
      PROVE  CoverInv'
  <2>1. Restarting /\ Restarting'
    BY <1>9, RecreateStep, BatchNodes DEF Restarting
  <2>2. \A p, g : g # h /\ Pending(p, g) => Pending(p, g)'
    <3>1. /\ UNCHANGED <<groups, play, batch, stage>>
          /\ through' \in {through, through \cup {h}} /\ dropped' \in {dropped, dropped \cup {h}}
      BY <1>9, RecreateStep
    <3> QED
      BY <3>1, PendingKept
  <2> QED
    BY <1>9, <2>1, <2>2, RecreateStep, BatchNodes
       DEF CoverInv, PassedNotify, PassedGroup, Restarting
<1> QED
  BY <1>1, <1>2, <1>3, <1>4, <1>5, <1>6, <1>7, <1>8, <1>9 DEF DeployNext, ApplyStep

-----------------------------------------------------------------------------
(* Majorities that are lost                                                *)

\* A majority that is lost in a run without a failure, with nobody to notice, is
\* that of one of two clusters.
LEMMA LostNext ==
    ASSUME DeployInv, DeployNext
    PROVE  LostInv'
<1> USE DEF DeployInv, nodeVars, lookupVars, stageVars, countVars
<1>1. CASE Deploy \/ InterruptDeploy
  BY <1>1 DEF Deploy, InterruptDeploy, LostInv, Restarting
<1>2. CASE NextStage
  <2> SUFFICES ASSUME Restarting', dropped' = {}, NEW l \in Nodes, status'[l] = "lost"
               PROVE  FALSE
    BY DEF LostInv
  <2>1. stage = "group" /\ dropped = {} /\ status[l] = "lost"
    BY <1>2, NextStageCases DEF Restarting
  <2>2. l \in answering /\ answering = insync /\ insync \subseteq synced
    BY <2>1 DEF SyncInv, Applying, PassedPort
  <2> QED
    BY <2>1, <2>2 DEF DeployTypeOK, ClusterMembers
<1>3. CASE NextBatch
  <2> SUFFICES ASSUME Restarting', dropped' = {}
               PROVE  Stuck => Stuck'
    BY <1>3, NextBatchCases DEF LostInv
  <2> SUFFICES ASSUME Stuck
               PROVE  Stuck'
    OBVIOUS
  <2>1. PICK h \in Batch : status[h] = "starting" /\ (stage = "recreate" <=> h \in through)
    BY DEF Stuck
  <2>2. stage = "recreate" /\ stage' = "wait" /\ through' = {}
        /\ UNCHANGED <<groups, play, batch, status>>
    BY <1>3, <2>1, NextBatchCases DEF Restarting
  <2>3. Batch' = Batch
    BY <2>2, SameBatches
  <2> QED
    BY <2>1, <2>2, <2>3 DEF Stuck, ClusterMembers
<1>4. ASSUME NEW h \in Nodes, JoinCluster(h)
      PROVE  LostInv'
  <2> SUFFICES ASSUME Restarting', dropped' = {}, NEW l \in Nodes, status'[l] = "lost"
               PROVE  kills' > 0 /\ \E g \in Nodes : cluster'[g] \notin {0, cluster'[l]}
    BY DEF LostInv
  <2>1. /\ status[h] = "starting" /\ status' = [status EXCEPT ![h] = "member"]
        /\ UNCHANGED <<kills, stage, dropped>>
    BY <1>4 DEF JoinCluster
  <2>2. PICK c \in IF ShardSize = 1 THEN {cluster[h]} \ {0} ELSE Clusters :
             cluster' = [cluster EXCEPT ![h] = c]
    BY <1>4 DEF JoinCluster
  <2>3. l # h /\ status[l] = "lost"
    BY <2>1 DEF DeployTypeOK
  <2>4. ShardSize # 1
    BY <2>3 DEF Nodes
  <2>5. PICK m \in ClusterMembers : c = cluster[m]
    BY <2>2, <2>4 DEF Clusters
  <2>6. c # 0 /\ c # cluster[l]
    BY <2>3, <2>5 DEF NodesInv, DeployTypeOK
  <2>7. cluster'[h] = c /\ cluster'[l] = cluster[l]
    BY <2>2, <2>3 DEF DeployTypeOK
  <2>8. kills > 0
    BY <2>1, <2>3 DEF LostInv, Restarting
  <2> QED
    BY <2>1, <2>6, <2>7, <2>8
<1>5. ASSUME NEW h \in Nodes, Sync(h) \/ WaitForNode(h)
      PROVE  LostInv'
  <2> SUFFICES ASSUME Restarting', dropped' = {}
               PROVE  Stuck => Stuck'
    BY <1>5 DEF LostInv, Sync, WaitForNode, Restarting, Drops, GetsThrough
  <2> SUFFICES ASSUME Stuck
               PROVE  Stuck'
    OBVIOUS
  <2>1. PICK g \in Batch : status[g] = "starting" /\ (stage = "recreate" <=> g \in through)
    BY DEF Stuck
  <2>2. UNCHANGED <<groups, play, batch, status, stage>>
        /\ (through' = through \/ (stage = "wait" /\ through' = through \cup {h} /\ h # g))
    BY <1>5, <2>1 DEF Sync, WaitForNode, Drops, GetsThrough, InBatch
  <2>3. Batch' = Batch
    BY <2>2, SameBatches
  <2> QED
    BY <2>1, <2>2, <2>3 DEF Stuck, ClusterMembers
<1>6. ASSUME NEW h \in Nodes, Replace(h) \/ StageFails(h) \/ ApplyStep(h)
      PROVE  LostInv'
  <2>1. stage' \notin {"recreate", "wait"}
    BY <1>6 DEF Replace, StageFails, ApplyStep, Notify, Volume, Port, SyncStatus, Unsynced,
                BootstrapCluster, FirstNode, FirstNodeFails, Group, RunsTask, GetsThrough, Drops
  <2> QED
    BY <2>1 DEF LostInv, Restarting
<1>7. ASSUME NEW h \in Nodes, RecreateFails(h)
      PROVE  LostInv'
  BY <1>7 DEF RecreateFails, Drops, LostInv
<1>8. ASSUME NEW h \in Nodes, Recreate(h)
      PROVE  LostInv'
  <2> SUFFICES ASSUME Restarting', dropped' = {}, NEW l \in Nodes, status'[l] = "lost"
               PROVE  /\ kills' > 0
                      /\ Stuck' \/ \E g \in Nodes : cluster'[g] \notin {0, cluster'[l]}
    BY DEF LostInv
  <2>1. /\ UNCHANGED <<cluster, groups, play, batch, stage>> /\ stage = "recreate"
        /\ through' = through \cup {h} /\ h \notin through /\ h \in Batch /\ dropped = {}
    BY <1>8 DEF Recreate, GetsThrough, InBatch
  <2>2. PICK killed \in BOOLEAN : /\ killed => h \in ClusterMembers
                                  /\ kills' = IF killed THEN kills + 1 ELSE kills
                                  /\ Leave(h, killed, "starting")
    BY <1>8 DEF Recreate
  <2>3. /\ status'[h] = "starting"
        /\ \A g \in Nodes \ {h} :
              \/ status'[g] = status[g]
              \/ /\ status[g] = "member" /\ status'[g] = "lost" /\ cluster[g] = cluster[h]
                 /\ killed /\ h \in ClusterMembers
    BY <2>2, LeaveEffect
  <2>4. Batch' = Batch /\ l # h
    BY <2>1, <2>3, SameBatches
  <2>5. CASE status[l] = "lost"
    <3>1. kills > 0 /\ (Stuck \/ \E g \in Nodes : cluster[g] \notin {0, cluster[l]})
      BY <2>1, <2>5 DEF LostInv, Restarting
    <3>2. kills' > 0
      BY <2>2, <3>1 DEF StageTyped
    <3>3. Stuck => Stuck'
      <4> SUFFICES ASSUME Stuck
                   PROVE  Stuck'
        OBVIOUS
      <4>1. PICK g \in Batch : status[g] = "starting" /\ g \in through
        BY <2>1 DEF Stuck
      <4>2. ClusterMembers = {} /\ ShardSize > 1
        BY DEF Stuck
      <4>3. \A x \in Nodes \ {h} : status'[x] = status[x]
        BY <2>3, <4>2
      <4>4. ClusterMembers' = {}
        BY <2>3, <4>2, <4>3 DEF ClusterMembers
      <4>5. g \in Nodes \ {h}
        BY <2>1, <4>1 DEF Batch, StageTyped, Restarting
      <4> QED
        BY <2>1, <2>4, <4>1, <4>2, <4>3, <4>4, <4>5 DEF Stuck
    <3> QED
      BY <2>1, <3>1, <3>2, <3>3
  <2>6. CASE status[l] # "lost"
    <3>1. status[l] = "member" /\ cluster[l] = cluster[h] /\ killed
      BY <2>3, <2>4, <2>6
    <3>2. kills' > 0
      BY <2>2, <3>1 DEF StageTyped
    <3>3. CASE \E g \in Nodes : status'[g] = "member"
      <4>1. PICK g \in Nodes : status'[g] = "member"
        BY <3>3
      <4>2. g # h /\ status[g] = "member"
        BY <2>3, <4>1
      <4>3. cluster[g] # cluster[h]
        BY <2>2, <2>4, <3>1, <4>1, <4>2, LeaveTogether
      <4>4. cluster[g] # 0
        BY <4>2 DEF DeployTypeOK, ClusterMembers
      <4> QED
        BY <2>1, <3>1, <3>2, <4>3, <4>4
    <3>4. CASE \A g \in Nodes : status'[g] # "member"
      <4>1. ShardSize > 1
        BY <2>4, DeployAssumption DEF Nodes
      <4>2. ClusterMembers' = {}
        BY <3>4 DEF ClusterMembers
      <4> QED
        BY <2>1, <2>3, <2>4, <3>2, <4>1, <4>2 DEF Stuck
    <3> QED
      BY <3>3, <3>4
  <2> QED
    BY <2>5, <2>6
<1> QED
  BY <1>1, <1>2, <1>3, <1>4, <1>5, <1>6, <1>7, <1>8 DEF DeployNext

-----------------------------------------------------------------------------
(* The start of a new cluster                                              *)

\* Where there was no cluster, a node is started from nothing, and nothing is lost.
LEMMA StartsFromNothing ==
    ASSUME DeployInv, had = {}, NEW h \in Nodes, Recreate(h) \/ RecreateFails(h)
    PROVE  /\ play # "restart"
           /\ play = "start" => /\ synced' = synced
                                /\ \A g \in Nodes \ {h} : status'[g] = status[g]
           /\ play = "again" => h = 1
<1> USE DEF DeployInv
<1>1. h \in groups[play] /\ h \in Batch /\ h \notin through /\ h \notin dropped
      /\ Restarting /\ stage = "recreate"
  BY BatchNodes
<1>2. play # "restart"
  BY <1>1 DEF GroupInv, HadInv
<1>3. play = "again" => h = 1
  BY <1>1 DEF GroupInv
<1>4. ASSUME play = "start"
      PROVE  synced' = synced /\ \A g \in Nodes \ {h} : status'[g] = status[g]
  <2>1. Pending("start", h)
    BY <1>1, <1>4 DEF Pending
  <2>2. status[h] = "off"
    BY <1>1, <2>1 DEF StartInv
  <2>3. PICK killed \in BOOLEAN, next \in {"off", "starting"} : Leave(h, killed, next)
    BY DEF Recreate, RecreateFails
  <2>4. /\ \A g \in Nodes \ {h} :
              \/ status'[g] = status[g]
              \/ h \in ClusterMembers
        /\ synced' = {g \in synced \ {h} : status'[g] = "member"}
    BY <2>3, LeaveEffect
  <2>5. h \notin ClusterMembers
    BY <2>2 DEF ClusterMembers
  <2> QED
    BY <2>4, <2>5 DEF DeployTypeOK, ClusterMembers
<1> QED
  BY <1>2, <1>3, <1>4

\* The start of a new cluster goes on in order.
LEMMA StartNext ==
    ASSUME DeployInv, DeployNext
    PROVE  StartInv'
<1> USE DEF DeployInv, nodeVars, lookupVars, stageVars, countVars
<1> SUFFICES ASSUME had' = {}
             PROVE  StartInv'
  BY DEF StartInv
<1>1. CASE Deploy \/ InterruptDeploy
  BY <1>1 DEF Deploy, InterruptDeploy, StartInv, PassedGroup, Restarting
<1>2. CASE NextStage
  <2>1. had = {} /\ groups' = groups /\ dropped' = dropped /\ status' = status
    BY <1>2, NextStageCases
  <2>2. \A h \in Nodes \ {1} : PassedGroup(h)' => h \in groups'["start"]
    BY <1>2, <2>1, NextStageCases DEF StartInv, PassedGroup, Restarting, Applying
  <2>3. ASSUME Restarting'
        PROVE  /\ play' = "restart"
               /\ \A h \in Nodes \ dropped' : h \in groups["start"] => status'[h] = "off"
    <3>1. stage = "group" /\ play' = "restart"
      BY <1>2, <2>3, NextStageCases DEF Restarting
    <3> QED
      BY <2>1, <3>1 DEF HadInv, GroupInv, Applying, PassedVolume
  <2> QED
    BY <2>1, <2>2, <2>3 DEF StartInv, Pending
<1>3. CASE NextBatch
  <2>1. /\ had = {} /\ UNCHANGED <<groups, dropped, status, synced>> /\ Restarting
        /\ through' = {} /\ Batch \subseteq through \cup dropped
    BY <1>3, NextBatchCases
  <2>2. \A h \in Nodes \ {1} : PassedGroup(h)' => h \in groups'["start"]
    BY <2>1 DEF StartInv, PassedGroup, Restarting
  <2>3. CASE ~Restarting'
    BY <2>2, <2>3 DEF StartInv
  <2>4. CASE Restarting'
    <3>1. \A h \in Nodes, p \in Batched :
             /\ Pending(p, h) /\ h \notin dropped => Pending(p, h)'
             /\ Pending(p, h)' => Pending(p, h)
      BY <1>3, <2>4, NewBatch, WaitBatch DEF Restarting
    <3>2. \A h \in Nodes \ dropped' : Pending("start", h)' => status'[h] = "off"
      BY <2>1, <3>1 DEF StartInv, Batched
    <3>3. ASSUME play' = "start", NEW h \in groups'["start"] \ dropped'
          PROVE  \/ Pending("start", h)' \/ h \in synced'
                 \/ h \in Batch' /\ (stage' = "recreate" \/ h \notin through')
      <4>1. h \in Nodes
        BY <2>1, <3>3 DEF StageTyped, Batched
      <4>2. CASE play = "restart"
        <5>1. Pending("start", h)
          BY <2>1, <3>3, <4>2 DEF Pending, Later
        <5> QED
          BY <2>1, <3>1, <3>3, <4>1, <5>1 DEF Batched
      <4>3. CASE play = "start"
        <5>1. \/ Pending("start", h) \/ h \in synced
              \/ h \in Batch /\ (stage = "recreate" \/ h \notin through)
          BY <2>1, <3>3, <4>3 DEF StartInv
        <5>2. ASSUME h \in Batch, stage = "recreate" \/ h \notin through
              PROVE  stage' = "wait" /\ UNCHANGED <<play, batch>>
          BY <1>3, <2>1, <2>4, <3>3, <5>2, NextBatchCases DEF Restarting
        <5>3. ASSUME h \in Batch, stage = "recreate" \/ h \notin through
              PROVE  h \in Batch' /\ h \notin through'
          BY <2>1, <5>2, <5>3, SameBatches
        <5> QED
          BY <2>1, <3>1, <3>3, <4>1, <5>1, <5>3 DEF Batched
      <4>4. play \in {"restart", "start"}
        BY <1>3, <2>4, <3>3, NextBatchCases DEF Restarting
      <4> QED
        BY <4>2, <4>3, <4>4
    <3>4. ASSUME play' = "again", Pending("again", 1)'
          PROVE  Nodes \ (dropped' \cup {1}) \subseteq synced'
      <4>1. CASE play = "again"
        BY <2>1, <3>1, <3>4, <4>1, NodesFinite DEF StartInv, Batched
      <4>2. CASE play # "again"
        <5>1. play = "start" /\ Over /\ (Batch = {} \/ stage = "wait")
          BY <1>3, <2>4, <3>4, <4>2, NextBatchCases DEF Restarting
        <5> SUFFICES ASSUME NEW h \in Nodes \ (dropped \cup {1})
                     PROVE  h \in synced
          BY <2>1
        <5>2. h \in groups["start"]
          BY <2>1 DEF StartInv, PassedGroup
        <5>3. \/ Pending("start", h) \/ h \in synced
              \/ h \in Batch /\ (stage = "recreate" \/ h \notin through)
          BY <2>1, <5>1, <5>2 DEF StartInv
        <5>4. ~Ahead(h)
          <6>1. BatchSize(play) \in Nat /\ batch \in Nat
            BY <5>1, BatchNumbers DEF StageTyped, Batched
          <6>2. batch * BatchSize(play) \in Nat
            BY <6>1
          <6>3. Place(h) \in Nat
            BY <5>1, <5>2, Places DEF Batched
          <6> QED
            BY <5>1, <6>2, <6>3 DEF Over, Ahead
        <5>5. ~Pending("start", h)
          BY <2>1, <5>1, <5>4 DEF Pending, Later
        <5> QED
          BY <2>1, <5>1, <5>3, <5>5
      <4> QED
        BY <4>1, <4>2
    <3> QED
      BY <2>2, <3>2, <3>3, <3>4 DEF StartInv
  <2> QED
    BY <2>3, <2>4
<1>4. ASSUME NEW h \in Nodes, JoinCluster(h) \/ Sync(h)
      PROVE  StartInv'
  <2>1. /\ UNCHANGED <<groups, play, batch, stage, through, dropped, had>>
        /\ synced \subseteq synced'
        /\ \A g \in Nodes : status[g] = "off" => status'[g] = "off"
    BY <1>4 DEF JoinCluster, Sync, DeployTypeOK
  <2>2. Batch' = Batch /\ \A g : Ahead(g)' = Ahead(g)
    BY <2>1, SameBatches
  <2>3. \A p, g : Pending(p, g)' <=> Pending(p, g)
    BY <2>1, <2>2 DEF Pending, Later
  <2> QED
    BY <2>1, <2>2, <2>3 DEF StartInv, PassedGroup, Restarting
<1>5. ASSUME NEW h \in Nodes, WaitForNode(h)
      PROVE  StartInv'
  <2>1. /\ UNCHANGED <<groups, play, batch, stage, had, status, synced>>
        /\ through' \in {through, through \cup {h}} /\ dropped' \in {dropped, dropped \cup {h}}
        /\ stage = "wait" /\ play \in Batched /\ h \in Batch
    BY <1>5 DEF WaitForNode, InBatch, GetsThrough, Drops
  <2>2. Batch' = Batch /\ \A p, g : /\ g # h => (Pending(p, g)' <=> Pending(p, g))
                                    /\ Pending(p, g)' => Pending(p, g)
    BY <2>1, SameBatches, PendingKept
  <2>3. h \in synced \/ h \in dropped'
    BY <1>5, <2>1 DEF WaitForNode, WaitsForSync, ClusterExists, Drops
  <2>4. \A g : g # h => (g \in through' <=> g \in through)
    BY <2>1
  <2> QED
    BY <2>1, <2>2, <2>3, <2>4 DEF StartInv, PassedGroup, Restarting
<1>6. ASSUME NEW h \in Nodes, Replace(h) \/ StageFails(h)
      PROVE  StartInv'
  <2>1. /\ UNCHANGED <<groups, stage, through, had>> /\ dropped \subseteq dropped'
        /\ ~Restarting
    BY <1>6 DEF Replace, StageFails, Drops, Restarting
  <2> QED
    BY <2>1 DEF StartInv, PassedGroup, Restarting
<1>7. ASSUME NEW h \in Nodes,
             \/ Notify(h) \/ Volume(h) \/ Port(h) \/ SyncStatus(h) \/ Unsynced(h)
             \/ BootstrapCluster(h) \/ FirstNode(h) \/ FirstNodeFails(h)
      PROVE  StartInv'
  <2>1. stage' \notin {"idle", "group", "recreate", "wait"}
    BY <1>7 DEF Notify, Volume, Port, SyncStatus, Unsynced, BootstrapCluster, FirstNode,
                FirstNodeFails, RunsTask, GetsThrough, Drops
  <2> QED
    BY <2>1 DEF StartInv, PassedGroup, Restarting
<1>8. ASSUME NEW h \in Nodes, Group(h)
      PROVE  StartInv'
  <2>1. /\ UNCHANGED <<stage, had, dropped>> /\ stage = "group" /\ through' = through \cup {h}
        /\ h \notin dropped
    BY <1>8 DEF Group, RunsTask, GetsThrough
  <2>2. h \notin answering
    BY <2>1 DEF HadInv
  <2>3. h # 1 => h \in restart
    <3> SUFFICES ASSUME h # 1, h \notin restart
                 PROVE  FALSE
      OBVIOUS
    <3>1. running[h] = "current"
      BY <2>1 DEF CoverInv, PassedNotify
    <3>2. status[h] = "off"
      BY <2>1 DEF HadInv, Applying, PassedVolume
    <3> QED
      BY <3>1, <3>2 DEF NodesInv
  <2>4. groups["start"] \subseteq groups'["start"] /\ (h # 1 => h \in groups'["start"])
    BY <1>8, <2>2, <2>3 DEF Group, Bootstraps, StageTyped, Batched
  <2> QED
    BY <2>1, <2>4 DEF StartInv, PassedGroup, Restarting
<1>9. ASSUME NEW h \in Nodes, Recreate(h) \/ RecreateFails(h)
      PROVE  StartInv'
  <2>1. /\ UNCHANGED <<groups, play, batch, stage, had>>
        /\ through' \in {through, through \cup {h}} /\ dropped' \in {dropped, dropped \cup {h}}
        /\ stage = "recreate" /\ h \in Batch /\ play \in Batched /\ Restarting
        /\ h \in through' \cup dropped'
    BY <1>9, RecreateStep, BatchNodes
  <2>2. Batch' = Batch /\ \A g : Ahead(g)' = Ahead(g)
    BY <2>1, SameBatches
  <2>3. \A p, g : /\ g # h => (Pending(p, g)' <=> Pending(p, g))
                  /\ Pending(p, g)' => Pending(p, g)
    BY <2>1, PendingKept
  <2>4. \A p : p = play => ~Pending(p, h)'
    <3>1. ~Ahead(h)
      BY <2>1, InBatchPlace
    <3> QED
      BY <2>1, <2>2, <3>1 DEF Pending, Later
  <2>5. /\ play # "restart"
        /\ play = "start" => /\ synced' = synced
                             /\ \A g \in Nodes \ {h} : status'[g] = status[g]
        /\ play = "again" => h = 1
    BY <1>9, <2>1, StartsFromNothing
  <2>6. \A g \in Nodes \ {1} : PassedGroup(g)' => g \in groups'["start"]
    BY <2>1 DEF StartInv, PassedGroup, Restarting
  <2>7. CASE play = "start"
    BY <2>1, <2>2, <2>3, <2>4, <2>5, <2>6, <2>7 DEF StartInv, Restarting
  <2>8. CASE play = "again"
    <3>1. ~Pending("again", 1)'
      BY <2>4, <2>5, <2>8
    <3>2. \A g : ~Pending("start", g)'
      BY <2>1, <2>8 DEF Pending, Later
    <3> QED
      BY <2>1, <2>6, <2>8, <3>1, <3>2 DEF StartInv
  <2> QED
    BY <2>1, <2>5, <2>7, <2>8 DEF Batched
<1> QED
  BY <1>1, <1>2, <1>3, <1>4, <1>5, <1>6, <1>7, <1>8, <1>9 DEF DeployNext, ApplyStep

-----------------------------------------------------------------------------
(* The restart of a cluster that was found                                 *)

\* Larger sets of hosts have elements that smaller ones have not.
LEMMA MoreNodes ==
    ASSUME NEW S \in SUBSET Nodes, NEW T \in SUBSET S
    PROVE  /\ Cardinality(S) \in Nat /\ Cardinality(T) \in Nat
           /\ Cardinality(T) <= Cardinality(S)
           /\ Cardinality(S) >= Cardinality(T) + 1 => \E x \in S : x \notin T
           /\ Cardinality(S) >= Cardinality(T) + 2 =>
                 \E x, y \in S : x # y /\ x \notin T /\ y \notin T
<1>1. IsFiniteSet(S) /\ IsFiniteSet(T)
  BY NodesFinite
<1>2. Cardinality(S) \in Nat /\ Cardinality(T) \in Nat /\ Cardinality(T) <= Cardinality(S)
  BY <1>1, FS_Subset, FS_CardinalityType
<1>3. ASSUME Cardinality(S) >= Cardinality(T) + 1
      PROVE  \E x \in S : x \notin T
  <2> SUFFICES ASSUME \A x \in S : x \in T
               PROVE  FALSE
    OBVIOUS
  <2>1. S = T
    OBVIOUS
  <2> QED
    BY <1>2, <1>3, <2>1
<1>4. ASSUME Cardinality(S) >= Cardinality(T) + 2
      PROVE  \E x, y \in S : x # y /\ x \notin T /\ y \notin T
  <2> SUFFICES ASSUME \A x, y \in S : x \notin T /\ y \notin T => x = y
               PROVE  FALSE
    OBVIOUS
  <2>1. PICK x \in S : x \notin T
    BY <1>2, <1>3, <1>4
  <2>2. S = T \cup {x}
    BY <2>1
  <2>3. Cardinality(T \cup {x}) = Cardinality(T) + 1
    BY <1>1, <2>1, FS_AddElement
  <2> QED
    BY <1>2, <1>4, <2>2, <2>3
<1> QED
  BY <1>2, <1>3, <1>4

\* What the restart play has kept, by the places of the hosts.
LEMMA KeptPlaces ==
    ASSUME DeployInv, Restarting, had # {}, play = "restart"
    PROVE  /\ groups["restart"] \in SUBSET answering /\ answering \in SUBSET Nodes
           /\ Batch \subseteq groups["restart"]
           /\ \A g \in answering : g \notin groups["restart"] => Kept(g) /\ g \notin Batch
           /\ \A k \in 1 .. Cardinality(groups["restart"]) : k > batch * BatchSize(play) =>
                 \E g \in groups["restart"] : Place(g) = k /\ Kept(g) /\ g \notin Batch
           /\ \A g \in groups["restart"] :
                 Place(g) <= (batch - 1) * BatchSize(play) => g \notin Batch
<1> USE DEF DeployInv
<1>1. groups["restart"] \in SUBSET answering /\ answering \in SUBSET Nodes
      /\ Batch \subseteq groups["restart"] /\ play \in Batched
  BY DEF GroupInv, StageTyped, Batch, Batched
<1>2. \A g \in answering : g \notin groups["restart"] => Kept(g) /\ g \notin Batch
  BY <1>1 DEF RestartInv
<1>3. ASSUME NEW k \in 1 .. Cardinality(groups["restart"]), k > batch * BatchSize(play)
      PROVE  \E g \in groups["restart"] : Place(g) = k /\ Kept(g) /\ g \notin Batch
  <2>1. PICK g \in groups["restart"] : Place(g) = k
    BY <1>1, EveryPlace
  <2>2. Ahead(g)
    BY <1>3, <2>1 DEF Ahead
  <2>3. g \notin Batch
    BY <1>1, <2>2, InBatchPlace
  <2>4. Kept(g)
    BY <1>1, <2>2 DEF RestartInv
  <2> QED
    BY <2>1, <2>3, <2>4
<1>4. \A g \in groups["restart"] : Place(g) <= (batch - 1) * BatchSize(play) => g \notin Batch
  BY <1>1, InBatchPlace
<1> QED
  BY <1>1, <1>2, <1>3, <1>4

\* While a batch is restarted one host outside of it is kept, and two where three
\* answered.
LEMMA KeptOutside ==
    ASSUME DeployInv, Restarting, had # {}, play = "restart"
    PROVE  /\ Cardinality(answering) >= 2 => \E g \in answering : Kept(g) /\ g \notin Batch
           /\ Cardinality(answering) >= 3 =>
                 \E f, g \in answering : /\ f # g /\ Kept(f) /\ Kept(g)
                                         /\ f \notin Batch /\ g \notin Batch
<1> USE DEF DeployInv
<1> DEFINE G == groups["restart"]
           n == Cardinality(G)
           a == Cardinality(answering)
           s == BatchSize(play)
<1>1. G \in SUBSET answering /\ answering \in SUBSET Nodes
  BY KeptPlaces
<1>2. /\ n \in Nat /\ a \in Nat /\ n <= a
      /\ a >= n + 1 => \E x \in answering : x \notin G
      /\ a >= n + 2 => \E x, y \in answering : x # y /\ x \notin G /\ y \notin G
  BY <1>1, MoreNodes
<1>3. s \in Nat \ {0} /\ (s = 1 \/ 100 * s <= 33 * n) /\ batch \in Nat /\ batch >= 1
  BY BatchNumbers DEF StageTyped, Batched
<1> HIDE DEF n, a, s
<1>4. /\ \A g \in answering : g \notin G => Kept(g) /\ g \notin Batch
      /\ \A k \in 1 .. n : k > batch * s =>
            \E g \in G : Place(g) = k /\ Kept(g) /\ g \notin Batch
      /\ \A g \in G : Place(g) <= (batch - 1) * s => g \notin Batch
  BY KeptPlaces DEF n, s
<1>5. CASE batch = 1
  <2>1. \A k \in 1 .. n : k > s => \E g \in G : Place(g) = k /\ Kept(g) /\ g \notin Batch
    BY <1>3, <1>4, <1>5
  <2>2. ASSUME a >= 2
        PROVE  \E g \in answering : Kept(g) /\ g \notin Batch
    <3>1. CASE a >= n + 1
      BY <1>2, <1>4, <3>1
    <3>2. CASE a = n
      <4>1. n \in 1 .. n /\ n > s
        BY <1>2, <1>3, <2>2, <3>2
      <4> QED
        BY <1>1, <2>1, <4>1
    <3> QED
      BY <1>2, <3>1, <3>2
  <2>3. ASSUME a >= 3
        PROVE  \E f, g \in answering : /\ f # g /\ Kept(f) /\ Kept(g)
                                       /\ f \notin Batch /\ g \notin Batch
    <3>1. CASE a >= n + 2
      BY <1>2, <1>4, <3>1
    <3>2. CASE a = n + 1
      <4>1. n \in 1 .. n /\ n > s
        BY <1>2, <1>3, <2>3, <3>2
      <4>2. PICK f \in answering : f \notin G
        BY <1>2, <3>2
      <4>3. PICK g \in G : Kept(g) /\ g \notin Batch
        BY <2>1, <4>1
      <4> QED
        BY <1>1, <1>4, <4>2, <4>3
    <3>3. CASE a = n
      <4>1. n \in 1 .. n /\ n > s /\ n - 1 \in 1 .. n /\ n - 1 > s /\ n - 1 # n
        BY <1>2, <1>3, <2>3, <3>3
      <4>2. PICK f \in G : Place(f) = n /\ Kept(f) /\ f \notin Batch
        BY <2>1, <4>1
      <4>3. PICK g \in G : Place(g) = n - 1 /\ Kept(g) /\ g \notin Batch
        BY <2>1, <4>1
      <4> QED
        BY <1>1, <4>1, <4>2, <4>3
    <3> QED
      BY <1>2, <3>1, <3>2, <3>3
  <2> QED
    BY <2>2, <2>3 DEF a
<1>6. CASE batch = 2
  <2>1. PICK r \in G : Kept(r) /\ Place(r) <= (batch - 1) * s
    BY <1>6 DEF RestartInv, s
  <2>2. r \notin Batch /\ r \in answering
    BY <1>1, <1>4, <2>1
  <2>3. ASSUME a >= 3
        PROVE  \E g \in answering : g # r /\ Kept(g) /\ g \notin Batch
    <3>1. CASE a >= n + 1
      BY <1>2, <1>4, <3>1
    <3>2. CASE a = n
      <4>1. n \in 1 .. n /\ n > batch * s /\ n > (batch - 1) * s
        BY <1>2, <1>3, <1>6, <2>3, <3>2
      <4>2. PICK g \in G : Place(g) = n /\ Kept(g) /\ g \notin Batch
        BY <1>4, <4>1
      <4>3. (batch - 1) * s = s
        BY <1>3, <1>6
      <4>4. g # r
        BY <1>2, <1>3, <2>1, <4>1, <4>2, <4>3
      <4> QED
        BY <1>1, <4>2, <4>4
    <3> QED
      BY <1>2, <3>1, <3>2
  <2> QED
    BY <2>1, <2>2, <2>3 DEF a
<1>7. CASE batch >= 3
  <2>1. PICK q \in G, r \in G : /\ q # r /\ Kept(q) /\ Kept(r)
                                /\ Place(q) <= (batch - 1) * s /\ Place(r) <= (batch - 1) * s
    BY <1>7 DEF RestartInv, s
  <2> QED
    BY <1>1, <1>4, <2>1
<1> QED
  BY <1>3, <1>5, <1>6, <1>7

\* A batch that is through has a host that is kept: the next one begins with it.
LEMMA RestartBatch ==
    ASSUME DeployInv, NextBatch, had # {}, play = "restart", play' = play,
           stage' = "recreate", batch' = batch + 1, ~Over
    PROVE  RestartInv'
<1> USE DEF DeployInv, nodeVars, lookupVars, countVars
<1> DEFINE G == groups["restart"]
           n == Cardinality(G)
           s == BatchSize(play)
<1>1. /\ Restarting /\ play \in Batched /\ Batch \subseteq through \cup dropped
      /\ Batch = {} \/ (stage = "wait" /\ ~(Batch \subseteq dropped))
      /\ UNCHANGED <<answering, groups, synced, status, kills, had>>
  BY NextBatchCases DEF Restarting, Batched
<1>2. s \in Nat \ {0} /\ batch \in Nat /\ batch >= 1 /\ n \in Nat
  BY <1>1, BatchNumbers DEF StageTyped, Batched
<1>3. \A h \in G : Place(h) \in 1 .. n
  BY <1>1, Places
<1>4. PICK o \in G : ~(Place(o) <= batch * s)
  BY DEF Over
<1>5. (\A h : Place(h)' = Place(h)) /\ BatchSize(play)' = s
  BY <1>1, SameBatches
<1> HIDE DEF n, s
<1>6. batch * s \in 1 .. n /\ (batch - 1) * s < batch * s /\ batch * s <= (batch + 1) * s
      /\ (batch + 1) * s \in Nat /\ batch * s \in Nat
  <2>1. batch * s \in Nat /\ batch * s >= 1
    BY <1>2
  <2> QED
    BY <1>2, <1>3, <1>4, <2>1
<1>7. PICK b \in G : Place(b) = batch * s
  BY <1>1, <1>6, EveryPlace DEF n
<1>8. b \in Batch
  BY <1>6, <1>7 DEF Batch, s
<1>9. PICK r \in Batch : r \in through /\ r \notin dropped
  BY <1>1, <1>8
<1>10. /\ r \in G /\ Kept(r) /\ Place(r) <= batch * s
       /\ ~(Place(r) <= (batch - 1) * s)
  <2>1. r \in G /\ Place(r) <= batch * s /\ ~(Place(r) <= (batch - 1) * s)
    BY <1>1, InBatchPlace DEF s
  <2>2. r \in answering
    BY <2>1 DEF GroupInv
  <2> QED
    BY <1>1, <1>9, <2>1, <2>2 DEF RestartInv
<1>11. \A h : Kept(h)' <=> Kept(h)
  BY <1>1 DEF Kept
<1>12. (batch' - 1) * BatchSize(play)' = batch * s
  BY <1>2, <1>5
<1>13. \A h : Ahead(h)' => Ahead(h)
  <2> SUFFICES ASSUME NEW h, Ahead(h)'
               PROVE  Ahead(h)
    OBVIOUS
  <2>1. h \in G /\ Place(h) > (batch + 1) * s
    BY <1>1, <1>5 DEF Ahead
  <2>2. Place(h) > batch * s
    BY <1>3, <1>6, <2>1
  <2> QED
    BY <2>1, <2>2 DEF Ahead, s
<1>14. ASSUME batch' >= 3
       PROVE  \E q \in G : q # r /\ Kept(q) /\ Place(q) <= batch * s
  <2>1. batch >= 2
    BY <1>2, <1>14
  <2>2. PICK q \in G : Kept(q) /\ Place(q) <= (batch - 1) * s
    BY <1>1, <2>1 DEF RestartInv, s
  <2>3. Place(q) <= batch * s
    BY <1>2, <1>3, <1>6, <2>2
  <2> QED
    BY <1>10, <2>2, <2>3
<1>15. \A h \in answering' : status'[h] = "lost" => kills' > 0
  BY <1>1 DEF RestartInv
<1>16. \A h \in answering' : (h \in G => Ahead(h)') => Kept(h)'
  BY <1>1, <1>11, <1>13 DEF RestartInv
<1> QED
  BY <1>1, <1>5, <1>10, <1>11, <1>12, <1>14, <1>15, <1>16 DEF RestartInv

\* When all batches are through one member is kept, and two where three answered.
LEMMA RestartOver ==
    ASSUME DeployInv, NextBatch, had # {}, play = "restart", Over, stage' = "recreate"
    PROVE  /\ answering # {} => \E r \in answering : Kept(r)
           /\ Cardinality(answering) >= 3 =>
                 \E q, r \in answering : q # r /\ Kept(q) /\ Kept(r)
<1> USE DEF DeployInv
<1> DEFINE G == groups["restart"]
           n == Cardinality(G)
           a == Cardinality(answering)
           s == BatchSize(play)
<1>1. /\ Restarting /\ play \in Batched /\ Batch \subseteq through \cup dropped
      /\ Batch = {} \/ (stage = "wait" /\ ~(Batch \subseteq dropped))
  BY NextBatchCases DEF Restarting, Batched
<1>2. G \in SUBSET answering /\ answering \in SUBSET Nodes
  BY <1>1, KeptPlaces
<1>3. /\ n \in Nat /\ a \in Nat /\ n <= a
      /\ a >= n + 1 => \E x \in answering : x \notin G
      /\ a >= n + 2 => \E x, y \in answering : x # y /\ x \notin G /\ y \notin G
  BY <1>2, MoreNodes
<1>4. s \in Nat \ {0} /\ (s = 1 \/ 100 * s <= 33 * n) /\ batch \in Nat /\ batch >= 1
  BY <1>1, BatchNumbers DEF StageTyped, Batched
<1>5. \A g \in answering : g \notin G => Kept(g)
  BY <1>1, KeptPlaces
<1>6. G = {} => n = 0
  BY FS_EmptySet
<1>7. n >= 1 => \E h \in G : Place(h) = n
  BY <1>1, <1>3, EveryPlace
<1> HIDE DEF n, a, s
<1>8. CASE G = {}
  <2>1. a >= 3 => a >= n + 2
    BY <1>3, <1>6, <1>8
  <2> QED
    BY <1>3, <1>5, <1>8, <2>1 DEF a
<1>9. CASE G # {} /\ Batch # {}
  <2>1. PICK r \in Batch : r \in through /\ r \notin dropped
    BY <1>1, <1>9
  <2>2. r \in G /\ ~(Place(r) <= (batch - 1) * s)
    BY <1>1, InBatchPlace DEF s
  <2>3. Kept(r) /\ r \in answering
    BY <1>1, <1>2, <1>9, <2>1, <2>2 DEF RestartInv
  <2>4. ASSUME a >= 3
        PROVE  \E q \in answering : q # r /\ Kept(q)
    <3>1. CASE a >= n + 1
      BY <1>3, <1>5, <2>2, <3>1
    <3>2. CASE a = n /\ batch >= 2
      <4>1. PICK q \in G : Kept(q) /\ Place(q) <= (batch - 1) * s
        BY <1>1, <3>2 DEF RestartInv, s
      <4> QED
        BY <1>2, <2>2, <4>1
    <3>3. CASE a = n /\ batch = 1
      <4>1. PICK h \in G : Place(h) = n
        BY <1>3, <1>7, <2>4, <3>3
      <4>2. n <= 1 * s
        BY <3>3, <4>1 DEF Over, s
      <4> QED
        BY <1>3, <1>4, <2>4, <3>3, <4>2
    <3> QED
      BY <1>3, <1>4, <3>1, <3>2, <3>3
  <2> QED
    BY <2>3, <2>4 DEF a
<1>10. CASE G # {} /\ Batch = {}
  <2>1. n >= 1
    BY <1>2, <1>3, <1>10, NodesFinite, FS_EmptySet, FS_Subset DEF n
  <2>2. PICK h \in G : Place(h) = n
    BY <1>7, <2>1
  <2>3. n <= batch * s
    BY <2>2 DEF Over, s
  <2>4. ~((batch - 1) * s < n)
    BY <1>10, <2>2, <2>3 DEF Batch, s
  <2>5. batch >= 2
    <3>1. batch = 1 => (batch - 1) * s = 0
      BY <1>4
    <3> QED
      BY <1>3, <1>4, <2>1, <2>4, <3>1
  <2>6. PICK r \in G : Kept(r) /\ Place(r) <= (batch - 1) * s
    BY <1>1, <2>5 DEF RestartInv, s
  <2>7. ASSUME a >= 3
        PROVE  \E p, q \in answering : p # q /\ Kept(p) /\ Kept(q)
    <3>1. CASE a >= n + 1
      BY <1>2, <1>3, <1>5, <2>6, <3>1
    <3>2. CASE a = n /\ batch >= 3
      <4>1. PICK p \in G, q \in G : p # q /\ Kept(p) /\ Kept(q)
        BY <1>1, <3>2 DEF RestartInv
      <4> QED
        BY <1>2, <4>1
    <3>3. CASE a = n /\ batch = 2
      <4>1. (batch - 1) * s = s
        BY <1>4, <3>3
      <4> QED
        BY <1>3, <1>4, <2>4, <2>7, <3>3, <4>1
    <3> QED
      BY <1>3, <1>4, <2>5, <3>1, <3>2, <3>3
  <2> QED
    BY <1>2, <2>6, <2>7 DEF a
<1> QED
  BY <1>8, <1>9, <1>10

\* Who is kept stays so unless it is the one that is restarted.
LEMMA RecreateKeeps ==
    ASSUME DeployInv, NEW h \in Nodes, Recreate(h) \/ RecreateFails(h)
    PROVE  /\ \A g \in Nodes \ {h} : Kept(g) => Kept(g)'
           /\ \A g \in Nodes : status'[g] = "lost" => status[g] = "lost" \/ kills' > 0
           /\ kills > 0 => kills' > 0
<1> USE DEF DeployInv
<1>1. PICK killed \in BOOLEAN, next \in {"off", "starting"} :
         Leave(h, killed, next) /\ kills' = IF killed THEN kills + 1 ELSE kills
  BY DEF Recreate, RecreateFails
<1>2. /\ status'[h] = next
      /\ \A g \in Nodes \ {h} :
            status'[g] = status[g] \/ (status'[g] = "lost" /\ killed)
      /\ synced' = {g \in synced \ {h} : status'[g] = "member"}
  BY <1>1, LeaveEffect
<1>3. \A g \in synced : status[g] = "member"
  BY DEF DeployTypeOK, ClusterMembers
<1>4. kills \in Nat
  BY DEF StageTyped
<1> QED
  BY <1>1, <1>2, <1>3, <1>4 DEF Kept

\* A restart keeps members with the whole state, batch by batch.
LEMMA RestartNext ==
    ASSUME DeployInv, DeployNext
    PROVE  RestartInv'
<1> USE DEF DeployInv, nodeVars, lookupVars, stageVars, countVars
<1> SUFFICES ASSUME Restarting', had' # {}
             PROVE  RestartInv'
  BY DEF RestartInv
<1>1. CASE Deploy \/ InterruptDeploy
  BY <1>1 DEF Deploy, InterruptDeploy, Restarting
<1>2. CASE NextStage
  <2>1. /\ stage = "group" /\ stage' = "recreate" /\ play' = "restart" /\ batch' = 1
        /\ UNCHANGED <<answering, synced, status>>
    BY <1>2, NextStageCases DEF Restarting
  <2>2. answering \subseteq synced
    BY <2>1 DEF SyncInv, Applying
  <2>3. \A h \in answering' : Kept(h)' /\ status'[h] # "lost"
    BY <2>1, <2>2 DEF Kept, DeployTypeOK, ClusterMembers
  <2> QED
    BY <2>1, <2>3 DEF RestartInv
<1>3. CASE NextBatch
  <2>1. /\ Restarting /\ UNCHANGED <<answering, synced, status, groups, kills, had>>
        /\ through' = {}
    BY <1>3, NextBatchCases
  <2>2. \A h : Kept(h)' <=> Kept(h)
    BY <2>1 DEF Kept
  <2>3. CASE stage' = "wait" /\ UNCHANGED <<play, batch>>
    <3>1. /\ \A h : Ahead(h)' = Ahead(h) /\ Place(h)' = Place(h)
          /\ BatchSize(play)' = BatchSize(play)
      BY <2>1, <2>3, SameBatches
    <3> QED
      BY <2>1, <2>2, <2>3, <3>1 DEF RestartInv
  <2>4. CASE ~Over /\ stage' = "recreate" /\ batch' = batch + 1 /\ UNCHANGED play
    <3>1. CASE play = "restart"
      BY <1>3, <2>1, <2>4, <3>1, RestartBatch
    <3>2. CASE play # "restart"
      BY <2>1, <2>2, <2>4, <3>2 DEF RestartInv
    <3> QED
      BY <3>1, <3>2
  <2>5. CASE /\ Over /\ stage' = "recreate"
             /\ <<play, play'>> \in {<<"restart", "start">>, <<"start", "again">>}
    <3>1. /\ answering # {} => \E r \in answering : Kept(r)
          /\ Cardinality(answering) >= 3 =>
                \E q, r \in answering : q # r /\ Kept(q) /\ Kept(r)
      BY <1>3, <2>1, <2>5, RestartOver DEF RestartInv
    <3> QED
      BY <2>1, <2>2, <2>5, <3>1 DEF RestartInv
  <2> QED
    BY <1>3, <2>3, <2>4, <2>5, NextBatchCases DEF Restarting
<1>4. ASSUME NEW h \in Nodes, JoinCluster(h) \/ Sync(h)
      PROVE  RestartInv'
  <2>1. UNCHANGED <<answering, groups, kills, had, play, batch, stage, through>>
    BY <1>4 DEF JoinCluster, Sync
  <2>2. \A g \in Nodes : /\ Kept(g) => Kept(g)'
                         /\ status'[g] = "lost" => status[g] = "lost"
    BY <1>4 DEF JoinCluster, Sync, Kept, DeployTypeOK, ClusterMembers
  <2>3. /\ \A g : Ahead(g)' = Ahead(g) /\ Place(g)' = Place(g)
        /\ BatchSize(play)' = BatchSize(play)
    BY <2>1, SameBatches
  <2>4. answering \subseteq Nodes /\ groups["restart"] \subseteq Nodes
    BY DEF StageTyped, Batched
  <2> QED
    BY <2>1, <2>2, <2>3, <2>4 DEF RestartInv, Restarting
<1>5. ASSUME NEW h \in Nodes, WaitForNode(h)
      PROVE  RestartInv'
  <2>1. /\ UNCHANGED <<answering, groups, kills, had, play, batch, stage, status, synced>>
        /\ through' \in {through, through \cup {h}} /\ Restarting
    BY <1>5 DEF WaitForNode, GetsThrough, Drops, InBatch, Restarting
  <2>2. h \in answering /\ h \in through' => Kept(h) \/ h \in through
    BY <1>5 DEF WaitForNode, WaitsForSync, Kept, Drops
  <2>3. /\ \A g : Ahead(g)' = Ahead(g) /\ Place(g)' = Place(g)
        /\ BatchSize(play)' = BatchSize(play)
    BY <2>1, SameBatches
  <2>4. \A g : Kept(g)' <=> Kept(g)
    BY <2>1 DEF Kept
  <2>5. \A g : g # h => (g \in through' <=> g \in through)
    BY <2>1
  <2> QED
    BY <2>1, <2>2, <2>3, <2>4, <2>5 DEF RestartInv
<1>6. ASSUME NEW h \in Nodes, Recreate(h) \/ RecreateFails(h)
      PROVE  RestartInv'
  <2>1. /\ UNCHANGED <<groups, play, batch, stage, had, answering>>
        /\ Restarting /\ h \in Batch /\ h \in groups[play] /\ play \in Batched
        /\ stage = "recreate"
    BY <1>6, RecreateStep, BatchNodes
  <2>2. /\ \A g \in Nodes \ {h} : Kept(g) => Kept(g)'
        /\ \A g \in Nodes : status'[g] = "lost" => status[g] = "lost" \/ kills' > 0
        /\ kills > 0 => kills' > 0
    BY <1>6, RecreateKeeps
  <2>3. /\ \A g : Ahead(g)' = Ahead(g) /\ Place(g)' = Place(g)
        /\ BatchSize(play)' = BatchSize(play)
    BY <2>1, SameBatches
  <2>4. ~Ahead(h) /\ ~(Place(h) <= (batch - 1) * BatchSize(play))
    BY <2>1, InBatchPlace
  <2>5. answering \subseteq Nodes /\ groups["restart"] \subseteq Nodes
    BY DEF StageTyped, Batched
  <2>6. \A g \in answering' : status'[g] = "lost" => kills' > 0
    BY <2>1, <2>2, <2>5 DEF RestartInv
  <2>7. CASE play = "restart"
    BY <2>1, <2>2, <2>3, <2>4, <2>5, <2>6, <2>7 DEF RestartInv
  <2>8. CASE play # "restart"
    <3>1. h \notin answering
      BY <2>1, <2>8 DEF GroupInv, Batched
    <3> QED
      BY <2>1, <2>2, <2>5, <2>6, <2>8, <3>1 DEF RestartInv
  <2> QED
    BY <2>7, <2>8
<1>7. ASSUME NEW h \in Nodes, Replace(h) \/ StageFails(h) \/ ApplyStep(h)
      PROVE  RestartInv'
  <2>1. stage' \notin {"recreate", "wait"}
    BY <1>7 DEF Replace, StageFails, ApplyStep, Notify, Volume, Port, SyncStatus, Unsynced,
                BootstrapCluster, FirstNode, FirstNodeFails, Group, RunsTask, GetsThrough, Drops
  <2> QED
    BY <2>1 DEF Restarting
<1> QED
  BY <1>1, <1>2, <1>3, <1>4, <1>5, <1>6, <1>7 DEF DeployNext

-----------------------------------------------------------------------------
(* The steps that keep the cluster                                         *)

\* A new installation has nothing that the invariant speaks of.
LEMMA DeployStarts ==
    ASSUME DeployInit
    PROVE  DeployInv
<1> USE DEF DeployInit, NoGroups
<1>1. DeployTypeOK /\ NodesInv
  BY DEF DeployTypeOK, NodesInv, ClusterMembers
<1>2. StageTyped
  BY DEF StageTyped, Applying, Restarting, Batched
<1>3. HadInv /\ BootInv /\ SyncInv /\ CoverInv /\ LostInv /\ RestartInv
  BY DEF HadInv, BootInv, SyncInv, CoverInv, LostInv, RestartInv, Applying, Restarting,
         PassedNotify, PassedVolume, PassedGroup, Unbooted
<1>4. GroupInv
  BY DEF GroupInv, Applying, Batched
<1>5. StartInv
  BY DEF StartInv, PassedGroup, Restarting
<1> QED
  BY <1>1, <1>2, <1>3, <1>4, <1>5 DEF DeployInv

\* Two members of a cluster stay with it, whoever else is killed.
LEMMA TwoStay ==
    ASSUME DeployTypeOK, NEW h \in Nodes, NEW killed \in BOOLEAN,
           NEW next \in {"off", "starting"}, Leave(h, killed, next),
           NEW f \in Nodes \ {h}, NEW g \in Nodes \ {h}, f # g,
           status[f] = "member", status[g] = "member", cluster[f] = cluster[g]
    PROVE  status'[f] = "member"
<1> DEFINE rest == {x \in ClusterMembers \ {h} : cluster[x] = cluster[h]}
           few == 2 * Cardinality(rest) <= Cardinality(rest) + 1
           after == [x \in Nodes |-> IF x \in rest /\ h \in ClusterMembers /\ killed /\ few
                                     THEN "lost" ELSE status[x]]
<1>1. After(h, killed) = after
  BY DEF After
<1>2. f \in rest => ~few
  <2> SUFFICES ASSUME f \in rest
               PROVE  ~few
    OBVIOUS
  <2>1. g \in rest
    BY DEF ClusterMembers
  <2>2. rest \in SUBSET Nodes /\ {f, g} \in SUBSET rest
    BY <2>1 DEF ClusterMembers
  <2>3. Cardinality({f, g}) = 2
    <3> DEFINE one == {f}
    <3>1. IsFiniteSet(one) /\ Cardinality(one) = 1 /\ g \notin one
      BY FS_Singleton
    <3>2. one \cup {g} = {f, g}
      OBVIOUS
    <3> HIDE DEF one
    <3>3. Cardinality(one \cup {g}) = Cardinality(one) + 1
      BY <3>1, FS_AddElement
    <3> QED
      BY <3>1, <3>2, <3>3
  <2>4. Cardinality(rest) \in Nat /\ 2 <= Cardinality(rest)
    <3> HIDE DEF rest
    <3> QED
      BY <2>2, <2>3, MoreNodes
  <2> QED
    BY <2>4
<1> HIDE DEF few
<1>3. status'[f] = after[f]
  BY <1>1 DEF Leave, DeployTypeOK
<1> QED
  BY <1>2, <1>3

\* While a host is restarted another one is kept where the play works with two,
\* and two are where it works with three.
LEMMA KeptApart ==
    ASSUME DeployInv, NEW h \in Nodes, Recreate(h) \/ RecreateFails(h), synced' = {}, synced # {}
    PROVE  /\ Found \in SUBSET Nodes
           /\ Cardinality(Found) >= 2 =>
                 \E g \in Nodes \ {h} : Kept(g) /\ (status[g] = "lost" => kills > 0)
           /\ Cardinality(Found) >= 3 =>
                 \E f, g \in Nodes \ {h} : f # g /\ Kept(f) /\ Kept(g)
<1> USE DEF DeployInv
<1>1. /\ Restarting /\ h \in Batch /\ h \in groups[play] /\ play \in Batched
      /\ stage = "recreate" /\ h \notin through /\ h \notin dropped
  BY BatchNodes
<1>2. answering \in SUBSET Nodes /\ Found \in SUBSET Nodes
  BY DEF StageTyped, Found
<1>3. CASE had = {}
  <2>1. h = 1 /\ play = "again"
    BY <1>1, <1>3, StartsFromNothing DEF Batched
  <2>2. Pending("again", 1)
    BY <1>1, <2>1 DEF Pending
  <2>3. Nodes \ (dropped \cup {1}) \subseteq synced
    BY <1>1, <1>3, <2>1, <2>2 DEF StartInv
  <2>4. Found = Nodes \ dropped
    BY <1>3 DEF Found, ClusterExists
  <2>5. {1} \in SUBSET Found /\ Cardinality({1}) = 1
    BY <1>1, <2>1, <2>4, FS_Singleton
  <2>6. /\ Cardinality(Found) \in Nat
        /\ Cardinality(Found) >= 1 + 1 => \E x \in Found : x \notin {1}
        /\ Cardinality(Found) >= 1 + 2 =>
              \E x, y \in Found : x # y /\ x \notin {1} /\ y \notin {1}
    BY <1>2, <2>5, MoreNodes
  <2>7. \A x \in Found : x # 1 => x \in Nodes \ {h} /\ Kept(x) /\ status[x] # "lost"
    BY <2>1, <2>3, <2>4 DEF Kept, DeployTypeOK, ClusterMembers
  <2> QED
    BY <1>2, <2>6, <2>7
<1>4. CASE had # {}
  <2>1. Found = answering
    BY <1>4 DEF Found, ClusterExists
  <2>2. \A g \in answering : status[g] = "lost" => kills > 0
    BY <1>1, <1>4 DEF RestartInv
  <2>3. CASE play = "restart"
    <3>1. /\ Cardinality(answering) >= 2 => \E g \in answering : Kept(g) /\ g \notin Batch
          /\ Cardinality(answering) >= 3 =>
                \E f, g \in answering : /\ f # g /\ Kept(f) /\ Kept(g)
                                        /\ f \notin Batch /\ g \notin Batch
      BY <1>1, <1>4, <2>3, KeptOutside
    <3> QED
      BY <1>1, <1>2, <2>1, <2>2, <3>1
  <2>4. CASE play # "restart"
    <3>1. h \notin answering
      BY <1>1, <1>4, <2>4 DEF GroupInv, Batched
    <3>2. Cardinality(answering) >= 2 => answering # {}
      BY FS_EmptySet
    <3>3. /\ answering # {} => \E r \in answering : Kept(r)
          /\ Cardinality(answering) >= 3 =>
                \E q, r \in answering : q # r /\ Kept(q) /\ Kept(r)
      BY <1>1, <1>4, <2>4 DEF RestartInv
    <3> QED
      BY <1>2, <2>1, <2>2, <3>1, <3>2, <3>3
  <2> QED
    BY <2>3, <2>4
<1> QED
  BY <1>3, <1>4

\* "We need to be careful about restarting services, to avoid losing quorum".
LEMMA RestartStepHolds ==
    ASSUME DeployInv, DeployNext
    PROVE  RestartStep
<1> USE DEF DeployInv, nodeVars, lookupVars, stageVars, countVars
<1> SUFFICES ASSUME stage # "idle", synced # {}, synced' = {}
             PROVE  \/ Cardinality(Found) <= 1
                    \/ kills' > 0 /\ (Cardinality(Found) <= 2 \/ ~OneCluster)
  BY DEF RestartStep
<1>1. PICK h \in Nodes : Recreate(h) \/ RecreateFails(h)
  <2>1. CASE Deploy \/ InterruptDeploy \/ NextStage \/ NextBatch
    BY <2>1 DEF Deploy, InterruptDeploy, NextStage, NextBatch
  <2>2. ASSUME NEW h \in Nodes,
               JoinCluster(h) \/ Sync(h) \/ Replace(h) \/ StageFails(h) \/ WaitForNode(h)
        PROVE  FALSE
    BY <2>2 DEF JoinCluster, Sync, Replace, StageFails, WaitForNode
  <2>3. ASSUME NEW h \in Nodes, ApplyStep(h)
        PROVE  FALSE
    BY <2>3 DEF ApplyStep, Notify, Volume, Port, SyncStatus, Unsynced, BootstrapCluster,
                FirstNode, FirstNodeFails, Group
  <2> QED
    BY <2>1, <2>2, <2>3 DEF DeployNext
<1>2. /\ Found \in SUBSET Nodes
      /\ Cardinality(Found) >= 2 =>
            \E g \in Nodes \ {h} : Kept(g) /\ (status[g] = "lost" => kills > 0)
      /\ Cardinality(Found) >= 3 =>
            \E f, g \in Nodes \ {h} : f # g /\ Kept(f) /\ Kept(g)
  BY <1>1, KeptApart
<1>3. Cardinality(Found) \in Nat
  BY <1>2, NodesFinite
<1>4. /\ \A g \in Nodes \ {h} : Kept(g) => status'[g] = "lost"
      /\ \A g \in Nodes : status'[g] = "lost" => status[g] = "lost" \/ kills' > 0
      /\ kills > 0 => kills' > 0
  BY <1>1, RecreateKeeps DEF Kept
<1>5. ASSUME Cardinality(Found) >= 2
      PROVE  kills' > 0
  BY <1>2, <1>4, <1>5
<1>6. ASSUME Cardinality(Found) >= 3, OneCluster
      PROVE  FALSE
  <2>1. PICK f \in Nodes \ {h}, g \in Nodes \ {h} : f # g /\ Kept(f) /\ Kept(g)
    BY <1>2, <1>6
  <2>2. \A x \in synced : x \in Nodes /\ status[x] = "member" /\ cluster[x] # 0
    BY DEF DeployTypeOK, ClusterMembers
  <2>3. \A l \in Nodes : status[l] # "lost"
    <3> SUFFICES ASSUME NEW l \in Nodes, status[l] = "lost"
                 PROVE  FALSE
      OBVIOUS
    <3>1. PICK m \in synced : TRUE
      OBVIOUS
    <3>2. cluster[l] # 0 /\ cluster[m] # cluster[l]
      BY <2>2 DEF NodesInv, ClusterMembers
    <3> QED
      BY <1>6, <2>2, <3>2 DEF OneCluster
  <2>4. f \in synced /\ g \in synced
    BY <2>1, <2>3 DEF Kept
  <2>5. cluster[f] = cluster[g]
    BY <1>6, <2>2, <2>4 DEF OneCluster
  <2>6. PICK killed \in BOOLEAN, next \in {"off", "starting"} : Leave(h, killed, next)
    BY <1>1 DEF Recreate, RecreateFails
  <2>7. status'[f] = "member"
    BY <2>1, <2>2, <2>4, <2>5, <2>6, TwoStay
  <2> QED
    BY <1>4, <2>1, <2>7
<1> QED
  BY <1>3, <1>5, <1>6

\* A cluster is never initialised next to the data of another that answers.
LEMMA BootstrapStepHolds ==
    ASSUME DeployInv, DeployNext
    PROVE  BootstrapStep
<1> USE DEF DeployInv, nodeVars, lookupVars, stageVars, countVars
<1> SUFFICES ASSUME generation' > generation, NEW g \in Nodes, cluster[g] # 0, g \notin dropped
             PROVE  FALSE
  BY DEF BootstrapStep
<1>1. ~(generation > generation)
  BY DEF DeployTypeOK
<1>2. PICK h \in Nodes : BootstrapCluster(h) /\ Bootstraps(h)
  <2>1. CASE Deploy \/ InterruptDeploy \/ NextStage \/ NextBatch
    BY <1>1, <2>1 DEF Deploy, InterruptDeploy, NextStage, NextBatch
  <2>2. ASSUME NEW h \in Nodes,
               \/ JoinCluster(h) \/ Sync(h) \/ Replace(h) \/ StageFails(h) \/ WaitForNode(h)
               \/ Recreate(h) \/ RecreateFails(h)
        PROVE  FALSE
    BY <1>1, <2>2 DEF JoinCluster, Sync, Replace, StageFails, WaitForNode, Recreate, RecreateFails
  <2>3. ASSUME NEW h \in Nodes, ApplyStep(h)
        PROVE  BootstrapCluster(h) /\ Bootstraps(h)
    BY <1>1, <2>3 DEF ApplyStep, Notify, Volume, Port, SyncStatus, Unsynced, BootstrapCluster,
                FirstNode, FirstNodeFails, Group
  <2> QED
    BY <2>1, <2>2, <2>3 DEF DeployNext
<1>3. stage = "bootstrap" /\ h = 1 /\ h \notin through /\ had = {}
  BY <1>2 DEF BootstrapCluster, RunsTask, Bootstraps, ClusterExists
<1>4. Applying /\ PassedVolume(g) /\ Unbooted /\ g \notin had
  BY <1>3 DEF Applying, PassedVolume, Unbooted
<1> QED
  BY <1>4 DEF HadInv

\* After a run without a failure every container is as configured, and a member or
\* on its way to be one.
LEMMA SuccessStepHolds ==
    ASSUME DeployInv, DeployNext
    PROVE  SuccessStep
<1> USE DEF DeployInv, nodeVars, lookupVars, stageVars, countVars
<1> SUFFICES ASSUME stage # "idle", stage' = "idle", dropped' = {}, NEW h \in Nodes
             PROVE  /\ running[h] = "current"
                    /\ status[h] \in {"member", "starting"} \/ (kills > 0 /\ ~OneCluster)
  BY DEF SuccessStep
<1>1. NextBatch
  <2>1. ~Deploy /\ ~InterruptDeploy /\ ~NextStage
    BY NodesFinite, NextStageCases DEF Deploy, InterruptDeploy
  <2>2. ASSUME NEW g \in Nodes,
               \/ JoinCluster(g) \/ Sync(g) \/ Replace(g) \/ StageFails(g) \/ WaitForNode(g)
               \/ Recreate(g) \/ RecreateFails(g)
        PROVE  FALSE
    BY <2>2 DEF JoinCluster, Sync, Replace, StageFails, WaitForNode, Recreate, RecreateFails,
                GetsThrough, Drops
  <2>3. ASSUME NEW g \in Nodes, ApplyStep(g)
        PROVE  FALSE
    BY <2>3 DEF ApplyStep, Notify, Volume, Port, SyncStatus, Unsynced, BootstrapCluster,
                FirstNode, FirstNodeFails, Group, GetsThrough, Drops
  <2> QED
    BY <2>1, <2>2, <2>3 DEF DeployNext
<1>2. /\ Restarting /\ dropped = {} /\ Batch \subseteq through /\ Over /\ play = "again"
      /\ stage = "recreate" => Batch = {}
  BY <1>1, NextBatchCases DEF Restarting
<1>3. ~Ahead(h)
  <2>1. BatchSize(play) \in Nat /\ batch \in Nat
    BY <1>2, BatchNumbers DEF StageTyped, Batched
  <2>2. batch * BatchSize(play) \in Nat
    BY <2>1
  <2>3. h \in groups[play] => Place(h) \in Nat
    BY <1>2, Places DEF Batched
  <2> QED
    BY <1>2, <2>2, <2>3 DEF Over, Ahead
<1>4. \A p \in Batched : ~Pending(p, h)
  BY <1>2, <1>3 DEF Pending, Later
<1>5. running[h] = "current"
  BY <1>2, <1>4 DEF CoverInv
<1>6. status[h] # "off"
  BY <1>5 DEF NodesInv
<1>7. ASSUME status[h] = "lost"
      PROVE  kills > 0 /\ ~OneCluster
  <2>1. ~Stuck
    BY <1>2 DEF Stuck, Restarting
  <2>2. kills > 0 /\ \E g \in Nodes : cluster[g] \notin {0, cluster[h]}
    BY <1>2, <1>7, <2>1 DEF LostInv
  <2> QED
    BY <1>7, <2>2 DEF NodesInv, OneCluster
<1>8. status[h] \in {"off", "starting", "member", "lost"}
  BY DEF DeployTypeOK
<1> QED
  BY <1>5, <1>6, <1>7, <1>8

-----------------------------------------------------------------------------
(* The theorems                                                            *)

\* The invariant of a deployment holds in every state.
THEOREM DeployInductive == DeploySpec => []DeployInv
<1>1. DeployInit => DeployInv
  BY DeployStarts
<1>2. ASSUME DeployInv, [DeployNext]_deployVars
      PROVE  DeployInv'
  <2>1. CASE DeployNext
    BY <1>2, <2>1, DeployTypeNext, StageTypedNext, NodesNext, HadNext, BootNext, SyncNext,
       GroupNext, CoverNext, LostNext, RestartNext, StartNext DEF DeployInv
  <2>2. CASE UNCHANGED deployVars
    <3> USE DEF deployVars, nodeVars, lookupVars, stageVars, countVars
    <3>1. (\A h : Place(h)' = Place(h) /\ Ahead(h)' = Ahead(h)) /\ Batch' = Batch
          /\ BatchSize(play)' = BatchSize(play)
      BY <2>2, SameBatches
    <3>2. ClusterMembers' = ClusterMembers /\ Stuck' = Stuck
      BY <2>2, <3>1 DEF ClusterMembers, Stuck
    <3>3. \A p, h : Pending(p, h)' <=> Pending(p, h)
      BY <2>2, <3>1 DEF Pending, Later
    <3>4. DeployTypeOK' /\ StageTyped' /\ NodesInv'
      BY <1>2, <2>2, <3>2 DEF DeployInv, DeployTypeOK, StageTyped, NodesInv, Applying, Restarting
    <3>5. HadInv' /\ BootInv' /\ SyncInv' /\ GroupInv'
      BY <1>2, <2>2 DEF DeployInv, HadInv, BootInv, SyncInv, GroupInv, Applying, Restarting,
         Unbooted, PassedVolume, PassedPort
    <3>6. CoverInv' /\ LostInv' /\ StartInv'
      BY <1>2, <2>2, <3>1, <3>2, <3>3 DEF DeployInv, CoverInv, LostInv, StartInv, Restarting,
         PassedNotify, PassedGroup
    <3>7. RestartInv'
      BY <1>2, <2>2, <3>1 DEF DeployInv, RestartInv, Restarting, Kept
    <3> QED
      BY <3>4, <3>5, <3>6, <3>7 DEF DeployInv
  <2> QED
    BY <1>2, <2>1, <2>2
<1> QED
  BY <1>1, <1>2, PTL DEF DeploySpec

\* Hosts, containers and clusters have their types; a member has data of a cluster
\* in its volume, and only members have the whole state.
THEOREM DeployTyped == DeploySpec => []DeployTypeOK
<1>1. DeployInv => DeployTypeOK
  BY DEF DeployInv
<1> QED
  BY <1>1, DeployInductive, PTL

\* A deployment keeps the cluster, with any number of hosts, runs, failures,
\* replaced hosts and kills: its restarts leave a member with the whole state, it
\* never initialises a cluster next to the data of another, and without a failure
\* it leaves every container as configured.
THEOREM DeploymentKeepsCluster == DeploySpec => DeployKeepsCluster
<1>1. ASSUME DeployInv, [DeployNext]_deployVars
      PROVE  [RestartStep /\ BootstrapStep /\ SuccessStep]_deployVars
  BY <1>1, RestartStepHolds, BootstrapStepHolds, SuccessStepHolds
<1> QED
  BY <1>1, DeployInductive, PTL DEF DeploySpec, DeployKeepsCluster

=============================================================================
