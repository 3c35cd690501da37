------------------------------ MODULE MCPlays ------------------------------
(***************************************************************************)
(* Plays on the control hosts, one in every behaviour: the recovery of a   *)
(* Galera cluster; deployments of one, on three hosts, and on seven, the   *)
(* smallest shard with a batch of two; upgrades of glance, rolling and     *)
(* legacy.  The plays that are not chosen stay as they begin.              *)
(***************************************************************************)
EXTENDS GaleraRecovery, GlanceUpgrade, GaleraDeploy

Seven == INSTANCE GaleraDeploy WITH
    ShardSize <- 7, MaxDeploys <- 2, MaxMishaps <- 1, MaxReplaced <- 0, MaxKills <- 1

VARIABLE chosen

playsVars == <<vars, deployVars, upgradeVars, chosen>>

PlaysInit ==
    /\ chosen \in {"recovery", "three", "seven", "glance"}
    /\ Init
    /\ IF chosen = "seven" THEN Seven!DeployInit ELSE DeployInit
    /\ UpgradeInit
    /\ chosen # "glance" => rolling
    /\ chosen # "recovery" => gtid = {}

PlaysNext ==
    /\ \/ chosen = "recovery" /\ Next /\ UNCHANGED <<deployVars, upgradeVars>>
       \/ chosen = "three" /\ DeployNext /\ UNCHANGED <<vars, upgradeVars>>
       \/ chosen = "seven" /\ Seven!DeployNext /\ UNCHANGED <<vars, upgradeVars>>
       \/ chosen = "glance" /\ UpgradeNext /\ UNCHANGED <<vars, deployVars>>
    /\ UNCHANGED chosen

\* The fairness of FairSpec in GaleraRecovery and of UpgradeFairSpec.
PlaysSpec ==
    /\ PlaysInit
    /\ [][PlaysNext]_playsVars
    /\ WF_vars(chosen = "recovery" /\ StartPlay)
    /\ WF_vars(chosen = "recovery" /\ PlayStep)
    /\ \A h \in Shard : /\ WF_vars(chosen = "recovery" /\ UnitRestarts(h))
                        /\ WF_vars(chosen = "recovery" /\ Join(h))
    /\ WF_upgradeVars(chosen = "glance" /\ Upgrade)
    /\ WF_upgradeVars(chosen = "glance" /\ UpgradeStep)

-----------------------------------------------------------------------------
\* Types of the variables; members of a cluster have the volume and data, and a new
\* glance container has new files.
PlaysTyped ==
    /\ TypeOK
    /\ IF chosen = "seven" THEN Seven!DeployTypeOK ELSE DeployTypeOK
    /\ UpgradeTypeOK

\* DeployKeepsCluster for the deployments on seven hosts.
SevenKeepCluster ==
    [][chosen = "seven" =>
          Seven!RestartStep /\ Seven!BootstrapStep /\ Seven!SuccessStep]_deployVars

\* Upgrades of glance that are repeated end well once failures do, but for a first
\* host without a container that a rolling upgrade has to stop.
UpgradeCompleted == chosen = "glance" => Upgraded

=============================================================================
