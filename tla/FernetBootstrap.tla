-------------------------- MODULE FernetBootstrap --------------------------
(***************************************************************************)
(* Deployments of keystone and the first fernet keys: which hosts have a   *)
(* keystone_fernet container (kolla_container_facts), whether keys are to  *)
(* be set up, and whose keys fernet-push.sh mirrors to the group           *)
(* (roles/keystone/tasks/bootstrap_service.yml, distribute_fernet.yml).    *)
(* A repository is the generation that fernet_setup made it, and rotations *)
(* do not change it: they are the subject of FernetKeys.                   *)
(***************************************************************************)
EXTENDS KeystoneGroup, Sequences, SequencesExt

CONSTANTS
    Engine,           \* kolla_container_engine
    MaxDeployments,   \* runs of kolla-ansible deploy
    MaxReplaced,      \* hosts that are replaced by new ones
    MaxExits,         \* containers that stop
    MaxFailures       \* plays that are lost

ASSUME BootstrapAssumption ==
    /\ N \in Nat \ {0}
    /\ Engine \in {"docker", "podman"}
    /\ {MaxDeployments, MaxReplaced, MaxExits, MaxFailures} \subseteq Nat

NoKeys == 0

VARIABLES
    cont,       \* keystone_fernet on each host: "absent", "exited" or "running"
    keys,       \* generation of each host's key repository
    signed,     \* generations that tokens were signed with
    task,       \* the next task of the batch, "idle" between deployments
    targets,    \* hosts of the run that are in no batch yet
    batch,      \* ansible_play_batch
    running,    \* groups['keystone_fernet_running'], kept from batch to batch
    grouped,    \* hosts of the batch that group_by has seen
    result,     \* of the last deployment
    deployments, replaced, exits,
    failures    \* deployments that ended half way

playVars == <<task, targets, batch, running, grouped, result>>
counters == <<deployments, replaced, exits, failures>>
bootstrapVars == <<cont, keys, signed, playVars, counters>>

BootstrapInit ==
    /\ cont = [h \in Hosts |-> "absent"]
    /\ keys = [h \in Hosts |-> NoKeys]
    /\ signed = {}
    /\ task = "idle" /\ targets = {} /\ batch = {} /\ running = <<>> /\ grouped = {}
    /\ result = "none"
    /\ deployments = 0 /\ replaced = 0 /\ exits = 0 /\ failures = 0

-----------------------------------------------------------------------------
(* The hosts                                                               *)

\* keystone signs a token with the keys it finds.
Sign(h) ==
    /\ cont[h] = "running" /\ keys[h] # NoKeys
    /\ signed' = signed \cup {keys[h]}
    /\ UNCHANGED <<cont, keys, playVars, counters>>

\* A host is replaced; another one has its keys.
Replace(h) ==
    /\ task = "idle" /\ replaced < MaxReplaced
    /\ \E g \in Hosts \ {h} : keys[g] = keys[h] /\ cont[g] = "running"
    /\ replaced' = replaced + 1
    /\ cont' = [cont EXCEPT ![h] = "absent"]
    /\ keys' = [keys EXCEPT ![h] = NoKeys]
    /\ UNCHANGED <<signed, playVars, deployments, exits, failures>>

Exit(h) ==
    /\ cont[h] = "running" /\ exits < MaxExits
    /\ cont' = [cont EXCEPT ![h] = "exited"]
    /\ exits' = exits + 1
    /\ UNCHANGED <<keys, signed, playVars, deployments, replaced, failures>>

-----------------------------------------------------------------------------
(* A deployment                                                            *)

End(r) == task' = "idle" /\ result' = r

\* The deployment ends after it may have changed containers or keys.
HalfWay == End("failed") /\ failures' = failures + 1

\* kolla-ansible deploy, perhaps with --limit
Deploy ==
    /\ task = "idle" /\ deployments < MaxDeployments
    /\ deployments' = deployments + 1
    /\ \E limit \in (SUBSET Hosts) \ {{}} : targets' = limit
    /\ running' = <<>>
    /\ task' = "batch"
    /\ UNCHANGED <<cont, keys, signed, batch, grouped, result, replaced, exits, failures>>

\* serial: kolla_serial.  The keystone play runs once for every batch.
NextBatch ==
    /\ task = "batch"
    /\ IF targets = {}
         THEN End("ok") /\ UNCHANGED <<targets, batch, grouped>>
         ELSE /\ \E b \in (SUBSET targets) \ {{}} : batch' = b /\ targets' = targets \ b
              /\ grouped' = {}
              /\ task' = "group"
              /\ UNCHANGED result
    /\ UNCHANGED <<cont, keys, signed, running, counters>>

\* What container_facts['keystone_fernet'].State is.  Docker lists the running
\* containers with their state as a word; of podman's containers, the stopped ones
\* too, the facts are those of inspect, where State is a record.
State(h) ==
    IF Engine = "docker"
      THEN IF cont[h] = "running" THEN "running" ELSE "undefined"
      ELSE IF cont[h] = "absent" THEN "undefined" ELSE "record"

\* Checking for any running keystone_fernet containers, Group nodes where
\* keystone_fernet is running; hosts enter the group as their results come in.
Group(h) ==
    /\ task = "group" /\ h \in batch \ grouped
    /\ grouped' = grouped \cup {h}
    /\ running' = IF State(h) = "running" /\ ~Contains(running, h)
                    THEN Append(running, h) ELSE running
    /\ task' = IF grouped' = batch THEN "check" ELSE task
    /\ UNCHANGED <<cont, keys, signed, targets, batch, result, counters>>

\* Fail if any hosts need bootstrapping and not all hosts targeted
Check ==
    /\ task = "check"
    /\ IF running = <<>> /\ Hosts \ batch # {}
         THEN End("failed")
         ELSE task' = "setup" /\ UNCHANGED result
    /\ UNCHANGED <<cont, keys, signed, targets, batch, running, grouped, counters>>

\* Running Keystone fernet bootstrap container, on the first host of the group:
\* fernet_setup leaves a repository that is there alone.
Setup ==
    /\ task = "setup"
    /\ keys' = IF running = <<>> /\ keys[1] = NoKeys
                 THEN [keys EXCEPT ![1] = deployments] ELSE keys
    /\ task' = "handlers"
    /\ UNCHANGED <<cont, signed, targets, batch, running, grouped, result, counters>>

\* Flush handlers: the containers of the batch run.
Handlers ==
    /\ task = "handlers"
    /\ cont' = [h \in Hosts |-> IF h \in batch THEN "running" ELSE cont[h]]
    /\ task' = "distribute"
    /\ UNCHANGED <<keys, signed, targets, batch, running, grouped, result, counters>>

\* Fault: the first host of the group, whatever runs where.
SourceFirst == 1

\* delegate_to of Run key distribution
Source == IF running # <<>> THEN Head(running) ELSE 1

\* fernet-push.sh reaches the hosts in turn, up to the first that does not answer.
Reached == {h \in Hosts : \A g \in 1 .. h : g # Source => cont[g] # "absent"}

\* Run key distribution: rsync --delete makes the other repositories the same.
RunKeyDistribution ==
    /\ task = "distribute"
    /\ IF cont[Source] # "running"
         THEN HalfWay /\ UNCHANGED keys
         ELSE /\ keys' = [h \in Hosts |-> IF h \in Reached /\ cont[h] # "absent"
                                            THEN keys[Source] ELSE keys[h]]
              /\ IF Reached = Hosts THEN task' = "batch" /\ UNCHANGED <<result, failures>>
                                    ELSE HalfWay
    /\ UNCHANGED <<cont, signed, targets, batch, running, grouped, deployments, replaced, exits>>

\* The play is lost, or a task of it fails.
Interrupted ==
    /\ task # "idle" /\ failures < MaxFailures
    /\ HalfWay
    /\ UNCHANGED <<cont, keys, signed, targets, batch, running, grouped, deployments,
                   replaced, exits>>

BootstrapNext ==
    \/ Deploy \/ NextBatch \/ Check \/ Setup \/ Handlers \/ RunKeyDistribution \/ Interrupted
    \/ \E h \in Hosts : Sign(h) \/ Replace(h) \/ Exit(h) \/ Group(h)

BootstrapSpec == BootstrapInit /\ [][BootstrapNext]_bootstrapVars

-----------------------------------------------------------------------------
(* Properties                                                              *)

\* "If we bootstrap Fernet keys on an existing cluster, this would overwrite
\* existing keys, and invalidate tokens created from them": no step of a deployment
\* takes from a host the keys that tokens were signed with, unless an earlier one
\* ended half way, or every container with keys has been stopped or replaced (the
\* FIXME of bootstrap_service.yml).
DeployKeepsKeys ==
    [][failures = 0 /\ exits + replaced < N =>
         \A h \in Hosts :
            keys[h] \in signed /\ cont'[h] # "absent" => keys'[h] = keys[h]]_bootstrapVars

\* Keys are set up once: whatever was interrupted and is deployed again, tokens are
\* never signed with keys of two generations, unless containers had stopped before
\* (the same FIXME).
OneGeneration == exits = 0 => \A a, b \in signed : a = b

\* A deployment that ends well, whichever hosts it was limited to, leaves every host
\* of the group with the same keys, unless an earlier one ended half way.
DeploySynchronises ==
    [][failures = 0 /\ result' = "ok" /\ task = "batch" /\ task' = "idle"
          => \A g, h \in Hosts : keys[g] # NoKeys /\ keys[g] = keys[h]]_bootstrapVars

\* Deployments do no harm to the keys: none takes from a host keys that tokens were
\* signed with, one that ends well leaves every host with the same keys, and even
\* with interruptions tokens are never signed with keys of two generations.
DeploysKeepKeys ==
    /\ DeployKeepsKeys
    /\ DeploySynchronises
    /\ []OneGeneration

=============================================================================
