--------------------------- MODULE GaleraRecovery ---------------------------
(***************************************************************************)
(* kolla-ansible mariadb_recovery (roles/mariadb/tasks/recover_cluster.yml)*)
(* on the hosts of one shard: the containers are stopped, every host's     *)
(* last position is read, the host with the largest one is bootstrapped    *)
(* and the others join it.  Ansible runs a task on every host before the   *)
(* next one, in any order of the hosts, and goes on without a host that    *)
(* has failed.  Galera is external: what it does with members that leave,  *)
(* crash and join is modelled as far as the play depends on it.            *)
(***************************************************************************)
EXTENDS Naturals, Sequences, FiniteSetsExt

CONSTANTS
    Shard,         \* groups[mariadb_shard_group]
    Gtids,         \* sets of hosts whose log may have more than a number as position
    MaxCommits,    \* transactions
    MaxCrashes,    \* crashes of a mariadb container
    MaxFailures    \* tasks that fail on a host (unreachable, API error)

None == "none"

ASSUME RecoveryAssumption ==
    /\ IsFiniteSet(Shard) /\ Shard # {} /\ None \notin Shard
    /\ Gtids \subseteq SUBSET Shard
    /\ MaxCommits \in Nat /\ MaxCrashes \in Nat /\ MaxFailures \in Nat

Undefined == [kind |-> "undefined", seqno |-> 0]   \* a fact that is not set

\* The tasks of the play that change something or decide something.
Play == <<"stop", "recover", "register", "compare", "read", "first", "slaves",
          "wait_slaves", "master", "wait_master">>

VARIABLES
    comp,        \* primary component of each member, 0 for none
    alive,       \* hosts whose mariadb container runs
    stopped,     \* hosts whose unit was stopped or removed: nothing restarts it
    seqno,       \* transactions on each host's disk
    head,        \* transactions of the primary component
    committed,   \* history: transactions some client was told are committed
    task,        \* index in Play, 0 between two plays
    done,        \* hosts that are through with the task
    failed,      \* hosts the play goes on without
    position,    \* position the play has appended to each host's log
    fact,        \* seqno fact of each host
    file,        \* mariadb_recover_tmp_file_path on the deployment host
    bootstrap_host,
    crashes, failures,
    gtid         \* hosts whose server logs a position as seqno,gtid: no number

galeraVars == <<comp, alive, stopped, seqno, head, committed>>
playVars == <<task, done, failed, position, fact, file, bootstrap_host>>
vars == <<galeraVars, playVars, crashes, failures, gtid>>

Members(c) == {h \in Shard : comp[h] = c}
Components == {comp[h] : h \in Shard} \ {0}

TypeOK ==
    /\ comp \in [Shard -> 0 .. Cardinality(Shard)]
    /\ alive \subseteq Shard /\ stopped \subseteq Shard
    /\ seqno \in [Shard -> 0 .. MaxCommits]
    /\ head \in 0 .. MaxCommits /\ committed \in 0 .. MaxCommits
    /\ task \in 0 .. Len(Play)
    /\ done \subseteq Shard /\ failed \subseteq Shard
    /\ file \in Shard \cup {None}
    /\ bootstrap_host \in [Shard -> Shard \cup {None}]
    /\ gtid \subseteq Shard
    /\ \A h \in Shard : comp[h] # 0 => h \in alive

Init ==
    /\ comp = [h \in Shard |-> 1]
    /\ alive = Shard
    /\ stopped = {}
    /\ seqno = [h \in Shard |-> 0]
    /\ head = 0 /\ committed = 0
    /\ task = 0 /\ done = {} /\ failed = {}
    /\ position = [h \in Shard |-> Undefined]
    /\ fact = [h \in Shard |-> Undefined]
    /\ file = None
    /\ bootstrap_host = [h \in Shard |-> None]
    /\ crashes = 0 /\ failures = 0
    /\ gtid \in Gtids

-----------------------------------------------------------------------------
(* Galera                                                                  *)

\* A transaction is ordered in the group; its client is told when the node it
\* runs on has it on disk.
Commit(h) ==
    /\ comp[h] # 0 /\ seqno[h] = head /\ head < MaxCommits
    /\ head' = head + 1
    /\ seqno' = [seqno EXCEPT ![h] = head + 1]
    /\ committed' = head + 1
    /\ UNCHANGED <<comp, alive, stopped, playVars, crashes, failures, gtid>>

\* The other members, which have received it, write it later.
Apply(h) ==
    /\ comp[h] # 0 /\ seqno[h] < head
    /\ seqno' = [seqno EXCEPT ![h] = @ + 1]
    /\ UNCHANGED <<comp, alive, stopped, head, committed, playVars, crashes, failures, gtid>>

\* Without a majority of its last members a component is no longer primary.
Crash(h) ==
    /\ h \in alive /\ crashes < MaxCrashes
    /\ crashes' = crashes + 1
    /\ alive' = alive \ {h}
    /\ LET rest == Members(comp[h]) \ {h}
           lost == comp[h] # 0 /\ 2 * Cardinality(rest) <= Cardinality(Members(comp[h]))
       IN  comp' = [g \in Shard |->
                      IF g = h \/ (lost /\ g \in rest) THEN 0 ELSE comp[g]]
    /\ UNCHANGED <<stopped, seqno, head, committed, playVars, failures, gtid>>

\* systemd restarts what it was not told to stop.
UnitRestarts(h) ==
    /\ h \notin alive /\ h \notin stopped
    /\ alive' = alive \cup {h}
    /\ UNCHANGED <<comp, stopped, seqno, head, committed, playVars, crashes, failures, gtid>>

\* A member joins the primary component it finds, with a state transfer.
Join(h) ==
    /\ h \in alive /\ comp[h] = 0
    /\ \E c \in Components : comp' = [comp EXCEPT ![h] = c]
    /\ seqno' = [seqno EXCEPT ![h] = head]
    /\ UNCHANGED <<alive, stopped, head, committed, playVars, crashes, failures, gtid>>

-----------------------------------------------------------------------------
(* The play                                                                *)

Runs(name, h) == task # 0 /\ Play[task] = name /\ h \in Shard \ (done \cup failed)
Quiet == UNCHANGED <<galeraVars, crashes, failures, gtid>>
Succeeds(h) == done' = done \cup {h} /\ UNCHANGED <<task, failed>>
Fails(h) == failed' = failed \cup {h} /\ UNCHANGED <<task, done>>

\* The operator runs the play when there is no cluster; the file of an earlier
\* play is cleaned up.
StartPlay ==
    /\ task = 0 /\ Components = {}
    /\ task' = 1
    /\ file' = None
    /\ UNCHANGED <<done, failed, position, fact, bootstrap_host>>
    /\ Quiet

LastTask == failed = Shard \/ task = Len(Play)

\* The next task.
NextTask ==
    /\ task # 0 /\ done \cup failed = Shard /\ ~LastTask
    /\ task' = task + 1
    /\ done' = {}
    /\ UNCHANGED <<failed, position, fact, file, bootstrap_host>>
    /\ Quiet

\* The end of the play, which its facts do not outlive.  The positions in the logs
\* are read no more: a later play reads only what it has appended itself.
EndPlay ==
    /\ task # 0 /\ done \cup failed = Shard /\ LastTask
    /\ task' = 0 /\ done' = {} /\ failed' = {}
    /\ position' = [h \in Shard |-> Undefined]
    /\ fact' = [h \in Shard |-> Undefined]
    /\ bootstrap_host' = [h \in Shard |-> None]
    /\ UNCHANGED file
    /\ Quiet

\* A task fails on a host without having done anything.
TaskFails(h) ==
    /\ task # 0 /\ h \in Shard \ (done \cup failed)
    /\ failures < MaxFailures
    /\ failures' = failures + 1
    /\ Fails(h)
    /\ UNCHANGED <<galeraVars, position, fact, file, bootstrap_host, crashes, gtid>>

\* Stop MariaDB containers: a member that is stopped leaves in good order.  An
\* exited container is left alone, though its unit may be about to restart it, and
\* a unit that refuses to stop leaves the member running; the task succeeds.
Stop(h) ==
    /\ Runs("stop", h)
    /\ \/ /\ h \in alive
          /\ comp' = [comp EXCEPT ![h] = 0]
          /\ alive' = alive \ {h}
          /\ stopped' = stopped \cup {h}
          /\ UNCHANGED failures
       \/ /\ h \notin alive
          /\ UNCHANGED <<comp, alive, stopped, failures>>
       \/ /\ h \in alive \ stopped
          /\ failures < MaxFailures
          /\ failures' = failures + 1
          /\ UNCHANGED <<comp, alive, stopped>>
    /\ Succeeds(h)
    /\ UNCHANGED <<seqno, head, committed, position, fact, file, bootstrap_host,
                   crashes, gtid>>

\* What the server logs after "Recovered position: <UUID>:".
Recovered(h) == [kind |-> IF h \in gtid THEN "text" ELSE "number", seqno |-> seqno[h]]

\* Run MariaDB wsrep recovery, which appends the position to the log, unless a
\* member that runs on the same volume keeps it from the files.
WsrepRecover(h) ==
    /\ Runs("recover", h)
    /\ \/ /\ position' = [position EXCEPT ![h] = Recovered(h)]
          /\ Succeeds(h)
       \/ /\ h \in alive
          /\ UNCHANGED position
          /\ Fails(h)
    /\ UNCHANGED <<fact, file, bootstrap_host>>
    /\ Quiet

\* Get MariaDB wsrep recovery seqno, Registering MariaDB seqno variable
Register(h) ==
    /\ Runs("register", h)
    /\ fact' = [fact EXCEPT ![h] = position[h]]
    /\ Succeeds(h)
    /\ UNCHANGED <<position, file, bootstrap_host>>
    /\ Quiet

\* Fault: -le for -lt, by which no host is ahead of itself.
LessOrEqual(a, b) == a.kind = "number" /\ b.kind = "number" /\ a.seqno <= b.seqno

\* The test of the shell task: both are numbers and the first is smaller.
Less(a, b) == a.kind = "number" /\ b.kind = "number" /\ a.seqno < b.seqno

\* Fault: hosts without the fact are left out of the comparison.
CompareReachable(h) ==
    /\ Runs("compare", h)
    /\ file' = IF \E item \in Shard : Less(fact[h], fact[item]) THEN file ELSE h
    /\ Succeeds(h)
    /\ UNCHANGED <<position, fact, bootstrap_host>>
    /\ Quiet

\* Comparing seqno value on all mariadb hosts, Writing hostname of host with the
\* largest seqno to temp file.  A host of the group without the fact makes the
\* template of every other host fail.
Compare(h) ==
    /\ Runs("compare", h)
    /\ IF \E item \in Shard : fact[item] = Undefined
         THEN Fails(h) /\ UNCHANGED file
         ELSE /\ file' = IF \E item \in Shard : Less(fact[h], fact[item]) THEN file ELSE h
              /\ Succeeds(h)
    /\ UNCHANGED <<position, fact, bootstrap_host>>
    /\ Quiet

\* Fault: a host that is behind no other takes itself, not what the file says.
ReadOwn(h) ==
    /\ Runs("read", h)
    /\ bootstrap_host' = [bootstrap_host EXCEPT ![h] =
                            IF \E item \in Shard : Less(fact[h], fact[item]) THEN file ELSE h]
    /\ Succeeds(h)
    /\ UNCHANGED <<position, fact, file>>
    /\ Quiet

\* Registering mariadb_recover_inventory_name from temp file
Read(h) ==
    /\ Runs("read", h)
    /\ IF file = None
         THEN Fails(h) /\ UNCHANGED bootstrap_host
         ELSE bootstrap_host' = [bootstrap_host EXCEPT ![h] = file] /\ Succeeds(h)
    /\ UNCHANGED <<position, fact, file>>
    /\ Quiet

\* Fault: a host is made primary without having been started.
FirstUnstarted(h) ==
    /\ Runs("first", h)
    /\ comp' = [comp EXCEPT ![h] = IF bootstrap_host[h] = h THEN 1 ELSE @]
    /\ head' = IF bootstrap_host[h] = h THEN seqno[h] ELSE head
    /\ Succeeds(h)
    /\ UNCHANGED <<alive, stopped, seqno, committed, position, fact, file,
                   bootstrap_host, crashes, failures, gtid>>

\* A container with --wsrep-new-cluster is a primary component of its own.
NewCluster(h) ==
    /\ comp' = [comp EXCEPT ![h] =
                  CHOOSE c \in 1 .. Cardinality(Shard) : c \notin Components]
    /\ head' = seqno[h]
    /\ alive' = alive \cup {h}

\* grastate.dat, Starting first MariaDB container, and the tasks that make it
\* primary.  The container is oneshot: the unit is gone.
First(h) ==
    /\ Runs("first", h)
    /\ IF bootstrap_host[h] = h
         THEN NewCluster(h) /\ stopped' = stopped \cup {h}
         ELSE UNCHANGED <<comp, head, alive, stopped>>
    /\ Succeeds(h)
    /\ UNCHANGED <<seqno, committed, position, fact, file, bootstrap_host,
                   crashes, failures, gtid>>

\* One of these tasks fails half way: the old container is gone, or the new one is
\* there, primary or not.
FirstFails(h) ==
    /\ Runs("first", h) /\ bootstrap_host[h] = h
    /\ failures < MaxFailures
    /\ failures' = failures + 1
    /\ \/ NewCluster(h)
       \/ alive' \in {alive \cup {h}, alive \ {h}} /\ UNCHANGED <<comp, head>>
    /\ stopped' = stopped \cup {h}
    /\ Fails(h)
    /\ UNCHANGED <<seqno, committed, position, fact, file, bootstrap_host, crashes, gtid>>

\* Restart slave MariaDB container(s)
Slaves(h) ==
    /\ Runs("slaves", h)
    /\ IF bootstrap_host[h] # h
         THEN alive' = alive \cup {h} /\ stopped' = stopped \ {h}
         ELSE UNCHANGED <<alive, stopped>>
    /\ Succeeds(h)
    /\ UNCHANGED <<comp, seqno, head, committed, position, fact, file,
                   bootstrap_host, crashes, failures, gtid>>

\* Wait for slave MariaDB, Wait for master mariadb: the port answers once the
\* host is a member; where there is nothing to join, the retries run out.
Wait(name, h, waits) ==
    /\ Runs(name, h)
    /\ \/ (~waits \/ comp[h] # 0) /\ Succeeds(h)
       \/ waits /\ Components = {} /\ Fails(h)
    /\ UNCHANGED <<position, fact, file, bootstrap_host>>
    /\ Quiet

\* Restart master MariaDB container(s): it leaves and has to join the others.
Master(h) ==
    /\ Runs("master", h)
    /\ IF bootstrap_host[h] = h
         THEN /\ comp' = [comp EXCEPT ![h] = 0]
              /\ alive' = alive \cup {h}
              /\ stopped' = stopped \ {h}
         ELSE UNCHANGED <<comp, alive, stopped>>
    /\ Succeeds(h)
    /\ UNCHANGED <<seqno, head, committed, position, fact, file, bootstrap_host,
                   crashes, failures, gtid>>

PlayStep ==
    \/ NextTask \/ EndPlay
    \/ \E h \in Shard :
          \/ Stop(h) \/ WsrepRecover(h) \/ Register(h) \/ Compare(h) \/ Read(h)
          \/ First(h) \/ FirstFails(h) \/ Slaves(h) \/ Master(h)
          \/ Wait("wait_slaves", h, bootstrap_host[h] # h)
          \/ Wait("wait_master", h, bootstrap_host[h] = h)

GaleraStep(h) == Commit(h) \/ Apply(h) \/ UnitRestarts(h) \/ Join(h)

Next ==
    \/ StartPlay
    \/ PlayStep
    \/ \E h \in Shard : GaleraStep(h) \/ Crash(h) \/ TaskFails(h)

Spec == Init /\ [][Next]_vars

\* The operator recovers a cluster that is down, Ansible goes on, and a node that
\* has a cluster to join joins it.
FairSpec ==
    /\ Spec
    /\ WF_vars(StartPlay)
    /\ WF_vars(PlayStep)
    /\ \A h \in Shard : WF_vars(UnitRestarts(h)) /\ WF_vars(Join(h))

-----------------------------------------------------------------------------
(* Properties                                                              *)

\* There are never two primary components, whichever members the play left running
\* or their units brought back, and whatever crashes meanwhile.
OnePrimary == Cardinality(Components) <= 1

\* Where every host logs its position as a number, a primary component has every
\* transaction a client was told is committed: the host that is bootstrapped has the
\* largest position of all hosts of the group, those that failed on the way included.
NothingCommittedLost ==
    gtid = {} => \A h \in Shard : comp[h] # 0 => head >= committed

\* All hosts of the play agree on the host that is bootstrapped.
HostsAgree ==
    \A g, h \in Shard : bootstrap_host[g] # None /\ bootstrap_host[h] # None
                            => bootstrap_host[g] = bootstrap_host[h]

\* "Writing hostname of host with the largest seqno to temp file": when all hosts
\* have compared, the last one to write has the largest position of the group.  A
\* position that is no number is smaller than none, and its host writes its name.
LargestIsWritten ==
    gtid = {} /\ task # 0 /\ Play[task] = "read" /\ file # None
        => \A h \in Shard : seqno[h] <= seqno[file]

\* The recovery bootstraps one host: all hosts read the same name from the file, it
\* is that of a host with the largest position if all positions are numbers, and
\* there are never two primary components, whichever members a successful stop has
\* left running or their units have brought back.
OneBootstrap == OnePrimary /\ HostsAgree /\ LargestIsWritten

\* Once crashes and failures have come to an end, there is a cluster again.
ClusterReturns == <>[](Components # {})

=============================================================================
