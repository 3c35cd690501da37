---------------------------- MODULE PlaysProofs ----------------------------
(***************************************************************************)
(* Proofs about GaleraRecovery, for every shard and every number of        *)
(* transactions, crashes and failures, and about GlanceUpgrade, for every  *)
(* number of hosts and of failures.                                        *)
(***************************************************************************)
EXTENDS GaleraRecovery, GlanceUpgrade, FiniteSetTheorems, WellFoundedInduction, TLAPS

-----------------------------------------------------------------------------
(* The recovery of a Galera cluster.                                       *)

\* TypeOK, and that every host has a position and a fact.
RecoveryTyped ==
    /\ comp \in [Shard -> 0 .. Cardinality(Shard)]
    /\ alive \subseteq Shard /\ stopped \subseteq Shard
    /\ seqno \in [Shard -> 0 .. MaxCommits]
    /\ head \in 0 .. MaxCommits /\ committed \in 0 .. MaxCommits
    /\ task \in 0 .. 10
    /\ done \subseteq Shard /\ failed \subseteq Shard
    /\ DOMAIN position = Shard /\ DOMAIN fact = Shard
    /\ position = [h \in Shard |-> position[h]]
    /\ fact = [h \in Shard |-> fact[h]]
    /\ file \in Shard \cup {None}
    /\ bootstrap_host \in [Shard -> Shard \cup {None}]
    /\ gtid \subseteq Shard
    /\ \A h \in Shard : comp[h] # 0 => h \in alive

\* There is one primary component.
OneComponent == \A g, h \in Shard : comp[g] # 0 /\ comp[h] # 0 => comp[g] = comp[h]

\* Nothing of a play outlives it but the file.
BetweenPlays ==
    task = 0 => /\ done = {} /\ failed = {}
                /\ \A h \in Shard : fact[h] = Undefined /\ bootstrap_host[h] = None

\* No component is there before the first container of a play is started, which
\* is tried once, on the host of the file.
NoneBeforeFirst ==
    task \in 1 .. 6 /\ (task = 6 => file \notin done \cup failed) => \A h \in Shard : comp[h] = 0

\* What a host has read from the file is still what the file says, and is not
\* older than the play.
ReadFromFile ==
    /\ \A h \in Shard : bootstrap_host[h] \in {None, file}
    /\ task \in 1 .. 4 => \A h \in Shard : bootstrap_host[h] = None

\* Positions and facts are what is on the disks, of those hosts that have come so
\* far in this play.
PositionsCurrent ==
    /\ task = 2 => \A h \in done : position[h] = Recovered(h)
    /\ task = 3 => \A h \in Shard \ failed : position[h] = Recovered(h)
    /\ task \in 1 .. 5 => \A h \in Shard : fact[h] \in {Undefined, Recovered(h)}

\* The file names a host with the largest position until that host is started, if
\* positions are numbers.
FileLargest ==
    gtid = {} /\ task \in 1 .. 6 /\ (task = 6 => file \notin done \cup failed) /\ file # None
        => \A h \in Shard : seqno[h] <= seqno[file]

\* What was committed is on some disk, if positions are numbers.
OnSomeDisk == gtid = {} => \E h \in Shard : seqno[h] >= committed

\* The inductive invariant.
RecoveryInv ==
    /\ RecoveryTyped /\ BetweenPlays /\ OneComponent /\ NoneBeforeFirst /\ ReadFromFile
    /\ PositionsCurrent /\ FileLargest /\ OnSomeDisk /\ NothingCommittedLost

\* The tasks and their numbers.
LEMMA PlayTasks ==
    ASSUME RecoveryTyped, NEW h \in Shard
    PROVE  /\ Len(Play) = 10
           /\ Runs("stop", h) => task = 1
           /\ Runs("recover", h) => task = 2
           /\ Runs("register", h) => task = 3
           /\ Runs("compare", h) => task = 4
           /\ Runs("read", h) => task = 5
           /\ Runs("first", h) => task = 6
           /\ Runs("slaves", h) => task = 7
           /\ Runs("wait_slaves", h) => task = 8
           /\ Runs("master", h) => task = 9
           /\ Runs("wait_master", h) => task = 10
<1>1. task \in {0, 1, 2, 3, 4, 5, 6, 7, 8, 9, 10}
  BY DEF RecoveryTyped
<1> QED
  BY <1>1 DEF Play, Runs

\* The shard has a number of hosts, and at least one.
LEMMA ShardCounts == Cardinality(Shard) \in Nat \ {0}
BY RecoveryAssumption, FS_CardinalityType, FS_EmptySet

\* With the types, Components is empty when no host has a component.
LEMMA NoComponents ==
    ASSUME RecoveryTyped
    PROVE  Components = {} <=> \A h \in Shard : comp[h] = 0
BY DEF Components, RecoveryTyped

\* The cluster starts in one component, and no play runs.
LEMMA RecoveryInit == Init => RecoveryInv
<1> SUFFICES ASSUME Init PROVE RecoveryInv
  OBVIOUS
<1>1. RecoveryTyped
  BY RecoveryAssumption, ShardCounts DEF Init, RecoveryTyped
<1>2. OnSomeDisk
  BY RecoveryAssumption DEF Init, OnSomeDisk
<1> QED
  BY <1>1, <1>2 DEF Init, RecoveryInv, BetweenPlays, OneComponent, NoneBeforeFirst, ReadFromFile,
     PositionsCurrent, FileLargest, NothingCommittedLost

-----------------------------------------------------------------------------
(* Steps of Galera                                                         *)

\* A write raises the position of a member and the last committed one together.
LEMMA CommitKeeps ==
    ASSUME RecoveryInv, NEW h \in Shard, Commit(h)
    PROVE  RecoveryInv'
<1> USE DEF RecoveryInv, Commit, playVars
<1>1. RecoveryTyped'
  BY RecoveryAssumption DEF RecoveryTyped
<1>2. task \in 1 .. 6 => task = 6 /\ file \in done \cup failed
  BY DEF RecoveryTyped, NoneBeforeFirst
<1>3. BetweenPlays' /\ OneComponent' /\ NoneBeforeFirst' /\ ReadFromFile' /\ FileLargest'
  BY <1>2 DEF RecoveryTyped, BetweenPlays, OneComponent, NoneBeforeFirst, ReadFromFile, FileLargest
<1>4. PositionsCurrent'
  BY <1>2 DEF PositionsCurrent, RecoveryTyped
<1>5. OnSomeDisk' /\ NothingCommittedLost'
  BY DEF OnSomeDisk, NothingCommittedLost, RecoveryTyped
<1> QED
  BY <1>1, <1>3, <1>4, <1>5

\* A member that applies a write set gets no further than what is committed.
LEMMA ApplyKeeps ==
    ASSUME RecoveryInv, NEW h \in Shard, Apply(h)
    PROVE  RecoveryInv'
<1> USE DEF RecoveryInv, Apply, playVars
<1>1. RecoveryTyped'
  BY RecoveryAssumption DEF RecoveryTyped
<1>2. task \in 1 .. 6 => task = 6 /\ file \in done \cup failed
  BY DEF RecoveryTyped, NoneBeforeFirst
<1>3. BetweenPlays' /\ OneComponent' /\ NoneBeforeFirst' /\ ReadFromFile' /\ FileLargest'
  BY <1>2 DEF RecoveryTyped, BetweenPlays, OneComponent, NoneBeforeFirst, ReadFromFile, FileLargest
<1>4. PositionsCurrent'
  BY <1>2 DEF PositionsCurrent, RecoveryTyped
<1>5. OnSomeDisk' /\ NothingCommittedLost'
  BY DEF OnSomeDisk, NothingCommittedLost, RecoveryTyped
<1> QED
  BY <1>1, <1>3, <1>4, <1>5

\* A crash takes members out of the component.
LEMMA CrashKeeps ==
    ASSUME RecoveryInv, NEW h \in Shard, Crash(h)
    PROVE  RecoveryInv'
<1> USE DEF RecoveryInv, Crash, playVars
<1>1. /\ comp' \in [Shard -> 0 .. Cardinality(Shard)]
      /\ \A g \in Shard : comp'[g] \in {0, comp[g]}
      /\ comp'[h] = 0
  BY ShardCounts DEF RecoveryTyped
<1>2. RecoveryTyped'
  BY <1>1 DEF RecoveryTyped
<1>3. BetweenPlays' /\ OneComponent' /\ NoneBeforeFirst' /\ ReadFromFile' /\ FileLargest'
  BY <1>1 DEF BetweenPlays, OneComponent, NoneBeforeFirst, ReadFromFile, FileLargest
<1>4. PositionsCurrent'
  BY DEF PositionsCurrent, Recovered
<1>5. OnSomeDisk' /\ NothingCommittedLost'
  BY <1>1 DEF OnSomeDisk, NothingCommittedLost
<1> QED
  BY <1>2, <1>3, <1>4, <1>5

\* systemd starts a container: it is in no component yet.
LEMMA UnitRestartsKeeps ==
    ASSUME RecoveryInv, NEW h \in Shard, UnitRestarts(h)
    PROVE  RecoveryInv'
BY DEF RecoveryInv, UnitRestarts, playVars, RecoveryTyped, BetweenPlays, OneComponent,
       NoneBeforeFirst, ReadFromFile, PositionsCurrent, Recovered, FileLargest, OnSomeDisk,
       NothingCommittedLost

\* A joining host takes the state of a component that has what was committed.
LEMMA JoinKeeps ==
    ASSUME RecoveryInv, NEW h \in Shard, Join(h)
    PROVE  RecoveryInv'
<1> USE DEF RecoveryInv, Join, playVars
<1>1. PICK g \in Shard : comp[g] # 0 /\ comp' = [comp EXCEPT ![h] = comp[g]]
  BY DEF Components
<1>2. RecoveryTyped'
  BY <1>1 DEF RecoveryTyped
<1>3. task \in 1 .. 6 => task = 6 /\ file \in done \cup failed
  BY <1>1 DEF RecoveryTyped, NoneBeforeFirst
<1>4. BetweenPlays' /\ OneComponent' /\ NoneBeforeFirst' /\ ReadFromFile' /\ FileLargest'
  BY <1>1, <1>3 DEF RecoveryTyped, BetweenPlays, OneComponent, NoneBeforeFirst, ReadFromFile, FileLargest
<1>5. PositionsCurrent'
  BY <1>3 DEF PositionsCurrent, RecoveryTyped
<1>6. gtid = {} => head >= committed
  BY <1>1 DEF NothingCommittedLost
<1>7. OnSomeDisk' /\ NothingCommittedLost'
  BY <1>1, <1>6 DEF OnSomeDisk, NothingCommittedLost, RecoveryTyped
<1> QED
  BY <1>2, <1>4, <1>5, <1>7

-----------------------------------------------------------------------------
(* Steps of the play                                                       *)

\* The play starts when there is no component, with no facts; logged positions stay.
LEMMA StartPlayKeeps ==
    ASSUME RecoveryInv, StartPlay
    PROVE  RecoveryInv'
<1> USE DEF RecoveryInv, StartPlay, Quiet, galeraVars
<1>1. RecoveryTyped'
  BY DEF RecoveryTyped
<1>2. \A h \in Shard : comp[h] = 0
  BY NoComponents
<1>3. BetweenPlays' /\ OneComponent' /\ NoneBeforeFirst' /\ ReadFromFile' /\ FileLargest'
  BY <1>2 DEF BetweenPlays, OneComponent, NoneBeforeFirst, ReadFromFile, FileLargest
<1>4. PositionsCurrent'
  BY DEF PositionsCurrent, BetweenPlays
<1>5. OnSomeDisk' /\ NothingCommittedLost'
  BY DEF OnSomeDisk, NothingCommittedLost
<1> QED
  BY <1>1, <1>3, <1>4, <1>5

\* All hosts that have not failed are through with the task.
LEMMA NextTaskKeeps ==
    ASSUME RecoveryInv, NextTask
    PROVE  RecoveryInv'
<1> USE DEF RecoveryInv, NextTask, Quiet, galeraVars
<1>0. Len(Play) = 10
  BY RecoveryAssumption, PlayTasks
<1>1. RecoveryTyped'
  BY <1>0 DEF RecoveryTyped, LastTask
<1>2. task \in 1 .. 9 /\ task' = task + 1
  BY <1>0 DEF RecoveryTyped, LastTask
<1>3. BetweenPlays' /\ OneComponent' /\ NoneBeforeFirst' /\ ReadFromFile' /\ FileLargest'
  BY <1>2 DEF RecoveryTyped, BetweenPlays, OneComponent, NoneBeforeFirst, ReadFromFile, FileLargest
<1>4. PositionsCurrent'
  <2>1. \A h \in Shard : Recovered(h)' = Recovered(h)
    BY DEF Recovered
  <2>2. task' = 2 => \A h \in done' : position'[h] = Recovered(h)'
    OBVIOUS
  <2>3. task' = 3 => \A h \in Shard \ failed' : position'[h] = Recovered(h)'
    BY <1>2, <2>1 DEF PositionsCurrent
  <2>4. task' \in 1 .. 5 => \A h \in Shard : fact'[h] \in {Undefined, Recovered(h)'}
    BY <1>2, <2>1 DEF PositionsCurrent
  <2> QED
    BY <2>2, <2>3, <2>4 DEF PositionsCurrent
<1>5. OnSomeDisk' /\ NothingCommittedLost'
  BY DEF OnSomeDisk, NothingCommittedLost
<1> QED
  BY <1>1, <1>3, <1>4, <1>5

\* After the last task nothing is known of the play.
LEMMA EndPlayKeeps ==
    ASSUME RecoveryInv, EndPlay
    PROVE  RecoveryInv'
<1> USE DEF RecoveryInv, EndPlay, Quiet, galeraVars
<1>1. RecoveryTyped'
  BY DEF RecoveryTyped
<1>2. BetweenPlays' /\ OneComponent' /\ NoneBeforeFirst' /\ ReadFromFile' /\ FileLargest'
  BY DEF BetweenPlays, OneComponent, NoneBeforeFirst, ReadFromFile, FileLargest
<1>3. PositionsCurrent' /\ OnSomeDisk' /\ NothingCommittedLost'
  BY DEF PositionsCurrent, OnSomeDisk, NothingCommittedLost
<1> QED
  BY <1>1, <1>2, <1>3

\* A task that fails only takes its host out of the play.
LEMMA TaskFailsKeeps ==
    ASSUME RecoveryInv, NEW h \in Shard, TaskFails(h)
    PROVE  RecoveryInv'
BY DEF RecoveryInv, TaskFails, Fails, galeraVars, RecoveryTyped, BetweenPlays,
       OneComponent, NoneBeforeFirst, ReadFromFile, PositionsCurrent, Recovered, FileLargest, OnSomeDisk,
       NothingCommittedLost

\* Stopping takes a host out of its component or does nothing.
LEMMA StopKeeps ==
    ASSUME RecoveryInv, NEW h \in Shard, Stop(h)
    PROVE  RecoveryInv'
<1> USE DEF RecoveryInv, Stop, Succeeds
<1>1. task = 1
  BY PlayTasks
<1>2. RecoveryTyped'
  BY ShardCounts DEF RecoveryTyped
<1>3. BetweenPlays' /\ OneComponent' /\ NoneBeforeFirst' /\ ReadFromFile' /\ FileLargest'
  BY <1>1 DEF RecoveryTyped, BetweenPlays, OneComponent, NoneBeforeFirst, ReadFromFile, FileLargest
<1>4. PositionsCurrent'
  BY <1>1 DEF PositionsCurrent, Recovered
<1>5. OnSomeDisk' /\ NothingCommittedLost'
  BY DEF OnSomeDisk, NothingCommittedLost, RecoveryTyped
<1> QED
  BY <1>2, <1>3, <1>4, <1>5

\* A host that logs its position is in no component, so the position stays that of
\* its disk, also where the member runs.
LEMMA WsrepRecoverKeeps ==
    ASSUME RecoveryInv, NEW h \in Shard, WsrepRecover(h)
    PROVE  RecoveryInv'
<1> USE DEF RecoveryInv, WsrepRecover, Succeeds, Fails, Quiet, galeraVars
<1>1. task = 2
  BY PlayTasks
<1>2. RecoveryTyped'
  BY DEF RecoveryTyped
<1>3. BetweenPlays' /\ OneComponent' /\ NoneBeforeFirst' /\ ReadFromFile' /\ FileLargest'
  BY <1>1 DEF BetweenPlays, OneComponent, NoneBeforeFirst, ReadFromFile, FileLargest
<1>4. PositionsCurrent'
  <2>1. \A g \in Shard : Recovered(g)' = Recovered(g)
    BY DEF Recovered
  <2>2. \/ position' = [position EXCEPT ![h] = Recovered(h)] /\ done' = done \cup {h}
        \/ UNCHANGED <<position, done>>
    OBVIOUS
  <2> QED
    BY <1>1, <2>1, <2>2 DEF RecoveryTyped, PositionsCurrent
<1>5. OnSomeDisk' /\ NothingCommittedLost'
  BY DEF OnSomeDisk, NothingCommittedLost
<1> QED
  BY <1>2, <1>3, <1>4, <1>5

\* The fact of a host is what it logged in this play.
LEMMA RegisterKeeps ==
    ASSUME RecoveryInv, NEW h \in Shard, Register(h)
    PROVE  RecoveryInv'
<1> USE DEF RecoveryInv, Register, Succeeds, Quiet, galeraVars
<1>1. task = 3 /\ h \notin failed
  BY PlayTasks DEF Runs
<1>2. RecoveryTyped'
  BY DEF RecoveryTyped
<1>3. BetweenPlays' /\ OneComponent' /\ NoneBeforeFirst' /\ ReadFromFile' /\ FileLargest'
  BY <1>1 DEF BetweenPlays, OneComponent, NoneBeforeFirst, ReadFromFile, FileLargest
<1>4. PositionsCurrent'
  <2>1. \A g \in Shard : Recovered(g)' = Recovered(g)
    BY DEF Recovered
  <2> QED
    BY <1>1, <2>1 DEF RecoveryTyped, PositionsCurrent
<1>5. OnSomeDisk' /\ NothingCommittedLost'
  BY DEF OnSomeDisk, NothingCommittedLost
<1> QED
  BY <1>2, <1>3, <1>4, <1>5

\* The shell test compares positions as numbers.
LEMMA LessPositions ==
    gtid = {} => \A g, h \in Shard : Less(Recovered(g), Recovered(h)) <=> seqno[g] < seqno[h]
BY DEF Less, Recovered

\* Only when every host of the group has a fact is there a comparison, and the
\* facts are then the positions on all disks.
LEMMA CompareKeeps ==
    ASSUME RecoveryInv, NEW h \in Shard, Compare(h)
    PROVE  RecoveryInv'
<1> USE DEF RecoveryInv, Compare, Succeeds, Fails, Quiet, galeraVars
<1>1. task = 4
  BY PlayTasks
<1>2. RecoveryTyped'
  BY DEF RecoveryTyped
<1>3. BetweenPlays' /\ OneComponent' /\ NoneBeforeFirst' /\ ReadFromFile'
  BY <1>1 DEF BetweenPlays, OneComponent, NoneBeforeFirst, ReadFromFile
<1>4. PositionsCurrent'
  <2>1. \A g \in Shard : Recovered(g)' = Recovered(g)
    BY DEF Recovered
  <2> QED
    BY <1>1, <2>1 DEF RecoveryTyped, PositionsCurrent
<1>5. OnSomeDisk' /\ NothingCommittedLost'
  BY DEF OnSomeDisk, NothingCommittedLost
<1>6. FileLargest'
  <2>1. CASE file' = file
    BY <2>1, <1>1 DEF FileLargest
  <2>2. CASE file' # file /\ gtid = {}
    <3>0. gtid = {}
      BY <2>2
    <3>1. file' = h /\ \A item \in Shard : ~Less(fact[h], fact[item])
      BY <2>2
    <3>2. \A item \in Shard : fact[item] = Recovered(item)
      BY <1>1, <2>2 DEF PositionsCurrent
    <3>3. \A item \in Shard : ~(seqno[h] < seqno[item])
      BY <3>0, <3>1, <3>2, LessPositions
    <3>4. \A item \in Shard : seqno[item] <= seqno[h]
      BY <3>3 DEF RecoveryTyped
    <3> QED
      BY <3>1, <3>4 DEF FileLargest
  <2>3. CASE gtid # {}
    BY <2>3 DEF FileLargest
  <2> QED
    BY <2>1, <2>2, <2>3
<1> QED
  BY <1>2, <1>3, <1>4, <1>5, <1>6

\* What a host reads is what the last comparison wrote.
LEMMA ReadKeeps ==
    ASSUME RecoveryInv, NEW h \in Shard, Read(h)
    PROVE  RecoveryInv'
<1> USE DEF RecoveryInv, Read, Succeeds, Fails, Quiet, galeraVars
<1>1. task = 5
  BY PlayTasks
<1>2. RecoveryTyped'
  BY DEF RecoveryTyped
<1>3. BetweenPlays' /\ OneComponent' /\ NoneBeforeFirst' /\ ReadFromFile' /\ FileLargest'
  BY <1>1 DEF RecoveryTyped, BetweenPlays, OneComponent, NoneBeforeFirst, ReadFromFile, FileLargest
<1>4. PositionsCurrent'
  <2>1. \A g \in Shard : Recovered(g)' = Recovered(g)
    BY DEF Recovered
  <2> QED
    BY <1>1, <2>1 DEF RecoveryTyped, PositionsCurrent
<1>5. OnSomeDisk' /\ NothingCommittedLost'
  BY DEF OnSomeDisk, NothingCommittedLost
<1> QED
  BY <1>2, <1>3, <1>4, <1>5

\* A component comes into being where there is none, on the host of the file, which
\* has the largest position.
LEMMA NewClusterKeeps ==
    ASSUME RecoveryInv, NEW h \in Shard, NewCluster(h),
           task = 6, h \notin done \cup failed, bootstrap_host[h] = h,
           h \in done' \cup failed', UNCHANGED <<task, seqno, committed, file, gtid>>
    PROVE  /\ comp' \in [Shard -> 0 .. Cardinality(Shard)] /\ head' \in 0 .. MaxCommits
           /\ alive' \subseteq Shard
           /\ \A g \in Shard : comp'[g] # 0 => g \in alive'
           /\ OneComponent' /\ NoneBeforeFirst' /\ FileLargest' /\ NothingCommittedLost'
<1> USE DEF RecoveryInv, NewCluster
<1>1. file = h /\ file # None
  BY RecoveryAssumption DEF ReadFromFile
<1>2. \A g \in Shard : comp[g] = 0
  BY <1>1 DEF NoneBeforeFirst
<1>3. PICK c \in 1 .. Cardinality(Shard) : comp' = [comp EXCEPT ![h] = c]
  <2>1. Components = {}
    BY <1>2, NoComponents
  <2>2. 1 \in 1 .. Cardinality(Shard) /\ 1 \notin Components
    BY <2>1, ShardCounts
  <2> QED
    BY <2>2
<1>4. /\ comp' \in [Shard -> 0 .. Cardinality(Shard)] /\ head' \in 0 .. MaxCommits
      /\ alive' \subseteq Shard
      /\ \A g \in Shard : comp'[g] # 0 => g \in alive'
  <2>1. head' = seqno[h] /\ alive' = alive \cup {h}
    OBVIOUS
  <2> HIDE DEF NewCluster
  <2> QED
    BY <1>2, <1>3, <2>1, ShardCounts DEF RecoveryTyped
<1>5. OneComponent' /\ NoneBeforeFirst' /\ FileLargest'
  BY <1>1, <1>2, <1>3 DEF RecoveryTyped, OneComponent, NoneBeforeFirst, FileLargest
<1>6. gtid = {} => seqno[h] >= committed
  <2>1. gtid = {} => \A g \in Shard : seqno[g] <= seqno[h]
    BY <1>1 DEF FileLargest
  <2> QED
    BY <2>1 DEF OnSomeDisk, RecoveryTyped
<1>7. NothingCommittedLost'
  BY <1>6 DEF NothingCommittedLost
<1> QED
  BY <1>4, <1>5, <1>7

\* The host of the file starts the first container; the others pass.
LEMMA FirstKeeps ==
    ASSUME RecoveryInv, NEW h \in Shard, First(h)
    PROVE  RecoveryInv'
<1> USE DEF RecoveryInv, First, Succeeds
<1>1. task = 6 /\ h \notin done \cup failed
  BY PlayTasks DEF Runs
<1>2. ReadFromFile' /\ PositionsCurrent' /\ OnSomeDisk' /\ BetweenPlays'
  BY <1>1 DEF ReadFromFile, PositionsCurrent, OnSomeDisk, BetweenPlays
<1>3. CASE bootstrap_host[h] # h
  <2>1. RecoveryTyped'
    BY <1>3 DEF RecoveryTyped
  <2>2. OneComponent' /\ NoneBeforeFirst' /\ FileLargest'
    BY <1>1, <1>3 DEF OneComponent, NoneBeforeFirst, FileLargest
  <2>3. NothingCommittedLost'
    BY <1>3 DEF NothingCommittedLost
  <2> QED
    BY <1>2, <2>1, <2>2, <2>3
<1>4. CASE bootstrap_host[h] = h
  <2>1. /\ comp' \in [Shard -> 0 .. Cardinality(Shard)] /\ head' \in 0 .. MaxCommits
        /\ alive' \subseteq Shard
        /\ \A g \in Shard : comp'[g] # 0 => g \in alive'
        /\ OneComponent' /\ NoneBeforeFirst' /\ FileLargest' /\ NothingCommittedLost'
    BY <1>1, <1>4, NewClusterKeeps
  <2>2. RecoveryTyped'
    BY <1>4, <2>1 DEF RecoveryTyped
  <2> QED
    BY <1>2, <2>1, <2>2
<1> QED
  BY <1>3, <1>4

\* ... or fails to: there may be a component, and the host is out of the play.
LEMMA FirstFailsKeeps ==
    ASSUME RecoveryInv, NEW h \in Shard, FirstFails(h)
    PROVE  RecoveryInv'
<1> USE DEF RecoveryInv, FirstFails, Fails
<1>1. task = 6 /\ h \notin done \cup failed
  BY PlayTasks DEF Runs
<1>2. ReadFromFile' /\ PositionsCurrent' /\ OnSomeDisk' /\ BetweenPlays'
  BY <1>1 DEF ReadFromFile, PositionsCurrent, OnSomeDisk, BetweenPlays
<1>3. CASE UNCHANGED <<comp, head>>
  <2>1. file = h
    BY RecoveryAssumption DEF ReadFromFile
  <2>2. comp[h] = 0
    BY <1>1, <2>1 DEF NoneBeforeFirst
  <2>3. RecoveryTyped'
    <3>1. alive' \subseteq Shard /\ \A g \in Shard \ {h} : g \in alive => g \in alive'
      BY DEF RecoveryTyped, NewCluster
    <3> QED
      BY <1>3, <2>2, <3>1 DEF RecoveryTyped
  <2>4. OneComponent' /\ NoneBeforeFirst' /\ FileLargest'
    BY <1>1, <1>3 DEF OneComponent, NoneBeforeFirst, FileLargest
  <2>5. NothingCommittedLost'
    BY <1>3 DEF NothingCommittedLost
  <2> QED
    BY <1>2, <2>3, <2>4, <2>5
<1>4. CASE NewCluster(h)
  <2>1. /\ comp' \in [Shard -> 0 .. Cardinality(Shard)] /\ head' \in 0 .. MaxCommits
        /\ alive' \subseteq Shard
        /\ \A g \in Shard : comp'[g] # 0 => g \in alive'
        /\ OneComponent' /\ NoneBeforeFirst' /\ FileLargest' /\ NothingCommittedLost'
    BY <1>1, <1>4, NewClusterKeeps
  <2>2. RecoveryTyped'
    BY <1>4, <2>1 DEF RecoveryTyped
  <2> QED
    BY <1>2, <2>1, <2>2
<1> QED
  BY <1>3, <1>4

\* After the first container, the play starts and restarts hosts and waits.
LEMMA LaterTasksKeep ==
    ASSUME RecoveryInv, NEW h \in Shard,
           \/ Slaves(h) \/ Master(h)
           \/ Wait("wait_slaves", h, bootstrap_host[h] # h)
           \/ Wait("wait_master", h, bootstrap_host[h] = h)
    PROVE  RecoveryInv'
<1> USE DEF RecoveryInv, Slaves, Master, Wait, Succeeds, Fails, Quiet, galeraVars
<1>1. task \in 7 .. 10 /\ task' = task
  BY PlayTasks DEF RecoveryTyped
<1>2. /\ UNCHANGED <<seqno, head, committed, position, fact, file, bootstrap_host>>
      /\ RecoveryTyped'
      /\ \A g \in Shard : comp'[g] \in {0, comp[g]}
  BY ShardCounts DEF RecoveryTyped
<1>3. BetweenPlays' /\ OneComponent' /\ NoneBeforeFirst' /\ ReadFromFile' /\ FileLargest'
  BY <1>1, <1>2 DEF BetweenPlays, OneComponent, NoneBeforeFirst, ReadFromFile, FileLargest
<1>4. PositionsCurrent' /\ OnSomeDisk' /\ NothingCommittedLost'
  BY <1>1, <1>2 DEF PositionsCurrent, OnSomeDisk, NothingCommittedLost
<1> QED
  BY <1>2, <1>3, <1>4

-----------------------------------------------------------------------------
\* Every step keeps the invariant.
LEMMA RecoveryNext == RecoveryInv /\ [Next]_vars => RecoveryInv'
<1> SUFFICES ASSUME RecoveryInv, [Next]_vars
             PROVE  RecoveryInv'
  OBVIOUS
<1>1. CASE StartPlay
  BY <1>1, StartPlayKeeps
<1>2. CASE NextTask \/ EndPlay
  BY <1>2, NextTaskKeeps, EndPlayKeeps
<1>3. ASSUME NEW h \in Shard,
             \/ Stop(h) \/ WsrepRecover(h) \/ Register(h) \/ Compare(h) \/ Read(h)
             \/ First(h) \/ FirstFails(h) \/ Slaves(h) \/ Master(h)
             \/ Wait("wait_slaves", h, bootstrap_host[h] # h)
             \/ Wait("wait_master", h, bootstrap_host[h] = h)
      PROVE  RecoveryInv'
  BY <1>3, StopKeeps, WsrepRecoverKeeps, RegisterKeeps, CompareKeeps, ReadKeeps,
     FirstKeeps, FirstFailsKeeps, LaterTasksKeep
<1>4. ASSUME NEW h \in Shard, GaleraStep(h) \/ Crash(h) \/ TaskFails(h)
      PROVE  RecoveryInv'
  BY <1>4, CommitKeeps, ApplyKeeps, UnitRestartsKeeps, JoinKeeps, CrashKeeps,
     TaskFailsKeeps DEF GaleraStep
<1>5. CASE UNCHANGED vars
  BY <1>5 DEF vars, galeraVars, playVars, RecoveryInv, RecoveryTyped, BetweenPlays,
     OneComponent, NoneBeforeFirst, ReadFromFile, PositionsCurrent, Recovered, FileLargest,
     OnSomeDisk, NothingCommittedLost
<1> QED
  BY <1>1, <1>2, <1>3, <1>4, <1>5 DEF Next, PlayStep

\* The invariant of the recovery.
LEMMA RecoveryInvariant == Spec => []RecoveryInv
BY RecoveryInit, RecoveryNext, PTL DEF Spec

\* The types of the variables; a member of a component has a running container.
THEOREM RecoveryTypeCorrect == Spec => []TypeOK
<1>1. RecoveryInv => TypeOK
  BY DEF RecoveryInv, RecoveryTyped, TypeOK, Play
<1> QED
  BY <1>1, RecoveryInvariant, PTL

\* Where every host logs its position as a number, the cluster that comes back has
\* every transaction a client was told is committed (recover_cluster.yml, "Comparing
\* seqno value on all mariadb hosts"), whichever hosts crash, restart, are not
\* stopped or fail a task on the way.
THEOREM RecoveryLosesNothing == Spec => []NothingCommittedLost
<1>1. RecoveryInv => NothingCommittedLost
  BY DEF RecoveryInv
<1> QED
  BY <1>1, RecoveryInvariant, PTL

\* One component at most has members: at most one element in Components.
LEMMA ComponentsCount ==
    ASSUME RecoveryTyped, OneComponent
    PROVE  OnePrimary
<1>1. CASE Components = {}
  BY <1>1, FS_EmptySet DEF OnePrimary
<1>2. CASE Components # {}
  <2>1. PICK c \in Components : TRUE
    BY <1>2
  <2>2. Components = {c}
    BY <2>1 DEF Components, OneComponent
  <2> QED
    BY <2>2, FS_Singleton DEF OnePrimary
<1> QED
  BY <1>1, <1>2

\* There is one bootstrap at a time: every host reads the same name, it is that of
\* a host with the largest position if all positions are numbers, and no second
\* component comes into being, also when a stop that reported success has left a
\* member running, its unit has brought it back, or the first container's tasks fail
\* half way.
THEOREM RecoveryBootstrapsOnce == Spec => []OneBootstrap
<1>1. RecoveryInv => OneBootstrap
  <2> SUFFICES ASSUME RecoveryInv PROVE OneBootstrap
    OBVIOUS
  <2>1. OnePrimary
    BY ComponentsCount DEF RecoveryInv
  <2>2. HostsAgree
    BY DEF RecoveryInv, ReadFromFile, HostsAgree
  <2>3. task # 0 /\ Play[task] = "read" => task = 5
    <3>1. task \in {0, 1, 2, 3, 4, 5, 6, 7, 8, 9, 10}
      BY DEF RecoveryInv, RecoveryTyped
    <3> QED
      BY <3>1 DEF Play
  <2>4. LargestIsWritten
    BY <2>3 DEF RecoveryInv, FileLargest, LargestIsWritten
  <2> QED
    BY <2>1, <2>2, <2>4 DEF OneBootstrap
<1> QED
  BY <1>1, RecoveryInvariant, PTL

-----------------------------------------------------------------------------
(* Upgrades of glance.                                                     *)

\* TypeOK, with the variables it leaves out.
UpgradeTyped ==
    /\ conf \subseteq Hosts /\ new \subseteq Hosts /\ up \subseteq Hosts
    /\ missing \subseteq Hosts \ (up \cup new)
    /\ schema \in {"old", "expanded", "migrated", "contracted"}
    /\ step \in 0 .. 8 /\ (~rolling => step \in 0 .. 4)
    /\ ready \subseteq Hosts /\ leftOut \subseteq Hosts /\ ready \cap leftOut = {}
    /\ notified \subseteq Hosts
    /\ serving \in Nat

Flags == rolling \in BOOLEAN /\ finished \in BOOLEAN

\* Hosts that are through with task number t, or past it.
Passed(t, h) == h \notin leftOut /\ (step > t \/ (step = t /\ h \in ready))

\* The number of a task that both orders have.
ConfigTask(h) == IF rolling THEN IF h = 1 THEN 1 ELSE 5 ELSE 1
CheckTask == IF rolling THEN 6 ELSE 2
HandlersTask == IF rolling THEN 7 ELSE 4

\* A task that runs once finds a host, and none is through with it.
OnceHasHost == Current \in Once => leftOut # Hosts /\ ready = {}

\* Files come before the containers.
ConfigFirst ==
    /\ new \subseteq conf
    /\ \A h \in Hosts : Passed(ConfigTask(h), h) => h \in conf

\* The check finds every container that is not of the new release or does not run,
\* and its handler runs.
CheckedThenHandled ==
    \A h \in Hosts :
        /\ Passed(CheckTask, h) => h \in notified \/ h \in new \cap up
        /\ Passed(HandlersTask, h) => h \in new \cap up

\* How far the database is when a task begins.
SchemaReached ==
    /\ rolling /\ step > 3 => schema # "old"
    /\ rolling /\ step > 4 => schema \in {"migrated", "contracted"}
    /\ ~rolling /\ step > 3 => schema = "contracted"
    /\ new # {} => schema \in {"migrated", "contracted"}

\* Hosts that fail are left behind; they and no others keep the old release.
LeftBehind ==
    /\ step # 0 => leftOut \subseteq behind
    /\ rolling /\ schema = "contracted" => up \subseteq new \cup behind

\* Another host than the first serves until the handlers run.
OtherServes == rolling /\ step \in 1 .. 6 /\ serving > 1 => \E h \in up : h # 1

\* The inductive invariant.
UpgradeInv ==
    /\ UpgradeTyped /\ Flags /\ OnceHasHost /\ ConfigFirst /\ CheckedThenHandled /\ SchemaReached
    /\ LeftBehind /\ OtherServes
    /\ finished => step = 0
    /\ SuccessMeansUpgraded

-----------------------------------------------------------------------------
\* The tasks of the two orders.
LEMMA Tasks ==
    ASSUME UpgradeTyped
    PROVE  /\ Len(Steps) = IF rolling THEN 8 ELSE 4
           /\ Current = "idle" <=> step = 0
           /\ Current = "config_first" <=> rolling /\ step = 1
           /\ Current = "stop" <=> rolling /\ step = 2
           /\ Current = "expand" <=> rolling /\ step = 3
           /\ Current = "migrate" <=> rolling /\ step = 4
           /\ Current = "config_rest" <=> rolling /\ step = 5
           /\ Current = "contract" <=> rolling /\ step = 8
           /\ Current = "config" <=> ~rolling /\ step = 1
           /\ Current = "bootstrap" <=> ~rolling /\ step = 3
           /\ Current = "check" <=> step = CheckTask
           /\ Current = "handlers" <=> step = HandlersTask
<1>1. CASE rolling
  <2>1. step \in {0, 1, 2, 3, 4, 5, 6, 7, 8}
    BY DEF UpgradeTyped
  <2> QED
    BY <1>1, <2>1 DEF Steps, Current, CheckTask, HandlersTask
<1>2. CASE ~rolling
  <2>1. step \in {0, 1, 2, 3, 4}
    BY <1>2 DEF UpgradeTyped
  <2> QED
    BY <1>2, <2>1 DEF Steps, Current, CheckTask, HandlersTask
<1> QED
  BY <1>1, <1>2

\* The first host that is left exists.
LEMMA SmallestHost ==
    ASSUME NEW T \in SUBSET Hosts, T # {}
    PROVE  (CHOOSE h \in T : \A g \in T : h <= g) \in T
<1>1. T \subseteq Nat
  BY UpgradeAssumption DEF Hosts
<1>2. PICK x \in T : \A y \in T : ~(<<y, x>> \in OpToRel(<, Nat))
  BY <1>1, NatLessThanWellFounded, WFMin
<1>3. \A y \in T : ~(y < x)
  BY <1>1, <1>2 DEF OpToRel
<1>4. \A y \in T : x <= y
  BY <1>1, <1>3
<1> QED
  BY <1>4

\* Before the upgrade every host serves the old release.
LEMMA UpgradeInvInit == UpgradeInit => UpgradeInv
<1> SUFFICES ASSUME UpgradeInit PROVE UpgradeInv
  OBVIOUS
<1>1. UpgradeTyped
  BY DEF UpgradeInit, UpgradeTyped, Hosts
<1>2. Flags
  BY DEF UpgradeInit, Flags
<1> QED
  BY <1>1, <1>2, Tasks DEF UpgradeInit, UpgradeInv, OnceHasHost, Once, ConfigFirst,
      ConfigTask,
     CheckTask, HandlersTask, Passed, CheckedThenHandled, SchemaReached, LeftBehind,
     OtherServes, SuccessMeansUpgraded

-----------------------------------------------------------------------------
(* The steps                                                               *)

\* A play begins: nothing is known of hosts and files that earlier ones left.
LEMMA UpgradeKeeps ==
    ASSUME UpgradeInv, Upgrade
    PROVE  UpgradeInv'
<1> USE DEF UpgradeInv, Upgrade, hostVars
<1>0. step = 0 /\ step' = 1 /\ ~finished /\ N \in Nat \ {0}
  BY UpgradeAssumption
<1>10. Cardinality(up) \in Nat /\ (Cardinality(up) > 1 => \E h \in up : h # 1)
  <2>1. IsFiniteSet(up) /\ Cardinality(up) \in Nat
    <3>1. IsFiniteSet(Hosts)
      BY <1>0, FS_Interval DEF Hosts
    <3> QED
      BY <3>1, FS_Subset, FS_CardinalityType DEF UpgradeTyped
  <2>2. ASSUME \A h \in up : h = 1 PROVE Cardinality(up) <= 1
    <3>1. up \subseteq {1} /\ IsFiniteSet({1}) /\ Cardinality({1}) = 1
      BY <2>2, FS_Singleton
    <3> QED
      BY <3>1, FS_Subset
  <2> QED
    BY <2>1, <2>2
<1>1. UpgradeTyped'
  BY <1>0, <1>10 DEF UpgradeTyped
<1>2. Flags'
  BY DEF Flags
<1>3. OnceHasHost'
  BY <1>0 DEF UpgradeTyped, OnceHasHost, Once, Current, Steps
<1>4. ConfigFirst'
  BY <1>0 DEF UpgradeTyped, ConfigFirst, ConfigTask, Passed
<1>5. CheckedThenHandled'
  BY <1>0 DEF UpgradeTyped, CheckedThenHandled, CheckTask, HandlersTask, Passed
<1>6. SchemaReached'
  BY <1>0 DEF UpgradeTyped, SchemaReached
<1>7. LeftBehind'
  BY <1>0 DEF UpgradeTyped, LeftBehind
<1>8. OtherServes'
  BY <1>0, <1>10 DEF UpgradeTyped, OtherServes
<1>9. (finished => step = 0)' /\ SuccessMeansUpgraded'
  BY <1>0 DEF UpgradeTyped, SuccessMeansUpgraded
<1> QED
  BY <1>1, <1>2, <1>3, <1>4, <1>5, <1>6, <1>7, <1>8, <1>9

\* All hosts that have not failed are through with the task.
LEMMA NextStepKeeps ==
    ASSUME UpgradeInv, NextStep
    PROVE  UpgradeInv'
<1> USE DEF UpgradeInv, NextStep, hostVars
<1>0. /\ N \in Nat \ {0} /\ Hosts # {}
      /\ IF rolling THEN step \in {1, 2, 5, 6, 7} ELSE step \in {1, 2, 4}
      /\ step' = IF leftOut = Hosts \/ (~rolling /\ step = 4) THEN 0 ELSE step + 1
      /\ finished' => ~rolling /\ step = 4 /\ leftOut = {}
  <2>1. N \in Nat \ {0} /\ Hosts # {}
    BY UpgradeAssumption DEF Hosts
  <2>2. IF rolling THEN step \in {1, 2, 5, 6, 7} ELSE step \in {1, 2, 4}
    <3>1. /\ rolling => step # 3 /\ step # 4 /\ step # 8
          /\ ~rolling => step # 3
      BY Tasks DEF Once
    <3> QED
      BY <3>1 DEF UpgradeTyped
  <2>3. Len(Steps) = IF rolling THEN 8 ELSE 4
    BY Tasks
  <2>4. finished' => step = Len(Steps) /\ leftOut = {}
    OBVIOUS
  <2> QED
    BY <2>1, <2>2, <2>3, <2>4
<1>11. finished' => \A g \in Hosts : g \in new \cap up
  BY <1>0 DEF UpgradeTyped, CheckedThenHandled, HandlersTask, Passed
<1>12. finished' => schema = "contracted"
  BY <1>0 DEF SchemaReached
<1>1. UpgradeTyped'
  BY <1>0 DEF UpgradeTyped
<1>2. Flags'
  BY DEF Flags
<1>3. OnceHasHost'
  BY <1>0 DEF UpgradeTyped, OnceHasHost, Once, Current, Steps
<1>4. ConfigFirst'
  BY <1>0 DEF UpgradeTyped, ConfigFirst, ConfigTask, Passed
<1>5. CheckedThenHandled'
  BY <1>0 DEF UpgradeTyped, CheckedThenHandled, CheckTask, HandlersTask, Passed
<1>6. SchemaReached'
  BY <1>0 DEF UpgradeTyped, SchemaReached
<1>7. LeftBehind'
  BY <1>0 DEF UpgradeTyped, LeftBehind
<1>8. OtherServes'
  BY <1>0 DEF UpgradeTyped, OtherServes
<1>9. (finished => step = 0)' /\ SuccessMeansUpgraded'
  BY <1>0, <1>11, <1>12 DEF UpgradeTyped, SuccessMeansUpgraded
<1> QED
  BY <1>1, <1>2, <1>3, <1>4, <1>5, <1>6, <1>7, <1>8, <1>9

\* A host that fails drops out of every statement about hosts that have passed.
LEMMA StepFailsKeeps ==
    ASSUME UpgradeInv, NEW h \in Hosts, StepFails(h)
    PROVE  UpgradeInv'
<1> USE DEF UpgradeInv, StepFails, hostVars
<1>0. step # 0 /\ step' = step
  BY Tasks, UpgradeAssumption DEF UpgradeTyped, CheckTask, HandlersTask
<1>1. UpgradeTyped'
  BY <1>0 DEF UpgradeTyped
<1>2. Flags'
  BY DEF Flags
<1>3. OnceHasHost'
  BY <1>0 DEF UpgradeTyped, OnceHasHost, Once, Current, Steps
<1>4. ConfigFirst'
  BY <1>0 DEF UpgradeTyped, ConfigFirst, ConfigTask, Passed
<1>5. CheckedThenHandled'
  BY <1>0 DEF UpgradeTyped, CheckedThenHandled, CheckTask, HandlersTask, Passed
<1>6. SchemaReached'
  BY <1>0 DEF UpgradeTyped, SchemaReached
<1>7. LeftBehind'
  BY <1>0 DEF UpgradeTyped, LeftBehind
<1>8. OtherServes'
  BY <1>0 DEF UpgradeTyped, OtherServes
<1>9. (finished => step = 0)' /\ SuccessMeansUpgraded'
  BY <1>0 DEF UpgradeTyped, SuccessMeansUpgraded
<1> QED
  BY <1>1, <1>2, <1>3, <1>4, <1>5, <1>6, <1>7, <1>8, <1>9

\* An interrupted play leaves the hosts as they are, and nothing pending is relied on.
LEMMA InterruptKeeps ==
    ASSUME UpgradeInv, Interrupt
    PROVE  UpgradeInv'
<1> USE DEF UpgradeInv, Interrupt, hostVars
<1>0. step # 0 /\ step' = 0
  BY Tasks, UpgradeAssumption DEF UpgradeTyped, CheckTask, HandlersTask
<1>1. UpgradeTyped'
  BY <1>0 DEF UpgradeTyped
<1>2. Flags'
  BY DEF Flags
<1>3. OnceHasHost'
  BY <1>0 DEF UpgradeTyped, OnceHasHost, Once, Current, Steps
<1>4. ConfigFirst'
  BY <1>0 DEF UpgradeTyped, ConfigFirst, ConfigTask, Passed
<1>5. CheckedThenHandled'
  BY <1>0 DEF UpgradeTyped, CheckedThenHandled, CheckTask, HandlersTask, Passed
<1>6. SchemaReached'
  BY <1>0 DEF UpgradeTyped, SchemaReached
<1>7. LeftBehind'
  BY <1>0 DEF UpgradeTyped, LeftBehind
<1>8. OtherServes'
  BY <1>0 DEF UpgradeTyped, OtherServes
<1>9. (finished => step = 0)' /\ SuccessMeansUpgraded'
  BY <1>0 DEF UpgradeTyped, SuccessMeansUpgraded
<1> QED
  BY <1>1, <1>2, <1>3, <1>4, <1>5, <1>6, <1>7, <1>8, <1>9

\* A host is through with its config.yml with the new files.
LEMMA ConfigKeeps ==
    ASSUME UpgradeInv, NEW h \in Hosts, Config(h)
    PROVE  UpgradeInv'
<1> USE DEF UpgradeInv, Config, RunsOn, Passes
<1>0. /\ step' = step /\ step \in {1, 5} /\ (step = 5 => rolling)
      /\ h \notin ready \cup leftOut
      /\ conf' \in {conf, conf \cup {h}}
      /\ step = ConfigTask(h) => conf' = conf \cup {h}
      /\ notified \subseteq notified' /\ notified' \subseteq notified \cup {h}
  BY Tasks DEF UpgradeTyped, ConfigHosts, ConfigTask
<1>1. UpgradeTyped'
  BY <1>0 DEF UpgradeTyped
<1>2. Flags'
  BY DEF Flags
<1>3. OnceHasHost'
  BY <1>0 DEF UpgradeTyped, OnceHasHost, Once, Current, Steps
<1>4. ConfigFirst'
  BY <1>0 DEF UpgradeTyped, ConfigFirst, ConfigTask, Passed
<1>5. CheckedThenHandled'
  BY <1>0 DEF UpgradeTyped, CheckedThenHandled, CheckTask, HandlersTask, Passed
<1>6. SchemaReached'
  BY <1>0 DEF UpgradeTyped, SchemaReached
<1>7. LeftBehind'
  BY <1>0 DEF UpgradeTyped, LeftBehind
<1>8. OtherServes'
  BY <1>0 DEF UpgradeTyped, OtherServes
<1>9. (finished => step = 0)' /\ SuccessMeansUpgraded'
  BY <1>0 DEF UpgradeTyped, SuccessMeansUpgraded
<1> QED
  BY <1>1, <1>2, <1>3, <1>4, <1>5, <1>6, <1>7, <1>8, <1>9

\* Only the first host is stopped, or fails: another one that serves goes on.
LEMMA StopServiceKeeps ==
    ASSUME UpgradeInv, NEW h \in Hosts, StopService(h)
    PROVE  UpgradeInv'
<1> USE DEF UpgradeInv, StopService, RunsOn, Passes
<1>0. rolling /\ step = 2 /\ step' = 2 /\ h \notin ready \cup leftOut
  BY Tasks, UpgradeAssumption DEF UpgradeTyped, CheckTask, HandlersTask
<1>1. UpgradeTyped'
  BY <1>0 DEF UpgradeTyped
<1>2. Flags'
  BY DEF Flags
<1>3. OnceHasHost'
  BY <1>0 DEF UpgradeTyped, OnceHasHost, Once, Current, Steps
<1>4. ConfigFirst'
  BY <1>0 DEF UpgradeTyped, ConfigFirst, ConfigTask, Passed
<1>5. CheckedThenHandled'
  BY <1>0 DEF UpgradeTyped, CheckedThenHandled, CheckTask, HandlersTask, Passed
<1>6. SchemaReached'
  BY <1>0 DEF UpgradeTyped, SchemaReached
<1>7. LeftBehind'
  BY <1>0 DEF UpgradeTyped, LeftBehind
<1>8. OtherServes'
  BY <1>0 DEF UpgradeTyped, OtherServes
<1>9. (finished => step = 0)' /\ SuccessMeansUpgraded'
  BY <1>0 DEF UpgradeTyped, SuccessMeansUpgraded
<1> QED
  BY <1>1, <1>2, <1>3, <1>4, <1>5, <1>6, <1>7, <1>8, <1>9

\* A host passes the check with its handler notified, or up to date.
LEMMA CheckContainersKeeps ==
    ASSUME UpgradeInv, NEW h \in Hosts, CheckContainers(h)
    PROVE  UpgradeInv'
<1> USE DEF UpgradeInv, CheckContainers, RunsOn, Passes, hostVars
<1>0. /\ step = IF rolling THEN 6 ELSE 2
      /\ step' = step /\ h \notin ready \cup leftOut
  BY Tasks, UpgradeAssumption DEF UpgradeTyped, CheckTask, HandlersTask
<1>1. UpgradeTyped'
  BY <1>0 DEF UpgradeTyped
<1>2. Flags'
  BY DEF Flags
<1>3. OnceHasHost'
  BY <1>0 DEF UpgradeTyped, OnceHasHost, Once, Current, Steps
<1>4. ConfigFirst'
  BY <1>0 DEF UpgradeTyped, ConfigFirst, ConfigTask, Passed
<1>5. CheckedThenHandled'
  BY <1>0 DEF UpgradeTyped, CheckedThenHandled, CheckTask, HandlersTask, Passed
<1>6. SchemaReached'
  BY <1>0 DEF UpgradeTyped, SchemaReached
<1>7. LeftBehind'
  BY <1>0 DEF UpgradeTyped, LeftBehind
<1>8. OtherServes'
  BY <1>0 DEF UpgradeTyped, OtherServes
<1>9. (finished => step = 0)' /\ SuccessMeansUpgraded'
  BY <1>0 DEF UpgradeTyped, SuccessMeansUpgraded
<1> QED
  BY <1>1, <1>2, <1>3, <1>4, <1>5, <1>6, <1>7, <1>8, <1>9

\* A handler that runs finds the files of the new release and a database it knows.
LEMMA HandlerKeeps ==
    ASSUME UpgradeInv, NEW h \in Hosts, Handler(h)
    PROVE  UpgradeInv'
<1> USE DEF UpgradeInv, Handler, RunsOn, Passes
<1>0. /\ step = IF rolling THEN 7 ELSE 4
      /\ step' = step /\ h \notin ready \cup leftOut
  BY Tasks, UpgradeAssumption DEF UpgradeTyped, CheckTask, HandlersTask
<1>1. UpgradeTyped'
  BY <1>0 DEF UpgradeTyped
<1>2. Flags'
  BY DEF Flags
<1>3. OnceHasHost'
  BY <1>0 DEF UpgradeTyped, OnceHasHost, Once, Current, Steps
<1>4. ConfigFirst'
  BY <1>0 DEF UpgradeTyped, ConfigFirst, ConfigTask, Passed
<1>5. CheckedThenHandled'
  BY <1>0 DEF UpgradeTyped, CheckedThenHandled, CheckTask, HandlersTask, Passed
<1>6. SchemaReached'
  BY <1>0 DEF UpgradeTyped, SchemaReached
<1>7. LeftBehind'
  BY <1>0 DEF UpgradeTyped, LeftBehind
<1>8. OtherServes'
  BY <1>0 DEF UpgradeTyped, OtherServes
<1>9. (finished => step = 0)' /\ SuccessMeansUpgraded'
  BY <1>0 DEF UpgradeTyped, SuccessMeansUpgraded
<1> QED
  BY <1>1, <1>2, <1>3, <1>4, <1>5, <1>6, <1>7, <1>8, <1>9

\* A handler that fails leaves no container that runs, on a host that has failed.
LEMMA HandlerFailsKeeps ==
    ASSUME UpgradeInv, NEW h \in Hosts, HandlerFails(h)
    PROVE  UpgradeInv'
<1> USE DEF UpgradeInv, HandlerFails, RunsOn
<1>0. /\ step = IF rolling THEN 7 ELSE 4
      /\ step' = step /\ h \notin ready \cup leftOut
  BY Tasks, UpgradeAssumption DEF UpgradeTyped, CheckTask, HandlersTask
<1>1. UpgradeTyped'
  BY <1>0 DEF UpgradeTyped
<1>2. Flags'
  BY DEF Flags
<1>3. OnceHasHost'
  BY <1>0 DEF UpgradeTyped, OnceHasHost, Once, Current, Steps
<1>4. ConfigFirst'
  BY <1>0 DEF UpgradeTyped, ConfigFirst, ConfigTask, Passed
<1>5. CheckedThenHandled'
  BY <1>0 DEF UpgradeTyped, CheckedThenHandled, CheckTask, HandlersTask, Passed
<1>6. SchemaReached'
  BY <1>0 DEF UpgradeTyped, SchemaReached
<1>7. LeftBehind'
  BY <1>0 DEF UpgradeTyped, LeftBehind
<1>8. OtherServes'
  BY <1>0 DEF UpgradeTyped, OtherServes
<1>9. (finished => step = 0)' /\ SuccessMeansUpgraded'
  BY <1>0 DEF UpgradeTyped, SuccessMeansUpgraded
<1> QED
  BY <1>1, <1>2, <1>3, <1>4, <1>5, <1>6, <1>7, <1>8, <1>9

\* After the expansion the schema is no longer the old one.
LEMMA ExpandKeeps ==
    ASSUME UpgradeInv, Expand
    PROVE  UpgradeInv'
<1> USE DEF UpgradeInv, Expand, RunsOnce
<1>0. /\ rolling /\ step = 3 /\ step' = 4 /\ ~finished'
      /\ leftOut # Hosts /\ ready = {}
  <2>1. rolling /\ step = 3 /\ Len(Steps) = 8
    BY Tasks
  <2>2. finished' => step = Len(Steps) /\ leftOut = {}
    OBVIOUS
  <2>3. leftOut # Hosts /\ ready = {}
    BY DEF OnceHasHost, Once
  <2> QED
    BY <2>1, <2>2, <2>3
<1>1. UpgradeTyped'
  BY <1>0 DEF UpgradeTyped
<1>2. Flags'
  BY DEF Flags
<1>3. OnceHasHost'
  BY <1>0 DEF UpgradeTyped, OnceHasHost, Once, Current, Steps
<1>4. ConfigFirst'
  BY <1>0 DEF UpgradeTyped, ConfigFirst, ConfigTask, Passed
<1>5. CheckedThenHandled'
  BY <1>0 DEF UpgradeTyped, CheckedThenHandled, CheckTask, HandlersTask, Passed
<1>6. SchemaReached'
  BY <1>0 DEF UpgradeTyped, SchemaReached
<1>7. LeftBehind'
  BY <1>0 DEF UpgradeTyped, LeftBehind
<1>8. OtherServes'
  BY <1>0 DEF UpgradeTyped, OtherServes
<1>9. (finished => step = 0)' /\ SuccessMeansUpgraded'
  BY <1>0 DEF UpgradeTyped, SuccessMeansUpgraded
<1> QED
  BY <1>1, <1>2, <1>3, <1>4, <1>5, <1>6, <1>7, <1>8, <1>9

\* The migration, which also notifies the first host that is left.
LEMMA MigrateKeeps ==
    ASSUME UpgradeInv, Migrate
    PROVE  UpgradeInv'
<1> USE DEF UpgradeInv, Migrate, RunsOnce
<1>0. /\ rolling /\ step = 4 /\ step' = 5 /\ ~finished'
      /\ leftOut # Hosts /\ ready = {}
  <2>1. rolling /\ step = 4 /\ Len(Steps) = 8
    BY Tasks
  <2>2. finished' => step = Len(Steps) /\ leftOut = {}
    OBVIOUS
  <2>3. leftOut # Hosts /\ ready = {}
    BY DEF OnceHasHost, Once
  <2> QED
    BY <2>1, <2>2, <2>3
<1>10. notified' \subseteq Hosts /\ notified \subseteq notified'
  BY <1>0, SmallestHost DEF UpgradeTyped
<1>1. UpgradeTyped'
  BY <1>0, <1>10 DEF UpgradeTyped
<1>2. Flags'
  BY DEF Flags
<1>3. OnceHasHost'
  BY <1>0 DEF UpgradeTyped, OnceHasHost, Once, Current, Steps
<1>4. ConfigFirst'
  BY <1>0 DEF UpgradeTyped, ConfigFirst, ConfigTask, Passed
<1>5. CheckedThenHandled'
  BY <1>0 DEF UpgradeTyped, CheckedThenHandled, CheckTask, HandlersTask, Passed
<1>6. SchemaReached'
  BY <1>0 DEF UpgradeTyped, SchemaReached
<1>7. LeftBehind'
  BY <1>0 DEF UpgradeTyped, LeftBehind
<1>8. OtherServes'
  BY <1>0 DEF UpgradeTyped, OtherServes
<1>9. (finished => step = 0)' /\ SuccessMeansUpgraded'
  BY <1>0 DEF UpgradeTyped, SuccessMeansUpgraded
<1> QED
  BY <1>1, <1>2, <1>3, <1>4, <1>5, <1>6, <1>7, <1>8, <1>9

\* The contraction finds the new release on all hosts that have not failed.
LEMMA ContractKeeps ==
    ASSUME UpgradeInv, Contract
    PROVE  UpgradeInv'
<1> USE DEF UpgradeInv, Contract, RunsOnce
<1>0. /\ rolling /\ step = 8 /\ step' = 0
      /\ leftOut # Hosts /\ (finished' => leftOut = {})
  <2>1. rolling /\ step = 8 /\ Len(Steps) = 8
    BY Tasks
  <2>2. finished' => step = Len(Steps) /\ leftOut = {}
    OBVIOUS
  <2>3. leftOut # Hosts /\ ready = {}
    BY DEF OnceHasHost, Once
  <2> QED
    BY <2>1, <2>2, <2>3
<1>11. \A g \in Hosts \ leftOut : g \in new \cap up
  BY <1>0 DEF UpgradeTyped, CheckedThenHandled, HandlersTask, Passed
<1>1. UpgradeTyped'
  BY <1>0 DEF UpgradeTyped
<1>2. Flags'
  BY DEF Flags
<1>3. OnceHasHost'
  BY <1>0 DEF UpgradeTyped, OnceHasHost, Once, Current, Steps
<1>4. ConfigFirst'
  BY <1>0 DEF UpgradeTyped, ConfigFirst, ConfigTask, Passed
<1>5. CheckedThenHandled'
  BY <1>0 DEF UpgradeTyped, CheckedThenHandled, CheckTask, HandlersTask, Passed
<1>6. SchemaReached'
  BY <1>0 DEF UpgradeTyped, SchemaReached
<1>7. LeftBehind'
  BY <1>0, <1>11 DEF UpgradeTyped, LeftBehind
<1>8. OtherServes'
  BY <1>0 DEF UpgradeTyped, OtherServes
<1>9. (finished => step = 0)' /\ SuccessMeansUpgraded'
  BY <1>0, <1>11 DEF UpgradeTyped, SuccessMeansUpgraded
<1> QED
  BY <1>1, <1>2, <1>3, <1>4, <1>5, <1>6, <1>7, <1>8, <1>9

\* In the legacy order the database is in the new form before the handlers.
LEMMA BootstrapKeeps ==
    ASSUME UpgradeInv, Bootstrap
    PROVE  UpgradeInv'
<1> USE DEF UpgradeInv, Bootstrap, RunsOnce
<1>0. /\ ~rolling /\ step = 3 /\ step' = 4 /\ ~finished'
      /\ leftOut # Hosts /\ ready = {}
  <2>1. ~rolling /\ step = 3 /\ Len(Steps) = 4
    BY Tasks
  <2>2. finished' => step = Len(Steps) /\ leftOut = {}
    OBVIOUS
  <2>3. leftOut # Hosts /\ ready = {}
    BY DEF OnceHasHost, Once
  <2> QED
    BY <2>1, <2>2, <2>3
<1>1. UpgradeTyped'
  BY <1>0 DEF UpgradeTyped
<1>2. Flags'
  BY DEF Flags
<1>3. OnceHasHost'
  BY <1>0 DEF UpgradeTyped, OnceHasHost, Once, Current, Steps
<1>4. ConfigFirst'
  BY <1>0 DEF UpgradeTyped, ConfigFirst, ConfigTask, Passed
<1>5. CheckedThenHandled'
  BY <1>0 DEF UpgradeTyped, CheckedThenHandled, CheckTask, HandlersTask, Passed
<1>6. SchemaReached'
  BY <1>0 DEF UpgradeTyped, SchemaReached
<1>7. LeftBehind'
  BY <1>0 DEF UpgradeTyped, LeftBehind
<1>8. OtherServes'
  BY <1>0 DEF UpgradeTyped, OtherServes
<1>9. (finished => step = 0)' /\ SuccessMeansUpgraded'
  BY <1>0 DEF UpgradeTyped, SuccessMeansUpgraded
<1> QED
  BY <1>1, <1>2, <1>3, <1>4, <1>5, <1>6, <1>7, <1>8, <1>9

-----------------------------------------------------------------------------
\* Every step keeps the invariant.
LEMMA UpgradeInvNext == UpgradeInv /\ [UpgradeNext]_upgradeVars => UpgradeInv'
<1> SUFFICES ASSUME UpgradeInv, [UpgradeNext]_upgradeVars
             PROVE  UpgradeInv'
  OBVIOUS
<1>1. CASE Upgrade \/ Interrupt
  BY <1>1, UpgradeKeeps, InterruptKeeps
<1>2. CASE NextStep \/ Expand \/ Migrate \/ Contract \/ Bootstrap
  BY <1>2, NextStepKeeps, ExpandKeeps, MigrateKeeps, ContractKeeps, BootstrapKeeps
<1>3. ASSUME NEW h \in Hosts,
             Config(h) \/ StopService(h) \/ CheckContainers(h) \/ Handler(h)
      PROVE  UpgradeInv'
  BY <1>3, ConfigKeeps, StopServiceKeeps, CheckContainersKeeps, HandlerKeeps
<1>4. ASSUME NEW h \in Hosts, StepFails(h) \/ HandlerFails(h)
      PROVE  UpgradeInv'
  BY <1>4, StepFailsKeeps, HandlerFailsKeeps
<1>5. CASE UNCHANGED upgradeVars
  <2> USE <1>5 DEF upgradeVars, hostVars, runVars, UpgradeInv
  <2>1. UpgradeTyped' /\ OnceHasHost' /\ ConfigFirst' /\ CheckedThenHandled'
    BY DEF UpgradeTyped, OnceHasHost, Once, Current, Steps, ConfigFirst, ConfigTask, Passed,
           CheckedThenHandled, CheckTask, HandlersTask
  <2>2. Flags'
    BY DEF Flags
  <2>3. SchemaReached' /\ LeftBehind' /\ OtherServes'
    BY DEF SchemaReached, LeftBehind, OtherServes
  <2>4. (finished => step = 0)' /\ SuccessMeansUpgraded'
    BY DEF SuccessMeansUpgraded
  <2> QED
    BY <2>1, <2>2, <2>3, <2>4
<1> QED
  BY <1>1, <1>2, <1>3, <1>4, <1>5 DEF UpgradeNext, UpgradeStep

\* The invariant of the upgrade.
LEMMA UpgradeInvariant == UpgradeSpec => []UpgradeInv
BY UpgradeInvInit, UpgradeInvNext, PTL DEF UpgradeSpec

\* The types of the variables; a container of the new release has its files.
THEOREM UpgradeTypeCorrect == UpgradeSpec => []UpgradeTypeOK
<1>1. UpgradeInv => UpgradeTypeOK
  <2> SUFFICES ASSUME UpgradeInv PROVE UpgradeTypeOK
    OBVIOUS
  <2>1. step \in 0 .. Len(Steps)
    BY Tasks DEF UpgradeInv, UpgradeTyped
  <2>2. finished \in BOOLEAN
    BY DEF UpgradeInv, Flags
  <2> QED
    BY <2>1, <2>2 DEF UpgradeInv, UpgradeTyped, ConfigFirst, UpgradeTypeOK
<1> QED
  BY <1>1, UpgradeInvariant, PTL

\* Throughout a rolling upgrade (rolling_upgrade.yml) every container meets a schema
\* it knows and an API runs, on any number of hosts, whichever fail and however
\* often the play is interrupted and run again.
THEOREM UpgradeServesThroughout == UpgradeSpec => []ServesThroughout
<1>1. UpgradeInv => ServesThroughout
  <2> SUFFICES ASSUME UpgradeInv PROVE ServesThroughout
    OBVIOUS
  <2> USE DEF UpgradeInv
  <2>1. SchemaFits
    BY DEF SchemaFits, SchemaReached, LeftBehind
  <2>2. ASSUME rolling, Current \notin {"idle", "handlers"}, serving > 1
        PROVE  up # {}
    <3>1. step \in 1 .. 6 \/ step = 8
      BY <2>2, Tasks DEF UpgradeTyped, HandlersTask
    <3>2. CASE step \in 1 .. 6
      BY <2>2, <3>2 DEF OtherServes
    <3>3. CASE step = 8
      <4>1. leftOut # Hosts
        BY <2>2, <3>3, Tasks DEF OnceHasHost, Once
      <4>2. PICK h \in Hosts : h \notin leftOut
        BY <4>1 DEF UpgradeTyped
      <4> QED
        BY <2>2, <3>3, <4>2 DEF CheckedThenHandled, Passed, HandlersTask
    <3> QED
      BY <3>1, <3>2, <3>3
  <2> QED
    BY <2>1, <2>2 DEF ServesThroughout, ApiServes
<1> QED
  BY <1>1, UpgradeInvariant, PTL

\* A run of either order that ends without a failure has upgraded every host and the
\* database, whatever earlier runs left half done (check-containers.yml notifies
\* again what an interrupted run had notified).
THEOREM UpgradeSuccess == UpgradeSpec => []SuccessMeansUpgraded
<1>1. UpgradeInv => SuccessMeansUpgraded
  BY DEF UpgradeInv
<1> QED
  BY <1>1, UpgradeInvariant, PTL

=============================================================================
