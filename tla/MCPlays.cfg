CONSTANTS
    Shard = {h1, h2, h3}
    Gtids = {{}, {h1, h2}}
    MaxCommits = 1
    MaxCrashes = 2
    MaxFailures = 2
    N = 3
    MaxFaults = 3
    ShardSize = 3
    MaxDeploys = 3
    MaxMishaps = 2
    MaxReplaced = 1
    MaxKills = 1
SPECIFICATION PlaysSpec
CHECK_DEADLOCK FALSE
INVARIANTS
    PlaysTyped
    OneBootstrap
    NothingCommittedLost
    ServesThroughout
    SuccessMeansUpgraded
PROPERTIES
    ClusterReturns
    DeployKeepsCluster
    SevenKeepCluster
    UpgradeCompleted
