SPECIFICATION KeystoneSpec
CONSTANTS
    N = 3
    TokenLife = 3
    Interval = 2
    PushTime = 1
    MaxTime = 8
    MaxDeploys = 1
    MaxLost = 1
    Overlap = FALSE
    Engine = "docker"
    MaxDeployments = 3
    MaxReplaced = 2
    MaxExits = 1
    MaxFailures = 1
INVARIANTS
    RepositoriesTyped
    TokensValidate
PROPERTIES
    PushesReachAll
    DeploysKeepKeys
CHECK_DEADLOCK FALSE
