CONSTANTS
    DockerParams <- MCDockerParams
    PodmanParams <- MCPodmanParams
    Images = {"i1", "i2"}
    ImageLabels <- MCImageLabels
    Paths <- MCPaths
    CgroupnsSupported = TRUE
    KernelMemoryRemoved = TRUE
    Given <- MCGiven
    Common <- MCCommon
    Environments <- MCEnvironments
    Digits <- MCDigits
    ssh_keys = {"ssh"}
    blank_keys = {"registry"}
    Installed <- MCInstalled
    Template <- MCTemplate
    MaxKills = 2
    MaxRuns = 4
    Hosts = {"h1", "h2"}
SPECIFICATION VaultSpec
CHECK_DEADLOCK FALSE
PROPERTIES
    IgnoresPasswordsNotInVault
