CONSTANTS
    N = 3
    Engine = "podman"
    MaxDeployments = 2
    MaxReplaced = 1
    MaxExits = 0
    MaxFailures = 0
SPECIFICATION BootstrapSpec
CHECK_DEADLOCK FALSE
PROPERTIES
    DeployKeepsKeys

