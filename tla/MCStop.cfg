CONSTANTS
    i1 = i1
    i2 = i2
    s1 = s1
    s2 = s2
    c1 = c1
    c2 = c2
    u1 = u1
    u2 = u2
    None = None
    Images = {i1}
    Specs = {s1}
    CopyAlways = {s1}
    CopyOnce = {}
    Confs = {c1}
    Units = {u1}
    BusMayFail = FALSE
    MayReboot = FALSE
    Params <- StopParams
    Tasks <- StopTasks
    Oneshot = FALSE
    RestartTimeout = 0
SPECIFICATION Spec
PROPERTIES
    StoppedStaysStopped
