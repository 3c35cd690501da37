CONSTANTS
    i1 = i1
    i2 = i2
    s1 = s1
    s2 = s2
    c1 = c1
    c2 = c2
    u1 = u1
    None = None
    Images = {i1, i2}
    Specs = {s1, s2}
    CopyAlways = {s1}
    CopyOnce = {}
    Confs = {c1, c2}
    Units = {u1}
    BusMayFail = TRUE
    MayReboot = TRUE
    Params <- WaitParams
    Tasks <- WaitTasks
    Oneshot = TRUE
    RestartTimeout = 0
SPECIFICATION WaitSpec
PROPERTIES
    TaskEnds
    WaitsForItsOwnContainer
