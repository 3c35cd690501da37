CONSTANTS
    i1 = i1
    i2 = i2
    s1 = s1
    s2 = s2
    c1 = c1
    c2 = c2
    u1 = u1
    u2 = u2
    None = None
    Images = {i1, i2}
    Specs = {s1, s2}
    CopyAlways = {s1}
    CopyOnce = {s2}
    Confs = {c1, c2}
    Units = {u1, u2}
    BusMayFail = TRUE
    MayReboot = TRUE
    Params <- EitherParams
    Tasks <- EitherTasks
    Oneshot = FALSE
    RestartTimeout = 0
SYMMETRY Symmetry
SPECIFICATION EitherSpec
PROPERTIES
    ImplementsContract
    KeepsDockerPromises
