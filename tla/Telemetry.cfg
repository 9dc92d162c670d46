SPECIFICATION FairSpec
CONSTANTS
    cpu0 = cpu0
    cpu1 = cpu1
    Cpus = {cpu0, cpu1}
    Cpu0 = cpu0
    Kinds = {"open", "other"}
    Keys = {k1}
    RingCap = 1
    ChannelCap = 1
    SocketCap = 1
    Window = 1
    CleanupEvery = 2
    CleanupFactor = 1
    MaxEvents = 3
    MaxTime = 1
    MaxConns = 2
    None = None
INVARIANTS LoggedInOrder GapsAreExact SuppressedHasTwin
PROPERTY ChannelDrains
