SPECIFICATION Spec
CONSTANTS
    cpu0 = cpu0
    cpu1 = cpu1
    Cpus = {cpu0, cpu1}
    Cpu0 = cpu0
    Kinds = {"other", "mount"}
    Keys = {k1}
    RingCap = 2
    ChannelCap = 1
    SocketCap = 1
    Window = 2
    CleanupEvery = 2
    CleanupFactor = 1
    MaxEvents = 4
    MaxTime = 0
    MaxConns = 1
    None = None
INVARIANT GapsAreDrops
