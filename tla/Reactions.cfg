SPECIFICATION FairSpec
CONSTANTS
    PidNames <- MCPidNames
    Pids = {1, 7}
    CallsOf <- MCCallsOf
    HostDenies <- MCHostDenies
    Consumers = {ui}
    FaultChoices = {{}, {"early_reuse", "unwatched"}, {"log", "connect", "garbled", "unwatched"}}
    Capacity = 1
    SEND_THRESHOLD = 2
    MaxEvents = 3
    MaxHolders = 2
INVARIANT OffenceNotForgotten
INVARIANT KilledForOwnBytes
INVARIANT StreamHasNoHoles
PROPERTY OffenderStopped
