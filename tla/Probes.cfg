SPECIFICATION ProbesSpec
CONSTANTS
    init = init
    a = a
    b = b
    c = c
    Threads <- MCThreads
    Pid <- MCPid
    PidNames <- MCPidNames
    SelfName = "7"
    OpensOf <- MCOpensOf
    ExecsOf <- MCExecsOf
    PolicyChoices <- MCPolicies
    FaultChoices = {{}, {"lookup"}, {"lookup", "intent_full"}}
    MountRoots <- MCMountRoots
    WorkspaceLike = {"workspace", "workspace2"}
    MaxKey = 5
    DotDotScan = 4
    PrivescScan = 3
    MaxIntents = 1
    Opener = init
    PathOpens <- MCPathOpens
    TcpThreads <- MCTcpThreads
    TcpPid <- MCTcpPid
    TCP_RATE_BUCKET = 4
    Results <- MCResults
    Garbage = {0, 2}
    IntHalf = 4
    MaxEntries = 1
    MaxMoved = 6
INVARIANT IntentHandedOver
INVARIANT OpensConfined
INVARIANT DeniedStaysClosed
INVARIANT NormalizeIsLexical
INVARIANT ReportedWithinBucket
INVARIANT HooksAgreeWithHost
