SPECIFICATION ClientsFairSpec
CONSTANTS
    Programs = {"ui", "stream", "mcp", "cli"}
    MaxChanges = 2
    CallIds = {1, 2}
    MaxClicks = 2
    failedPollsBeforeOffline = 2
    UiChoices = {{}, {"slow"}, {"overlap", "slow"}, {"slow", "lossy"}}
    Conns = {1, 2}
    StreamChoices = {{}, {"late"}}
    Tools = {t1, t2}
    MaxCalls = 4
    HostPids = {1, 2, 3}
    Clis = {c1, c2}
    Polls = 2
    HostChoices = {{}, {"deaf"}, {"tail", "crash"}, {"reuse"}}
INVARIANT TimersTickOnce
INVARIANT StaleClientFailsOnce
INVARIANT DownSignalsItsDaemons
INVARIANT DownMeansDown
INVARIANT StartLeavesOneServer
PROPERTY UiConverges
PROPERTY StreamReturns
PROPERTY EveryToolAnswered
