SPECIFICATION FairSpec
CONSTANTS
    Handlers = {h1, h2}
    Pids = {p1, p2}
    Agent = Agent
    None = None
    MaxProcs = 3
INVARIANTS ManagedStatusNotStolen
PROPERTIES EveryCommandAnswered ZombiesReaped
