SPECIFICATION Spec
CONSTANTS
    MaxFileBytes = 3
    MaxFiles = 2
    Pids = {p1, p2}
    p1 = p1
    p2 = p2
    SendThreshold = 3
    RecvThreshold = 2
    MaxCount = 4
    Events <- MCEvents
    MaxLogs = 5
    Missing = Missing
    Null = Null
    Unlinked = Unlinked
INVARIANTS FilesInOrder FileWithinLimit OkMeansLogged CrossingReported
PROPERTIES OnlyOldestDeleted CrossingReportedOnce
