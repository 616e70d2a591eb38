SPECIFICATION FairSpec

CONSTANTS
    Nil = Nil
    Server = {s1}
    Key = {"x", "y", "z"}
    Value = {"v1", "v2"}
    id1 = id1
    id2 = id2
    id3 = id3
    ProposeId = {id1}
    Command <- ReusedIds
    SyncCommand <- ReusedSync
    MaxStateChanges = 1
    MaxCommits = 3
    MaxDrops = 0

PROPERTIES
    WorkerReturns
    SyncAnswered

\* The workload is finite, and the worker may block: the server comes to rest.
CHECK_DEADLOCK FALSE
