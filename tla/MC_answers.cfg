SPECIFICATION FairSpec

CONSTANTS
    Nil = Nil
    Server = {s1, s2}
    Key = {"x"}
    Value = {"v1", "v2"}
    id1 = id1
    id2 = id2
    id3 = id3
    ProposeId = {id1}
    Command <- OnePut
    SyncCommand <- OnePut
    MaxStateChanges = 2
    MaxCommits = 2
    MaxDrops = 1

PROPERTIES
    ProposeAnswered
    SyncAnswered
    RecordEventuallyRemoved

\* The workload is finite: the servers come to rest when it is done.
CHECK_DEADLOCK FALSE
