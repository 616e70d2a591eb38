SPECIFICATION Spec

CONSTANTS
    Nil = Nil
    Server = {s1}
    Key = {"x"}
    Value = {"v1", "v2"}
    id1 = id1
    id2 = id2
    id3 = id3
    ProposeId = {id1, id2, id3}
    Command <- PutDeleteGet
    SyncCommand <- ThirdGet
    MaxStateChanges = 2
    MaxCommits = 2
    MaxDrops = 0

INVARIANTS
    TypeOK
    SyncAgreesWithPropose
    SendErNeverBlocks
    StoreMatchesLog

\* The workload is finite: the servers come to rest when it is done.
CHECK_DEADLOCK FALSE
