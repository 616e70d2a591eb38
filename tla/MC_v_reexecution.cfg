SPECIFICATION Spec

CONSTANTS
    Nil = Nil
    Server = {s1}
    Key = {"x"}
    Value = {"v1", "v2"}
    id1 = id1
    id2 = id2
    id3 = id3
    ProposeId = {id1, id2}
    Command <- TwoPuts
    SyncCommand <- NoCommand
    MaxStateChanges = 1
    MaxCommits = 3
    MaxDrops = 0

PROPERTIES
    ReexecutionHarmless

\* The workload is finite: the servers come to rest when it is done.
CHECK_DEADLOCK FALSE
