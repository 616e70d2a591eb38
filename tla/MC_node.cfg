SPECIFICATION FairNodeSpec

CONSTANTS
    Nil = Nil
    Key = {"x"}
    Value = {"v1", "v2"}
    id1 = id1
    id2 = id2
    id3 = id3
    ProposeId = {id1, id2}
    Command <- TwoPuts
    Proposal <- OnePut
    SlowPathCap = 1
    MaxEntries = 2
    MaxStateChanges = 2
    MaxEvents = 2

INVARIANTS
    TypeOK
    PipelineExact

PROPERTIES
    CommitsDelivered
    ShutdownWithLeader
    RoleLearned

\* The server comes to rest when there is no more to do.
CHECK_DEADLOCK FALSE
