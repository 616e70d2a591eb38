SPECIFICATION ClientSpec

CONSTANTS
    Nil = Nil
    Server = {s1, s2, s3}
    Key = {"x"}
    Value = {"v1"}
    id1 = id1
    id2 = id2
    id3 = id3
    ProposeId = {id1, id2}
    Command <- PutAndGet
    MaxCommits = 1
    p1 = p1
    Client = {p1}
    Owner <- SharedClient
    MaxStateChanges = 1
    MaxRpcErrors = 1

SYMMETRY ServerSymmetry

INVARIANTS
    ClientTypeOK
    FastReturnsOrdered
    ReturnedSurvives
    FastGetFromLeader
    SlowOnlyOnConflict
    CrashOnlyOnError
    FastCompletedOrdered
    SurvivorsAgree

\* The workload is finite: the clients come to rest when it is done.
CHECK_DEADLOCK FALSE
