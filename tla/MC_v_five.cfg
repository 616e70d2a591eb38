SPECIFICATION ClientSpec

CONSTANTS
    Nil = Nil
    Server = {s1, s2, s3, s4, s5}
    Key = {"x"}
    Value = {"v1"}
    id1 = id1
    id2 = id2
    id3 = id3
    ProposeId = {id1, id2}
    Command <- OnePut
    MaxCommits = 1
    p1 = p1
    Client = {p1}
    Owner <- SharedClient
    MaxStateChanges = 1
    MaxRpcErrors = 0

SYMMETRY ServerSymmetry

INVARIANTS
    CrashOnlyOnError

CHECK_DEADLOCK FALSE
