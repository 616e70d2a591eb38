SPECIFICATION ServerSpec

CONSTANTS
    N = 3
    MaxStarts = 3
    MaxKills = 2

INVARIANTS
    TypeOK
    BootstrapsOnce
    MemberUnlessCut
    FatalOnlyAfterCut

PROPERTIES
    SignalEnds

\* The process ends, and may hang when it is closed.
CHECK_DEADLOCK FALSE
