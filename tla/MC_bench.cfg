SPECIFICATION LoadSpec

CONSTANTS
    Alias = "c1"
    Atoi <- AtoiWords
    ParseBool <- BoolWords
    ParseDuration <- DurationWords
    Line <- ConfLines
    MaxLines = 3
    MaxClients = 2
    FlagId = 7
    Conn = {k1, k2}

INVARIANTS
    LoadTypeOK
    ReadLastWins
    IdsUnique
    StaticsExact

PROPERTIES
    BenchEnds
    FrontEndAnswers

\* The process ends, and a slow round may not return.
CHECK_DEADLOCK FALSE
