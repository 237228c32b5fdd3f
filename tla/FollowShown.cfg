SPECIFICATION MCDirSpec
CONSTANTS
    Folk = {"p1", "p2"}
    Knows <- MCKnows
    Matches <- MCMatches
    MaxTurns = 3
    MaxSnags = 0
INVARIANT ActiveStateCorrect
CHECK_DEADLOCK FALSE
