SPECIFICATION StreamSpec
CONSTANTS
    MaxSentences = 2
    ChanCap = 1
INVARIANTS
    WritesExclude
CHECK_DEADLOCK FALSE
