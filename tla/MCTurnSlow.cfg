SPECIFICATION FairSpec
CONSTANTS
    Turns = {t1, t2}
    Enders = {e1}
    EndKinds = {"end"}
    SlowTurns = TRUE
INVARIANTS
    TranscriptContiguous
PROPERTIES
    GenerationEnds
    SessionEnds
CHECK_DEADLOCK FALSE
