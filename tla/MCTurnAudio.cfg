SPECIFICATION Spec
CONSTANTS
    Turns = {t1, t2}
    Enders = {e1}
    EndKinds = {"end", "cancel"}
    SlowTurns = FALSE
SYMMETRY TurnSymmetry
INVARIANTS
    StoredAudioIsLinked
CHECK_DEADLOCK FALSE
