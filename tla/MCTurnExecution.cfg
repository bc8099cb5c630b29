SPECIFICATION Spec
CONSTANTS
    Turns = {t1, t2, t3}
    Enders = {e1}
    EndKinds = {"end", "cancel", "fail"}
    SlowTurns = FALSE
SYMMETRY TurnSymmetry
INVARIANTS
    OneTurnAtATime
    RolesAlternate
    DoneMeansAnswered
    EvaluatedMeansAnswered
PROPERTIES
    CleanupSparesRunningTurns
    EndedIsFinal
    ImplementsConversation
CHECK_DEADLOCK FALSE
