SPECIFICATION FairSpec
CONSTANTS
    Enders = {}
    EndKinds = {"end"}
    Retries = {r1}
    Jobs = {j1, j2}
    MaxAttempts = 2
    Faults = {}
PROPERTIES
    EvaluatingEnds
CHECK_DEADLOCK FALSE
