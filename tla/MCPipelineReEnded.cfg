SPECIFICATION Spec
CONSTANTS
    Enders = {e1}
    EndKinds = {"end"}
    Retries = {}
    Jobs = {j1, j2}
    MaxAttempts = 2
    Faults = {}
INVARIANTS
    CompletedHasJob
CHECK_DEADLOCK FALSE
