SPECIFICATION ClientSpec
CONSTANTS
    MaxSubmits = 2
    MaxLoads = 1
    Spoken = {2}
INVARIANTS
    EndedIsShown
CHECK_DEADLOCK FALSE
