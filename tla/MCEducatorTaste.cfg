SPECIFICATION EducatorSpec
CONSTANTS
    Reviews = {s1}
    Requests = {r1, r2}
    FreeLimit = 1
    MaxAttempts = 5
INVARIANTS
    TasteShowsAll
CHECK_DEADLOCK FALSE
