SPECIFICATION ProgressSpec
CONSTANTS
    Enders = {e1, e2}
    EndKinds = {"end", "cancel"}
    Retries = {r1, r2}
    Jobs = {j1, j2, j3}
    MaxAttempts = 4
    Faults = {"crash", "commit", "update"}
    MaxSentences = 5
    ChanCap = 2
INVARIANTS
    OneEvaluator
    NeverJudgedAgain
    FailedCanBeRetried
    HeardOrReported
    QuietAfterReturn
    DoneMeansStored
PROPERTIES
    CalmEvaluatingEnds
    ReplyReturns
CHECK_DEADLOCK FALSE
