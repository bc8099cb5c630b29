SPECIFICATION ServicesSpec
CONSTANTS
    Trial = trial
    Paid = {g1}
    Sessions = {s1, s2}
    Talkative = {s1}
    Endings = {"end", "cancel"}
    Failures = {f1}
    Durations = {1, 3}
    Limit = 1
    Grace = 0
    MaxMinutes = 2
    Horizon = 2
    Reviews = {s1, s2}
    Requests = {r1, r2}
    FreeLimit = 1
    MaxAttempts = 2
    Emails = {x1, x2}
    Identities = {i1}
    Calls = {c1, c2, c3}
    Nobody = Nobody
    Users = {x1, x2}
    Checkouts = {r1, r2}
    Unset = Unset
    MaxEvents = 3
    Interviews = {x1, x2}
    Asks = {r1, r2}
    CoachAttempts = 2
    MaxAnalyses = 2
    Questions = {q1}
    Pictures = {p1, p2}
    NoPicture = NoPicture
    ImageAttempts = 3
    MaxErasures = 2
    MaxText = 7
    Dimensions = {d1, d2}
    RawScores = {1, 7, 11}
    RawSeqs = {2, 3, 4}
    MaxSpoken = 2
    MaxNotes = 2
    MailAttempts = 2
    Owners = {x1, x2}
    Readers = {x1}
    PageSizes = {0, 3}
    DefaultPageSize = 1
    MaxPageSize = 2
    Seeds = 2
    RowStatuses = {"generating"}
    MaxRows = 3
    MaxSubmits = 2
    MaxLoads = 2
    Spoken = {1}
    Tasks = {x1, x2, x3}
INVARIANTS
    TypeOK
    LedgerExplainsBalance
    TastesBounded
    NeverGeneratedOver
    AllOrNothing
    CreditedOnce
    PaidIsCredited
    PlanFollowsSubscription
    SuggestionComplete
    AcceptedIsAnalysed
    PictureMatchesLog
    ChoppingIsInvisible
    GradeIsWhole
    ListingComplete
    InSync
    ShutdownInOrder
PROPERTIES
    FairSettlement
    SettledOnce
    IdentityStays
    FirstLoginUsable
    ReplayKeepsPlan
    PictureStays
CHECK_DEADLOCK FALSE
