\* Every input of MCProblems, and the rate limiter up to time 10.
SPECIFICATION Spec
CONSTANTS
    Keys = {k1}
    Requests = {r1, r2}
    Burst = 2
    Period = 2
    EvictAfter = 5
    SweepEvery = 2
    MaxStall = 1
    MaxTime = 10
    NoSurat = NoSurat
    NoNumber = NoNumber
    ReviewRows = 2
    WeakRows = 3
    TopRows = 2
    DefaultLimit = 2
    MaxLimit = 3
    AnyState = AnyState
    AnyTag = AnyTag
    AnyQuery = AnyQuery
    Problems <- MCProblems
INVARIANTS WithinBudget DeckQuestionsRight AyatQuestionsRight AcceptedIsAnswerable DueCardsServed PagesCoverPlaces StatisticsTrue
PROPERTY RefusedOverBudget
CHECK_DEADLOCK FALSE
