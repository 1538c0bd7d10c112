SPECIFICATION FairSpec
CONSTANTS
    d1 = d1
    v1 = v1
    v2 = v2
    w1 = w1
    w2 = w2
    None = None
    Drafts = {d1}
    FixtureDrafts = {d1}
    Purposes = {"risk_assess"}
    DraftInputs = {1}
    Corpora = {1}
    SeedCorpus = 1
    Visitors = {v1}
    Workers = {w1, w2}
    ReservedCost = 1
    ActualCosts = {1}
    VisitorDailyCap = 2
    GlobalDailyCap = 2
    MonthlyCap = 2
    MaxDay = 0
    DaysPerMonth = 1
    MaxRevision = 2
    MaxGeneration = 2
    MaxRetries = 0
    MaxFaults = 1
INVARIANTS
    ReservationHasOwner
PROPERTIES
    ClosedReviewIsFinal
    OnlyFreshResultsMaterialize
    QueuedWorkSettles
CHECK_DEADLOCK FALSE
