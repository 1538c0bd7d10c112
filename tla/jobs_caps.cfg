\* One draft with two contents, so two jobs: two visitors' reservations overlap
\* at every limit, the draft's own budget included.
SPECIFICATION Spec
CONSTANTS
    d1 = d1
    v1 = v1
    v2 = v2
    w1 = w1
    w2 = w2
    None = None
    Drafts = {d1}
    FixtureDrafts = {}
    Purposes = {"intake_interpret"}
    DraftInputs = {1, 2}
    Corpora = {1}
    SeedCorpus = 1
    Visitors = {v1, v2}
    Workers = {w1, w2}
    ReservedCost = 2
    ActualCosts = {1}
    VisitorDailyCap = 1
    GlobalDailyCap = 2
    MonthlyCap = 3
    MaxDay = 1
    DaysPerMonth = 1
    MaxRevision = 1
    MaxGeneration = 1
    MaxRetries = 0
    MaxFaults = 0
SYMMETRY PartySymmetry
INVARIANTS
    IntakeBudgetHolds
PROPERTIES
    ClosedReviewIsFinal
    RefinesSpendLedger
CHECK_DEADLOCK FALSE
