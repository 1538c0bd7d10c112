SPECIFICATION Spec
CONSTANTS
    d1 = d1
    v1 = v1
    v2 = v2
    w1 = w1
    w2 = w2
    None = None
    Drafts = {d1}
    FixtureDrafts = {}
    Purposes = {"asset_match"}
    DraftInputs = {1}
    Corpora = {1}
    SeedCorpus = 1
    Visitors = {v1}
    Workers = {w1, w2}
    ReservedCost = 1
    ActualCosts = {1}
    VisitorDailyCap = 3
    GlobalDailyCap = 3
    MonthlyCap = 3
    MaxDay = 0
    DaysPerMonth = 1
    MaxRevision = 2
    MaxGeneration = 1
    MaxRetries = 1
    MaxFaults = 1
SYMMETRY WorkerSymmetry
INVARIANTS
    TypeOK
    AtMostOneAutomaticRetry
PROPERTIES
    
    LedgerIsAppendOnly
CHECK_DEADLOCK FALSE
