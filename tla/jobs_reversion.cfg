SPECIFICATION Spec
CONSTANTS
    d1 = d1
    v1 = v1
    v2 = v2
    w1 = w1
    w2 = w2
    None = None
    Drafts = {d1}
    FixtureDrafts = {}
    Purposes = {"asset_match"}
    DraftInputs = {1, 2}
    Corpora = {1}
    SeedCorpus = 1
    Visitors = {v1}
    Workers = {w1}
    ReservedCost = 1
    ActualCosts = {1}
    VisitorDailyCap = 2
    GlobalDailyCap = 2
    MonthlyCap = 2
    MaxDay = 0
    DaysPerMonth = 1
    MaxRevision = 1
    MaxGeneration = 1
    MaxRetries = 0
    MaxFaults = 0
PROPERTIES
    SubmissionQueuesPreparation
CHECK_DEADLOCK FALSE
