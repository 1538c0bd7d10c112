\* A live request: preparation, a question and its answer, decisions, approval.
\* Seeded requests under a changing catalog, approved or resolved, then reset.
SPECIFICATION MCSpec
CONSTANTS
    Kinds = {"live", "seeded"}
    Reviewers = {"r1"}
    Items = {"i1"}
    SeededItems = {"i1"}
    Corpora = {1, 2}
    SeedCorpus = 1
    MaxRevision = 2
    MaxGeneration = 2
    MaxAssessments = 3
    MaxJobs = 3
INVARIANTS
    TypeOK
    ApprovalRestsOnEvidence
    ApprovalIsRecordedOnce
    FreshPagesShowTheRequest
PROPERTIES
    ApprovalIsForTodaysCatalog
    ApprovedEvidenceIsFrozen
    ResetReopensReview
CHECK_DEADLOCK FALSE
