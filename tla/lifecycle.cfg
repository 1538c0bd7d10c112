SPECIFICATION MCSpec
CONSTANTS
    Factors = {reach}
    People = {pat}
    None = None
    PlanItems = {sim}
    SeededItems = {seeded}
    ForeignItems = {}
    MaxVersion = 4
    MaxRevision = 2
    MaxAssessments = 2
    MaxInputs = 1
    MaxAnswers = 2
    MaxDrafts = 1
    KeptKeys = FALSE
    MaxUpdates = 2
INVARIANTS
    TypeOK
    ScoreMatchesFactors
    ResolvedInputRestsOnLaterJudgment
    OfferedCompletionIsAccepted
    CompletedReviewLeavesNoOpenQuestion
    FulfilmentJudgedAllRequired
    ActionNeededIsAccepted
PROPERTY
    NothingMovesAfterResolution
CHECK_DEADLOCK FALSE
