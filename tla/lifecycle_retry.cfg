\* A response is lost and the reviewer goes on from a fresh page.
SPECIFICATION Spec
CONSTANTS
    Factors = {reach}
    People = {pat}
    None = None
    PlanItems = {}
    SeededItems = {}
    ForeignItems = {}
    MaxVersion = 4
    MaxRevision = 1
    MaxAssessments = 1
    MaxInputs = 0
    MaxAnswers = 1
    MaxDrafts = 1
    KeptKeys = TRUE
    MaxUpdates = 0
INVARIANT NewWorkIsNotTakenForRecordedWork
CHECK_DEADLOCK FALSE
