SPECIFICATION Spec
CONSTANTS
    Panels = {p1, p2}
    Texts = {"", "a", "b"}
    Initial = ""
    MaxChanges = 2
    MaxRecord = 2
    MaxFaults = 1
INVARIANTS LastChangeSurvives SavedMeansAccepted NoSilentReplacement TokenWasReviewed
CHECK_DEADLOCK FALSE
