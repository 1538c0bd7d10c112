SPECIFICATION Spec
CONSTANTS
    Tabs = {t1, t2}
    Words = {w1, w2}
    Blank = Blank
    Replies = {a, b}
    NoReply = NoReply
    Kinds = {"service"}
    MaxCorpus = 2
    None = None
    intakeAttemptBudget = 2
    MaxVersion = 3
SYMMETRY Symmetry
INVARIANTS AnchorMatchesWords AcceptedAnswerIsKept ShownSuggestionCanBeDecided RoutingRestsOnCurrentServices
PROPERTY DecidedAsShown
CHECK_DEADLOCK FALSE
