\* A release, the one that replaces it, and the first one tried again.
SPECIFICATION Spec
CONSTANTS
    o1 = o1
    o2 = o2
    o3 = o3
    None = None
    web = web
    worker = worker
    Services = {web, worker}
    Operators = {o1, o2, o3}
    Releases = {"current", "next"}
    Current = "current"
    Migrations <- MCMigrations
    Contract <- MCContract
    Fixture <- MCFixture
    KnownPrior <- MCKnownPrior
    MaxApplies = 7
    MaxRollbacks = 0
SYMMETRY Symmetric
PROPERTY ReportedReleaseServes
CHECK_DEADLOCK FALSE
