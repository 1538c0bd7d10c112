SPECIFICATION Spec
CONSTANTS
    o1 = o1
    o2 = o2
    None = None
    web = web
    worker = worker
    Services = {web, worker}
    Operators = {o1, o2}
    Releases = {"current", "next", "wider"}
    Current = "current"
    Migrations <- MCMigrations
    Contract <- MCContract
    Fixture <- MCFixture
    KnownPrior <- MCKnownPrior
    MaxApplies = 6
    MaxRollbacks = 3
SYMMETRY Symmetric
INVARIANT RunningTasksAgree
CHECK_DEADLOCK FALSE
