-------------------------------- MODULE Release --------------------------------
(***************************************************************************)
(* Releasing an image (scripts/deploy/deploy-release.ts and the scripts it *)
(* runs: verify-release.ts, run-task.ts, upload-assets.ts,                 *)
(* release-record.ts), over the Terraform state of infra/release, the ECS  *)
(* services, the database and the asset bucket.  The first start of an     *)
(* installation is the same program with other checks.                     *)
(*                                                                         *)
(* Operators (a workflow run, a person), each of them one run of the       *)
(* program, release at the same time: the state lock covers one plan or    *)
(* apply, not a release.  A run that fails a check, errs, times out or is  *)
(* killed takes no further step; trying again is another operator with     *)
(* the same release.  Terraform and ECS are modelled from the calls made   *)
(* to them.                                                                *)
(*                                                                         *)
(* Abstractions.  A release id, its image and its record are one value:    *)
(* tags and stored records are never replaced.  The web and worker         *)
(* families have the same revision numbers, because one image change       *)
(* registers both.  A verification reads both services at one moment, the  *)
(* last of its passes.  Image scans, accounts, log output, availability    *)
(* zones, alarm wiring and the verification task only ever stop an         *)
(* operator.  A task that fails is one that never succeeds.                *)
(***************************************************************************)
EXTENDS Integers, Sequences, FiniteSets

CONSTANTS
    Operators,
    Services,      \* web and worker
    Releases,
    Current,       \* the release that serves, or is installed, at the start
    Migrations,    \* of a release: a set of [name, sha]
    Contract,      \* its prompt versions, purposes and statuses
    Fixture,       \* its reference fixture
    KnownPrior,    \* the installed fixtures its upgrade accepts
    None,
    MaxApplies,    \* bound: Terraform applies
    MaxRollbacks   \* bound: rollouts that fail

ASSUME ReleaseAssumption ==
    /\ Current \in Releases /\ None \notin Releases
    /\ \A r \in Releases : Fixture[r] # None
    /\ MaxApplies \in Nat /\ MaxRollbacks \in Nat

VARIABLES
    state,        \* the release state: serial, settings, revisions and services it last saw
    definitions,  \* service task definitions: the image of each revision
    jobFiles,     \* job task definitions: the image of each revision
    services,     \* the ECS services
    database,     \* applied migrations and the installed fixture
    published,    \* releases whose assets and record are in the bucket
    tasks,        \* one-off tasks submitted, by client token
    operator,     \* what each operator has done and read
    rollbacks     \* history: failed rollouts so far

vars == <<state, definitions, jobFiles, services, database, published, tasks, operator,
          rollbacks>>

Jobs == <<"migration", "fixture-upgrade">>

NoPlan == [serial |-> 0]

\* What an operator keeps: what it read of the settings before, the definitions it
\* last read from the state, its plan and the job it is at.
Idle == [pc |-> "idle", release |-> None, initial |-> FALSE, previous |-> None,
         alarms |-> FALSE, services |-> None, jobs |-> 0, plan |-> NoPlan, job |-> 0]

------------------------------------------------------------------------------
(* Terraform: infra/release *)

\* The image of the service definitions: the candidate while serving revisions are
\* pinned, the release otherwise.
ServiceImage(settings) ==
    IF settings.pins = None THEN settings.released ELSE settings.candidate

Revision(files, latest, image) == IF files[latest] = image THEN latest ELSE Len(files) + 1

\* What an apply of these settings would do, after a refresh of the live services.
PlanOf(settings) ==
    LET revision == Revision(definitions, state.revision, ServiceImage(settings))
        goal(s) == IF settings.pins = None THEN revision ELSE settings.pins[s]
    IN  [serial |-> state.serial,
         settings |-> settings,
         revision |-> revision,
         jobs |-> Revision(jobFiles, state.jobs, settings.candidate),
         goals |-> [s \in Services |-> goal(s)],
         moved |-> {s \in Services : \/ services[s].goal # goal(s)
                                     \/ state.settings.count # settings.count},
         rewired |-> state.settings.alarms # settings.alarms]

NoChange(plan) ==
    /\ plan.moved = {} /\ ~plan.rewired
    /\ plan.revision = state.revision /\ plan.jobs = state.jobs

WithRevision(files, revision, image) ==
    IF revision > Len(files) THEN Append(files, image) ELSE files

\* ECS starts a deployment of the new goal beside what runs.
Deployed(service, goal) ==
    [service EXCEPT !.goal = goal, !.running = @ \cup {goal}, !.rollout = "in_progress"]

\* A saved plan is applied only to the state it was made from.
Apply(plan) ==
    /\ plan.serial = state.serial
    /\ state.serial < MaxApplies
    /\ definitions' = WithRevision(definitions, plan.revision, ServiceImage(plan.settings))
    /\ jobFiles' = WithRevision(jobFiles, plan.jobs, plan.settings.candidate)
    /\ services' = [s \in Services |-> IF s \in plan.moved
                                       THEN Deployed(services[s], plan.goals[s])
                                       ELSE services[s]]
    /\ state' = [serial |-> IF NoChange(plan) /\ plan.settings = state.settings
                            THEN state.serial ELSE state.serial + 1,
                 settings |-> plan.settings, revision |-> plan.revision, jobs |-> plan.jobs,
                 services |-> plan.goals]

------------------------------------------------------------------------------
(* ECS *)

RolloutCompletes(s) ==
    /\ services[s].rollout \in {"in_progress", "rolling_back"}
    /\ services' = [services EXCEPT ![s] = [@ EXCEPT !.rollout = "completed",
                                               !.running = {services[s].goal},
                                               !.last = services[s].goal]]
    /\ UNCHANGED <<state, definitions, jobFiles, database, published, tasks, operator, rollbacks>>

\* The circuit breaker goes back to the last completed deployment; a first
\* deployment has none and stalls.
RolloutFails(s) ==
    LET last == services[s].last IN
    /\ services[s].rollout = "in_progress"
    /\ rollbacks < MaxRollbacks
    /\ rollbacks' = rollbacks + 1
    /\ services' = [services EXCEPT ![s] =
                       IF last = 0 THEN [@ EXCEPT !.rollout = "failed"]
                       ELSE [@ EXCEPT !.goal = last, !.rollout = "rolling_back",
                                      !.running = services[s].running \cup {last}]]
    /\ UNCHANGED <<state, definitions, jobFiles, database, published, tasks, operator>>

------------------------------------------------------------------------------
(* Checks *)

Stopped == state.settings.count = 0 /\ \A s \in Services : services[s].running = {}

\* verify-release: both rollouts completed on the intended revision and image.
Verified(goals, image) ==
    /\ state.settings.count = 2
    /\ \A s \in Services :
           /\ services[s].rollout = "completed"
           /\ services[s].goal = goals[s]
           /\ definitions[services[s].goal] = image

\* requireServingDefinitions
StillServing(pins) ==
    pins # None => \A s \in Services : services[s].rollout = "completed" /\ services[s].goal = pins[s]

\* requireSafePlan: preparing a candidate leaves the services alone.
SafePlan(plan) == plan.settings.pins # None => plan.moved = {} /\ ~plan.rewired

\* Mutant: only job contracts are compared, as compareRecords alone does.
SameContract(previous, release) ==
    /\ Migrations[previous] \subseteq Migrations[release]
    /\ Contract[previous] = Contract[release]

\* checkPrevious with compareRecords.
Compatible(previous, release) ==
    /\ Migrations[previous] = Migrations[release]
    /\ Contract[previous] = Contract[release]

------------------------------------------------------------------------------
(* An operator's release *)

Step(o, pc) == operator[o].pc = pc

Prepared(o) ==
    LET op == operator[o] IN
    [candidate |-> op.release, released |-> IF op.initial THEN op.release ELSE op.previous,
     count |-> IF op.initial THEN 0 ELSE 2, pins |-> op.services, alarms |-> op.alarms]

Running(o) ==
    [candidate |-> operator[o].release, released |-> operator[o].release, count |-> 2,
     pins |-> None, alarms |-> operator[o].alarms]

Alarmed(o) == [Running(o) EXCEPT !.alarms = TRUE]

\* release: the settings are read from the state's outputs.
Begin(o, release, initial) ==
    /\ Step(o, "idle")
    /\ IF initial
       THEN /\ Stopped
            /\ ~state.settings.alarms /\ state.settings.candidate = release
       ELSE state.settings.count = 2
    /\ operator' = [operator EXCEPT ![o] =
                       [Idle EXCEPT !.pc = IF initial THEN "checked" ELSE "reading",
                                    !.release = release, !.initial = initial,
                                    !.previous = IF initial THEN None ELSE state.settings.released,
                                    !.alarms = state.settings.alarms]]
    /\ UNCHANGED <<state, definitions, jobFiles, services, database, published, tasks, rollbacks>>

\* verifyCurrent and checkPrevious
VerifyCurrent(o) ==
    LET previous == operator[o].previous IN
    /\ Step(o, "reading")
    /\ Verified(state.services, previous)
    /\ previous \in published /\ Compatible(previous, operator[o].release)
    /\ operator' = [operator EXCEPT ![o].pc = "checked", ![o].services = state.services]
    /\ UNCHANGED <<state, definitions, jobFiles, services, database, published, tasks, rollbacks>>

\* publishAssets and publishRecord: created once, compared from then on.
Publish(o) ==
    /\ Step(o, "checked")
    /\ published' = published \cup {operator[o].release}
    /\ operator' = [operator EXCEPT ![o].pc = "preparing"]
    /\ UNCHANGED <<state, definitions, jobFiles, services, database, tasks, rollbacks>>

\* applyRelease up to the apply, in each of its three phases.
PlanFor(o, from, settings, to) ==
    /\ Step(o, from)
    /\ StillServing(settings.pins)
    /\ SafePlan(PlanOf(settings))
    /\ operator' = [operator EXCEPT ![o].pc = to, ![o].plan = PlanOf(settings),
                                    ![o].previous = None, ![o].services = None,
                                    ![o].job = 0]
    /\ UNCHANGED <<state, definitions, jobFiles, services, database, published, tasks, rollbacks>>

\* The apply; its outputs are read by another command.
ApplyFor(o, from, to) ==
    /\ Step(o, from)
    /\ StillServing(operator[o].plan.settings.pins)
    /\ Apply(operator[o].plan)
    /\ operator' = [operator EXCEPT ![o].pc = to, ![o].plan = NoPlan]
    /\ UNCHANGED <<database, published, tasks, rollbacks>>

ReadTasks(o, from, to) ==
    /\ Step(o, from)
    /\ operator' = [operator EXCEPT
           ![o] = IF to = "jobs" THEN [@ EXCEPT !.pc = to, !.jobs = state.jobs, !.job = 1]
                                 ELSE [@ EXCEPT !.pc = to, !.services = state.services]]
    /\ UNCHANGED <<state, definitions, jobFiles, services, database, published, tasks, rollbacks>>

\* An installation is stopped before its preparation and before its start.
Prepare(o) ==
    \/ /\ operator[o].initial => Stopped
       /\ PlanFor(o, "preparing", Prepared(o), "prepare")
    \/ ApplyFor(o, "prepare", "prepared")
    \/ ReadTasks(o, "prepared", "jobs")

Start(o) ==
    \/ /\ operator[o].initial => Stopped
       /\ operator[o].job > Len(Jobs)
       /\ PlanFor(o, "jobs", Running(o), "start")
    \/ ApplyFor(o, "start", "started")
    \/ ReadTasks(o, "started", "verifying")

\* finishRelease up to the second verification.
EnableRollbackAlarms(o) ==
    \/ /\ Step(o, "verifying")
       /\ Verified(operator[o].services, operator[o].release)
       /\ PlanFor(o, "verifying", Alarmed(o), "alarm")
    \/ ApplyFor(o, "alarm", "alarmed")
    \/ ReadTasks(o, "alarmed", "finishing")

\* verify-release again, then completeRelease.
VerifyAgain(o) ==
    /\ Step(o, "finishing")
    /\ Verified(operator[o].services, operator[o].release)
    /\ operator' = [operator EXCEPT ![o].pc = "completing", ![o].services = None]
    /\ UNCHANGED <<state, definitions, jobFiles, services, database, published, tasks, rollbacks>>

\* confirmConvergence
Converged(plan) == NoChange(plan)

Report(o) ==
    /\ Step(o, "completing")
    /\ Converged(PlanOf(Alarmed(o)))
    /\ operator' = [operator EXCEPT ![o] = [Idle EXCEPT !.pc = "reported",
                                                        !.release = operator[o].release]]
    /\ UNCHANGED <<state, definitions, jobFiles, services, database, published, tasks, rollbacks>>

------------------------------------------------------------------------------
(* One-off tasks: run-task *)

\* The client token: a task with the same one is not started twice.
Token(o) == [jobs |-> operator[o].jobs, release |-> operator[o].release,
             job |-> Jobs[operator[o].job]]

Submitted(token) == \E t \in tasks : t.token = token

SubmitJob(o) ==
    /\ Step(o, "jobs") /\ operator[o].job \in DOMAIN Jobs
    /\ ~Submitted(Token(o))
    /\ tasks' = tasks \cup {[token |-> Token(o), succeeded |-> FALSE]}
    /\ UNCHANGED <<state, definitions, jobFiles, services, database, published, operator, rollbacks>>

\* awaitTaskCompletion: only a confirmed success goes on.
AwaitJob(o) ==
    /\ Step(o, "jobs") /\ operator[o].job \in DOMAIN Jobs
    /\ [token |-> Token(o), succeeded |-> TRUE] \in tasks
    /\ operator' = [operator EXCEPT ![o].job = @ + 1]
    /\ UNCHANGED <<state, definitions, jobFiles, services, database, published, tasks, rollbacks>>

\* db-migrate: applied migrations may not change; missing ones are applied.
Migratable(image) ==
    \A m \in Migrations[image], n \in database.migrations : m.name = n.name => m = n

Migrated(image) == [database EXCEPT !.migrations = @ \cup Migrations[image]]

\* upgradeFixtureState
Upgradable(image) ==
    /\ database.fixture # None
    /\ database.fixture = Fixture[image] \/ database.fixture \in KnownPrior[image]

Upgraded(image) == [database EXCEPT !.fixture = Fixture[image]]

\* A task ends whenever it ends, whoever still waits for it.
TaskSucceeds(task) ==
    LET image == jobFiles[task.token.jobs]
        done == \/ task.token.job = "migration" /\ Migratable(image) /\ database' = Migrated(image)
                \/ task.token.job = "fixture-upgrade" /\ Upgradable(image)
                   /\ database' = Upgraded(image)
    IN
    /\ ~task.succeeded
    /\ done
    /\ tasks' = (tasks \ {task}) \cup {[task EXCEPT !.succeeded = TRUE]}
    /\ UNCHANGED <<state, definitions, jobFiles, services, published, operator, rollbacks>>

\* The operator's own migration and seed of a stopped installation.
MigrateInstallation ==
    /\ Stopped
    /\ Migratable(state.settings.candidate)
    /\ database' = Migrated(state.settings.candidate)
    /\ UNCHANGED <<state, definitions, jobFiles, services, published, tasks, operator, rollbacks>>

SeedInstallation ==
    /\ Stopped
    /\ database.migrations # {} /\ database.fixture = None
    /\ database' = Upgraded(state.settings.candidate)
    /\ UNCHANGED <<state, definitions, jobFiles, services, published, tasks, operator, rollbacks>>

------------------------------------------------------------------------------
Settings(count, alarms) ==
    [candidate |-> Current, released |-> Current, count |-> count, pins |-> None, alarms |-> alarms]

Revisions(settings) ==
    [serial |-> 0, settings |-> settings, revision |-> 1, jobs |-> 1,
     services |-> [s \in Services |-> 1]]

\* The definitions are registered and nothing runs; the database is empty.
StartInstalled ==
    /\ state = Revisions(Settings(0, FALSE))
    /\ services = [s \in Services |-> [goal |-> 1, running |-> {}, rollout |-> "completed", last |-> 0]]
    /\ database = [migrations |-> {}, fixture |-> None]
    /\ published = {}

\* A release that serves.
StartServing ==
    /\ \E alarms \in BOOLEAN : state = Revisions(Settings(2, alarms))
    /\ services = [s \in Services |-> [goal |-> 1, running |-> {1}, rollout |-> "completed", last |-> 1]]
    /\ database = [migrations |-> Migrations[Current], fixture |-> Fixture[Current]]
    /\ published = {Current}

Init ==
    /\ StartInstalled \/ StartServing
    /\ definitions = <<Current>> /\ jobFiles = <<Current>>
    /\ tasks = {} /\ rollbacks = 0
    /\ operator = [o \in Operators |-> Idle]

OperatorStep(o) ==
    \/ \E release \in Releases, initial \in BOOLEAN : Begin(o, release, initial)
    \/ VerifyCurrent(o) \/ Publish(o) \/ Prepare(o) \/ SubmitJob(o) \/ AwaitJob(o) \/ Start(o)
    \/ EnableRollbackAlarms(o) \/ VerifyAgain(o) \/ Report(o)

Next ==
    \/ \E o \in Operators : OperatorStep(o)
    \/ \E task \in tasks : TaskSucceeds(task)
    \/ \E s \in Services : RolloutCompletes(s) \/ RolloutFails(s)
    \/ MigrateInstallation \/ SeedInstallation

Spec == Init /\ [][Next]_vars

------------------------------------------------------------------------------
(* Properties *)

RunningImages == {definitions[revision] : revision \in UNION {services[s].running : s \in Services}}

\* Whatever releases overlap, stop half way or are rolled back, every task that runs
\* was built for the schema the database has, and all share one job contract: old and
\* new workers never share a queue they read differently (release-record.ts:1-4).
RunningTasksAgree ==
    /\ \A image \in RunningImages : Migrations[image] = database.migrations
    /\ \A image, other \in RunningImages : Contract[image] = Contract[other]

\* What verify-release.ts:1-4 confirms, at the moment a release is reported: every task
\* of both services runs it, with rollback alarms on.  A release that is replaced while
\* it verifies and then tried again breaks it: the report only asks that a plan would
\* change nothing, and a plan does not see the rollout the retry has just begun.
ReportedReleaseServes ==
    [][\A o \in Operators :
           operator'[o].pc = "reported" /\ operator[o].pc # "reported" =>
               RunningImages = {operator[o].release} /\ state.settings.alarms]_vars

------------------------------------------------------------------------------
(* The inductive invariant behind RunningTasksAgree *)

\* The releases whose migrations and contract are those of the one at the start.
Agreeing == {r \in Releases : Compatible(Current, r)}

Revs == 1 .. Len(definitions)
Files == 1 .. Len(jobFiles)

SettingsType == [candidate : Agreeing, released : Agreeing, count : {0, 2},
                 pins : [Services -> Revs] \cup {None}, alarms : BOOLEAN]

\* A plan may bring one more definition of each kind.
PlanType == [serial : Nat, settings : SettingsType, revision : 1 .. Len(definitions) + 1,
             jobs : 1 .. Len(jobFiles) + 1, goals : [Services -> 1 .. Len(definitions) + 1],
             moved : SUBSET Services, rewired : BOOLEAN]

Steps == {"idle", "reading", "checked", "preparing", "prepare", "prepared", "jobs", "start",
          "started", "verifying", "alarm", "alarmed", "finishing", "completing", "reported"}

OperatorType == [pc : Steps, release : Releases \cup {None}, initial : BOOLEAN,
                 previous : Agreeing \cup {None}, alarms : BOOLEAN,
                 services : [Services -> Revs] \cup {None}, jobs : Files \cup {0},
                 plan : PlanType \cup {NoPlan}, job : 0 .. 3]

ServiceType == [goal : Revs, running : SUBSET Revs,
                rollout : {"in_progress", "rolling_back", "completed", "failed"},
                last : Revs \cup {0}]

TokenType == [jobs : Files, release : Releases, job : {"migration", "fixture-upgrade"}]

\* Only agreeing images are ever defined, and every revision in use is defined.
TypeOK ==
    /\ definitions \in Seq(Agreeing) /\ jobFiles \in Seq(Agreeing)
    /\ state \in [serial : Nat, settings : SettingsType, revision : Revs, jobs : Files,
                  services : [Services -> Revs]]
    /\ services \in [Services -> ServiceType]
    /\ tasks \subseteq [token : TokenType, succeeded : BOOLEAN]
    /\ operator \in [Operators -> OperatorType]
    /\ DOMAIN database = {"migrations", "fixture"}

MigrationsApplied == database.migrations = Migrations[Current]

\* What an operator has checked, and what its plan and its jobs rest on.
OperatorIsSound(op) ==
    /\ op.pc \notin {"idle", "reading", "reported"} => op.release \in Agreeing
    /\ op.pc = "reading" => op.release \in Releases /\ op.previous \in Agreeing
    /\ op.pc \in {"checked", "preparing"} /\ ~op.initial => op.previous \in Agreeing
    /\ op.pc \in {"prepare", "start", "alarm"} =>
           /\ op.plan \in PlanType
           /\ \A s \in Services : op.plan.goals[s] \in Revs \cup {op.plan.revision}
    /\ op.pc = "jobs" => op.jobs \in Files /\ op.job \in 1 .. 3
    /\ op.job > 1 => MigrationsApplied

IdlePlan == [serial |-> 0, settings |-> Settings(0, FALSE), revision |-> 1, jobs |-> 1,
             goals |-> [s \in Services |-> 1], moved |-> {}, rewired |-> FALSE]

\* An operator that only prepares the installation again.
OnlyPrepares(op) ==
    /\ op.pc \in {"idle", "checked", "preparing", "prepare", "prepared", "jobs"}
    /\ op.pc # "idle" => op.initial /\ op.release = Current /\ op.alarms = FALSE
    /\ op.services = None
    /\ op.pc = "prepare" => op.plan = IdlePlan

\* An installation whose database is empty: nothing has run and nothing can start.
Untouched ==
    /\ database.migrations = {}
    /\ state = Revisions(Settings(0, FALSE))
    /\ \A s \in Services : services[s].goal = 1 /\ services[s].running = {}
                           /\ services[s].rollout = "completed"
    /\ definitions = <<Current>> /\ jobFiles = <<Current>>
    /\ \A o \in Operators : OnlyPrepares(operator[o])

TasksAreRecorded ==
    \A t \in tasks : t.succeeded /\ t.token.job = "migration" => MigrationsApplied

Sound ==
    /\ TypeOK
    /\ \A o \in Operators : OperatorIsSound(operator[o])
    /\ TasksAreRecorded

IInv == Sound /\ (MigrationsApplied \/ Untouched)
==============================================================================
