---------------------------- MODULE ReleaseProofs ----------------------------
(* Proofs about Release, for every set of operators, releases and bounds. *)
EXTENDS Release, TLAPS

------------------------------------------------------------------------------
(* Images that agree, and types that grow with the definitions *)

LEMMA AgreeingFacts ==
    /\ Current \in Agreeing
    /\ None \notin Agreeing /\ Agreeing \subseteq Releases
    /\ \A r \in Agreeing : Migrations[r] = Migrations[Current] /\ Contract[r] = Contract[Current]
    /\ \A r \in Agreeing, q \in Releases : Compatible(r, q) => q \in Agreeing
BY ReleaseAssumption DEF Agreeing, Compatible

\* Nothing loses its type when definitions are added.
LEMMA TypesGrow ==
    ASSUME definitions \in Seq(Agreeing), jobFiles \in Seq(Agreeing),
           definitions' \in Seq(Agreeing), jobFiles' \in Seq(Agreeing),
           Len(definitions) <= Len(definitions'), Len(jobFiles) <= Len(jobFiles')
    PROVE  /\ Revs \subseteq Revs' /\ Files \subseteq Files'
           /\ SettingsType \subseteq SettingsType' /\ PlanType \subseteq PlanType'
           /\ OperatorType \subseteq OperatorType' /\ ServiceType \subseteq ServiceType'
           /\ TokenType \subseteq TokenType'
<1>1. Len(definitions) \in Nat /\ Len(definitions') \in Nat
  OBVIOUS
<1>2. Len(jobFiles) \in Nat /\ Len(jobFiles') \in Nat
  OBVIOUS
<1>3. Revs \subseteq Revs' /\ 1 .. Len(definitions) + 1 \subseteq 1 .. Len(definitions') + 1
  BY <1>1 DEF Revs
<1>4. Files \subseteq Files' /\ 1 .. Len(jobFiles) + 1 \subseteq 1 .. Len(jobFiles') + 1
  BY <1>2 DEF Files
<1>5. [Services -> Revs] \subseteq [Services -> Revs']
  BY <1>3
<1>6. [Services -> 1 .. Len(definitions) + 1] \subseteq [Services -> 1 .. Len(definitions') + 1]
  BY <1>3
<1>7. SettingsType \subseteq SettingsType'
  BY <1>5 DEF SettingsType
<1>8. PlanType \subseteq PlanType'
  BY <1>3, <1>4, <1>6, <1>7 DEF PlanType
<1>9. OperatorType \subseteq OperatorType'
  BY <1>4, <1>5, <1>8 DEF OperatorType
<1>10. ServiceType \subseteq ServiceType' /\ TokenType \subseteq TokenType'
  BY <1>3, <1>4 DEF ServiceType, TokenType
<1> QED BY <1>3, <1>4, <1>7, <1>8, <1>9, <1>10

\* A plan brings at most one definition more and points services at defined revisions.
LEMMA PlanIsTyped ==
    ASSUME TypeOK, NEW settings \in SettingsType
    PROVE  /\ PlanOf(settings) \in PlanType
           /\ PlanOf(settings).settings = settings
           /\ \A s \in Services :
                  PlanOf(settings).goals[s] \in Revs \cup {PlanOf(settings).revision}
<1> DEFINE revision == Revision(definitions, state.revision, ServiceImage(settings))
           goal(s) == IF settings.pins = None THEN revision ELSE settings.pins[s]
           job == Revision(jobFiles, state.jobs, settings.candidate)
<1>1. Len(definitions) \in Nat /\ Len(jobFiles) \in Nat
  BY DEF TypeOK
<1>2. state.revision \in Revs /\ state.jobs \in Files /\ state.serial \in Nat
  BY DEF TypeOK
<1>3. revision \in 1 .. Len(definitions) + 1
  BY <1>1, <1>2 DEF Revision, Revs
<1>4. job \in 1 .. Len(jobFiles) + 1
  BY <1>1, <1>2 DEF Revision, Files
<1>5. settings.pins # None => settings.pins \in [Services -> Revs]
  BY DEF SettingsType
<1>6. \A s \in Services : goal(s) \in Revs \cup {revision} /\ goal(s) \in 1 .. Len(definitions) + 1
  BY <1>1, <1>3, <1>5 DEF Revs
<1> HIDE DEF revision, job, goal
<1>7. PlanOf(settings) = [serial |-> state.serial, settings |-> settings, revision |-> revision,
                          jobs |-> job, goals |-> [s \in Services |-> goal(s)],
                          moved |-> {s \in Services : \/ services[s].goal # goal(s)
                                                      \/ state.settings.count # settings.count},
                          rewired |-> state.settings.alarms # settings.alarms]
  BY DEF PlanOf, revision, job, goal
<1>8. [s \in Services |-> goal(s)] \in [Services -> 1 .. Len(definitions) + 1]
  BY <1>6
<1>9. (state.settings.alarms # settings.alarms) \in BOOLEAN
  OBVIOUS
<1> QED BY <1>2, <1>3, <1>4, <1>6, <1>7, <1>8, <1>9 DEF PlanType

\* Files grow by the plan's agreeing image or stay.
LEMMA FileGrows ==
    ASSUME NEW files \in Seq(Agreeing), NEW revision \in 1 .. Len(files) + 1,
           NEW image \in Agreeing
    PROVE  /\ WithRevision(files, revision, image) \in Seq(Agreeing)
           /\ Len(files) <= Len(WithRevision(files, revision, image))
           /\ revision \in 1 .. Len(WithRevision(files, revision, image))
<1>1. Len(files) \in Nat
  OBVIOUS
<1>2. CASE revision > Len(files)
  <2>1. WithRevision(files, revision, image) = Append(files, image)
    BY <1>2 DEF WithRevision
  <2>2. Append(files, image) \in Seq(Agreeing) /\ Len(Append(files, image)) = Len(files) + 1
    OBVIOUS
  <2> QED BY <1>1, <2>1, <2>2
<1>3. CASE ~(revision > Len(files))
  BY <1>1, <1>3 DEF WithRevision
<1> QED BY <1>2, <1>3

\* An apply registers agreeing images and leaves everything defined.
LEMMA ApplyIsTyped ==
    ASSUME TypeOK, NEW plan \in PlanType, Apply(plan),
           \A s \in Services : plan.goals[s] \in Revs \cup {plan.revision}
    PROVE  /\ definitions' \in Seq(Agreeing) /\ jobFiles' \in Seq(Agreeing)
           /\ Len(definitions) <= Len(definitions') /\ Len(jobFiles) <= Len(jobFiles')
           /\ state' \in [serial : Nat, settings : SettingsType', revision : Revs',
                          jobs : Files', services : [Services -> Revs']]
           /\ services' \in [Services -> ServiceType']
<1>1. /\ plan.settings \in SettingsType /\ plan.revision \in 1 .. Len(definitions) + 1
      /\ plan.jobs \in 1 .. Len(jobFiles) + 1 /\ plan.goals \in [Services -> 1 .. Len(definitions) + 1]
  BY DEF PlanType
<1>2. ServiceImage(plan.settings) \in Agreeing /\ plan.settings.candidate \in Agreeing
  BY <1>1 DEF ServiceImage, SettingsType
<1>3. /\ definitions' = WithRevision(definitions, plan.revision, ServiceImage(plan.settings))
      /\ jobFiles' = WithRevision(jobFiles, plan.jobs, plan.settings.candidate)
  BY DEF Apply
<1>4. /\ definitions' \in Seq(Agreeing) /\ jobFiles' \in Seq(Agreeing)
      /\ Len(definitions) <= Len(definitions') /\ Len(jobFiles) <= Len(jobFiles')
      /\ plan.revision \in Revs' /\ plan.jobs \in Files'
  BY <1>1, <1>2, <1>3, FileGrows DEF TypeOK, Revs, Files
<1>5. /\ Revs \subseteq Revs' /\ SettingsType \subseteq SettingsType'
      /\ ServiceType \subseteq ServiceType'
  BY <1>4, TypesGrow DEF TypeOK
<1>6. plan.goals \in [Services -> Revs']
  BY <1>1, <1>4, <1>5
<1>7. state' \in [serial : Nat, settings : SettingsType', revision : Revs',
                  jobs : Files', services : [Services -> Revs']]
  <2>1. state.serial \in Nat
    BY DEF TypeOK
  <2>2. state'.serial \in Nat
    BY <2>1 DEF Apply
  <2>3. state' = [serial |-> state'.serial, settings |-> plan.settings,
                  revision |-> plan.revision, jobs |-> plan.jobs, services |-> plan.goals]
    BY DEF Apply
  <2> QED BY <1>1, <1>4, <1>5, <1>6, <2>2, <2>3
<1>8. services' \in [Services -> ServiceType']
  <2>1. services' = [s \in Services |-> IF s \in plan.moved
                                        THEN Deployed(services[s], plan.goals[s])
                                        ELSE services[s]]
    BY DEF Apply
  <2>2. \A s \in Services : services[s] \in ServiceType'
    BY <1>5 DEF TypeOK
  <2>3. ASSUME NEW s \in Services
        PROVE  Deployed(services[s], plan.goals[s]) \in ServiceType'
    <3>1. /\ services[s] \in ServiceType' /\ plan.goals[s] \in Revs'
          /\ services[s].running \in SUBSET Revs' /\ services[s].last \in Revs' \cup {0}
      BY <1>6, <2>2 DEF ServiceType
    <3> DEFINE run == services[s].running \cup {plan.goals[s]}
    <3>2. run \in SUBSET Revs'
      BY <3>1
    <3>3. Deployed(services[s], plan.goals[s]) =
              [services[s] EXCEPT !.goal = plan.goals[s], !.running = run,
                                  !.rollout = "in_progress"]
      BY DEF Deployed
    <3> HIDE DEF run
    <3> QED BY <3>1, <3>2, <3>3 DEF ServiceType
  <2> QED BY <2>1, <2>2, <2>3
<1> QED BY <1>4, <1>7, <1>8

------------------------------------------------------------------------------
(* The steps of an operator *)

\* What an operator has checked stays so while definitions and migrations are added.
LEMMA SoundnessGrows ==
    ASSUME NEW op, OperatorIsSound(op), Revs \subseteq Revs', Files \subseteq Files',
           PlanType \subseteq PlanType', MigrationsApplied => MigrationsApplied'
    PROVE  OperatorIsSound(op)'
BY DEF OperatorIsSound

\* An operator that changes only what it remembers.
LEMMA OperatorMoves ==
    ASSUME Sound, NEW o \in Operators, NEW op \in OperatorType, OperatorIsSound(op),
           operator' = [operator EXCEPT ![o] = op],
           UNCHANGED <<state, definitions, jobFiles, services, database, tasks>>
    PROVE  Sound'
<1>1. /\ Revs' = Revs /\ Files' = Files /\ SettingsType' = SettingsType
      /\ PlanType' = PlanType /\ OperatorType' = OperatorType /\ ServiceType' = ServiceType
      /\ TokenType' = TokenType
  BY DEF Revs, Files, SettingsType, PlanType, OperatorType, ServiceType, TokenType
<1>2. operator' \in [Operators -> OperatorType]
  BY DEF Sound, TypeOK
<1>3. TypeOK'
  BY <1>1, <1>2 DEF Sound, TypeOK
<1>4. MigrationsApplied' <=> MigrationsApplied
  BY DEF MigrationsApplied
<1>5. ASSUME NEW p \in Operators
      PROVE  OperatorIsSound(operator[p])'
  <2>1. operator'[p] = IF p = o THEN op ELSE operator[p]
    BY DEF Sound, TypeOK
  <2>2. OperatorIsSound(operator[p])
    BY DEF Sound
  <2>3. CASE p = o
    BY <1>1, <1>4, <2>1, <2>3 DEF OperatorIsSound
  <2>4. CASE p # o
    BY <1>1, <1>4, <2>1, <2>2, <2>4 DEF OperatorIsSound
  <2> QED BY <2>3, <2>4
<1>6. TasksAreRecorded'
  BY <1>4 DEF Sound, TasksAreRecorded
<1> QED BY <1>3, <1>5, <1>6 DEF Sound

LEMMA IdleIsTyped == Idle \in OperatorType /\ Idle.job = 0
BY DEF Idle, OperatorType, Steps

\* A release begins with what the state says is released.
LEMMA BeginIsSound ==
    ASSUME Sound, NEW o \in Operators, NEW release \in Releases, NEW initial \in BOOLEAN,
           Begin(o, release, initial)
    PROVE  Sound'
<1>1. /\ state.settings \in SettingsType /\ operator \in [Operators -> OperatorType]
  BY DEF Sound, TypeOK
<1>2. /\ state.settings.candidate \in Agreeing /\ state.settings.released \in Agreeing
      /\ state.settings.alarms \in BOOLEAN
  BY <1>1 DEF SettingsType
<1> DEFINE op == [Idle EXCEPT !.pc = IF initial THEN "checked" ELSE "reading",
                              !.release = release, !.initial = initial,
                              !.previous = IF initial THEN None ELSE state.settings.released,
                              !.alarms = state.settings.alarms]
<1>3. /\ operator' = [operator EXCEPT ![o] = op]
      /\ UNCHANGED <<state, definitions, jobFiles, services, database, tasks>>
      /\ initial => state.settings.candidate = release
  BY DEF Begin
<1>4. /\ op.pc = (IF initial THEN "checked" ELSE "reading") /\ op.release = release
      /\ op.initial = initial /\ op.previous = (IF initial THEN None ELSE state.settings.released)
      /\ op.job = 0
  BY IdleIsTyped DEF OperatorType
<1>5. op \in OperatorType
  BY <1>2, IdleIsTyped DEF OperatorType, Steps
<1> HIDE DEF op
<1>6. OperatorIsSound(op)
  BY <1>2, <1>3, <1>4 DEF OperatorIsSound
<1> QED BY <1>3, <1>5, <1>6, OperatorMoves

\* The record of one operator, typed and sound.
LEMMA OperatorFacts ==
    ASSUME Sound, NEW o \in Operators
    PROVE  /\ operator[o] \in OperatorType /\ OperatorIsSound(operator[o])
           /\ operator \in [Operators -> OperatorType]
           /\ TypeOK
           /\ state.services \in [Services -> Revs] /\ state.jobs \in Files
BY DEF Sound, TypeOK

\* The checks, the publication, the verifications and the report change only the operator.
LEMMA ChecksAreSound ==
    ASSUME Sound, NEW o \in Operators,
           VerifyCurrent(o) \/ Publish(o) \/ AwaitJob(o) \/ VerifyAgain(o) \/ Report(o)
    PROVE  Sound'
<1> DEFINE was == operator[o]
<1>1. /\ was \in OperatorType /\ OperatorIsSound(was) /\ operator \in [Operators -> OperatorType]
      /\ state.services \in [Services -> Revs]
  BY OperatorFacts
<1>2. UNCHANGED <<state, definitions, jobFiles, services, database, tasks>>
  BY DEF VerifyCurrent, Publish, AwaitJob, VerifyAgain, Report
<1>3. CASE VerifyCurrent(o)
  <2> DEFINE op == [was EXCEPT !.pc = "checked", !.services = state.services]
  <2>1. /\ operator' = [operator EXCEPT ![o] = op] /\ was.pc = "reading"
        /\ Compatible(was.previous, was.release)
    BY <1>1, <1>3 DEF VerifyCurrent, Step
  <2>2. /\ op.pc = "checked" /\ op.release = was.release /\ op.previous = was.previous
        /\ op.initial = was.initial /\ op.job = was.job
    BY <1>1 DEF OperatorType
  <2>3. op \in OperatorType
    BY <1>1 DEF OperatorType, Steps
  <2>4. was.release \in Agreeing
    <3>1. was.release \in Releases
      BY <1>1, <2>1 DEF OperatorIsSound
    <3>2. was.previous \in Agreeing
      BY <1>1, <2>1 DEF OperatorIsSound
    <3> QED BY <2>1, <3>1, <3>2, AgreeingFacts
  <2> HIDE DEF op
  <2>5. OperatorIsSound(op)
    BY <1>1, <2>1, <2>2, <2>4 DEF OperatorIsSound
  <2> QED BY <1>2, <2>1, <2>3, <2>5, OperatorMoves
<1>4. CASE Publish(o) \/ VerifyAgain(o)
  <2>1. PICK pc \in {"preparing", "completing"}, remembered \in {was.services, None} :
               /\ operator' = [operator EXCEPT ![o] = [was EXCEPT !.pc = pc, !.services = remembered]]
               /\ was.pc \in {"checked", "finishing"}
               /\ pc = "preparing" => was.pc = "checked"
    <3>1. [was EXCEPT !.pc = "preparing"] = [was EXCEPT !.pc = "preparing", !.services = was.services]
      BY <1>1 DEF OperatorType
    <3> QED BY <1>1, <1>4, <3>1 DEF Publish, VerifyAgain, Step
  <2> DEFINE op == [was EXCEPT !.pc = pc, !.services = remembered]
  <2>2. /\ op.pc = pc /\ op.release = was.release /\ op.previous = was.previous
        /\ op.initial = was.initial /\ op.job = was.job
    BY <1>1 DEF OperatorType
  <2>3. op \in OperatorType
    BY <1>1 DEF OperatorType, Steps
  <2> HIDE DEF op
  <2>4. OperatorIsSound(op)
    BY <1>1, <2>1, <2>2 DEF OperatorIsSound
  <2> QED BY <1>2, <2>1, <2>3, <2>4, OperatorMoves DEF op
<1>5. CASE AwaitJob(o)
  <2> DEFINE op == [was EXCEPT !.job = @ + 1]
  <2>1. /\ operator' = [operator EXCEPT ![o] = op] /\ was.pc = "jobs" /\ was.job \in DOMAIN Jobs
        /\ [token |-> Token(o), succeeded |-> TRUE] \in tasks
    BY <1>1, <1>5 DEF AwaitJob, Step
  <2>2. was.job \in {1, 2}
    BY <2>1 DEF Jobs
  <2>3. MigrationsApplied
    <3>1. CASE was.job = 1
      <4>1. Token(o).job = "migration"
        BY <3>1 DEF Token, Jobs
      <4> QED BY <2>1, <4>1 DEF Sound, TasksAreRecorded
    <3>2. CASE was.job = 2
      BY <1>1, <3>2 DEF OperatorIsSound
    <3> QED BY <2>2, <3>1, <3>2
  <2>4. /\ op.pc = was.pc /\ op.release = was.release /\ op.job = was.job + 1
        /\ op.jobs = was.jobs
    BY <1>1 DEF OperatorType
  <2>5. op \in OperatorType
    BY <1>1, <2>2 DEF OperatorType
  <2> HIDE DEF op
  <2>6. OperatorIsSound(op)
    BY <1>1, <2>1, <2>2, <2>3, <2>4 DEF OperatorIsSound
  <2> QED BY <1>2, <2>1, <2>5, <2>6, OperatorMoves
<1>6. CASE Report(o)
  <2> DEFINE op == [Idle EXCEPT !.pc = "reported", !.release = was.release]
  <2>1. operator' = [operator EXCEPT ![o] = op]
    BY <1>6 DEF Report
  <2>2. op.pc = "reported" /\ op.job = 0
    BY IdleIsTyped DEF OperatorType
  <2>3. op \in OperatorType
    BY <1>1, IdleIsTyped DEF OperatorType, Steps
  <2> HIDE DEF op
  <2>4. OperatorIsSound(op)
    BY <2>2 DEF OperatorIsSound
  <2> QED BY <1>2, <2>1, <2>3, <2>4, OperatorMoves
<1> QED BY <1>3, <1>4, <1>5, <1>6

\* A plan made from settled settings is one the operator may keep.
LEMMA PlanningIsSound ==
    ASSUME Sound, NEW o \in Operators, NEW from \in {"preparing", "jobs", "verifying"},
           NEW settings \in SettingsType, NEW to \in {"prepare", "start", "alarm"},
           PlanFor(o, from, settings, to)
    PROVE  Sound'
<1> DEFINE was == operator[o]
           plan == PlanOf(settings)
           op == [was EXCEPT !.pc = to, !.plan = plan, !.previous = None, !.services = None,
                             !.job = 0]
<1>1. /\ was \in OperatorType /\ OperatorIsSound(was) /\ operator \in [Operators -> OperatorType]
  BY OperatorFacts
<1>2. /\ plan \in PlanType
      /\ \A s \in Services : plan.goals[s] \in Revs \cup {plan.revision}
  BY PlanIsTyped DEF Sound
<1> HIDE DEF plan
<1>3. /\ operator' = [operator EXCEPT ![o] = op] /\ was.pc = from
      /\ UNCHANGED <<state, definitions, jobFiles, services, database, tasks>>
  BY <1>1 DEF PlanFor, Step, plan
<1>4. op.pc = to /\ op.release = was.release /\ op.plan = plan /\ op.job = 0
  BY <1>1 DEF OperatorType
<1>5. op \in OperatorType
  <2>1. /\ to \in Steps /\ 0 \in 0 .. 3 /\ plan \in PlanType \cup {NoPlan}
        /\ None \in Agreeing \cup {None} /\ None \in [Services -> Revs] \cup {None}
    BY <1>2 DEF Steps
  <2> QED BY <1>1, <2>1 DEF OperatorType
<1> HIDE DEF op
<1>6. OperatorIsSound(op)
  BY <1>1, <1>2, <1>3, <1>4 DEF OperatorIsSound
<1> QED BY <1>3, <1>5, <1>6, OperatorMoves

\* An apply adds agreeing definitions for everybody.
LEMMA ApplyingIsSound ==
    ASSUME Sound, NEW o \in Operators, NEW from \in {"prepare", "start", "alarm"},
           NEW to \in {"prepared", "started", "alarmed"}, ApplyFor(o, from, to)
    PROVE  Sound'
<1> DEFINE was == operator[o]
           op == [was EXCEPT !.pc = to, !.plan = NoPlan]
<1>1. /\ was \in OperatorType /\ OperatorIsSound(was) /\ operator \in [Operators -> OperatorType]
      /\ TypeOK
  BY OperatorFacts
<1>2. /\ operator' = [operator EXCEPT ![o] = op] /\ was.pc = from /\ Apply(was.plan)
      /\ UNCHANGED <<database, tasks>>
  BY <1>1 DEF ApplyFor, Step
<1>3. /\ was.plan \in PlanType
      /\ \A s \in Services : was.plan.goals[s] \in Revs \cup {was.plan.revision}
  BY <1>1, <1>2 DEF OperatorIsSound
<1>4. /\ definitions' \in Seq(Agreeing) /\ jobFiles' \in Seq(Agreeing)
      /\ Len(definitions) <= Len(definitions') /\ Len(jobFiles) <= Len(jobFiles')
      /\ state' \in [serial : Nat, settings : SettingsType', revision : Revs',
                     jobs : Files', services : [Services -> Revs']]
      /\ services' \in [Services -> ServiceType']
  BY <1>1, <1>2, <1>3, ApplyIsTyped
<1>5. /\ Revs \subseteq Revs' /\ Files \subseteq Files' /\ PlanType \subseteq PlanType'
      /\ OperatorType \subseteq OperatorType' /\ TokenType \subseteq TokenType'
  BY <1>1, <1>4, TypesGrow DEF TypeOK
<1>6. op.pc = to /\ op.release = was.release /\ op.job = was.job
  BY <1>1 DEF OperatorType
<1>7. op \in OperatorType
  BY <1>1 DEF OperatorType, Steps
<1> HIDE DEF op
<1>8. MigrationsApplied' <=> MigrationsApplied
  BY <1>2 DEF MigrationsApplied
<1>9. TypeOK'
  <2>1. operator' \in [Operators -> OperatorType']
    BY <1>1, <1>2, <1>5, <1>7
  <2>2. tasks' \subseteq [token : TokenType', succeeded : BOOLEAN]
    <3>1. tasks \subseteq [token : TokenType, succeeded : BOOLEAN]
      BY <1>1 DEF TypeOK
    <3>2. [token : TokenType, succeeded : BOOLEAN] \subseteq [token : TokenType', succeeded : BOOLEAN]
      BY <1>5
    <3> QED BY <1>2, <3>1, <3>2
  <2>3. DOMAIN database' = {"migrations", "fixture"}
    BY <1>1, <1>2 DEF TypeOK
  <2> QED BY <1>4, <2>1, <2>2, <2>3 DEF TypeOK, Agreeing
<1>10. ASSUME NEW p \in Operators
       PROVE  OperatorIsSound(operator[p])'
  <2>1. CASE p = o
    <3>1. operator'[p] = op
      BY <1>1, <1>2, <2>1
    <3>2. op.release \in Agreeing /\ (op.job > 1 => MigrationsApplied)
      BY <1>1, <1>2, <1>6 DEF OperatorIsSound
    <3> QED BY <1>6, <1>8, <3>1, <3>2 DEF OperatorIsSound, Agreeing
  <2>2. CASE p # o
    <3>1. operator'[p] = operator[p] /\ OperatorIsSound(operator[p])
      BY <1>1, <1>2, <2>2, OperatorFacts
    <3>2. OperatorIsSound(operator[p])'
      BY <1>5, <1>8, <3>1 DEF OperatorIsSound, Agreeing
    <3> QED BY <3>2
  <2> QED BY <2>1, <2>2
<1>11. TasksAreRecorded'
  BY <1>2, <1>8 DEF Sound, TasksAreRecorded
<1> QED BY <1>9, <1>10, <1>11 DEF Sound

\* What an operator reads of the state is defined.
LEMMA ReadingIsSound ==
    ASSUME Sound, NEW o \in Operators, NEW from \in {"prepared", "started", "alarmed"},
           NEW to \in {"jobs", "verifying", "finishing"}, ReadTasks(o, from, to)
    PROVE  Sound'
<1> DEFINE was == operator[o]
<1>1. /\ was \in OperatorType /\ OperatorIsSound(was) /\ operator \in [Operators -> OperatorType]
      /\ state.services \in [Services -> Revs] /\ state.jobs \in Files
  BY OperatorFacts
<1>2. /\ was.pc = from
      /\ UNCHANGED <<state, definitions, jobFiles, services, database, tasks>>
  BY DEF ReadTasks, Step
<1>3. was.release \in Agreeing /\ (was.job > 1 => MigrationsApplied)
  BY <1>1, <1>2 DEF OperatorIsSound
<1>4. CASE to = "jobs"
  <2> DEFINE op == [was EXCEPT !.pc = to, !.jobs = state.jobs, !.job = 1]
  <2>1. operator' = [operator EXCEPT ![o] = op]
    BY <1>4 DEF ReadTasks
  <2>2. op.pc = to /\ op.release = was.release /\ op.jobs = state.jobs /\ op.job = 1
    BY <1>1 DEF OperatorType
  <2>3. op \in OperatorType
    <3>1. to \in Steps /\ 1 \in 0 .. 3 /\ state.jobs \in Files \cup {0}
      BY <1>1 DEF Steps
    <3> QED BY <1>1, <3>1 DEF OperatorType
  <2> HIDE DEF op
  <2>4. OperatorIsSound(op)
    BY <1>1, <1>3, <1>4, <2>2 DEF OperatorIsSound
  <2> QED BY <1>2, <2>1, <2>3, <2>4, OperatorMoves
<1>5. CASE to # "jobs"
  <2> DEFINE op == [was EXCEPT !.pc = to, !.services = state.services]
  <2>1. operator' = [operator EXCEPT ![o] = op]
    BY <1>5 DEF ReadTasks
  <2>2. op.pc = to /\ op.release = was.release /\ op.job = was.job
    BY <1>1 DEF OperatorType
  <2>3. op \in OperatorType
    BY <1>1 DEF OperatorType, Steps
  <2> HIDE DEF op
  <2>4. OperatorIsSound(op)
    BY <1>3, <1>5, <2>2 DEF OperatorIsSound
  <2> QED BY <1>2, <2>1, <2>3, <2>4, OperatorMoves
<1> QED BY <1>4, <1>5

\* The three phases of a release ask Terraform for agreeing settings.
LEMMA PhasesAreSound ==
    ASSUME Sound, NEW o \in Operators, Prepare(o) \/ Start(o) \/ EnableRollbackAlarms(o)
    PROVE  Sound'
<1> DEFINE was == operator[o]
<1>1. was \in OperatorType /\ OperatorIsSound(was)
  BY OperatorFacts
<1>2. ASSUME PlanFor(o, "preparing", Prepared(o), "prepare")
      PROVE  Sound'
  <2>1. was.pc = "preparing"
    BY <1>2 DEF PlanFor, Step
  <2>2. was.release \in Agreeing /\ (~was.initial => was.previous \in Agreeing)
    BY <1>1, <2>1 DEF OperatorIsSound
  <2>3. Prepared(o) \in SettingsType
    BY <1>1, <2>2 DEF Prepared, SettingsType, OperatorType
  <2> QED BY <1>2, <2>3, PlanningIsSound
<1>3. ASSUME NEW from \in {"jobs", "verifying"}, NEW settings \in {Running(o), Alarmed(o)},
             NEW to \in {"start", "alarm"}, PlanFor(o, from, settings, to)
      PROVE  Sound'
  <2>1. was.pc = from
    BY <1>3 DEF PlanFor, Step
  <2>2. was.release \in Agreeing /\ was.alarms \in BOOLEAN
    BY <1>1, <2>1 DEF OperatorIsSound, OperatorType
  <2>3. Running(o) \in SettingsType
    BY <2>2 DEF Running, SettingsType
  <2>4. Alarmed(o) \in SettingsType
    BY <2>3 DEF Alarmed, SettingsType
  <2> QED BY <1>3, <2>3, <2>4, PlanningIsSound
<1>4. CASE Prepare(o)
  BY <1>2, <1>4, ApplyingIsSound, ReadingIsSound DEF Prepare
<1>5. CASE Start(o)
  BY <1>3, <1>5, ApplyingIsSound, ReadingIsSound DEF Start
<1>6. CASE EnableRollbackAlarms(o)
  BY <1>3, <1>6, ApplyingIsSound, ReadingIsSound DEF EnableRollbackAlarms
<1> QED BY <1>4, <1>5, <1>6

------------------------------------------------------------------------------
(* The steps of tasks, rollouts and the installation *)

\* A step that changes no definition, no setting and no operator.
LEMMA WorldMoves ==
    ASSUME Sound, UNCHANGED <<state, definitions, jobFiles, operator>>,
           services' \in [Services -> ServiceType],
           tasks' \subseteq [token : TokenType, succeeded : BOOLEAN],
           DOMAIN database' = {"migrations", "fixture"},
           MigrationsApplied => MigrationsApplied', TasksAreRecorded'
    PROVE  Sound'
<1>1. /\ Revs' = Revs /\ Files' = Files /\ SettingsType' = SettingsType
      /\ PlanType' = PlanType /\ OperatorType' = OperatorType /\ ServiceType' = ServiceType
      /\ TokenType' = TokenType
  BY DEF Revs, Files, SettingsType, PlanType, OperatorType, ServiceType, TokenType
<1>2. TypeOK'
  BY <1>1 DEF Sound, TypeOK
<1>3. ASSUME NEW p \in Operators
      PROVE  OperatorIsSound(operator[p])'
  BY <1>1 DEF Sound, OperatorIsSound
<1> QED BY <1>2, <1>3 DEF Sound

\* Applying an agreeing image's migrations gives the ones of the start, from nothing or
\* from themselves.
LEMMA MigratedFacts ==
    ASSUME TypeOK, NEW image \in Agreeing, database' = Migrated(image)
    PROVE  /\ DOMAIN database' = {"migrations", "fixture"}
           /\ MigrationsApplied => MigrationsApplied'
           /\ database.migrations = {} => MigrationsApplied'
<1>1. DOMAIN database = {"migrations", "fixture"}
  BY DEF TypeOK
<1>2. database'.migrations = database.migrations \cup Migrations[Current]
  BY <1>1, AgreeingFacts DEF Migrated
<1>3. DOMAIN database' = {"migrations", "fixture"}
  BY <1>1 DEF Migrated
<1> QED BY <1>2, <1>3 DEF MigrationsApplied

\* Installing a fixture leaves the migrations.
LEMMA UpgradedFacts ==
    ASSUME TypeOK, NEW image, database' = Upgraded(image)
    PROVE  /\ DOMAIN database' = {"migrations", "fixture"}
           /\ database'.migrations = database.migrations
BY DEF TypeOK, Upgraded

\* What a succeeded task did to the database.
LEMMA TaskFacts ==
    ASSUME Sound, MigrationsApplied \/ database.migrations = {},
           NEW task \in tasks, TaskSucceeds(task)
    PROVE  /\ DOMAIN database' = {"migrations", "fixture"}
           /\ MigrationsApplied => MigrationsApplied'
           /\ task.token.job = "migration" => MigrationsApplied'
           /\ task.token.job # "migration" => database'.migrations = database.migrations
           /\ task.token \in TokenType
<1>1. TypeOK /\ task \in [token : TokenType, succeeded : BOOLEAN]
  BY DEF Sound, TypeOK
<1>2. /\ task.token \in TokenType /\ task.token.jobs \in Files
      /\ task.token.job \in {"migration", "fixture-upgrade"}
  BY <1>1 DEF TokenType
<1>3. jobFiles[task.token.jobs] \in Agreeing
  BY <1>1, <1>2 DEF TypeOK, Files
<1>4. CASE task.token.job = "migration"
  <2>1. database' = Migrated(jobFiles[task.token.jobs])
    BY <1>4 DEF TaskSucceeds
  <2> QED BY <1>1, <1>2, <1>3, <1>4, <2>1, MigratedFacts
<1>5. CASE task.token.job = "fixture-upgrade"
  <2>1. database' = Upgraded(jobFiles[task.token.jobs])
    BY <1>5 DEF TaskSucceeds
  <2> QED BY <1>1, <1>2, <1>5, <2>1, UpgradedFacts DEF MigrationsApplied
<1> QED BY <1>2, <1>4, <1>5

LEMMA TasksAreSound ==
    ASSUME IInv, \/ \E o \in Operators : SubmitJob(o)
                 \/ \E task \in tasks : TaskSucceeds(task)
    PROVE  Sound'
<1>1. Sound /\ TypeOK /\ (MigrationsApplied \/ database.migrations = {})
  BY DEF IInv, Sound, Untouched
<1>2. ASSUME NEW o \in Operators, SubmitJob(o)
      PROVE  Sound'
  <2>1. operator[o] \in OperatorType /\ OperatorIsSound(operator[o]) /\ operator[o].pc = "jobs"
    BY <1>1, <1>2, OperatorFacts DEF SubmitJob, Step
  <2>2. operator[o].release \in Releases /\ operator[o].jobs \in Files
    BY <2>1, AgreeingFacts DEF OperatorIsSound
  <2>3. Jobs[operator[o].job] \in {"migration", "fixture-upgrade"}
    BY <1>2 DEF SubmitJob, Jobs
  <2>4. Token(o) \in TokenType
    BY <2>2, <2>3 DEF Token, TokenType
  <2>5. tasks' = tasks \cup {[token |-> Token(o), succeeded |-> FALSE]}
    BY <1>2 DEF SubmitJob
  <2>6. tasks' \subseteq [token : TokenType, succeeded : BOOLEAN]
    <3>1. [token |-> Token(o), succeeded |-> FALSE] \in [token : TokenType, succeeded : BOOLEAN]
      BY <2>4
    <3>2. tasks \subseteq [token : TokenType, succeeded : BOOLEAN]
      BY <1>1 DEF TypeOK
    <3> QED BY <2>5, <3>1, <3>2
  <2>7. UNCHANGED <<state, definitions, jobFiles, services, database, operator>>
    BY <1>2 DEF SubmitJob
  <2>8. TasksAreRecorded'
    BY <1>1, <2>5, <2>7 DEF Sound, TasksAreRecorded, MigrationsApplied
  <2>9. /\ services' \in [Services -> ServiceType]
        /\ DOMAIN database' = {"migrations", "fixture"}
        /\ MigrationsApplied => MigrationsApplied'
    BY <1>1, <2>7 DEF TypeOK, MigrationsApplied
  <2> QED BY <1>1, <2>6, <2>7, <2>8, <2>9, WorldMoves
<1>3. ASSUME NEW task \in tasks, TaskSucceeds(task)
      PROVE  Sound'
  <2>1. /\ UNCHANGED <<state, definitions, jobFiles, services, operator>>
        /\ tasks' = (tasks \ {task}) \cup {[task EXCEPT !.succeeded = TRUE]}
    BY <1>3 DEF TaskSucceeds
  <2>2. /\ DOMAIN database' = {"migrations", "fixture"}
        /\ MigrationsApplied => MigrationsApplied'
        /\ task.token.job = "migration" => MigrationsApplied'
    BY <1>1, <1>3, TaskFacts
  <2>3. task \in [token : TokenType, succeeded : BOOLEAN]
    BY <1>1 DEF TypeOK
  <2>4. tasks' \subseteq [token : TokenType, succeeded : BOOLEAN]
    BY <1>1, <2>1, <2>3 DEF TypeOK
  <2>5. [task EXCEPT !.succeeded = TRUE].token = task.token
    BY <2>3
  <2>6. TasksAreRecorded'
    BY <1>1, <2>1, <2>2, <2>5 DEF Sound, TasksAreRecorded
  <2>7. services' \in [Services -> ServiceType]
    BY <1>1, <2>1 DEF TypeOK
  <2> QED BY <1>1, <2>1, <2>2, <2>4, <2>6, <2>7, WorldMoves
<1> QED BY <1>2, <1>3

LEMMA RolloutsAreSound ==
    ASSUME Sound, NEW s \in Services, RolloutCompletes(s) \/ RolloutFails(s)
    PROVE  Sound'
<1>1. /\ TypeOK /\ services \in [Services -> ServiceType] /\ services[s] \in ServiceType
      /\ UNCHANGED <<state, definitions, jobFiles, database, tasks, operator>>
  BY DEF Sound, TypeOK, RolloutCompletes, RolloutFails
<1>2. services' \in [Services -> ServiceType]
  <2>1. /\ services[s].goal \in Revs /\ services[s].running \in SUBSET Revs
        /\ services[s].last \in Revs \cup {0}
    BY <1>1 DEF ServiceType
  <2>2. CASE RolloutCompletes(s)
    <3> DEFINE run == {services[s].goal}
               next == [services[s] EXCEPT !.rollout = "completed", !.running = run,
                                           !.last = services[s].goal]
    <3>1. run \in SUBSET Revs /\ services' = [services EXCEPT ![s] = next]
      BY <1>1, <2>1, <2>2 DEF RolloutCompletes
    <3> HIDE DEF run
    <3>2. next \in ServiceType
      BY <1>1, <2>1, <3>1 DEF ServiceType
    <3> QED BY <1>1, <3>1, <3>2
  <2>3. CASE RolloutFails(s) /\ services[s].last = 0
    <3> DEFINE next == [services[s] EXCEPT !.rollout = "failed"]
    <3>1. services' = [services EXCEPT ![s] = next]
      BY <2>3 DEF RolloutFails
    <3>2. next \in ServiceType
      BY <1>1 DEF ServiceType
    <3> QED BY <1>1, <3>1, <3>2
  <2>4. CASE RolloutFails(s) /\ services[s].last # 0
    <3> DEFINE last == services[s].last
               run == services[s].running \cup {last}
               next == [services[s] EXCEPT !.goal = last, !.rollout = "rolling_back",
                                           !.running = run]
    <3>1. services' = [services EXCEPT ![s] = next]
      BY <2>4 DEF RolloutFails
    <3>2. last \in Revs /\ run \in SUBSET Revs
      BY <2>1, <2>4
    <3> HIDE DEF run, last
    <3>3. next \in ServiceType
      BY <1>1, <3>2 DEF ServiceType
    <3> QED BY <1>1, <3>1, <3>3
  <2> QED BY <2>2, <2>3, <2>4
<1>3. TasksAreRecorded' /\ (MigrationsApplied => MigrationsApplied')
  BY <1>1 DEF Sound, TasksAreRecorded, MigrationsApplied
<1>4. /\ tasks' \subseteq [token : TokenType, succeeded : BOOLEAN]
      /\ DOMAIN database' = {"migrations", "fixture"}
  BY <1>1 DEF TypeOK
<1> QED BY <1>1, <1>2, <1>3, <1>4, WorldMoves

LEMMA InstallationIsSound ==
    ASSUME Sound, MigrateInstallation \/ SeedInstallation
    PROVE  Sound'
<1>1. /\ TypeOK /\ state.settings.candidate \in Agreeing
      /\ UNCHANGED <<state, definitions, jobFiles, services, tasks, operator>>
  BY DEF Sound, TypeOK, SettingsType, MigrateInstallation, SeedInstallation
<1>2. /\ DOMAIN database' = {"migrations", "fixture"}
      /\ MigrationsApplied => MigrationsApplied'
  <2>1. CASE MigrateInstallation
    BY <1>1, <2>1, MigratedFacts DEF MigrateInstallation
  <2>2. CASE SeedInstallation
    BY <1>1, <2>2, UpgradedFacts DEF SeedInstallation, MigrationsApplied
  <2> QED BY <2>1, <2>2
<1>3. TasksAreRecorded'
  BY <1>1, <1>2 DEF Sound, TasksAreRecorded
<1>4. /\ tasks' \subseteq [token : TokenType, succeeded : BOOLEAN]
      /\ services' \in [Services -> ServiceType]
  BY <1>1 DEF TypeOK
<1> QED BY <1>1, <1>2, <1>3, <1>4, WorldMoves

------------------------------------------------------------------------------
(* Nothing starts on an empty database *)

\* Applied migrations stay as they are: every image that runs a task agrees.
LEMMA AppliedStays ==
    ASSUME IInv, [Next]_vars, MigrationsApplied
    PROVE  MigrationsApplied'
<1>1. Sound /\ TypeOK /\ state.settings.candidate \in Agreeing
  BY DEF IInv, Sound, TypeOK, SettingsType
<1>2. ASSUME UNCHANGED database
      PROVE  MigrationsApplied'
  BY <1>2 DEF MigrationsApplied
<1>3. ASSUME NEW task \in tasks, TaskSucceeds(task)
      PROVE  MigrationsApplied'
  BY <1>1, <1>3, TaskFacts
<1>4. CASE MigrateInstallation
  BY <1>1, <1>4, MigratedFacts DEF MigrateInstallation
<1>5. CASE SeedInstallation
  BY <1>1, <1>5, UpgradedFacts DEF SeedInstallation, MigrationsApplied
<1>6. ASSUME NEW o \in Operators, OperatorStep(o)
      PROVE  UNCHANGED database
  BY <1>6 DEF OperatorStep, Begin, VerifyCurrent, Publish, Prepare, SubmitJob, AwaitJob, Start,
     EnableRollbackAlarms, VerifyAgain, Report, PlanFor, ApplyFor, ReadTasks
<1>7. CASE UNCHANGED vars \/ \E s \in Services : RolloutCompletes(s) \/ RolloutFails(s)
  BY <1>2, <1>7 DEF vars, RolloutCompletes, RolloutFails
<1> QED BY <1>2, <1>3, <1>4, <1>5, <1>6, <1>7 DEF Next

\* One operator goes on preparing.
LEMMA PreparingStaysUntouched ==
    ASSUME Sound, Untouched, NEW o \in Operators, NEW op, OnlyPrepares(op),
           operator' = [operator EXCEPT ![o] = op],
           UNCHANGED <<state, definitions, jobFiles, services, database>>
    PROVE  Untouched'
<1>1. ASSUME NEW p \in Operators
      PROVE  OnlyPrepares(operator[p])'
  <2>1. operator'[p] = IF p = o THEN op ELSE operator[p]
    BY DEF Sound, TypeOK
  <2>2. OnlyPrepares(operator[p])
    BY DEF Untouched
  <2> QED BY <2>1, <2>2 DEF OnlyPrepares
<1> QED BY <1>1 DEF Untouched

\* The plan of a preparation changes nothing of an installation that is prepared.
LEMMA IdlePlanning ==
    ASSUME Untouched, NEW o \in Operators, operator[o].pc = "preparing"
    PROVE  PlanOf(Prepared(o)) = IdlePlan
<1>1. /\ state = Revisions(Settings(0, FALSE)) /\ definitions = <<Current>>
      /\ jobFiles = <<Current>> /\ OnlyPrepares(operator[o])
      /\ \A s \in Services : services[s].goal = 1
  BY DEF Untouched
<1>2. Prepared(o) = Settings(0, FALSE)
  BY <1>1 DEF OnlyPrepares, Prepared, Settings
<1> DEFINE settings == Settings(0, FALSE)
<1>3. /\ settings.pins = None /\ settings.candidate = Current /\ settings.released = Current
      /\ settings.count = 0 /\ settings.alarms = FALSE
  BY DEF Settings
<1>4. /\ state.serial = 0 /\ state.settings = settings /\ state.revision = 1 /\ state.jobs = 1
  BY <1>1 DEF Revisions
<1> HIDE DEF settings
<1>5. ServiceImage(settings) = Current
  BY <1>3 DEF ServiceImage
<1>6. /\ Revision(definitions, state.revision, ServiceImage(settings)) = 1
      /\ Revision(jobFiles, state.jobs, settings.candidate) = 1
  <2>1. definitions[1] = Current /\ jobFiles[1] = Current
    BY <1>1
  <2> QED BY <1>3, <1>4, <1>5, <2>1 DEF Revision
<1>7. PlanOf(settings) =
          [serial |-> 0, settings |-> settings, revision |-> 1, jobs |-> 1,
           goals |-> [s \in Services |-> 1],
           moved |-> {s \in Services : services[s].goal # 1 \/ state.settings.count # settings.count},
           rewired |-> state.settings.alarms # settings.alarms]
  BY <1>3, <1>4, <1>6 DEF PlanOf
<1>8. /\ {s \in Services : services[s].goal # 1 \/ state.settings.count # settings.count} = {}
      /\ (state.settings.alarms # settings.alarms) = FALSE
  BY <1>1, <1>4
<1> QED BY <1>2, <1>7, <1>8 DEF IdlePlan, settings

\* Applying that plan changes nothing.
LEMMA IdleApply ==
    ASSUME Sound, Untouched, Apply(IdlePlan)
    PROVE  UNCHANGED <<state, definitions, jobFiles, services>>
<1>1. /\ state = Revisions(Settings(0, FALSE)) /\ definitions = <<Current>>
      /\ jobFiles = <<Current>>
  BY DEF Untouched
<1>2. /\ IdlePlan.serial = 0 /\ IdlePlan.settings = Settings(0, FALSE)
      /\ IdlePlan.revision = 1 /\ IdlePlan.jobs = 1 /\ IdlePlan.moved = {}
      /\ IdlePlan.goals = [s \in Services |-> 1] /\ ~IdlePlan.rewired
  BY DEF IdlePlan
<1>3. /\ state.serial = 0 /\ state.settings = Settings(0, FALSE) /\ state.revision = 1
      /\ state.jobs = 1
  BY <1>1 DEF Revisions
<1>4. definitions' = definitions /\ jobFiles' = jobFiles
  <2>1. ~(1 > Len(definitions)) /\ ~(1 > Len(jobFiles))
    BY <1>1
  <2> QED BY <1>2, <2>1 DEF Apply, WithRevision
<1>5. services' = services
  <2>1. services' = [s \in Services |-> services[s]]
    BY <1>2 DEF Apply
  <2> QED BY <2>1 DEF Sound, TypeOK
<1>6. state' = state
  <2>1. NoChange(IdlePlan) /\ IdlePlan.settings = state.settings
    BY <1>2, <1>3 DEF NoChange
  <2>2. state' = [serial |-> 0, settings |-> Settings(0, FALSE), revision |-> 1, jobs |-> 1,
                  services |-> [s \in Services |-> 1]]
    BY <1>2, <1>3, <2>1 DEF Apply
  <2> QED BY <1>1, <2>2 DEF Revisions
<1> QED BY <1>4, <1>5, <1>6

\* Until the migrations are applied an installation stays as it was.
LEMMA UntouchedStays ==
    ASSUME IInv, [Next]_vars, ~MigrationsApplied
    PROVE  MigrationsApplied' \/ Untouched'
<1>1. Sound /\ Untouched /\ TypeOK
  BY DEF IInv, Sound
<1>2. /\ database.migrations = {} /\ state.settings = Settings(0, FALSE)
      /\ state.settings.candidate = Current /\ state.settings.count = 0
      /\ state.settings.alarms = FALSE
  BY <1>1 DEF Untouched, Revisions, Settings
<1>3. ASSUME UNCHANGED <<state, definitions, jobFiles, services, operator>>,
             database'.migrations = database.migrations
      PROVE  Untouched'
  BY <1>1, <1>3 DEF Untouched, OnlyPrepares
<1>4. ASSUME NEW task \in tasks, TaskSucceeds(task)
      PROVE  MigrationsApplied' \/ Untouched'
  <2>1. /\ task.token.job = "migration" => MigrationsApplied'
        /\ task.token.job # "migration" => database'.migrations = database.migrations
    BY <1>1, <1>2, <1>4, TaskFacts
  <2> QED BY <1>3, <1>4, <2>1 DEF TaskSucceeds
<1>5. ASSUME NEW s \in Services, RolloutCompletes(s) \/ RolloutFails(s)
      PROVE  FALSE
  BY <1>1, <1>5 DEF Untouched, RolloutCompletes, RolloutFails
<1>6. CASE MigrateInstallation
  BY <1>1, <1>2, <1>6, AgreeingFacts, MigratedFacts DEF MigrateInstallation
<1>7. ~SeedInstallation
  BY <1>2 DEF SeedInstallation
<1>8. CASE UNCHANGED vars
  BY <1>3, <1>8 DEF vars
<1>9. ASSUME NEW o \in Operators, OperatorStep(o)
      PROVE  Untouched'
  <2> DEFINE was == operator[o]
  <2>1. /\ was \in OperatorType /\ OperatorIsSound(was) /\ operator \in [Operators -> OperatorType]
        /\ OnlyPrepares(was)
    BY <1>1, OperatorFacts DEF Untouched
  <2>2. was.pc \in {"idle", "checked", "preparing", "prepare", "prepared", "jobs"} /\ was.job <= 1
    <3>1. was.job \in 0 .. 3
      BY <2>1 DEF OperatorType
    <3> QED BY <2>1, <3>1 DEF OnlyPrepares, OperatorIsSound
  <2>3. ASSUME NEW release \in Releases, NEW initial \in BOOLEAN, Begin(o, release, initial)
        PROVE  Untouched'
    <3> DEFINE op == [Idle EXCEPT !.pc = IF initial THEN "checked" ELSE "reading",
                                  !.release = release, !.initial = initial,
                                  !.previous = IF initial THEN None ELSE state.settings.released,
                                  !.alarms = state.settings.alarms]
    <3>1. initial /\ release = Current
      <4>1. ~initial => state.settings.count = 2
        BY <2>3 DEF Begin
      <4>2. initial => state.settings.candidate = release
        BY <2>3 DEF Begin
      <4>3. state.settings.count = 0 /\ state.settings.candidate = Current
        BY <1>2
      <4> QED BY <4>1, <4>2, <4>3
    <3>2. /\ operator' = [operator EXCEPT ![o] = op]
          /\ UNCHANGED <<state, definitions, jobFiles, services, database>>
      BY <2>3 DEF Begin
    <3>3. /\ op.pc = "checked" /\ op.initial = initial /\ op.release = release
          /\ op.alarms = state.settings.alarms /\ op.services = None
      BY <3>1, IdleIsTyped DEF OperatorType, Idle
    <3> HIDE DEF op
    <3>4. OnlyPrepares(op)
      BY <1>2, <3>1, <3>3 DEF OnlyPrepares
    <3> QED BY <1>1, <3>2, <3>4, PreparingStaysUntouched
  <2>4. CASE Publish(o)
    <3> DEFINE op == [was EXCEPT !.pc = "preparing"]
    <3>1. /\ operator' = [operator EXCEPT ![o] = op] /\ was.pc = "checked"
          /\ UNCHANGED <<state, definitions, jobFiles, services, database>>
      BY <2>4 DEF Publish, Step
    <3>2. /\ op.pc = "preparing" /\ op.initial = was.initial /\ op.release = was.release
          /\ op.alarms = was.alarms /\ op.services = was.services
      BY <2>1 DEF OperatorType
    <3> HIDE DEF op
    <3>3. OnlyPrepares(op)
      BY <2>1, <3>1, <3>2 DEF OnlyPrepares
    <3> QED BY <1>1, <3>1, <3>3, PreparingStaysUntouched
  <2>5. CASE PlanFor(o, "preparing", Prepared(o), "prepare")
    <3> DEFINE op == [was EXCEPT !.pc = "prepare", !.plan = PlanOf(Prepared(o)),
                                 !.previous = None, !.services = None, !.job = 0]
    <3>1. /\ operator' = [operator EXCEPT ![o] = op] /\ was.pc = "preparing"
          /\ UNCHANGED <<state, definitions, jobFiles, services, database>>
      BY <2>1, <2>5 DEF PlanFor, Step
    <3>2. PlanOf(Prepared(o)) = IdlePlan
      BY <1>1, <3>1, IdlePlanning
    <3>3. /\ op.pc = "prepare" /\ op.initial = was.initial /\ op.release = was.release
          /\ op.alarms = was.alarms /\ op.services = None /\ op.plan = PlanOf(Prepared(o))
      BY <2>1 DEF OperatorType
    <3> HIDE DEF op
    <3>4. OnlyPrepares(op)
      BY <2>1, <3>1, <3>2, <3>3 DEF OnlyPrepares
    <3> QED BY <1>1, <3>1, <3>4, PreparingStaysUntouched
  <2>6. CASE ApplyFor(o, "prepare", "prepared")
    <3> DEFINE op == [was EXCEPT !.pc = "prepared", !.plan = NoPlan]
    <3>1. /\ operator' = [operator EXCEPT ![o] = op] /\ was.pc = "prepare"
          /\ UNCHANGED database /\ Apply(was.plan)
      BY <2>1, <2>6 DEF ApplyFor, Step
    <3>2. was.plan = IdlePlan
      BY <2>1, <3>1 DEF OnlyPrepares
    <3>3. UNCHANGED <<state, definitions, jobFiles, services>>
      BY <1>1, <3>1, <3>2, IdleApply
    <3>4. /\ op.pc = "prepared" /\ op.initial = was.initial /\ op.release = was.release
          /\ op.alarms = was.alarms /\ op.services = was.services
      BY <2>1 DEF OperatorType
    <3> HIDE DEF op
    <3>5. OnlyPrepares(op)
      BY <2>1, <3>1, <3>4 DEF OnlyPrepares
    <3> QED BY <1>1, <3>1, <3>3, <3>5, PreparingStaysUntouched
  <2>7. CASE ReadTasks(o, "prepared", "jobs")
    <3> DEFINE op == [was EXCEPT !.pc = "jobs", !.jobs = state.jobs, !.job = 1]
    <3>1. /\ operator' = [operator EXCEPT ![o] = op] /\ was.pc = "prepared"
          /\ UNCHANGED <<state, definitions, jobFiles, services, database>>
      BY <2>7 DEF ReadTasks, Step
    <3>2. /\ op.pc = "jobs" /\ op.initial = was.initial /\ op.release = was.release
          /\ op.alarms = was.alarms /\ op.services = was.services
      BY <2>1 DEF OperatorType
    <3> HIDE DEF op
    <3>3. OnlyPrepares(op)
      BY <2>1, <3>1, <3>2 DEF OnlyPrepares
    <3> QED BY <1>1, <3>1, <3>3, PreparingStaysUntouched
  <2>8. CASE SubmitJob(o)
    BY <1>3, <2>8 DEF SubmitJob
  <2>9. CASE AwaitJob(o)
    <3> DEFINE op == [was EXCEPT !.job = @ + 1]
    <3>1. /\ operator' = [operator EXCEPT ![o] = op]
          /\ UNCHANGED <<state, definitions, jobFiles, services, database>>
      BY <2>1, <2>9 DEF AwaitJob
    <3>2. /\ op.pc = was.pc /\ op.initial = was.initial /\ op.release = was.release
          /\ op.alarms = was.alarms /\ op.services = was.services /\ op.plan = was.plan
      BY <2>1 DEF OperatorType
    <3> HIDE DEF op
    <3>3. OnlyPrepares(op)
      BY <2>1, <3>1, <3>2 DEF OnlyPrepares
    <3> QED BY <1>1, <3>1, <3>3, PreparingStaysUntouched
  <2>10. ~Start(o)
    <3>1. ~(was.job > Len(Jobs))
      <4>1. was.job \in 0 .. 3 /\ Len(Jobs) = 2
        BY <2>1 DEF OperatorType, Jobs
      <4> QED BY <2>2, <4>1
    <3> QED BY <2>2, <3>1 DEF Start, ApplyFor, ReadTasks, Step
  <2>11. ~(VerifyCurrent(o) \/ EnableRollbackAlarms(o) \/ VerifyAgain(o) \/ Report(o))
    BY <2>2 DEF VerifyCurrent, EnableRollbackAlarms, VerifyAgain, Report, ApplyFor, ReadTasks, Step
  <2> QED BY <1>9, <2>3, <2>4, <2>5, <2>6, <2>7, <2>8, <2>9, <2>10, <2>11 DEF OperatorStep, Prepare
<1> QED BY <1>4, <1>5, <1>6, <1>7, <1>8, <1>9 DEF Next

------------------------------------------------------------------------------
(* The theorems *)

LEMMA InitIsSound == Init => IInv
<1> SUFFICES ASSUME Init
             PROVE  IInv
  OBVIOUS
<1>1. /\ definitions = <<Current>> /\ jobFiles = <<Current>> /\ Current \in Agreeing
      /\ Revs = {1} /\ Files = {1} /\ tasks = {}
  BY AgreeingFacts DEF Init, Revs, Files
<1>2. PICK count \in {0, 2}, alarms \in BOOLEAN, run \in SUBSET {1}, last \in {0, 1} :
          /\ state = Revisions(Settings(count, alarms))
          /\ services = [s \in Services |-> [goal |-> 1, running |-> run,
                                             rollout |-> "completed", last |-> last]]
  BY DEF Init, StartInstalled, StartServing
<1>3. TypeOK
  <2>1. definitions \in Seq(Agreeing) /\ jobFiles \in Seq(Agreeing)
    BY <1>1
  <2>2. state \in [serial : Nat, settings : SettingsType, revision : Revs, jobs : Files,
                   services : [Services -> Revs]]
    <3>1. Settings(count, alarms) \in SettingsType
      BY <1>1 DEF Settings, SettingsType
    <3>2. [s \in Services |-> 1] \in [Services -> Revs] /\ 0 \in Nat
      BY <1>1
    <3> QED BY <1>1, <1>2, <3>1, <3>2 DEF Revisions
  <2>3. services \in [Services -> ServiceType]
    BY <1>1, <1>2 DEF ServiceType
  <2>4. operator \in [Operators -> OperatorType]
    BY IdleIsTyped DEF Init
  <2>5. DOMAIN database = {"migrations", "fixture"}
    BY DEF Init, StartInstalled, StartServing
  <2> QED BY <1>1, <2>1, <2>2, <2>3, <2>4, <2>5 DEF TypeOK
<1>4. \A o \in Operators : operator[o] = Idle
  BY DEF Init
<1>5. \A o \in Operators : OperatorIsSound(operator[o])
  BY <1>4 DEF OperatorIsSound, Idle
<1>6. TasksAreRecorded
  BY <1>1 DEF TasksAreRecorded
<1>7. MigrationsApplied \/ Untouched
  <2>1. CASE StartServing
    BY <2>1 DEF StartServing, MigrationsApplied
  <2>2. CASE StartInstalled
    <3>1. \A o \in Operators : OnlyPrepares(operator[o])
      BY <1>4 DEF OnlyPrepares, Idle
    <3> QED BY <1>1, <2>2, <3>1 DEF StartInstalled, Untouched
  <2> QED BY <2>1, <2>2 DEF Init
<1> QED BY <1>3, <1>5, <1>6, <1>7 DEF IInv, Sound

LEMMA NextIsSound == IInv /\ [Next]_vars => IInv'
<1> SUFFICES ASSUME IInv, [Next]_vars
             PROVE  IInv'
  OBVIOUS
<1>1. Sound
  BY DEF IInv
<1>2. Sound'
  <2>1. ASSUME NEW o \in Operators, OperatorStep(o)
        PROVE  Sound'
    BY <1>1, <2>1, BeginIsSound, ChecksAreSound, PhasesAreSound, TasksAreSound DEF OperatorStep
  <2>2. CASE UNCHANGED vars
    BY <1>1, <2>2, WorldMoves
       DEF vars, Sound, TypeOK, TasksAreRecorded, MigrationsApplied
  <2> QED BY <1>1, <2>1, <2>2, TasksAreSound, RolloutsAreSound, InstallationIsSound DEF Next
<1>3. MigrationsApplied' \/ Untouched'
  BY AppliedStays, UntouchedStays
<1> QED BY <1>2, <1>3 DEF IInv

\* Only images that agree with the one at the start are ever defined, and nothing
\* starts before the migrations of the start are applied.
THEOREM InductiveInvariant == Spec => []IInv
BY InitIsSound, NextIsSound, PTL DEF Spec

\* Whatever releases overlap, for any number of operators, releases, applies and
\* rollbacks: every task that runs was built for the schema the database has, and all
\* share one job contract (release-record.ts:1-4, compareRecords).
THEOREM RunningTasksAlwaysAgree == Spec => []RunningTasksAgree
<1>1. IInv => RunningTasksAgree
  <2> SUFFICES ASSUME IInv
               PROVE  RunningTasksAgree
    OBVIOUS
  <2>1. TypeOK
    BY DEF IInv, Sound
  <2>2. RunningImages \subseteq Agreeing
    <3> SUFFICES ASSUME NEW s \in Services, NEW revision \in services[s].running
                 PROVE  definitions[revision] \in Agreeing
      BY DEF RunningImages
    <3>1. revision \in 1 .. Len(definitions)
      BY <2>1 DEF TypeOK, ServiceType, Revs
    <3> QED BY <2>1, <3>1 DEF TypeOK
  <2>3. RunningImages # {} => MigrationsApplied
    <3> SUFFICES ASSUME Untouched
                 PROVE  RunningImages = {}
      BY DEF IInv
    <3> QED BY DEF Untouched, RunningImages
  <2> QED BY <2>2, <2>3, AgreeingFacts DEF RunningTasksAgree, MigrationsApplied
<1> QED BY <1>1, InductiveInvariant, PTL
==============================================================================
