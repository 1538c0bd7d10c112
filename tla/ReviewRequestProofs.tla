------------------------- MODULE ReviewRequestProofs -------------------------
(* Proofs about ReviewRequest, for every value of its constants. *)
EXTENDS ReviewRequest, FiniteSetTheorems, WellFoundedInduction, TLAPS

------------------------------------------------------------------------------
(* The inductive invariant *)

\* A completed task rests on a successful assessment of its area whose proposals
\* are judged, also while the review is open.
CompletedIsSupported ==
    \A a \in Areas :
        tasks[a].state = "completed" =>
            LET i == tasks[a].assessment IN
            /\ i \in DOMAIN assessments
            /\ assessments[i].area = a
            /\ assessments[i].status = "succeeded"
            /\ Supported(a, assessments[i].verdicts)

\* Once review is closed, both areas are completed on assessments that count.
ClosedIsCurrent ==
    request.closed =>
        \A a \in Areas : /\ tasks[a].state = "completed"
                         /\ tasks[a].assessment \in Eligible(a)

\* Nothing on record belongs to a generation that has not begun.
NothingFromLater ==
    /\ milestones \subseteq 1 .. request.generation
    /\ resolutions \subseteq 1 .. request.generation
    /\ \A g \in Generations : g > request.generation => questions[g] = "none"
    /\ \A i \in DOMAIN assessments :
           assessments[i].origin = "live" => assessments[i].generation <= request.generation
    /\ \A j \in jobs : j.generation <= request.generation

IInv ==
    /\ TypeOK
    /\ CompletedIsSupported
    /\ ClosedIsCurrent
    /\ ApprovalIsRecordedOnce
    /\ FreshPagesShowTheRequest
    /\ NothingFromLater

------------------------------------------------------------------------------
(* Which assessment counts *)

\* Sorting by creation finds a newest assessment among any there are.
LEMMA NewestIsMember ==
    ASSUME NEW n \in Nat, NEW S \in SUBSET (1 .. n), S # {}
    PROVE  Newest(S) \in S
<1> DEFINE above(i) == (i + 1) .. n
           T == {above(i) : i \in S}
<1>1. T \subseteq FiniteSubsetsOf(Nat) /\ T # {}
  <2>1. ASSUME NEW i \in S
        PROVE  IsFiniteSet(above(i)) /\ above(i) \subseteq Nat
    BY FS_Interval
  <2> QED BY <2>1 DEF FiniteSubsetsOf
<1>2. PICK x \in T : \A y \in T : ~(<<y, x>> \in StrictSubsetOrdering(Nat))
  <2> HIDE DEF T
  <2> QED BY <1>1, FS_StrictSubsetOrderingWellFounded, WFMin
<1>3. PICK i \in S : x = above(i)
  OBVIOUS
<1>4. \A j \in S : j <= i
  <2>1. ASSUME NEW j \in S, j > i
        PROVE  FALSE
    <3>1. above(j) \subseteq above(i) /\ j \in above(i) /\ j \notin above(j)
      BY <2>1
    <3>2. <<above(j), above(i)>> \in StrictSubsetOrdering(Nat)
      BY <3>1 DEF StrictSubsetOrdering
    <3> QED BY <3>2, <1>2, <1>3
  <2> QED BY <2>1
<1> QED BY <1>4 DEF Newest

\* selectCurrentAssessment returns an assessment that counts, or none.
LEMMA CurrentType ==
    ASSUME TypeOK, NEW a \in Areas
    PROVE  selectCurrentAssessment(a) \in Eligible(a) \cup {0}
<1> DEFINE matching == {i \in Eligible(a) : assessments[i].corpus = CorpusNow(a)}
<1>1. Len(assessments) \in Nat /\ Eligible(a) \in SUBSET (1 .. Len(assessments))
  BY DEF TypeOK, Eligible
<1>2. matching \in SUBSET (1 .. Len(assessments)) /\ Approved(a) \in SUBSET (1 .. Len(assessments))
  BY <1>1 DEF Approved
<1>3. /\ Eligible(a) # {} => Newest(Eligible(a)) \in Eligible(a)
      /\ matching # {} => Newest(matching) \in Eligible(a)
      /\ Approved(a) # {} => Newest(Approved(a)) \in Eligible(a)
  BY <1>1, <1>2, NewestIsMember DEF Approved
<1> QED BY <1>3 DEF selectCurrentAssessment

\* A recorded approval pins its own evidence.
LEMMA ApprovedIsCurrent ==
    ASSUME TypeOK, NEW a \in Areas, request.closed, tasks[a].state = "completed",
           tasks[a].assessment \in Eligible(a)
    PROVE  selectCurrentAssessment(a) = tasks[a].assessment
<1>1. Approved(a) = {tasks[a].assessment}
  BY DEF Approved
<1>2. tasks[a].assessment \in Int
  BY DEF TypeOK, Eligible
<1>3. Newest(Approved(a)) = tasks[a].assessment
  BY <1>1, <1>2 DEF Newest
<1> QED BY <1>1, <1>3 DEF selectCurrentAssessment

------------------------------------------------------------------------------
(* Judging *)

\* The rows of the assessments stay; only their proposals are judged or restored.
OnlyVerdictsChange ==
    /\ assessments' \in Seq(Assessment)
    /\ DOMAIN assessments' = DOMAIN assessments
    /\ \A i \in DOMAIN assessments :
           /\ assessments'[i].area = assessments[i].area
           /\ assessments'[i].revision = assessments[i].revision
           /\ assessments'[i].generation = assessments[i].generation
           /\ assessments'[i].origin = assessments[i].origin
           /\ assessments'[i].status = assessments[i].status

\* An assessments row has the columns of the table.
LEMMA RowType ==
    ASSUME TypeOK, NEW i \in DOMAIN assessments
    PROVE  assessments[i] \in Assessment
BY DEF TypeOK

\* Rewriting the verdicts of some rows writes well-formed rows.
LEMMA RewriteVerdicts ==
    ASSUME TypeOK, NEW v \in [DOMAIN assessments -> [Items -> Verdict]],
           assessments' = [i \in DOMAIN assessments |->
                              [assessments[i] EXCEPT !.verdicts = v[i]]]
    PROVE  OnlyVerdictsChange
<1>1. DOMAIN assessments = 1 .. Len(assessments) /\ Len(assessments) \in Nat
  BY DEF TypeOK
<1>2. ASSUME NEW i \in DOMAIN assessments
      PROVE  /\ assessments'[i] \in Assessment
             /\ assessments'[i].area = assessments[i].area
             /\ assessments'[i].revision = assessments[i].revision
             /\ assessments'[i].generation = assessments[i].generation
             /\ assessments'[i].origin = assessments[i].origin
             /\ assessments'[i].status = assessments[i].status
  BY <1>2, RowType DEF Assessment
<1>3. assessments' \in [1 .. Len(assessments) -> Assessment]
  BY <1>1, <1>2
<1>4. assessments' \in Seq(Assessment)
  BY <1>1, <1>3
<1> QED BY <1>2, <1>4 DEF OnlyVerdictsChange

\* Decisions write verdicts.
LEMMA JudgedType ==
    ASSUME TypeOK, NEW d \in Decisions, NEW a \in Areas, NEW i \in DOMAIN assessments
    PROVE  Judged(i, d[a]) \in [Items -> Verdict]
<1>1. assessments[i].verdicts \in [Items -> Verdict]
  BY RowType DEF Assessment
<1>2. \A x \in Items : d[a][x] \in {"none", "accepted", "rejected", "settled", "follow_up"}
  BY DEF Decisions, Decision
<1> QED BY <1>1, <1>2 DEF Judged, Verdict

\* Nothing decided, nothing changed.
LEMMA JudgedNothing ==
    ASSUME TypeOK, NEW d, Decided(d) = {}, NEW i \in DOMAIN assessments
    PROVE  Judged(i, d) = assessments[i].verdicts
<1>1. assessments[i].verdicts \in [Items -> Verdict]
  BY RowType DEF Assessment
<1> QED BY <1>1 DEF Judged, Decided

\* The guards of an outcome are what Supported asks for.
LEMMA OutcomeIsSupported ==
    ASSUME NEW v
    PROVE  /\ SomeAccepted(v) \/ AllRejected(v) => Supported("assets", v)
           /\ AllSettled(v) => Supported("risk", v)
BY DEF SomeAccepted, AllRejected, AllSettled, Present, Supported

\* A submission works on what is current.
LEMMA SubmissionIsOnCurrent ==
    ASSUME NEW r \in Reviewers, SubmitAssessment(r)
    PROVE  \E decide \in Decisions, outcome \in {"none", "accepted", "no_match"},
              confirm, complete \in BOOLEAN :
              /\ \A a \in Areas :
                     Decided(decide[a]) \subseteq
                         Decidable(a, selectCurrentAssessment(a), {x \in Areas : Found(x)})
              /\ Submission([a \in Areas |-> selectCurrentAssessment(a)],
                            {x \in Areas : Found(x)}, decide, outcome, confirm, complete)
<1> DEFINE current == [a \in Areas |-> selectCurrentAssessment(a)]
           found == {x \in Areas : Found(x)}
<1> HIDE DEF current, found
<1>1. \E decide \in Submittable(current, found),
         outcome \in {"none", "accepted", "no_match"}, confirm, complete \in BOOLEAN :
         Submission(current, found, decide, outcome, confirm, complete)
  BY Zenon DEF SubmitAssessment, current, found
<1>2. PICK decide \in Submittable(current, found),
           outcome \in {"none", "accepted", "no_match"},
           confirm \in BOOLEAN, complete \in BOOLEAN :
           Submission(current, found, decide, outcome, confirm, complete)
  BY <1>1
<1>3. /\ decide \in Decisions
      /\ \A a \in Areas : Decided(decide[a]) \subseteq Decidable(a, current[a], found)
  BY DEF Submittable
<1>4. \A a \in Areas : current[a] = selectCurrentAssessment(a)
  BY DEF current
<1>5. \A a \in Areas :
         Decided(decide[a]) \subseteq Decidable(a, selectCurrentAssessment(a), found)
  BY <1>3, <1>4
<1> QED BY Zenon, <1>2, <1>3, <1>5 DEF current, found

\* The rows of review_tasks.
LEMMA TaskTypes ==
    /\ Pending \in Task /\ InProgress \in Task
    /\ \A i \in Nat \ {0} : Completed(i) \in Task
    /\ \A task \in Task : /\ task.assessment \in Nat
                          /\ [state |-> "pending", assessment |-> task.assessment] \in Task
BY DEF Pending, InProgress, Completed, Task

\* What a submission writes to the assessments.
LEMMA SubmissionVerdicts ==
    ASSUME TypeOK, NEW decide \in Decisions, NEW current,
           assessments' = AssessmentsAfter(current, decide)
    PROVE  /\ OnlyVerdictsChange
           /\ \A i \in DOMAIN assessments :
                  assessments'[i].verdicts =
                      IF i = current[assessments[i].area]
                      THEN Judged(i, decide[assessments[i].area])
                      ELSE assessments[i].verdicts
<1> DEFINE v == [i \in DOMAIN assessments |->
                    IF i = current[assessments[i].area]
                    THEN Judged(i, decide[assessments[i].area])
                    ELSE assessments[i].verdicts]
<1>1. ASSUME NEW i \in DOMAIN assessments
      PROVE  /\ assessments[i].area \in Areas
             /\ assessments[i].verdicts \in [Items -> Verdict]
             /\ [assessments[i] EXCEPT !.verdicts = assessments[i].verdicts] = assessments[i]
  BY RowType DEF Assessment
<1>2. v \in [DOMAIN assessments -> [Items -> Verdict]]
  BY <1>1, JudgedType
<1>3. assessments' = [i \in DOMAIN assessments |->
                         [assessments[i] EXCEPT !.verdicts = v[i]]]
  BY <1>1 DEF AssessmentsAfter
<1>4. OnlyVerdictsChange
  <2> HIDE DEF v
  <2> QED BY <1>2, <1>3, RewriteVerdicts
<1>5. \A i \in DOMAIN assessments : assessments'[i].verdicts = v[i]
  <2> HIDE DEF v
  <2> QED BY <1>3, RowType DEF Assessment
<1> QED BY <1>4, <1>5

\* What counts is decided by the request and the rows, never by the verdicts.
LEMMA EligibleKept ==
    ASSUME OnlyVerdictsChange, NEW a \in Areas,
           request'.revision = request.revision, request'.generation = request.generation
    PROVE  Eligible(a)' = Eligible(a)
BY DEF OnlyVerdictsChange, Eligible, isCurrentAssessment

\* A submission without decisions, outcomes or completion writes nothing.
LEMMA EmptySubmission ==
    ASSUME TypeOK, NEW decide \in Decisions, NEW outcome, NEW confirm \in BOOLEAN,
           NEW current, Used(decide, outcome, confirm) = {},
           tasks' = TasksAfter(current, decide, outcome, confirm),
           assessments' = AssessmentsAfter(current, decide)
    PROVE  UNCHANGED <<assessments, tasks>>
<1>1. /\ \A a \in Areas : Decided(decide[a]) = {}
      /\ outcome = "none" /\ ~confirm
  BY DEF Used, Areas
<1>2. tasks' = tasks
  BY <1>1 DEF TasksAfter, AssetTask, RiskTask, Areas, TypeOK
<1>3. ASSUME NEW i \in DOMAIN assessments
      PROVE  [assessments[i] EXCEPT !.verdicts = Judged(i, decide[assessments[i].area])]
                 = assessments[i]
  <2>1. Judged(i, decide[assessments[i].area]) = assessments[i].verdicts
    BY <1>1, JudgedNothing, RowType DEF Assessment
  <2> QED BY <2>1, RowType DEF Assessment
<1>4. assessments' = [i \in DOMAIN assessments |-> assessments[i]]
  BY <1>3 DEF AssessmentsAfter
<1>5. assessments = [i \in DOMAIN assessments |-> assessments[i]]
  BY DEF TypeOK
<1> QED BY <1>2, <1>4, <1>5

\* A submission completes an area on the successful assessment it found there, with
\* proposals that support the outcome.
LEMMA SubmissionCompletes ==
    ASSUME TypeOK, CompletedIsSupported, NEW decide \in Decisions,
           NEW outcome \in {"none", "accepted", "no_match"},
           NEW confirm \in BOOLEAN, NEW complete \in BOOLEAN,
           NEW current, current = [a \in Areas |-> selectCurrentAssessment(a)],
           Submission(current, {x \in Areas : Found(x)}, decide, outcome, confirm, complete)
    PROVE  /\ tasks' \in [Areas -> Task]
           /\ CompletedIsSupported'
<1>1. /\ tasks' = TasksAfter(current, decide, outcome, confirm)
      /\ assessments' = AssessmentsAfter(current, decide)
      /\ Used(decide, outcome, confirm) \subseteq {x \in Areas : Found(x)}
      /\ outcome = "accepted" => SomeAccepted(Judged(current["assets"], decide["assets"]))
      /\ outcome = "no_match" => AllRejected(Judged(current["assets"], decide["assets"]))
      /\ confirm => AllSettled(Judged(current["risk"], decide["risk"]))
  BY DEF Submission
<1>2. /\ OnlyVerdictsChange
      /\ \A i \in DOMAIN assessments :
             assessments'[i].verdicts =
                 IF i = current[assessments[i].area]
                 THEN Judged(i, decide[assessments[i].area])
                 ELSE assessments[i].verdicts
  BY <1>1, SubmissionVerdicts
\* Either the task stays and its assessment is not judged, or it is in progress, or it
\* is completed on the assessment found, which supports it.
<1>3. ASSUME NEW a \in Areas
      PROVE  \/ tasks'[a] = tasks[a] /\ Decided(decide[a]) = {}
             \/ tasks'[a] = InProgress
             \/ /\ tasks'[a] = Completed(current[a])
                /\ Found(a)
                /\ Supported(a, Judged(current[a], decide[a]))
  <2>1. CASE a = "assets"
    <3>1. tasks'[a] = AssetTask(current[a], decide[a], outcome)
      BY <1>1, <2>1 DEF TasksAfter
    <3>2. CASE outcome # "none"
      <4>1. Found(a)
        BY <1>1, <2>1, <3>2 DEF Used
      <4>2. Supported(a, Judged(current[a], decide[a]))
        BY <1>1, <2>1, <3>2, OutcomeIsSupported
      <4> QED BY <3>1, <3>2, <4>1, <4>2 DEF AssetTask
    <3>3. CASE outcome = "none"
      BY <2>1, <3>1, <3>3 DEF AssetTask
    <3> QED BY <3>2, <3>3
  <2>2. CASE a = "risk"
    <3>1. tasks'[a] = RiskTask(current[a], decide[a], confirm)
      BY <1>1, <2>2 DEF TasksAfter
    <3>2. CASE confirm \/ (Decided(decide[a]) # {}
                              /\ AllSettled(Judged(current[a], decide[a])))
      <4>1. Found(a)
        BY <1>1, <2>2, <3>2 DEF Used
      <4>2. Supported(a, Judged(current[a], decide[a]))
        BY <1>1, <2>2, <3>2, OutcomeIsSupported
      <4> QED BY <3>1, <3>2, <4>1, <4>2 DEF RiskTask
    <3>3. CASE ~(confirm \/ (Decided(decide[a]) # {}
                                /\ AllSettled(Judged(current[a], decide[a]))))
      BY <2>2, <3>1, <3>3 DEF RiskTask
    <3> QED BY <3>2, <3>3
  <2> QED BY <2>1, <2>2 DEF Areas
<1>4. ASSUME NEW a \in Areas, Found(a)
      PROVE  /\ current[a] \in DOMAIN assessments
             /\ current[a] \in Nat \ {0}
             /\ assessments[current[a]].area = a
             /\ assessments[current[a]].status = "succeeded"
  BY <1>4 DEF Found, Eligible, TypeOK
<1>5. ASSUME NEW a \in Areas
      PROVE  tasks'[a] \in Task
  <2>1. tasks[a] \in Task
    BY DEF TypeOK
  <2> QED BY <1>3, <1>4, <2>1, TaskTypes
<1>6. tasks' \in [Areas -> Task]
  BY <1>1, <1>5 DEF TasksAfter
<1>7. ASSUME NEW a \in Areas, tasks'[a].state = "completed"
      PROVE  /\ tasks'[a].assessment \in DOMAIN assessments'
             /\ assessments'[tasks'[a].assessment].area = a
             /\ assessments'[tasks'[a].assessment].status = "succeeded"
             /\ Supported(a, assessments'[tasks'[a].assessment].verdicts)
  <2>1. CASE tasks'[a] = tasks[a] /\ Decided(decide[a]) = {}
    <3> DEFINE i == tasks[a].assessment
    <3>1. /\ i \in DOMAIN assessments
          /\ assessments[i].area = a
          /\ assessments[i].status = "succeeded"
          /\ Supported(a, assessments[i].verdicts)
      BY <1>7, <2>1 DEF CompletedIsSupported
    <3>2. assessments'[i].verdicts = assessments[i].verdicts
      BY <1>2, <2>1, <3>1, JudgedNothing
    <3> QED BY <1>2, <2>1, <3>1, <3>2 DEF OnlyVerdictsChange
  <2>2. CASE /\ tasks'[a] = Completed(current[a])
             /\ Found(a)
             /\ Supported(a, Judged(current[a], decide[a]))
    <3>1. tasks'[a].assessment = current[a]
      BY <2>2 DEF Completed
    <3>2. assessments'[current[a]].verdicts = Judged(current[a], decide[a])
      BY <1>2, <1>4, <2>2
    <3> QED BY <1>2, <1>4, <2>2, <3>1, <3>2 DEF OnlyVerdictsChange
  <2> QED BY <1>3, <1>7, <2>1, <2>2 DEF InProgress
<1> QED BY <1>6, <1>7 DEF CompletedIsSupported

\* What a submission does to the approval: a closed review is left alone, and a
\* completion closes an open one on what counts, prepared for today's catalog.
LEMMA SubmissionApproves ==
    ASSUME TypeOK, NEW decide \in Decisions,
           NEW outcome \in {"none", "accepted", "no_match"},
           NEW confirm \in BOOLEAN, NEW complete \in BOOLEAN,
           NEW current, NEW found,
           Submission(current, found, decide, outcome, confirm, complete)
    PROVE  /\ request.closed => UNCHANGED <<request, assessments, tasks, milestones>>
           /\ \/ UNCHANGED <<request, milestones>>
              \/ /\ ~request.closed /\ ~OpenQuestion
                 /\ request' = Completion
                 /\ milestones' = milestones \cup {request.generation}
                 /\ \A a \in Areas :
                        /\ tasks'[a].state = "completed"
                        /\ tasks'[a].assessment \in Eligible(a)
                        /\ assessments[tasks'[a].assessment].corpus = CorpusNow(a)
<1>1. request.closed => UNCHANGED <<request, assessments, tasks, milestones>>
  BY EmptySubmission DEF Submission
<1>2. CASE ~complete
  BY <1>1, <1>2 DEF Submission
<1>3. CASE complete
  <2>1. /\ ~request.closed /\ ~OpenQuestion
        /\ request' = Completion
        /\ milestones' = milestones \cup {request.generation}
        /\ \A a \in Areas : Approvable(a, decide[a], tasks'[a])
    BY <1>3 DEF Submission
  <2>2. ASSUME NEW a \in Areas
        PROVE  /\ tasks'[a].state = "completed"
               /\ tasks'[a].assessment \in Eligible(a)
               /\ assessments[tasks'[a].assessment].corpus = CorpusNow(a)
    BY <2>1 DEF Approvable, NamesCurrent, Found
  <2> QED BY <1>1, <2>1, <2>2
<1> QED BY <1>2, <1>3

------------------------------------------------------------------------------
(* What the steps have in common *)

\* The columns of the requests row.
LEMMA RequestType ==
    ASSUME TypeOK
    PROVE  /\ request.kind \in Kinds /\ request.closed \in BOOLEAN
           /\ request.revision \in Revisions /\ request.revisions \in Revisions
           /\ request.generation \in Generations
           /\ request.generation \in Nat /\ request.revisions \in Nat
           /\ request.generation # 0
BY BoundsAreNaturals DEF TypeOK, Request, Revisions, Generations

\* Recording the running generation.
LEMMA RecordedNow ==
    ASSUME TypeOK, NEW S \in SUBSET (1 .. request.generation)
    PROVE  S \cup {request.generation} \subseteq 1 .. request.generation
<1>1. request.generation \in 1 .. request.generation
  BY RequestType
<1> QED BY <1>1

\* After a bump nobody has a page.
LEMMA BumpedPages ==
    ASSUME page' = Bumped
    PROVE  /\ page' \in [Reviewers -> Page \cup {NoPage}]
           /\ FreshPagesShowTheRequest'
BY DEF Bumped, FreshPagesShowTheRequest

\* A new row is added at the end.
LEMMA AppendedRow ==
    ASSUME TypeOK, NEW b \in Assessment, assessments' = Append(assessments, b)
    PROVE  /\ assessments' \in Seq(Assessment)
           /\ DOMAIN assessments \subseteq DOMAIN assessments'
           /\ \A i \in DOMAIN assessments : assessments'[i] = assessments[i]
           /\ \A i \in DOMAIN assessments' : i \in DOMAIN assessments \/ assessments'[i] = b
BY DEF TypeOK

\* A job and the row it settles into.
LEMMA JobTypes ==
    /\ \A j \in Job, status \in {"succeeded", "failed"}, items \in SUBSET Items :
           /\ Result(j, status, items) \in Assessment
           /\ Result(j, status, items).generation = j.generation
    /\ TypeOK => \A a \in Areas, revision \in Revisions :
           /\ Identity(a, revision) \in Job
           /\ Identity(a, revision).generation = request.generation
<1>1. ASSUME NEW j \in Job, NEW status \in {"succeeded", "failed"}, NEW items \in SUBSET Items
      PROVE  /\ Result(j, status, items) \in Assessment
             /\ Result(j, status, items).generation = j.generation
  <2>1. Proposed(items) \in [Items -> Verdict]
    BY DEF Proposed, Verdict
  <2> QED BY <2>1 DEF Result, Assessment, Job
<1>2. ASSUME TypeOK, NEW a \in Areas, NEW revision \in Revisions
      PROVE  /\ Identity(a, revision) \in Job
             /\ Identity(a, revision).generation = request.generation
  <2>1. CorpusNow(a) \in Corpora /\ request.generation \in Generations
    BY <1>2, RequestType, SeedIsACorpus DEF CorpusNow, TypeOK
  <2> QED BY <2>1 DEF Identity, Job
<1> QED BY <1>1, <1>2

------------------------------------------------------------------------------
(* The steps keep the invariant *)

\* A request starts with nothing completed.
LEMMA InitEstablishes == Init => IInv
<1> SUFFICES ASSUME Init PROVE IInv
  OBVIOUS
<1>1. PICK kind \in Kinds :
          /\ request = [kind |-> kind, revision |-> IF kind = "live" THEN 1 ELSE 0,
                        revisions |-> IF kind = "live" THEN 1 ELSE 0,
                        generation |-> 1, closed |-> FALSE]
          /\ assessments = SeedAssessments(kind)
          /\ tasks = SeedTasks(kind)
          /\ jobs = IF kind = "live"
                    THEN [area : Areas, revision : {1}, generation : {1}, corpus : {SeedCorpus}]
                    ELSE {}
  BY DEF Init
<1>2. /\ catalog = SeedCorpus /\ milestones = {} /\ resolutions = {}
      /\ questions = [g \in Generations |-> "none"]
      /\ page = [r \in Reviewers |-> NoPage]
  BY DEF Init
<1>3. 1 \in Generations /\ 0 \in Revisions /\ 1 \in Revisions
  BY BoundsAreNaturals DEF Generations, Revisions
<1>4. request \in Request /\ ~request.closed /\ request.generation = 1
  BY <1>1, <1>3 DEF Request
<1>5. /\ assessments \in Seq(Assessment)
      /\ \A i \in DOMAIN assessments : assessments[i].origin = "fixture"
  <2>1. SeedVerdicts \in [Items -> Verdict]
    BY DEF SeedVerdicts, Proposed, Verdict
  <2> DEFINE seed(a) == [area |-> a, revision |-> 0, generation |-> 1, corpus |-> SeedCorpus,
                         origin |-> "fixture", status |-> "succeeded",
                         verdicts |-> SeedVerdicts]
  <2>2. \A a \in Areas : seed(a) \in Assessment /\ seed(a).origin = "fixture"
    BY <1>3, <2>1, SeedIsACorpus DEF Assessment
  <2>3. assessments = IF kind = "seeded" THEN <<seed("assets"), seed("risk")>> ELSE <<>>
    BY <1>1 DEF SeedAssessments
  <2> HIDE DEF seed
  <2> QED BY <2>2, <2>3 DEF Areas
<1>6. tasks \in [Areas -> Task] /\ \A a \in Areas : tasks[a].state # "completed"
  BY <1>1, TaskTypes DEF SeedTasks, Pending, InProgress
<1>7. jobs \subseteq Job /\ \A j \in jobs : j.generation = 1
  BY <1>1, <1>3, SeedIsACorpus DEF Job
<1>8. TypeOK
  BY <1>2, <1>4, <1>5, <1>6, <1>7, SeedIsACorpus DEF TypeOK
<1>9. NothingFromLater
  BY <1>2, <1>4, <1>5, <1>7 DEF NothingFromLater
<1>10. FreshPagesShowTheRequest
  BY <1>2 DEF FreshPagesShowTheRequest
<1>11. ApprovalIsRecordedOnce
  BY <1>2, <1>4 DEF ApprovalIsRecordedOnce
<1>12. CompletedIsSupported
  BY Zenon, <1>6 DEF CompletedIsSupported
<1>13. ClosedIsCurrent
  BY <1>4 DEF ClosedIsCurrent
<1> QED BY <1>8, <1>9, <1>10, <1>11, <1>12, <1>13 DEF IInv

\* A page is opened on what the request is.
LEMMA OpenPageKeeps == ASSUME IInv, NEW r \in Reviewers, OpenPage(r) PROVE IInv'
<1> USE DEF IInv
<1>1. selectCurrentAssessment("assets") \in Nat
  <2>1. selectCurrentAssessment("assets") \in Eligible("assets") \cup {0}
    BY CurrentType DEF Areas
  <2> QED BY <2>1 DEF Eligible, TypeOK
<1>2. page' \in [Reviewers -> Page \cup {NoPage}]
  BY <1>1, RequestType DEF OpenPage, Page, TypeOK
<1>3. FreshPagesShowTheRequest'
  BY DEF OpenPage, FreshPagesShowTheRequest, TypeOK
<1>4. /\ TypeOK' /\ CompletedIsSupported' /\ ApprovalIsRecordedOnce' /\ NothingFromLater'
  BY <1>2 DEF OpenPage, TypeOK, CompletedIsSupported, ApprovalIsRecordedOnce, OpenQuestion,
              NothingFromLater
<1>5. ClosedIsCurrent'
  BY DEF OpenPage, ClosedIsCurrent, Eligible, isCurrentAssessment
<1> QED BY <1>3, <1>4, <1>5

\* A submission keeps the approval on what counts.
LEMMA SubmissionKeeps == ASSUME IInv, NEW r \in Reviewers, SubmitAssessment(r) PROVE IInv'
<1> USE DEF IInv
<1>1. /\ page' = Bumped
      /\ UNCHANGED <<catalog, questions, resolutions, jobs>>
  BY DEF SubmitAssessment
<1> DEFINE current == [a \in Areas |-> selectCurrentAssessment(a)]
           found == {x \in Areas : Found(x)}
<1>2. PICK decide \in Decisions, outcome \in {"none", "accepted", "no_match"},
           confirm \in BOOLEAN, complete \in BOOLEAN :
           Submission(current, found, decide, outcome, confirm, complete)
  BY SubmissionIsOnCurrent
<1>3. tasks' \in [Areas -> Task] /\ CompletedIsSupported'
  BY <1>2, SubmissionCompletes
<1>4. OnlyVerdictsChange
  BY <1>2, SubmissionVerdicts DEF Submission
<1>5. /\ request.closed => UNCHANGED <<request, assessments, tasks, milestones>>
      /\ \/ UNCHANGED <<request, milestones>>
         \/ /\ ~request.closed /\ ~OpenQuestion
            /\ request' = Completion
            /\ milestones' = milestones \cup {request.generation}
            /\ \A a \in Areas : /\ tasks'[a].state = "completed"
                                /\ tasks'[a].assessment \in Eligible(a)
  BY <1>2, SubmissionApproves
<1>6. /\ request' \in Request
      /\ request'.revision = request.revision
      /\ request'.generation = request.generation
      /\ request' = Completion => request'.closed
  BY <1>5 DEF Completion, Request, TypeOK
<1>7. \A a \in Areas : Eligible(a)' = Eligible(a)
  BY <1>4, <1>6, EligibleKept
<1>8. TypeOK'
  BY <1>1, <1>3, <1>4, <1>5, <1>6, BumpedPages, RequestType DEF TypeOK, OnlyVerdictsChange
<1>9. ClosedIsCurrent'
  <2> SUFFICES ASSUME request'.closed, NEW a \in Areas
               PROVE  /\ tasks'[a].state = "completed"
                      /\ tasks'[a].assessment \in Eligible(a)'
    BY DEF ClosedIsCurrent
  <2>1. CASE request.closed
    BY <1>5, <1>7, <2>1 DEF ClosedIsCurrent
  <2>2. CASE ~request.closed
    BY <1>5, <1>7, <2>2
  <2> QED BY <2>1, <2>2
<1>10. ApprovalIsRecordedOnce'
  BY <1>1, <1>5, <1>6 DEF ApprovalIsRecordedOnce, OpenQuestion
<1>11. NothingFromLater'
  <2>1. milestones' \subseteq 1 .. request.generation
    BY <1>5, RecordedNow DEF NothingFromLater
  <2> QED BY <1>1, <1>4, <1>6, <2>1 DEF NothingFromLater, OnlyVerdictsChange
<1> QED BY <1>1, <1>3, <1>8, <1>9, <1>10, <1>11, BumpedPages

\* An added candidate takes the assets area back into progress.
LEMMA AddingKeeps ==
    ASSUME IInv, NEW r \in Reviewers, NEW item \in Items, AddReviewCandidate(r, item)
    PROVE  IInv'
<1> USE DEF IInv
<1> DEFINE i == selectCurrentAssessment("assets")
<1>1. /\ i \in DOMAIN assessments /\ assessments[i].area = "assets"
      /\ assessments' = [assessments EXCEPT ![i].verdicts[item] = "undecided"]
      /\ tasks' = [tasks EXCEPT !["assets"] = InProgress]
      /\ page' = Bumped /\ ~request.closed
      /\ UNCHANGED <<request, catalog, questions, milestones, resolutions, jobs>>
  BY DEF AddReviewCandidate, Found, Eligible, Reviewable
<1> DEFINE v == [k \in DOMAIN assessments |->
                    IF k = i THEN [assessments[k].verdicts EXCEPT ![item] = "undecided"]
                    ELSE assessments[k].verdicts]
<1>2. ASSUME NEW k \in DOMAIN assessments
      PROVE  /\ assessments[k].verdicts \in [Items -> Verdict]
             /\ [assessments[k] EXCEPT !.verdicts = assessments[k].verdicts] = assessments[k]
  BY RowType DEF Assessment
<1>3. v \in [DOMAIN assessments -> [Items -> Verdict]]
  BY <1>2 DEF Verdict
<1>4. assessments' = [k \in DOMAIN assessments |-> [assessments[k] EXCEPT !.verdicts = v[k]]]
  <2> HIDE DEF i
  <2> QED BY <1>1, <1>2 DEF TypeOK
<1>5. /\ OnlyVerdictsChange
      /\ \A k \in DOMAIN assessments : k # i => assessments'[k] = assessments[k]
  <2>1. OnlyVerdictsChange
    <3> HIDE DEF v
    <3> QED BY <1>3, <1>4, RewriteVerdicts
  <2>2. \A k \in DOMAIN assessments : k # i => assessments'[k] = assessments[k]
    <3> HIDE DEF i
    <3> QED BY <1>1 DEF TypeOK
  <2> QED BY <2>1, <2>2
<1>6. tasks' \in [Areas -> Task] /\ tasks'["assets"].state # "completed"
      /\ tasks'["risk"] = tasks["risk"]
  BY <1>1, TaskTypes DEF TypeOK, Areas, InProgress
<1>7. TypeOK'
  BY <1>1, <1>5, <1>6, BumpedPages DEF TypeOK, OnlyVerdictsChange
<1>8. CompletedIsSupported'
  <2> SUFFICES ASSUME tasks'["risk"].state = "completed"
               PROVE  LET k == tasks'["risk"].assessment IN
                      /\ k \in DOMAIN assessments'
                      /\ assessments'[k].area = "risk"
                      /\ assessments'[k].status = "succeeded"
                      /\ Supported("risk", assessments'[k].verdicts)
    BY <1>6 DEF CompletedIsSupported, Areas
  <2> DEFINE k == tasks["risk"].assessment
  <2>1. /\ k \in DOMAIN assessments
        /\ assessments[k].area = "risk"
        /\ assessments[k].status = "succeeded"
        /\ Supported("risk", assessments[k].verdicts)
    BY <1>6 DEF CompletedIsSupported, Areas
  <2>2. assessments'[k] = assessments[k]
    BY <1>1, <1>5, <2>1
  <2> QED BY <1>5, <1>6, <2>1, <2>2 DEF OnlyVerdictsChange
<1>9. ClosedIsCurrent' /\ ApprovalIsRecordedOnce'
  BY <1>1 DEF ClosedIsCurrent, ApprovalIsRecordedOnce, OpenQuestion
<1>10. NothingFromLater'
  BY <1>1, <1>5 DEF NothingFromLater, OnlyVerdictsChange
<1> QED BY <1>1, <1>7, <1>8, <1>9, <1>10, BumpedPages

\* An assignment only bumps the version.
LEMMA AssigningKeeps == ASSUME IInv, NEW r \in Reviewers, AssignReview(r) PROVE IInv'
<1> USE DEF IInv
<1>1. page' = Bumped
  BY DEF AssignReview
<1>2. /\ TypeOK' /\ CompletedIsSupported' /\ ApprovalIsRecordedOnce' /\ NothingFromLater'
  BY <1>1, BumpedPages DEF AssignReview, TypeOK, CompletedIsSupported,
                           ApprovalIsRecordedOnce, OpenQuestion, NothingFromLater
<1>3. ClosedIsCurrent'
  BY DEF AssignReview, ClosedIsCurrent, Eligible, isCurrentAssessment
<1> QED BY <1>1, <1>2, <1>3, BumpedPages

\* A question is asked while review is open.
LEMMA AskingKeeps == ASSUME IInv, NEW r \in Reviewers, AskClarification(r) PROVE IInv'
<1> USE DEF IInv
<1>1. /\ page' = Bumped /\ ~request.closed
      /\ questions' = [questions EXCEPT ![request.generation] = "open"]
      /\ UNCHANGED <<catalog, assessments, tasks, milestones, resolutions, jobs>>
  BY DEF AskClarification, Reviewable
<1>2. /\ request' \in Request /\ request'.generation = request.generation
      /\ ~request'.closed
  <2>1. CASE request' = request
    BY <1>1, <2>1 DEF TypeOK
  <2>2. CASE /\ request.revisions < MaxRevision
             /\ request' = [request EXCEPT !.revision = NextRevision,
                                           !.revisions = NextRevision]
    <3>1. NextRevision \in Revisions
      BY <2>2, RequestType, BoundsAreNaturals DEF NextRevision, Revisions
    <3> QED BY <1>1, <2>2, <3>1 DEF Request, TypeOK
  <2> QED BY <2>1, <2>2 DEF AskClarification
<1>3. TypeOK'
  BY <1>1, <1>2, BumpedPages, RequestType DEF TypeOK
<1>4. ClosedIsCurrent' /\ ApprovalIsRecordedOnce' /\ CompletedIsSupported'
  <2>1. ClosedIsCurrent'
    BY <1>2 DEF ClosedIsCurrent
  <2>2. ApprovalIsRecordedOnce'
    BY <1>1, <1>2 DEF ApprovalIsRecordedOnce
  <2>3. CompletedIsSupported'
    BY <1>1 DEF CompletedIsSupported
  <2> QED BY <2>1, <2>2, <2>3
<1>5. NothingFromLater'
  BY <1>1, <1>2, RequestType DEF NothingFromLater, TypeOK
<1> QED BY <1>1, <1>3, <1>4, <1>5, BumpedPages

\* A resolution is recorded for the generation that is running.
LEMMA ResolvingKeeps == ASSUME IInv, NEW r \in Reviewers, ResolveRequest(r) PROVE IInv'
<1> USE DEF IInv
<1>1. /\ page' = Bumped /\ resolutions' = resolutions \cup {request.generation}
      /\ UNCHANGED <<request, catalog, assessments, tasks, questions, milestones, jobs>>
  BY DEF ResolveRequest
<1>2. TypeOK' /\ CompletedIsSupported' /\ ApprovalIsRecordedOnce'
  BY <1>1, BumpedPages, RequestType
     DEF TypeOK, CompletedIsSupported, ApprovalIsRecordedOnce, OpenQuestion
<1>3. ClosedIsCurrent'
  BY <1>1 DEF ClosedIsCurrent, Eligible, isCurrentAssessment
<1>4. NothingFromLater'
  <2>1. resolutions' \subseteq 1 .. request.generation
    BY <1>1, RecordedNow DEF NothingFromLater
  <2> QED BY <1>1, <2>1 DEF NothingFromLater
<1> QED BY <1>1, <1>2, <1>3, <1>4, BumpedPages

\* An answer moves the request to a new revision and both tasks back to pending.
LEMMA AnsweringKeeps == ASSUME IInv, AnswerClarification PROVE IInv'
<1> USE DEF IInv
<1>1. /\ page' = Bumped /\ ~request.closed /\ request.revisions < MaxRevision
      /\ request' = [request EXCEPT !.revision = NextRevision, !.revisions = NextRevision]
      /\ tasks' = [a \in Areas |-> [state |-> "pending", assessment |-> tasks[a].assessment]]
      /\ questions' = [questions EXCEPT ![request.generation] = "answered"]
      /\ jobs' = jobs \cup {Identity(a, NextRevision) : a \in Areas}
      /\ UNCHANGED <<catalog, assessments, milestones, resolutions>>
  BY DEF AnswerClarification, Reviewable
<1>2. NextRevision \in Revisions
  BY <1>1, RequestType, BoundsAreNaturals DEF NextRevision, Revisions
<1>3. /\ request' \in Request /\ request'.generation = request.generation
      /\ ~request'.closed
  BY <1>1, <1>2 DEF Request, TypeOK
<1>4. tasks' \in [Areas -> Task]
  <2>1. \A a \in Areas : [state |-> "pending", assessment |-> tasks[a].assessment] \in Task
    BY TaskTypes DEF TypeOK
  <2> QED BY <1>1, <2>1
<1>5. \A a \in Areas : tasks'[a].state # "completed"
  BY <1>1
<1>6. jobs' \subseteq Job /\ \A j \in jobs' : j.generation <= request.generation
  <2>1. \A a \in Areas : /\ Identity(a, NextRevision) \in Job
                         /\ Identity(a, NextRevision).generation <= request.generation
    BY <1>2, JobTypes, RequestType
  <2>2. jobs \subseteq Job /\ \A j \in jobs : j.generation <= request.generation
    BY DEF TypeOK, NothingFromLater
  <2> QED BY <1>1, <2>1, <2>2
<1>7. TypeOK'
  BY <1>1, <1>3, <1>4, <1>6, BumpedPages, RequestType DEF TypeOK
<1>8. CompletedIsSupported'
  BY Zenon, <1>5 DEF CompletedIsSupported
<1>9. ClosedIsCurrent'
  BY <1>3 DEF ClosedIsCurrent
<1>10. ApprovalIsRecordedOnce'
  BY <1>1, <1>3 DEF ApprovalIsRecordedOnce
<1>11. NothingFromLater'
  BY <1>1, <1>3, <1>6, RequestType DEF NothingFromLater, TypeOK
<1> QED BY <1>1, <1>7, <1>8, <1>9, <1>10, <1>11, BumpedPages

\* Preparation is queued for what the request is.
LEMMA PreparingKeeps == ASSUME IInv, NEW a \in Areas, PrepareArea(a) PROVE IInv'
<1> USE DEF IInv
<1>1. /\ jobs' = jobs \cup {Identity(a, request.revision)}
      /\ UNCHANGED <<request, catalog, assessments, tasks, questions, milestones,
                     resolutions, page>>
  BY DEF PrepareArea
<1>2. jobs' \subseteq Job /\ \A j \in jobs' : j.generation <= request.generation
  <2>1. /\ Identity(a, request.revision) \in Job
        /\ Identity(a, request.revision).generation <= request.generation
    BY JobTypes, RequestType
  <2>2. jobs \subseteq Job /\ \A j \in jobs : j.generation <= request.generation
    BY DEF TypeOK, NothingFromLater
  <2> QED BY <1>1, <2>1, <2>2
<1>3. /\ TypeOK' /\ CompletedIsSupported' /\ ApprovalIsRecordedOnce'
      /\ FreshPagesShowTheRequest' /\ NothingFromLater'
  BY <1>1, <1>2 DEF TypeOK, CompletedIsSupported, ApprovalIsRecordedOnce, OpenQuestion,
                    FreshPagesShowTheRequest, NothingFromLater
<1>4. ClosedIsCurrent'
  BY <1>1 DEF ClosedIsCurrent, Eligible, isCurrentAssessment
<1> QED BY <1>3, <1>4

\* A row added while review is open, with or without a reset of its task, takes no
\* support away.
LEMMA AppendingKeeps ==
    ASSUME IInv, ~request.closed, NEW j \in jobs, NEW status \in {"succeeded", "failed"},
           NEW items \in SUBSET Items,
           assessments' = Append(assessments, Result(j, status, items)),
           tasks' = ResetTask(j), jobs' = jobs \ {j},
           UNCHANGED <<request, catalog, questions, milestones, resolutions, page>>
    PROVE  IInv'
<1> USE DEF IInv
<1> DEFINE b == Result(j, status, items)
<1>1. j \in Job /\ b \in Assessment /\ b.generation <= request.generation
  BY JobTypes DEF TypeOK, NothingFromLater
<1>2. /\ assessments' \in Seq(Assessment)
      /\ DOMAIN assessments \subseteq DOMAIN assessments'
      /\ \A i \in DOMAIN assessments : assessments'[i] = assessments[i]
      /\ \A i \in DOMAIN assessments' : i \in DOMAIN assessments \/ assessments'[i] = b
  <2> HIDE DEF b
  <2> QED BY <1>1, AppendedRow DEF b
<1> HIDE DEF b
<1>3. /\ tasks' \in [Areas -> Task]
      /\ \A a \in Areas : tasks'[a] = tasks[a] \/ tasks'[a].state # "completed"
  BY TaskTypes DEF ResetTask, TypeOK, Pending
<1>4. TypeOK'
  BY <1>2, <1>3 DEF TypeOK
<1>5. CompletedIsSupported'
  <2> SUFFICES ASSUME NEW a \in Areas, tasks'[a].state = "completed"
               PROVE  LET i == tasks'[a].assessment IN
                      /\ i \in DOMAIN assessments'
                      /\ assessments'[i].area = a
                      /\ assessments'[i].status = "succeeded"
                      /\ Supported(a, assessments'[i].verdicts)
    BY DEF CompletedIsSupported
  <2>1. tasks'[a] = tasks[a]
    BY <1>3
  <2> QED BY <1>2, <2>1 DEF CompletedIsSupported
<1>6. /\ ClosedIsCurrent' /\ ApprovalIsRecordedOnce' /\ FreshPagesShowTheRequest'
  BY DEF ClosedIsCurrent, ApprovalIsRecordedOnce, OpenQuestion, FreshPagesShowTheRequest
<1>7. NothingFromLater'
  BY <1>1, <1>2 DEF NothingFromLater
<1> QED BY <1>4, <1>5, <1>6, <1>7

\* A superseded job leaves no trace.
LEMMA DroppingKeeps ==
    ASSUME IInv, NEW j \in jobs, jobs' = jobs \ {j},
           UNCHANGED <<request, catalog, assessments, tasks, questions, milestones,
                       resolutions, page>>
    PROVE  IInv'
<1> USE DEF IInv
<1>1. /\ TypeOK' /\ CompletedIsSupported' /\ ApprovalIsRecordedOnce'
      /\ FreshPagesShowTheRequest' /\ NothingFromLater'
  BY DEF TypeOK, CompletedIsSupported, ApprovalIsRecordedOnce, OpenQuestion,
         FreshPagesShowTheRequest, NothingFromLater
<1>2. ClosedIsCurrent'
  BY DEF ClosedIsCurrent, Eligible, isCurrentAssessment
<1> QED BY <1>1, <1>2

\* Settling a job keeps the invariant, however it ends.
LEMMA SettlingKeeps ==
    ASSUME IInv, NEW j \in jobs, SettleSuccess(j) \/ SettleStale(j) \/ SettleFailure(j)
    PROVE  IInv'
<1>1. CASE SettleSuccess(j)
  BY <1>1, AppendingKeeps DEF SettleSuccess, ReviewClosed
<1>2. CASE SettleStale(j)
  BY <1>2, DroppingKeeps DEF SettleStale
<1>3. CASE SettleFailure(j)
  <2>1. CASE ReviewClosed
    BY <1>3, <2>1, DroppingKeeps DEF SettleFailure
  <2>2. CASE ~ReviewClosed
    BY <1>3, <2>2, AppendingKeeps DEF SettleFailure, ReviewClosed
  <2> QED BY <2>1, <2>2
<1> QED BY <1>1, <1>2, <1>3

\* The catalog is no part of what the invariant relates.
LEMMA CatalogKeeps == ASSUME IInv, ChangeCatalog PROVE IInv'
<1> USE DEF IInv
<1>1. /\ TypeOK' /\ CompletedIsSupported' /\ ApprovalIsRecordedOnce'
      /\ FreshPagesShowTheRequest' /\ NothingFromLater'
  BY DEF ChangeCatalog, TypeOK, CompletedIsSupported, ApprovalIsRecordedOnce, OpenQuestion,
         FreshPagesShowTheRequest, NothingFromLater
<1>2. ClosedIsCurrent'
  BY DEF ChangeCatalog, ClosedIsCurrent, Eligible, isCurrentAssessment
<1> QED BY <1>1, <1>2

\* A reset starts a generation on which nothing is recorded, with nothing completed.
LEMMA ResettingKeeps == ASSUME IInv, ResetFixtureState PROVE IInv'
<1> USE DEF IInv
<1>1. /\ jobs' = {} /\ catalog' = SeedCorpus /\ page' = Bumped
      /\ Stranded => request.generation < MaxGeneration
      /\ request' = [request EXCEPT !.revision = 0, !.closed = FALSE,
                                    !.generation = IF Stranded THEN @ + 1 ELSE @]
      /\ tasks' = SeedTasks(request.kind)
      /\ assessments' = [i \in DOMAIN assessments |-> Restored(assessments[i])]
      /\ UNCHANGED <<questions, milestones, resolutions>>
  BY DEF ResetFixtureState
<1>2. /\ request' \in Request /\ ~request'.closed
      /\ request.generation <= request'.generation
      /\ request'.generation = IF Stranded THEN request.generation + 1
                               ELSE request.generation
  <2>1. request'.generation = IF Stranded THEN request.generation + 1
                               ELSE request.generation
    BY <1>1 DEF TypeOK, Request
  <2>2. request'.generation \in Generations
    BY <1>1, <2>1, RequestType, BoundsAreNaturals DEF Generations
  <2>3. 0 \in Revisions
    BY BoundsAreNaturals DEF Revisions
  <2>4. request' \in Request /\ ~request'.closed
    BY <1>1, <2>1, <2>2, <2>3 DEF TypeOK, Request
  <2> QED BY <2>1, <2>4, RequestType
<1>3. tasks' \in [Areas -> Task] /\ \A a \in Areas : tasks'[a].state # "completed"
  BY <1>1, TaskTypes DEF SeedTasks, Pending, InProgress
<1> DEFINE v == [k \in DOMAIN assessments |->
                    IF assessments[k].origin = "live" THEN assessments[k].verdicts
                    ELSE [i \in Items |-> IF i \in SeededItems THEN SeedVerdicts[i]
                                          ELSE assessments[k].verdicts[i]]]
<1>4. ASSUME NEW k \in DOMAIN assessments
      PROVE  /\ assessments[k].verdicts \in [Items -> Verdict]
             /\ [assessments[k] EXCEPT !.verdicts = assessments[k].verdicts] = assessments[k]
  BY RowType DEF Assessment
<1>5. v \in [DOMAIN assessments -> [Items -> Verdict]]
  BY <1>4 DEF SeedVerdicts, Proposed, Verdict
<1>6. assessments' = [k \in DOMAIN assessments |-> [assessments[k] EXCEPT !.verdicts = v[k]]]
  BY <1>1, <1>4 DEF Restored
<1>7. OnlyVerdictsChange
  <2> HIDE DEF v
  <2> QED BY <1>5, <1>6, RewriteVerdicts
<1>8. TypeOK'
  BY <1>1, <1>2, <1>3, <1>7, BumpedPages, SeedIsACorpus DEF TypeOK, OnlyVerdictsChange
<1>9. CompletedIsSupported'
  BY Zenon, <1>3 DEF CompletedIsSupported
<1>10. ClosedIsCurrent'
  BY <1>2 DEF ClosedIsCurrent
<1>11. request'.generation \notin milestones'
  <2>1. CASE Stranded
    BY <1>1, <1>2, <2>1, RequestType DEF NothingFromLater
  <2>2. CASE ~Stranded
    BY <1>1, <1>2, <2>2 DEF Stranded
  <2> QED BY <2>1, <2>2
<1>12. ApprovalIsRecordedOnce'
  BY <1>2, <1>11 DEF ApprovalIsRecordedOnce
<1>13. NothingFromLater'
  <2>1. milestones' \subseteq 1 .. request'.generation
        /\ resolutions' \subseteq 1 .. request'.generation
    <3>1. 1 .. request.generation \subseteq 1 .. request'.generation
      BY <1>2, RequestType DEF Request, Generations
    <3> QED BY <1>1, <3>1 DEF NothingFromLater
  <2>2. \A g \in Generations : g > request'.generation => questions'[g] = "none"
    BY <1>1, <1>2, RequestType DEF NothingFromLater, Request, Generations
  <2>3. \A i \in DOMAIN assessments' :
           assessments'[i].origin = "live" => assessments'[i].generation <= request'.generation
    <3> SUFFICES ASSUME NEW i \in DOMAIN assessments', assessments'[i].origin = "live"
                 PROVE  assessments'[i].generation <= request'.generation
      OBVIOUS
    <3>1. i \in DOMAIN assessments /\ assessments'[i].generation = assessments[i].generation
          /\ assessments[i].generation <= request.generation
      BY <1>7 DEF OnlyVerdictsChange, NothingFromLater
    <3>2. /\ assessments[i].generation \in Int /\ request'.generation \in Int
      BY <1>2, <3>1, RowType DEF Assessment, Request, Generations
    <3> QED BY <1>2, <3>1, <3>2, RequestType
  <2> QED BY <1>1, <2>1, <2>2, <2>3 DEF NothingFromLater
<1> QED BY <1>1, <1>8, <1>9, <1>10, <1>12, <1>13, BumpedPages

\* Every step keeps the invariant.
LEMMA NextKeeps == IInv /\ [Next]_vars => IInv'
<1> SUFFICES ASSUME IInv, [Next]_vars PROVE IInv'
  OBVIOUS
<1>1. ASSUME NEW r \in Reviewers, ReviewerStep(r)
      PROVE  IInv'
  BY <1>1, OpenPageKeeps, SubmissionKeeps, AddingKeeps, AssigningKeeps, AskingKeeps,
     ResolvingKeeps DEF ReviewerStep
<1>2. CASE AnswerClarification
  BY <1>2, AnsweringKeeps
<1>3. ASSUME NEW a \in Areas, PrepareArea(a)
      PROVE  IInv'
  BY <1>3, PreparingKeeps
<1>4. ASSUME NEW j \in jobs, SettleSuccess(j) \/ SettleStale(j) \/ SettleFailure(j)
      PROVE  IInv'
  BY <1>4, SettlingKeeps
<1>5. CASE ChangeCatalog
  BY <1>5, CatalogKeeps
<1>6. CASE ResetFixtureState
  BY <1>6, ResettingKeeps
<1>7. CASE UNCHANGED vars
  <2> USE DEF IInv
  <2>1. /\ TypeOK' /\ CompletedIsSupported' /\ ApprovalIsRecordedOnce'
        /\ FreshPagesShowTheRequest' /\ NothingFromLater'
    BY <1>7 DEF vars, TypeOK, CompletedIsSupported, ApprovalIsRecordedOnce, OpenQuestion,
                FreshPagesShowTheRequest, NothingFromLater
  <2>2. ClosedIsCurrent'
    BY <1>7 DEF vars, ClosedIsCurrent, Eligible, isCurrentAssessment
  <2> QED BY <2>1, <2>2
<1> QED BY <1>1, <1>2, <1>3, <1>4, <1>5, <1>6, <1>7 DEF Next

------------------------------------------------------------------------------
(* The theorems *)

THEOREM InductiveInvariant == Spec => []IInv
<1>1. Init => IInv
  BY InitEstablishes
<1>2. IInv /\ [Next]_vars => IInv'
  BY NextKeeps
<1> QED BY <1>1, <1>2, PTL DEF Spec

\* Every row keeps its columns' types (schema.ts).
THEOREM TypeCorrectness == Spec => []TypeOK
<1>1. IInv => TypeOK
  BY DEF IInv
<1> QED BY <1>1, InductiveInvariant, PTL

\* An approval shows the successful, judged evidence its completions name.
LEMMA EvidenceFollows == IInv => ApprovalRestsOnEvidence
<1> SUFFICES ASSUME IInv, request.closed, NEW a \in Areas
             PROVE  LET i == tasks[a].assessment IN
                    /\ tasks[a].state = "completed"
                    /\ i = selectCurrentAssessment(a)
                    /\ i \in DOMAIN assessments
                    /\ assessments[i].area = a
                    /\ assessments[i].status = "succeeded"
                    /\ assessments[i].revision = request.revision
                    /\ Supported(a, assessments[i].verdicts)
  BY DEF ApprovalRestsOnEvidence
<1> USE DEF IInv
<1>1. tasks[a].state = "completed" /\ tasks[a].assessment \in Eligible(a)
  BY DEF ClosedIsCurrent
<1>2. tasks[a].assessment = selectCurrentAssessment(a)
  BY <1>1, ApprovedIsCurrent
<1>3. assessments[tasks[a].assessment].revision = request.revision
  BY <1>1 DEF Eligible, isCurrentAssessment
<1> QED BY <1>1, <1>2, <1>3 DEF CompletedIsSupported

\* review.ts and delivery.ts: what an approval rests on is successful, current and
\* judged, whatever workers, catalog changes and resets do.
THEOREM ApprovalAlwaysRestsOnEvidence == Spec => []ApprovalRestsOnEvidence
BY EvidenceFollows, InductiveInvariant, PTL

\* The stage is closed exactly when the milestone is on record, with no open question.
THEOREM ApprovalIsAlwaysRecordedOnce == Spec => []ApprovalIsRecordedOnce
<1>1. IInv => ApprovalIsRecordedOnce
  BY DEF IInv
<1> QED BY <1>1, InductiveInvariant, PTL

\* A row version that would be accepted is the version of what was read.
THEOREM FreshPagesAlwaysShowTheRequest == Spec => []FreshPagesShowTheRequest
<1>1. IInv => FreshPagesShowTheRequest
  BY DEF IInv
<1> QED BY <1>1, InductiveInvariant, PTL

\* A step of a closed review that leaves it closed touches neither the assessments,
\* nor the tasks, nor the request.
LEMMA ClosedIsLeftAlone ==
    ASSUME IInv, [Next]_vars, request.closed, request'.closed
    PROVE  UNCHANGED <<request, assessments, tasks>>
<1>1. ASSUME NEW r \in Reviewers, SubmitAssessment(r)
      PROVE  UNCHANGED <<request, assessments, tasks>>
  <2>1. PICK decide \in Decisions, outcome \in {"none", "accepted", "no_match"},
             confirm \in BOOLEAN, complete \in BOOLEAN :
             Submission([a \in Areas |-> selectCurrentAssessment(a)],
                        {x \in Areas : Found(x)}, decide, outcome, confirm, complete)
    BY <1>1, SubmissionIsOnCurrent
  <2> QED BY <2>1, SubmissionApproves DEF IInv
<1>2. ASSUME NEW r \in Reviewers, ReviewerStep(r)
      PROVE  UNCHANGED <<request, assessments, tasks>>
  BY <1>1, <1>2 DEF ReviewerStep, OpenPage, AddReviewCandidate, AssignReview,
                    AskClarification, ResolveRequest, Reviewable
<1>3. ASSUME NEW j \in jobs, SettleSuccess(j) \/ SettleStale(j) \/ SettleFailure(j)
      PROVE  UNCHANGED <<request, assessments, tasks>>
  BY <1>3 DEF SettleSuccess, SettleStale, SettleFailure, ReviewClosed
<1>4. CASE AnswerClarification \/ \E a \in Areas : PrepareArea(a)
  BY <1>4 DEF AnswerClarification, PrepareArea, Reviewable
<1>5. CASE ChangeCatalog \/ UNCHANGED vars
  BY <1>5 DEF ChangeCatalog, vars
<1>6. CASE ResetFixtureState
  BY <1>6 DEF ResetFixtureState, IInv, TypeOK, Request
<1> QED BY <1>2, <1>3, <1>4, <1>5, <1>6 DEF Next

\* The evidence of an approval never changes while the approval stands.
THEOREM ApprovedEvidenceStaysFrozen == Spec => ApprovedEvidenceIsFrozen
<1>1. ASSUME IInv, ApprovalRestsOnEvidence, ApprovalRestsOnEvidence', [Next]_vars
      PROVE  [request.closed /\ request'.closed =>
                 \A a \in Areas :
                     LET i == selectCurrentAssessment(a) IN
                     /\ selectCurrentAssessment(a)' = i
                     /\ assessments'[i] = assessments[i]]_vars
  <2> SUFFICES ASSUME request.closed, request'.closed, NEW a \in Areas
               PROVE  /\ selectCurrentAssessment(a)' = selectCurrentAssessment(a)
                      /\ assessments'[selectCurrentAssessment(a)]
                             = assessments[selectCurrentAssessment(a)]
    OBVIOUS
  <2>1. UNCHANGED <<request, assessments, tasks>>
    BY <1>1, ClosedIsLeftAlone
  <2>2. selectCurrentAssessment(a) = tasks[a].assessment
    BY <1>1 DEF ApprovalRestsOnEvidence
  <2>3. selectCurrentAssessment(a)' = tasks'[a].assessment
    BY <1>1 DEF ApprovalRestsOnEvidence
  <2> QED BY <2>1, <2>2, <2>3
<1> QED BY <1>1, InductiveInvariant, ApprovalAlwaysRestsOnEvidence, PTL
        DEF Spec, ApprovedEvidenceIsFrozen

\* Only a completion closes review, and only on evidence for today's catalog.
LEMMA ClosedForToday ==
    ASSUME IInv, [Next]_vars, request'.closed, ~request.closed, NEW a \in Areas
    PROVE  assessments[tasks'[a].assessment].corpus = CorpusNow(a)
<1>1. ASSUME NEW r \in Reviewers, SubmitAssessment(r)
      PROVE  assessments[tasks'[a].assessment].corpus = CorpusNow(a)
  <2>1. PICK decide \in Decisions, outcome \in {"none", "accepted", "no_match"},
             confirm \in BOOLEAN, complete \in BOOLEAN :
             Submission([x \in Areas |-> selectCurrentAssessment(x)],
                        {x \in Areas : Found(x)}, decide, outcome, confirm, complete)
    BY <1>1, SubmissionIsOnCurrent
  <2> QED BY <2>1, SubmissionApproves DEF IInv
<1>2. ASSUME NEW r \in Reviewers, AskClarification(r)
      PROVE  FALSE
  BY <1>2 DEF AskClarification, IInv, TypeOK, Request
<1>3. ASSUME NEW r \in Reviewers, ReviewerStep(r), ~SubmitAssessment(r), ~AskClarification(r)
      PROVE  FALSE
  BY <1>3 DEF ReviewerStep, OpenPage, AddReviewCandidate, AssignReview, ResolveRequest
<1>4. ASSUME NEW j \in jobs, SettleSuccess(j) \/ SettleStale(j) \/ SettleFailure(j)
      PROVE  FALSE
  BY <1>4 DEF SettleSuccess, SettleStale, SettleFailure
<1>5. ~(\/ \E x \in Areas : PrepareArea(x)
        \/ ChangeCatalog
        \/ UNCHANGED vars)
  BY DEF PrepareArea, ChangeCatalog, vars
<1>6. ~(AnswerClarification \/ ResetFixtureState)
  BY DEF AnswerClarification, ResetFixtureState, IInv, TypeOK, Request
<1> QED BY <1>1, <1>2, <1>3, <1>4, <1>5, <1>6 DEF Next

\* An approval rests on results prepared for the catalog of that moment.
THEOREM ApprovalIsAlwaysForTodaysCatalog == Spec => ApprovalIsForTodaysCatalog
<1>1. IInv /\ [Next]_vars =>
          [request'.closed /\ ~request.closed =>
               \A a \in Areas : assessments[tasks'[a].assessment].corpus = CorpusNow(a)]_vars
  BY ClosedForToday
<1> QED BY <1>1, InductiveInvariant, PTL DEF Spec, ApprovalIsForTodaysCatalog

\* A reset leaves nothing of an earlier run in force.
LEMMA ResetReopens ==
    ASSUME IInv, ResetFixtureState
    PROVE  /\ Reviewable'
           /\ request'.generation \notin milestones'
           /\ questions'[request'.generation] = "none"
           /\ \A a \in Areas : \A i \in Eligible(a)' : assessments'[i].origin = "fixture"
<1> USE DEF IInv
<1>1. /\ request' \in Request /\ ~request'.closed
      /\ request'.generation = IF Stranded THEN request.generation + 1
                               ELSE request.generation
      /\ UNCHANGED <<questions, milestones, resolutions>>
  <2>1. IInv'
    BY ResettingKeeps
  <2> QED BY <2>1 DEF ResetFixtureState, TypeOK, Request
<1>2. ASSUME Stranded
      PROVE  /\ request'.generation \notin milestones /\ request'.generation \notin resolutions
             /\ questions[request'.generation] = "none"
  <2>1. request'.generation > request.generation /\ request'.generation \in Generations
    BY <1>1, <1>2, RequestType DEF Request
  <2>2. request'.generation \notin 1 .. request.generation
    BY <2>1, RequestType
  <2>3. milestones \subseteq 1 .. request.generation /\ resolutions \subseteq 1 .. request.generation
    BY DEF NothingFromLater
  <2>4. questions[request'.generation] = "none"
    BY <2>1 DEF NothingFromLater
  <2> QED BY <2>2, <2>3, <2>4
<1>3. /\ request'.generation \notin milestones /\ request'.generation \notin resolutions
      /\ questions[request'.generation] = "none"
  BY <1>1, <1>2 DEF Stranded, TypeOK
<1>4. ASSUME NEW a \in Areas, NEW i \in Eligible(a)', assessments'[i].origin # "fixture"
      PROVE  FALSE
  <2>1. /\ i \in DOMAIN assessments
        /\ assessments'[i].origin = assessments[i].origin
        /\ assessments'[i].generation = assessments[i].generation
        /\ assessments[i].origin = "live"
    <3>1. DOMAIN assessments' = DOMAIN assessments
      BY DEF ResetFixtureState
    <3>2. i \in DOMAIN assessments
      BY <1>4, <3>1 DEF Eligible
    <3>3. assessments'[i] = Restored(assessments[i])
      BY <3>2 DEF ResetFixtureState
    <3> QED BY <1>4, <3>2, <3>3, RowType DEF Restored, Assessment
  <2>2. assessments[i].generation = request'.generation
    BY <1>4, <2>1 DEF Eligible, isCurrentAssessment
  <2>3. ~LiveEvidence => assessments[i].generation # request.generation
    BY <2>1 DEF LiveEvidence
  <2>4. assessments[i].generation <= request.generation
    BY <2>1 DEF NothingFromLater
  <2> QED BY <1>1, <2>2, <2>3, <2>4, RequestType DEF Stranded
<1> QED BY <1>1, <1>3, <1>4 DEF Reviewable, Unresolved

\* seed/fixture-reset.ts: the scenario can be played again after every reset.
THEOREM ResetAlwaysReopensReview == Spec => ResetReopensReview
<1>1. IInv =>
          [ResetFixtureState =>
               /\ Reviewable'
               /\ request'.generation \notin milestones'
               /\ questions'[request'.generation] = "none"
               /\ \A a \in Areas : \A i \in Eligible(a)' : assessments'[i].origin = "fixture"]_vars
  BY ResetReopens
<1> QED BY <1>1, InductiveInvariant, PTL DEF Spec, ResetReopensReview

=============================================================================
