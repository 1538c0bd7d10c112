---------------------------- MODULE ReviewRequest ----------------------------
(***************************************************************************)
(* One request under first review: src/workflow/review.ts,                 *)
(* review-submission.ts, review-assessments.ts, clarification.ts, the      *)
(* completion and resolution of delivery.ts, what settlements write        *)
(* (models/persist.ts) and the fixture reset (seed/fixture-reset.ts).      *)
(*                                                                         *)
(* Everyone who changes the request holds its row lock, so one action is   *)
(* one transaction.  Catalog changes take no such lock.                    *)
(*                                                                         *)
(* Abstractions.  A row version is compared with the current one and only  *)
(* grows, so a reader's page is either fresh or gone: each change that     *)
(* bumps the version closes every page, the writer's too, until it is      *)
(* opened again.  A seeded request is one the fixtures leave under review, *)
(* and revision 0 is its null pointer.  A risk decision is settled         *)
(* (confirmed, overridden, cleared) or asks for follow-up.  Policy rules   *)
(* never change.  An enqueue that finds a stored result for the revision   *)
(* attaches it: here, prepared and settled.                                *)
(* Left out: review inputs, the next owner and the eligibility of accepted *)
(* items, which only block an approval; priority and RICE, which touch     *)
(* nothing modelled here; replays of an idempotency key, which change      *)
(* nothing.                                                                *)
(***************************************************************************)
EXTENDS Integers, Sequences, FiniteSets

CONSTANTS
    Kinds,             \* the kinds of request to start from
    Reviewers,
    Items,             \* what an assessment can propose: candidates, findings
    SeededItems,       \* the proposals of the seeded assessments
    Corpora,           \* catalog states
    SeedCorpus,
    MaxRevision,       \* bound: content revisions
    MaxGeneration,     \* bound: fixture generations
    MaxAssessments,    \* bound: assessments on record
    MaxJobs            \* bound: preparation jobs in flight

ASSUME KindsAreKnown == Kinds \subseteq {"live", "seeded"}
ASSUME SeededItemsAreItems == SeededItems \subseteq Items
ASSUME SeedIsACorpus == SeedCorpus \in Corpora
ASSUME BoundsAreNaturals ==
    /\ MaxRevision \in Nat \ {0}
    /\ MaxGeneration \in Nat \ {0}
    /\ MaxAssessments \in Nat
    /\ MaxJobs \in Nat

VARIABLES
    request,       \* the requests row
    catalog,       \* the eligible catalog
    assessments,   \* asset and risk assessments with their proposals, oldest first
    tasks,         \* review_tasks
    questions,     \* clarification_requests, by generation
    milestones,    \* generations with a completion and its handoff
    resolutions,   \* generations with a resolution
    jobs,          \* preparation that may still settle
    page           \* what each reviewer has open

vars == <<request, catalog, assessments, tasks, questions, milestones, resolutions,
          jobs, page>>

------------------------------------------------------------------------------
(* Rows *)

Areas == {"assets", "risk"}
Generations == 1 .. MaxGeneration
Revisions == 0 .. MaxRevision

Request == [kind : Kinds, revision : Revisions, revisions : Revisions,
            generation : Generations, closed : BOOLEAN]

Verdict == {"absent", "undecided", "accepted", "rejected", "settled", "follow_up"}

Assessment == [area : Areas, revision : Revisions, generation : Generations,
               corpus : Corpora, origin : {"fixture", "live"},
               status : {"succeeded", "failed"}, verdicts : [Items -> Verdict]]

\* A completed task names the assessment it reviewed.  An answer leaves the name
\* on a task it sets to pending.
Task == [state : {"pending", "in_progress"}, assessment : Nat]
            \cup [state : {"completed"}, assessment : Nat \ {0}]

Pending == [state |-> "pending", assessment |-> 0]
InProgress == [state |-> "in_progress", assessment |-> 0]

\* Mutant: the completion does not name what it reviewed.
CompletedUnnamed(i) == [state |-> "completed", assessment |-> i - i]

Completed(i) == [state |-> "completed", assessment |-> i]

Job == [area : Areas, revision : Revisions, generation : Generations, corpus : Corpora]

NoPage == [revision |-> 0, generation |-> 0]
Page == [revision : Revisions, generation : Generations]

Proposed(items) == [i \in Items |-> IF i \in items THEN "undecided" ELSE "absent"]
SeedVerdicts == Proposed(SeededItems)

Seeded == request.kind = "seeded"

------------------------------------------------------------------------------
(* Which assessment counts *)

CorpusNow(a) == IF a = "assets" THEN catalog ELSE SeedCorpus

isCurrentAssessment(i) ==
    /\ assessments[i].revision = request.revision
    /\ \/ assessments[i].origin = "fixture"
       \/ assessments[i].generation = request.generation

Eligible(a) == {i \in DOMAIN assessments : assessments[i].area = a /\ isCurrentAssessment(i)}

Newest(S) == CHOOSE i \in S : \A j \in S : j <= i

\* Mutant: the approved assessment is not pinned.
NeverPinned(a) == {i \in Eligible(a) : i = 0}

\* completedAssessmentId, which the caller asks for once review is closed.
Approved(a) ==
    {i \in Eligible(a) : /\ request.closed
                         /\ tasks[a].state = "completed"
                         /\ tasks[a].assessment = i}

\* The approved one, else the newest for today's corpus, else the newest; 0 if none.
selectCurrentAssessment(a) ==
    LET matching == {i \in Eligible(a) : assessments[i].corpus = CorpusNow(a)}
    IN  IF Approved(a) # {} THEN Newest(Approved(a))
        ELSE IF matching # {} THEN Newest(matching)
        ELSE IF Eligible(a) # {} THEN Newest(Eligible(a))
        ELSE 0

\* Mutant: the status is not looked at.
FoundWhateverStatus(a) == selectCurrentAssessment(a) \in Eligible(a)

\* currentAssetAssessment and currentRiskAssessment without a blocker.
Found(a) ==
    LET i == selectCurrentAssessment(a)
    IN  i \in Eligible(a) /\ assessments[i].status = "succeeded"

------------------------------------------------------------------------------
(* Judging proposals *)

Decision(a) == IF a = "assets" THEN {"none", "accepted", "rejected"}
               ELSE {"none", "settled", "follow_up"}

Decisions == {d \in [Areas -> [Items -> Decision("assets") \cup Decision("risk")]] :
                 \A a \in Areas : \A i \in Items : d[a][i] \in Decision(a)}

Decided(decide) == {i \in Items : decide[i] # "none"}
Present(verdicts) == {i \in Items : verdicts[i] # "absent"}

\* The verdicts of assessment i after the decisions of its area.
Judged(i, decide) ==
    [x \in Items |-> IF decide[x] = "none" THEN assessments[i].verdicts[x] ELSE decide[x]]

SomeAccepted(verdicts) == \E i \in Items : verdicts[i] = "accepted"

\* Mutant: no match may be declared over candidates nobody decided.
NoneAccepted(verdicts) == ~SomeAccepted(verdicts)

AllRejected(verdicts) == \A i \in Present(verdicts) : verdicts[i] = "rejected"
AllSettled(verdicts) == \A i \in Present(verdicts) : verdicts[i] = "settled"

------------------------------------------------------------------------------
(* Guards of the workflow functions *)

Unresolved == request.generation \notin resolutions

\* Mutant: the stage is not looked at.
ReviewableIfUnresolved == Unresolved

Reviewable == Unresolved /\ ~request.closed

OpenQuestion == questions[request.generation] = "open"

\* requireVersion: the version the reviewer read is the version of the row.
FreshPage(r) == page[r] # NoPage

\* Mutant: a write that forgets to bump.
Unbumped == [r \in Reviewers |-> page[r]]

\* A version bump: whatever anyone has open is out of date.
Bumped == [r \in Reviewers |-> NoPage]

NextRevision == request.revisions + 1

\* The proposals of assessment i a reviewer can decide.
Decidable(a, i, found) ==
    IF request.closed \/ a \notin found THEN {} ELSE Present(assessments[i].verdicts)

------------------------------------------------------------------------------
(* Reviewers *)

\* The review page: the revision and the generation whose proposals it shows.
OpenPage(r) ==
    /\ page' = [page EXCEPT ![r] =
                   [revision |-> request.revision, generation |-> request.generation]]
    /\ UNCHANGED <<request, catalog, assessments, tasks, questions, milestones,
                   resolutions, jobs>>

\* The tasks after a submission that judges assessment i.
AssetTask(i, decide, outcome) ==
    IF outcome # "none" THEN Completed(i)
    ELSE IF Decided(decide) # {} THEN InProgress ELSE tasks["assets"]

RiskTask(i, decide, confirm) ==
    IF confirm \/ (Decided(decide) # {} /\ AllSettled(Judged(i, decide))) THEN Completed(i)
    ELSE IF Decided(decide) # {} THEN InProgress ELSE tasks["risk"]

\* Mutant: a completed task will do, whatever it was completed on.
NamesAnyAssessment(a, task) == task.state = "completed"

\* The completion names the assessment that is current now.
NamesCurrent(a, task) ==
    /\ task.state = "completed"
    /\ task.assessment = selectCurrentAssessment(a)

\* approvalBlockers on area a: assessed, for today's corpus, judged and completed.
Approvable(a, decide, task) ==
    LET i == selectCurrentAssessment(a) IN
    /\ Found(a)
    /\ assessments[i].corpus = CorpusNow(a)
    /\ NamesCurrent(a, task)
    /\ a = "risk" => AllSettled(Judged(i, decide))

\* recordCompletion: the request's row once first review is complete.
Completion == [request EXCEPT !.closed = TRUE]

\* The areas a submission works on.
Used(decide, outcome, confirm) ==
    {a \in Areas : \/ Decided(decide[a]) # {}
                   \/ a = "assets" /\ outcome # "none"
                   \/ a = "risk" /\ confirm}

TasksAfter(current, decide, outcome, confirm) ==
    [a \in Areas |-> IF a = "assets" THEN AssetTask(current[a], decide[a], outcome)
                     ELSE RiskTask(current[a], decide[a], confirm)]

\* The decisions are recorded on what is current.
AssessmentsAfter(current, decide) ==
    [i \in DOMAIN assessments |->
        LET a == assessments[i].area IN
        IF i = current[a] THEN [assessments[i] EXCEPT !.verdicts = Judged(i, decide[a])]
        ELSE assessments[i]]

\* What one submission writes: its decisions, its outcomes, then its completion.
Submission(current, found, decide, outcome, confirm, complete) ==
    /\ Used(decide, outcome, confirm) # {} \/ complete => ~request.closed
    /\ Used(decide, outcome, confirm) \subseteq found
    /\ outcome = "accepted" => SomeAccepted(Judged(current["assets"], decide["assets"]))
    /\ outcome = "no_match" => AllRejected(Judged(current["assets"], decide["assets"]))
    /\ confirm => AllSettled(Judged(current["risk"], decide["risk"]))
    /\ tasks' = TasksAfter(current, decide, outcome, confirm)
    /\ assessments' = AssessmentsAfter(current, decide)
    /\ complete => /\ ~OpenQuestion
                   /\ request.generation \notin milestones
                   /\ \A a \in Areas : Approvable(a, decide[a], tasks'[a])
    /\ request' = IF complete THEN Completion ELSE request
    /\ milestones' = IF complete THEN milestones \cup {request.generation} ELSE milestones

Submittable(current, found) ==
    {d \in Decisions : \A a \in Areas : Decided(d[a]) \subseteq Decidable(a, current[a], found)}

\* submitAssessment: any decisions, outcomes and completion in one transaction.  The
\* single-purpose endpoints run the same functions on one of them; an empty
\* submission is also a priority decision, RICE or routing.
SubmitAssessment(r) ==
    /\ FreshPage(r)
    /\ Unresolved
    /\ \E current \in {[a \in Areas |-> selectCurrentAssessment(a)]},
          found \in {{a \in Areas : Found(a)}} :
       \E decide \in Submittable(current, found),
          outcome \in {"none", "accepted", "no_match"}, confirm, complete \in BOOLEAN :
          Submission(current, found, decide, outcome, confirm, complete)
    /\ page' = Bumped
    /\ UNCHANGED <<catalog, questions, resolutions, jobs>>

\* addReviewCandidate: one more asset candidate, to be decided.
AddReviewCandidate(r, item) ==
    LET i == selectCurrentAssessment("assets") IN
    /\ FreshPage(r)
    /\ Reviewable
    /\ Found("assets")
    /\ assessments[i].verdicts[item] = "absent"
    /\ assessments' = [assessments EXCEPT ![i].verdicts[item] = "undecided"]
    /\ tasks' = [tasks EXCEPT !["assets"] = InProgress]
    /\ page' = Bumped
    /\ UNCHANGED <<request, catalog, questions, milestones, resolutions, jobs>>

\* assignReview: also after review closed.
AssignReview(r) ==
    /\ FreshPage(r)
    /\ Unresolved
    /\ page' = Bumped
    /\ UNCHANGED <<request, catalog, assessments, tasks, questions, milestones,
                   resolutions, jobs>>

\* askClarification: one open question per generation, citing a revision.
AskClarification(r) ==
    /\ FreshPage(r)
    /\ Reviewable
    /\ ~OpenQuestion
    /\ \/ request.revision # 0 /\ request' = request
       \/ /\ request.revision = 0
          /\ request.revisions < MaxRevision
          /\ request' = [request EXCEPT !.revision = NextRevision, !.revisions = NextRevision]
    /\ questions' = [questions EXCEPT ![request.generation] = "open"]
    /\ page' = Bumped
    /\ UNCHANGED <<catalog, assessments, tasks, milestones, resolutions, jobs>>

\* resolveRequest: closing without fulfillment is possible at every stage.
ResolveRequest(r) ==
    /\ FreshPage(r)
    /\ Unresolved
    /\ resolutions' = resolutions \cup {request.generation}
    /\ page' = Bumped
    /\ UNCHANGED <<request, catalog, assessments, tasks, questions, milestones, jobs>>

------------------------------------------------------------------------------
(* The requester and preparation *)

Identity(a, revision) == [area |-> a, revision |-> revision,
                          generation |-> request.generation, corpus |-> CorpusNow(a)]

\* answerClarification: only a live request has an owner who can answer.
AnswerClarification ==
    /\ ~Seeded
    /\ Reviewable
    /\ OpenQuestion
    /\ request.revisions < MaxRevision
    /\ request' = [request EXCEPT !.revision = NextRevision, !.revisions = NextRevision]
    /\ tasks' = [a \in Areas |-> [state |-> "pending", assessment |-> tasks[a].assessment]]
    /\ questions' = [questions EXCEPT ![request.generation] = "answered"]
    /\ jobs' = jobs \cup {Identity(a, NextRevision) : a \in Areas}
    /\ Cardinality(jobs') <= MaxJobs
    /\ page' = Bumped
    /\ UNCHANGED <<catalog, assessments, milestones, resolutions>>

\* A logical job that succeeded is returned, not run again.
Answered(j) ==
    \E i \in DOMAIN assessments :
        LET b == assessments[i] IN
        /\ b.origin = "live" /\ b.status = "succeeded"
        /\ j = [area |-> b.area, revision |-> b.revision,
                generation |-> b.generation, corpus |-> b.corpus]

\* queueModel or retryModel; the row version stays.
PrepareArea(a) ==
    /\ Reviewable
    /\ ~Answered(Identity(a, request.revision))
    /\ jobs' = jobs \cup {Identity(a, request.revision)}
    /\ Cardinality(jobs') <= MaxJobs
    /\ UNCHANGED <<request, catalog, assessments, tasks, questions, milestones,
                   resolutions, page>>

Fresh(j) == j = Identity(j.area, request.revision)

Result(j, status, items) ==
    [area |-> j.area, revision |-> j.revision, generation |-> j.generation,
     corpus |-> j.corpus, origin |-> "live", status |-> status,
     verdicts |-> Proposed(items)]

\* resetReviewTaskForNewAssessment: revision and generation must match.
ResetTask(j) ==
    IF /\ j.revision = request.revision
       /\ j.generation = request.generation
       /\ ~request.closed
    THEN [tasks EXCEPT ![j.area] = Pending] ELSE tasks

ReviewClosed == request.closed

\* finalizeSuccess with a fresh job: a new assessment, nobody's page is bumped.
SettleSuccess(j) ==
    /\ ~ReviewClosed
    /\ Fresh(j)
    /\ Len(assessments) < MaxAssessments
    /\ \E items \in SUBSET Items :
           assessments' = Append(assessments, Result(j, "succeeded", items))
    /\ tasks' = ResetTask(j)
    /\ jobs' = jobs \ {j}
    /\ UNCHANGED <<request, catalog, questions, milestones, resolutions, page>>

\* A superseded job: before dispatch, at settlement, or by a later enqueue.
SettleStale(j) ==
    /\ ReviewClosed \/ ~Fresh(j)
    /\ jobs' = jobs \ {j}
    /\ UNCHANGED <<request, catalog, assessments, tasks, questions, milestones,
                   resolutions, page>>

\* settleFailure and failDurablyBeforeDispatch: a failed assessment, without a look
\* at the job's freshness.
SettleFailure(j) ==
    /\ IF ReviewClosed THEN UNCHANGED <<assessments, tasks>>
       ELSE /\ Len(assessments) < MaxAssessments
            /\ assessments' = Append(assessments, Result(j, "failed", {}))
            /\ tasks' = ResetTask(j)
    /\ jobs' = jobs \ {j}
    /\ UNCHANGED <<request, catalog, questions, milestones, resolutions, page>>

ChangeCatalog ==
    /\ catalog' \in Corpora \ {catalog}
    /\ UNCHANGED <<request, assessments, tasks, questions, milestones, resolutions,
                   jobs, page>>

------------------------------------------------------------------------------
(* The fixture reset *)

LiveEvidence ==
    \E i \in DOMAIN assessments : /\ assessments[i].origin = "live"
                                  /\ assessments[i].generation = request.generation

\* Mutant: a completion does not strand the generation.
StrandedUnlessCompleted ==
    \/ request.generation \in resolutions
    \/ questions[request.generation] # "none"
    \/ LiveEvidence

\* advanceStrandedGenerations.
Stranded ==
    \/ request.generation \in milestones \cup resolutions
    \/ questions[request.generation] # "none"
    \/ LiveEvidence

\* The seeded rows: a task in progress and an assessment for each area.
SeedTasks(kind) == [a \in Areas |-> IF kind = "seeded" THEN InProgress ELSE Pending]

SeedAssessments(kind) ==
    LET seed(a) == [area |-> a, revision |-> 0, generation |-> 1, corpus |-> SeedCorpus,
                    origin |-> "fixture", status |-> "succeeded", verdicts |-> SeedVerdicts]
    IN  IF kind = "seeded" THEN <<seed("assets"), seed("risk")>> ELSE <<>>

\* restorePointers: only the seeded proposals, wherever they were judged.
Restored(b) ==
    IF b.origin = "live" THEN b
    ELSE [b EXCEPT !.verdicts = [i \in Items |-> IF i \in SeededItems
                                                 THEN SeedVerdicts[i] ELSE b.verdicts[i]]]

\* resetFixtureState: jobs superseded, the generation advanced if it is stranded,
\* the request, its seeded tasks, its seeded decisions and the catalog restored.
ResetFixtureState ==
    /\ Seeded
    /\ Stranded => request.generation < MaxGeneration
    /\ jobs' = {}
    /\ request' = [request EXCEPT !.revision = 0, !.closed = FALSE,
                                  !.generation = IF Stranded THEN @ + 1 ELSE @]
    /\ tasks' = SeedTasks(request.kind)
    /\ assessments' = [i \in DOMAIN assessments |-> Restored(assessments[i])]
    /\ catalog' = SeedCorpus
    /\ page' = Bumped
    /\ UNCHANGED <<questions, milestones, resolutions>>

------------------------------------------------------------------------------
\* A live request starts as submitRequest leaves it: revision 1, both jobs queued.
Init ==
    /\ \E kind \in Kinds :
           LET first == IF kind = "live" THEN 1 ELSE 0 IN
           /\ request = [kind |-> kind, revision |-> first, revisions |-> first,
                         generation |-> 1, closed |-> FALSE]
           /\ assessments = SeedAssessments(kind)
           /\ tasks = SeedTasks(kind)
           /\ jobs = IF kind = "live"
                     THEN [area : Areas, revision : {1}, generation : {1}, corpus : {SeedCorpus}]
                     ELSE {}
    /\ catalog = SeedCorpus
    /\ questions = [g \in Generations |-> "none"]
    /\ milestones = {}
    /\ resolutions = {}
    /\ page = [r \in Reviewers |-> NoPage]

ReviewerStep(r) ==
    \/ OpenPage(r)
    \/ SubmitAssessment(r)
    \/ \E i \in Items : AddReviewCandidate(r, i)
    \/ AssignReview(r)
    \/ AskClarification(r)
    \/ ResolveRequest(r)

Next ==
    \/ \E r \in Reviewers : ReviewerStep(r)
    \/ AnswerClarification
    \/ \E a \in Areas : PrepareArea(a)
    \/ \E j \in jobs : SettleSuccess(j) \/ SettleStale(j) \/ SettleFailure(j)
    \/ ChangeCatalog
    \/ ResetFixtureState

Spec == Init /\ [][Next]_vars

------------------------------------------------------------------------------
(* Properties *)

TypeOK ==
    /\ request \in Request
    /\ catalog \in Corpora
    /\ assessments \in Seq(Assessment)
    /\ tasks \in [Areas -> Task]
    /\ questions \in [Generations -> {"none", "open", "answered"}]
    /\ milestones \subseteq Generations
    /\ resolutions \subseteq Generations
    /\ jobs \subseteq Job
    /\ page \in [Reviewers -> Page \cup {NoPage}]

\* What an outcome of the area may rest on: an accepted candidate or a rejection of
\* every one; a settled decision on every finding.
Supported(a, verdicts) ==
    IF a = "assets" THEN \/ \E i \in Items : verdicts[i] = "accepted"
                         \/ \A i \in Items : verdicts[i] \in {"absent", "rejected"}
    ELSE \A i \in Items : verdicts[i] \in {"absent", "settled"}

\* An approved request shows, in each area, the assessment its completion names:
\* a successful one of this revision whose proposals people judged, whatever the
\* catalog, the workers and other reviewers did before or after.
ApprovalRestsOnEvidence ==
    request.closed =>
        \A a \in Areas :
            LET i == tasks[a].assessment IN
            /\ tasks[a].state = "completed"
            /\ i = selectCurrentAssessment(a)
            /\ i \in DOMAIN assessments
            /\ assessments[i].area = a
            /\ assessments[i].status = "succeeded"
            /\ assessments[i].revision = request.revision
            /\ Supported(a, assessments[i].verdicts)

\* Nobody waits for an answer on an approved request, and it was approved once in
\* its generation: the stage is closed exactly when the milestone is on record.
ApprovalIsRecordedOnce ==
    /\ request.closed <=> request.generation \in milestones
    /\ request.closed => ~OpenQuestion

\* A reviewer whose row version would be accepted has read the revision and the
\* generation the write will land on: every change of them bumps the version.
FreshPagesShowTheRequest ==
    \A r \in Reviewers :
        page[r] # NoPage => /\ page[r].revision = request.revision
                            /\ page[r].generation = request.generation

\* What was approved stays what is shown: no settlement, catalog change or
\* decision replaces or alters the evidence of a closed review.
ApprovedEvidenceIsFrozen ==
    [][request.closed /\ request'.closed =>
           \A a \in Areas :
               LET i == selectCurrentAssessment(a) IN
               /\ selectCurrentAssessment(a)' = i
               /\ assessments'[i] = assessments[i]]_vars

\* A completion on a superseded result approves nothing: what an approval names was
\* prepared for the catalog of that moment, also when the catalog reverted between
\* the outcome and the approval (migration 0012).
ApprovalIsForTodaysCatalog ==
    [][request'.closed /\ ~request.closed =>
           \A a \in Areas : assessments[tasks'[a].assessment].corpus = CorpusNow(a)]_vars

\* After a reset the scenario can be played again: open, unresolved, no question or
\* milestone of its generation, and nothing but seeded evidence counts.
ResetReopensReview ==
    [][ResetFixtureState =>
           /\ Reviewable'
           /\ request'.generation \notin milestones'
           /\ questions'[request'.generation] = "none"
           /\ \A a \in Areas : \A i \in Eligible(a)' : assessments'[i].origin = "fixture"]_vars
==============================================================================
