------------------------------- MODULE Lifecycle -------------------------------
(***************************************************************************)
(* One request from its review to its resolution: Contributions and        *)
(* Delivery over the same row.  The submission that completes the review   *)
(* also records the delivery's intent and its plan.                        *)
(***************************************************************************)
EXTENDS Contributions, Delivery

vars == <<request, contributionVars, deliveryVars>>

Row(stage, area) ==
    [area |-> area, revision |-> 1, version |-> 1, stage |-> stage, score |-> Len(scores),
     resolution |-> "none", resolving |-> FALSE]

\* A request submitted and prepared.  There is no work to link it to, and
\* the bound on changes of work is used up: work is explored from the second start.
StartInReview ==
    /\ ContributionInit /\ DeliveryInit({}, MaxUpdates)
    /\ handoff = "none" /\ plan = NoPlan
    /\ \E area \in {"risk", "assets"} : request = Row("in_first_review", area)

\* A request whose review is complete, as many of the seeded ones are: which area
\* it was makes no difference any more.
StartInDelivery ==
    /\ proposals = <<>> /\ decisions = <<>> /\ scores = <<>> /\ inputs = <<>>
    /\ assessed = <<[revision |-> 1, verdict |-> "settled", decidedAt |-> 0]>>
    /\ selected = 1 /\ task = [state |-> "completed", of |-> 1]
    /\ sent = [page \in Pages |-> Nothing] /\ recorded = [page \in Pages |-> NoWork]
    /\ request = Row("first_review_completed", "risk")
    /\ handoff = "intended" /\ plan \in Plan
    /\ DeliveryInit(SeededItems \cup ForeignItems, 0)

Init == StartInReview \/ StartInDelivery

\* The review's step, with the handoff intent when it completes the review.
ReviewStep ==
    /\ ContributionNext
    /\ IF Completed(request') /\ ~Completed(request)
       THEN \E planned \in Plan : IntendHandoff(planned)
       ELSE UNCHANGED deliveryVars

DeliveryStep == DeliveryNext /\ UNCHANGED contributionVars

Next == ReviewStep \/ DeliveryStep

Spec == Init /\ [][Next]_vars

------------------------------------------------------------------------------
(* Properties *)

\* Every row has its declared shape, through every submission, answer, revision,
\* handoff and resolution.
TypeOK ==
    /\ DeliveryTypeOK
    /\ \A i \in DOMAIN proposals : proposals[i] \in Proposal
    /\ \A i \in DOMAIN decisions : decisions[i] \in Decision
    /\ \A i \in DOMAIN scores : \A f \in Factors : scores[i][f] \in Estimate
    /\ request.score \in 0 .. Len(scores)
    /\ \A i \in DOMAIN inputs : inputs[i].state \in {"open", "answered", "resolved"}
    /\ \A i \in DOMAIN assessed : assessed[i] \in Assessment
    /\ selected \in 0 .. Len(assessed)
    /\ task \in Task
    /\ \A page \in Pages : sent[page].version \in 0 .. MaxVersion /\ Payload(sent[page].payload)

\* The score shown is a snapshot of the factors as decided now, and there is one
\* whenever no factor is missing: a decision, a new revision or an answer never
\* leaves the number of another set of estimates standing (priority.ts).
ScoreMatchesFactors ==
    IF request.score = 0 THEN ~Complete(Tables) \/ decisions = <<>>
    ELSE \A f \in Factors : scores[request.score][f] = FactorView(Tables, f).estimate

\* A question is settled only by a judgment made after its latest answer, that
\* answer being a useful one; a question about a factor only by a decision that
\* takes the estimate the answer gave (review-submission.ts:327, review-inputs.ts:775).
ResolvedInputRestsOnLaterJudgment ==
    \A i \in DOMAIN inputs : inputs[i].state = "resolved" =>
        /\ inputs[i].answers # <<>> /\ LatestAnswer(inputs[i]).useful
        /\ inputs[i].judged > LatestAnswer(inputs[i]).at
        /\ inputs[i].factor # None =>
              \E d \in DOMAIN decisions :
                  /\ decisions[d].factor = inputs[i].factor
                  /\ decisions[d].action # "reject"
                  /\ decisions[d].proposal = LatestAnswer(inputs[i]).proposal

\* What the page offers to complete, the server accepts if nothing moved: the
\* holds of the page cover the blockers of the approval in either area.  Except:
\* with nothing missing, a draft that reopens the area is offered (a follow-up on
\* a settled finding, another choice over a recorded outcome of the options).
OfferedCompletionIsAccepted ==
    Reviewable(Tables) /\ Unresolved =>
        \A verdict \in Verdicts(Tables) :
            \/ CompletionHeld(Tables, verdict)
            \/ ApprovalBlockers(Tables) = {} /\ verdict # "none" /\ Reopens(Tables, verdict)
            \/ Accepts(Tables, Assembled(Tables, verdict, NoDraft, TRUE))

\* Once the review is complete no question about the evidence shown is open: a
\* later catalog does not bring back the questions of another assessment
\* (approvalBlockers, selectCurrentAssessment).
CompletedReviewLeavesNoOpenQuestion ==
    Completed(request) => PageQuestions(Tables) = {}

\* After a resolution nothing about the request changes: no decision, answer,
\* question, link or handoff, whoever was in the middle of one (requireUnresolved).
NothingMovesAfterResolution ==
    [][request.resolution # "none" =>
          UNCHANGED <<request, proposals, decisions, scores, inputs, handoff, links, judged>>]_vars

\* A fulfilled request was judged on every required link it has: none was added
\* while the resolution was deciding or after it (resolveRequest, linkWorkItem).
FulfilmentJudgedAllRequired ==
    request.resolution = "fulfilled" => judged = Required

\* A page that shows the request as it is sends its work under a key of its own:
\* the server never takes new work for a repetition of recorded work.
\* design/reviewer-brief-rules-record.md: "the idempotency key and attempt-id
\* invariants pin replays".
NewWorkIsNotTakenForRecordedWork ==
    \A page \in Pages : sent[page] # Nothing => Reply(page, sent[page]) # "key_reused"

------------------------------------------------------------------------------
(* The inductive invariant behind the properties above *)

\* The tables as sequences of rows, which the transactions keep.
TableType ==
    [request : RequestType, proposals : Seq(Proposal), decisions : Seq(Decision),
     scores : Seq([Factors -> Estimate]), inputs : Seq(Input), assessed : Seq(Assessment),
     selected : Nat, task : Task]

\* A page that waits for a reply sent some work, made of rows that exist.
SentIsWork ==
    /\ DOMAIN sent = Pages
    /\ \A page \in Pages :
          /\ sent[page].version \in 0 .. MaxVersion /\ Payload(sent[page].payload)
          /\ sent[page] # Nothing => HasWork(sent[page].payload)

\* A decision names a revision that has begun and a score that exists.
DecisionsAreFounded(t) ==
    \A i \in DOMAIN t.decisions :
        /\ t.decisions[i].revision <= t.request.revision
        /\ t.decisions[i].base <= Len(t.scores)

\* A question is about a factor or about a finding, and its answers were given at
\* earlier versions of the request.
QuestionsAreFramed(t) ==
    \A i \in DOMAIN t.inputs :
        /\ (t.inputs[i].factor = None) <=> (t.inputs[i].finding # 0)
        /\ t.inputs[i].finding <= Len(t.assessed)
        /\ \A k \in DOMAIN t.inputs[i].answers : t.inputs[i].answers[k].at < t.request.version

\* What the catalog selects was prepared for the current revision.
SelectedIsCurrent(t) ==
    t.selected # 0 => t.selected <= Len(t.assessed)
                      /\ t.assessed[t.selected].revision = t.request.revision

\* A completed area names an assessment that exists.
TaskNamesAssessment(t) == t.task.of <= Len(t.assessed)

ScoreExists(t) == t.request.score <= Len(t.scores)

\* The score is the snapshot of the factors, as ScoreMatchesFactors says.
ScoreIsOfFactors(t) ==
    IF t.request.score = 0 THEN ~Complete(t) \/ t.decisions = <<>>
    ELSE \A f \in Factors : t.scores[t.request.score][f] = FactorView(t, f).estimate

\* A resolved question, as ResolvedInputRestsOnLaterJudgment says.
ResolvedByJudgment(t) ==
    \A i \in DOMAIN t.inputs : t.inputs[i].state = "resolved" =>
        /\ t.inputs[i].answers # <<>> /\ LatestAnswer(t.inputs[i]).useful
        /\ t.inputs[i].judged > LatestAnswer(t.inputs[i]).at
        /\ t.inputs[i].factor # None =>
              \E d \in DOMAIN t.decisions :
                  /\ t.decisions[d].factor = t.inputs[i].factor
                  /\ t.decisions[d].action # "reject"
                  /\ t.decisions[d].proposal = LatestAnswer(t.inputs[i]).proposal

\* A completed review rests on the assessment its area was completed with, and no
\* question about that assessment is open.
CompletionIsSettled(t) ==
    Completed(t.request) => t.task.state = "completed" /\ PageQuestions(t) = {}

\* A resolution in progress found what its commit will rely on.
ResolutionIsJudged ==
    /\ request.resolving => /\ Unresolved /\ judged = Required
                            /\ request.version < MaxVersion
    /\ request.resolution = "fulfilled" => judged = Required

Sound(t) ==
    /\ t \in TableType
    /\ DecisionsAreFounded(t) /\ QuestionsAreFramed(t) /\ SelectedIsCurrent(t)
    /\ TaskNamesAssessment(t) /\ ScoreExists(t) /\ ScoreIsOfFactors(t)
    /\ ResolvedByJudgment(t) /\ CompletionIsSettled(t)

IInv == DeliveryTypeOK /\ SentIsWork /\ Sound(Tables) /\ ResolutionIsJudged
==============================================================================
