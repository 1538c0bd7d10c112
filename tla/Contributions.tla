----------------------------- MODULE Contributions -----------------------------
(***************************************************************************)
(* What people add to one request under review and how it is settled:      *)
(* priority proposals, decisions and scores (src/workflow/priority.ts),    *)
(* questions to contributors and to the requester and their answers        *)
(* (review-inputs.ts), and the reviewer's submission that decides and      *)
(* settles them (review-submission.ts), with the form that sends it        *)
(* (ui/review-brief.tsx, ui/record-form.ts).                               *)
(*                                                                         *)
(* Abstractions.  An estimate is named by where it came from.  A behaviour *)
(* follows one review area, risk or assets, with one finding or option per *)
(* assessment; accepting an option and rejecting it both settle it.  Which *)
(* assessment is current follows the catalog (review-assessments.ts,       *)
(* detailed in ReviewRequest).  An input's own version moves only with the *)
(* request's, so the request's version stands for both.                    *)
(* Left out: text, names, audit rows; a question about a whole area, which *)
(* no page can ask; an option the reviewer adds (ReviewRequest has it).    *)
(***************************************************************************)
EXTENDS RequestRow, FiniteSets, SequencesExt

CONSTANTS
    Factors,          \* priorityFactors
    People,           \* contributors who can be asked
    None,
    MaxAssessments,   \* bound: assessments of the area
    MaxInputs,        \* bound: questions
    MaxAnswers,       \* bound: answers to one question
    MaxDrafts,        \* bound: judgments in one submission
    KeptKeys          \* bound: whether a page is reloaded after a lost response

ASSUME NoneIsNobody == None \notin People \cup Factors
ASSUME FactorsAndPeople == Factors # {} /\ IsFiniteSet(Factors) /\ People # {}
ASSUME ContributionBounds ==
    /\ MaxAssessments \in Nat /\ MaxInputs \in Nat /\ MaxAnswers \in Nat
    /\ MaxDrafts \in Nat /\ KeptKeys \in BOOLEAN

VARIABLES
    proposals,     \* priority_contributions
    decisions,     \* priority_decisions, in sequence
    scores,        \* rice_scores
    inputs,        \* review_input_requests and their responses
    assessed,      \* the area's assessments with the decision on their finding
    selected,      \* the assessment that matches the catalog, 0 if there is none
    task,          \* review_tasks: the area
    sent,          \* per page: the submission it has no reply to
    recorded       \* audit_events: what is recorded under the key a page holds

tables == <<request, proposals, decisions, scores, inputs, assessed, selected, task>>
exchange == <<sent, recorded>>
contributionVars == <<proposals, decisions, scores, inputs, assessed, selected, task,
                      exchange>>

------------------------------------------------------------------------------
(* Rows *)

\* A snapshot, a proposal or a reviewer's own value, by row.
Estimate == [from : {"score", "proposal", "decision"}, row : Nat]

Proposal == [factor : Factors, revision : 1 .. MaxRevision]

\* base is the score the first decision of a revision started from.
Decision == [factor : Factors, action : {"adopt", "replace", "reject"}, proposal : Nat,
             base : Nat, revision : 1 .. MaxRevision]

\* proposal is the estimate the answer carried, 0 if none; at, when it was given.
Answer == [useful : BOOLEAN, proposal : Nat, at : Nat]

\* A question about a factor, or about the finding of an assessment; judged is
\* when the judgment that resolved it was made.
Input == [factor : Factors \cup {None}, finding : Nat, audience : {"internal", "requester"},
          assignee : People \cup {None}, revision : 1 .. MaxRevision,
          state : {"open", "answered", "resolved"}, answers : Seq(Answer), judged : Nat]

\* An assessment with one finding or option and the decision on it.
Assessment == [revision : 1 .. MaxRevision, verdict : {"undecided", "settled", "follow_up"},
               decidedAt : Nat]

Task == [state : {"pending", "in_progress", "completed"}, of : Nat]

\* What a submission changes: a decision on the finding the page showed, the
\* area's outcome, decisions on factors, and whether it completes the review.
Choice(c) == c.action \in {"adopt", "replace", "reject"} /\ c.proposal \in 0 .. Len(proposals)
Payload(p) ==
    /\ p.verdict \in {"none", "settled", "follow_up"} /\ p.finding \in 0 .. Len(assessed)
    /\ p.outcome \in BOOLEAN /\ p.complete \in BOOLEAN
    /\ DOMAIN p.factors \subseteq Factors /\ \A f \in DOMAIN p.factors : Choice(p.factors[f])

Pages == {"finish", "priority"}

NoDraft == [f \in {} |-> [action |-> "reject", proposal |-> 0]]
NoWork == [verdict |-> "none", finding |-> 0, outcome |-> FALSE, factors |-> NoDraft,
           complete |-> FALSE]
Nothing == [version |-> 0, payload |-> NoWork]

------------------------------------------------------------------------------
(* A transaction reads and writes the tables as they are for it.             *)

Tables == [request |-> request, proposals |-> proposals, decisions |-> decisions,
           scores |-> scores, inputs |-> inputs, assessed |-> assessed,
           selected |-> selected, task |-> task]

Commit(t) ==
    /\ request' = t.request /\ proposals' = t.proposals /\ decisions' = t.decisions
    /\ scores' = t.scores /\ inputs' = t.inputs /\ assessed' = t.assessed
    /\ selected' = t.selected /\ task' = t.task

\* The newest assessment of the current revision, 0 if there is none.
Newest(t) ==
    IF t.assessed # <<>> /\ Last(t.assessed).revision = t.request.revision
    THEN Len(t.assessed) ELSE 0

\* selectCurrentAssessment while the review is open: the one that matches the
\* catalog, or the newest, which reads as stale.
Preferred(t) == IF t.selected # 0 THEN t.selected ELSE Newest(t)

\* A completed review keeps the assessment its task names.
CurrentAssessment(t) ==
    IF Completed(t.request) /\ t.task.state = "completed" THEN t.task.of ELSE Preferred(t)

Stale(t) == t.selected = 0 /\ CurrentAssessment(t) # 0

(* Priority *)

IsCurrent(t, row) == row.revision = t.request.revision

CurrentDecisions(t) == {i \in DOMAIN t.decisions : IsCurrent(t, t.decisions[i])}

\* The score that was current before the first decision of the revision.
BaseScore(t) ==
    IF CurrentDecisions(t) = {} THEN t.request.score
    ELSE t.decisions[Min(CurrentDecisions(t))].base

NoEstimate == [estimate |-> [from |-> "none", row |-> 0], proposal |-> 0]

ApplyDecision(reviewed, d, row) ==
    CASE d.action = "reject" ->
            IF d.proposal = 0 \/ d.proposal = reviewed.proposal THEN NoEstimate ELSE reviewed
      [] d.action = "adopt" ->
            [estimate |-> [from |-> "proposal", row |-> d.proposal], proposal |-> d.proposal]
      [] d.action = "replace" ->
            [estimate |-> [from |-> "decision", row |-> row], proposal |-> d.proposal]

\* What is reviewed for a factor after each decision of a revision, from what the
\* page showed before the first.
Reviewed(rows, revision, f, start) ==
    LET after[i \in 0 .. Len(rows)] ==
            IF i = 0 THEN start
            ELSE IF rows[i].factor = f /\ rows[i].revision = revision
                 THEN ApplyDecision(after[i - 1], rows[i], i)
                 ELSE after[i - 1]
    IN  after

\* existingEstimate
Existing(t, f) ==
    IF BaseScore(t) = 0 THEN NoEstimate
    ELSE [estimate |-> t.scores[BaseScore(t)][f], proposal |-> 0]

\* What the page shows as reviewed for a factor.
FactorView(t, f) ==
    Reviewed(t.decisions, t.request.revision, f, Existing(t, f))[Len(t.decisions)]

Complete(t) == \A f \in Factors : FactorView(t, f) # NoEstimate

\* Mutant: a snapshot is taken although a factor is missing.
SnapshotAnyway(t) ==
    [t EXCEPT !.scores = Append(@, [f \in Factors |-> FactorView(t, f).estimate]),
              !.request.score = Len(t.scores) + 1]

\* A snapshot of the factors when none is missing; the pointer is cleared otherwise.
SaveSnapshot(t) ==
    IF ~Complete(t) THEN [t EXCEPT !.request.score = 0]
    ELSE [t EXCEPT !.scores = Append(@, [f \in Factors |-> FactorView(t, f).estimate]),
                   !.request.score = Len(t.scores) + 1]

\* A decision names a proposal of this factor and revision, or none.
NamesProposal(t, f, c) ==
    \/ c.proposal = 0 /\ c.action # "adopt"
    \/ /\ c.proposal \in DOMAIN t.proposals
       /\ t.proposals[c.proposal].factor = f
       /\ IsCurrent(t, t.proposals[c.proposal])

AppendDecisions(t, chosen) ==
    LET base == BaseScore(t)
        rows == [f \in DOMAIN chosen |->
                    [factor |-> f, action |-> chosen[f].action, proposal |-> chosen[f].proposal,
                     base |-> base, revision |-> t.request.revision]]
        order == SetToSeq(DOMAIN chosen)
    IN  [t EXCEPT !.decisions = @ \o [i \in DOMAIN order |-> rows[order[i]]]]

\* Mutant: the snapshot is taken before the decisions are appended.
SnapshotFirst(t, chosen) == AppendDecisions(SaveSnapshot(t), chosen)

ApplyPriorityDecisions(t, chosen) ==
    IF DOMAIN chosen = {} THEN t ELSE SaveSnapshot(AppendDecisions(t, chosen))

(* Questions *)

LatestAnswer(input) == Last(input.answers)

\* Mutant: an earlier useful answer still counts after "unknown".
EverProvided(input) == \E i \in DOMAIN input.answers : input.answers[i].useful

Provided(input) == input.answers # <<>> /\ LatestAnswer(input).useful

\* isCurrentReviewInput: asked of this revision and, of a finding, of the
\* assessment the page shows.
IsCurrentInput(t, input) ==
    /\ IsCurrent(t, input)
    /\ input.finding # 0 => input.finding = CurrentAssessment(t)

\* requireAvailable
Available(t, input) == ~Completed(t.request) \/ input.finding = 0

\* requireCurrent
Amendable(t, input) ==
    IsCurrentInput(t, input) /\ input.state # "resolved" /\ Available(t, input)

\* The judgment in the submission that answers the question, if there is one.
InputResolution(t, p, input) ==
    IF input.finding # 0 THEN p.finding = input.finding /\ p.verdict = "settled"
    ELSE /\ input.factor \in DOMAIN p.factors
         /\ LatestAnswer(input).proposal # 0
         /\ FactorView(t, input.factor).proposal = LatestAnswer(input).proposal

\* resolutionSatisfied: the stored judgment, made after the answer.
ResolutionSatisfied(t, input) ==
    IF input.finding # 0
    THEN /\ t.assessed[input.finding].verdict = "settled"
         /\ t.assessed[input.finding].decidedAt >= LatestAnswer(input).at
         /\ IsCurrent(t, t.assessed[input.finding])
    ELSE FactorView(t, input.factor).proposal = LatestAnswer(input).proposal

\* settleAnsweredInputs: the questions this submission's judgments answer.
Answered(t, p) ==
    {i \in DOMAIN t.inputs :
        /\ IsCurrentInput(t, t.inputs[i]) /\ t.inputs[i].state # "resolved"
        /\ Provided(t.inputs[i]) /\ InputResolution(t, p, t.inputs[i])}

SettleAnsweredInputs(t, settled) ==
    [t EXCEPT !.inputs = [i \in DOMAIN @ |->
        IF i \in settled THEN [@[i] EXCEPT !.state = "resolved", !.judged = t.request.version]
        ELSE @[i]]]

------------------------------------------------------------------------------
(* The review of the area *)

Reviewable(t) == ~Completed(t.request)

\* saveRiskDecisionInTx completes the area with a settled finding and reopens it for
\* a follow-up; saveAssetDecisionInTx reopens it whatever is decided.
Reopens(t, verdict) == t.request.area = "assets" \/ verdict = "follow_up"

SaveDecision(t, p) ==
    IF p.verdict = "none" THEN t
    ELSE [t EXCEPT !.assessed[p.finding].verdict = p.verdict,
                   !.assessed[p.finding].decidedAt = t.request.version,
                   !.task = IF Reopens(t, p.verdict) THEN [state |-> "in_progress", of |-> 0]
                            ELSE [state |-> "completed", of |-> p.finding]]

\* The verdicts there are: an option is accepted or rejected, never followed up.
Verdicts(t) ==
    {"none", "settled"} \cup IF t.request.area = "risk" THEN {"follow_up"} ELSE {}

MayDecide(t, p) ==
    p.verdict # "none" => /\ Reviewable(t) /\ p.verdict \in Verdicts(t)
                          /\ p.finding # 0 /\ p.finding = CurrentAssessment(t)

AreaSettled(t) ==
    CurrentAssessment(t) # 0 /\ t.assessed[CurrentAssessment(t)].verdict = "settled"

\* recordRiskOutcomeInTx, recordAssetOutcomeInTx
RecordOutcome(t, p) ==
    IF p.outcome THEN [t EXCEPT !.task = [state |-> "completed", of |-> CurrentAssessment(t)]]
    ELSE t

MayRecordOutcome(t, p) == p.outcome => Reviewable(t) /\ AreaSettled(t)

\* No outcome of the area is recorded on the assessment that is current.
OutcomeMissing(t) ==
    /\ CurrentAssessment(t) # 0
    /\ t.task # [state |-> "completed", of |-> CurrentAssessment(t)]

\* A question about the evidence shown that no judgment has settled.
PageQuestions(t) ==
    {i \in DOMAIN t.inputs : t.inputs[i].finding # 0 /\ IsCurrentInput(t, t.inputs[i])
                             /\ t.inputs[i].state # "resolved"}

\* approvalBlockers, as names of what is missing.  An open question is a follow-up
\* of the risk area, and keeps the outcome of the assets area pending.
ApprovalBlockers(t) ==
    LET a == CurrentAssessment(t)
        risk == t.request.area = "risk"
        unsettled == PageQuestions(t) # {}
    IN  {b \in {"missing", "stale", "follow_up", "undecided", "outcome"} :
            CASE b = "missing" -> a = 0
              [] b = "stale" -> Stale(t)
              [] b = "follow_up" ->
                    risk /\ (unsettled \/ (a # 0 /\ t.assessed[a].verdict = "follow_up"))
              [] b = "undecided" -> risk /\ a # 0 /\ t.assessed[a].verdict = "undecided"
              [] b = "outcome" -> OutcomeMissing(t) \/ (~risk /\ unsettled)}

Bump(t) == [t EXCEPT !.request = Bumped(@)]

CompleteFirstReview(t, p) ==
    IF p.complete THEN [t EXCEPT !.request.stage = "first_review_completed"] ELSE t

------------------------------------------------------------------------------
(* submitAssessmentInTx: each part works on what the one before it left, and any
   refusal undoes them all. *)

Judged(t, p) == RecordOutcome(SaveDecision(t, p), p)
Decided(t, p) == ApplyPriorityDecisions(Judged(t, p), p.factors)
Settled(t, p) == SettleAnsweredInputs(Decided(t, p), Answered(Decided(t, p), p))

Accepts(t, p) ==
    /\ MayDecide(t, p)
    /\ MayRecordOutcome(SaveDecision(t, p), p)
    /\ \A f \in DOMAIN p.factors : NamesProposal(t, f, p.factors[f])
    /\ \A i \in Answered(Decided(t, p), p) : ResolutionSatisfied(Decided(t, p), t.inputs[i])
    /\ p.complete => Reviewable(t) /\ ApprovalBlockers(Settled(t, p)) = {}

Submitted(t, p) == CompleteFirstReview(Bump(Settled(t, p)), p)

\* submissionReplay, then the rest: what the handler answers a page's message.
Reply(page, m) ==
    CASE recorded[page] = m.payload -> "replayed"
      [] recorded[page] \notin {NoWork, m.payload} -> "key_reused"
      [] recorded[page] = NoWork ->
            IF Unresolved /\ m.version = request.version /\ Accepts(Tables, m.payload)
            THEN "recorded" ELSE "refused"

------------------------------------------------------------------------------
(* What the page offers to send *)

\* The finding's judgment as drafted, or as recorded when it has no draft.
Effective(t, verdict) ==
    IF verdict # "none" THEN verdict ELSE t.assessed[CurrentAssessment(t)].verdict

\* preparationHold, then riskHold or fitHold: a reason the page gives for not
\* offering completion.
PreparationHold(t) == ApprovalBlockers(t) \cap {"missing", "stale"} # {}

RiskHold(t, verdict) ==
    /\ ApprovalBlockers(t) # {}
    /\ \/ Effective(t, verdict) = "undecided"
       \/ Effective(t, verdict) = "follow_up" /\ PageQuestions(t) = {}

FitHold(t, verdict) ==
    "outcome" \in ApprovalBlockers(t) /\ Effective(t, verdict) # "settled"

\* Mutant: a recorded judgment counts as a fresh one.
QuestionHoldIfUnsettled(t, verdict) ==
    \E i \in PageQuestions(t) :
        ~Provided(t.inputs[i]) \/ Effective(t, verdict) # "settled"

QuestionHold(t, verdict) ==
    \E i \in PageQuestions(t) : ~Provided(t.inputs[i]) \/ verdict # "settled"

\* completionHold
CompletionHeld(t, verdict) ==
    \/ PreparationHold(t)
    \/ IF t.request.area = "risk" THEN RiskHold(t, verdict) ELSE FitHold(t, verdict)
    \/ QuestionHold(t, verdict)

\* The outcome of the risk area is listed while it is not on record, that of the
\* assets area also while a question is open.
OutcomePending(t) == "outcome" \in ApprovalBlockers(t)

\* assembleAssessmentPayload: the page adds an outcome that is listed as pending, if
\* the judgments settle it.
Assembled(t, verdict, factors, complete) ==
    [verdict |-> verdict,
     finding |-> IF verdict = "none" THEN 0 ELSE CurrentAssessment(t),
     outcome |-> OutcomePending(t) /\ Effective(t, verdict) = "settled",
     factors |-> factors, complete |-> complete]

FactorChoices(t, f) ==
    {c \in [action : {"adopt", "replace", "reject"}, proposal : {0} \cup DOMAIN t.proposals] :
        NamesProposal(t, f, c)}

\* priorityDecisionsFromDrafts
FactorDrafts(t) ==
    {NoDraft} \cup UNION {{[x \in {f} |-> c] : c \in FactorChoices(t, f)} : f \in Factors}

\* The verdicts a page can draft, or none.
Draftable(t) == IF CurrentAssessment(t) = 0 THEN {"none"} ELSE Verdicts(t)

\* FinishPanel: the drafts with the work, or with the completion of the review.
FinishPayloads(t) ==
    UNION {{Assembled(t, v, d, FALSE) : v \in Draftable(t)}
           \cup {Assembled(t, v, d, TRUE) : v \in {u \in Draftable(t) : ~CompletionHeld(t, u)}}
           : d \in FactorDrafts(t)}

\* PostReviewPrioritySave: after completion only factors are decided.
PriorityPayloads(t) == {Assembled(t, "none", d, FALSE) : d \in FactorDrafts(t) \ {NoDraft}}

Payloads(t, page) == IF page = "priority" THEN PriorityPayloads(t) ELSE FinishPayloads(t)

HasWork(p) == p # NoWork

Drafts(p) == Cardinality(DOMAIN p.factors) + (IF p.verdict = "none" THEN 0 ELSE 1)

Page(t) == IF Reviewable(t) THEN "finish" ELSE "priority"

------------------------------------------------------------------------------
(* Actions *)

\* A request as it is submitted, with the score of a seeded one, or one on which
\* a contributor has already answered a question: versions count from there.
Asked(factor) ==
    [factor |-> factor, finding |-> IF factor = None THEN 1 ELSE 0, audience |-> "internal",
     assignee |-> CHOOSE p \in People : TRUE, revision |-> 1, state |-> "answered",
     answers |-> <<[useful |-> TRUE, proposal |-> IF factor = None THEN 0 ELSE 1, at |-> 0]>>,
     judged |-> 0]

ContributionInit ==
    /\ decisions = <<>>
    /\ \/ /\ proposals = <<>> /\ inputs = <<>>
          /\ scores = <<[f \in Factors |-> [from |-> "score", row |-> 1]]>>
       \/ \E factor \in Factors \cup {None} :
             /\ inputs = <<Asked(factor)>> /\ scores = <<>>
             /\ proposals = IF factor = None THEN <<>>
                            ELSE <<[factor |-> factor, revision |-> 1]>>
    /\ assessed = <<[revision |-> 1, verdict |-> "undecided", decidedAt |-> 0]>>
    /\ selected = 1
    /\ task = [state |-> "pending", of |-> 0]
    /\ sent = [page \in Pages |-> Nothing]
    /\ recorded = [page \in Pages |-> NoWork]

\* useFinishSend and PostReviewPrioritySave, from a page that shows the request
\* as it is: a page loaded earlier sends a message that travels longer.
Send(page) ==
    /\ page = Page(Tables) /\ Unresolved /\ sent[page] = Nothing
    /\ \E p \in Payloads(Tables, page) :
          /\ HasWork(p) /\ Drafts(p) <= MaxDrafts
          /\ sent' = [sent EXCEPT ![page] = [version |-> request.version, payload |-> p]]
    /\ UNCHANGED <<tables, recorded>>

\* The page is loaded again without an answer: what it sent may have been recorded
\* or not, and the key is kept with the saved work.
Reload(page) ==
    /\ sent[page] # Nothing /\ (KeptKeys \/ recorded[page] = NoWork)
    /\ sent' = [sent EXCEPT ![page] = Nothing]
    /\ UNCHANGED <<tables, recorded>>

\* The key and what is recorded under it, when a reply tells the page of success:
\* no page holds the key any more.
KeyDropped(page) == [recorded EXCEPT ![page] = NoWork]

\* submitAssessment: the message arrives, first or again, after a retry or late.
\* The reply reaches the page or is lost.
Submit(page) ==
    /\ sent[page] # Nothing /\ lockRequest
    /\ \E reply \in {Reply(page, sent[page])}, heard \in BOOLEAN :
          /\ IF reply = "recorded" THEN Commit(Submitted(Tables, sent[page].payload))
             ELSE heard /\ UNCHANGED tables
          /\ sent' = IF heard THEN [sent EXCEPT ![page] = Nothing] ELSE sent
          /\ recorded' = IF heard /\ reply \in {"recorded", "replayed"} THEN KeyDropped(page)
                         ELSE IF reply = "recorded"
                         THEN [recorded EXCEPT ![page] = sent[page].payload]
                         ELSE recorded

\* askReviewInput
Ask(factor, audience, assignee) ==
    /\ lockUnresolvedRequest /\ Len(inputs) < MaxInputs
    /\ audience = "requester" => assignee = None
    /\ factor = None => Reviewable(Tables) /\ CurrentAssessment(Tables) # 0
    /\ inputs' = Append(inputs,
          [factor |-> factor, finding |-> IF factor = None THEN CurrentAssessment(Tables) ELSE 0,
           audience |-> audience, assignee |-> assignee, revision |-> request.revision,
           state |-> "open", answers |-> <<>>, judged |-> 0])
    /\ request' = Bumped(request)
    /\ UNCHANGED <<proposals, decisions, scores, assessed, selected, task, exchange>>

\* assignReviewInput
Assign(i, assignee) ==
    /\ lockUnresolvedRequest /\ Amendable(Tables, inputs[i])
    /\ inputs[i].audience = "internal"
    /\ inputs' = [inputs EXCEPT ![i].assignee = assignee]
    /\ request' = Bumped(request)
    /\ UNCHANGED <<proposals, decisions, scores, assessed, selected, task, exchange>>

\* Someone is addressed: the requester, or the contributor it is assigned to.
Addressed(input) == input.audience = "requester" \/ input.assignee # None

\* A useful answer about a factor may carry an estimate.
MayEstimate(input, useful) == useful /\ input.factor # None

\* submitPriorityProposals, in the transaction of the answer.
Proposed(factor) == Append(proposals, [factor |-> factor, revision |-> request.revision])

\* answerReviewInput
AnswerInput(i, useful, estimate) ==
    /\ lockUnresolvedRequest /\ Amendable(Tables, inputs[i])
    /\ Addressed(inputs[i]) /\ Len(inputs[i].answers) < MaxAnswers
    /\ estimate => MayEstimate(inputs[i], useful)
    /\ proposals' = IF estimate THEN Proposed(inputs[i].factor) ELSE proposals
    /\ inputs' = [inputs EXCEPT
          ![i].state = "answered",
          ![i].answers = Append(@, [useful |-> useful, at |-> request.version,
                                    proposal |-> IF estimate THEN Len(proposals) + 1 ELSE 0])]
    /\ request' = Bumped(request)
    /\ UNCHANGED <<decisions, scores, assessed, selected, task, exchange>>

\* saveRiceScore: every factor is replaced at once, whatever the phase.
SaveRiceScore ==
    /\ lockUnresolvedRequest
    /\ Commit(Bump(ApplyPriorityDecisions(Tables,
                        [f \in Factors |-> [action |-> "replace", proposal |-> 0]])))
    /\ UNCHANGED exchange

\* A settlement adds the assessment of the current revision (persist.ts).
SettleAssessment ==
    /\ lockRequest /\ Reviewable(Tables) /\ Len(assessed) < MaxAssessments
    /\ assessed' = Append(assessed, [revision |-> request.revision, verdict |-> "undecided",
                                     decidedAt |-> 0])
    /\ selected' = Len(assessed) + 1
    /\ task' = [state |-> "pending", of |-> 0]
    /\ UNCHANGED <<request, proposals, decisions, scores, inputs, exchange>>

\* The catalog changes: another assessment of the revision matches it, or none.
ChangeCatalog ==
    /\ selected' \in {0} \cup {a \in DOMAIN assessed : assessed[a].revision = request.revision}
    /\ selected' # selected
    /\ UNCHANGED <<request, proposals, decisions, scores, inputs, assessed, task, exchange>>

\* answerClarification starts a new revision without score or assessment.
AnswerClarification ==
    /\ lockUnresolvedRequest /\ Reviewable(Tables) /\ request.revision < MaxRevision
    /\ request' = [Bumped(request) EXCEPT !.revision = @ + 1, !.score = 0]
    /\ selected' = 0
    /\ task' = [task EXCEPT !.state = "pending"]
    /\ UNCHANGED <<proposals, decisions, scores, inputs, assessed, exchange>>

ContributionNext ==
    \/ \E page \in Pages : Send(page) \/ Reload(page) \/ Submit(page)
    \/ \E factor \in Factors \cup {None}, audience \in {"internal", "requester"},
         assignee \in People \cup {None} : Ask(factor, audience, assignee)
    \/ \E i \in DOMAIN inputs :
          \/ \E assignee \in People \cup {None} : Assign(i, assignee)
          \/ \E useful, estimate \in BOOLEAN : AnswerInput(i, useful, estimate)
    \/ SaveRiceScore \/ SettleAssessment \/ ChangeCatalog \/ AnswerClarification
==============================================================================
