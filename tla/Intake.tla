------------------------------- MODULE Intake -------------------------------
(***************************************************************************)
(* From a new draft to a submitted request: workflow/intake.ts,            *)
(* workflow/intake-workspace.ts and workflow/requester.ts, with the page   *)
(* of ui/requester-workspace.tsx.                                          *)
(*                                                                         *)
(* One visitor works on one draft from several tabs. A tab remembers the   *)
(* page it shows and acts on it; the draft, the interpretation it rests on *)
(* and the corpus may have moved meanwhile. Two operations are not one     *)
(* transaction: preparing saves and then enqueues, and a submission looks  *)
(* for a replay before it waits for the draft's lock.                      *)
(*                                                                         *)
(* A value of Words stands for the need and the structured content         *)
(* together; the conversation is one question and its answer. A job is     *)
(* named by its logical identity. What the queue does with it is the       *)
(* subject of ModelJobs: here it settles once, fresh or stale.             *)
(***************************************************************************)
EXTENDS Naturals, Sequences, FiniteSets

CONSTANTS
    Tabs,
    Words,          \* complete contents a requester may type or a model propose
    Blank,          \* what a new draft holds
    Replies,        \* what the requester may answer
    NoReply,
    Kinds,          \* what may be proposed besides words: a service too weak to suggest, or
                    \* one service or one asset the page may suggest
    MaxCorpus,      \* bound on the versions of the matching corpus
    None,
    intakeAttemptBudget,
    MaxVersion      \* bound on the row version an unsubmitted draft reaches

ASSUME ConstantsAssumption ==
    /\ Blank \notin Words /\ NoReply \notin Replies
    /\ Kinds \subseteq {"none", "weak", "service", "asset"}
    /\ intakeAttemptBudget \in Nat /\ MaxVersion \in Nat \ {0} /\ MaxCorpus \in Nat \ {0}

VARIABLES
    draft,     \* the drafts row, with its one question and answer
    jobs,      \* intake jobs by identity
    asset,     \* input of the latest asset evaluation asked for, or None
    calls,     \* attempts billed to the draft
    corpus,
    request,   \* the submitted request, or None
    tab        \* what each tab shows and is doing

vars == <<draft, jobs, asset, calls, corpus, request, tab>>

Contents == Words \cup {Blank}
Answers == Replies \cup {NoReply}

IntakeId == [content : Contents, answer : Answers, corpus : 1 .. MaxCorpus]


Job == [status : {"queued", "succeeded", "over"},   \* over: failed or superseded
        proposal : Contents, kind : Kinds \cup {"none"},
        rejected : BOOLEAN,   \* the requester's latest decision on its service
        after : SUBSET IntakeId]   \* the runs created before it

\* The rejections known about a draft join the input of asset matching.
AssetId == [content : Contents, answer : Answers, rejected : BOOLEAN, corpus : 1 .. MaxCorpus]

Draft == [state : {"absent", "open", "ready", "submitted"}, version : 0 .. MaxVersion + 1,
          content : Contents, asked : BOOLEAN, answer : Answers,
          adopted : IntakeId \cup {None}]

Request == [route : {"intake", "legacy"}, content : Words, answer : Answers,
            anchor : IntakeId \cup {None},
            routing : {"service_selected", "routing_requested"},
            selected : IntakeId \cup {None},
            decided : IntakeId \cup {None}, reused : BOOLEAN]

NoPage == [version |-> 0, job |-> None, suggested |-> FALSE, open |-> FALSE]

Page == [version : 0 .. MaxVersion + 1, job : IntakeId \cup {None},
         suggested : BOOLEAN, open : BOOLEAN]

Tab == [pc : {"idle", "saved", "looked"}, page : Page, answered : Answers]

Init ==
    /\ draft = [state |-> "absent", version |-> 0, content |-> Blank, asked |-> FALSE,
                answer |-> NoReply, adopted |-> None]
    /\ jobs = <<>> /\ asset = None /\ calls = 0
    /\ corpus = 1
    /\ request = None
    /\ tab = [t \in Tabs |-> [pc |-> "idle", page |-> NoPage, answered |-> NoReply]]
-----------------------------------------------------------------------------
(* Identity and currency.                                                  *)

With(f, k, v) == [x \in DOMAIN f \cup {k} |-> IF x = k THEN v ELSE f[x]]

Identity(d) == [content |-> d.content, answer |-> d.answer, corpus |-> corpus]

Succeeded(j) == j \in DOMAIN jobs /\ jobs[j].status = "succeeded"

intakeJobIsCurrent(d, j) == Succeeded(j) /\ j = Identity(d)

(* The confirmed words are the proposal, and nothing else has moved.       *)
adoptedExactCurrent(d, j) ==
    /\ d.adopted = j /\ Succeeded(j)
    /\ j.corpus = corpus /\ j.answer = d.answer
    /\ d.content = jobs[j].proposal

HasService(j) == jobs[j].kind \in {"weak", "service"}

Selectable(d, j) ==
    Succeeded(j) /\ HasService(j) /\ (intakeJobIsCurrent(d, j) \/ adoptedExactCurrent(d, j))

\* Mutant: any interpretation of this draft will do.
SelectableIfSucceeded(d, j) == Succeeded(j) /\ HasService(j)

serviceFeedback(d) ==
    /\ d.adopted # None /\ d.adopted \in DOMAIN jobs
    /\ jobs[d.adopted].rejected

AssetIdentity(d) ==
    [content |-> d.content, answer |-> d.answer, rejected |-> serviceFeedback(d),
     corpus |-> corpus]

(* enqueueJobInTx: an identity seen before is reused as it is; a new one   *)
(* needs budget and supersedes the undone jobs.                            *)
Refused(d) == Identity(d) \notin DOMAIN jobs /\ calls >= intakeAttemptBudget

Superseded(js) ==
    [j \in DOMAIN js |-> IF js[j].status = "queued"
                         THEN [js[j] EXCEPT !.status = "over"] ELSE js[j]]

Enqueued(js, id) ==
    IF id \in DOMAIN js THEN js
    ELSE With(Superseded(js), id,
              [status |-> "queued", proposal |-> Blank, kind |-> "none", rejected |-> FALSE,
               after |-> DOMAIN js])

-----------------------------------------------------------------------------
(* The page: one snapshot of the draft, its current job and what that job  *)
(* proposes.                                                               *)
getIntakeWorkspace(d) ==
    LET j == Identity(d)
        current == Succeeded(j)
    IN  [version |-> d.version,
         job |-> IF j \in DOMAIN jobs THEN j ELSE None,
         suggested |-> current /\ jobs[j].kind \in {"service", "asset"},
         open |-> d.asked /\ d.answer = NoReply]

Shows(t, page) == tab' = [tab EXCEPT ![t].pc = "idle", ![t].page = page]

\* What this tab has been told is saved: its latest answer.
Told(t, reply) == IF reply = NoReply THEN tab[t].answered ELSE reply

\* Every refusal makes the page read again.
Refuses(t) == Shows(t, NoPage) /\ UNCHANGED <<draft, jobs, asset, calls, corpus, request>>

lockOwnDraft(d) == d.state \in {"open", "ready"}

(* A submitted draft has no page: only a link to its request.               *)
Read(t) ==
    /\ tab[t].pc = "idle" /\ lockOwnDraft(draft)
    /\ tab[t].page # getIntakeWorkspace(draft)
    /\ Shows(t, getIntakeWorkspace(draft))
    /\ UNCHANGED <<draft, jobs, asset, calls, corpus, request>>

requireVersion(t) == tab[t].page.version = draft.version

Acts(t) == tab[t].pc = "idle" /\ tab[t].page # NoPage

Room == draft.version < MaxVersion

Bumped(d) == [d EXCEPT !.version = @ + 1]
-----------------------------------------------------------------------------
(* Drafts.                                                                 *)

CreateDraft(t) ==
    /\ tab[t].pc = "idle" /\ draft.state = "absent"
    /\ draft' = [draft EXCEPT !.state = "open", !.version = 1]
    /\ Shows(t, [NoPage EXCEPT !.version = 1])
    /\ UNCHANGED <<jobs, asset, calls, corpus, request>>

(* The same creation key again: the draft as it stands, nothing written.   *)
ReplayCreation(t) ==
    /\ tab[t].pc = "idle" /\ tab[t].page = NoPage /\ draft.state # "absent"
    /\ Shows(t, [NoPage EXCEPT !.version = draft.version])
    /\ UNCHANGED <<draft, jobs, asset, calls, corpus, request>>

(* Editing the need or content invalidates the recorded adoption.          *)
draftUpdateValues(d, words, state) ==
    Bumped([d EXCEPT !.content = words, !.state = state,
                     !.adopted = IF words = Blank THEN @ ELSE None])

UpdateDraft(t) ==
    /\ Acts(t) /\ lockOwnDraft(draft) /\ requireVersion(t) /\ Room
    /\ \E words \in Words, state \in {"open", "ready"} :
         draft' = draftUpdateValues(draft, words, state)
    /\ Shows(t, [NoPage EXCEPT !.version = draft.version + 1])
    /\ UNCHANGED <<jobs, asset, calls, corpus, request>>
-----------------------------------------------------------------------------
(* Preparation.                                                            *)

(* An answered question keeps its answer.                                  *)
writeAnswers(d, reply) == IF d.answer = NoReply THEN [d EXCEPT !.answer = reply] ELSE d

\* The answers a page may send: only to a question it shows unanswered.
Sendable(t) == IF tab[t].page.open THEN Answers ELSE {NoReply}

\* Mutant: an answer alone does not change the row version.
BumpedForContent(d, e) == IF e.content # d.content THEN Bumped(e) ELSE e

BumpedIfChanged(d, e) == IF e # d THEN Bumped(e) ELSE d

PrepareSave(t) ==
    /\ Acts(t) /\ lockOwnDraft(draft) /\ requireVersion(t) /\ Room
    /\ \E words \in Words \cup {draft.content}, reply \in Sendable(t) :
         \E d \in {BumpedIfChanged(draft, writeAnswers([draft EXCEPT !.content = words], reply))} :
           /\ draft' = d
           /\ tab' = [tab EXCEPT ![t] =
                       [pc |-> "saved", page |-> NoPage, answered |-> Told(t, reply)]]
    /\ UNCHANGED <<jobs, asset, calls, corpus, request>>

(* Its own transaction, without the draft's lock: another tab may have     *)
(* edited or submitted the draft. A refusal leaves the words saved. Either *)
(* way the page is read again before it can be used.                       *)
PrepareEnqueue(t) ==
    /\ tab[t].pc = "saved"
    /\ jobs' = IF Refused(draft) THEN jobs ELSE Enqueued(jobs, Identity(draft))
    /\ Shows(t, NoPage)
    /\ UNCHANGED <<draft, asset, calls, corpus, request>>

(* Answers and the next job in one transaction: a refusal rolls both back. *)
AnswerIntake(t) ==
    /\ Acts(t) /\ lockOwnDraft(draft) /\ tab[t].page.open
    /\ \E reply \in Replies :
         \/ /\ reply = draft.answer
            /\ Shows(t, [NoPage EXCEPT !.version = draft.version])
            /\ UNCHANGED <<draft, jobs>>
         \/ /\ draft.answer = NoReply /\ requireVersion(t) /\ Room
            /\ tab[t].page.job # None /\ intakeJobIsCurrent(draft, tab[t].page.job)
            /\ \E d \in {Bumped([draft EXCEPT !.answer = reply])} :
                 /\ ~Refused(d)
                 /\ draft' = d
                 /\ jobs' = Enqueued(jobs, Identity(d))
                 /\ tab' = [tab EXCEPT ![t].answered = Told(t, reply),
                                       ![t].page = [NoPage EXCEPT !.version = d.version]]
    /\ UNCHANGED <<asset, calls, corpus, request>>

confirmReplay(t, words) ==
    /\ draft.state = "ready" /\ draft.content = words /\ tab[t].page.job # None
    /\ draft.adopted = tab[t].page.job \/ ~intakeJobIsCurrent(draft, tab[t].page.job)

applyConfirmation(d, j, words) ==
    Bumped([d EXCEPT !.content = words, !.state = "ready",
                     !.adopted = IF words = jobs[j].proposal THEN j ELSE None])

ConfirmIntake(t) ==
    /\ Acts(t) /\ lockOwnDraft(draft) /\ tab[t].page.job # None
    /\ \E words \in Words :
         \/ /\ confirmReplay(t, words)
            /\ Shows(t, [NoPage EXCEPT !.version = draft.version])
            /\ UNCHANGED <<draft, jobs, asset>>
         \/ /\ ~confirmReplay(t, words) /\ requireVersion(t) /\ Room
            /\ intakeJobIsCurrent(draft, tab[t].page.job)
            /\ \E d \in {applyConfirmation(draft, tab[t].page.job, words)} :
                 /\ d.adopted = None => ~Refused(d)
                 /\ draft' = d
                 /\ jobs' = IF d.adopted = None THEN Enqueued(jobs, Identity(d)) ELSE jobs
                 /\ asset' = AssetIdentity(d)
                 /\ Shows(t, [NoPage EXCEPT !.version = d.version])
    /\ UNCHANGED <<calls, corpus, request>>

DecideService(t) ==
    /\ Acts(t) /\ lockOwnDraft(draft) /\ requireVersion(t) /\ Room
    /\ \E j \in DOMAIN jobs, rejected \in BOOLEAN :
         /\ Selectable(draft, j)
         /\ jobs' = [jobs EXCEPT ![j].rejected = rejected]
    /\ draft' = Bumped(draft)
    /\ Shows(t, [NoPage EXCEPT !.version = draft.version + 1])
    /\ UNCHANGED <<asset, calls, corpus, request>>

(* The verdict itself is a decision row nothing here reads, and whether    *)
(* the evaluation is done yet is the worker's affair.                      *)
DecideAssetFit(t) ==
    /\ Acts(t) /\ lockOwnDraft(draft) /\ requireVersion(t) /\ Room
    /\ asset = AssetIdentity(draft)
    /\ draft' = Bumped(draft)
    /\ Shows(t, [NoPage EXCEPT !.version = draft.version + 1])
    /\ UNCHANGED <<jobs, asset, calls, corpus, request>>
-----------------------------------------------------------------------------
(* Submission.                                                             *)

\* Mutant: the current interpretation, whatever was sent.
anyEvidence(d, words) == IF Succeeded(Identity(d)) THEN Identity(d) ELSE None

\* Mutant: only what was typed counts, not the proposal on the page.
evidenceIfTyped(d, words) ==
    LET j == Identity(d) IN IF Succeeded(j) /\ d.content = words THEN j ELSE None

(* The current interpretation, if the words sent are the ones it read or   *)
(* the ones it proposed.                                                   *)
intakeEvidenceForSubmission(d, words) ==
    LET j == Identity(d)
    IN  IF Succeeded(j) /\ words \in {jobs[j].proposal, d.content} THEN j ELSE None

insertSubmission(d, words) ==
    /\ request = None
    /\ draft' = [Bumped(d) EXCEPT !.state = "submitted", !.content = words]

SubmitLookup(t) ==
    /\ Acts(t)
    /\ IF request # None
       THEN Shows(t, NoPage)
       ELSE tab' = [tab EXCEPT ![t].pc = "looked"]
    /\ UNCHANGED <<draft, jobs, asset, calls, corpus, request>>

\* Mutant: the decision is recorded on whatever is current by now.
DecisionOnCurrent(t, evidence) == evidence # None /\ jobs[evidence].kind \in {"service", "asset"}

DecisionStands(t, evidence) ==
    /\ evidence # None /\ evidence = tab[t].page.job
    /\ jobs[evidence].kind \in {"service", "asset"}

Judged(j, verdict) ==
    IF jobs[j].kind = "service"
    THEN [jobs EXCEPT ![j].rejected = (verdict = "rejected")] ELSE jobs

(* Late answers first, then the evidence for the draft on display, its     *)
(* anchor and the decision on its suggestion, then the request and the     *)
(* preparation its reviewer needs.                                         *)
SubmitIntake(t) ==
    /\ tab[t].pc = "looked"
    /\ lockOwnDraft(draft) /\ requireVersion(t)
    /\ \E words \in Words, reply \in Sendable(t),
          verdict \in {"none"} \cup
                      (IF tab[t].page.suggested THEN {"accepted", "rejected"} ELSE {}) :
         \E d \in {writeAnswers(draft, reply)} :
         \E evidence \in {intakeEvidenceForSubmission(d, words)} :
         \E reused \in {evidence # None
                        /\ ~(verdict = "rejected" /\ jobs[evidence].kind = "service")} :
           /\ verdict # "none" => DecisionStands(t, evidence)
           /\ jobs' = IF verdict = "none" THEN jobs ELSE Judged(evidence, verdict)
           /\ insertSubmission([d EXCEPT !.adopted = evidence], words)
           /\ asset' = IF reused THEN asset
                        ELSE AssetIdentity(
                               [d EXCEPT !.content = words, !.adopted = evidence])
           /\ request' = [route |-> "intake", content |-> words, answer |-> d.answer,
                          anchor |-> evidence, routing |-> "routing_requested",
                          selected |-> None,
                          decided |-> IF verdict = "none" THEN None ELSE evidence,
                          reused |-> reused]
           /\ tab' = [tab EXCEPT ![t].pc = "idle", ![t].answered = Told(t, reply),
                                 ![t].page = NoPage]
    /\ UNCHANGED <<calls, corpus>>

(* Somebody else submitted or changed the draft between the lookup and the *)
(* lock: an error, not the other submission's result.                      *)
SubmitTooLate(t) ==
    /\ tab[t].pc = "looked" /\ ~(lockOwnDraft(draft) /\ requireVersion(t))
    /\ Refuses(t)

(* One run is looked at: the current one by identity, else the newest.     *)
currentOrNewestIntakeJob(d) ==
    IF Identity(d) \in DOMAIN jobs THEN {Identity(d)}
    ELSE {j \in DOMAIN jobs : \A i \in DOMAIN jobs : j \notin jobs[i].after}

(* submitRequest: the candidates currently shown are answered, one of them *)
(* selected or all of them rejected. An adopted run that another one has   *)
(* replaced is not shown, though decideService still accepts it.           *)
currentServiceSuggestions(d) == {j \in currentOrNewestIntakeJob(d) : Selectable(d, j)}

\* Mutant: a suggestion may be passed over in silence.
leaveSuggestionsOpen(d) == jobs

recordSuggestionRejections(d) ==
    [j \in DOMAIN jobs |-> IF j \in currentServiceSuggestions(d)
                           THEN [jobs[j] EXCEPT !.rejected = TRUE] ELSE jobs[j]]

SubmitRequest(t) ==
    /\ Acts(t)
    /\ IF request # None
       THEN /\ Shows(t, NoPage)
            /\ UNCHANGED <<draft, jobs, asset, request>>
       ELSE /\ draft.state = "ready" /\ requireVersion(t) /\ draft.content \in Words
            /\ \E j \in {None} \cup {x \in DOMAIN jobs : Selectable(draft, x)} :
                 /\ jobs' = IF j = None THEN recordSuggestionRejections(draft)
                            ELSE [jobs EXCEPT ![j].rejected = FALSE]
                 /\ request' = [route |-> "legacy", content |-> draft.content,
                                answer |-> draft.answer, anchor |-> draft.adopted,
                                routing |-> IF j = None THEN "routing_requested"
                                            ELSE "service_selected",
                                selected |-> j, decided |-> None, reused |-> FALSE]
            /\ insertSubmission(draft, draft.content)
            /\ asset' = AssetIdentity(draft)
            /\ Shows(t, NoPage)
    /\ UNCHANGED <<calls, corpus>>
-----------------------------------------------------------------------------
(* The worker and the corpus.                                              *)

requireIntakeBudget == calls < intakeAttemptBudget

(* A fresh result proposes words, at most one match, and may ask.          *)
SettleIntake ==
    \E j \in DOMAIN jobs :
      /\ jobs[j].status = "queued" /\ requireIntakeBudget
      /\ calls' = calls + 1
      /\ \/ /\ j = Identity(draft)
            /\ \E words \in Words, kind \in Kinds :
                 jobs' = [jobs EXCEPT ![j].status = "succeeded",
                                      ![j].proposal = words, ![j].kind = kind]
            /\ draft' = [draft EXCEPT !.asked = TRUE]
         \/ /\ jobs' = [jobs EXCEPT ![j].status = "over"]
            /\ UNCHANGED draft
      /\ UNCHANGED <<asset, corpus, request, tab>>

ChangeCorpus ==
    /\ request = None /\ corpus < MaxCorpus /\ corpus' = corpus + 1
    /\ UNCHANGED <<draft, jobs, asset, calls, request, tab>>

Next ==
    \/ SettleIntake \/ ChangeCorpus
    \/ \E t \in Tabs :
         \/ Read(t) \/ CreateDraft(t) \/ ReplayCreation(t) \/ UpdateDraft(t)
         \/ PrepareSave(t) \/ PrepareEnqueue(t) \/ AnswerIntake(t) \/ ConfirmIntake(t)
         \/ DecideService(t) \/ DecideAssetFit(t)
         \/ SubmitLookup(t) \/ SubmitIntake(t) \/ SubmitTooLate(t) \/ SubmitRequest(t)

Spec == Init /\ [][Next]_vars
-----------------------------------------------------------------------------
TypeOK ==
    /\ draft \in Draft /\ request \in Request \cup {None}
    /\ DOMAIN jobs \subseteq IntakeId
    /\ \A j \in DOMAIN jobs : /\ jobs[j] \in Job
                              /\ Succeeded(j) <=> jobs[j].proposal # Blank
    /\ asset \in AssetId \cup {None}
    /\ calls \in 0 .. intakeAttemptBudget /\ corpus \in 1 .. MaxCorpus
    /\ tab \in [Tabs -> Tab]

(* The interpretation a submission names as its evidence read the answers  *)
(* that were sent and either read or proposed the very words that were     *)
(* sent: a reviewer never sees another one labelled as matching them       *)
(* (recordSubmissionEvidence), nor a cloned evaluation of other words.     *)
AnchorMatchesWords ==
    request # None /\ request.route = "intake" =>
       /\ request.anchor # None =>
            /\ Succeeded(request.anchor) /\ request.anchor.answer = request.answer
            /\ request.content \in {request.anchor.content, jobs[request.anchor].proposal}
       /\ request.reused => request.anchor # None

(* A requester's acknowledged answer is the one on record, whatever other  *)
(* tabs answer, resend or submit meanwhile (writeAnswers skips, it does    *)
(* not refuse, a question that is already answered).                       *)
AcceptedAnswerIsKept ==
    \A t \in Tabs : tab[t].answered # NoReply => draft.answer = tab[t].answered

(* While a page is up to date, the suggestion it shows can be decided with *)
(* the proposal it shows: the page's gate implies the server's.            *)
ShownSuggestionCanBeDecided ==
    \A t \in Tabs :
       /\ tab[t].page.suggested /\ tab[t].page.version = draft.version
       /\ lockOwnDraft(draft) /\ tab[t].page.job = Identity(draft)
       => intakeEvidenceForSubmission(draft, jobs[tab[t].page.job].proposal) = tab[t].page.job

(* A suggestion is decided only by a tab whose page showed that            *)
(* suggestion, never on an interpretation that became current meanwhile.   *)
DecidedAsShown ==
    [][\A t \in Tabs :
          /\ tab[t].pc = "looked" /\ tab'[t].pc = "idle"
          /\ request' # request /\ request'.decided # None
          => tab[t].page.suggested /\ tab[t].page.job = request'.decided]_vars

\* Another run is current by identity, or none is and another one is newer.
Overtaken(j) ==
    /\ j # Identity(draft)
    /\ \E i \in DOMAIN jobs : i = Identity(draft) \/ j \in jobs[i].after

(* A selected service was proposed for the words and answers submitted,    *)
(* and a submission without one leaves no adopted service undecided,       *)
(* unless another run has overtaken the adopted one: a queued or failed    *)
(* run hides a service that could still be selected.                       *)
RoutingRestsOnCurrentServices ==
    request # None /\ request.route = "legacy" =>
       /\ request.selected # None =>
            /\ request.selected.answer = request.answer
            /\ request.content \in {request.selected.content,
                                    jobs[request.selected].proposal}
       /\ request.routing = "routing_requested" /\ request.anchor # None
            /\ adoptedExactCurrent(draft, request.anchor) /\ HasService(request.anchor)
            /\ ~Overtaken(request.anchor)
          => jobs[request.anchor].rejected
-----------------------------------------------------------------------------
(* The inductive invariant behind the properties above.                    *)

(* A draft that is not submitted leaves room for the submission's version, *)
(* and what it adopted had succeeded.                                      *)
DraftIsSound ==
    /\ draft.state = "absent" => draft.version = 0
    /\ lockOwnDraft(draft) => draft.version <= MaxVersion
    /\ draft.adopted # None => Succeeded(draft.adopted)

(* A page is of this version or an older one, and of this one only if its  *)
(* question is still open; the suggestion it shows was made.               *)
PageIsSound(page) ==
    /\ page.version <= draft.version
    /\ page.open /\ page.version = draft.version => draft.answer = NoReply
    /\ page.suggested => Succeeded(page.job)

(* A submission is final.                                                  *)
SubmissionIsSound ==
    request # None =>
       /\ draft.state = "submitted"
       /\ request.anchor # None => Succeeded(request.anchor)
       /\ request.selected # None => Succeeded(request.selected)

IInv ==
    /\ TypeOK /\ DraftIsSound /\ SubmissionIsSound
    /\ \A t \in Tabs : PageIsSound(tab[t].page)
    /\ AnchorMatchesWords /\ AcceptedAnswerIsKept /\ RoutingRestsOnCurrentServices
=============================================================================
