---------------------------- MODULE IntakeProofs ----------------------------
(***************************************************************************)
(* What Intake promises for every number of tabs, words, answers, corpus   *)
(* versions and attempts.                                                  *)
(*                                                                         *)
(* Three relations carry the argument over a step: how a draft may move    *)
(* (Moves), which jobs may change (Grown: one that succeeded keeps what it *)
(* proposed; Kept: it keeps everything), and which page a tab may show.    *)
(***************************************************************************)
EXTENDS Intake, TLAPS

JobsTyped(js) ==
    /\ DOMAIN js \subseteq IntakeId
    /\ \A j \in DOMAIN js :
         /\ js[j] \in Job
         /\ js[j].status = "succeeded" <=> js[j].proposal # Blank

Grown(js, more) ==
    \A j \in DOMAIN js : js[j].status = "succeeded" =>
       /\ j \in DOMAIN more /\ more[j].status = "succeeded"
       /\ more[j].proposal = js[j].proposal /\ more[j].kind = js[j].kind

Ordered(js, more) ==
    \A j \in DOMAIN js : j \in DOMAIN more /\ more[j].after = js[j].after

Kept(js, more) ==
    /\ \A j \in DOMAIN js : js[j].status = "succeeded" => more[j] = js[j]
    /\ Ordered(js, more)

DoneIn(js, j) == j \in DOMAIN js /\ js[j].status = "succeeded"

DraftHolds(d, js) ==
    /\ d \in Draft
    /\ d.state = "absent" => d.version = 0
    /\ lockOwnDraft(d) => d.version <= MaxVersion
    /\ d.adopted # None => DoneIn(js, d.adopted)

Moves(d, e) ==
    /\ d \in Draft /\ e \in Draft
    /\ d.version <= e.version
    /\ d.version = e.version => d.answer = e.answer
    /\ d.answer # NoReply => e.answer = d.answer

PageHolds(page, d, js) ==
    /\ page.version <= d.version
    /\ page.open /\ page.version = d.version => d.answer = NoReply
    /\ page.suggested => DoneIn(js, page.job)

TabsHold(tabs, d, js) ==
    /\ tabs \in [Tabs -> Tab]
    /\ \A t \in Tabs : /\ PageHolds(tabs[t].page, d, js)
                       /\ tabs[t].answered # NoReply => d.answer = tabs[t].answered

OthersTyped(evaluated, attempts, version, submitted) ==
    /\ evaluated \in AssetId \cup {None} /\ attempts \in 0 .. intakeAttemptBudget
    /\ version \in 1 .. MaxCorpus /\ submitted \in Request \cup {None}

RequestSound == SubmissionIsSound /\ AnchorMatchesWords /\ RoutingRestsOnCurrentServices

LEMMA PartsOfIInv ==
    IInv <=> /\ DraftHolds(draft, jobs) /\ JobsTyped(jobs) /\ TabsHold(tab, draft, jobs)
             /\ OthersTyped(asset, calls, corpus, request) /\ RequestSound
  BY DEF IInv, TypeOK, DraftHolds, JobsTyped, TabsHold, OthersTyped, RequestSound, Succeeded,
         DraftIsSound, PageIsSound, PageHolds, AcceptedAnswerIsKept, DoneIn

LEMMA PartsOfIInvNext ==
    ASSUME DraftHolds(draft', jobs'), JobsTyped(jobs'), TabsHold(tab', draft', jobs'),
           OthersTyped(asset', calls', corpus', request'), RequestSound'
    PROVE  IInv'
<1>1. TypeOK'
  <2>1. draft' \in Draft /\ tab' \in [Tabs -> Tab]
    BY DEF DraftHolds, TabsHold
  <2>2. /\ asset' \in AssetId \cup {None} /\ calls' \in 0 .. intakeAttemptBudget
        /\ corpus' \in 1 .. MaxCorpus /\ request' \in Request \cup {None}
    BY DEF OthersTyped
  <2>3. /\ DOMAIN jobs' \subseteq IntakeId
        /\ \A j \in DOMAIN jobs' : /\ jobs'[j] \in Job
                                   /\ Succeeded(j)' <=> jobs'[j].proposal # Blank
    BY DEF JobsTyped, Succeeded
  <2> QED BY <2>1, <2>2, <2>3 DEF TypeOK
<1>2. DraftIsSound'
  BY DEF DraftIsSound, DraftHolds, DoneIn, Succeeded, lockOwnDraft
<1>3. \A t \in Tabs : PageIsSound(tab[t].page)'
  BY DEF TabsHold, PageIsSound, PageHolds, DoneIn, Succeeded
<1>4. AcceptedAnswerIsKept'
  BY DEF TabsHold, AcceptedAnswerIsKept
<1> QED BY <1>1, <1>2, <1>3, <1>4 DEF IInv, RequestSound
-----------------------------------------------------------------------------
(* The operators.                                                          *)

LEMMA IdentityIsTyped ==
    ASSUME NEW d \in Draft, corpus \in 1 .. MaxCorpus
    PROVE  /\ Identity(d) \in IntakeId
           /\ Identity(d).content = d.content /\ Identity(d).answer = d.answer
           /\ Identity(d).corpus = corpus
  BY DEF Identity, IntakeId, Draft

LEMMA AssetIdentityIsTyped ==
    ASSUME NEW d \in Draft, corpus \in 1 .. MaxCorpus, JobsTyped(jobs)
    PROVE  AssetIdentity(d) \in AssetId
<1>1. serviceFeedback(d) \in BOOLEAN
  BY DEF serviceFeedback, JobsTyped, Job
<1> QED BY <1>1 DEF AssetIdentity, AssetId, Draft

\* Nothing that succeeded is lost or rewritten when a new job is enqueued.
LEMMA EnqueuedKeeps ==
    ASSUME NEW js, NEW id \in IntakeId, JobsTyped(js)
    PROVE  JobsTyped(Enqueued(js, id)) /\ Kept(js, Enqueued(js, id))
<1>1. CASE id \in DOMAIN js
  BY <1>1 DEF Enqueued, Kept, Ordered
<1>2. CASE id \notin DOMAIN js
  <2> DEFINE new == [status |-> "queued", proposal |-> Blank, kind |-> "none", rejected |-> FALSE,
                      after |-> DOMAIN js]
             over == Superseded(js)
  <2>1. new \in Job /\ new.status = "queued" /\ new.proposal = Blank
    BY DEF Job, Contents, JobsTyped
  <2>2. /\ DOMAIN over = DOMAIN js
        /\ \A j \in DOMAIN js :
             /\ over[j] \in Job /\ over[j].after = js[j].after
             /\ js[j].status # "queued" => over[j] = js[j]
             /\ js[j].status = "queued" => over[j].status = "over" /\ over[j].proposal = js[j].proposal
    BY DEF Superseded, JobsTyped, Job
  <2> HIDE DEF new, over
  <2> DEFINE more == With(over, id, new)
  <2>3. /\ DOMAIN more = DOMAIN js \cup {id} /\ more[id] = new
        /\ \A j \in DOMAIN js : more[j] = over[j]
    BY <1>2, <2>2 DEF With
  <2>4. Enqueued(js, id) = more
    BY <1>2 DEF Enqueued, new, over
  <2> HIDE DEF more
  <2>5. JobsTyped(more)
    <3>1. ASSUME NEW j \in DOMAIN js
          PROVE  /\ more[j] \in Job
                 /\ more[j].status = "succeeded" <=> more[j].proposal # Blank
      <4>1. more[j] = over[j] /\ over[j] \in Job
            /\ (js[j].status = "succeeded" <=> js[j].proposal # Blank)
        BY <2>2, <2>3 DEF JobsTyped
      <4> QED BY <2>2, <4>1
    <3> QED BY <2>1, <2>3, <3>1 DEF JobsTyped
  <2>6. Kept(js, more)
    BY <2>2, <2>3 DEF Kept, Ordered
  <2> QED BY <2>4, <2>5, <2>6
<1> QED BY <1>1, <1>2

\* A decision changes only the flag of its job.
LEMMA DecisionGrows ==
    ASSUME NEW js, NEW j \in DOMAIN js, NEW rejected \in BOOLEAN, JobsTyped(js)
    PROVE  JobsTyped([js EXCEPT ![j].rejected = rejected])
           /\ Grown(js, [js EXCEPT ![j].rejected = rejected])
<1> DEFINE more == [js EXCEPT ![j].rejected = rejected]
<1>1. /\ DOMAIN more = DOMAIN js
      /\ \A i \in DOMAIN js : i # j => more[i] = js[i]
      /\ more[j] = [js[j] EXCEPT !.rejected = rejected]
  OBVIOUS
<1>2. js[j] \in Job
  BY DEF JobsTyped
<1>3. /\ more[j] \in Job /\ more[j].status = js[j].status
      /\ more[j].proposal = js[j].proposal /\ more[j].kind = js[j].kind
  BY <1>1, <1>2 DEF Job
<1> HIDE DEF more
<1> QED BY <1>1, <1>3 DEF JobsTyped, Grown, more

\* A submission without a service answers every one that is shown.
LEMMA RejectionsGrow ==
    ASSUME JobsTyped(jobs), NEW d
    PROVE  /\ JobsTyped(recordSuggestionRejections(d))
           /\ Grown(jobs, recordSuggestionRejections(d))
           /\ \A j \in currentServiceSuggestions(d) : recordSuggestionRejections(d)[j].rejected
           /\ DOMAIN recordSuggestionRejections(d) = DOMAIN jobs
           /\ \A j \in DOMAIN jobs : /\ recordSuggestionRejections(d)[j].status = jobs[j].status
                                     /\ recordSuggestionRejections(d)[j].proposal = jobs[j].proposal
                                     /\ recordSuggestionRejections(d)[j].kind = jobs[j].kind
           /\ Ordered(jobs, recordSuggestionRejections(d))
<1> DEFINE more == recordSuggestionRejections(d)
<1>1. DOMAIN more = DOMAIN jobs
  BY DEF recordSuggestionRejections
<1>2. ASSUME NEW j \in DOMAIN jobs
      PROVE  /\ more[j] \in Job /\ more[j].status = jobs[j].status
             /\ more[j].proposal = jobs[j].proposal /\ more[j].kind = jobs[j].kind
             /\ j \in currentServiceSuggestions(d) => more[j].rejected
             /\ more[j].after = jobs[j].after
  <2>1. jobs[j] \in Job
    BY DEF JobsTyped
  <2>2. more[j] = IF j \in currentServiceSuggestions(d)
                  THEN [jobs[j] EXCEPT !.rejected = TRUE] ELSE jobs[j]
    BY DEF recordSuggestionRejections
  <2> QED BY <2>1, <2>2 DEF Job
<1> HIDE DEF more
<1>3. currentServiceSuggestions(d) \subseteq DOMAIN jobs
  BY DEF currentServiceSuggestions, currentOrNewestIntakeJob
<1> QED BY <1>1, <1>2, <1>3 DEF JobsTyped, Grown, Ordered, more

LEMMA KeptIsGrown ==
    ASSUME NEW js, NEW more, Kept(js, more)
    PROVE  Grown(js, more)
  BY DEF Kept, Grown, Ordered

LEMMA GrownKeepsDone ==
    ASSUME NEW js, NEW more, Grown(js, more), NEW j, DoneIn(js, j)
    PROVE  DoneIn(more, j) /\ more[j].proposal = js[j].proposal /\ more[j].kind = js[j].kind
  BY DEF Grown, DoneIn
-----------------------------------------------------------------------------
(* Tabs.                                                                   *)

\* A page that stays as it is while the draft moves and the jobs grow.
LEMMA PageStays ==
    ASSUME NEW page \in Page, NEW d, NEW e, NEW js, NEW more,
           PageHolds(page, d, js), Moves(d, e), Grown(js, more)
    PROVE  PageHolds(page, e, more)
<1>1. d.version \in Nat /\ e.version \in Nat /\ page.version \in Nat
  BY ConstantsAssumption DEF Moves, Draft, Page
<1> QED BY <1>1, GrownKeepsDone DEF PageHolds, Moves

LEMMA TabsStay ==
    ASSUME NEW tabs, NEW d, NEW e, NEW js, NEW more,
           TabsHold(tabs, d, js), Moves(d, e), Grown(js, more)
    PROVE  TabsHold(tabs, e, more)
<1>1. ASSUME NEW t \in Tabs
      PROVE  /\ PageHolds(tabs[t].page, e, more)
             /\ tabs[t].answered # NoReply => e.answer = tabs[t].answered
  <2>1. tabs[t].page \in Page
    BY DEF TabsHold, Tab
  <2>2. PageHolds(tabs[t].page, e, more)
    BY <2>1, PageStays DEF TabsHold
  <2> QED BY <2>2 DEF TabsHold, Moves
<1> QED BY <1>1 DEF TabsHold

LEMMA TabsMove ==
    ASSUME NEW tabs, NEW d, NEW e, NEW js, NEW more, NEW t \in Tabs, NEW x \in Tab,
           TabsHold(tabs, d, js), Moves(d, e), Grown(js, more),
           PageHolds(x.page, e, more), x.answered # NoReply => e.answer = x.answered
    PROVE  TabsHold([tabs EXCEPT ![t] = x], e, more)
  BY TabsStay DEF TabsHold

LEMMA ShowsHold ==
    ASSUME NEW t \in Tabs, NEW page \in Page, Shows(t, page),
           TabsHold(tab, draft, jobs), Moves(draft, draft'), Grown(jobs, jobs'),
           PageHolds(page, draft', jobs')
    PROVE  TabsHold(tab', draft', jobs')
<1> DEFINE x == [tab[t] EXCEPT !.pc = "idle", !.page = page]
<1>1. tab[t] \in Tab /\ tab \in [Tabs -> Tab]
  BY DEF TabsHold
<1>2. x \in Tab /\ x.page = page /\ x.answered = tab[t].answered
  BY <1>1 DEF Tab
<1>3. tab' = [tab EXCEPT ![t] = x]
  BY <1>1 DEF Shows, Tab
<1> HIDE DEF x
<1>4. x.answered # NoReply => draft'.answer = x.answered
  BY <1>2 DEF TabsHold, Moves
<1> QED BY <1>2, <1>3, <1>4, TabsMove

\* A page that shows no more than a version.
LEMMA EmptyPageHolds ==
    ASSUME NEW version \in 0 .. MaxVersion + 1, NEW d, NEW js, version <= d.version
    PROVE  /\ [NoPage EXCEPT !.version = version] \in Page
           /\ PageHolds([NoPage EXCEPT !.version = version], d, js)
  BY DEF NoPage, Page, PageHolds

LEMMA NoPageHolds ==
    ASSUME NEW d \in Draft, NEW js
    PROVE  NoPage \in Page /\ PageHolds(NoPage, d, js)
  BY ConstantsAssumption DEF NoPage, Page, PageHolds, Draft

\* The page read now shows the draft and its suggestion as they are.
LEMMA ReadPageHolds ==
    ASSUME DraftHolds(draft, jobs), JobsTyped(jobs), corpus \in 1 .. MaxCorpus
    PROVE  /\ getIntakeWorkspace(draft) \in Page
           /\ PageHolds(getIntakeWorkspace(draft), draft, jobs)
<1> DEFINE j == Identity(draft)
           shown == [version |-> draft.version,
                     job |-> IF j \in DOMAIN jobs THEN j ELSE None,
                     suggested |-> Succeeded(j) /\ jobs[j].kind \in {"service", "asset"},
                     open |-> draft.asked /\ draft.answer = NoReply]
<1>1. getIntakeWorkspace(draft) = shown
  BY DEF getIntakeWorkspace
<1>2. draft \in Draft /\ draft.version \in 0 .. MaxVersion + 1 /\ draft.asked \in BOOLEAN
  BY DEF DraftHolds, Draft
<1>3. j \in IntakeId
  BY <1>2, IdentityIsTyped
<1> HIDE DEF j
<1>4. shown \in Page
  BY <1>2, <1>3 DEF Page
<1>5. PageHolds(shown, draft, jobs)
  <2>1. draft.version <= draft.version
    BY <1>2, ConstantsAssumption
  <2> QED BY <2>1 DEF PageHolds, DoneIn, Succeeded
<1> QED BY <1>1, <1>4, <1>5
-----------------------------------------------------------------------------
(* The submitted request.                                                  *)

LEMMA NoRequestYet ==
    ASSUME SubmissionIsSound, lockOwnDraft(draft) \/ draft.state = "absent"
    PROVE  request = None
  BY DEF SubmissionIsSound, lockOwnDraft

LEMMA NoRequestIsSound ==
    ASSUME request' = None
    PROVE  RequestSound'
  BY DEF RequestSound, SubmissionIsSound, AnchorMatchesWords, RoutingRestsOnCurrentServices

\* After a submission the draft's words, answer and adoption stay, and so does
\* every job that had succeeded: what the request rests on cannot move.
LEMMA RequestStays ==
    ASSUME RequestSound, request' = request, corpus' = corpus, Kept(jobs, jobs'),
           draft'.state = draft.state, draft'.answer = draft.answer,
           draft'.content = draft.content, draft'.adopted = draft.adopted
    PROVE  RequestSound'
<1>1. CASE request = None
  BY <1>1, NoRequestIsSound
<1>2. CASE request # None
  <2>1. /\ draft.state = "submitted"
        /\ request.anchor # None => Succeeded(request.anchor)
        /\ request.selected # None => Succeeded(request.selected)
    BY <1>2 DEF RequestSound, SubmissionIsSound
  <2>2. /\ request.anchor # None => Succeeded(request.anchor)'
                                    /\ jobs'[request.anchor] = jobs[request.anchor]
        /\ request.selected # None => Succeeded(request.selected)'
                                      /\ jobs'[request.selected] = jobs[request.selected]
    BY <2>1 DEF Kept, Ordered, Succeeded
  <2>3. SubmissionIsSound'
    BY <2>1, <2>2 DEF SubmissionIsSound
  <2>4. AnchorMatchesWords'
    BY <2>2 DEF RequestSound, AnchorMatchesWords
  <2>5. RoutingRestsOnCurrentServices'
    <3>2. Identity(draft') = Identity(draft) /\ Identity(draft)' = Identity(draft)
      BY DEF Identity
    <3>3. Ordered(jobs, jobs')
      BY DEF Kept
    <3>4. Overtaken(request.anchor) => Overtaken(request.anchor)'
      BY <3>2, <3>3 DEF Overtaken, Ordered
    <3>1. request.anchor # None =>
             /\ adoptedExactCurrent(draft, request.anchor)' => adoptedExactCurrent(draft, request.anchor)
             /\ HasService(request.anchor)' => HasService(request.anchor)
      BY <2>1, <2>2 DEF adoptedExactCurrent, HasService
    <3> QED BY <2>2, <3>1, <3>4 DEF RequestSound, RoutingRestsOnCurrentServices
  <2> QED BY <2>3, <2>4, <2>5 DEF RequestSound
<1> QED BY <1>1, <1>2

LEMMA SameJobsAreKept == Kept(jobs, jobs) /\ Grown(jobs, jobs)
  BY DEF Kept, Grown, Ordered

\* A draft that stays as it is.
LEMMA SameDraftMoves ==
    ASSUME NEW d \in Draft
    PROVE  Moves(d, d)
  BY ConstantsAssumption DEF Moves, Draft

\* A draft under a new version, with the answer it had or its first one.
LEMMA BumpedMoves ==
    ASSUME NEW d \in Draft, NEW e \in Draft, e.version = d.version + 1,
           d.answer # NoReply => e.answer = d.answer
    PROVE  Moves(d, e)
<1>1. d.version \in Nat
  BY DEF Draft
<1> QED BY <1>1 DEF Moves

\* A draft whose jobs grow holds what it adopted.
LEMMA DraftStays ==
    ASSUME NEW d, NEW js, NEW more, DraftHolds(d, js), Grown(js, more)
    PROVE  DraftHolds(d, more)
  BY GrownKeepsDone DEF DraftHolds
-----------------------------------------------------------------------------
(* The steps.                                                              *)

\* Reading: of an open draft, again after a creation, or of a refusal.
LEMMA ReadingKeeps ==
    ASSUME IInv, NEW t \in Tabs, Read(t) \/ ReplayCreation(t) \/ SubmitTooLate(t)
    PROVE  IInv'
<1>1. /\ DraftHolds(draft, jobs) /\ JobsTyped(jobs) /\ TabsHold(tab, draft, jobs)
      /\ OthersTyped(asset, calls, corpus, request) /\ RequestSound /\ corpus \in 1 .. MaxCorpus
      /\ draft \in Draft /\ draft.version \in 0 .. MaxVersion + 1
  BY PartsOfIInv DEF OthersTyped, DraftHolds, Draft
<1>2. UNCHANGED <<draft, jobs, asset, calls, corpus, request>>
  BY DEF Read, ReplayCreation, SubmitTooLate, Refuses
<1>3. PICK page \in Page : Shows(t, page) /\ PageHolds(page, draft, jobs)
  <2>1. CASE Read(t)
    BY <1>1, <2>1, ReadPageHolds DEF Read
  <2>2. CASE ReplayCreation(t)
    <3>1. draft.version <= draft.version
      BY <1>1, ConstantsAssumption
    <3> QED BY <1>1, <2>2, <3>1, EmptyPageHolds DEF ReplayCreation
  <2>3. CASE SubmitTooLate(t)
    BY <1>1, <2>3, NoPageHolds DEF SubmitTooLate, Refuses
  <2> QED BY <2>1, <2>2, <2>3
<1>4. TabsHold(tab', draft', jobs')
  BY <1>1, <1>2, <1>3, ShowsHold, SameDraftMoves, SameJobsAreKept
<1>5. RequestSound'
  BY <1>1, <1>2, RequestStays, SameJobsAreKept
<1> QED BY <1>1, <1>2, <1>4, <1>5, PartsOfIInvNext

\* One transaction on a draft that is not submitted: its version moves by one,
\* or it stays as it is.
LEMMA DraftStepKeeps ==
    ASSUME IInv, lockOwnDraft(draft) \/ draft.state = "absent", request' = request,
           DraftHolds(draft', jobs'), Moves(draft, draft'),
           JobsTyped(jobs'), Grown(jobs, jobs'), TabsHold(tab', draft', jobs'),
           asset' \in AssetId \cup {None}, UNCHANGED <<calls, corpus>>
    PROVE  IInv'
<1>1. request = None /\ OthersTyped(asset, calls, corpus, request)
  BY PartsOfIInv, NoRequestYet DEF RequestSound
<1>2. RequestSound'
  BY <1>1, NoRequestIsSound
<1>3. OthersTyped(asset', calls', corpus', request')
  BY <1>1 DEF OthersTyped
<1> QED BY <1>2, <1>3, PartsOfIInvNext

LEMMA CreateKeeps ==
    ASSUME IInv, NEW t \in Tabs, CreateDraft(t)
    PROVE  IInv'
<1>1. /\ DraftHolds(draft, jobs) /\ JobsTyped(jobs) /\ TabsHold(tab, draft, jobs)
      /\ OthersTyped(asset, calls, corpus, request) /\ draft \in Draft
      /\ draft.state = "absent" /\ draft.version = 0
  BY PartsOfIInv DEF DraftHolds, CreateDraft
<1> DEFINE d == [draft EXCEPT !.state = "open", !.version = 1]
<1>2. 1 \in 0 .. MaxVersion + 1 /\ 1 <= MaxVersion
  BY ConstantsAssumption
<1>3. /\ d \in Draft /\ d.state = "open" /\ d.version = 1 /\ d.answer = draft.answer
      /\ d.adopted = draft.adopted
  BY <1>1, <1>2 DEF Draft
<1>4. draft' = d /\ jobs' = jobs /\ Shows(t, [NoPage EXCEPT !.version = 1])
  BY DEF CreateDraft
<1> HIDE DEF d
<1>5. Moves(draft, d) /\ 1 <= d.version
  BY <1>1, <1>3 DEF Moves
<1>6. DraftHolds(d, jobs)
  BY <1>1, <1>2, <1>3 DEF DraftHolds
<1>7. [NoPage EXCEPT !.version = 1] \in Page /\ PageHolds([NoPage EXCEPT !.version = 1], d, jobs)
  BY <1>2, <1>5, EmptyPageHolds
<1>8. TabsHold(tab', draft', jobs')
  BY <1>1, <1>4, <1>5, <1>7, SameJobsAreKept, ShowsHold
<1> QED BY <1>1, <1>4, <1>5, <1>6, <1>8, SameJobsAreKept, DraftStepKeeps DEF CreateDraft, OthersTyped

\* The facts every other transaction on the draft starts from.
LEMMA OpenFacts ==
    ASSUME IInv, NEW t \in Tabs
    PROVE  /\ DraftHolds(draft, jobs) /\ JobsTyped(jobs) /\ TabsHold(tab, draft, jobs)
           /\ RequestSound /\ draft \in Draft /\ draft.version \in Nat
           /\ corpus \in 1 .. MaxCorpus /\ asset \in AssetId \cup {None}
           /\ tab \in [Tabs -> Tab] /\ tab[t] \in Tab /\ PageHolds(tab[t].page, draft, jobs)
           /\ Grown(jobs, jobs) /\ Moves(draft, draft)
           /\ Room => draft.version + 1 \in 0 .. MaxVersion + 1 /\ draft.version + 1 <= MaxVersion
                      /\ draft.version + 1 \in Nat
<1>1. /\ DraftHolds(draft, jobs) /\ JobsTyped(jobs) /\ TabsHold(tab, draft, jobs)
      /\ OthersTyped(asset, calls, corpus, request) /\ RequestSound
  BY PartsOfIInv
<1>2. draft \in Draft /\ draft.version \in Nat
  BY <1>1 DEF DraftHolds, Draft
<1>3. Room => draft.version + 1 \in 0 .. MaxVersion + 1 /\ draft.version + 1 <= MaxVersion
              /\ draft.version + 1 \in Nat
  BY <1>2, ConstantsAssumption DEF Room
<1>4. tab \in [Tabs -> Tab] /\ tab[t] \in Tab /\ PageHolds(tab[t].page, draft, jobs)
  BY <1>1 DEF TabsHold
<1> QED BY <1>1, <1>2, <1>3, <1>4, SameJobsAreKept, SameDraftMoves DEF OthersTyped

\* The page that a transaction on the draft leaves: its new version, no more.
LEMMA NextVersionShown ==
    ASSUME IInv, NEW t \in Tabs, draft' \in Draft, draft'.version = draft.version + 1, Room,
           Moves(draft, draft'), Grown(jobs, jobs'),
           Shows(t, [NoPage EXCEPT !.version = draft.version + 1])
    PROVE  TabsHold(tab', draft', jobs')
<1>1. draft.version + 1 \in 0 .. MaxVersion + 1 /\ draft.version + 1 <= draft'.version
      /\ TabsHold(tab, draft, jobs)
  BY OpenFacts
<1>2. /\ [NoPage EXCEPT !.version = draft.version + 1] \in Page
      /\ PageHolds([NoPage EXCEPT !.version = draft.version + 1], draft', jobs')
  BY <1>1, EmptyPageHolds
<1> QED BY <1>1, <1>2, ShowsHold

LEMMA UpdateKeeps ==
    ASSUME IInv, NEW t \in Tabs, UpdateDraft(t)
    PROVE  IInv'
<1>1. PICK words \in Words, state \in {"open", "ready"} :
          draft' = draftUpdateValues(draft, words, state)
  BY DEF UpdateDraft
<1>2. /\ lockOwnDraft(draft) /\ Room /\ jobs' = jobs /\ UNCHANGED <<asset, calls, corpus, request>>
      /\ Shows(t, [NoPage EXCEPT !.version = draft.version + 1])
  BY DEF UpdateDraft
<1>3. words # Blank /\ words \in Contents
  BY ConstantsAssumption DEF Contents
<1>4. /\ draft' \in Draft /\ draft'.version = draft.version + 1 /\ draft'.state = state
      /\ draft'.answer = draft.answer /\ draft'.adopted = None
  BY <1>1, <1>2, <1>3, OpenFacts DEF draftUpdateValues, Bumped, Draft
<1>5. Moves(draft, draft')
  BY <1>4, OpenFacts, BumpedMoves
<1>6. DraftHolds(draft', jobs')
  BY <1>2, <1>4, OpenFacts DEF DraftHolds
<1>7. TabsHold(tab', draft', jobs')
  BY <1>2, <1>4, <1>5, OpenFacts, NextVersionShown
<1> QED BY <1>2, <1>5, <1>6, <1>7, OpenFacts, DraftStepKeeps

\* What writing a reply and new words does to a draft.
LEMMA WrittenFacts ==
    ASSUME NEW d \in Draft, NEW words \in Contents, NEW reply \in Answers
    PROVE  LET e == writeAnswers([d EXCEPT !.content = words], reply)
           IN  /\ e \in Draft /\ e.version = d.version /\ e.state = d.state
               /\ e.adopted = d.adopted /\ e.asked = d.asked /\ e.content = words
               /\ d.answer # NoReply => e.answer = d.answer
               /\ d.answer = NoReply => e.answer = reply
  BY DEF writeAnswers, Draft

\* An answer is sent only to a question that is still open on the page.
LEMMA SentAnswerIsNew ==
    ASSUME IInv, NEW t \in Tabs, requireVersion(t), NEW reply \in Sendable(t), reply # NoReply
    PROVE  draft.answer = NoReply
  BY OpenFacts DEF PageHolds, requireVersion, Sendable

LEMMA SendableIsTyped ==
    ASSUME NEW t \in Tabs, NEW reply \in Sendable(t)
    PROVE  reply \in Answers
  BY DEF Sendable, Answers

LEMMA PrepareSaveKeeps ==
    ASSUME IInv, NEW t \in Tabs, PrepareSave(t)
    PROVE  IInv'
<1>1. PICK words \in Words \cup {draft.content}, reply \in Sendable(t) :
          /\ draft' = BumpedIfChanged(draft, writeAnswers([draft EXCEPT !.content = words], reply))
          /\ tab' = [tab EXCEPT ![t] = [pc |-> "saved", page |-> NoPage, answered |-> Told(t, reply)]]
  BY DEF PrepareSave
<1>2. lockOwnDraft(draft) /\ requireVersion(t) /\ Room /\ UNCHANGED <<jobs, asset, calls, corpus, request>>
  BY DEF PrepareSave
<1>3. words \in Contents /\ reply \in Answers /\ draft \in Draft
  BY OpenFacts, SendableIsTyped DEF Contents, Draft
<1> DEFINE e == writeAnswers([draft EXCEPT !.content = words], reply)
           x == [pc |-> "saved", page |-> NoPage, answered |-> Told(t, reply)]
<1>4. /\ e \in Draft /\ e.version = draft.version /\ e.state = draft.state
      /\ e.adopted = draft.adopted
      /\ draft.answer # NoReply => e.answer = draft.answer
      /\ draft.answer = NoReply => e.answer = reply
  BY <1>3, WrittenFacts
<1>5. draft' = BumpedIfChanged(draft, e)
  BY <1>1
<1> HIDE DEF e
<1>6. /\ draft' \in Draft /\ draft'.answer = e.answer /\ draft'.state = draft.state
      /\ draft'.adopted = draft.adopted /\ draft'.version \in {draft.version, draft.version + 1}
      /\ draft'.version = draft.version => draft' = draft
  <2>1. CASE e = draft
    BY <1>4, <1>5, <2>1 DEF BumpedIfChanged
  <2>2. CASE e # draft
    <3>1. draft' = [e EXCEPT !.version = @ + 1]
      BY <1>5, <2>2 DEF BumpedIfChanged, Bumped
    <3> QED BY <1>2, <1>4, <3>1, OpenFacts DEF Draft
  <2> QED BY <2>1, <2>2
<1>7. Moves(draft, draft')
  BY <1>4, <1>6, OpenFacts DEF Moves
<1>8. DraftHolds(draft', jobs')
  BY <1>2, <1>6, OpenFacts DEF DraftHolds, lockOwnDraft
<1>9. Told(t, reply) \in Answers /\ (Told(t, reply) # NoReply => draft'.answer = Told(t, reply))
  <2>1. tab[t].answered \in Answers
        /\ (tab[t].answered # NoReply => draft.answer = tab[t].answered)
    BY OpenFacts DEF TabsHold, Tab
  <2>2. reply # NoReply => draft.answer = NoReply
    BY <1>2, SentAnswerIsNew
  <2> QED BY <1>3, <1>4, <1>6, <2>1, <2>2 DEF Told
<1>10. x \in Tab /\ PageHolds(x.page, draft', jobs') /\ x.answered = Told(t, reply)
  BY <1>6, <1>9, NoPageHolds DEF Tab
<1>11. TabsHold(tab', draft', jobs')
  <2>1. tab' = [tab EXCEPT ![t] = x]
    BY <1>1
  <2> HIDE DEF x
  <2> QED BY <1>2, <1>7, <1>9, <1>10, <2>1, OpenFacts, TabsMove
<1> QED BY <1>2, <1>7, <1>8, <1>11, OpenFacts, DraftStepKeeps

\* The other half of preparing takes no lock: it may come after a submission.
LEMMA PrepareEnqueueKeeps ==
    ASSUME IInv, NEW t \in Tabs, PrepareEnqueue(t)
    PROVE  IInv'
<1>1. Shows(t, NoPage) /\ UNCHANGED <<draft, asset, calls, corpus, request>>
  BY DEF PrepareEnqueue
<1>2. JobsTyped(jobs') /\ Kept(jobs, jobs')
  BY OpenFacts, IdentityIsTyped, EnqueuedKeeps, SameJobsAreKept DEF PrepareEnqueue
<1>3. DraftHolds(draft', jobs')
  BY <1>1, <1>2, OpenFacts, KeptIsGrown, DraftStays
<1>4. TabsHold(tab', draft', jobs')
  BY <1>1, <1>2, OpenFacts, KeptIsGrown, NoPageHolds, ShowsHold
<1>5. RequestSound'
  BY <1>1, <1>2, OpenFacts, RequestStays
<1>6. OthersTyped(asset', calls', corpus', request')
  BY <1>1, PartsOfIInv DEF OthersTyped
<1> QED BY <1>2, <1>3, <1>4, <1>5, <1>6, PartsOfIInvNext

LEMMA AnswerKeeps ==
    ASSUME IInv, NEW t \in Tabs, AnswerIntake(t)
    PROVE  IInv'
<1>1. lockOwnDraft(draft) /\ UNCHANGED <<asset, calls, corpus, request>>
  BY DEF AnswerIntake
<1>2. ASSUME NEW reply \in Replies, reply = draft.answer,
             Shows(t, [NoPage EXCEPT !.version = draft.version]), UNCHANGED <<draft, jobs>>
      PROVE  IInv'
  <2>1. draft.version \in 0 .. MaxVersion + 1 /\ draft.version <= draft.version
    BY OpenFacts DEF Draft
  <2>2. /\ [NoPage EXCEPT !.version = draft.version] \in Page
        /\ PageHolds([NoPage EXCEPT !.version = draft.version], draft, jobs)
    BY <2>1, EmptyPageHolds
  <2>3. TabsHold(tab', draft', jobs')
    BY <1>2, <2>2, OpenFacts, ShowsHold
  <2> QED BY <1>1, <1>2, <2>3, OpenFacts, DraftStepKeeps
<1>3. ASSUME NEW reply \in Replies, NEW d, d = Bumped([draft EXCEPT !.answer = reply]),
             draft.answer = NoReply, Room, draft' = d, jobs' = Enqueued(jobs, Identity(d)),
             tab' = [tab EXCEPT ![t].answered = Told(t, reply),
                                ![t].page = [NoPage EXCEPT !.version = d.version]]
      PROVE  IInv'
  <2>1. reply \in Answers /\ reply # NoReply
    BY ConstantsAssumption DEF Answers
  <2>2. /\ d \in Draft /\ d.version = draft.version + 1 /\ d.state = draft.state
        /\ d.answer = reply /\ d.adopted = draft.adopted
    BY <1>3, <2>1, OpenFacts DEF Bumped, Draft
  <2>3. Moves(draft, d)
    BY <1>3, <2>2, OpenFacts, BumpedMoves
  <2>4. JobsTyped(jobs') /\ Grown(jobs, jobs')
    BY <1>3, <2>2, OpenFacts, IdentityIsTyped, EnqueuedKeeps, KeptIsGrown
  <2>5. DraftHolds(d, jobs')
    <3>1. DraftHolds(draft, jobs')
      BY <2>4, OpenFacts, DraftStays
    <3> QED BY <1>1, <1>3, <2>2, <3>1, OpenFacts DEF DraftHolds, lockOwnDraft
  <2> DEFINE page == [NoPage EXCEPT !.version = d.version]
             x == [tab[t] EXCEPT !.answered = reply, !.page = page]
  <2>6. page \in Page /\ PageHolds(page, d, jobs')
    <3>1. d.version \in 0 .. MaxVersion + 1 /\ d.version <= d.version
      BY <2>2 DEF Draft
    <3> QED BY <3>1, EmptyPageHolds
  <2> HIDE DEF page
  <2>7. x \in Tab /\ x.page = page /\ x.answered = reply
    BY <2>1, <2>6, OpenFacts DEF Tab
  <2>8. tab' = [tab EXCEPT ![t] = x]
    <3>1. Told(t, reply) = reply
      BY <2>1 DEF Told
    <3> QED BY <1>3, <3>1, OpenFacts DEF Tab, page
  <2> HIDE DEF x
  <2>9. TabsHold(tab', d, jobs')
    BY <2>2, <2>3, <2>4, <2>6, <2>7, <2>8, OpenFacts, TabsMove
  <2> QED BY <1>1, <1>3, <2>3, <2>4, <2>5, <2>9, OpenFacts, DraftStepKeeps
<1> QED BY <1>2, <1>3 DEF AnswerIntake

LEMMA ConfirmKeeps ==
    ASSUME IInv, NEW t \in Tabs, ConfirmIntake(t)
    PROVE  IInv'
<1>1. lockOwnDraft(draft) /\ UNCHANGED <<calls, corpus, request>>
  BY DEF ConfirmIntake
<1> DEFINE j == tab[t].page.job
<1>2. CASE Shows(t, [NoPage EXCEPT !.version = draft.version]) /\ UNCHANGED <<draft, jobs, asset>>
  <2>1. draft.version \in 0 .. MaxVersion + 1 /\ draft.version <= draft.version
    BY OpenFacts DEF Draft
  <2>2. /\ [NoPage EXCEPT !.version = draft.version] \in Page
        /\ PageHolds([NoPage EXCEPT !.version = draft.version], draft, jobs)
    BY <2>1, EmptyPageHolds
  <2>3. TabsHold(tab', draft', jobs')
    BY <1>2, <2>2, OpenFacts, ShowsHold
  <2> QED BY <1>1, <1>2, <2>3, OpenFacts, DraftStepKeeps
<1>3. ASSUME NEW words \in Words, NEW d, d = applyConfirmation(draft, j, words),
             Room, intakeJobIsCurrent(draft, j), draft' = d,
             jobs' = IF d.adopted = None THEN Enqueued(jobs, Identity(d)) ELSE jobs,
             asset' = AssetIdentity(d), Shows(t, [NoPage EXCEPT !.version = d.version])
      PROVE  IInv'
  <2>1. words \in Contents /\ j \in IntakeId /\ Succeeded(j)
    BY <1>3, OpenFacts DEF Contents, intakeJobIsCurrent, Succeeded, JobsTyped
  <2>2. /\ d \in Draft /\ d.version = draft.version + 1 /\ d.state = "ready"
        /\ d.answer = draft.answer /\ d.adopted \in {j, None}
    BY <1>3, <2>1, OpenFacts DEF applyConfirmation, Bumped, Draft
  <2>3. Moves(draft, d)
    BY <2>2, OpenFacts, BumpedMoves
  <2>4. JobsTyped(jobs') /\ Grown(jobs, jobs')
    BY <1>3, <2>2, OpenFacts, IdentityIsTyped, EnqueuedKeeps, KeptIsGrown
  <2>5. DraftHolds(d, jobs')
    <3>1. DoneIn(jobs', j)
      BY <2>1, <2>4, GrownKeepsDone DEF Succeeded, DoneIn
    <3> QED BY <1>3, <2>2, <3>1, OpenFacts DEF DraftHolds
  <2>6. TabsHold(tab', draft', jobs')
    BY <1>3, <2>2, <2>3, <2>4, NextVersionShown
  <2>7. asset' \in AssetId \cup {None}
    BY <1>3, <2>2, OpenFacts, AssetIdentityIsTyped
  <2> QED BY <1>1, <1>3, <2>3, <2>4, <2>5, <2>6, <2>7, DraftStepKeeps
<1> QED BY <1>2, <1>3 DEF ConfirmIntake

\* A decision of the requester: on a service, or on the asset's evaluation.
LEMMA DecisionsKeep ==
    ASSUME IInv, NEW t \in Tabs, DecideService(t) \/ DecideAssetFit(t)
    PROVE  IInv'
<1>1. /\ lockOwnDraft(draft) /\ Room /\ draft' = Bumped(draft)
      /\ Shows(t, [NoPage EXCEPT !.version = draft.version + 1])
      /\ UNCHANGED <<asset, calls, corpus, request>>
  BY DEF DecideService, DecideAssetFit
<1>2. JobsTyped(jobs') /\ Grown(jobs, jobs')
  <2>1. CASE DecideAssetFit(t)
    BY <2>1, OpenFacts DEF DecideAssetFit
  <2>2. CASE DecideService(t)
    <3>1. PICK j \in DOMAIN jobs, rejected \in BOOLEAN :
              jobs' = [jobs EXCEPT ![j].rejected = rejected]
      BY <2>2 DEF DecideService
    <3> QED BY <3>1, OpenFacts, DecisionGrows
  <2> QED BY <2>1, <2>2
<1>3. /\ draft' \in Draft /\ draft'.version = draft.version + 1 /\ draft'.state = draft.state
      /\ draft'.answer = draft.answer /\ draft'.adopted = draft.adopted
  BY <1>1, OpenFacts DEF Bumped, Draft
<1>4. Moves(draft, draft')
  BY <1>3, OpenFacts, BumpedMoves
<1>5. DraftHolds(draft', jobs')
  <2>1. DraftHolds(draft, jobs')
    BY <1>2, OpenFacts, DraftStays
  <2> QED BY <1>1, <1>3, <2>1, OpenFacts DEF DraftHolds, lockOwnDraft
<1>6. TabsHold(tab', draft', jobs')
  BY <1>1, <1>2, <1>3, <1>4, NextVersionShown
<1> QED BY <1>1, <1>2, <1>4, <1>5, <1>6, OpenFacts, DraftStepKeeps

LEMMA ReplyFacts ==
    ASSUME NEW d \in Draft, NEW reply \in Answers
    PROVE  LET e == writeAnswers(d, reply)
           IN  /\ e \in Draft /\ e.version = d.version /\ e.state = d.state
               /\ e.adopted = d.adopted /\ e.asked = d.asked /\ e.content = d.content
               /\ d.answer # NoReply => e.answer = d.answer
               /\ d.answer = NoReply => e.answer = reply
  BY DEF writeAnswers, Draft

\* The evidence of a submission read its answers, and read or proposed its words.
LEMMA EvidenceFacts ==
    ASSUME NEW d \in Draft, NEW words, JobsTyped(jobs), corpus \in 1 .. MaxCorpus
    PROVE  LET j == intakeEvidenceForSubmission(d, words)
           IN  /\ j \in IntakeId \cup {None}
               /\ j # None => /\ DoneIn(jobs, j) /\ j.answer = d.answer
                              /\ words \in {jobs[j].proposal, j.content}
<1> DEFINE i == Identity(d)
           j == intakeEvidenceForSubmission(d, words)
<1>1. i \in IntakeId /\ i.content = d.content /\ i.answer = d.answer
  BY IdentityIsTyped
<1>2. j = IF Succeeded(i) /\ words \in {jobs[i].proposal, d.content} THEN i ELSE None
  BY DEF intakeEvidenceForSubmission
<1> HIDE DEF i, j
<1> QED BY <1>1, <1>2 DEF Succeeded, DoneIn, j

\* The draft a submission leaves.
LEMMA SubmittedFacts ==
    ASSUME NEW d \in Draft, d.version <= MaxVersion, NEW words \in Words, insertSubmission(d, words)
    PROVE  /\ draft' \in Draft /\ draft'.version = d.version + 1 /\ draft'.state = "submitted"
           /\ draft'.content = words /\ draft'.answer = d.answer /\ draft'.adopted = d.adopted
<1>1. d.version \in Nat /\ d.version + 1 \in 0 .. MaxVersion + 1 /\ words \in Contents
  BY ConstantsAssumption DEF Draft, Contents
<1> QED BY <1>1 DEF insertSubmission, Bumped, Draft

\* Looking for a replay reads the request and nothing else.
LEMMA LookupKeeps ==
    ASSUME IInv, NEW t \in Tabs, SubmitLookup(t)
    PROVE  IInv'
<1>1. UNCHANGED <<draft, jobs, asset, calls, corpus, request>>
  BY DEF SubmitLookup
<1>2. TabsHold(tab', draft', jobs')
  <2>1. CASE Shows(t, NoPage)
    BY <1>1, <2>1, OpenFacts, NoPageHolds, ShowsHold
  <2>2. CASE tab' = [tab EXCEPT ![t].pc = "looked"]
    <3> DEFINE x == [tab[t] EXCEPT !.pc = "looked"]
    <3>1. x \in Tab /\ x.page = tab[t].page /\ x.answered = tab[t].answered
      BY OpenFacts DEF Tab
    <3>2. tab' = [tab EXCEPT ![t] = x]
      BY <2>2, OpenFacts DEF Tab
    <3> HIDE DEF x
    <3>3. x.answered # NoReply => draft.answer = x.answered
      BY <3>1, OpenFacts DEF TabsHold
    <3> QED BY <1>1, <3>1, <3>2, <3>3, OpenFacts, TabsMove
  <2> QED BY <2>1, <2>2 DEF SubmitLookup
<1>3. RequestSound'
  BY <1>1, OpenFacts, SameJobsAreKept, RequestStays
<1> QED BY <1>1, <1>2, <1>3, PartsOfIInv, PartsOfIInvNext

\* A submission: what the tab sends, the evidence found for it, what it leaves.
Submits(t, words, reply, verdict, d, evidence, reused) ==
    /\ verdict # "none" => DecisionStands(t, evidence)
    /\ jobs' = IF verdict = "none" THEN jobs ELSE Judged(evidence, verdict)
    /\ insertSubmission([d EXCEPT !.adopted = evidence], words)
    /\ asset' = IF reused THEN asset
                ELSE AssetIdentity([d EXCEPT !.content = words, !.adopted = evidence])
    /\ request' = [route |-> "intake", content |-> words, answer |-> d.answer,
                   anchor |-> evidence, routing |-> "routing_requested",
                   selected |-> None,
                   decided |-> IF verdict = "none" THEN None ELSE evidence,
                   reused |-> reused]
    /\ tab' = [tab EXCEPT ![t].pc = "idle", ![t].answered = Told(t, reply),
                          ![t].page = NoPage]

LEMMA SubmissionFacts ==
    ASSUME NEW t \in Tabs, SubmitIntake(t)
    PROVE  \E words \in Words, reply \in Sendable(t),
              verdict \in {"none"} \cup
                          (IF tab[t].page.suggested THEN {"accepted", "rejected"} ELSE {}) :
           \E d \in {writeAnswers(draft, reply)} :
           \E evidence \in {intakeEvidenceForSubmission(d, words)} :
           \E reused \in {evidence # None
                          /\ ~(verdict = "rejected" /\ jobs[evidence].kind = "service")} :
              Submits(t, words, reply, verdict, d, evidence, reused)
  BY DEF SubmitIntake, Submits

\* A submission changes the tab that sends it, and no other.
LEMMA OthersKeepTheirTab ==
    ASSUME NEW u \in Tabs, NEW t \in Tabs, u # t, tab \in [Tabs -> Tab], SubmitIntake(u)
    PROVE  tab'[t] = tab[t]
<1>1. PICK words, reply, verdict, d, evidence, reused :
          Submits(u, words, reply, verdict, d, evidence, reused)
  BY SubmissionFacts
<1> DEFINE answered == Told(u, reply)
<1>2. tab' = [tab EXCEPT ![u].pc = "idle", ![u].answered = answered, ![u].page = NoPage]
  BY <1>1 DEF Submits
<1> HIDE DEF answered
<1> QED BY <1>2

LEMMA SubmitIntakeKeeps ==
    ASSUME IInv, NEW t \in Tabs, SubmitIntake(t)
    PROVE  IInv'
<1>1. lockOwnDraft(draft) /\ requireVersion(t) /\ UNCHANGED <<calls, corpus>>
  BY DEF SubmitIntake
<1>sent. PICK words \in Words, reply \in Sendable(t),
            verdict \in {"none"} \cup
                        (IF tab[t].page.suggested THEN {"accepted", "rejected"} ELSE {}) :
           \E d \in {writeAnswers(draft, reply)} :
           \E evidence \in {intakeEvidenceForSubmission(d, words)} :
           \E reused \in {evidence # None
                          /\ ~(verdict = "rejected" /\ jobs[evidence].kind = "service")} :
              Submits(t, words, reply, verdict, d, evidence, reused)
  BY SubmissionFacts
<1>found. PICK d, evidence, reused :
          /\ d = writeAnswers(draft, reply)
          /\ evidence = intakeEvidenceForSubmission(d, words)
          /\ reused = (evidence # None
                        /\ ~(verdict = "rejected" /\ jobs[evidence].kind = "service"))
          /\ Submits(t, words, reply, verdict, d, evidence, reused)
  BY <1>sent
<1>2. /\ d = writeAnswers(draft, reply)
      /\ evidence = intakeEvidenceForSubmission(d, words)
      /\ reused \in BOOLEAN /\ (reused => evidence # None)
      /\ verdict # "none" => DecisionStands(t, evidence)
      /\ jobs' = IF verdict = "none" THEN jobs ELSE Judged(evidence, verdict)
      /\ insertSubmission([d EXCEPT !.adopted = evidence], words)
      /\ asset' = IF reused THEN asset
                  ELSE AssetIdentity([d EXCEPT !.content = words, !.adopted = evidence])
      /\ request' = [route |-> "intake", content |-> words, answer |-> d.answer,
                     anchor |-> evidence, routing |-> "routing_requested",
                     selected |-> None,
                     decided |-> IF verdict = "none" THEN None ELSE evidence,
                     reused |-> reused]
      /\ tab' = [tab EXCEPT ![t].pc = "idle", ![t].answered = Told(t, reply),
                            ![t].page = NoPage]
  BY <1>found DEF Submits
<1>3. reply \in Answers
  BY SendableIsTyped
<1>4. /\ d \in Draft /\ d.version = draft.version /\ d.state = draft.state
      /\ draft.answer # NoReply => d.answer = draft.answer
      /\ draft.answer = NoReply => d.answer = reply
  BY <1>2, <1>3, OpenFacts, ReplyFacts
<1>5. /\ evidence \in IntakeId \cup {None}
      /\ evidence # None => /\ DoneIn(jobs, evidence) /\ evidence.answer = d.answer
                            /\ words \in {jobs[evidence].proposal, evidence.content}
  BY <1>2, <1>4, OpenFacts, EvidenceFacts
<1> DEFINE e == [d EXCEPT !.adopted = evidence]
<1>6. e \in Draft /\ e.version = d.version /\ e.answer = d.answer /\ e.adopted = evidence
  BY <1>4, <1>5 DEF Draft
<1>7. draft.version <= MaxVersion /\ draft.version \in Nat
  BY <1>1, OpenFacts DEF DraftHolds
<1>8. /\ draft' \in Draft /\ draft'.version = draft.version + 1 /\ draft'.state = "submitted"
      /\ draft'.answer = d.answer /\ draft'.adopted = evidence
  <2>1. insertSubmission(e, words)
    BY <1>2
  <2> HIDE DEF e
  <2> QED BY <1>4, <1>6, <1>7, <2>1, SubmittedFacts
<1>9. Moves(draft, draft')
  BY <1>4, <1>8, OpenFacts, BumpedMoves
<1>10. JobsTyped(jobs') /\ Grown(jobs, jobs')
  <2>1. CASE verdict = "none"
    BY <1>2, <2>1, OpenFacts
  <2>2. CASE verdict # "none"
    <3>1. evidence \in DOMAIN jobs
      BY <1>2, <1>5, <2>2 DEF DecisionStands, DoneIn
    <3>2. jobs' = [jobs EXCEPT ![evidence].rejected = (verdict = "rejected")] \/ jobs' = jobs
      BY <1>2, <2>2 DEF Judged
    <3> DEFINE rejected == verdict = "rejected"
    <3>3. rejected \in BOOLEAN
      OBVIOUS
    <3> HIDE DEF rejected
    <3>4. jobs' = [jobs EXCEPT ![evidence].rejected = rejected] \/ jobs' = jobs
      BY <3>2 DEF rejected
    <3> QED BY <3>1, <3>3, <3>4, OpenFacts, DecisionGrows
  <2> QED BY <2>1, <2>2
<1>11. evidence # None => DoneIn(jobs', evidence) /\ jobs'[evidence].proposal = jobs[evidence].proposal
  BY <1>5, <1>10, GrownKeepsDone
<1>12. DraftHolds(draft', jobs')
  BY <1>8, <1>11 DEF DraftHolds, lockOwnDraft
<1>13. asset' \in AssetId \cup {None}
  <2>1. [d EXCEPT !.content = words, !.adopted = evidence] \in Draft
    BY <1>4, <1>5 DEF Draft, Contents
  <2> QED BY <1>2, <2>1, OpenFacts, AssetIdentityIsTyped
<1>14. /\ request'.route = "intake" /\ request'.content = words /\ request'.answer = d.answer
       /\ request'.anchor = evidence /\ request'.selected = None
       /\ request'.reused => evidence # None
  BY <1>2
<1>15. request' \in Request
  <2>1. d.answer \in Answers /\ reused \in BOOLEAN
    BY <1>2, <1>4 DEF Draft
  <2>2. (IF verdict = "none" THEN None ELSE evidence) \in IntakeId \cup {None}
    BY <1>5
  <2> QED BY <1>2, <1>5, <2>1, <2>2 DEF Request
<1>16. RequestSound'
  <2>1. SubmissionIsSound'
    BY <1>8, <1>11, <1>14 DEF SubmissionIsSound, Succeeded, DoneIn
  <2>2. AnchorMatchesWords'
    BY <1>5, <1>11, <1>14 DEF AnchorMatchesWords, Succeeded, DoneIn
  <2>3. RoutingRestsOnCurrentServices'
    BY <1>14 DEF RoutingRestsOnCurrentServices
  <2> QED BY <2>1, <2>2, <2>3 DEF RequestSound
<1>17. Told(t, reply) \in Answers /\ (Told(t, reply) # NoReply => draft'.answer = Told(t, reply))
  <2>1. tab[t].answered \in Answers
        /\ (tab[t].answered # NoReply => draft.answer = tab[t].answered)
    BY OpenFacts DEF TabsHold, Tab
  <2>2. reply # NoReply => draft.answer = NoReply
    BY <1>1, SentAnswerIsNew
  <2> QED BY <1>3, <1>4, <1>8, <2>1, <2>2 DEF Told
<1> DEFINE answered == Told(t, reply)
           x == [tab[t] EXCEPT !.pc = "idle", !.answered = answered, !.page = NoPage]
<1>18. x \in Tab /\ PageHolds(x.page, draft', jobs') /\ x.answered = answered
  <2>1. answered \in Answers /\ NoPage \in Page /\ tab[t] \in Tab
        /\ PageHolds(NoPage, draft', jobs')
    BY <1>8, <1>17, OpenFacts, NoPageHolds
  <2> HIDE DEF answered
  <2>2. x \in Tab /\ x.page = NoPage /\ x.answered = answered
    BY <2>1 DEF Tab
  <2> QED BY <2>1, <2>2
<1>19. TabsHold(tab', draft', jobs')
  <2>1. tab' = [tab EXCEPT ![t].pc = "idle", ![t].answered = answered, ![t].page = NoPage]
    BY <1>2
  <2>2. answered # NoReply => draft'.answer = answered
    BY <1>17
  <2> HIDE DEF answered
  <2>3. tab' = [tab EXCEPT ![t] = x]
    BY <2>1, OpenFacts DEF Tab
  <2> HIDE DEF x
  <2> QED BY <1>9, <1>10, <1>18, <2>2, <2>3, OpenFacts, TabsMove
<1>20. OthersTyped(asset', calls', corpus', request')
  BY <1>1, <1>13, <1>15, PartsOfIInv DEF OthersTyped
<1> QED BY <1>10, <1>12, <1>16, <1>19, <1>20, PartsOfIInvNext

LEMMA SubmitRequestKeeps ==
    ASSUME IInv, NEW t \in Tabs, SubmitRequest(t)
    PROVE  IInv'
<1>1. Shows(t, NoPage) /\ UNCHANGED <<calls, corpus>>
  BY DEF SubmitRequest
<1>2. CASE request # None
  <2>1. UNCHANGED <<draft, jobs, asset, request>>
    BY <1>2 DEF SubmitRequest
  <2>2. TabsHold(tab', draft', jobs')
    BY <1>1, <2>1, OpenFacts, NoPageHolds, ShowsHold
  <2>3. RequestSound'
    BY <1>1, <2>1, OpenFacts, SameJobsAreKept, RequestStays
  <2> QED BY <1>1, <2>1, <2>2, <2>3, PartsOfIInv, PartsOfIInvNext
<1>3. CASE request = None
  <2>1. /\ draft.state = "ready" /\ draft.content \in Words
        /\ insertSubmission(draft, draft.content) /\ asset' = AssetIdentity(draft)
    BY <1>3 DEF SubmitRequest
  <2>2. PICK j \in {None} \cup {x \in DOMAIN jobs : Selectable(draft, x)} :
          /\ jobs' = IF j = None THEN recordSuggestionRejections(draft)
                     ELSE [jobs EXCEPT ![j].rejected = FALSE]
          /\ request' = [route |-> "legacy", content |-> draft.content,
                         answer |-> draft.answer, anchor |-> draft.adopted,
                         routing |-> IF j = None THEN "routing_requested"
                                     ELSE "service_selected",
                         selected |-> j, decided |-> None, reused |-> FALSE]
    BY <1>3 DEF SubmitRequest
  <2>3. draft.version <= MaxVersion /\ lockOwnDraft(draft)
    BY <2>1, OpenFacts DEF DraftHolds, lockOwnDraft
  <2>4. /\ draft' \in Draft /\ draft'.version = draft.version + 1 /\ draft'.state = "submitted"
        /\ draft'.content = draft.content /\ draft'.answer = draft.answer
        /\ draft'.adopted = draft.adopted
    BY <2>1, <2>3, OpenFacts, SubmittedFacts
  <2>5. Moves(draft, draft')
    BY <2>4, OpenFacts, BumpedMoves
  <2>6. j # None => Selectable(draft, j) /\ j \in DOMAIN jobs
    BY <2>2
  <2>7. JobsTyped(jobs') /\ Grown(jobs, jobs')
    BY <2>2, <2>6, OpenFacts, DecisionGrows, RejectionsGrow
  <2>8. DraftHolds(draft', jobs')
    BY <2>4, <2>7, OpenFacts, GrownKeepsDone DEF DraftHolds, lockOwnDraft
  <2>9. asset' \in AssetId \cup {None}
    BY <2>1, OpenFacts, AssetIdentityIsTyped
  <2>10. TabsHold(tab', draft', jobs')
    BY <1>1, <2>4, <2>5, <2>7, OpenFacts, NoPageHolds, ShowsHold
  <2>11. /\ request'.route = "legacy" /\ request'.content = draft.content
         /\ request'.answer = draft.answer /\ request'.anchor = draft.adopted
         /\ request'.selected = j
         /\ request'.routing = "routing_requested" => j = None
    BY <2>2
  <2>12. request' \in Request
    <3>1. j \in IntakeId \cup {None}
      BY <2>6, OpenFacts DEF JobsTyped
    <3>2. draft.answer \in Answers /\ draft.adopted \in IntakeId \cup {None}
      BY OpenFacts DEF Draft
    <3> QED BY <2>1, <2>2, <3>1, <3>2 DEF Request
  <2>13. j # None => /\ DoneIn(jobs, j) /\ j.answer = draft.answer
                     /\ draft.content \in {j.content, jobs[j].proposal}
    BY <2>6, OpenFacts, IdentityIsTyped
       DEF Selectable, intakeJobIsCurrent, adoptedExactCurrent, Succeeded, DoneIn
  <2>14. j # None => DoneIn(jobs', j) /\ jobs'[j].proposal = jobs[j].proposal
    BY <2>7, <2>13, GrownKeepsDone
  <2>15. SubmissionIsSound'
    <3>1. draft.adopted # None => DoneIn(jobs', draft.adopted)
      BY <2>4, <2>8 DEF DraftHolds
    <3> QED BY <2>4, <2>11, <2>14, <3>1 DEF SubmissionIsSound, Succeeded, DoneIn
  <2>16. AnchorMatchesWords'
    BY <2>11 DEF AnchorMatchesWords
  <2>17. RoutingRestsOnCurrentServices'
    <3>1. request'.selected # None =>
            /\ request'.selected.answer = request'.answer
            /\ request'.content \in {request'.selected.content,
                                     jobs'[request'.selected].proposal}
      BY <2>11, <2>13, <2>14
    <3>2. ASSUME request'.routing = "routing_requested", request'.anchor # None,
                 adoptedExactCurrent(draft, request.anchor)', HasService(request.anchor)',
                 ~Overtaken(request.anchor)'
          PROVE  jobs'[request'.anchor].rejected
      <4> DEFINE a == draft.adopted
      <4>1. j = None /\ jobs' = recordSuggestionRejections(draft) /\ request'.anchor = a
        BY <2>2, <2>11, <3>2
      <4>2. a # None /\ DoneIn(jobs, a)
        BY <3>2, <4>1, OpenFacts DEF DraftHolds
      <4>3. jobs'[a].proposal = jobs[a].proposal /\ jobs'[a].kind = jobs[a].kind
        BY <2>7, <4>2, GrownKeepsDone
      <4>4. adoptedExactCurrent(draft, a)
        <5>1. a.corpus = corpus /\ a.answer = draft.answer /\ draft.content = jobs[a].proposal
          BY <1>1, <2>4, <3>2, <4>1, <4>3 DEF adoptedExactCurrent
        <5> QED BY <4>2, <5>1 DEF adoptedExactCurrent, Succeeded, DoneIn
      <4>5. HasService(a)
        BY <3>2, <4>1, <4>3 DEF HasService
      <4>6. a \in currentOrNewestIntakeJob(draft)
        <5>1. Identity(draft)' = Identity(draft)
          BY <1>1, <2>4 DEF Identity
        <5>2. DOMAIN jobs' = DOMAIN jobs /\ \A i \in DOMAIN jobs : jobs'[i].after = jobs[i].after
          BY <4>1, OpenFacts, RejectionsGrow DEF Ordered
        <5>3. ~Overtaken(a)
          BY <3>2, <4>1, <5>1, <5>2 DEF Overtaken
        <5> QED BY <4>2, <5>3 DEF Overtaken, currentOrNewestIntakeJob, DoneIn
      <4>7. a \in currentServiceSuggestions(draft)
        BY <4>2, <4>4, <4>5, <4>6 DEF currentServiceSuggestions, Selectable, DoneIn, Succeeded
      <4> QED BY <4>1, <4>7, OpenFacts, RejectionsGrow
    <3> QED BY <3>1, <3>2 DEF RoutingRestsOnCurrentServices
  <2>18. OthersTyped(asset', calls', corpus', request')
    BY <1>1, <2>9, <2>12, PartsOfIInv DEF OthersTyped
  <2> QED BY <2>7, <2>8, <2>10, <2>15, <2>16, <2>17, <2>18, PartsOfIInvNext DEF RequestSound
<1> QED BY <1>2, <1>3

\* The worker settles a job, fresh or stale, possibly after the submission.
LEMMA SettleKeeps ==
    ASSUME IInv, SettleIntake
    PROVE  IInv'
<1>1. PICK j \in DOMAIN jobs :
        /\ jobs[j].status = "queued" /\ requireIntakeBudget /\ calls' = calls + 1
        /\ \/ /\ \E words \in Words, kind \in Kinds :
                   jobs' = [jobs EXCEPT ![j].status = "succeeded",
                                        ![j].proposal = words, ![j].kind = kind]
              /\ draft' = [draft EXCEPT !.asked = TRUE]
           \/ /\ jobs' = [jobs EXCEPT ![j].status = "over"]
              /\ UNCHANGED draft
        /\ UNCHANGED <<asset, corpus, request, tab>>
  BY DEF SettleIntake
<1>2. /\ DraftHolds(draft, jobs) /\ JobsTyped(jobs) /\ TabsHold(tab, draft, jobs)
      /\ OthersTyped(asset, calls, corpus, request) /\ RequestSound /\ draft \in Draft
  BY PartsOfIInv DEF DraftHolds
<1>3. jobs[j] \in Job /\ jobs[j].proposal = Blank
  BY <1>1, <1>2 DEF JobsTyped
<1>4. PICK new \in Job : /\ jobs' = [jobs EXCEPT ![j] = new]
                         /\ new.status = "succeeded" <=> new.proposal # Blank
                         /\ new.after = jobs[j].after
  <2>1. CASE jobs' = [jobs EXCEPT ![j].status = "over"]
    <3> DEFINE x == [jobs[j] EXCEPT !.status = "over"]
    <3>1. x \in Job /\ x.status = "over" /\ x.proposal = Blank /\ x.after = jobs[j].after
      BY <1>3 DEF Job
    <3>2. jobs' = [jobs EXCEPT ![j] = x]
      BY <2>1
    <3> HIDE DEF x
    <3> QED BY <3>1, <3>2
  <2>2. ASSUME NEW words \in Words, NEW kind \in Kinds,
               jobs' = [jobs EXCEPT ![j].status = "succeeded",
                                    ![j].proposal = words, ![j].kind = kind]
        PROVE  \E x \in Job : jobs' = [jobs EXCEPT ![j] = x]
                              /\ (x.status = "succeeded" <=> x.proposal # Blank)
                              /\ x.after = jobs[j].after
    <3> DEFINE x == [jobs[j] EXCEPT !.status = "succeeded", !.proposal = words, !.kind = kind]
    <3>1. x \in Job /\ x.status = "succeeded" /\ x.proposal = words /\ words # Blank
          /\ x.after = jobs[j].after
      BY <1>3, ConstantsAssumption DEF Job, Contents
    <3>2. jobs' = [jobs EXCEPT ![j] = x]
      BY <2>2, <1>3 DEF Job
    <3> HIDE DEF x
    <3> QED BY <3>1, <3>2
  <2> QED BY <1>1, <2>1, <2>2
<1>5. JobsTyped(jobs') /\ Kept(jobs, jobs')
  BY <1>1, <1>2, <1>4 DEF JobsTyped, Kept, Ordered
<1>6. /\ draft' \in Draft /\ draft'.version = draft.version /\ draft'.state = draft.state
      /\ draft'.answer = draft.answer /\ draft'.content = draft.content
      /\ draft'.adopted = draft.adopted
  BY <1>1, <1>2 DEF Draft
<1>7. Moves(draft, draft')
  BY <1>2, <1>6, SameDraftMoves DEF Moves
<1>8. DraftHolds(draft', jobs')
  BY <1>2, <1>5, <1>6, KeptIsGrown, DraftStays DEF DraftHolds, lockOwnDraft
<1>9. TabsHold(tab', draft', jobs')
  BY <1>1, <1>2, <1>5, <1>7, KeptIsGrown, TabsStay
<1>10. RequestSound'
  BY <1>1, <1>2, <1>5, <1>6, RequestStays
<1>11. OthersTyped(asset', calls', corpus', request')
  <2>1. calls' \in 0 .. intakeAttemptBudget
    <3>1. calls' = calls + 1 /\ calls < intakeAttemptBudget
      BY <1>1 DEF requireIntakeBudget
    <3>2. calls \in 0 .. intakeAttemptBudget
      BY <1>2 DEF OthersTyped
    <3> QED BY <3>1, <3>2, ConstantsAssumption
  <2>2. UNCHANGED <<asset, corpus, request>>
    BY <1>1
  <2> QED BY <1>2, <2>1, <2>2 DEF OthersTyped
<1> QED BY <1>5, <1>8, <1>9, <1>10, <1>11, PartsOfIInvNext

LEMMA CorpusKeeps ==
    ASSUME IInv, ChangeCorpus
    PROVE  IInv'
<1>1. /\ DraftHolds(draft, jobs) /\ JobsTyped(jobs) /\ TabsHold(tab, draft, jobs)
      /\ OthersTyped(asset, calls, corpus, request)
  BY PartsOfIInv
<1>2. request' = None /\ UNCHANGED <<draft, jobs, asset, calls, tab>> /\ request' = request
  BY DEF ChangeCorpus
<1>3. OthersTyped(asset', calls', corpus', request')
  <2>1. corpus' \in 1 .. MaxCorpus
    BY <1>1, ConstantsAssumption DEF ChangeCorpus, OthersTyped
  <2> QED BY <1>1, <1>2, <2>1 DEF OthersTyped
<1> QED BY <1>1, <1>2, <1>3, NoRequestIsSound, PartsOfIInvNext

LEMMA InitIsSound == Init => IInv
<1> SUFFICES ASSUME Init PROVE IInv
  OBVIOUS
<1>1. DraftHolds(draft, jobs)
  <2>1. /\ draft \in Draft /\ draft.state = "absent" /\ draft.version = 0
        /\ draft.answer = NoReply /\ draft.adopted = None
    BY ConstantsAssumption DEF Init, Draft, Contents, Answers
  <2> QED BY <2>1 DEF DraftHolds, lockOwnDraft
<1>2. JobsTyped(jobs)
  BY DEF Init, JobsTyped
<1>3. TabsHold(tab, draft, jobs)
  <2> DEFINE x == [pc |-> "idle", page |-> NoPage, answered |-> NoReply]
  <2>1. x \in Tab /\ x.page = NoPage /\ x.answered = NoReply /\ PageHolds(NoPage, draft, jobs)
    BY <1>1, NoPageHolds DEF Tab, Answers, DraftHolds
  <2>2. tab = [t \in Tabs |-> x]
    BY DEF Init
  <2> HIDE DEF x
  <2> QED BY <2>1, <2>2 DEF TabsHold
<1>4. OthersTyped(asset, calls, corpus, request)
  BY ConstantsAssumption DEF Init, OthersTyped
<1>5. RequestSound
  BY DEF Init, RequestSound, SubmissionIsSound, AnchorMatchesWords, RoutingRestsOnCurrentServices
<1> QED BY <1>1, <1>2, <1>3, <1>4, <1>5, PartsOfIInv

\* Draft, jobs, pages and submission stay sound, whatever tabs, worker and
\* corpus do in between.
THEOREM InductiveInvariant == Spec => []IInv
<1>1. IInv /\ UNCHANGED vars => IInv'
  <2> SUFFICES ASSUME IInv, UNCHANGED vars PROVE IInv'
    OBVIOUS
  <2>1. RequestSound'
    BY PartsOfIInv, SameJobsAreKept, RequestStays DEF vars
  <2> QED BY <2>1, PartsOfIInv, PartsOfIInvNext DEF vars
<1>2. IInv /\ Next => IInv'
  BY ReadingKeeps, CreateKeeps, UpdateKeeps, PrepareSaveKeeps, PrepareEnqueueKeeps, AnswerKeeps,
     ConfirmKeeps, DecisionsKeep, LookupKeeps, SubmitIntakeKeeps, SubmitRequestKeeps,
     SettleKeeps, CorpusKeeps
     DEF Next
<1> QED BY InitIsSound, <1>1, <1>2, PTL DEF Spec

\* A submission's evidence read or proposed the very words and answers sent
\* (recordSubmissionEvidence, workflow/intake.ts).
THEOREM AnchorsAlwaysMatchTheWords == Spec => []AnchorMatchesWords
<1>1. IInv => AnchorMatchesWords
  BY DEF IInv
<1> QED BY InductiveInvariant, <1>1, PTL

\* An answer acknowledged to a tab is the one on record (writeAnswers).
THEOREM AcceptedAnswersAreKept == Spec => []AcceptedAnswerIsKept
<1>1. IInv => AcceptedAnswerIsKept
  BY DEF IInv
<1> QED BY InductiveInvariant, <1>1, PTL

\* A page that is up to date shows no suggestion the server would not decide.
THEOREM ShownSuggestionsCanBeDecided == Spec => []ShownSuggestionCanBeDecided
<1>1. IInv => ShownSuggestionCanBeDecided
  BY DEF IInv, PageIsSound, ShownSuggestionCanBeDecided, intakeEvidenceForSubmission
<1> QED BY InductiveInvariant, <1>1, PTL

\* A selected service was proposed for what was submitted, and a submission
\* without one answers every service it was shown (submitRequest).
THEOREM RoutingAlwaysRestsOnCurrentServices == Spec => []RoutingRestsOnCurrentServices
<1>1. IInv => RoutingRestsOnCurrentServices
  BY DEF IInv
<1> QED BY InductiveInvariant, <1>1, PTL

\* Only a submission decides a suggestion, and the tab that sends it shows it.
LEMMA SubmissionsDecideAsShown ==
    ASSUME IInv, [Next]_vars, NEW t \in Tabs,
           tab[t].pc = "looked", tab'[t].pc = "idle",
           request' # request, request'.decided # None
    PROVE  tab[t].page.suggested /\ tab[t].page.job = request'.decided
<1>1. PICK u \in Tabs : SubmitIntake(u) \/ SubmitRequest(u)
  BY DEF Next, vars, SettleIntake, ChangeCorpus, Read, CreateDraft, ReplayCreation, UpdateDraft,
         PrepareSave, PrepareEnqueue, AnswerIntake, ConfirmIntake, DecideService, DecideAssetFit,
         SubmitLookup, SubmitTooLate, Refuses
<1>2. ~SubmitRequest(u)
  <2> SUFFICES ASSUME SubmitRequest(u) PROVE FALSE
    OBVIOUS
  <2>1. request'.decided = None
    BY DEF SubmitRequest
  <2> QED BY <2>1
<1>3. SubmitIntake(u)
  BY <1>1, <1>2
<1>4. u = t
  BY <1>3, OpenFacts, OthersKeepTheirTab
<1>5. PICK words \in Words, reply \in Sendable(t),
           verdict \in {"none"} \cup
                       (IF tab[t].page.suggested THEN {"accepted", "rejected"} ELSE {}) :
        \E d, evidence, reused : Submits(t, words, reply, verdict, d, evidence, reused)
  BY <1>3, <1>4, SubmissionFacts
<1>pick. PICK d, evidence, reused : Submits(t, words, reply, verdict, d, evidence, reused)
  BY <1>5
<1>6. request'.decided = IF verdict = "none" THEN None ELSE evidence
  BY <1>pick DEF Submits
<1>7. verdict # "none" => tab[t].page.suggested /\ evidence = tab[t].page.job
  BY <1>pick DEF Submits, DecisionStands
<1> QED BY <1>6, <1>7

\* A suggestion is decided only from a page that showed it, never on an
\* interpretation that became current meanwhile (submitIntake).
THEOREM SuggestionsAreDecidedAsShown == Spec => DecidedAsShown
<1>1. IInv /\ [Next]_vars =>
        [\A t \in Tabs :
          /\ tab[t].pc = "looked" /\ tab'[t].pc = "idle"
          /\ request' # request /\ request'.decided # None
          => tab[t].page.suggested /\ tab[t].page.job = request'.decided]_vars
  BY SubmissionsDecideAsShown
<1> QED BY InductiveInvariant, <1>1, PTL DEF Spec, DecidedAsShown
=============================================================================
