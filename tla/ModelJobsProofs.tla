--------------------------- MODULE ModelJobsProofs ---------------------------
(* Proofs about ModelJobs, for every value of its constants. *)
EXTENDS ModelJobs, FiniteSetTheorems, WellFoundedInduction, TLAPS

------------------------------------------------------------------------------
(* The queue's positions are numbers, because the table of jobs is finite *)

\* There are at most three model purposes.
LEMMA PurposesFinite == IsFiniteSet(Purposes)
<1>1. IsFiniteSet({"intake_interpret"})
  BY FS_Singleton
<1>2. IsFiniteSet({"intake_interpret"} \cup {"asset_match"})
  BY <1>1, FS_AddElement
<1>3. IsFiniteSet(({"intake_interpret"} \cup {"asset_match"}) \cup {"risk_assess"})
  BY <1>2, FS_AddElement
<1>4. Purposes \in SUBSET (({"intake_interpret"} \cup {"asset_match"}) \cup {"risk_assess"})
  BY PurposesAreKnown DEF PurposeNames
<1> QED BY <1>3, <1>4, FS_Subset

\* A bounded number of revisions gives finitely many input hashes.
LEMMA InputsFinite == IsFiniteSet(Inputs)
<1> DEFINE Later == {AnswerInput(r) : r \in 2 .. MaxRevision}
           answer == [r \in 2 .. MaxRevision |-> AnswerInput(r)]
<1>1. IsFiniteSet(2 .. MaxRevision)
  BY FS_Interval, BoundsAreNaturals
<1>2. answer \in Surjection(2 .. MaxRevision, Later)
  BY DEF Surjection
<1>3. IsFiniteSet(Later)
  BY <1>1, <1>2, FS_Surjection
<1> QED BY <1>3, FiniteInstance, FS_Union DEF Inputs

\* The unique index of model_jobs ranges over finitely many identities.
LEMMA JobIdFinite == IsFiniteSet(JobId)
<1> DEFINE G == 1 .. MaxGeneration
           Rows == Purposes \X (Drafts \X (Inputs \X (Corpora \X G)))
           id == [t \in Rows |->
                     [purpose |-> t[1], draft |-> t[2][1], input |-> t[2][2][1],
                      corpus |-> t[2][2][2][1], generation |-> t[2][2][2][2]]]
<1>0. IsFiniteSet(G)
  BY FS_Interval, BoundsAreNaturals
<1>1. IsFiniteSet(Corpora \X G)
  BY <1>0, FS_Product, FiniteInstance
<1>2. IsFiniteSet(Inputs \X (Corpora \X G))
  BY <1>1, FS_Product, InputsFinite
<1>3. IsFiniteSet(Drafts \X (Inputs \X (Corpora \X G)))
  BY <1>2, FS_Product, FiniteInstance
<1>4. IsFiniteSet(Rows)
  BY <1>3, FS_Product, PurposesFinite
<1>5. id \in Surjection(Rows, JobId)
  <2>1. id \in [Rows -> JobId]
    BY DEF JobId
  <2>2. ASSUME NEW j \in JobId
        PROVE  \E t \in Rows : id[t] = j
    <3> DEFINE t == <<j.purpose, <<j.draft, <<j.input, <<j.corpus, j.generation>>>>>>>>
    <3>1. t \in Rows
      BY DEF JobId
    <3>2. id[t] = j
      BY <3>1 DEF JobId
    <3> QED BY <3>1, <3>2
  <2> QED BY <2>1, <2>2 DEF Surjection
<1> QED BY <1>4, <1>5, FS_Surjection

\* created_at orders the queue by numbers.
LEMMA NextStampType == NextStamp \in Nat
<1> DEFINE present == {j \in JobId : jobs[j].status # "absent"}
<1>1. IsFiniteSet(present)
  BY JobIdFinite, FS_Subset
<1> QED BY <1>1, FS_CardinalityType DEF NextStamp

------------------------------------------------------------------------------
(* Types of the rows the actions write *)

\* A model_calls row, field by field: the status and cost columns may be settled.
LEMMA CallType ==
    ASSUME TypeOK, NEW i \in DOMAIN calls
    PROVE  calls[i] \in Call /\ calls[i].job \in JobId
<1>1. calls \in Seq(Call)
  BY DEF TypeOK
<1>2. calls[i] \in Call
  BY <1>1
<1> QED BY <1>2 DEF Call

\* A worker between passes is in a state of the table of worker states.
LEMMA IdleType == Idle \in WorkerState
BY BoundsAreNaturals DEF Idle, WorkerState

\* A row that is not there yet has the shape of a row.
LEMMA AbsentJobType == AbsentJob \in Job
BY BoundsAreNaturals DEF AbsentJob, Job, maxAttemptsBeforeManualRetry

\* Giving a lease up keeps the shape of the model_jobs row.
LEMMA ReleasedType ==
    ASSUME NEW job \in Job, NEW status \in JobStatus
    PROVE  Released(job, status) \in Job
BY DEF Released, Job

\* enqueueJobInTx writes well-formed rows: reused, attached, inserted or superseded.
LEMMA EnqueuedJobType ==
    ASSUME TypeOK, NEW j \in JobId, NEW id \in JobId, NEW row \in Draft,
           NEW attached \in BOOLEAN, NEW v \in Visitors
    PROVE  EnqueuedJob(j, id, row, attached, v) \in Job
<1>1. QueuedJob(row, attached, v) \in Job
  <2>1. (IF attached THEN row.revision ELSE 0) \in 0 .. MaxRevision
    BY BoundsAreNaturals DEF Draft
  <2> QED BY <2>1, AbsentJobType, NextStampType DEF QueuedJob, Job, JobStatus
<1>2. jobs[j] \in Job
  BY DEF TypeOK
<1>3. [jobs[j] EXCEPT !.status = "superseded"] \in Job
  BY <1>2 DEF Job, JobStatus
<1>4. [jobs[j] EXCEPT !.revision = row.revision] \in Job
  BY <1>2 DEF Job, Draft
<1> QED BY <1>1, <1>2, <1>3, <1>4 DEF EnqueuedJob

------------------------------------------------------------------------------
(* An action that leaves the ledger, the workers and every lease alone keeps *)
(* what the passes rely on                                                   *)

LeasesUntouched ==
    \A j \in JobId :
        /\ jobs'[j].status = "leased" <=> jobs[j].status = "leased"
        /\ jobs[j].status = "leased" =>
               /\ jobs'[j].owner = jobs[j].owner
               /\ jobs'[j].call = jobs[j].call
               /\ jobs'[j].attempts = jobs[j].attempts

\* A step that touches no lease, no ledger row and no worker disturbs no pass and
\* orphans no reservation.
LEMMA PassesKept ==
    ASSUME IInv, LeasesUntouched, UNCHANGED <<calls, worker>>
    PROVE  /\ ReservedIsUnpriced'
           /\ \A w \in Workers : PassIsSound(w)'
           /\ ReservationHasOwner'
<1>1. ReservedIsUnpriced'
  BY DEF IInv, ReservedIsUnpriced
<1>2. ASSUME NEW w \in Workers
      PROVE  PassIsSound(w)'
  <2>1. PassIsSound(w)
    BY DEF IInv
  <2>2. CASE worker[w].pc = "idle"
    BY <2>2 DEF PassIsSound, InTransaction
  <2>3. CASE worker[w].pc # "idle"
    <3>1. worker[w].job \in JobId
      BY <2>1, <2>3 DEF PassIsSound
    <3>2. Owned(w)' <=> Owned(w)
      BY <3>1 DEF Owned, LeasesUntouched, IInv, JobsWellFormed
    <3>3. Owned(w) => /\ jobs'[worker[w].job].call = jobs[worker[w].job].call
                      /\ jobs'[worker[w].job].attempts = jobs[worker[w].job].attempts
      BY <3>1 DEF Owned, LeasesUntouched
    <3> QED BY <2>1, <3>1, <3>2, <3>3 DEF PassIsSound, InTransaction
  <2> QED BY <2>2, <2>3
<1>3. ReservationHasOwner'
  BY CallType DEF IInv, ReservationHasOwner, LeasesUntouched
<1> QED BY <1>1, <1>2, <1>3

------------------------------------------------------------------------------
(* Enqueue, shared by submission, answers and the explicit preparation *)

\* enqueueJobInTx never changes the lease columns of a row that is leased.
LEMMA EnqueuedJobKeepsLease ==
    ASSUME IInv, NEW j \in JobId, NEW id \in JobId, NEW row \in Draft,
           NEW attached \in BOOLEAN, NEW v \in Visitors
    PROVE  LET job == EnqueuedJob(j, id, row, attached, v) IN
           /\ job.status = "leased" <=> jobs[j].status = "leased"
           /\ jobs[j].status = "leased" => /\ job.owner = jobs[j].owner
                                           /\ job.attempts = jobs[j].attempts
           /\ job.status # "leased" => job.owner = None
           /\ job.status # "absent" => job.visitor \in Visitors
           /\ job.call \in {0, jobs[j].call}
           /\ jobs[j].status = "leased" => job.call = jobs[j].call
<1>1. jobs[j] \in Job
  BY DEF IInv, TypeOK
<1>2. /\ jobs[j].status # "absent" => jobs[j].visitor \in Visitors
      /\ jobs[j].status # "leased" => jobs[j].owner = None
  BY DEF IInv, JobsWellFormed
<1>3. CASE jobs[id].status = "absent" /\ j = id
  BY <1>2, <1>3 DEF EnqueuedJob, QueuedJob, AbsentJob
<1>4. CASE jobs[id].status = "absent" /\ j # id /\ jobs[j].status \in Undone
  BY <1>1, <1>2, <1>4 DEF EnqueuedJob, Undone, Job
<1>5. CASE jobs[id].status # "absent" /\ j = id /\ attached /\ jobs[j].revision = 0
  BY <1>1, <1>2, <1>5 DEF EnqueuedJob, Job
<1>6. CASE EnqueuedJob(j, id, row, attached, v) = jobs[j]
  BY <1>2, <1>6
<1> QED BY <1>3, <1>4, <1>5, <1>6 DEF EnqueuedJob

\* What an enqueue adds is the copy of a stored result, and it forgets early reads only.
LEMMA EnqueueCopies ==
    ASSUME NEW P, NEW d, NEW row, NEW attached, NEW v, Enqueue(P, d, row, attached, v)
    PROVE  /\ assessments \subseteq assessments'
           /\ \A a \in assessments' \ assessments :
                  \E p \in P : a \in Reused(Identity(p, d, row, attached), row, attached)
           /\ readEarly' \subseteq readEarly
           /\ \A p \in P :
                  \/ Identity(p, d, row, attached) \in readEarly \ readEarly'
                  \/ Reused(Identity(p, d, row, attached), row, attached) \subseteq assessments'
<1> DEFINE ids == {Identity(p, d, row, attached) : p \in P}
<1>1. PICK missed \in SUBSET (ids \cap readEarly) :
          /\ assessments' = assessments \cup
                 UNION {Reused(i, row, attached) : i \in ids \ missed}
          /\ readEarly' = readEarly \ missed
  BY DEF Enqueue
<1>2. \A p \in P : Identity(p, d, row, attached) \in ids
  OBVIOUS
<1>3. \A i \in ids : \E p \in P : i = Identity(p, d, row, attached)
  OBVIOUS
<1> HIDE DEF ids
<1> QED BY <1>1, <1>2, <1>3

\* The whole enqueue leaves every lease alone and writes well-formed rows.
LEMMA EnqueueKeeps ==
    ASSUME IInv, NEW P \in SUBSET Purposes, NEW d \in Drafts, NEW row \in Draft,
           NEW attached \in BOOLEAN, NEW v \in Visitors,
           Enqueue(P, d, row, attached, v), calls' = calls
    PROVE  /\ jobs' \in [JobId -> Job]
           /\ assessments' \subseteq Assessment
           /\ readEarly' \subseteq JobId
           /\ JobsWellFormed'
           /\ LeasesUntouched
<1> DEFINE id(p) == Identity(p, d, row, attached)
<1>1. \A p \in P : id(p) \in JobId
  BY DEF Enqueue
<1>2. \A j \in JobId : jobs'[j] = IF j.draft = d /\ j.purpose \in P
                                 THEN EnqueuedJob(j, id(j.purpose), row, attached, v)
                                 ELSE jobs[j]
  BY DEF Enqueue
<1>3. jobs' \in [JobId -> Job]
  <2>1. \A j \in JobId : jobs'[j] \in Job
    BY <1>1, <1>2, EnqueuedJobType DEF IInv, TypeOK
  <2> QED BY <2>1 DEF Enqueue
<1>4. JobsWellFormed' /\ LeasesUntouched
  <2> SUFFICES ASSUME NEW j \in JobId
               PROVE  /\ jobs'[j].status # "absent" => jobs'[j].visitor \in Visitors
                      /\ jobs'[j].status = "leased" <=> jobs'[j].owner # None
                      /\ jobs'[j].call \in 0 .. Len(calls)
                      /\ jobs'[j].call # 0 => calls[jobs'[j].call].job = j
                      /\ jobs'[j].status = "leased" <=> jobs[j].status = "leased"
                      /\ jobs[j].status = "leased" =>
                             /\ jobs'[j].owner = jobs[j].owner
                             /\ jobs'[j].call = jobs[j].call
                             /\ jobs'[j].attempts = jobs[j].attempts
    BY DEF JobsWellFormed, LeasesUntouched
  <2>1. /\ jobs[j].status # "absent" => jobs[j].visitor \in Visitors
        /\ jobs[j].status = "leased" <=> jobs[j].owner # None
        /\ jobs[j].call \in 0 .. Len(calls)
        /\ jobs[j].call # 0 => calls[jobs[j].call].job = j
        /\ 0 \in 0 .. Len(calls)
    <3>1. Len(calls) \in Nat
      BY DEF IInv, TypeOK
    <3> QED BY <3>1 DEF IInv, JobsWellFormed
  <2>2. CASE j.draft = d /\ j.purpose \in P
    <3>1. id(j.purpose) \in JobId
      BY <1>1, <2>2
    <3>2. jobs'[j] = EnqueuedJob(j, id(j.purpose), row, attached, v)
      BY <1>2, <2>2
    <3> QED BY <2>1, <3>1, <3>2, EnqueuedJobKeepsLease
  <2>3. CASE ~(j.draft = d /\ j.purpose \in P)
    BY <1>2, <2>1, <2>3
  <2> QED BY <2>2, <2>3
<1>5. assessments' \subseteq Assessment
  <2>1. \A p \in P : Reused(id(p), row, attached) \subseteq Assessment
    <3> SUFFICES ASSUME NEW p \in P
                 PROVE  Reused(id(p), row, attached) \subseteq Assessment
      OBVIOUS
    <3>1. id(p) \in JobId /\ jobs[id(p)].call \in Nat
      BY <1>1 DEF IInv, TypeOK, Job
    <3> HIDE DEF id
    <3> QED BY <3>1 DEF Reused, Assessment, Draft
  <2>2. assessments \subseteq Assessment
    BY DEF IInv, TypeOK
  <2>3. \A a \in assessments' \ assessments : \E p \in P : a \in Reused(id(p), row, attached)
    BY EnqueueCopies
  <2> QED BY <2>1, <2>2, <2>3
<1>6. readEarly' \subseteq JobId
  BY EnqueueCopies DEF IInv, TypeOK
<1> QED BY <1>3, <1>4, <1>5, <1>6

------------------------------------------------------------------------------
(* Steps of requesters, reviewers, the catalog and the clock *)

\* What a step that touches neither the ledger nor a worker still has to show.
LEMMA QuietStep ==
    ASSUME IInv, UNCHANGED <<calls, worker, spendLock>>, LeasesUntouched, JobsWellFormed',
           FixturesSubmitted',
           drafts' \in [Drafts -> Draft], corpus' \in [Purposes -> Corpora],
           jobs' \in [JobId -> Job], assessments' \subseteq Assessment,
           readEarly' \subseteq JobId, day' \in 0 .. MaxDay, faults' \in 0 .. MaxFaults
    PROVE  IInv'
<1>1. TypeOK'
  BY DEF IInv, TypeOK
<1> QED BY <1>1, PassesKept DEF IInv

\* Steps that leave the whole table of jobs alone.
LEMMA JobsKept ==
    ASSUME IInv, UNCHANGED <<jobs, calls>>
    PROVE  JobsWellFormed' /\ LeasesUntouched
BY DEF IInv, JobsWellFormed, LeasesUntouched

\* Editing an unsubmitted draft preserves the invariant.
LEMMA EditDraftInv ==
    ASSUME IInv, NEW d \in Drafts, EditDraft(d)
    PROVE  IInv'
<1>1. PICK i \in DraftInputs : drafts' = [drafts EXCEPT ![d].input = i]
  BY DEF EditDraft
<1>2. drafts' \in [Drafts -> Draft] /\ FixturesSubmitted'
  BY <1>1, FixturesAreDrafts DEF IInv, TypeOK, Draft, FixturesSubmitted
<1> QED BY <1>2, JobsKept, QuietStep DEF EditDraft, IInv, TypeOK

\* An enqueue that only reads preserves the invariant.
LEMMA ReadBeforeResultInv ==
    ASSUME IInv, NEW d \in Drafts, ReadBeforeResult(d)
    PROVE  IInv'
<1>1. FixturesSubmitted' /\ readEarly' \subseteq JobId
  BY DEF ReadBeforeResult, IInv, TypeOK, FixturesSubmitted
<1> QED BY <1>1, JobsKept, QuietStep DEF ReadBeforeResult, IInv, TypeOK

\* Completing first review preserves the invariant.
LEMMA CompleteFirstReviewInv ==
    ASSUME IInv, NEW d \in Drafts, CompleteFirstReview(d)
    PROVE  IInv'
<1>1. drafts' \in [Drafts -> Draft] /\ FixturesSubmitted'
  BY FixturesAreDrafts DEF IInv, TypeOK, CompleteFirstReview, Draft, FixturesSubmitted
<1> QED BY <1>1, JobsKept, QuietStep DEF CompleteFirstReview, IInv, TypeOK

\* Asking on a seeded request preserves the invariant.
LEMMA AskClarificationInv ==
    ASSUME IInv, NEW d \in Drafts, AskClarification(d)
    PROVE  IInv'
<1>1. [drafts[d] EXCEPT !.revision = @ + 1] \in Draft
  <2>1. drafts[d] \in Draft
    BY DEF IInv, TypeOK
  <2>2. drafts[d].revision = 1 /\ drafts[d].revision < MaxRevision
    BY DEF AskClarification
  <2> QED BY <2>1, <2>2, BoundsAreNaturals DEF Draft
<1>2. drafts' \in [Drafts -> Draft] /\ FixturesSubmitted'
  BY <1>1, FixturesAreDrafts
     DEF IInv, TypeOK, AskClarification, FixturesSubmitted, Draft
<1> QED BY <1>2, JobsKept, QuietStep DEF AskClarification, IInv, TypeOK

\* Submission, with the preparation it enqueues, preserves the invariant.
LEMMA SubmitInv ==
    ASSUME IInv, NEW d \in Drafts, NEW v \in Visitors, Submit(d, v)
    PROVE  IInv'
<1> DEFINE row == [drafts[d] EXCEPT !.revision = 1]
<1>1. row \in Draft
  <2>1. drafts[d] \in Draft
    BY DEF IInv, TypeOK
  <2> QED BY <2>1, BoundsAreNaturals DEF Draft
<1>2. drafts' \in [Drafts -> Draft] /\ FixturesSubmitted'
  BY <1>1, FixturesAreDrafts DEF IInv, TypeOK, Submit, FixturesSubmitted, Draft
<1>3. Enqueue(ReviewPurposes, d, row, TRUE, v) /\ calls' = calls
  BY DEF Submit
<1>4. ReviewPurposes \in SUBSET Purposes
  BY DEF ReviewPurposes
<1> HIDE DEF row
<1>5. /\ jobs' \in [JobId -> Job]
      /\ assessments' \subseteq Assessment
      /\ readEarly' \subseteq JobId
      /\ JobsWellFormed'
      /\ LeasesUntouched
  BY <1>1, <1>3, <1>4, EnqueueKeeps
<1> QED BY <1>2, <1>5, QuietStep DEF Submit, IInv, TypeOK

\* An answer, with the reassessment it enqueues, preserves the invariant.
LEMMA AnswerClarificationInv ==
    ASSUME IInv, NEW d \in Drafts, NEW v \in Visitors, AnswerClarification(d, v)
    PROVE  IInv'
<1> DEFINE row == [drafts[d] EXCEPT !.revision = @ + 1]
<1>1. row \in Draft
  <2>1. drafts[d] \in Draft
    BY DEF IInv, TypeOK
  <2>2. drafts[d].revision \in 1 .. MaxRevision - 1
    BY DEF AnswerClarification
  <2> QED BY <2>1, <2>2, BoundsAreNaturals DEF Draft
<1>2. drafts' \in [Drafts -> Draft] /\ FixturesSubmitted'
  BY <1>1, FixturesAreDrafts
     DEF IInv, TypeOK, AnswerClarification, FixturesSubmitted, Draft
<1>3. Enqueue(ReviewPurposes, d, row, TRUE, v) /\ calls' = calls
  BY DEF AnswerClarification
<1>4. ReviewPurposes \in SUBSET Purposes
  BY DEF ReviewPurposes
<1> HIDE DEF row
<1>5. /\ jobs' \in [JobId -> Job]
      /\ assessments' \subseteq Assessment
      /\ readEarly' \subseteq JobId
      /\ JobsWellFormed'
      /\ LeasesUntouched
  BY <1>1, <1>3, <1>4, EnqueueKeeps
<1> QED BY <1>2, <1>5, QuietStep DEF AnswerClarification, IInv, TypeOK

\* An explicit preparation preserves the invariant.
LEMMA EnqueueModelJobInv ==
    ASSUME IInv, NEW p \in Purposes, NEW d \in Drafts, NEW v \in Visitors,
           EnqueueModelJob(p, d, v)
    PROVE  IInv'
<1>1. drafts[d] \in Draft /\ {p} \in SUBSET Purposes
  BY DEF IInv, TypeOK
<1>2. PICK attached \in BOOLEAN : Enqueue({p}, d, drafts[d], attached, v)
  BY DEF EnqueueModelJob
<1>3. FixturesSubmitted' /\ calls' = calls
  BY DEF EnqueueModelJob, IInv, FixturesSubmitted
<1>4. /\ jobs' \in [JobId -> Job]
      /\ assessments' \subseteq Assessment
      /\ readEarly' \subseteq JobId
      /\ JobsWellFormed'
      /\ LeasesUntouched
  BY <1>1, <1>2, <1>3, EnqueueKeeps
<1> QED BY <1>3, <1>4, QuietStep DEF EnqueueModelJob, IInv, TypeOK

\* A manual retry starts from a job without a lease, so no reservation is open.
LEMMA RetryModelJobInv ==
    ASSUME IInv, NEW j \in JobId, NEW v \in Visitors, RetryModelJob(j, v)
    PROVE  IInv'
<1>1. jobs[j] \in Job /\ jobs \in [JobId -> Job]
  BY DEF IInv, TypeOK
<1>2. jobs' = [jobs EXCEPT ![j] = [jobs[j] EXCEPT !.status = "queued", !.attempts = 0,
                                      !.visitor = v, !.retries = jobs[j].retries + 1]]
  BY <1>1 DEF RetryModelJob
<1>3. jobs[j].status \in {"failed", "capped"} /\ jobs[j].retries < MaxRetries
  BY DEF RetryModelJob
<1>4. jobs' \in [JobId -> Job]
  <2>1. jobs[j].retries + 1 \in 0 .. MaxRetries /\ 0 \in 0 .. maxAttemptsBeforeManualRetry
    BY <1>1, <1>3, BoundsAreNaturals DEF Job, maxAttemptsBeforeManualRetry
  <2>2. [jobs[j] EXCEPT !.status = "queued", !.attempts = 0,
                        !.visitor = v, !.retries = jobs[j].retries + 1] \in Job
    BY <1>1, <2>1 DEF Job, JobStatus
  <2> QED BY <1>1, <1>2, <2>2
<1>5. JobsWellFormed' /\ LeasesUntouched
  BY <1>1, <1>2, <1>3 DEF RetryModelJob, IInv, JobsWellFormed, LeasesUntouched, Job
<1>6. FixturesSubmitted'
  BY DEF RetryModelJob, IInv, FixturesSubmitted
<1> QED BY <1>4, <1>5, <1>6, QuietStep DEF RetryModelJob, IInv, TypeOK

\* A change of the catalog touches neither jobs nor ledger.
LEMMA ChangeCatalogInv ==
    ASSUME IInv, ChangeCatalog
    PROVE  IInv'
<1>1. corpus' \in [Purposes -> Corpora]
  BY SeedIsACorpus DEF ChangeCatalog, WithCatalog
<1>2. FixturesSubmitted'
  BY DEF ChangeCatalog, IInv, FixturesSubmitted
<1> QED BY <1>1, <1>2, JobsKept, QuietStep DEF ChangeCatalog, IInv, TypeOK

\* The clock touches neither jobs nor ledger.
LEMMA NextDayInv ==
    ASSUME IInv, NextDay
    PROVE  IInv'
<1>1. day' \in 0 .. MaxDay
  BY BoundsAreNaturals DEF NextDay, IInv, TypeOK
<1>2. FixturesSubmitted'
  BY DEF NextDay, IInv, FixturesSubmitted
<1> QED BY <1>1, <1>2, JobsKept, QuietStep DEF NextDay, IInv, TypeOK

\* A lease that expires is still a lease until somebody claims it.
LEMMA ExpiredLeaseInv ==
    ASSUME IInv, NEW j \in JobId, jobs' = [jobs EXCEPT ![j].expired = TRUE],
           UNCHANGED <<drafts, corpus, calls, assessments, worker, readEarly, spendLock, day>>,
           faults' \in 0 .. MaxFaults
    PROVE  IInv'
<1>1. jobs[j] \in Job /\ jobs \in [JobId -> Job]
  BY DEF IInv, TypeOK
<1>2. jobs' \in [JobId -> Job]
  BY <1>1 DEF Job
<1>3. JobsWellFormed' /\ LeasesUntouched
  BY <1>1 DEF IInv, JobsWellFormed, LeasesUntouched, Job
<1>4. FixturesSubmitted'
  BY DEF IInv, FixturesSubmitted
<1> QED BY <1>2, <1>3, <1>4, QuietStep DEF IInv, TypeOK

\* Both ways a lease expires preserve the invariant.
LEMMA ExpireLeaseInv ==
    ASSUME IInv, NEW j \in JobId, ExpireAbandonedLease(j) \/ ExpireLiveLease(j)
    PROVE  IInv'
<1>1. faults' \in 0 .. MaxFaults
  BY BoundsAreNaturals DEF IInv, TypeOK, ExpireAbandonedLease, ExpireLiveLease
<1> QED BY <1>1, ExpiredLeaseInv DEF ExpireAbandonedLease, ExpireLiveLease

------------------------------------------------------------------------------
(* The fixture reset: it supersedes leases and reconciles their reservations *)

\* Reconciling reservations keeps the ledger's length, its rows' jobs and costs,
\* and every outcome that was not reserved.
LEMMA ReconciledKeeps ==
    ASSUME TypeOK, NEW ids
    PROVE  /\ Reconciled(ids) \in Seq(Call)
           /\ DOMAIN Reconciled(ids) = DOMAIN calls
           /\ Len(Reconciled(ids)) = Len(calls)
           /\ \A i \in DOMAIN calls :
                  /\ Reconciled(ids)[i].job = calls[i].job
                  /\ Reconciled(ids)[i].actual = calls[i].actual
                  /\ Reconciled(ids)[i].status = "reserved" <=>
                         i \notin ids /\ calls[i].status = "reserved"
                  /\ calls[i].status # "reserved" =>
                         Reconciled(ids)[i].status = calls[i].status
<1>1. calls \in Seq(Call) /\ DOMAIN calls = 1 .. Len(calls) /\ Len(calls) \in Nat
  BY DEF TypeOK
<1>2. \A i \in DOMAIN calls : Reconciled(ids)[i] \in Call
  BY CallType DEF Reconciled, Call
<1>3. Reconciled(ids) \in [1 .. Len(calls) -> Call]
  BY <1>1, <1>2 DEF Reconciled
<1>4. Reconciled(ids) \in Seq(Call) /\ Len(Reconciled(ids)) = Len(calls)
  BY <1>1, <1>3
<1>5. DOMAIN Reconciled(ids) = DOMAIN calls
  BY DEF Reconciled
<1>6. ASSUME NEW i \in DOMAIN calls
      PROVE  /\ Reconciled(ids)[i].job = calls[i].job
             /\ Reconciled(ids)[i].actual = calls[i].actual
             /\ Reconciled(ids)[i].status = "reserved" <=>
                    i \notin ids /\ calls[i].status = "reserved"
             /\ calls[i].status # "reserved" =>
                    Reconciled(ids)[i].status = calls[i].status
  BY CallType DEF Reconciled, Call
<1> QED BY <1>4, <1>5, <1>6

\* The reset supersedes every lease of a fixture and reconciles exactly the
\* reservations those leases owned.
LEMMA ResetFixtureStateInv ==
    ASSUME IInv, ResetFixtureState
    PROVE  IInv'
<1> DEFINE hit == {j \in JobId : /\ j.draft \in FixtureDrafts
                                 /\ jobs[j].status \in {"queued", "leased"}}
           reconciled == {jobs[j].call : j \in hit}
<1>1. PICK advanced \in SUBSET FixtureDrafts :
          /\ \A d \in advanced : drafts[d].generation < MaxGeneration
          /\ drafts' = [d \in Drafts |->
                           IF d \in FixtureDrafts
                           THEN [drafts[d] EXCEPT !.revision = 1, !.closed = FALSE,
                                 !.generation = IF d \in advanced THEN @ + 1 ELSE @]
                           ELSE drafts[d]]
  <2>1. PICK others \in SUBSET FixtureDrafts :
            LET advanced == others \cup {d \in FixtureDrafts : Stranded(d)} IN
            /\ \A d \in advanced : drafts[d].generation < MaxGeneration
            /\ drafts' = [d \in Drafts |->
                             IF d \in FixtureDrafts
                             THEN [drafts[d] EXCEPT !.revision = 1, !.closed = FALSE,
                                   !.generation = IF d \in advanced THEN @ + 1 ELSE @]
                             ELSE drafts[d]]
    BY DEF ResetFixtureState
  <2> WITNESS others \cup {d \in FixtureDrafts : Stranded(d)} \in SUBSET FixtureDrafts
  <2> QED BY <2>1
<1>2. /\ \A d \in FixtureDrafts : RequestUnlocked(d)
      /\ jobs' = [j \in JobId |->
                     IF j \in hit THEN Released(jobs[j], "superseded") ELSE jobs[j]]
      /\ calls' = Reconciled(reconciled)
      /\ corpus' = WithCatalog(SeedCorpus)
      /\ UNCHANGED <<assessments, worker, readEarly, spendLock, day, faults>>
  BY DEF ResetFixtureState
<1>3. TypeOK /\ jobs \in [JobId -> Job]
  BY DEF IInv, TypeOK
<1>4. /\ calls' \in Seq(Call) /\ DOMAIN calls' = DOMAIN calls /\ Len(calls') = Len(calls)
      /\ \A i \in DOMAIN calls :
             /\ calls'[i].job = calls[i].job
             /\ calls'[i].actual = calls[i].actual
             /\ calls'[i].status = "reserved" <=>
                    i \notin reconciled /\ calls[i].status = "reserved"
  <2> HIDE DEF reconciled
  <2> QED BY <1>2, <1>3, ReconciledKeeps
<1>5. \A j \in JobId : jobs'[j] = IF j \in hit THEN Released(jobs[j], "superseded") ELSE jobs[j]
  BY <1>2
<1>6. drafts' \in [Drafts -> Draft] /\ FixturesSubmitted'
  <2>1. ASSUME NEW d \in Drafts
        PROVE  drafts'[d] \in Draft /\ (d \in FixtureDrafts => drafts'[d].revision > 0)
    <3> DEFINE generation == IF d \in advanced THEN drafts[d].generation + 1
                             ELSE drafts[d].generation
    <3>1. drafts[d] \in Draft
      BY <1>3 DEF TypeOK
    <3>2. drafts[d].generation \in 1 .. MaxGeneration
      BY <3>1 DEF Draft
    <3>3. generation \in 1 .. MaxGeneration
      <4>1. CASE d \in advanced
        <5>1. drafts[d].generation < MaxGeneration
          BY <1>1, <4>1
        <5> QED BY <3>2, <4>1, <5>1, BoundsAreNaturals
      <4>2. CASE d \notin advanced
        BY <3>2, <4>2
      <4> QED BY <4>1, <4>2
    <3>4. drafts'[d] = IF d \in FixtureDrafts
                       THEN [drafts[d] EXCEPT !.revision = 1, !.closed = FALSE,
                                              !.generation = generation]
                       ELSE drafts[d]
      BY <1>1
    <3>5. 1 \in 0 .. MaxRevision
      BY BoundsAreNaturals
    <3> HIDE DEF generation
    <3>6. CASE d \in FixtureDrafts
      <4>1. drafts'[d] = [input |-> drafts[d].input, revision |-> 1,
                          generation |-> generation, closed |-> FALSE]
        BY <3>1, <3>4, <3>6 DEF Draft
      <4>2. drafts[d].input \in DraftInputs
        BY <3>1 DEF Draft
      <4>3. drafts'[d] \in Draft
        BY <3>3, <3>5, <4>1, <4>2 DEF Draft
      <4> QED BY <4>1, <4>3
    <3>7. CASE d \notin FixtureDrafts
      BY <3>1, <3>4, <3>7
    <3> QED BY <3>6, <3>7
  <2> QED BY <1>1, <2>1, FixturesAreDrafts DEF FixturesSubmitted
<1>7. corpus' \in [Purposes -> Corpora]
  BY <1>2, SeedIsACorpus DEF WithCatalog
<1>8. jobs' \in [JobId -> Job]
  BY <1>2, <1>3, ReleasedType DEF JobStatus
<1> HIDE DEF hit, reconciled
<1>9. TypeOK'
  BY <1>2, <1>3, <1>4, <1>6, <1>7, <1>8 DEF TypeOK
<1>10. JobsWellFormed'
  <2> SUFFICES ASSUME NEW j \in JobId
               PROVE  /\ jobs'[j].status # "absent" => jobs'[j].visitor \in Visitors
                      /\ jobs'[j].status = "leased" <=> jobs'[j].owner # None
                      /\ jobs'[j].call \in 0 .. Len(calls')
                      /\ jobs'[j].call # 0 => calls'[jobs'[j].call].job = j
    BY DEF JobsWellFormed
  <2>1. /\ jobs[j].status # "absent" => jobs[j].visitor \in Visitors
        /\ jobs[j].status = "leased" <=> jobs[j].owner # None
        /\ jobs[j].call \in 0 .. Len(calls)
        /\ jobs[j].call # 0 => calls[jobs[j].call].job = j
        /\ jobs[j].call # 0 => jobs[j].call \in DOMAIN calls
    BY <1>3 DEF IInv, JobsWellFormed, TypeOK
  <2>2. /\ jobs'[j].call = jobs[j].call /\ jobs'[j].visitor = jobs[j].visitor
        /\ j \in hit => jobs'[j].status = "superseded" /\ jobs'[j].owner = None
        /\ j \notin hit => jobs'[j] = jobs[j]
        /\ j \in hit => jobs[j].status # "absent"
    BY <1>3, <1>5 DEF Released, Job, hit
  <2> QED BY <1>4, <2>1, <2>2
<1>11. ReservedIsUnpriced'
  BY <1>4 DEF IInv, ReservedIsUnpriced
<1>12. ReservationHasOwner'
  <2> SUFFICES ASSUME NEW i \in DOMAIN calls', calls'[i].status = "reserved"
               PROVE  /\ jobs'[calls'[i].job].status = "leased"
                      /\ jobs'[calls'[i].job].call = i
    BY DEF ReservationHasOwner
  <2> DEFINE k == calls[i].job
  <2>1. /\ i \in DOMAIN calls /\ calls[i].status = "reserved" /\ calls'[i].job = k
        /\ i \notin reconciled
    BY <1>4
  <2>2. k \in JobId /\ jobs[k].status = "leased" /\ jobs[k].call = i
    BY <1>3, <2>1, CallType DEF IInv, ReservationHasOwner
  <2>3. k \notin hit
    BY <2>1, <2>2 DEF reconciled
  <2> QED BY <1>5, <2>1, <2>2, <2>3
<1>13. ASSUME NEW w \in Workers
       PROVE  PassIsSound(w)'
  <2> DEFINE j == worker[w].job
             c == worker[w].call
  <2>1. PassIsSound(w) /\ worker' = worker
    BY <1>2 DEF IInv
  <2>2. CASE worker[w].pc = "idle"
    BY <2>1, <2>2 DEF PassIsSound, InTransaction
  <2>3. CASE worker[w].pc # "idle" /\ j \in hit
    <3>1. j \in JobId /\ jobs'[j].status = "superseded" /\ j.draft \in FixtureDrafts
      BY <1>3, <1>5, <2>3 DEF Released, Job, hit
    <3>2. ~Owned(w)'
      BY <2>1, <3>1 DEF Owned
    <3>3. ~InTransaction(w)
      BY <1>2, <2>1, <3>1, FixturesAreDrafts DEF PassIsSound, RequestUnlocked
    <3>4. worker[w].pc \in {"calling", "settling"} =>
              /\ c \in DOMAIN calls
              /\ calls'[c].status # "reserved"
      <4>1. SUFFICES ASSUME worker[w].pc \in {"calling", "settling"}
                     PROVE  c \in DOMAIN calls /\ calls'[c].status # "reserved"
        OBVIOUS
      <4>2. c \in DOMAIN calls /\ (calls[c].status = "reserved" => jobs[j].call = c)
        BY <2>1, <4>1 DEF PassIsSound
      <4>3. calls[c].status = "reserved" => c \in reconciled
        BY <2>3, <4>2 DEF reconciled
      <4> QED BY <1>4, <4>2, <4>3
    <3> QED BY <1>4, <2>1, <2>3, <3>1, <3>2, <3>3, <3>4 DEF PassIsSound, InTransaction
  <2>4. CASE worker[w].pc # "idle" /\ j \notin hit
    <3>1. j \in JobId /\ jobs'[j] = jobs[j]
      BY <1>5, <2>1, <2>4 DEF PassIsSound
    <3>2. Owned(w)' <=> Owned(w)
      BY <2>1, <3>1 DEF Owned
    <3>3. worker[w].pc \in {"calling", "settling"} /\ Owned(w) => c \notin reconciled
      <4>1. SUFFICES ASSUME worker[w].pc \in {"calling", "settling"}, Owned(w),
                            NEW k \in hit, jobs[k].call = c
                     PROVE  FALSE
        BY DEF reconciled
      <4>2. c \in DOMAIN calls /\ jobs[j].call = c
        BY <2>1, <4>1 DEF PassIsSound
      <4>3. c # 0
        BY <1>3, <4>2 DEF TypeOK
      <4>4. calls[c].job = j /\ calls[c].job = k
        BY <3>1, <4>1, <4>2, <4>3 DEF IInv, JobsWellFormed, hit
      <4> QED BY <2>4, <4>4
    <3>4. InTransaction(w)' <=> InTransaction(w)
      BY <2>1 DEF InTransaction
    <3> QED BY <1>4, <2>1, <2>4, <3>1, <3>2, <3>3, <3>4 DEF PassIsSound
  <2> QED BY <2>2, <2>3, <2>4
<1> QED BY <1>6, <1>9, <1>10, <1>11, <1>12, <1>13 DEF IInv

------------------------------------------------------------------------------
(* Worker steps before and after the ledger *)

\* A step that changes what one worker is doing, and nothing else of a pass.
LEMMA WorkerOnly ==
    ASSUME IInv, NEW w \in Workers, NEW state \in WorkerState,
           worker' = [worker EXCEPT ![w] = state], PassIsSound(w)',
           spendLock' \in Workers \cup {None}, faults' \in 0 .. MaxFaults,
           UNCHANGED <<drafts, corpus, jobs, calls, assessments, readEarly, day>>
    PROVE  IInv'
<1>1. TypeOK'
  BY DEF IInv, TypeOK
<1>2. JobsWellFormed' /\ FixturesSubmitted' /\ ReservedIsUnpriced' /\ ReservationHasOwner'
  BY DEF IInv, JobsWellFormed, FixturesSubmitted, ReservedIsUnpriced, ReservationHasOwner
<1>3. ASSUME NEW u \in Workers, u # w
      PROVE  PassIsSound(u)'
  <2>1. PassIsSound(u) /\ worker'[u] = worker[u]
    BY <1>3 DEF IInv, TypeOK
  <2> QED BY <2>1 DEF PassIsSound, InTransaction, Owned
<1> QED BY <1>1, <1>2, <1>3 DEF IInv

\* A pass may always end: its transaction rolled back or found nothing to do.
LEMMA GoIdle ==
    ASSUME IInv, NEW w \in Workers, worker' = [worker EXCEPT ![w] = Idle],
           spendLock' \in Workers \cup {None}, faults' \in 0 .. MaxFaults,
           UNCHANGED <<drafts, corpus, jobs, calls, assessments, readEarly, day>>
    PROVE  IInv'
<1>1. worker'[w] = Idle
  BY DEF IInv, TypeOK
<1>2. PassIsSound(w)'
  BY <1>1 DEF PassIsSound, InTransaction, Idle
<1> QED BY <1>2, IdleType, WorkerOnly

\* The owner of a lease gives it up and settles the ledger row the job points at.
LEMMA OwnerSettles ==
    ASSUME IInv, NEW w \in Workers, worker[w].pc # "idle", Owned(w),
           NEW status \in JobStatus \ {"leased"},
           jobs' = [jobs EXCEPT ![worker[w].job] = Released(jobs[worker[w].job], status)],
           worker' = [worker EXCEPT ![w] = Idle],
           calls' \in Seq(Call), Len(calls') = Len(calls),
           \A i \in DOMAIN calls :
               /\ calls'[i].job = calls[i].job
               /\ i # jobs[worker[w].job].call => calls'[i] = calls[i]
               /\ i = jobs[worker[w].job].call => calls'[i].status # "reserved",
           assessments' \subseteq Assessment,
           UNCHANGED <<drafts, corpus, readEarly, spendLock, day, faults>>
    PROVE  IInv'
<1> DEFINE j == worker[w].job
<1>1. /\ j \in JobId /\ jobs[j] \in Job /\ jobs \in [JobId -> Job] /\ TypeOK
      /\ jobs[j].status = "leased" /\ jobs[j].owner = w
      /\ DOMAIN calls' = DOMAIN calls
      /\ worker \in [Workers -> WorkerState]
  <2>1. PassIsSound(w) /\ TypeOK
    BY DEF IInv
  <2> QED BY <2>1 DEF PassIsSound, TypeOK, Owned
<1>2. /\ jobs'[j].status = status /\ jobs'[j].owner = None
      /\ jobs'[j].call = jobs[j].call /\ jobs'[j].visitor = jobs[j].visitor
      /\ \A k \in JobId \ {j} : jobs'[k] = jobs[k]
  BY <1>1 DEF Released, Job
<1>3. TypeOK'
  <2>1. jobs' \in [JobId -> Job]
    BY <1>1, ReleasedType
  <2> QED BY <1>1, <2>1, IdleType DEF TypeOK
<1>4. FixturesSubmitted'
  BY DEF IInv, FixturesSubmitted
<1>5. JobsWellFormed'
  <2> SUFFICES ASSUME NEW k \in JobId
               PROVE  /\ jobs'[k].status # "absent" => jobs'[k].visitor \in Visitors
                      /\ jobs'[k].status = "leased" <=> jobs'[k].owner # None
                      /\ jobs'[k].call \in 0 .. Len(calls')
                      /\ jobs'[k].call # 0 => calls'[jobs'[k].call].job = k
    BY DEF JobsWellFormed
  <2>1. /\ jobs[k].status # "absent" => jobs[k].visitor \in Visitors
        /\ jobs[k].status = "leased" <=> jobs[k].owner # None
        /\ jobs[k].call \in 0 .. Len(calls)
        /\ jobs[k].call # 0 => calls[jobs[k].call].job = k
        /\ jobs[k].call # 0 => jobs[k].call \in DOMAIN calls
    BY <1>1 DEF IInv, JobsWellFormed, TypeOK
  <2> QED BY <1>1, <1>2, <2>1
<1>6. ReservedIsUnpriced'
  BY <1>1 DEF IInv, ReservedIsUnpriced
<1>7. ReservationHasOwner'
  <2> SUFFICES ASSUME NEW i \in DOMAIN calls', calls'[i].status = "reserved"
               PROVE  /\ jobs'[calls'[i].job].status = "leased"
                      /\ jobs'[calls'[i].job].call = i
    BY DEF ReservationHasOwner
  <2>1. i \in DOMAIN calls /\ i # jobs[j].call /\ calls'[i] = calls[i]
    BY <1>1
  <2>2. calls[i].job \in JobId
    BY <1>1, <2>1, CallType
  <2>3. jobs[calls[i].job].status = "leased" /\ jobs[calls[i].job].call = i
    BY <2>1 DEF IInv, ReservationHasOwner
  <2> QED BY <1>2, <2>1, <2>2, <2>3
<1>8. ASSUME NEW u \in Workers
      PROVE  PassIsSound(u)'
  <2>1. CASE u = w
    <3>1. worker'[u] = Idle
      BY <1>1, <2>1
    <3> QED BY <3>1 DEF PassIsSound, InTransaction, Idle
  <2>2. CASE u # w /\ worker[u].pc = "idle"
    <3>1. worker'[u] = worker[u]
      BY <1>1, <2>2
    <3> QED BY <2>2, <3>1 DEF PassIsSound, InTransaction
  <2>3. CASE u # w /\ worker[u].pc # "idle" /\ worker[u].job = j
    <3>1. worker'[u] = worker[u] /\ PassIsSound(u)
      BY <1>1, <2>3 DEF IInv
    <3>2. ~Owned(u) /\ ~Owned(u)'
      BY <1>1, <1>2, <2>3, <3>1, NoneIsNotAWorker DEF Owned
    <3>3. calls'[worker[u].call].status # "reserved" \/ worker[u].pc \notin {"calling", "settling"}
      BY <1>1, <3>1, <3>2 DEF PassIsSound
    <3> QED BY <1>1, <2>3, <3>1, <3>2, <3>3 DEF PassIsSound, InTransaction
  <2>4. CASE u # w /\ worker[u].pc # "idle" /\ worker[u].job # j
    <3>1. worker'[u] = worker[u] /\ PassIsSound(u)
      BY <1>1, <2>4 DEF IInv
    <3>2. worker[u].job \in JobId /\ jobs'[worker[u].job] = jobs[worker[u].job]
      BY <1>2, <2>4, <3>1 DEF PassIsSound
    <3>3. Owned(u)' <=> Owned(u)
      BY <3>1, <3>2 DEF Owned
    <3>4. \A i \in DOMAIN calls : i = jobs[worker[u].job].call => calls'[i] = calls[i]
      <4>1. SUFFICES ASSUME NEW i \in DOMAIN calls, i = jobs[worker[u].job].call
                     PROVE  i # jobs[j].call
        BY <1>1
      <4>2. i # 0
        BY <1>1 DEF TypeOK
      <4>3. calls[i].job = worker[u].job
        BY <3>2, <4>1, <4>2 DEF IInv, JobsWellFormed
      <4>4. i = jobs[j].call => calls[i].job = j
        BY <1>1, <4>2 DEF IInv, JobsWellFormed
      <4> QED BY <2>4, <4>3, <4>4
    <3>5. worker[u].pc \in {"calling", "settling"} =>
              calls'[worker[u].call].status = "reserved" <=> Owned(u)
      BY <1>1, <3>1, <3>2, <3>4 DEF PassIsSound
    <3> QED BY <1>1, <2>4, <3>1, <3>2, <3>3, <3>4, <3>5 DEF PassIsSound, InTransaction
  <2> QED BY <2>1, <2>2, <2>3, <2>4
<1> QED BY <1>3, <1>4, <1>5, <1>6, <1>7, <1>8 DEF IInv

\* A pass that goes on from preDispatch has an attempt left.
LEMMA PreDispatchInv ==
    ASSUME IInv, NEW w \in Workers, PreDispatch(w)
    PROVE  IInv'
<1> DEFINE j == worker[w].job
<1>1. PassIsSound(w) /\ worker[w] \in WorkerState /\ worker[w].pc = "claimed"
  BY DEF IInv, TypeOK, PreDispatch
<1>2. PICK pc \in {"fresh", "gated"}, verdict \in {"none", "stale", "exhausted"} :
          /\ worker' = [worker EXCEPT ![w] = [worker[w] EXCEPT !.pc = pc, !.verdict = verdict]]
          /\ pc = "fresh" => ~AttemptsSpent(jobs[j])
  BY <1>1 DEF PreDispatch, WorkerState
<1> DEFINE state == [worker[w] EXCEPT !.pc = pc, !.verdict = verdict]
<1>3. state \in WorkerState /\ state.pc = pc /\ state.job = j
  BY <1>1, <1>2 DEF WorkerState
<1>4. worker'[w] = state
  BY <1>2 DEF IInv, TypeOK
<1>5. j \in JobId /\ jobs[j] \in Job
  BY <1>1 DEF PassIsSound, IInv, TypeOK
<1>6. pc = "fresh" => jobs[j].attempts < maxAttemptsBeforeManualRetry
  BY <1>2, <1>5 DEF AttemptsSpent, Job, maxAttemptsBeforeManualRetry
<1>7. UNCHANGED <<drafts, corpus, jobs, calls, assessments, readEarly, spendLock, day, faults>>
  BY DEF PreDispatch
<1> HIDE DEF state
<1>8. PassIsSound(w)'
  BY <1>1, <1>2, <1>3, <1>4, <1>6, <1>7 DEF PassIsSound, InTransaction, Owned
<1> QED BY <1>2, <1>3, <1>7, <1>8, WorkerOnly DEF state, IInv, TypeOK

\* A lease given up before any reservation: the ledger is untouched.
LEMMA OwnerGivesUp ==
    ASSUME IInv, NEW w \in Workers, Owned(w),
           worker[w].pc \in {"claimed", "gated", "fresh"},
           NEW status \in JobStatus \ {"leased"},
           jobs' = [jobs EXCEPT ![worker[w].job] = Released(jobs[worker[w].job], status)],
           worker' = [worker EXCEPT ![w] = Idle],
           assessments' \subseteq Assessment,
           UNCHANGED <<drafts, corpus, calls, readEarly, spendLock, day, faults>>
    PROVE  IInv'
<1>1. PassIsSound(w) /\ calls \in Seq(Call)
  BY DEF IInv, TypeOK
<1>2. \A i \in DOMAIN calls : i = jobs[worker[w].job].call => calls[i].status # "reserved"
  BY <1>1 DEF PassIsSound
<1>3. worker[w].pc # "idle"
  OBVIOUS
<1> QED BY <1>1, <1>2, <1>3, OwnerSettles

\* A failed assessment names the job, the revision and the call of the job.
LEMMA FailedAssessmentType ==
    ASSUME IInv, NEW j \in JobId, NEW c \in Nat
    PROVE  FailedAssessment(j, c) \subseteq Assessment
<1>1. jobs[j] \in Job
  BY DEF IInv, TypeOK
<1> QED BY <1>1 DEF FailedAssessment, Assessment, Job

\* Superseding a job before dispatch preserves the invariant.
LEMMA SettleStaleInv ==
    ASSUME IInv, NEW w \in Workers, SettleStale(w)
    PROVE  IInv'
<1>1. CASE Owned(w)
  BY <1>1, OwnerGivesUp DEF SettleStale, JobStatus, IInv, TypeOK
<1>2. CASE ~Owned(w)
  BY <1>2, GoIdle DEF SettleStale, IInv, TypeOK
<1> QED BY <1>1, <1>2

\* Failing a job whose attempts are spent preserves the invariant.
LEMMA FailExhaustedInv ==
    ASSUME IInv, NEW w \in Workers, FailExhausted(w)
    PROVE  IInv'
<1>1. CASE Owned(w)
  <2>1. worker[w].job \in JobId /\ jobs[worker[w].job].call \in Nat
    BY DEF FailExhausted, IInv, PassIsSound, TypeOK, Job
  <2>2. assessments' \subseteq Assessment
    BY <1>1, <2>1, FailedAssessmentType DEF FailExhausted, IInv, TypeOK
  <2> QED BY <1>1, <2>2, OwnerGivesUp DEF FailExhausted, JobStatus
<1>2. CASE ~Owned(w)
  BY <1>2, GoIdle DEF FailExhausted, IInv, TypeOK
<1> QED BY <1>1, <1>2

\* A crash loses the worker's memory and nothing of the database.
LEMMA CrashInv ==
    ASSUME IInv, NEW w \in Workers, Crash(w)
    PROVE  IInv'
<1>1. faults' \in 0 .. MaxFaults /\ spendLock' \in Workers \cup {None}
  BY BoundsAreNaturals DEF Crash, IInv, TypeOK
<1> QED BY <1>1, GoIdle DEF Crash

------------------------------------------------------------------------------
(* The reservation *)

\* The reservation's row locks are taken only with the lease still held.
LEMMA LockForReservationInv ==
    ASSUME IInv, NEW w \in Workers, LockForReservation(w)
    PROVE  IInv'
<1> DEFINE j == worker[w].job
           open == Owned(w) /\ ~ReviewClosed(j.draft)
           holds == drafts[j.draft].revision > 0
           state == [worker[w] EXCEPT !.pc = "locking", !.day = day, !.holdsRequest = holds]
<1>1. PassIsSound(w) /\ worker[w] \in WorkerState /\ worker[w].pc = "fresh" /\ j \in JobId
  BY DEF IInv, TypeOK, LockForReservation, PassIsSound
<1>2. CASE open
  <2>1. worker' = [worker EXCEPT ![w] = state] /\ jobs' = jobs
    BY <1>2 DEF LockForReservation
  <2>2. /\ state \in WorkerState /\ state.pc = "locking" /\ state.job = j
        /\ state.holdsRequest = holds
    <3>1. holds \in BOOLEAN /\ day \in Nat
      BY DEF IInv, TypeOK
    <3> HIDE DEF holds
    <3> QED BY <1>1, <3>1 DEF WorkerState
  <2>3. worker'[w] = state
    BY <2>1 DEF IInv, TypeOK
  <2>4. UNCHANGED <<drafts, corpus, calls, assessments, readEarly, spendLock, day, faults>>
    BY DEF LockForReservation
  <2>5. j.draft \in FixtureDrafts => state.holdsRequest
    BY <2>2 DEF IInv, FixturesSubmitted
  <2> HIDE DEF state
  <2>6. PassIsSound(w)'
    BY <1>1, <1>2, <2>1, <2>2, <2>3, <2>4, <2>5 DEF PassIsSound, InTransaction, Owned
  <2> QED BY <2>1, <2>2, <2>4, <2>6, WorkerOnly DEF IInv, TypeOK
<1>3. CASE Owned(w) /\ ~open
  <2>1. /\ jobs' = [jobs EXCEPT ![j] = Released(jobs[j], "superseded")]
        /\ worker' = [worker EXCEPT ![w] = Idle]
        /\ UNCHANGED <<drafts, corpus, calls, assessments, readEarly, spendLock, day, faults>>
    BY <1>3 DEF LockForReservation
  <2>2. "superseded" \in JobStatus \ {"leased"} /\ assessments' \subseteq Assessment
    BY <2>1 DEF JobStatus, IInv, TypeOK
  <2> QED BY <1>1, <1>3, <2>1, <2>2, OwnerGivesUp
<1>4. CASE ~Owned(w)
  BY <1>4, GoIdle DEF LockForReservation, IInv, TypeOK
<1> QED BY <1>2, <1>3, <1>4

\* The usage query decides a verdict and changes no row.
LEMMA ReadUsageInv ==
    ASSUME IInv, NEW w \in Workers, ReadUsage(w)
    PROVE  IInv'
<1>1. PassIsSound(w) /\ worker[w] \in WorkerState /\ worker[w].pc = "locking"
  BY DEF IInv, TypeOK, ReadUsage
<1>2. PICK verdict \in {"budget", "quota", "grant"} :
          worker' = [worker EXCEPT ![w] = [worker[w] EXCEPT !.pc = "deciding",
                                                            !.verdict = verdict]]
  <2> DEFINE j == worker[w].job
             denial == IF OverIntakeBudget(j) THEN "budget"
                       ELSE IF capDenialReason(jobs[j].visitor, worker[w].day) THEN "quota"
                       ELSE "grant"
  <2>1. denial \in {"budget", "quota", "grant"}
    OBVIOUS
  <2>2. worker' = [worker EXCEPT ![w].pc = "deciding", ![w].verdict = denial]
    BY DEF ReadUsage
  <2> HIDE DEF denial
  <2> QED BY <1>1, <2>1, <2>2 DEF WorkerState, IInv, TypeOK
<1> DEFINE state == [worker[w] EXCEPT !.pc = "deciding", !.verdict = verdict]
<1>3. /\ state \in WorkerState /\ state.pc = "deciding" /\ state.job = worker[w].job
      /\ state.holdsRequest = worker[w].holdsRequest
  BY <1>1, <1>2 DEF WorkerState
<1>4. worker'[w] = state
  BY <1>2 DEF IInv, TypeOK
<1>5. UNCHANGED <<drafts, corpus, jobs, calls, assessments, readEarly, day, faults>> /\ spendLock' = w
  BY DEF ReadUsage
<1> HIDE DEF state
<1>6. PassIsSound(w)'
  BY <1>1, <1>3, <1>4, <1>5 DEF PassIsSound, InTransaction, Owned
<1> QED BY <1>2, <1>3, <1>5, <1>6, WorkerOnly DEF state, IInv, TypeOK

\* Granted or denied, the new row is the last of the ledger and the job's current
\* call; only a granted one is reserved, and then the job stays leased.
LEMMA CommitReservationInv ==
    ASSUME IInv, NEW w \in Workers, CommitReservation(w)
    PROVE  IInv'
<1> DEFINE j == worker[w].job
           id == Len(calls) + 1
           granted == worker[w].verdict = "grant"
           row == [job |-> j, visitor |-> jobs[j].visitor,
                   status |-> IF granted THEN "reserved" ELSE "denied",
                   reserved |-> IF granted THEN ReservedCost ELSE 0,
                   actual |-> NoCost, day |-> worker[w].day]
           denied == IF worker[w].verdict = "budget" THEN "failed" ELSE "capped"
           job == IF granted THEN [jobs[j] EXCEPT !.attempts = jobs[j].attempts + 1,
                                                  !.call = id]
                  ELSE [Released(jobs[j], denied) EXCEPT !.call = id]
           state == IF granted
                    THEN [Idle EXCEPT !.pc = "calling", !.job = j, !.call = id]
                    ELSE Idle
<1>1. /\ PassIsSound(w) /\ TypeOK /\ worker[w] \in WorkerState /\ worker[w].pc = "deciding"
      /\ worker \in [Workers -> WorkerState] /\ jobs \in [JobId -> Job]
      /\ calls \in Seq(Call) /\ Len(calls) \in Nat
  BY DEF IInv, TypeOK, CommitReservation
<1>2. /\ j \in JobId /\ jobs[j] \in Job /\ Owned(w)
      /\ jobs[j].status = "leased" /\ jobs[j].owner = w /\ jobs[j].visitor \in Visitors
      /\ jobs[j].attempts < maxAttemptsBeforeManualRetry
      /\ \A i \in DOMAIN calls : i = jobs[j].call => calls[i].status # "reserved"
  BY <1>1 DEF PassIsSound, InTransaction, Owned, IInv, JobsWellFormed
<1>3. /\ calls' = Append(calls, row) /\ jobs' = [jobs EXCEPT ![j] = job]
      /\ worker' = [worker EXCEPT ![w] = state] /\ spendLock' = None
      /\ UNCHANGED <<drafts, corpus, assessments, readEarly, day, faults>>
  <2>1. calls' = Append(calls, row)
    BY DEF CommitReservation
  <2>2. jobs' = [jobs EXCEPT ![j] = job]
    BY DEF CommitReservation
  <2>3. worker' = [worker EXCEPT ![w] = state]
    BY DEF CommitReservation
  <2>4. spendLock' = None /\ UNCHANGED <<drafts, corpus, assessments, readEarly, day, faults>>
    BY DEF CommitReservation
  <2> QED BY <2>1, <2>2, <2>3, <2>4
<1>4. /\ row \in Call /\ row.job = j /\ row.actual = NoCost
      /\ row.status = "reserved" <=> granted
  BY <1>1, <1>2 DEF Call, WorkerState
<1>5. /\ job \in Job /\ job.call = id /\ job.visitor \in Visitors
      /\ granted => job.status = "leased" /\ job.owner = w
      /\ ~granted => job.status # "leased" /\ job.owner = None
  <2>1. CASE granted
    <3>1. jobs[j].attempts + 1 \in 0 .. maxAttemptsBeforeManualRetry /\ id \in Nat
      BY <1>1, <1>2 DEF Job, maxAttemptsBeforeManualRetry
    <3>2. job = [jobs[j] EXCEPT !.attempts = jobs[j].attempts + 1, !.call = id]
      BY <2>1
    <3> HIDE DEF granted, job
    <3> QED BY <1>2, <2>1, <3>1, <3>2 DEF Job
  <2>2. CASE ~granted
    <3>1. Released(jobs[j], denied) \in Job /\ id \in Nat
      BY <1>1, <1>2, ReleasedType DEF JobStatus
    <3>2. /\ Released(jobs[j], denied).status \in {"failed", "capped"}
          /\ Released(jobs[j], denied).owner = None
          /\ Released(jobs[j], denied).visitor = jobs[j].visitor
      BY <1>2 DEF Released, Job
    <3>3. job = [Released(jobs[j], denied) EXCEPT !.call = id]
      BY <2>2
    <3> HIDE DEF granted, job, denied
    <3> QED BY <1>2, <2>2, <3>1, <3>2, <3>3 DEF Job
  <2> QED BY <2>1, <2>2
<1>6. /\ state \in WorkerState
      /\ granted => state.pc = "calling" /\ state.job = j /\ state.call = id
      /\ ~granted => state = Idle
  <2>1. CASE granted
    <3>1. state = [Idle EXCEPT !.pc = "calling", !.job = j, !.call = id]
      BY <2>1
    <3>2. id \in Nat
      BY <1>1
    <3> HIDE DEF granted, state, id
    <3> QED BY <1>2, <2>1, <3>1, <3>2, IdleType DEF WorkerState
  <2>2. CASE ~granted
    BY <2>2, IdleType
  <2> QED BY <2>1, <2>2
<1> HIDE DEF row, job, state, granted
<1>7. /\ Len(calls') = id /\ calls' \in Seq(Call)
      /\ DOMAIN calls' = DOMAIN calls \cup {id} /\ id \notin DOMAIN calls
      /\ calls'[id] = row /\ \A i \in DOMAIN calls : calls'[i] = calls[i]
  BY <1>1, <1>3, <1>4
<1>8. jobs'[j] = job /\ \A k \in JobId \ {j} : jobs'[k] = jobs[k]
  BY <1>1, <1>2, <1>3
<1>9. TypeOK'
  BY <1>1, <1>3, <1>5, <1>6, <1>7 DEF TypeOK
<1>10. FixturesSubmitted'
  BY <1>3 DEF IInv, FixturesSubmitted
<1>11. JobsWellFormed'
  <2> SUFFICES ASSUME NEW k \in JobId
               PROVE  /\ jobs'[k].status # "absent" => jobs'[k].visitor \in Visitors
                      /\ jobs'[k].status = "leased" <=> jobs'[k].owner # None
                      /\ jobs'[k].call \in 0 .. Len(calls')
                      /\ jobs'[k].call # 0 => calls'[jobs'[k].call].job = k
    BY DEF JobsWellFormed
  <2>1. CASE k = j
    BY <1>1, <1>4, <1>5, <1>7, <1>8, <2>1, NoneIsNotAWorker
  <2>2. CASE k # j
    <3>1. /\ jobs[k].status # "absent" => jobs[k].visitor \in Visitors
          /\ jobs[k].status = "leased" <=> jobs[k].owner # None
          /\ jobs[k].call \in 0 .. Len(calls)
          /\ jobs[k].call # 0 => calls[jobs[k].call].job = k
      BY DEF IInv, JobsWellFormed
    <3>2. jobs[k].call # 0 => jobs[k].call \in DOMAIN calls
      BY <1>1, <3>1
    <3>3. jobs[k].call \in 0 .. Len(calls')
      BY <1>1, <1>7, <3>1
    <3> QED BY <1>7, <1>8, <2>2, <3>1, <3>2, <3>3
  <2> QED BY <2>1, <2>2
<1>12. ReservedIsUnpriced'
  BY <1>4, <1>7 DEF IInv, ReservedIsUnpriced
<1>13. ReservationHasOwner'
  <2> SUFFICES ASSUME NEW i \in DOMAIN calls', calls'[i].status = "reserved"
               PROVE  /\ jobs'[calls'[i].job].status = "leased"
                      /\ jobs'[calls'[i].job].call = i
    BY DEF ReservationHasOwner
  <2>1. CASE i = id
    BY <1>4, <1>5, <1>7, <1>8, <2>1
  <2>2. CASE i # id
    <3>1. i \in DOMAIN calls /\ calls'[i] = calls[i] /\ calls[i].job \in JobId
      BY <1>1, <1>7, <2>2, CallType
    <3>2. jobs[calls[i].job].status = "leased" /\ jobs[calls[i].job].call = i
      BY <3>1 DEF IInv, ReservationHasOwner
    <3>3. calls[i].job # j
      BY <1>2, <3>1, <3>2
    <3> QED BY <1>8, <3>1, <3>2, <3>3
  <2> QED BY <2>1, <2>2
<1>14. ASSUME NEW u \in Workers
       PROVE  PassIsSound(u)'
  <2>1. CASE u = w /\ granted
    <3>1. worker'[u] = state
      BY <1>1, <1>3, <2>1
    <3>2. Owned(u)'
      BY <1>5, <1>6, <1>8, <2>1, <3>1 DEF Owned
    <3> QED BY <1>2, <1>4, <1>5, <1>6, <1>7, <1>8, <2>1, <3>1, <3>2
            DEF PassIsSound, InTransaction
  <2>2. CASE u = w /\ ~granted
    <3>1. worker'[u] = Idle
      BY <1>1, <1>3, <1>6, <2>2
    <3> QED BY <3>1 DEF PassIsSound, InTransaction, Idle
  <2>3. CASE u # w /\ worker[u].pc = "idle"
    <3>1. worker'[u] = worker[u]
      BY <1>1, <1>3, <2>3
    <3> QED BY <2>3, <3>1 DEF PassIsSound, InTransaction
  <2>4. CASE u # w /\ worker[u].pc # "idle" /\ worker[u].job = j
    <3>1. worker'[u] = worker[u] /\ PassIsSound(u)
      BY <1>1, <1>3, <2>4 DEF IInv
    <3>2. ~Owned(u) /\ ~Owned(u)'
      BY <1>2, <1>5, <1>8, <2>4, <3>1, NoneIsNotAWorker DEF Owned
    <3> QED BY <1>7, <2>4, <3>1, <3>2 DEF PassIsSound, InTransaction
  <2>5. CASE u # w /\ worker[u].pc # "idle" /\ worker[u].job # j
    <3>1. worker'[u] = worker[u] /\ PassIsSound(u)
      BY <1>1, <1>3, <2>5 DEF IInv
    <3>2. worker[u].job \in JobId /\ jobs'[worker[u].job] = jobs[worker[u].job]
      BY <1>8, <2>5, <3>1 DEF PassIsSound
    <3>3. Owned(u)' <=> Owned(u)
      BY <3>1, <3>2 DEF Owned
    <3>4. jobs[worker[u].job].call # id
      BY <1>1, <3>2 DEF IInv, JobsWellFormed
    <3> QED BY <1>7, <2>5, <3>1, <3>2, <3>3, <3>4 DEF PassIsSound, InTransaction
  <2> QED BY <2>1, <2>2, <2>3, <2>4, <2>5
<1> QED BY <1>9, <1>10, <1>11, <1>12, <1>13, <1>14 DEF IInv

------------------------------------------------------------------------------
(* Settlement *)

\* What a worker knows of the ledger row it settles: it exists, and it is the
\* job's own.
LEMMA CallingFacts ==
    ASSUME IInv, NEW w \in Workers, worker[w].pc \in {"calling", "settling"}
    PROVE  /\ worker[w].job \in JobId /\ jobs[worker[w].job] \in Job
           /\ worker[w].call \in DOMAIN calls /\ worker[w].call \in Nat
           /\ calls[worker[w].call] \in Call /\ worker[w] \in WorkerState
           /\ calls[worker[w].call].status = "reserved" <=> Owned(w)
           /\ Owned(w) => jobs[worker[w].job].call = worker[w].call
<1>1. PassIsSound(w) /\ TypeOK /\ worker[w].pc # "idle"
  BY DEF IInv
<1>2. /\ worker[w].job \in JobId /\ worker[w].call \in DOMAIN calls
      /\ calls[worker[w].call].status = "reserved" <=> Owned(w)
      /\ Owned(w) => jobs[worker[w].job].call = worker[w].call
  BY <1>1 DEF PassIsSound
<1>3. worker[w] \in WorkerState /\ jobs[worker[w].job] \in Job
  BY <1>1, <1>2 DEF TypeOK
<1>4. worker[w].call \in Nat
  BY <1>3 DEF WorkerState
<1> QED BY <1>1, <1>2, <1>3, <1>4, CallType

\* The ledger with one row replaced by a settled one of the same job.
LEMMA SettledRow ==
    ASSUME IInv, NEW c \in DOMAIN calls, NEW row \in Call, row.job = calls[c].job,
           calls' = [calls EXCEPT ![c] = row]
    PROVE  /\ calls' \in Seq(Call) /\ Len(calls') = Len(calls) /\ DOMAIN calls' = DOMAIN calls
           /\ calls'[c] = row
           /\ \A i \in DOMAIN calls : /\ calls'[i].job = calls[i].job
                                      /\ i # c => calls'[i] = calls[i]
<1>1. calls \in Seq(Call)
  BY DEF IInv, TypeOK
<1> QED BY <1>1

\* A failed attempt closes its reservation and gives the lease up together.
LEMMA SettleFailureInv ==
    ASSUME IInv, NEW w \in Workers, NEW cost \in UsableCosts, SettleFailure(w, cost)
    PROVE  IInv'
<1> DEFINE j == worker[w].job
           c == worker[w].call
           last == AttemptsSpent(jobs[j])
           status == IF last THEN "failed" ELSE "queued"
           row == [calls[c] EXCEPT !.status = "failed", !.actual = cost]
<1>1. /\ worker[w].pc = "calling" /\ Owned(w)
      /\ calls' = [calls EXCEPT ![c] = row]
      /\ jobs' = [jobs EXCEPT ![j] = Released(jobs[j], status)]
      /\ worker' = [worker EXCEPT ![w] = Idle]
      /\ assessments' = IF last THEN assessments \cup FailedAssessment(j, c) ELSE assessments
      /\ UNCHANGED <<drafts, corpus, readEarly, spendLock, day, faults>>
  BY DEF SettleFailure, CanSettle
<1>2. j \in JobId /\ c \in DOMAIN calls /\ c \in Nat /\ calls[c] \in Call /\ jobs[j].call = c
  BY <1>1, CallingFacts
<1>3. row \in Call /\ row.job = calls[c].job /\ row.status = "failed"
  BY <1>2 DEF Call, UsableCosts
<1>4. assessments' \subseteq Assessment
  BY <1>1, <1>2, FailedAssessmentType DEF IInv, TypeOK
<1>5. status \in JobStatus \ {"leased"}
  BY DEF JobStatus
<1> HIDE DEF row, status
<1>6. /\ calls' \in Seq(Call) /\ Len(calls') = Len(calls)
      /\ \A i \in DOMAIN calls :
             /\ calls'[i].job = calls[i].job
             /\ i # c => calls'[i] = calls[i]
             /\ i = c => calls'[i].status # "reserved"
  BY <1>1, <1>2, <1>3, SettledRow
<1> QED BY <1>1, <1>2, <1>4, <1>5, <1>6, OwnerSettles

\* The freshness judgement takes locks and writes nothing.
LEMMA JudgeResultInv ==
    ASSUME IInv, NEW w \in Workers, JudgeResult(w)
    PROVE  IInv'
<1> DEFINE j == worker[w].job
           current == Fresh(j, jobs[j].revision) /\ ~ReviewClosed(j.draft)
           verdict == IF current THEN "current" ELSE "stale"
           holds == drafts[j.draft].revision > 0
           state == [worker[w] EXCEPT !.pc = "settling", !.verdict = verdict,
                                      !.holdsRequest = holds]
<1>1. /\ worker[w].pc = "calling" /\ Owned(w)
      /\ worker' = [worker EXCEPT ![w] = state]
      /\ UNCHANGED <<drafts, corpus, jobs, calls, assessments, readEarly, spendLock, day, faults>>
  BY DEF JudgeResult, CanSettle
<1>2. worker[w] \in WorkerState /\ PassIsSound(w)
  BY DEF IInv, TypeOK
<1>3. /\ state \in WorkerState /\ state.pc = "settling" /\ state.job = j
      /\ state.call = worker[w].call /\ state.holdsRequest = holds
  <2>1. holds \in BOOLEAN /\ verdict \in {"current", "stale"}
    OBVIOUS
  <2> HIDE DEF holds, verdict
  <2> QED BY <1>2, <2>1 DEF WorkerState
<1>4. j.draft \in FixtureDrafts => holds
  BY DEF IInv, FixturesSubmitted
<1>5. worker'[w] = state
  BY <1>1 DEF IInv, TypeOK
<1> HIDE DEF state, holds
<1>6. PassIsSound(w)'
  BY <1>1, <1>2, <1>3, <1>4, <1>5 DEF PassIsSound, InTransaction, Owned
<1> QED BY <1>1, <1>3, <1>6, WorkerOnly DEF IInv, TypeOK

\* A successful settlement closes its reservation and gives the lease up together.
LEMMA FinalizeSuccessInv ==
    ASSUME IInv, NEW w \in Workers, NEW cost \in UsableCosts, FinalizeSuccess(w, cost)
    PROVE  IInv'
<1> DEFINE j == worker[w].job
           c == worker[w].call
           current == worker[w].verdict = "current"
           result == [job |-> j, revision |-> jobs[j].revision, call |-> c,
                      outcome |-> "succeeded"]
           status == IF current THEN "succeeded" ELSE "superseded"
           row == [calls[c] EXCEPT !.status = "succeeded", !.actual = cost]
<1>1. /\ worker[w].pc = "settling"
      /\ calls' = [calls EXCEPT ![c] = row]
      /\ jobs' = [jobs EXCEPT ![j] = Released(jobs[j], status)]
      /\ worker' = [worker EXCEPT ![w] = Idle]
      /\ assessments' = IF current THEN assessments \cup {result} ELSE assessments
      /\ UNCHANGED <<drafts, corpus, readEarly, spendLock, day, faults>>
  BY DEF FinalizeSuccess
<1>2. Owned(w)
  BY <1>1 DEF IInv, PassIsSound, InTransaction
<1>3. /\ j \in JobId /\ jobs[j] \in Job /\ c \in DOMAIN calls /\ c \in Nat
      /\ calls[c] \in Call /\ jobs[j].call = c
  BY <1>1, <1>2, CallingFacts
<1>4. row \in Call /\ row.job = calls[c].job /\ row.status = "succeeded"
  BY <1>3 DEF Call, UsableCosts
<1>5. assessments' \subseteq Assessment
  <2>1. result \in Assessment
    BY <1>3 DEF Assessment, Job
  <2> QED BY <1>1, <2>1 DEF IInv, TypeOK
<1>6. status \in JobStatus \ {"leased"}
  BY DEF JobStatus
<1> HIDE DEF row, status
<1>7. /\ calls' \in Seq(Call) /\ Len(calls') = Len(calls)
      /\ \A i \in DOMAIN calls :
             /\ calls'[i].job = calls[i].job
             /\ i # c => calls'[i] = calls[i]
             /\ i = c => calls'[i].status # "reserved"
  BY <1>1, <1>3, <1>4, SettledRow
<1> QED BY <1>1, <1>2, <1>3, <1>5, <1>6, <1>7, OwnerSettles

\* The late answer of a lost lease: its row was reconciled when the lease was
\* lost, so only the cost of that row can change.
LEMMA SettleLateInv ==
    ASSUME IInv, NEW w \in Workers, NEW cost \in UsableCosts, SettleLate(w, cost)
    PROVE  IInv'
<1> DEFINE c == worker[w].call
           row == LateEvidence(calls[c], cost)
<1>1. /\ worker[w].pc = "calling" /\ ~Owned(w)
      /\ calls' = [calls EXCEPT ![c] = row]
      /\ worker' = [worker EXCEPT ![w] = Idle]
      /\ UNCHANGED <<drafts, corpus, jobs, assessments, readEarly, spendLock, day, faults>>
  BY DEF SettleLate, CanSettle
<1>2. c \in DOMAIN calls /\ calls[c] \in Call /\ calls[c].status # "reserved"
  BY <1>1, CallingFacts
<1>3. row \in Call /\ row.job = calls[c].job /\ row.status = calls[c].status
  BY <1>2 DEF LateEvidence, Call, UsableCosts
<1> HIDE DEF row
<1>4. /\ calls' \in Seq(Call) /\ Len(calls') = Len(calls) /\ DOMAIN calls' = DOMAIN calls
      /\ \A i \in DOMAIN calls :
             /\ calls'[i].job = calls[i].job
             /\ calls'[i].status = calls[i].status
             /\ calls[i].status = "reserved" => calls'[i] = calls[i]
  BY <1>1, <1>2, <1>3, SettledRow
<1>5. worker'[w] = Idle /\ \A u \in Workers \ {w} : worker'[u] = worker[u]
  BY <1>1 DEF IInv, TypeOK
<1>6. TypeOK'
  BY <1>1, <1>4, IdleType DEF IInv, TypeOK
<1>7. JobsWellFormed'
  <2> SUFFICES ASSUME NEW k \in JobId
               PROVE  /\ jobs[k].status # "absent" => jobs[k].visitor \in Visitors
                      /\ jobs[k].status = "leased" <=> jobs[k].owner # None
                      /\ jobs[k].call \in 0 .. Len(calls')
                      /\ jobs[k].call # 0 => calls'[jobs[k].call].job = k
    BY <1>1 DEF JobsWellFormed
  <2>1. /\ jobs[k].status # "absent" => jobs[k].visitor \in Visitors
        /\ jobs[k].status = "leased" <=> jobs[k].owner # None
        /\ jobs[k].call \in 0 .. Len(calls)
        /\ jobs[k].call # 0 => calls[jobs[k].call].job = k
        /\ jobs[k].call # 0 => jobs[k].call \in DOMAIN calls
    BY DEF IInv, JobsWellFormed, TypeOK
  <2> QED BY <1>4, <2>1
<1>8. FixturesSubmitted' /\ ReservedIsUnpriced' /\ ReservationHasOwner'
  BY <1>1, <1>4 DEF IInv, FixturesSubmitted, ReservedIsUnpriced, ReservationHasOwner
<1>9. ASSUME NEW u \in Workers
      PROVE  PassIsSound(u)'
  <2>1. CASE u = w
    BY <1>5, <2>1 DEF PassIsSound, InTransaction, Idle
  <2>2. CASE u # w
    <3>1. PassIsSound(u) /\ worker'[u] = worker[u] /\ Owned(u)' = Owned(u)
      BY <1>1, <1>5, <2>2 DEF IInv, Owned
    <3> QED BY <1>1, <1>4, <3>1 DEF PassIsSound, InTransaction
  <2> QED BY <2>1, <2>2
<1> QED BY <1>6, <1>7, <1>8, <1>9 DEF IInv

------------------------------------------------------------------------------
(* Claim and reclaim *)

\* A claim, of a queued job or of an expired lease, leaves no reservation open
\* under the new lease.
LEMMA ClaimJobInv ==
    ASSUME IInv, NEW w \in Workers, NEW j \in JobId, ClaimJob(w, j)
    PROVE  IInv'
<1> DEFINE ids == IF jobs[j].status = "leased" THEN {jobs[j].call} ELSE {}
           job == [jobs[j] EXCEPT !.status = "leased", !.owner = w, !.expired = FALSE]
           state == [Idle EXCEPT !.pc = "claimed", !.job = j, !.revision = jobs[j].revision]
<1>1. /\ worker[w].pc = "idle" /\ Claimable(j)
      /\ calls' = Reconciled(ids) /\ worker' = [worker EXCEPT ![w] = state]
      /\ UNCHANGED <<drafts, corpus, assessments, readEarly, spendLock, day, faults>>
  BY DEF ClaimJob
<1>2. TypeOK /\ jobs \in [JobId -> Job] /\ jobs[j] \in Job /\ Len(calls) \in Nat
  BY DEF IInv, TypeOK
<1>3. jobs' = [jobs EXCEPT ![j] = job]
  BY <1>2 DEF ClaimJob
<1>4. /\ job \in Job /\ job.status = "leased" /\ job.owner = w
      /\ job.call = jobs[j].call /\ job.visitor = jobs[j].visitor
  BY <1>2 DEF Job, JobStatus
<1>5. state \in WorkerState /\ state.pc = "claimed" /\ state.job = j
  <2>1. jobs[j].revision \in 0 .. MaxRevision
    BY <1>2 DEF Job
  <2> QED BY <2>1, IdleType DEF WorkerState
<1> HIDE DEF job, state
<1>6. jobs'[j] = job /\ \A k \in JobId \ {j} : jobs'[k] = jobs[k]
  BY <1>2, <1>3
<1>7. worker'[w] = state /\ \A u \in Workers \ {w} : worker'[u] = worker[u]
  BY <1>1 DEF IInv, TypeOK
<1>8. /\ calls' \in Seq(Call) /\ DOMAIN calls' = DOMAIN calls /\ Len(calls') = Len(calls)
      /\ \A i \in DOMAIN calls :
             /\ calls'[i].job = calls[i].job
             /\ calls'[i].actual = calls[i].actual
             /\ calls'[i].status = "reserved" <=> i \notin ids /\ calls[i].status = "reserved"
  <2> HIDE DEF ids
  <2> QED BY <1>1, <1>2, ReconciledKeeps
<1>9. /\ jobs[j].status \in {"queued", "leased"}
      /\ \A u \in Workers : ~(InTransaction(u) /\ worker[u].job = j)
  BY <1>1 DEF Claimable, JobUnlocked
<1>10. \A i \in DOMAIN calls : calls'[i].status = "reserved" => calls[i].job # j
  <2> SUFFICES ASSUME NEW i \in DOMAIN calls, calls'[i].status = "reserved", calls[i].job = j
               PROVE  FALSE
    OBVIOUS
  <2>1. i \notin ids /\ calls[i].status = "reserved"
    BY <1>8
  <2>2. jobs[j].status = "leased" /\ jobs[j].call = i
    BY <2>1 DEF IInv, ReservationHasOwner
  <2> QED BY <2>1, <2>2
<1>11. TypeOK'
  BY <1>1, <1>2, <1>3, <1>4, <1>5, <1>8 DEF TypeOK
<1>12. \A k \in JobId : /\ jobs[k].status # "absent" => jobs[k].visitor \in Visitors
                        /\ jobs[k].status = "leased" <=> jobs[k].owner # None
                        /\ jobs[k].call \in 0 .. Len(calls)
                        /\ jobs[k].call # 0 => /\ jobs[k].call \in DOMAIN calls
                                               /\ calls[jobs[k].call].job = k
  BY <1>2 DEF IInv, JobsWellFormed, TypeOK
<1>13. JobsWellFormed'
  <2> SUFFICES ASSUME NEW k \in JobId
               PROVE  /\ jobs'[k].status # "absent" => jobs'[k].visitor \in Visitors
                      /\ jobs'[k].status = "leased" <=> jobs'[k].owner # None
                      /\ jobs'[k].call \in 0 .. Len(calls')
                      /\ jobs'[k].call # 0 => calls'[jobs'[k].call].job = k
    BY DEF JobsWellFormed
  <2>1. CASE k = j
    BY <1>4, <1>6, <1>8, <1>9, <1>12, <2>1, NoneIsNotAWorker
  <2>2. CASE k # j
    BY <1>6, <1>8, <1>12, <2>2
  <2> QED BY <2>1, <2>2
<1>14. FixturesSubmitted' /\ ReservedIsUnpriced'
  BY <1>1, <1>8 DEF IInv, FixturesSubmitted, ReservedIsUnpriced
<1>15. ReservationHasOwner'
  <2> SUFFICES ASSUME NEW i \in DOMAIN calls', calls'[i].status = "reserved"
               PROVE  /\ jobs'[calls'[i].job].status = "leased"
                      /\ jobs'[calls'[i].job].call = i
    BY DEF ReservationHasOwner
  <2>1. /\ i \in DOMAIN calls /\ calls[i].status = "reserved" /\ calls'[i].job = calls[i].job
        /\ calls[i].job # j
    BY <1>8, <1>10
  <2>2. calls[i].job \in JobId /\ jobs[calls[i].job].status = "leased"
        /\ jobs[calls[i].job].call = i
    BY <1>2, <2>1, CallType DEF IInv, ReservationHasOwner
  <2> QED BY <1>6, <2>1, <2>2
<1>16. ASSUME NEW u \in Workers
       PROVE  PassIsSound(u)'
  <2>1. CASE u = w
    <3>1. \A i \in DOMAIN calls : i = jobs'[j].call => calls'[i].status # "reserved"
      <4> SUFFICES ASSUME NEW i \in DOMAIN calls, i = jobs[j].call
                   PROVE  calls'[i].status # "reserved"
        BY <1>4, <1>6
      <4>1. i # 0
        BY <1>2 DEF TypeOK
      <4>2. calls[i].job = j
        BY <1>12, <4>1
      <4> QED BY <1>10, <4>2
    <3> QED BY <1>5, <1>7, <1>8, <2>1, <3>1 DEF PassIsSound, InTransaction
  <2>2. CASE u # w /\ worker[u].pc = "idle"
    BY <1>7, <2>2 DEF PassIsSound, InTransaction
  <2>3. CASE u # w /\ worker[u].pc # "idle" /\ worker[u].job = j
    <3>1. worker'[u] = worker[u] /\ PassIsSound(u) /\ ~InTransaction(u)
      BY <1>7, <1>9, <2>3 DEF IInv
    <3>2. ~Owned(u)'
      BY <1>4, <1>6, <2>3, <3>1 DEF Owned
    <3>3. worker[u].pc \in {"calling", "settling"} =>
              /\ worker[u].call \in DOMAIN calls
              /\ calls'[worker[u].call].status # "reserved"
      <4> SUFFICES ASSUME worker[u].pc \in {"calling", "settling"}
                   PROVE  /\ worker[u].call \in DOMAIN calls
                          /\ calls'[worker[u].call].status # "reserved"
        OBVIOUS
      <4>1. /\ worker[u].call \in DOMAIN calls
            /\ calls[worker[u].call].status = "reserved" =>
                   jobs[j].status = "leased" /\ jobs[j].call = worker[u].call
        BY <2>3, <3>1 DEF PassIsSound, Owned
      <4> QED BY <1>8, <4>1
    <3> QED BY <1>8, <2>3, <3>1, <3>2, <3>3 DEF PassIsSound, InTransaction
  <2>4. CASE u # w /\ worker[u].pc # "idle" /\ worker[u].job # j
    <3>1. worker'[u] = worker[u] /\ PassIsSound(u)
      BY <1>7, <2>4 DEF IInv
    <3>2. worker[u].job \in JobId /\ jobs'[worker[u].job] = jobs[worker[u].job]
      BY <1>6, <2>4, <3>1 DEF PassIsSound
    <3>3. Owned(u)' <=> Owned(u)
      BY <3>1, <3>2 DEF Owned
    <3>4. worker[u].pc \in {"calling", "settling"} =>
              /\ worker[u].call \in DOMAIN calls
              /\ calls'[worker[u].call].status = "reserved" <=> Owned(u)
      <4> SUFFICES ASSUME worker[u].pc \in {"calling", "settling"}
                   PROVE  /\ worker[u].call \in DOMAIN calls
                          /\ calls'[worker[u].call].status = "reserved" <=> Owned(u)
        OBVIOUS
      <4>1. /\ worker[u].call \in DOMAIN calls
            /\ calls[worker[u].call].status = "reserved" <=> Owned(u)
            /\ Owned(u) => jobs[worker[u].job].call = worker[u].call
        BY <3>1 DEF PassIsSound
      <4>2. worker[u].call # 0
        BY <1>2, <4>1 DEF TypeOK
      <4>3. Owned(u) => worker[u].call \notin ids
        BY <1>12, <2>4, <3>2, <4>1, <4>2
      <4> QED BY <1>8, <4>1, <4>3
    <3> QED BY <1>8, <2>4, <3>1, <3>2, <3>3, <3>4 DEF PassIsSound, InTransaction
  <2> QED BY <2>1, <2>2, <2>3, <2>4
<1> QED BY <1>11, <1>13, <1>14, <1>15, <1>16 DEF IInv

------------------------------------------------------------------------------
(* The invariant holds *)

\* The empty queue satisfies the invariant.
LEMMA InitInv == Init => IInv
<1> SUFFICES ASSUME Init
             PROVE  IInv
  OBVIOUS
<1>1. PICK input \in [Drafts -> DraftInputs] :
          drafts = [d \in Drafts |->
                       [input |-> input[d], revision |-> IF d \in FixtureDrafts THEN 1 ELSE 0,
                        generation |-> 1, closed |-> FALSE]]
  BY DEF Init
<1>2. /\ corpus = [p \in Purposes |-> SeedCorpus] /\ jobs = [j \in JobId |-> AbsentJob]
      /\ calls = <<>> /\ assessments = {} /\ worker = [w \in Workers |-> Idle]
      /\ spendLock = None /\ readEarly = {} /\ day = 0 /\ faults = 0
  BY DEF Init
<1>3. drafts \in [Drafts -> Draft]
  BY <1>1, BoundsAreNaturals DEF Draft
<1>4. TypeOK
  BY <1>2, <1>3, SeedIsACorpus, AbsentJobType, IdleType, BoundsAreNaturals DEF TypeOK
<1>5. JobsWellFormed
  BY <1>2 DEF JobsWellFormed, AbsentJob
<1>6. FixturesSubmitted
  BY <1>1, FixturesAreDrafts DEF FixturesSubmitted
<1>7. ReservedIsUnpriced /\ ReservationHasOwner
  BY <1>2 DEF ReservedIsUnpriced, ReservationHasOwner
<1>8. ASSUME NEW w \in Workers
      PROVE  PassIsSound(w)
  <2>1. worker[w].pc = "idle"
    BY <1>2 DEF Idle
  <2> QED BY <2>1 DEF PassIsSound, InTransaction
<1> QED BY <1>4, <1>5, <1>6, <1>7, <1>8 DEF IInv

\* Every step of a pass preserves the invariant.
LEMMA WorkerStepInv ==
    ASSUME IInv, NEW w \in Workers, WorkerStep(w)
    PROVE  IInv'
<1>1. CASE PreDispatch(w)
  BY <1>1, PreDispatchInv
<1>2. CASE SettleStale(w)
  BY <1>2, SettleStaleInv
<1>3. CASE FailExhausted(w)
  BY <1>3, FailExhaustedInv
<1>4. CASE LockForReservation(w)
  BY <1>4, LockForReservationInv
<1>5. CASE ReadUsage(w)
  BY <1>5, ReadUsageInv
<1>6. CASE CommitReservation(w)
  BY <1>6, CommitReservationInv
<1>7. CASE JudgeResult(w)
  BY <1>7, JudgeResultInv
<1>8. ASSUME NEW cost \in UsableCosts,
             SettleLate(w, cost) \/ SettleFailure(w, cost) \/ FinalizeSuccess(w, cost)
      PROVE  IInv'
  BY <1>8, SettleLateInv, SettleFailureInv, FinalizeSuccessInv
<1> QED BY <1>1, <1>2, <1>3, <1>4, <1>5, <1>6, <1>7, <1>8 DEF WorkerStep

\* Every step of a requester, a reviewer or the reset preserves the invariant.
LEMMA UserStepInv ==
    ASSUME IInv, UserStep
    PROVE  IInv'
<1>1. ASSUME NEW d \in Drafts,
             EditDraft(d) \/ ReadBeforeResult(d) \/ AskClarification(d) \/ CompleteFirstReview(d)
      PROVE  IInv'
  BY <1>1, EditDraftInv, ReadBeforeResultInv, AskClarificationInv, CompleteFirstReviewInv
<1>2. ASSUME NEW d \in Drafts, NEW v \in Visitors, Submit(d, v) \/ AnswerClarification(d, v)
      PROVE  IInv'
  BY <1>2, SubmitInv, AnswerClarificationInv
<1>3. ASSUME NEW d \in Drafts, NEW v \in Visitors, NEW p \in Purposes, EnqueueModelJob(p, d, v)
      PROVE  IInv'
  BY <1>3, EnqueueModelJobInv
<1>4. ASSUME NEW j \in JobId, NEW v \in Visitors, RetryModelJob(j, v)
      PROVE  IInv'
  BY <1>4, RetryModelJobInv
<1>5. CASE ChangeCatalog
  BY <1>5, ChangeCatalogInv
<1>6. CASE ResetFixtureState
  BY <1>6, ResetFixtureStateInv
<1> QED BY <1>1, <1>2, <1>3, <1>4, <1>5, <1>6 DEF UserStep

\* Stuttering preserves the invariant.
LEMMA StutterInv ==
    ASSUME IInv, UNCHANGED vars
    PROVE  IInv'
<1>1. FixturesSubmitted' /\ TypeOK'
  BY DEF vars, IInv, FixturesSubmitted, TypeOK
<1>2. JobsWellFormed' /\ LeasesUntouched
  BY JobsKept DEF vars
<1> QED BY <1>1, <1>2, PassesKept DEF vars, IInv

\* The invariant is inductive.
LEMMA NextInv == IInv /\ [Next]_vars => IInv'
<1> SUFFICES ASSUME IInv, [Next]_vars
             PROVE  IInv'
  OBVIOUS
<1>1. CASE UserStep
  BY <1>1, UserStepInv
<1>2. ASSUME NEW w \in Workers, NEW j \in JobId, ClaimJob(w, j)
      PROVE  IInv'
  BY <1>2, ClaimJobInv
<1>3. ASSUME NEW w \in Workers, WorkerStep(w) \/ Crash(w)
      PROVE  IInv'
  BY <1>3, WorkerStepInv, CrashInv
<1>4. ASSUME NEW j \in JobId, ExpireAbandonedLease(j) \/ ExpireLiveLease(j)
      PROVE  IInv'
  BY <1>4, ExpireLeaseInv
<1>5. CASE NextDay
  BY <1>5, NextDayInv
<1>6. CASE UNCHANGED vars
  BY <1>6, StutterInv
<1> QED BY <1>1, <1>2, <1>3, <1>4, <1>5, <1>6 DEF Next

\* The state of the queue, the ledger and the workers is inductively sound.
THEOREM InductiveInvariant == Spec => []IInv
<1>1. Init => IInv
  BY InitInv
<1>2. IInv /\ [Next]_vars => IInv'
  BY NextInv
<1> QED BY <1>1, <1>2, PTL DEF Spec

\* Every row the code writes has the shape its table declares; in particular
\* attempt_count never passes the automatic retry limit.
THEOREM TypeCorrectness == Spec => []TypeOK
<1>1. IInv => TypeOK
  BY DEF IInv
<1> QED BY <1>1, InductiveInvariant, PTL

\* No crash, reclaim, reset or late answer orphans a reservation: a reserved
\* ledger row is always the current call of a leased job.
THEOREM ReservationsAreOwned == Spec => []ReservationHasOwner
<1>1. IInv => ReservationHasOwner
  BY DEF IInv
<1> QED BY <1>1, InductiveInvariant, PTL

------------------------------------------------------------------------------
(* The ledger is append-only *)

LedgerKept ==
    /\ Len(calls') >= Len(calls)
    /\ \A i \in DOMAIN calls :
           /\ calls[i].status # "reserved" => calls'[i].status = calls[i].status
           /\ calls[i].actual # NoCost => calls'[i].actual = calls[i].actual

\* Reclaim and reset only settle open reservations.
LEMMA ReconciledLedgerKept ==
    ASSUME IInv, NEW ids, calls' = Reconciled(ids)
    PROVE  LedgerKept
<1>1. TypeOK /\ Len(calls) \in Nat
  BY DEF IInv, TypeOK
<1> QED BY <1>1, ReconciledKeeps DEF LedgerKept

\* A step that leaves the ledger alone keeps it.
LEMMA UnchangedLedgerKept ==
    ASSUME IInv, calls' = calls
    PROVE  LedgerKept
<1>1. Len(calls) \in Nat
  BY DEF IInv, TypeOK
<1> QED BY <1>1 DEF LedgerKept

\* The reservation transaction only appends.
LEMMA CommitLedgerKept ==
    ASSUME IInv, NEW w \in Workers, CommitReservation(w)
    PROVE  LedgerKept
<1>1. calls \in Seq(Call) /\ Len(calls) \in Nat
  BY DEF IInv, TypeOK
<1>2. PICK row : calls' = Append(calls, row)
  BY DEF CommitReservation
<1>3. Len(calls') = Len(calls) + 1 /\ \A i \in DOMAIN calls : calls'[i] = calls[i]
  BY <1>1, <1>2
<1> QED BY <1>1, <1>3 DEF LedgerKept

\* A settlement rewrites one row: the open reservation of a held lease, or the
\* unknown cost of a row that was reconciled without one.
LEMMA SettlementLedgerKept ==
    ASSUME IInv, NEW w \in Workers, NEW cost \in UsableCosts,
           SettleLate(w, cost) \/ SettleFailure(w, cost) \/ FinalizeSuccess(w, cost)
    PROVE  LedgerKept
<1> DEFINE c == worker[w].call
<1>1. worker[w].pc \in {"calling", "settling"}
  BY DEF SettleLate, SettleFailure, FinalizeSuccess, CanSettle
<1>2. /\ c \in DOMAIN calls /\ calls[c] \in Call
      /\ calls[c].status = "reserved" <=> Owned(w)
      /\ calls[c].status = "reserved" => calls[c].actual = NoCost
      /\ calls \in Seq(Call) /\ Len(calls) \in Nat
  BY <1>1, CallingFacts DEF IInv, ReservedIsUnpriced, TypeOK
<1>3. CASE SettleLate(w, cost)
  <2>1. calls' = [calls EXCEPT ![c] = LateEvidence(calls[c], cost)] /\ ~Owned(w)
    BY <1>3 DEF SettleLate
  <2>2. /\ LateEvidence(calls[c], cost).status = calls[c].status
        /\ calls[c].actual # NoCost => LateEvidence(calls[c], cost).actual = calls[c].actual
    BY <1>2, <2>1 DEF LateEvidence, Call
  <2> QED BY <1>2, <2>1, <2>2 DEF LedgerKept
<1>4. CASE SettleFailure(w, cost) \/ FinalizeSuccess(w, cost)
  <2>1. PICK row : calls' = [calls EXCEPT ![c] = row]
    BY <1>4 DEF SettleFailure, FinalizeSuccess
  <2>2. Owned(w)
    BY <1>4 DEF SettleFailure, FinalizeSuccess, IInv, PassIsSound, InTransaction
  <2> QED BY <1>2, <2>1, <2>2 DEF LedgerKept
<1> QED BY <1>3, <1>4

\* No step of the system drops a ledger row or rewrites a settled fact.
LEMMA NextLedgerKept == IInv /\ [Next]_vars => LedgerKept
<1> SUFFICES ASSUME IInv, [Next]_vars
             PROVE  LedgerKept
  OBVIOUS
<1>1. CASE UserStep
  <2>1. CASE ResetFixtureState
    BY <2>1, ReconciledLedgerKept DEF ResetFixtureState
  <2>2. CASE ~ResetFixtureState
    <3>1. calls' = calls
      BY <1>1, <2>2 DEF UserStep, EditDraft, ReadBeforeResult, AskClarification, CompleteFirstReview, Submit, AnswerClarification,
                        EnqueueModelJob, RetryModelJob, ChangeCatalog
    <3> QED BY <3>1, UnchangedLedgerKept
  <2> QED BY <2>1, <2>2
<1>2. ASSUME NEW w \in Workers, NEW j \in JobId, ClaimJob(w, j)
      PROVE  LedgerKept
  BY <1>2, ReconciledLedgerKept DEF ClaimJob
<1>3. ASSUME NEW w \in Workers, WorkerStep(w) \/ Crash(w)
      PROVE  LedgerKept
  <2>1. CASE CommitReservation(w)
    BY <2>1, CommitLedgerKept
  <2>2. ASSUME NEW cost \in UsableCosts,
               SettleLate(w, cost) \/ SettleFailure(w, cost) \/ FinalizeSuccess(w, cost)
        PROVE  LedgerKept
    BY <2>2, SettlementLedgerKept
  <2>3. CASE \/ PreDispatch(w) \/ SettleStale(w) \/ FailExhausted(w) \/ LockForReservation(w)
             \/ ReadUsage(w) \/ JudgeResult(w) \/ Crash(w)
    <3>1. calls' = calls
      BY <2>3 DEF PreDispatch, SettleStale, FailExhausted, LockForReservation, ReadUsage,
                  JudgeResult, Crash
    <3> QED BY <3>1, UnchangedLedgerKept
  <2> QED BY <1>3, <2>1, <2>2, <2>3 DEF WorkerStep
<1>4. CASE \/ NextDay \/ UNCHANGED vars
           \/ \E j \in JobId : ExpireAbandonedLease(j) \/ ExpireLiveLease(j)
  <2>1. calls' = calls
    BY <1>4 DEF NextDay, vars, ExpireAbandonedLease, ExpireLiveLease
  <2> QED BY <2>1, UnchangedLedgerKept
<1> QED BY <1>1, <1>2, <1>3, <1>4 DEF Next

\* The ledger is evidence: whatever races, crashes or answers late, no row is
\* dropped, no settled outcome flips and no known cost is rewritten.
THEOREM LedgerNeverRewritten == Spec => LedgerIsAppendOnly
<1>1. IInv /\ [Next]_vars => [LedgerKept]_vars
  BY NextLedgerKept
<1>2. Spec => [][LedgerKept]_vars
  BY <1>1, InductiveInvariant, PTL DEF Spec
<1> QED BY <1>2 DEF LedgerIsAppendOnly, LedgerKept

------------------------------------------------------------------------------
(* The intake budget and the attempts of a job *)

\* A step that settles rows and adds none; a row succeeds only with its job.
SameRows ==
    /\ DOMAIN calls' = DOMAIN calls
    /\ \A i \in DOMAIN calls :
           /\ calls'[i].job = calls[i].job
           /\ calls'[i].status = "denied" <=> calls[i].status = "denied"
           /\ calls[i].status # "reserved" => calls'[i].status = calls[i].status
           /\ calls'[i].status = "succeeded" =>
                  \/ calls[i].status = "succeeded"
                  \/ jobs'[calls[i].job].status \in {"succeeded", "superseded"}

\* What was billed, and for whom, changes only with new rows.
LEMMA SameRowsSameCounts ==
    ASSUME SameRows
    PROVE  /\ Billed' = Billed
           /\ \A d \in Drafts : IntakeCalls(d)' = IntakeCalls(d)
           /\ \A j \in JobId : CallsOf(j)' = CallsOf(j)
<1>1. Billed' = Billed
  BY DEF SameRows, Billed
<1>2. \A i \in Billed : calls'[i].job = calls[i].job
  BY DEF SameRows, Billed
<1> QED BY <1>1, <1>2 DEF IntakeCalls, CallsOf

\* Counts of ledger rows are numbers.
LEMMA CountsAreFinite ==
    ASSUME TypeOK
    PROVE  /\ IsFiniteSet(Billed)
           /\ \A d \in Drafts : IsFiniteSet(IntakeCalls(d)) /\ Cardinality(IntakeCalls(d)) \in Nat
           /\ \A j \in JobId : IsFiniteSet(CallsOf(j)) /\ Cardinality(CallsOf(j)) \in Nat
<1>1. DOMAIN calls = 1 .. Len(calls) /\ Len(calls) \in Nat
  BY DEF TypeOK
<1>2. IsFiniteSet(DOMAIN calls)
  BY <1>1, FS_Interval
<1>3. IsFiniteSet(Billed)
  BY <1>2, FS_Subset DEF Billed
<1>4. /\ \A d \in Drafts : IntakeCalls(d) \in SUBSET Billed
      /\ \A j \in JobId : CallsOf(j) \in SUBSET Billed
  BY DEF IntakeCalls, CallsOf
<1> QED BY <1>3, <1>4, FS_Subset, FS_CardinalityType

\* One more element is at most one more.
LEMMA OneMore ==
    ASSUME NEW S, IsFiniteSet(S), NEW x
    PROVE  /\ Cardinality(S \cup {x}) \in Nat
           /\ Cardinality(S \cup {x}) <= Cardinality(S) + 1
<1>1. Cardinality(S) \in Nat
  BY FS_CardinalityType
<1>2. Cardinality(S \cup {x}) = IF x \in S THEN Cardinality(S) ELSE Cardinality(S) + 1
  BY FS_AddElement
<1> QED BY <1>1, <1>2

\* Every step but a reservation's commit settles rows or leaves them.
LEMMA RowsAreOnlySettled ==
    ASSUME IInv, [Next]_vars, \A w \in Workers : ~CommitReservation(w)
    PROVE  SameRows
<1>1. ASSUME calls' = calls
      PROVE  SameRows
  BY <1>1 DEF SameRows
<1>2. ASSUME NEW ids, calls' = Reconciled(ids)
      PROVE  SameRows
  <2>1. TypeOK
    BY DEF IInv
  <2> QED BY <1>2, <2>1, CallType DEF SameRows, Reconciled, Call
<1>3. ASSUME NEW w \in Workers, NEW cost \in UsableCosts,
             SettleLate(w, cost) \/ SettleFailure(w, cost) \/ FinalizeSuccess(w, cost)
      PROVE  SameRows
  <2> DEFINE c == worker[w].call
  <2>1. worker[w].pc \in {"calling", "settling"}
    BY <1>3 DEF SettleLate, SettleFailure, FinalizeSuccess, CanSettle
  <2>2. /\ c \in DOMAIN calls /\ calls[c] \in Call
        /\ calls[c].status = "reserved" <=> Owned(w)
    BY <2>1, CallingFacts
  <2>3. CASE SettleLate(w, cost)
    <3>1. calls' = [calls EXCEPT ![c] = LateEvidence(calls[c], cost)] /\ ~Owned(w)
      BY <2>3 DEF SettleLate
    <3>2. /\ LateEvidence(calls[c], cost).status = calls[c].status
          /\ LateEvidence(calls[c], cost).job = calls[c].job
      BY <2>2, <3>1 DEF LateEvidence, Call
    <3> QED BY <2>2, <3>1, <3>2 DEF SameRows
  <2>4. CASE SettleFailure(w, cost)
    <3>1. calls' = [calls EXCEPT ![c] = [calls[c] EXCEPT !.status = "failed", !.actual = cost]]
      BY <2>4 DEF SettleFailure
    <3>2. Owned(w)
      BY <2>4 DEF SettleFailure
    <3> QED BY <2>2, <3>1, <3>2 DEF SameRows, Call
  <2>5. CASE FinalizeSuccess(w, cost)
    <3>1. calls' = [calls EXCEPT ![c] = [calls[c] EXCEPT !.status = "succeeded", !.actual = cost]]
      BY <2>5 DEF FinalizeSuccess
    <3>2. Owned(w) /\ worker[w].job \in JobId
      BY <2>5 DEF FinalizeSuccess, IInv, PassIsSound, InTransaction
    <3>3. calls[c].job = worker[w].job
      BY <2>1, <2>2, <3>2, CallingFacts DEF IInv, JobsWellFormed, ReservationHasOwner
    <3>4. jobs'[worker[w].job].status \in {"succeeded", "superseded"}
      BY <2>5, <3>2 DEF FinalizeSuccess, Released, IInv, TypeOK, Job
    <3> QED BY <2>2, <3>1, <3>2, <3>3, <3>4 DEF SameRows, Call
  <2> QED BY <1>3, <2>3, <2>4, <2>5
<1>4. CASE UserStep
  <2>1. CASE ResetFixtureState
    BY <1>2, <2>1 DEF ResetFixtureState
  <2>2. CASE ~ResetFixtureState
    <3>1. calls' = calls
      BY <1>4, <2>2 DEF UserStep, EditDraft, ReadBeforeResult, AskClarification, CompleteFirstReview, Submit,
                        AnswerClarification, EnqueueModelJob, RetryModelJob, ChangeCatalog
    <3> QED BY <1>1, <3>1
  <2> QED BY <2>1, <2>2
<1>5. ASSUME NEW w \in Workers, NEW j \in JobId, ClaimJob(w, j)
      PROVE  SameRows
  BY <1>2, <1>5 DEF ClaimJob
<1>6. ASSUME NEW w \in Workers, WorkerStep(w) \/ Crash(w)
      PROVE  SameRows
  <2>1. CASE \/ PreDispatch(w) \/ SettleStale(w) \/ FailExhausted(w) \/ LockForReservation(w)
             \/ ReadUsage(w) \/ JudgeResult(w) \/ Crash(w)
    <3>1. calls' = calls
      BY <2>1 DEF PreDispatch, SettleStale, FailExhausted, LockForReservation, ReadUsage,
                  JudgeResult, Crash
    <3> QED BY <1>1, <3>1
  <2> QED BY <1>3, <1>6, <2>1 DEF WorkerStep
<1>7. CASE \/ NextDay \/ UNCHANGED vars
           \/ \E j \in JobId : ExpireAbandonedLease(j) \/ ExpireLiveLease(j)
  <2>1. calls' = calls
    BY <1>7 DEF NextDay, vars, ExpireAbandonedLease, ExpireLiveLease
  <2> QED BY <1>1, <2>1
<1> QED BY <1>4, <1>5, <1>6, <1>7 DEF Next

\* A commit adds one row, billed to its job exactly when the reservation was granted.
LEMMA CommitBills ==
    ASSUME IInv, NEW w \in Workers, CommitReservation(w)
    PROVE  /\ worker[w].job \in JobId /\ worker[w].pc = "deciding"
           /\ worker[w].verdict = "grant" =>
                  /\ \A j \in JobId : CallsOf(j)' =
                         IF j = worker[w].job THEN CallsOf(j) \cup {Len(calls) + 1} ELSE CallsOf(j)
                  /\ \A d \in Drafts : IntakeCalls(d)' =
                         IF d = worker[w].job.draft /\ worker[w].job.purpose = "intake_interpret"
                         THEN IntakeCalls(d) \cup {Len(calls) + 1} ELSE IntakeCalls(d)
           /\ worker[w].verdict # "grant" =>
                  /\ \A j \in JobId : CallsOf(j)' = CallsOf(j)
                  /\ \A d \in Drafts : IntakeCalls(d)' = IntakeCalls(d)
<1> DEFINE j == worker[w].job
           id == Len(calls) + 1
           granted == worker[w].verdict = "grant"
           row == [job |-> j, visitor |-> jobs[j].visitor,
                   status |-> IF granted THEN "reserved" ELSE "denied",
                   reserved |-> IF granted THEN ReservedCost ELSE 0,
                   actual |-> NoCost, day |-> worker[w].day]
<1>1. worker[w].pc = "deciding" /\ calls' = Append(calls, row)
  BY DEF CommitReservation
<1>2. j \in JobId /\ calls \in Seq(Call) /\ Len(calls) \in Nat
  BY <1>1 DEF IInv, PassIsSound, TypeOK
<1>3. row.job = j /\ row.status = IF granted THEN "reserved" ELSE "denied"
  OBVIOUS
<1> HIDE DEF row, granted
<1>4. /\ DOMAIN calls' = DOMAIN calls \cup {id} /\ id \notin DOMAIN calls
      /\ calls'[id] = row /\ \A i \in DOMAIN calls : calls'[i] = calls[i]
  BY <1>1, <1>2
<1>5. Billed' = IF granted THEN Billed \cup {id} ELSE Billed
  BY <1>3, <1>4 DEF Billed
<1>6. \A i \in Billed : calls'[i] = calls[i]
  BY <1>4 DEF Billed
<1> HIDE DEF id
<1>7. CASE granted
  <2>1. \A k \in JobId : CallsOf(k)' = IF k = j THEN CallsOf(k) \cup {id} ELSE CallsOf(k)
    BY <1>3, <1>4, <1>5, <1>6, <1>7 DEF CallsOf
  <2>2. \A d \in Drafts : IntakeCalls(d)' = IF d = j.draft /\ j.purpose = "intake_interpret"
                                           THEN IntakeCalls(d) \cup {id} ELSE IntakeCalls(d)
    BY <1>3, <1>4, <1>5, <1>6, <1>7 DEF IntakeCalls
  <2> QED BY <1>1, <1>2, <1>7, <2>1, <2>2 DEF granted, id
<1>8. CASE ~granted
  <2>1. /\ \A k \in JobId : CallsOf(k)' = CallsOf(k)
        /\ \A d \in Drafts : IntakeCalls(d)' = IntakeCalls(d)
    BY <1>5, <1>6, <1>8 DEF CallsOf, IntakeCalls
  <2> QED BY <1>1, <1>2, <1>8, <2>1 DEF granted
<1> QED BY <1>7, <1>8

\* The usage read under the spend lock stands until the commit: nobody else commits.
LEMMA UsageStaysCurrent ==
    ASSUME IInv, UsageIsCurrent, [Next]_vars
    PROVE  UsageIsCurrent'
<1> SUFFICES ASSUME NEW w \in Workers, worker'[w].pc = "deciding"
             PROVE  /\ spendLock' = w
                    /\ worker'[w].verdict = "grant" => ~OverIntakeBudget(worker[w].job)'
  BY DEF UsageIsCurrent
<1>1. worker \in [Workers -> WorkerState] /\ TypeOK
  BY DEF IInv, TypeOK
<1>2. w # None
  BY NoneIsNotAWorker
<1>3. ASSUME worker'[w] = worker[w], spendLock' = spendLock, SameRows
      PROVE  /\ spendLock' = w
             /\ worker'[w].verdict = "grant" => ~OverIntakeBudget(worker[w].job)'
  <2>1. /\ spendLock = w
        /\ worker[w].verdict = "grant" => ~OverIntakeBudget(worker[w].job)
    BY <1>3 DEF UsageIsCurrent
  <2>2. worker[w].job \in JobId /\ worker[w].job.draft \in Drafts
    BY <1>3 DEF IInv, PassIsSound, JobId
  <2>3. IntakeCalls(worker[w].job.draft)' = IntakeCalls(worker[w].job.draft)
    BY <1>3, <2>2, SameRowsSameCounts DEF IntakeCalls
  <2> QED BY <1>3, <2>1, <2>3 DEF OverIntakeBudget
<1>4. ASSUME NEW u \in Workers, CommitReservation(u)
      PROVE  FALSE
  <2>1. worker[u].pc = "deciding" /\ spendLock = u
    BY <1>4 DEF CommitReservation, UsageIsCurrent
  <2>2. CASE u = w
    BY <1>1, <1>4, <2>2 DEF CommitReservation, Idle
  <2>3. CASE u # w
    <3>1. worker'[w] = worker[w]
      BY <1>1, <1>4, <2>3 DEF CommitReservation
    <3> QED BY <2>1, <2>3, <3>1 DEF UsageIsCurrent
  <2> QED BY <2>2, <2>3
<1>5. SameRows
  BY <1>4, RowsAreOnlySettled
<1>6. CASE UserStep \/ NextDay \/ UNCHANGED vars
           \/ \E j \in JobId : ExpireAbandonedLease(j) \/ ExpireLiveLease(j)
  <2>1. worker' = worker /\ spendLock' = spendLock
    BY <1>6 DEF UserStep, EditDraft, ReadBeforeResult, AskClarification, CompleteFirstReview, Submit,
                AnswerClarification, EnqueueModelJob, RetryModelJob, ChangeCatalog,
                ResetFixtureState, NextDay, vars, ExpireAbandonedLease, ExpireLiveLease
  <2> QED BY <1>3, <1>5, <2>1
<1>7. ASSUME NEW u \in Workers, NEW j \in JobId, ClaimJob(u, j)
      PROVE  /\ spendLock' = w
             /\ worker'[w].verdict = "grant" => ~OverIntakeBudget(worker[w].job)'
  <2>1. u # w
    BY <1>1, <1>7 DEF ClaimJob, Idle
  <2>2. worker'[w] = worker[w] /\ spendLock' = spendLock
    BY <1>1, <1>7, <2>1 DEF ClaimJob
  <2> QED BY <1>3, <1>5, <2>2
<1>8. ASSUME NEW u \in Workers, ReadUsage(u)
      PROVE  /\ spendLock' = w
             /\ worker'[w].verdict = "grant" => ~OverIntakeBudget(worker[w].job)'
  <2>1. CASE u = w
    <3>1. /\ spendLock' = w /\ UNCHANGED calls
          /\ worker'[w].job = worker[w].job
          /\ worker'[w].verdict = "grant" => ~OverIntakeBudget(worker[w].job)
      BY <1>1, <1>8, <2>1 DEF ReadUsage, WorkerState
    <3> QED BY <3>1 DEF OverIntakeBudget, IntakeCalls, Billed
  <2>2. CASE u # w
    <3>1. worker'[w] = worker[w] /\ spendLock = None
      BY <1>1, <1>8, <2>2 DEF ReadUsage, SpendLockFree
    <3> QED BY <1>2, <3>1 DEF UsageIsCurrent
  <2> QED BY <2>1, <2>2
<1>9. ASSUME NEW u \in Workers, Crash(u)
      PROVE  /\ spendLock' = w
             /\ worker'[w].verdict = "grant" => ~OverIntakeBudget(worker[w].job)'
  <2>1. u # w
    BY <1>1, <1>9 DEF Crash, Idle
  <2>2. worker'[w] = worker[w]
    BY <1>1, <1>9, <2>1 DEF Crash
  <2>3. spendLock' = spendLock
    BY <1>9, <2>1, <2>2 DEF Crash, UsageIsCurrent
  <2> QED BY <1>3, <1>5, <2>2, <2>3
<1>10. ASSUME NEW u \in Workers,
              \/ PreDispatch(u) \/ SettleStale(u) \/ FailExhausted(u) \/ LockForReservation(u)
              \/ JudgeResult(u)
              \/ \E cost \in UsableCosts :
                     SettleLate(u, cost) \/ SettleFailure(u, cost) \/ FinalizeSuccess(u, cost)
       PROVE  /\ spendLock' = w
              /\ worker'[w].verdict = "grant" => ~OverIntakeBudget(worker[w].job)'
  <2>1. /\ spendLock' = spendLock
        /\ \E state : worker' = [worker EXCEPT ![u] = state] /\ state.pc # "deciding"
    <3>1. CASE PreDispatch(u)
      <4>1. worker'[u].pc \in {"fresh", "gated"}
        BY <1>1, <3>1 DEF PreDispatch, WorkerState
      <4>2. worker' = [worker EXCEPT ![u] = worker'[u]] /\ spendLock' = spendLock
        BY <1>1, <3>1 DEF PreDispatch
      <4> QED BY <4>1, <4>2
    <3>2. CASE LockForReservation(u)
      <4>1. worker'[u].pc \in {"locking", "idle"}
        BY <1>1, <3>2 DEF LockForReservation, WorkerState, Idle
      <4>2. worker' = [worker EXCEPT ![u] = worker'[u]] /\ spendLock' = spendLock
        BY <1>1, <3>2 DEF LockForReservation
      <4> QED BY <4>1, <4>2
    <3>3. CASE JudgeResult(u)
      <4>1. worker'[u].pc = "settling"
        BY <1>1, <3>3 DEF JudgeResult, WorkerState
      <4>2. worker' = [worker EXCEPT ![u] = worker'[u]] /\ spendLock' = spendLock
        BY <1>1, <3>3 DEF JudgeResult
      <4> QED BY <4>1, <4>2
    <3>4. CASE SettleStale(u) \/ FailExhausted(u)
      <4>1. worker' = [worker EXCEPT ![u] = Idle] /\ spendLock' = spendLock
        BY <3>4 DEF SettleStale, FailExhausted
      <4>2. Idle.pc # "deciding"
        BY DEF Idle
      <4> QED BY <4>1, <4>2
    <3>5. ASSUME NEW cost \in UsableCosts,
                 SettleLate(u, cost) \/ SettleFailure(u, cost) \/ FinalizeSuccess(u, cost)
          PROVE  spendLock' = spendLock /\ worker' = [worker EXCEPT ![u] = Idle]
      BY <3>5 DEF SettleLate, SettleFailure, FinalizeSuccess
    <3>6. Idle.pc # "deciding"
      BY DEF Idle
    <3>7. ASSUME worker' = [worker EXCEPT ![u] = Idle]
          PROVE  \E state : worker' = [worker EXCEPT ![u] = state] /\ state.pc # "deciding"
      BY <3>6, <3>7
    <3> QED BY <1>10, <3>1, <3>2, <3>3, <3>4, <3>5, <3>7
  <2>2. PICK state : worker' = [worker EXCEPT ![u] = state] /\ state.pc # "deciding"
    BY <2>1
  <2>3. worker'[w] = worker[w]
    BY <1>1, <2>2
  <2> QED BY <1>3, <1>5, <2>1, <2>3
<1> QED BY <1>4, <1>6, <1>7, <1>8, <1>9, <1>10 DEF Next, WorkerStep

\* A granted reservation saw fewer than the budget.
LEMMA BudgetStaysWithin ==
    ASSUME IInv, UsageIsCurrent, IntakeBudgetHolds, [Next]_vars
    PROVE  IntakeBudgetHolds'
<1> SUFFICES ASSUME NEW d \in Drafts
             PROVE  Cardinality(IntakeCalls(d)') <= intakeAttemptBudget
  BY DEF IntakeBudgetHolds, IntakeCalls
<1>1. /\ Cardinality(IntakeCalls(d)) <= intakeAttemptBudget
      /\ IsFiniteSet(IntakeCalls(d)) /\ Cardinality(IntakeCalls(d)) \in Nat
  BY CountsAreFinite DEF IntakeBudgetHolds, IInv
<1>2. CASE \A w \in Workers : ~CommitReservation(w)
  BY <1>1, <1>2, RowsAreOnlySettled, SameRowsSameCounts
<1>3. ASSUME NEW w \in Workers, CommitReservation(w)
      PROVE  Cardinality(IntakeCalls(d)') <= intakeAttemptBudget
  <2>1. CASE \/ worker[w].verdict # "grant"
             \/ ~(d = worker[w].job.draft /\ worker[w].job.purpose = "intake_interpret")
    BY <1>1, <1>3, <2>1, CommitBills
  <2>2. CASE /\ worker[w].verdict = "grant"
             /\ d = worker[w].job.draft /\ worker[w].job.purpose = "intake_interpret"
    <3>1. ~(Cardinality(IntakeCalls(d)) >= intakeAttemptBudget)
      BY <1>3, <2>2, CommitBills DEF UsageIsCurrent, OverIntakeBudget
    <3>2. IntakeCalls(d)' = IntakeCalls(d) \cup {Len(calls) + 1}
      BY <1>3, <2>2, CommitBills
    <3>3. Cardinality(IntakeCalls(d)') <= Cardinality(IntakeCalls(d)) + 1
      BY <1>1, <3>2, OneMore
    <3>4. Cardinality(IntakeCalls(d)') \in Nat
      BY <1>1, <3>2, OneMore
    <3> QED BY <1>1, <3>1, <3>3, <3>4 DEF intakeAttemptBudget
  <2> QED BY <2>1, <2>2
<1> QED BY <1>2, <1>3

------------------------------------------------------------------------------
(* What a step does to a job *)

\* A step that neither attempts, retries nor attaches a job, nor lets it succeed.
QuietJob(j) ==
    /\ jobs'[j].attempts = jobs[j].attempts /\ jobs'[j].retries = jobs[j].retries
    /\ jobs'[j].call = jobs[j].call /\ jobs'[j].revision = jobs[j].revision
    /\ jobs'[j].visitor = jobs[j].visitor
    /\ jobs'[j].status = "absent" => jobs[j].status = "absent"
    /\ jobs'[j].status = "succeeded" => jobs[j].status = "succeeded"
    /\ jobs'[j].status \in Undone \cup {"leased"} => jobs[j].status \in Undone \cup {"leased"}

\* An enqueue inserted the job.
InsertedJob(j) ==
    /\ jobs[j].status = "absent"
    /\ jobs'[j].status = "queued" /\ jobs'[j].call = 0
    /\ jobs'[j].attempts = 0 /\ jobs'[j].retries = 0

\* An enqueue of purposes P attached the request, whose row is row, to the job.
AttachedJob(j, P, d, row) ==
    /\ jobs[j].revision = 0 /\ jobs[j].status # "absent"
    /\ j.draft = d /\ j.purpose \in P /\ j = Identity(j.purpose, d, row, TRUE)
    /\ JobUnlocked(j)
    /\ jobs'[j] = [jobs[j] EXCEPT !.revision = row.revision]

\* A submission, an answer or a preparation on request: the draft's row as it commits.
EnqueueStep ==
    \E P \in SUBSET Purposes, d \in Drafts, row \in Draft, attached \in BOOLEAN, v \in Visitors :
        /\ Enqueue(P, d, row, attached, v)
        /\ drafts' = [drafts EXCEPT ![d] = row]
        /\ attached => row.revision # 0
        /\ row = drafts[d] \/ (/\ row.revision = drafts[d].revision + 1
                               /\ drafts[d].revision # 0 => RequestUnlocked(d)
                               /\ d \notin FixtureDrafts)
        /\ UNCHANGED <<calls, worker>>

\* The three operations that enqueue are such steps.
LEMMA EnqueuesAreSteps ==
    ASSUME IInv, NEW d \in Drafts, NEW v \in Visitors,
           \/ Submit(d, v) \/ AnswerClarification(d, v)
           \/ \E p \in Purposes : EnqueueModelJob(p, d, v)
    PROVE  EnqueueStep
<1>1. /\ drafts[d] \in Draft /\ drafts \in [Drafts -> Draft]
      /\ d \in FixtureDrafts => drafts[d].revision # 0
      /\ ReviewPurposes \in SUBSET Purposes
  BY DEF IInv, TypeOK, FixturesSubmitted, ReviewPurposes
<1>2. drafts[d].revision \in 0 .. MaxRevision
  BY <1>1 DEF Draft
<1>3. CASE Submit(d, v)
  <2> DEFINE row == [drafts[d] EXCEPT !.revision = 1]
  <2>1. row \in Draft /\ row.revision = 1
    BY <1>1, BoundsAreNaturals DEF Draft
  <2>2. /\ Enqueue(ReviewPurposes, d, row, TRUE, v) /\ drafts' = [drafts EXCEPT ![d] = row]
        /\ drafts[d].revision = 0 /\ UNCHANGED <<calls, worker>>
    BY <1>3 DEF Submit
  <2>3. /\ row.revision = drafts[d].revision + 1 /\ row.revision # 0
        /\ d \notin FixtureDrafts /\ TRUE \in BOOLEAN
    BY <1>1, <2>1, <2>2
  <2> HIDE DEF row
  <2> QED BY <1>1, <2>1, <2>2, <2>3 DEF EnqueueStep
<1>4. CASE AnswerClarification(d, v)
  <2> DEFINE row == [drafts[d] EXCEPT !.revision = @ + 1]
  <2>1. /\ Enqueue(ReviewPurposes, d, row, TRUE, v) /\ drafts' = [drafts EXCEPT ![d] = row]
        /\ drafts[d].revision \in 1 .. MaxRevision - 1 /\ UNCHANGED <<calls, worker>>
        /\ RequestUnlocked(d) /\ d \notin FixtureDrafts
    BY <1>4 DEF AnswerClarification
  <2>2. row \in Draft /\ row.revision = drafts[d].revision + 1
    BY <1>1, <2>1, BoundsAreNaturals DEF Draft
  <2>3. row.revision # 0
    BY <2>1, <2>2, BoundsAreNaturals
  <2> HIDE DEF row
  <2> QED BY <1>1, <2>1, <2>2, <2>3 DEF EnqueueStep
<1>5. ASSUME NEW p \in Purposes, EnqueueModelJob(p, d, v)
      PROVE  EnqueueStep
  <2>1. \/ Enqueue({p}, d, drafts[d], TRUE, v) /\ drafts[d].revision > 0
        \/ Enqueue({p}, d, drafts[d], FALSE, v)
    BY <1>5 DEF EnqueueModelJob
  <2>2. UNCHANGED <<drafts, calls, worker>>
    BY <1>5 DEF EnqueueModelJob
  <2> DEFINE row == drafts[d]
  <2>3. /\ row \in Draft /\ row = drafts[d] /\ {p} \in SUBSET Purposes
        /\ drafts' = [drafts EXCEPT ![d] = row] /\ UNCHANGED <<calls, worker>>
    BY <1>1, <2>2
  <2>4. CASE Enqueue({p}, d, row, TRUE, v) /\ row.revision > 0
    <3>1. row.revision # 0
      BY <1>2, <2>4
    <3> HIDE DEF row
    <3> QED BY <2>3, <2>4, <3>1 DEF EnqueueStep
  <2>5. CASE Enqueue({p}, d, row, FALSE, v)
    <3> HIDE DEF row
    <3> QED BY <2>3, <2>5 DEF EnqueueStep
  <2> QED BY <2>1, <2>4, <2>5
<1> QED BY <1>3, <1>4, <1>5

\* Every step leaves all jobs quiet but for an enqueue, a manual retry, a reservation's
\* commit and a successful settlement.
LEMMA MovesOfJobs ==
    ASSUME IInv, [Next]_vars
    PROVE  \/ SameRows /\ \A j \in JobId : QuietJob(j)
           \/ EnqueueStep
           \/ \E j \in JobId, v \in Visitors : RetryModelJob(j, v)
           \/ \E w \in Workers : CommitReservation(w)
           \/ \E w \in Workers, cost \in UsableCosts : FinalizeSuccess(w, cost)
<1> SUFFICES ASSUME ~EnqueueStep,
                    \A j \in JobId, v \in Visitors : ~RetryModelJob(j, v),
                    \A w \in Workers : ~CommitReservation(w),
                    \A w \in Workers, cost \in UsableCosts : ~FinalizeSuccess(w, cost)
             PROVE  SameRows /\ \A j \in JobId : QuietJob(j)
  OBVIOUS
<1>1. SameRows
  BY RowsAreOnlySettled
<1> SUFFICES ASSUME NEW j \in JobId
             PROVE  QuietJob(j)
  BY <1>1
<1>2. jobs[j] \in Job /\ jobs \in [JobId -> Job]
  BY DEF IInv, TypeOK
<1>3. ASSUME jobs'[j] = jobs[j]
      PROVE  QuietJob(j)
  BY <1>3 DEF QuietJob
<1>4. ASSUME NEW status \in {"superseded", "failed", "queued"},
             jobs'[j] = Released(jobs[j], status), jobs[j].status \in {"queued", "leased"}
      PROVE  QuietJob(j)
  BY <1>2, <1>4 DEF QuietJob, Released, Undone, Job
<1>5. CASE UserStep
  <2>1. CASE ResetFixtureState
    <3>1. \/ jobs'[j] = jobs[j]
          \/ /\ jobs'[j] = Released(jobs[j], "superseded")
             /\ jobs[j].status \in {"queued", "leased"}
      BY <2>1 DEF ResetFixtureState
    <3> QED BY <1>3, <1>4, <3>1
  <2>2. CASE ChangeCatalog \/ \E d \in Drafts : \/ EditDraft(d) \/ ReadBeforeResult(d) \/ AskClarification(d)
                                                \/ CompleteFirstReview(d)
    BY <1>3, <2>2 DEF ChangeCatalog, EditDraft, ReadBeforeResult, AskClarification, CompleteFirstReview
  <2> QED BY <1>5, <2>1, <2>2, EnqueuesAreSteps DEF UserStep
<1>6. ASSUME NEW w \in Workers, NEW k \in JobId, ClaimJob(w, k)
      PROVE  QuietJob(j)
  <2>1. CASE k # j
    BY <1>2, <1>3, <1>6, <2>1 DEF ClaimJob
  <2>2. CASE k = j
    <3>1. /\ jobs' = [jobs EXCEPT ![j] = [jobs[j] EXCEPT !.status = "leased", !.owner = w,
                                                         !.expired = FALSE]]
          /\ jobs[j].status \in {"queued", "leased"}
      BY <1>2, <1>6, <2>2 DEF ClaimJob, Claimable
    <3> QED BY <1>2, <3>1 DEF QuietJob, Undone, Job
  <2> QED BY <2>1, <2>2
<1>7. ASSUME NEW w \in Workers, WorkerStep(w) \/ Crash(w)
      PROVE  QuietJob(j)
  <2>1. CASE PreDispatch(w) \/ ReadUsage(w) \/ JudgeResult(w) \/ Crash(w)
    BY <1>3, <2>1 DEF PreDispatch, ReadUsage, JudgeResult, Crash
  <2>2. ASSUME NEW status \in {"superseded", "failed", "queued"}, Owned(w), worker[w].job \in JobId,
               jobs' = [jobs EXCEPT ![worker[w].job] = Released(jobs[worker[w].job], status)]
        PROVE  QuietJob(j)
    <3>1. CASE worker[w].job # j
      BY <1>2, <1>3, <2>2, <3>1
    <3>2. CASE worker[w].job = j
      BY <1>2, <1>4, <2>2, <3>2 DEF Owned
    <3> QED BY <3>1, <3>2
  <2>3. worker[w].pc # "idle" => worker[w].job \in JobId
    BY DEF IInv, PassIsSound
  <2>4. CASE SettleStale(w)
    BY <1>3, <2>2, <2>3, <2>4 DEF SettleStale
  <2>5. CASE FailExhausted(w)
    BY <1>3, <2>2, <2>3, <2>5 DEF FailExhausted
  <2>6. CASE LockForReservation(w)
    BY <1>3, <2>2, <2>3, <2>6 DEF LockForReservation
  <2>7. ASSUME NEW cost \in UsableCosts, SettleLate(w, cost)
        PROVE  QuietJob(j)
    BY <1>3, <2>7 DEF SettleLate
  <2>8. ASSUME NEW cost \in UsableCosts, SettleFailure(w, cost)
        PROVE  QuietJob(j)
    <3>1. /\ Owned(w) /\ worker[w].pc = "calling"
          /\ \E status \in {"superseded", "failed", "queued"} :
                 jobs' = [jobs EXCEPT ![worker[w].job] = Released(jobs[worker[w].job], status)]
      BY <2>8 DEF SettleFailure, CanSettle
    <3> QED BY <2>2, <2>3, <3>1
  <2> QED BY <1>7, <2>1, <2>4, <2>5, <2>6, <2>7, <2>8 DEF WorkerStep
<1>8. ASSUME NEW k \in JobId, ExpireAbandonedLease(k) \/ ExpireLiveLease(k)
      PROVE  QuietJob(j)
  <2>1. jobs' = [jobs EXCEPT ![k] = [jobs[k] EXCEPT !.expired = TRUE]]
    BY <1>2, <1>8 DEF ExpireAbandonedLease, ExpireLiveLease
  <2> QED BY <1>2, <2>1 DEF QuietJob, Job
<1>9. CASE NextDay \/ UNCHANGED vars
  BY <1>3, <1>9 DEF NextDay, vars
<1> QED BY <1>5, <1>6, <1>7, <1>8, <1>9 DEF Next

\* What an enqueue does to one job: inserts it, attaches the request to it, or neither.
LEMMA EnqueueMoves ==
    ASSUME IInv, NEW P \in SUBSET Purposes, NEW d \in Drafts, NEW row \in Draft,
           NEW attached \in BOOLEAN, NEW v \in Visitors,
           Enqueue(P, d, row, attached, v), NEW j \in JobId
    PROVE  QuietJob(j) \/ InsertedJob(j) \/ (attached /\ AttachedJob(j, P, d, row))
<1> DEFINE id == Identity(j.purpose, d, row, attached)
<1>1. jobs[j] \in Job
  BY DEF IInv, TypeOK
<1>2. ASSUME jobs'[j] = jobs[j]
      PROVE  QuietJob(j)
  BY <1>2 DEF QuietJob
<1>3. jobs'[j] = IF j.draft = d /\ j.purpose \in P
                 THEN EnqueuedJob(j, id, row, attached, v) ELSE jobs[j]
  BY DEF Enqueue
<1> HIDE DEF id
<1>4. CASE ~(j.draft = d /\ j.purpose \in P)
  BY <1>2, <1>3, <1>4
<1>5. CASE j.draft = d /\ j.purpose \in P /\ jobs[id].status = "absent"
  <2>1. CASE j = id
    BY <1>3, <1>5, <2>1 DEF EnqueuedJob, QueuedJob, AbsentJob, InsertedJob
  <2>2. CASE j # id /\ jobs[j].status \in Undone
    <3>1. jobs'[j] = [jobs[j] EXCEPT !.status = "superseded"]
      BY <1>3, <1>5, <2>2 DEF EnqueuedJob
    <3> QED BY <1>1, <2>2, <3>1 DEF QuietJob, Undone, Job
  <2>3. CASE j # id /\ jobs[j].status \notin Undone
    BY <1>2, <1>3, <1>5, <2>3 DEF EnqueuedJob
  <2> QED BY <2>1, <2>2, <2>3
<1>6. CASE j.draft = d /\ j.purpose \in P /\ jobs[id].status # "absent"
  <2>1. CASE j = id /\ attached /\ jobs[j].revision = 0
    <3>1. JobUnlocked(j)
      BY <1>6, <2>1 DEF Enqueue, id
    <3> QED BY <1>3, <1>6, <2>1, <3>1 DEF EnqueuedJob, id, AttachedJob
  <2>2. CASE ~(j = id /\ attached /\ jobs[j].revision = 0)
    BY <1>2, <1>3, <1>6, <2>2 DEF EnqueuedJob
  <2> QED BY <2>1, <2>2
<1> QED BY <1>4, <1>5, <1>6

\* attempt_count keeps up with the ledger: a retry that clears it is counted itself.
LEMMA AttemptsStayCounted ==
    ASSUME IInv, AttemptsAreCounted, [Next]_vars
    PROVE  AttemptsAreCounted'
<1> SUFFICES ASSUME NEW j \in JobId
             PROVE  /\ Cardinality(CallsOf(j)') <=
                           maxAttemptsBeforeManualRetry * jobs'[j].retries + jobs'[j].attempts
                    /\ jobs'[j].status = "absent" =>
                           jobs'[j].attempts = 0 /\ jobs'[j].retries = 0
  BY DEF AttemptsAreCounted, CallsOf
<1>1. /\ Cardinality(CallsOf(j)) <=
             maxAttemptsBeforeManualRetry * jobs[j].retries + jobs[j].attempts
      /\ jobs[j].status = "absent" => jobs[j].attempts = 0 /\ jobs[j].retries = 0
  BY DEF AttemptsAreCounted
<1>2. /\ IsFiniteSet(CallsOf(j)) /\ Cardinality(CallsOf(j)) \in Nat
      /\ jobs \in [JobId -> Job] /\ jobs[j] \in Job
      /\ jobs[j].retries \in Nat /\ jobs[j].attempts \in 0 .. 2
  BY CountsAreFinite, BoundsAreNaturals DEF IInv, TypeOK, Job, maxAttemptsBeforeManualRetry
<1>3. CASE SameRows /\ QuietJob(j)
  BY <1>1, <1>2, <1>3, SameRowsSameCounts DEF QuietJob
<1>4. CASE SameRows /\ \A k \in JobId : QuietJob(k)
  BY <1>3, <1>4
<1>5. CASE EnqueueStep
  <2>1. PICK P \in SUBSET Purposes, d \in Drafts, row \in Draft, attached \in BOOLEAN,
             v \in Visitors : Enqueue(P, d, row, attached, v) /\ UNCHANGED calls
    BY <1>5 DEF EnqueueStep
  <2>2. SameRows
    BY <2>1 DEF SameRows
  <2>3. CallsOf(j)' = CallsOf(j)
    BY <2>2, SameRowsSameCounts
  <2>4. QuietJob(j) \/ InsertedJob(j) \/ AttachedJob(j, P, d, row)
    BY <2>1, EnqueueMoves
  <2>5. CASE AttachedJob(j, P, d, row)
    <3>1. /\ jobs'[j].attempts = jobs[j].attempts /\ jobs'[j].retries = jobs[j].retries
          /\ jobs'[j].status = jobs[j].status
      BY <1>2, <2>5 DEF Job, AttachedJob
    <3> QED BY <1>1, <2>3, <3>1
  <2>6. CASE InsertedJob(j)
    BY <1>1, <2>3, <2>6 DEF InsertedJob
  <2> QED BY <1>3, <2>2, <2>4, <2>5, <2>6
<1>6. ASSUME NEW k \in JobId, NEW v \in Visitors, RetryModelJob(k, v)
      PROVE  /\ Cardinality(CallsOf(j)') <=
                    maxAttemptsBeforeManualRetry * jobs'[j].retries + jobs'[j].attempts
             /\ jobs'[j].status = "absent" =>
                    jobs'[j].attempts = 0 /\ jobs'[j].retries = 0
  <2>1. UNCHANGED calls
    BY <1>6 DEF RetryModelJob
  <2>2. CallsOf(j)' = CallsOf(j)
    BY <2>1 DEF CallsOf, Billed
  <2>3. CASE k # j
    <3>1. jobs'[j] = jobs[j]
      BY <1>2, <1>6, <2>3 DEF RetryModelJob
    <3> QED BY <1>1, <2>2, <3>1
  <2>4. CASE k = j
    <3>1. /\ jobs'[j].status = "queued" /\ jobs'[j].attempts = 0
          /\ jobs'[j].retries = jobs[j].retries + 1
      BY <1>2, <1>6, <2>4 DEF RetryModelJob, Job
    <3> QED BY <1>1, <1>2, <2>2, <3>1 DEF maxAttemptsBeforeManualRetry
  <2> QED BY <2>3, <2>4
<1>7. ASSUME NEW w \in Workers, CommitReservation(w)
      PROVE  /\ Cardinality(CallsOf(j)') <=
                    maxAttemptsBeforeManualRetry * jobs'[j].retries + jobs'[j].attempts
             /\ jobs'[j].status = "absent" =>
                    jobs'[j].attempts = 0 /\ jobs'[j].retries = 0
  <2> DEFINE k == worker[w].job
  <2>1. k \in JobId /\ Owned(w)
    BY <1>7, CommitBills DEF IInv, PassIsSound, InTransaction
  <2>2. CASE j # k
    <3>1. jobs'[j] = jobs[j]
      BY <1>2, <1>7, <2>2 DEF CommitReservation
    <3>2. CallsOf(j)' = CallsOf(j)
      BY <1>7, <2>2, CommitBills
    <3> QED BY <1>1, <3>1, <3>2
  <2>3. CASE j = k /\ worker[w].verdict = "grant"
    <3>1. jobs'[j] = [jobs[j] EXCEPT !.attempts = jobs[j].attempts + 1, !.call = Len(calls) + 1]
      BY <1>2, <1>7, <2>3 DEF CommitReservation
    <3>2. /\ jobs'[j].attempts = jobs[j].attempts + 1 /\ jobs'[j].retries = jobs[j].retries
          /\ jobs'[j].status = "leased"
      BY <1>2, <2>1, <2>3, <3>1 DEF Job, Owned
    <3>3. CallsOf(j)' = CallsOf(j) \cup {Len(calls) + 1}
      BY <1>7, <2>3, CommitBills
    <3>4. /\ Cardinality(CallsOf(j)') \in Nat
          /\ Cardinality(CallsOf(j)') <= Cardinality(CallsOf(j)) + 1
      BY <1>2, <3>3, OneMore
    <3> QED BY <1>1, <1>2, <3>2, <3>4 DEF maxAttemptsBeforeManualRetry
  <2>4. CASE j = k /\ worker[w].verdict # "grant"
    <3>1. \E status \in {"failed", "capped"} :
              jobs'[j] = [Released(jobs[j], status) EXCEPT !.call = Len(calls) + 1]
      BY <1>2, <1>7, <2>4 DEF CommitReservation
    <3>2. /\ jobs'[j].attempts = jobs[j].attempts /\ jobs'[j].retries = jobs[j].retries
          /\ jobs'[j].status # "absent"
      BY <1>2, <3>1 DEF Job, Released
    <3>3. CallsOf(j)' = CallsOf(j)
      BY <1>7, <2>4, CommitBills
    <3> QED BY <1>1, <3>2, <3>3
  <2> QED BY <2>2, <2>3, <2>4
<1>8. ASSUME NEW w \in Workers, NEW cost \in UsableCosts, FinalizeSuccess(w, cost)
      PROVE  /\ Cardinality(CallsOf(j)') <=
                    maxAttemptsBeforeManualRetry * jobs'[j].retries + jobs'[j].attempts
             /\ jobs'[j].status = "absent" =>
                    jobs'[j].attempts = 0 /\ jobs'[j].retries = 0
  <2>1. worker[w].pc = "settling"
    BY <1>8 DEF FinalizeSuccess
  <2>2. \A u \in Workers : ~CommitReservation(u)
    <3> SUFFICES ASSUME NEW u \in Workers, CommitReservation(u) PROVE FALSE
      OBVIOUS
    <3>1. calls' = Append(calls, calls'[Len(calls) + 1]) /\ calls \in Seq(Call)
      BY CallType DEF CommitReservation, IInv, TypeOK
    <3>2. DOMAIN calls' = DOMAIN calls
      BY <1>8 DEF FinalizeSuccess
    <3> QED BY <3>1, <3>2
  <2>3. SameRows
    BY <2>2, RowsAreOnlySettled
  <2>4. CallsOf(j)' = CallsOf(j)
    BY <2>3, SameRowsSameCounts
  <2>5. /\ jobs'[j].attempts = jobs[j].attempts /\ jobs'[j].retries = jobs[j].retries
        /\ jobs'[j].status = "absent" => jobs[j].status = "absent"
    <3>1. \/ jobs'[j] = jobs[j]
          \/ \E status \in {"succeeded", "superseded"} : jobs'[j] = Released(jobs[j], status)
      BY <1>2, <1>8 DEF FinalizeSuccess
    <3> QED BY <1>2, <3>1 DEF Released, Job
  <2> QED BY <1>1, <2>4, <2>5
<1> QED BY <1>4, <1>5, <1>6, <1>7, <1>8, MovesOfJobs

------------------------------------------------------------------------------
(* Jobs, calls and assessments agree *)

\* A quiet job keeps its result, or its lack of one.
LEMMA QuietResult ==
    ASSUME IInv, ResultsAreCalls, SameRows, NEW j \in JobId, QuietJob(j)
    PROVE  SucceedsByItsCall(j)'
<1>1. /\ jobs[j].call \in 0 .. Len(calls) /\ Len(calls) \in Nat /\ DOMAIN calls = 1 .. Len(calls)
      /\ jobs[j].call # 0 => calls[jobs[j].call].job = j
      /\ SucceedsByItsCall(j) /\ jobs'[j].call = jobs[j].call
  BY DEF IInv, TypeOK, JobsWellFormed, ResultsAreCalls, QuietJob
<1>2. CASE jobs[j].call = 0
  BY <1>1, <1>2 DEF SucceedsByItsCall, QuietJob
<1>3. CASE jobs[j].call # 0
  <2> DEFINE c == jobs[j].call
  <2>1. c \in DOMAIN calls /\ calls[c].job = j
    BY <1>1, <1>3
  <2>2. /\ calls[c].status # "reserved" => calls'[c].status = calls[c].status
        /\ calls'[c].status = "succeeded" =>
               calls[c].status = "succeeded" \/ jobs'[j].status \in {"succeeded", "superseded"}
    BY <2>1 DEF SameRows
  <2>3. ASSUME jobs'[j].status = "succeeded"
        PROVE  calls'[c].status = "succeeded"
    BY <1>1, <1>3, <2>2, <2>3 DEF SucceedsByItsCall, QuietJob
  <2>4. ASSUME jobs'[j].status \in Undone \cup {"leased"}
        PROVE  calls'[c].status # "succeeded"
    BY <1>1, <1>3, <2>2, <2>4 DEF SucceedsByItsCall, QuietJob, Undone
  <2> HIDE DEF c
  <2>5. jobs'[j].call = c
    BY <1>1 DEF c
  <2> QED BY <1>3, <2>3, <2>4, <2>5 DEF SucceedsByItsCall, c
<1> QED BY <1>2, <1>3

\* The assessments already written keep agreeing with the ledger.
LEMMA WrittenAssessmentsAgree ==
    ASSUME IInv, ResultsAreCalls, [Next]_vars, NEW a \in assessments
    PROVE  AgreesWithItsCall(a)'
<1>1. /\ AgreesWithItsCall(a) /\ a.call \in Nat
      /\ Len(calls) \in Nat /\ DOMAIN calls = 1 .. Len(calls) /\ calls \in Seq(Call)
  BY DEF IInv, TypeOK, ResultsAreCalls, Assessment
<1>2. ASSUME Len(calls') \in Nat, Len(calls') >= Len(calls),
             \A i \in DOMAIN calls : /\ calls'[i].job = calls[i].job
                                     /\ calls[i].status # "reserved" =>
                                            calls'[i].status = calls[i].status
      PROVE  AgreesWithItsCall(a)'
  <2>1. a.call <= Len(calls')
    BY <1>1, <1>2 DEF AgreesWithItsCall
  <2>2. CASE a.call = 0
    BY <2>1, <2>2 DEF AgreesWithItsCall
  <2>3. CASE a.call # 0
    <3>1. a.call \in DOMAIN calls
      BY <1>1, <2>3 DEF AgreesWithItsCall
    <3>2. calls'[a.call].job = a.job /\ calls'[a.call].status = calls[a.call].status
      BY <1>1, <1>2, <2>3, <3>1 DEF AgreesWithItsCall
    <3> QED BY <1>1, <2>1, <2>3, <3>2 DEF AgreesWithItsCall
  <2> QED BY <2>2, <2>3
<1>3. CASE SameRows
  <2>1. calls' \in Seq(Call)
    BY NextInv DEF IInv, TypeOK
  <2>2. Len(calls') = Len(calls)
    BY <1>1, <1>3, <2>1 DEF SameRows
  <2> QED BY <1>1, <1>2, <1>3, <2>2 DEF SameRows
<1>4. ASSUME NEW w \in Workers, CommitReservation(w)
      PROVE  AgreesWithItsCall(a)'
  <2>1. PICK row : calls' = Append(calls, row)
    BY <1>4 DEF CommitReservation
  <2>2. Len(calls') = Len(calls) + 1 /\ \A i \in DOMAIN calls : calls'[i] = calls[i]
    BY <1>1, <2>1
  <2> QED BY <1>1, <1>2, <2>2
<1> QED BY <1>3, <1>4, RowsAreOnlySettled

\* Where new assessments come from.
LEMMA AssessmentsAreWritten ==
    ASSUME IInv, [Next]_vars, NEW a \in assessments', a \notin assessments
    PROVE  \/ EnqueueStep
           \/ \E w \in Workers : FailExhausted(w)
           \/ \E w \in Workers, cost \in UsableCosts :
                  SettleFailure(w, cost) \/ FinalizeSuccess(w, cost)
<1> SUFFICES ASSUME assessments' # assessments, ~EnqueueStep
             PROVE  \/ \E w \in Workers : FailExhausted(w)
                    \/ \E w \in Workers, cost \in UsableCosts :
                           SettleFailure(w, cost) \/ FinalizeSuccess(w, cost)
  OBVIOUS
<1>1. ~UserStep
  BY EnqueuesAreSteps DEF UserStep, EditDraft, ReadBeforeResult, AskClarification, CompleteFirstReview,
     RetryModelJob, ChangeCatalog, ResetFixtureState
<1>2. \A w \in Workers, j \in JobId : ~ClaimJob(w, j)
  BY DEF ClaimJob
<1>3. \A w \in Workers :
          ~(\/ PreDispatch(w) \/ SettleStale(w) \/ LockForReservation(w) \/ ReadUsage(w)
            \/ CommitReservation(w) \/ JudgeResult(w) \/ Crash(w)
            \/ \E cost \in UsableCosts : SettleLate(w, cost))
  BY DEF PreDispatch, SettleStale, LockForReservation, ReadUsage, CommitReservation,
         JudgeResult, Crash, SettleLate
<1>4. ~(NextDay \/ UNCHANGED vars \/ \E j \in JobId : ExpireAbandonedLease(j) \/ ExpireLiveLease(j))
  BY DEF NextDay, vars, ExpireAbandonedLease, ExpireLiveLease
<1> QED BY <1>1, <1>2, <1>3, <1>4 DEF Next, WorkerStep

\* A stored result that answers for the new revision too is a call that succeeded.
LEMMA ReusedAssessmentsAgree ==
    ASSUME IInv, ResultsAreCalls, NEW P \in SUBSET Purposes, NEW d \in Drafts, NEW row \in Draft,
           NEW attached \in BOOLEAN, NEW v \in Visitors,
           Enqueue(P, d, row, attached, v), UNCHANGED calls,
           NEW a \in assessments', a \notin assessments
    PROVE  AgreesWithItsCall(a)'
<1>1. PICK p \in P : a \in Reused(Identity(p, d, row, attached), row, attached)
  BY EnqueueCopies
<1> DEFINE id == Identity(p, d, row, attached)
<1>2. id \in JobId
  BY DEF Enqueue
<1> HIDE DEF id
<1>3. /\ a = [job |-> id, revision |-> row.revision, call |-> jobs[id].call,
              outcome |-> "succeeded"]
      /\ jobs[id].status = "succeeded"
  BY <1>1 DEF Reused, id
<1>4. /\ jobs[id].call <= Len(calls) /\ jobs[id].call # 0
      /\ calls[jobs[id].call].job = id /\ calls[jobs[id].call].status = "succeeded"
  <2>1. Len(calls) \in Nat
    BY DEF IInv, TypeOK
  <2> QED BY <1>2, <1>3, <2>1 DEF IInv, JobsWellFormed, ResultsAreCalls, SucceedsByItsCall
<1> QED BY <1>3, <1>4 DEF AgreesWithItsCall

\* A new assessment names the call the job had, with the outcome the ledger gets.
LEMMA NewAssessmentsAgree ==
    ASSUME IInv, ResultsAreCalls, [Next]_vars, NEW a \in assessments', a \notin assessments
    PROVE  AgreesWithItsCall(a)'
<1>1. /\ Len(calls) \in Nat /\ DOMAIN calls = 1 .. Len(calls) /\ calls \in Seq(Call)
      /\ jobs \in [JobId -> Job]
  BY DEF IInv, TypeOK
<1>2. CASE EnqueueStep
  <2>1. PICK P \in SUBSET Purposes, d \in Drafts, row \in Draft, attached \in BOOLEAN,
             v \in Visitors : Enqueue(P, d, row, attached, v) /\ UNCHANGED calls
    BY <1>2 DEF EnqueueStep
  <2> QED BY <2>1, ReusedAssessmentsAgree
<1>3. ASSUME NEW w \in Workers, FailExhausted(w)
      PROVE  AgreesWithItsCall(a)'
  <2> DEFINE j == worker[w].job
  <2>1. /\ Owned(w) /\ worker[w].pc = "gated" /\ UNCHANGED calls
        /\ a \in FailedAssessment(j, jobs[j].call)
    BY <1>3 DEF FailExhausted
  <2>2. a.job = j /\ a.call = jobs[j].call /\ a.outcome = "failed"
    BY <2>1 DEF FailedAssessment
  <2>3. j \in JobId /\ jobs[j].status = "leased"
    BY <2>1 DEF IInv, PassIsSound, Owned
  <2>4. /\ jobs[j].call \in 0 .. Len(calls)
        /\ jobs[j].call # 0 => /\ calls[jobs[j].call].job = j
                               /\ calls[jobs[j].call].status # "succeeded"
    BY <2>3 DEF IInv, JobsWellFormed, ResultsAreCalls, SucceedsByItsCall
  <2>5. jobs[j].call # 0 => calls[jobs[j].call].status # "reserved"
    <3>1. \A i \in DOMAIN calls : i = jobs[j].call => calls[i].status # "reserved"
      BY <2>1 DEF IInv, PassIsSound
    <3> QED BY <1>1, <2>4, <3>1
  <2> HIDE DEF j
  <2> QED BY <1>1, <2>1, <2>2, <2>4, <2>5 DEF AgreesWithItsCall
<1>4. ASSUME NEW w \in Workers, NEW cost \in UsableCosts,
             SettleFailure(w, cost) \/ FinalizeSuccess(w, cost)
      PROVE  AgreesWithItsCall(a)'
  <2> DEFINE j == worker[w].job
             c == worker[w].call
             status == IF a.outcome = "failed" THEN "failed" ELSE "succeeded"
  <2>1. worker[w].pc \in {"calling", "settling"} /\ Owned(w)
    BY <1>4 DEF SettleFailure, FinalizeSuccess, CanSettle, IInv, PassIsSound, InTransaction
  <2>2. /\ c \in DOMAIN calls /\ calls[c] \in Call /\ calls[c].job = j
    BY <2>1, CallingFacts DEF IInv, JobsWellFormed
  <2>3. /\ a.job = j /\ a.call = c /\ a.outcome \in {"failed", "succeeded"}
        /\ calls' = [calls EXCEPT ![c].status = status, ![c].actual = cost]
    BY <1>4 DEF SettleFailure, FinalizeSuccess, FailedAssessment
  <2> HIDE DEF j, c
  <2>4. calls'[c] = [calls[c] EXCEPT !.status = status, !.actual = cost]
    BY <2>2, <2>3
  <2>5. calls'[c].job = j /\ calls'[c].status = status
    BY <2>2, <2>4 DEF Call
  <2>6. c <= Len(calls')
    <3>1. calls' \in Seq(Call)
      BY NextInv DEF IInv, TypeOK
    <3>2. DOMAIN calls' = DOMAIN calls
      BY <2>3
    <3> QED BY <1>1, <2>2, <3>1, <3>2
  <2> QED BY <2>3, <2>5, <2>6 DEF AgreesWithItsCall
<1> QED BY <1>2, <1>3, <1>4, AssessmentsAreWritten

\* Results and calls agree after every step.
LEMMA ResultsStayCalls ==
    ASSUME IInv, ResultsAreCalls, [Next]_vars
    PROVE  ResultsAreCalls'
<1>1. \A a \in assessments' : AgreesWithItsCall(a)'
  BY WrittenAssessmentsAgree, NewAssessmentsAgree
<1>2. ASSUME NEW j \in JobId
      PROVE  SucceedsByItsCall(j)'
  <2>1. /\ jobs \in [JobId -> Job] /\ jobs[j] \in Job /\ SucceedsByItsCall(j)
        /\ Len(calls) \in Nat /\ DOMAIN calls = 1 .. Len(calls) /\ calls \in Seq(Call)
        /\ jobs[j].call \in 0 .. Len(calls)
    BY DEF IInv, TypeOK, ResultsAreCalls, JobsWellFormed
  <2>2. CASE SameRows /\ \A k \in JobId : QuietJob(k)
    BY <2>2, QuietResult
  <2>3. ASSUME UNCHANGED calls, jobs'[j].status = "queued",
               jobs'[j].call = 0 \/ (jobs'[j].call = jobs[j].call /\ jobs[j].status \in Undone)
        PROVE  SucceedsByItsCall(j)'
    BY <2>1, <2>3 DEF SucceedsByItsCall, Undone
  <2>4. ASSUME UNCHANGED calls, jobs'[j].status = jobs[j].status, jobs'[j].call = jobs[j].call
        PROVE  SucceedsByItsCall(j)'
    BY <2>1, <2>4 DEF SucceedsByItsCall
  <2>5. CASE EnqueueStep
    <3>1. PICK P \in SUBSET Purposes, d \in Drafts, row \in Draft, attached \in BOOLEAN,
               v \in Visitors : Enqueue(P, d, row, attached, v) /\ UNCHANGED calls
      BY <2>5 DEF EnqueueStep
    <3>2. QuietJob(j) \/ InsertedJob(j) \/ AttachedJob(j, P, d, row)
      BY <3>1, EnqueueMoves
    <3>3. SameRows
      BY <3>1 DEF SameRows
    <3>4. CASE QuietJob(j)
      BY <3>3, <3>4, QuietResult
    <3>5. CASE InsertedJob(j)
      BY <2>3, <3>1, <3>5 DEF InsertedJob
    <3>6. CASE AttachedJob(j, P, d, row)
      <4>1. jobs'[j].status = jobs[j].status /\ jobs'[j].call = jobs[j].call
        BY <2>1, <3>6 DEF AttachedJob, Job
      <4> QED BY <2>4, <3>1, <4>1
    <3> QED BY <3>2, <3>4, <3>5, <3>6
  <2>6. ASSUME NEW k \in JobId, NEW v \in Visitors, RetryModelJob(k, v)
        PROVE  SucceedsByItsCall(j)'
    <3>1. UNCHANGED calls
      BY <2>6 DEF RetryModelJob
    <3>2. CASE k # j
      <4>1. jobs'[j] = jobs[j]
        BY <2>1, <2>6, <3>2 DEF RetryModelJob
      <4> QED BY <2>4, <3>1, <4>1
    <3>3. CASE k = j
      <4>1. /\ jobs'[j].status = "queued" /\ jobs'[j].call = jobs[j].call
            /\ jobs[j].status \in Undone
        BY <2>1, <2>6, <3>3 DEF RetryModelJob, Job, Undone
      <4> QED BY <2>3, <3>1, <4>1
    <3> QED BY <3>2, <3>3
  <2>7. ASSUME NEW w \in Workers, CommitReservation(w)
        PROVE  SucceedsByItsCall(j)'
    <3>1. PICK row : calls' = Append(calls, row) /\ row.status \in {"reserved", "denied"}
      BY <2>7 DEF CommitReservation
    <3>2. /\ calls'[Len(calls) + 1] = row
          /\ \A i \in DOMAIN calls : calls'[i] = calls[i]
      BY <2>1, <3>1
    <3>3. worker[w].job \in JobId
      BY <2>7, CommitBills
    <3>4. CASE worker[w].job # j
      <4>1. jobs'[j] = jobs[j]
        BY <2>1, <2>7, <3>4 DEF CommitReservation
      <4> QED BY <2>1, <3>2, <4>1 DEF SucceedsByItsCall
    <3>5. CASE worker[w].job = j
      <4>1. jobs[j].status = "leased"
        BY <2>7, <3>5, CommitBills DEF IInv, PassIsSound, InTransaction, Owned
      <4>2. \/ jobs'[j] = [jobs[j] EXCEPT !.attempts = jobs[j].attempts + 1, !.call = Len(calls) + 1]
            \/ \E status \in {"failed", "capped"} :
                   jobs'[j] = [Released(jobs[j], status) EXCEPT !.call = Len(calls) + 1]
        BY <2>1, <2>7, <3>5 DEF CommitReservation
      <4>3. jobs'[j].call = Len(calls) + 1 /\ jobs'[j].status # "succeeded"
        BY <2>1, <4>1, <4>2 DEF Released, Job
      <4> QED BY <3>1, <3>2, <4>3 DEF SucceedsByItsCall
    <3> QED BY <3>4, <3>5
  <2>8. ASSUME NEW w \in Workers, NEW cost \in UsableCosts, FinalizeSuccess(w, cost)
        PROVE  SucceedsByItsCall(j)'
    <3> DEFINE k == worker[w].job
               c == worker[w].call
    <3>1. worker[w].pc = "settling" /\ Owned(w)
      BY <2>8 DEF FinalizeSuccess, IInv, PassIsSound, InTransaction
    <3>2. /\ c \in DOMAIN calls /\ calls[c] \in Call /\ k \in JobId
          /\ jobs[k].call = c /\ calls[c].job = k
      BY <2>1, <3>1, CallingFacts DEF IInv, JobsWellFormed, PassIsSound
    <3>3. /\ calls' = [calls EXCEPT ![c] = [calls[c] EXCEPT !.status = "succeeded", !.actual = cost]]
          /\ \E status \in {"succeeded", "superseded"} :
                 jobs' = [jobs EXCEPT ![k] = Released(jobs[k], status)]
      BY <2>8 DEF FinalizeSuccess
    <3> HIDE DEF k, c
    <3>4. calls'[c].status = "succeeded" /\ \A i \in DOMAIN calls : i # c => calls'[i] = calls[i]
      BY <2>1, <3>2, <3>3 DEF Call
    <3>5. CASE j = k
      <4>1. jobs'[j].status \in {"succeeded", "superseded"} /\ jobs'[j].call = c
        BY <2>1, <3>2, <3>3, <3>5 DEF Released, Job
      <4> QED BY <2>1, <3>2, <3>4, <4>1 DEF SucceedsByItsCall, Undone
    <3>6. CASE j # k
      <4>1. jobs'[j] = jobs[j]
        BY <2>1, <3>3, <3>6
      <4>2. jobs[j].call # 0 => jobs[j].call \in DOMAIN calls /\ jobs[j].call # c
        BY <2>1, <3>2, <3>6 DEF IInv, JobsWellFormed
      <4> QED BY <2>1, <3>4, <4>1, <4>2 DEF SucceedsByItsCall
    <3> QED BY <3>5, <3>6
  <2> QED BY <2>2, <2>5, <2>6, <2>7, <2>8, MovesOfJobs
<1> QED BY <1>1, <1>2 DEF ResultsAreCalls

------------------------------------------------------------------------------
(* A result attached to a revision reaches it *)

\* No assessment is ever taken back.
LEMMA AssessmentsGrow ==
    ASSUME [Next]_vars
    PROVE  assessments \subseteq assessments'
<1>1. ASSUME NEW P, NEW d, NEW row, NEW attached, NEW v, Enqueue(P, d, row, attached, v)
      PROVE  assessments \subseteq assessments'
  BY <1>1, EnqueueCopies
<1>2. CASE UserStep
  BY <1>1, <1>2 DEF UserStep, EditDraft, ReadBeforeResult, AskClarification, CompleteFirstReview, Submit,
     AnswerClarification, EnqueueModelJob, RetryModelJob, ChangeCatalog, ResetFixtureState
<1>3. CASE \/ NextDay \/ UNCHANGED vars \/ \E w \in Workers, j \in JobId : ClaimJob(w, j)
           \/ \E j \in JobId : ExpireAbandonedLease(j) \/ ExpireLiveLease(j)
  BY <1>3 DEF NextDay, vars, ClaimJob, ExpireAbandonedLease, ExpireLiveLease
<1>4. ASSUME NEW w \in Workers, WorkerStep(w) \/ Crash(w)
      PROVE  assessments \subseteq assessments'
  <2>1. \/ assessments' = assessments \/ \E new : assessments' = assessments \cup new
    BY <1>4 DEF WorkerStep, PreDispatch, SettleStale, FailExhausted, LockForReservation,
       ReadUsage, CommitReservation, JudgeResult, SettleLate, SettleFailure, FinalizeSuccess, Crash
  <2> QED BY <2>1
<1> QED BY <1>2, <1>3, <1>4 DEF Next

\* The job has no missing result.
ReachedRevision(j) == ~ResultIsMissing(j)

\* An enqueue that attaches a request to a succeeded asset job copies its result, unless
\* an assessment of that call already names the revision: then it is that result.  An
\* enqueue that read the row too early does not see that there is one.
LEMMA AttachingReaches ==
    ASSUME IInv, ResultsAreCalls, NEW P \in SUBSET Purposes, NEW d \in Drafts,
           NEW row \in Draft, NEW v \in Visitors,
           Enqueue(P, d, row, TRUE, v), NEW j \in JobId, AttachedJob(j, P, d, row),
           ~(j \in readEarly \ readEarly')
    PROVE  ReachedRevision(j)'
<1>1. jobs[j] \in Job /\ jobs'[j] = [jobs[j] EXCEPT !.revision = row.revision]
  BY DEF IInv, TypeOK, AttachedJob
<1>2. /\ jobs'[j].status = jobs[j].status /\ jobs'[j].call = jobs[j].call
      /\ jobs'[j].revision = row.revision
  BY <1>1 DEF Job
<1> SUFFICES ASSUME j.purpose = "asset_match", jobs[j].status = "succeeded"
             PROVE  \E a \in assessments' : /\ a.job = j
                                            /\ a.revision = row.revision
                                            /\ a.call = jobs[j].call
                                            /\ a.outcome = "succeeded"
  BY <1>2 DEF ReachedRevision, ResultIsMissing
<1>3. j = Identity(j.purpose, d, row, TRUE) /\ j.purpose \in P
  BY DEF AttachedJob
<1>4. /\ assessments \subseteq assessments'
      /\ Reused(j, row, TRUE) \subseteq assessments'
  <2>1. \A p \in P : \/ Identity(p, d, row, TRUE) \in readEarly \ readEarly'
                      \/ Reused(Identity(p, d, row, TRUE), row, TRUE) \subseteq assessments'
    BY EnqueueCopies
  <2>2. \/ Identity(j.purpose, d, row, TRUE) \in readEarly \ readEarly'
        \/ Reused(Identity(j.purpose, d, row, TRUE), row, TRUE) \subseteq assessments'
    BY <1>3, <2>1
  <2>3. assessments \subseteq assessments'
    BY EnqueueCopies
  <2> QED BY <1>3, <2>2, <2>3
<1>5. CASE \E a \in assessments : a.call = jobs[j].call /\ a.revision = row.revision
  <2>1. PICK a \in assessments : a.call = jobs[j].call /\ a.revision = row.revision
    BY <1>5
  <2>2. /\ jobs[j].call # 0 /\ calls[jobs[j].call].status = "succeeded"
        /\ calls[jobs[j].call].job = j
    BY DEF ResultsAreCalls, SucceedsByItsCall, IInv, JobsWellFormed
  <2>3. a.job = j /\ a.outcome # "failed"
    BY <2>1, <2>2 DEF ResultsAreCalls, AgreesWithItsCall
  <2>4. a.outcome = "succeeded"
    BY <2>3 DEF IInv, TypeOK, Assessment
  <2> QED BY <1>4, <2>1, <2>3, <2>4
<1>6. CASE ~(\E a \in assessments : a.call = jobs[j].call /\ a.revision = row.revision)
  <2> DEFINE copy == [job |-> j, revision |-> row.revision, call |-> jobs[j].call,
                      outcome |-> "succeeded"]
  <2>1. copy \in Reused(j, row, TRUE)
    BY <1>6 DEF Reused
  <2>2. copy \in assessments'
    BY <1>4, <2>1
  <2> QED BY <2>2
<1> QED BY <1>5, <1>6

\* Attached results stay where they are and new ones arrive with their job, but for an
\* enqueue that attaches a succeeded job it read before it succeeded.
LEMMA AttachedStays ==
    ASSUME IInv, ResultsAreCalls, [Next]_vars, NEW j \in JobId, ReachedRevision(j),
           ~(/\ j \in readEarly \ readEarly' /\ jobs[j].revision = 0
             /\ jobs[j].status = "succeeded")
    PROVE  ReachedRevision(j)'
<1>1. /\ ReachedRevision(j) /\ jobs \in [JobId -> Job] /\ jobs[j] \in Job
      /\ assessments \subseteq assessments'
  BY AssessmentsGrow DEF IInv, TypeOK
<1>2. ASSUME jobs'[j].status = "succeeded" => jobs[j].status = "succeeded",
             jobs'[j].call = jobs[j].call, jobs'[j].revision = jobs[j].revision
      PROVE  ReachedRevision(j)'
  BY <1>1, <1>2 DEF ReachedRevision, ResultIsMissing
<1>3. ASSUME jobs'[j].status # "succeeded"
      PROVE  ReachedRevision(j)'
  BY <1>3 DEF ReachedRevision, ResultIsMissing
<1>4. CASE QuietJob(j)
  BY <1>2, <1>4 DEF QuietJob
<1>5. CASE EnqueueStep
  <2>1. PICK P \in SUBSET Purposes, d \in Drafts, row \in Draft, attached \in BOOLEAN,
             v \in Visitors : Enqueue(P, d, row, attached, v)
    BY <1>5 DEF EnqueueStep
  <2>2. QuietJob(j) \/ InsertedJob(j) \/ (attached /\ AttachedJob(j, P, d, row))
    BY <2>1, EnqueueMoves
  <2>3. CASE InsertedJob(j)
    BY <1>3, <2>3 DEF InsertedJob
  <2>4. CASE attached /\ AttachedJob(j, P, d, row)
    <3>1. attached = TRUE /\ jobs[j].revision = 0 /\ jobs'[j].status = jobs[j].status
      BY <1>1, <2>4 DEF AttachedJob, Job
    <3> QED BY <1>3, <2>1, <2>4, <3>1, AttachingReaches
  <2> QED BY <1>4, <2>2, <2>3, <2>4
<1>6. ASSUME NEW k \in JobId, NEW v \in Visitors, RetryModelJob(k, v)
      PROVE  ReachedRevision(j)'
  <2>1. \/ jobs'[j] = jobs[j]
        \/ jobs'[j].status = "queued"
    BY <1>1, <1>6 DEF RetryModelJob, Job
  <2> QED BY <1>2, <1>3, <2>1
<1>7. ASSUME NEW w \in Workers, CommitReservation(w)
      PROVE  ReachedRevision(j)'
  <2>1. worker[w].job \in JobId /\ jobs[worker[w].job].status = "leased"
    BY <1>7, CommitBills DEF IInv, PassIsSound, InTransaction, Owned
  <2>2. CASE worker[w].job # j
    <3>1. jobs'[j] = jobs[j]
      BY <1>1, <1>7, <2>2 DEF CommitReservation
    <3> QED BY <1>2, <3>1
  <2>3. CASE worker[w].job = j
    <3>1. \/ jobs'[j] = [jobs[j] EXCEPT !.attempts = jobs[j].attempts + 1, !.call = Len(calls) + 1]
          \/ \E status \in {"failed", "capped"} :
                 jobs'[j] = [Released(jobs[j], status) EXCEPT !.call = Len(calls) + 1]
      BY <1>1, <1>7, <2>3 DEF CommitReservation
    <3>2. jobs'[j].status # "succeeded"
      BY <1>1, <2>1, <2>3, <3>1 DEF Released, Job
    <3> QED BY <1>3, <3>2
  <2> QED BY <2>2, <2>3
<1>8. ASSUME NEW w \in Workers, NEW cost \in UsableCosts, FinalizeSuccess(w, cost)
      PROVE  ReachedRevision(j)'
  <2> DEFINE k == worker[w].job
             result == [job |-> k, revision |-> jobs[k].revision, call |-> worker[w].call,
                        outcome |-> "succeeded"]
  <2>1. worker[w].pc = "settling" /\ Owned(w)
    BY <1>8 DEF FinalizeSuccess, IInv, PassIsSound, InTransaction
  <2>2. k \in JobId /\ jobs[k].call = worker[w].call
    BY <2>1, CallingFacts
  <2>3. CASE k # j
    <3>1. jobs'[j] = jobs[j]
      BY <1>1, <1>8, <2>3 DEF FinalizeSuccess
    <3> QED BY <1>2, <3>1
  <2>4. CASE k = j /\ worker[w].verdict # "current"
    <3>1. jobs'[j] = Released(jobs[j], "superseded")
      BY <1>1, <1>8, <2>4 DEF FinalizeSuccess
    <3>2. jobs'[j].status = "superseded"
      BY <1>1, <3>1 DEF Released, Job
    <3> QED BY <1>3, <3>2
  <2>5. CASE k = j /\ worker[w].verdict = "current"
    <3>1. jobs'[j] = Released(jobs[j], "succeeded") /\ result \in assessments'
      BY <1>1, <1>8, <2>5 DEF FinalizeSuccess
    <3>2. jobs'[j].call = jobs[j].call /\ jobs'[j].revision = jobs[j].revision
      BY <1>1, <3>1 DEF Released, Job
    <3>3. /\ result.job = j /\ result.revision = jobs'[j].revision
          /\ result.call = jobs'[j].call /\ result.outcome = "succeeded"
      BY <2>2, <2>5, <3>2
    <3> HIDE DEF result
    <3> QED BY <3>1, <3>3 DEF ReachedRevision, ResultIsMissing
  <2> QED BY <2>3, <2>4, <2>5
<1> QED BY <1>4, <1>5, <1>6, <1>7, <1>8, MovesOfJobs

------------------------------------------------------------------------------
(* A judgment of freshness stands until its commit *)

\* While a transaction holds the request lock nobody changes the request.
LEMMA LockedRequestStays ==
    ASSUME IInv, [Next]_vars, NEW d \in Drafts, drafts[d].revision # 0, ~RequestUnlocked(d)
    PROVE  drafts'[d] = drafts[d]
<1>1. drafts \in [Drafts -> Draft]
  BY DEF IInv, TypeOK
<1>2. CASE EnqueueStep
  <2>1. PICK e \in Drafts, row \in Draft :
               /\ drafts' = [drafts EXCEPT ![e] = row]
               /\ row = drafts[e] \/ (drafts[e].revision # 0 => RequestUnlocked(e))
    BY <1>2 DEF EnqueueStep
  <2> QED BY <1>1, <2>1
<1>3. CASE UserStep
  <2>1. ASSUME NEW e \in Drafts,
               EditDraft(e) \/ AskClarification(e) \/ CompleteFirstReview(e)
        PROVE  drafts'[d] = drafts[d]
    <3>1. e # d
      BY <2>1 DEF EditDraft, AskClarification, CompleteFirstReview
    <3> QED BY <1>1, <2>1, <3>1 DEF EditDraft, AskClarification, CompleteFirstReview
  <2>2. CASE ResetFixtureState
    <3>1. d \notin FixtureDrafts
      BY <2>2 DEF ResetFixtureState
    <3> QED BY <2>2, <3>1 DEF ResetFixtureState
  <2>3. CASE \/ ChangeCatalog \/ \E j \in JobId, v \in Visitors : RetryModelJob(j, v)
             \/ \E e \in Drafts : ReadBeforeResult(e)
    BY <2>3 DEF ChangeCatalog, RetryModelJob, ReadBeforeResult
  <2> QED BY <1>2, <1>3, <2>1, <2>2, <2>3, EnqueuesAreSteps DEF UserStep
<1>4. CASE \/ NextDay \/ UNCHANGED vars \/ \E w \in Workers, j \in JobId : ClaimJob(w, j)
           \/ \E j \in JobId : ExpireAbandonedLease(j) \/ ExpireLiveLease(j)
  BY <1>4 DEF NextDay, vars, ClaimJob, ExpireAbandonedLease, ExpireLiveLease
<1>5. ASSUME NEW w \in Workers, WorkerStep(w) \/ Crash(w)
      PROVE  drafts' = drafts
  BY <1>5 DEF WorkerStep, PreDispatch, SettleStale, FailExhausted, LockForReservation,
     ReadUsage, CommitReservation, JudgeResult, SettleLate, SettleFailure, FinalizeSuccess, Crash
<1> QED BY <1>3, <1>4, <1>5 DEF Next

\* While a transaction holds the job nobody attaches a request to it or retries it.
LEMMA LockedJobKeepsOrigin ==
    ASSUME IInv, [Next]_vars, NEW w \in Workers, InTransaction(w)
    PROVE  /\ jobs'[worker[w].job].revision = jobs[worker[w].job].revision
           /\ jobs'[worker[w].job].visitor = jobs[worker[w].job].visitor
<1> DEFINE j == worker[w].job
<1>1. /\ jobs \in [JobId -> Job] /\ j \in JobId /\ jobs[j] \in Job
      /\ jobs[j].status = "leased" /\ ~JobUnlocked(j)
  BY DEF IInv, TypeOK, PassIsSound, InTransaction, Owned, JobUnlocked
<1> HIDE DEF j
<1> SUFFICES jobs'[j].revision = jobs[j].revision /\ jobs'[j].visitor = jobs[j].visitor
  BY DEF j
<1>2. CASE \A k \in JobId : QuietJob(k)
  BY <1>1, <1>2 DEF QuietJob
<1>3. CASE EnqueueStep
  <2>1. PICK P \in SUBSET Purposes, d \in Drafts, row \in Draft, attached \in BOOLEAN,
             v \in Visitors : Enqueue(P, d, row, attached, v)
    BY <1>3 DEF EnqueueStep
  <2>2. QuietJob(j) \/ InsertedJob(j) \/ AttachedJob(j, P, d, row)
    BY <1>1, <2>1, EnqueueMoves
  <2> QED BY <1>1, <2>2 DEF QuietJob, InsertedJob, AttachedJob
<1>4. ASSUME NEW k \in JobId, NEW v \in Visitors, RetryModelJob(k, v)
      PROVE  jobs'[j].revision = jobs[j].revision /\ jobs'[j].visitor = jobs[j].visitor
  BY <1>1, <1>4 DEF RetryModelJob, Job
<1>5. ASSUME NEW u \in Workers, CommitReservation(u)
      PROVE  jobs'[j].revision = jobs[j].revision /\ jobs'[j].visitor = jobs[j].visitor
  <2>1. \/ jobs'[j] = jobs[j]
        \/ jobs'[j] = [jobs[j] EXCEPT !.attempts = jobs[j].attempts + 1, !.call = Len(calls) + 1]
        \/ \E status \in {"failed", "capped"} :
               jobs'[j] = [Released(jobs[j], status) EXCEPT !.call = Len(calls) + 1]
    BY <1>1, <1>5 DEF CommitReservation
  <2> QED BY <1>1, <2>1 DEF Released, Job
<1>6. ASSUME NEW u \in Workers, NEW cost \in UsableCosts, FinalizeSuccess(u, cost)
      PROVE  jobs'[j].revision = jobs[j].revision /\ jobs'[j].visitor = jobs[j].visitor
  <2>1. \/ jobs'[j] = jobs[j]
        \/ \E status \in {"succeeded", "superseded"} : jobs'[j] = Released(jobs[j], status)
    BY <1>1, <1>6 DEF FinalizeSuccess
  <2> QED BY <1>1, <2>1 DEF Released, Job
<1> QED BY <1>2, <1>3, <1>4, <1>5, <1>6, MovesOfJobs

\* No draft loses its request.
LEMMA RequestsStay ==
    ASSUME IInv, [Next]_vars, NEW d \in Drafts, drafts[d].revision # 0
    PROVE  drafts'[d].revision # 0
<1>1. drafts \in [Drafts -> Draft] /\ drafts[d].revision \in Nat
  BY BoundsAreNaturals DEF IInv, TypeOK, Draft
<1>2. CASE EnqueueStep
  <2>1. PICK e \in Drafts, row \in Draft :
               /\ drafts' = [drafts EXCEPT ![e] = row]
               /\ row = drafts[e] \/ row.revision = drafts[e].revision + 1
    BY <1>2 DEF EnqueueStep
  <2> QED BY <1>1, <2>1
<1>3. CASE UserStep
  <2>1. ASSUME NEW e \in Drafts,
               EditDraft(e) \/ AskClarification(e) \/ CompleteFirstReview(e)
        PROVE  drafts'[d].revision # 0
    <3>1. drafts[e] \in Draft /\ drafts[e].revision \in Nat /\ drafts[d] \in Draft
      BY <1>1, BoundsAreNaturals DEF Draft
    <3>2. CASE EditDraft(e)
      BY <1>1, <3>1, <3>2 DEF EditDraft
    <3>3. CASE AskClarification(e)
      <4>1. drafts' = [drafts EXCEPT ![e] = [drafts[e] EXCEPT !.revision = drafts[e].revision + 1]]
        BY <1>1, <3>3 DEF AskClarification
      <4>2. drafts'[e].revision = drafts[e].revision + 1
        BY <1>1, <3>1, <4>1 DEF Draft
      <4> QED BY <1>1, <3>1, <4>1, <4>2
    <3>4. CASE CompleteFirstReview(e)
      <4>1. drafts'[d].revision = drafts[d].revision
        BY <1>1, <3>1, <3>4 DEF CompleteFirstReview, Draft
      <4> QED BY <4>1
    <3> QED BY <2>1, <3>2, <3>3, <3>4
  <2>2. CASE ResetFixtureState
    <3>1. drafts[d] \in Draft
      BY <1>1
    <3>2. drafts'[d].revision \in {1, drafts[d].revision}
      <4>1. CASE d \in FixtureDrafts
        <5>1. PICK advanced \in SUBSET FixtureDrafts :
                drafts'[d] = [drafts[d] EXCEPT !.revision = 1, !.closed = FALSE,
                                !.generation = IF d \in advanced THEN @ + 1 ELSE @]
          BY <2>2, <4>1 DEF ResetFixtureState
        <5> QED BY <3>1, <5>1 DEF Draft
      <4>2. CASE d \notin FixtureDrafts
        BY <2>2, <4>2 DEF ResetFixtureState
      <4> QED BY <4>1, <4>2
    <3> QED BY <1>1, <3>2
  <2>3. CASE \/ ChangeCatalog \/ \E j \in JobId, v \in Visitors : RetryModelJob(j, v)
             \/ \E e \in Drafts : ReadBeforeResult(e)
    BY <2>3 DEF ChangeCatalog, RetryModelJob, ReadBeforeResult
  <2> QED BY <1>2, <1>3, <2>1, <2>2, <2>3, EnqueuesAreSteps DEF UserStep
<1>4. CASE \/ NextDay \/ UNCHANGED vars \/ \E w \in Workers, j \in JobId : ClaimJob(w, j)
           \/ \E j \in JobId : ExpireAbandonedLease(j) \/ ExpireLiveLease(j)
  BY <1>4 DEF NextDay, vars, ClaimJob, ExpireAbandonedLease, ExpireLiveLease
<1>5. ASSUME NEW w \in Workers, WorkerStep(w) \/ Crash(w)
      PROVE  drafts' = drafts
  BY <1>5 DEF WorkerStep, PreDispatch, SettleStale, FailExhausted, LockForReservation,
     ReadUsage, CommitReservation, JudgeResult, SettleLate, SettleFailure, FinalizeSuccess, Crash
<1> QED BY <1>3, <1>4, <1>5 DEF Next

\* A job that changes its request gets the one its draft has.
LEMMA AttachedStaySubmitted ==
    ASSUME IInv, AttachedAreSubmitted, [Next]_vars
    PROVE  AttachedAreSubmitted'
<1> SUFFICES ASSUME NEW j \in JobId, jobs'[j].revision # 0
             PROVE  drafts'[j.draft].revision # 0
  BY DEF AttachedAreSubmitted
<1>1. /\ jobs \in [JobId -> Job] /\ jobs[j] \in Job /\ j.draft \in Drafts
      /\ drafts \in [Drafts -> Draft]
  BY DEF IInv, TypeOK, JobId
<1>2. CASE jobs'[j].revision = jobs[j].revision
  BY <1>1, <1>2, RequestsStay DEF AttachedAreSubmitted
<1>3. CASE QuietJob(j)
  BY <1>2, <1>3 DEF QuietJob
<1>4. CASE EnqueueStep
  <2>1. PICK P \in SUBSET Purposes, d \in Drafts, row \in Draft, attached \in BOOLEAN,
             v \in Visitors : /\ Enqueue(P, d, row, attached, v)
                              /\ drafts' = [drafts EXCEPT ![d] = row]
                              /\ attached => row.revision # 0
    BY <1>4 DEF EnqueueStep
  <2>2. CASE j.draft = d /\ attached
    BY <1>1, <2>1, <2>2
  <2>3. CASE ~(j.draft = d /\ attached)
    <3>1. \/ jobs'[j] = jobs[j]
          \/ jobs'[j] = [jobs[j] EXCEPT !.status = "superseded"]
          \/ j.draft = d /\ jobs'[j] = QueuedJob(row, attached, v)
      BY <2>1, <2>3 DEF Enqueue, EnqueuedJob
    <3>2. attached = FALSE => QueuedJob(row, attached, v).revision = 0
      BY DEF QueuedJob, AbsentJob
    <3> QED BY <1>1, <1>2, <2>3, <3>1, <3>2 DEF Job
  <2> QED BY <2>2, <2>3
<1>5. ASSUME NEW k \in JobId, NEW v \in Visitors, RetryModelJob(k, v)
      PROVE  jobs'[j].revision = jobs[j].revision
  BY <1>1, <1>5 DEF RetryModelJob, Job
<1>6. ASSUME NEW w \in Workers, CommitReservation(w)
      PROVE  jobs'[j].revision = jobs[j].revision
  <2>1. \/ jobs'[j] = jobs[j]
        \/ jobs'[j] = [jobs[j] EXCEPT !.attempts = jobs[j].attempts + 1, !.call = Len(calls) + 1]
        \/ \E status \in {"failed", "capped"} :
               jobs'[j] = [Released(jobs[j], status) EXCEPT !.call = Len(calls) + 1]
    BY <1>1, <1>6 DEF CommitReservation
  <2> QED BY <1>1, <2>1 DEF Released, Job
<1>7. ASSUME NEW w \in Workers, NEW cost \in UsableCosts, FinalizeSuccess(w, cost)
      PROVE  jobs'[j].revision = jobs[j].revision
  <2>1. \/ jobs'[j] = jobs[j]
        \/ \E status \in {"succeeded", "superseded"} : jobs'[j] = Released(jobs[j], status)
    BY <1>1, <1>7 DEF FinalizeSuccess
  <2> QED BY <1>1, <2>1 DEF Released, Job
<1> QED BY <1>2, <1>3, <1>4, <1>5, <1>6, <1>7, MovesOfJobs

\* How a worker comes to be in one of the three transactions.
LEMMA TransactionsBegin ==
    ASSUME IInv, [Next]_vars, NEW w \in Workers
    PROVE  \/ worker'[w] = worker[w]
           \/ worker'[w].pc \notin {"locking", "deciding", "settling"}
           \/ LockForReservation(w) \/ ReadUsage(w) \/ JudgeResult(w)
<1>1. worker \in [Workers -> WorkerState] /\ worker[w] \in WorkerState
  BY DEF IInv, TypeOK
<1>2. Idle.pc = "idle"
  BY DEF Idle
<1> SUFFICES ASSUME worker'[w] # worker[w],
                    ~LockForReservation(w), ~ReadUsage(w), ~JudgeResult(w)
             PROVE  worker'[w].pc \notin {"locking", "deciding", "settling"}
  OBVIOUS
<1>3. CASE UserStep \/ NextDay \/ UNCHANGED vars
           \/ \E j \in JobId : ExpireAbandonedLease(j) \/ ExpireLiveLease(j)
  <2>1. worker' = worker
    BY <1>3 DEF UserStep, EditDraft, ReadBeforeResult, AskClarification, CompleteFirstReview, Submit,
                AnswerClarification, EnqueueModelJob, RetryModelJob, ChangeCatalog,
                ResetFixtureState, NextDay, vars, ExpireAbandonedLease, ExpireLiveLease
  <2> QED BY <2>1
<1>4. ASSUME NEW u \in Workers, NEW j \in JobId, ClaimJob(u, j)
      PROVE  worker'[w].pc = "claimed"
  <2>1. /\ u = w
        /\ worker' = [worker EXCEPT ![u] = [Idle EXCEPT !.pc = "claimed", !.job = j,
                                                        !.revision = jobs[j].revision]]
    BY <1>1, <1>4 DEF ClaimJob
  <2> QED BY <1>1, <2>1 DEF Idle
<1>5. ASSUME NEW u \in Workers, WorkerStep(u) \/ Crash(u)
      PROVE  worker'[w].pc \notin {"locking", "deciding", "settling"}
  <2>1. CASE u # w
    <3>1. worker' = [worker EXCEPT ![u] = worker'[u]]
      BY <1>1, <1>5 DEF WorkerStep, PreDispatch, SettleStale, FailExhausted,
         LockForReservation, ReadUsage, CommitReservation, JudgeResult, SettleLate,
         SettleFailure, FinalizeSuccess, Crash
    <3> QED BY <1>1, <2>1, <3>1
  <2>2. CASE u = w
    <3>1. CASE PreDispatch(w)
      BY <1>1, <3>1 DEF PreDispatch, WorkerState
    <3>2. CASE CommitReservation(w)
      BY <1>1, <3>2 DEF CommitReservation, Idle
    <3>3. CASE SettleStale(w) \/ FailExhausted(w) \/ Crash(w)
      BY <1>1, <1>2, <3>3 DEF SettleStale, FailExhausted, Crash
    <3>4. ASSUME NEW cost \in UsableCosts,
                 SettleLate(w, cost) \/ SettleFailure(w, cost) \/ FinalizeSuccess(w, cost)
          PROVE  worker'[w] = Idle
      BY <1>1, <3>4 DEF SettleLate, SettleFailure, FinalizeSuccess
    <3> QED BY <1>2, <1>5, <2>2, <3>1, <3>2, <3>3, <3>4 DEF WorkerStep
  <2> QED BY <2>1, <2>2
<1> QED BY <1>3, <1>4, <1>5 DEF Next

\* The judgment of an open settlement survives every step: all that could take its ground
\* away wait for the request lock or the job lock.
LEMMA JudgmentStays ==
    ASSUME IInv, AttachedAreSubmitted, JudgmentStands, [Next]_vars
    PROVE  JudgmentStands'
<1> SUFFICES ASSUME NEW w \in Workers
             PROVE  JudgmentOf(w)'
  BY DEF JudgmentStands
<1> DEFINE j == worker[w].job
           r == jobs[j].revision
<1>1. /\ worker \in [Workers -> WorkerState] /\ worker[w] \in WorkerState
      /\ JudgmentOf(w) /\ PassIsSound(w)
  BY DEF IInv, TypeOK, JudgmentStands
<1>2. worker[w].pc # "idle" =>
          /\ j \in JobId /\ j.draft \in Drafts /\ r \in Nat /\ drafts[j.draft].revision \in Nat
          /\ r # 0 => drafts[j.draft].revision # 0
          /\ drafts[j.draft].revision > 0 <=> drafts[j.draft].revision # 0
  <2> SUFFICES ASSUME worker[w].pc # "idle"
               PROVE  /\ j \in JobId /\ j.draft \in Drafts /\ r \in Nat
                      /\ drafts[j.draft].revision \in Nat
                      /\ r # 0 => drafts[j.draft].revision # 0
                      /\ drafts[j.draft].revision > 0 <=> drafts[j.draft].revision # 0
    OBVIOUS
  <2>1. j \in JobId
    BY <1>1 DEF PassIsSound
  <2>2. j.draft \in Drafts
    BY <2>1 DEF JobId
  <2> HIDE DEF j
  <2> QED BY <2>1, <2>2, BoundsAreNaturals DEF IInv, TypeOK, Job, Draft, AttachedAreSubmitted
<1>3. ASSUME worker'[w] = worker[w], InTransaction(w)
      PROVE  JudgmentOf(w)'
  <2>1. worker[w].pc # "idle"
    BY <1>3 DEF InTransaction
  <2>2. jobs'[j].revision = r
    BY <1>3, LockedJobKeepsOrigin
  <2>3. worker[w].holdsRequest => drafts'[j.draft] = drafts[j.draft]
    <3>1. worker[w].holdsRequest => ~RequestUnlocked(j.draft)
      BY <1>3 DEF RequestUnlocked
    <3>2. worker[w].holdsRequest => drafts[j.draft].revision # 0
      BY <1>1, <1>3 DEF JudgmentOf
    <3> QED BY <1>2, <2>1, <3>1, <3>2, LockedRequestStays
  <2>4. ASSUME worker[w].holdsRequest
        PROVE  JudgmentOf(w)'
    BY <1>1, <1>3, <2>2, <2>3, <2>4 DEF JudgmentOf, InTransaction, ReviewClosed, Answers
  <2>5. ASSUME ~worker[w].holdsRequest
        PROVE  JudgmentOf(w)'
    BY <1>1, <1>3, <2>2, <2>5 DEF JudgmentOf, InTransaction
  <2> QED BY <2>4, <2>5
<1>4. CASE worker'[w] = worker[w]
  BY <1>3, <1>4 DEF InTransaction, JudgmentOf
<1>5. CASE worker'[w].pc \notin {"locking", "deciding", "settling"}
  BY <1>5 DEF JudgmentOf, InTransaction
<1>6. CASE LockForReservation(w)
  <2>1. \/ worker'[w] = Idle
        \/ /\ worker'[w] = [worker[w] EXCEPT !.pc = "locking", !.day = day,
                                              !.holdsRequest = drafts[j.draft].revision > 0]
           /\ ~ReviewClosed(j.draft) /\ Owned(w)
    BY <1>1, <1>6 DEF LockForReservation
  <2>2. CASE worker'[w] = Idle
    BY <1>5, <2>2 DEF Idle
  <2>3. CASE worker'[w] # Idle
    <3>1. /\ worker'[w].pc = "locking" /\ worker'[w].job = j
          /\ worker'[w].holdsRequest = (drafts[j.draft].revision > 0)
      BY <1>1, <2>1, <2>3 DEF WorkerState
    <3>2. UNCHANGED <<drafts, jobs>> /\ worker[w].pc = "fresh"
      BY <1>6, <2>1, <2>3 DEF LockForReservation
    <3>3. worker'[w].holdsRequest <=> drafts[j.draft].revision # 0
      BY <1>2, <3>1, <3>2
    <3> QED BY <1>2, <2>1, <2>3, <3>1, <3>2, <3>3, Zenon DEF JudgmentOf, InTransaction, ReviewClosed
  <2> QED BY <2>2, <2>3
<1>7. CASE ReadUsage(w)
  <2>1. /\ worker'[w].pc = "deciding" /\ worker'[w].job = j /\ UNCHANGED <<drafts, jobs>>
        /\ worker'[w].holdsRequest = worker[w].holdsRequest
        /\ worker[w].pc = "locking"
    BY <1>1, <1>7 DEF ReadUsage, WorkerState
  <2> QED BY <1>1, <2>1 DEF JudgmentOf, InTransaction, ReviewClosed
<1>8. CASE JudgeResult(w)
  <2>1. /\ worker'[w].pc = "settling" /\ worker'[w].job = j /\ UNCHANGED <<drafts, jobs>>
        /\ worker'[w].holdsRequest = (drafts[j.draft].revision > 0)
        /\ worker[w].pc = "calling"
        /\ worker'[w].verdict = "current" => Fresh(j, r) /\ ~ReviewClosed(j.draft)
    BY <1>1, <1>8 DEF JudgeResult, CanSettle, WorkerState
  <2>2. worker'[w].verdict = "current" /\ r # 0 => Answers(j, r, drafts[j.draft])
    BY <2>1 DEF Fresh
  <2>3. worker'[w].holdsRequest <=> drafts[j.draft].revision # 0
    BY <1>2, <2>1
  <2>4. jobs'[j].revision = r
    BY <2>1
  <2> HIDE DEF r
  <2> QED BY <1>2, <2>1, <2>2, <2>3, <2>4, Zenon DEF JudgmentOf, InTransaction, ReviewClosed, Answers
<1> QED BY <1>4, <1>5, <1>6, <1>7, <1>8, TransactionsBegin

------------------------------------------------------------------------------
(* The theorems *)

LEMMA FullInit == Init => FullInvJ
<1> SUFFICES ASSUME Init
             PROVE  FullInvJ
  OBVIOUS
<1>1. IInv
  BY InitInv
<1>2. Billed = {} /\ calls = <<>> /\ assessments = {}
  BY DEF Init, Billed
<1>3. Cardinality({}) = 0
  BY FS_EmptySet
<1>4. /\ \A j \in JobId : CallsOf(j) = {}
      /\ \A d \in Drafts : IntakeCalls(d) = {}
  BY <1>2 DEF CallsOf, IntakeCalls
<1>5. \A w \in Workers : worker[w].pc = "idle"
  BY DEF Init, Idle
<1>6. \A j \in JobId : /\ jobs[j].status = "absent" /\ jobs[j].attempts = 0
                       /\ jobs[j].retries = 0 /\ jobs[j].revision = 0
  BY DEF Init, AbsentJob
<1>7. UsageIsCurrent /\ JudgmentStands
  BY <1>5 DEF UsageIsCurrent, JudgmentStands, JudgmentOf, InTransaction
<1>8. AttemptsAreCounted /\ IntakeBudgetHolds
  <2>1. AttemptsAreCounted
    <3>1. \A j \in JobId : Cardinality(CallsOf(j)) = 0
      BY <1>3, <1>4
    <3> QED BY <1>6, <3>1 DEF AttemptsAreCounted, maxAttemptsBeforeManualRetry
  <2>2. IntakeBudgetHolds
    <3>1. \A d \in Drafts : Cardinality(IntakeCalls(d)) = 0
      BY <1>3, <1>4
    <3> QED BY <3>1 DEF IntakeBudgetHolds, intakeAttemptBudget
  <2> QED BY <2>1, <2>2
<1>9. ResultsAreCalls /\ AttachedAreSubmitted
  BY <1>2, <1>6 DEF ResultsAreCalls, SucceedsByItsCall, Undone, AttachedAreSubmitted
<1> QED BY <1>1, <1>7, <1>8, <1>9 DEF FullInv, FullInvJ

LEMMA FullNext == FullInvJ /\ [Next]_vars => FullInvJ'
BY NextInv, UsageStaysCurrent, AttemptsStayCounted, ResultsStayCalls, BudgetStaysWithin,
   AttachedStaySubmitted, JudgmentStays DEF FullInv, FullInvJ

\* The budgets, the counts, the results and the judgments hold together in every
\* reachable state.
THEOREM FullInvariant == Spec => []FullInvJ
BY FullInit, FullNext, PTL DEF Spec

\* No draft ever buys a third intake attempt (worker.ts, reserveDispatch), whatever the
\* number of workers, retries, contents and crashes: the count read under the spend lock
\* is still the count when the reservation commits.
THEOREM IntakeBudgetAlwaysHolds == Spec => []IntakeBudgetHolds
BY FullInvariant, PTL DEF FullInvJ, FullInv

\* A job is billed at most twice per manual mandate: attempt_count never lags what the
\* ledger billed since the last retry, and no pass dispatches with the attempts spent.
THEOREM AtMostOneRetryEver == Spec => []AtMostOneAutomaticRetry
<1>1. IInv /\ AttemptsAreCounted => AtMostOneAutomaticRetry
  <2> SUFFICES ASSUME IInv, AttemptsAreCounted, NEW j \in JobId
               PROVE  Cardinality(CallsOf(j)) <=
                          maxAttemptsBeforeManualRetry * (1 + jobs[j].retries)
    BY DEF AtMostOneAutomaticRetry, CallsOf
  <2>1. jobs[j].attempts \in 0 .. 2 /\ jobs[j].retries \in Nat
    BY BoundsAreNaturals DEF IInv, TypeOK, Job, maxAttemptsBeforeManualRetry
  <2>2. Cardinality(CallsOf(j)) \in Nat
    BY CountsAreFinite DEF IInv
  <2> QED BY <2>1, <2>2 DEF AttemptsAreCounted, maxAttemptsBeforeManualRetry
<1>2. FullInvJ => AtMostOneAutomaticRetry
  BY <1>1 DEF FullInvJ, FullInv
<1> QED BY <1>2, FullInvariant, PTL

\* A revision is left without the result of its asset job by one step only: an enqueue
\* that read the job before it succeeded and attaches it afterwards (jobs.ts:400-429).  A
\* settlement, a retry, a reset or an enqueue that reads the result never does it.
THEOREM ResultsAreLostOnlyToEarlyReads == Spec => ResultLostOnlyToEarlyRead
<1>1. ASSUME IInv, ResultsAreCalls, [Next]_vars, NEW j \in JobId,
             ~ResultIsMissing(j), ResultIsMissing(j)'
      PROVE  /\ j \in readEarly \ readEarly'
             /\ jobs[j].status = "succeeded"
             /\ jobs[j].revision = 0
  <2>1. ReachedRevision(j) /\ ~ReachedRevision(j)'
    BY <1>1 DEF ReachedRevision
  <2> QED BY <1>1, <2>1, AttachedStays
<1>2. FullInvJ /\ [Next]_vars =>
          [\A j \in JobId :
               ~ResultIsMissing(j) /\ ResultIsMissing(j)' =>
                   /\ j \in readEarly \ readEarly'
                   /\ jobs[j].status = "succeeded"
                   /\ jobs[j].revision = 0]_vars
  BY <1>1 DEF FullInvJ, FullInv
<1> QED BY <1>2, FullInvariant, PTL DEF Spec, ResultLostOnlyToEarlyRead

\* An answer reaches a submitted revision only while it is about that revision's content
\* and generation: the request lock keeps the judgment true until the commit.
THEOREM OnlyFreshResultsEver == Spec => OnlyFreshResultsMaterialize
<1>1. ASSUME IInv, JudgmentStands, [Next]_vars
      PROVE  \A a \in assessments' \ assessments :
                 a.outcome = "succeeded" /\ a.revision # 0 =>
                     LET row == drafts'[a.job.draft] IN
                     /\ a.revision = row.revision
                     /\ a.job.generation = row.generation
                     /\ a.job.input = EffectiveInput(a.job.draft, row, TRUE)
  <2> SUFFICES ASSUME NEW a \in assessments', a \notin assessments,
                      a.outcome = "succeeded", a.revision # 0
               PROVE  /\ a.revision = drafts'[a.job.draft].revision
                      /\ a.job.generation = drafts'[a.job.draft].generation
                      /\ a.job.input = EffectiveInput(a.job.draft, drafts'[a.job.draft], TRUE)
    OBVIOUS
  <2>1. CASE EnqueueStep
    <3>1. PICK P \in SUBSET Purposes, d \in Drafts, row \in Draft, attached \in BOOLEAN,
               v \in Visitors : /\ Enqueue(P, d, row, attached, v)
                                /\ drafts' = [drafts EXCEPT ![d] = row]
      BY <2>1 DEF EnqueueStep
    <3>2. PICK p \in P : a \in Reused(Identity(p, d, row, attached), row, attached)
      BY <3>1, EnqueueCopies
    <3>3. attached /\ a.job = Identity(p, d, row, attached) /\ a.revision = row.revision
      BY <3>2 DEF Reused
    <3>4. /\ a.job.draft = d /\ a.job.input = EffectiveInput(d, row, attached)
          /\ a.job.generation = EffectiveGeneration(row, attached)
      BY <3>3 DEF Identity
    <3>5. drafts'[d] = row /\ attached = TRUE
      BY <1>1, <3>1, <3>3 DEF IInv, TypeOK
    <3> QED BY <3>3, <3>4, <3>5 DEF EffectiveGeneration
  <2>2. ASSUME NEW w \in Workers, FailExhausted(w)
        PROVE  FALSE
    BY <2>2 DEF FailExhausted, FailedAssessment
  <2>3. ASSUME NEW w \in Workers, NEW cost \in UsableCosts, SettleFailure(w, cost)
        PROVE  FALSE
    BY <2>3 DEF SettleFailure, FailedAssessment
  <2>4. ASSUME NEW w \in Workers, NEW cost \in UsableCosts, FinalizeSuccess(w, cost)
        PROVE  /\ a.revision = drafts'[a.job.draft].revision
               /\ a.job.generation = drafts'[a.job.draft].generation
               /\ a.job.input = EffectiveInput(a.job.draft, drafts'[a.job.draft], TRUE)
    <3>1. /\ worker[w].pc = "settling" /\ worker[w].verdict = "current" /\ UNCHANGED drafts
          /\ a.job = worker[w].job /\ a.revision = jobs[worker[w].job].revision
      BY <2>4 DEF FinalizeSuccess
    <3>2. Answers(a.job, a.revision, drafts[a.job.draft])
      BY <1>1, <3>1 DEF JudgmentStands, JudgmentOf, InTransaction
    <3> QED BY <3>1, <3>2 DEF Answers, EffectiveGeneration, EffectiveInput
  <2> QED BY <1>1, <2>1, <2>2, <2>3, <2>4, AssessmentsAreWritten
<1>2. FullInvJ /\ [Next]_vars =>
          [\A a \in assessments' \ assessments :
               a.outcome = "succeeded" /\ a.revision # 0 =>
                   LET row == drafts'[a.job.draft] IN
                   /\ a.revision = row.revision
                   /\ a.job.generation = row.generation
                   /\ a.job.input = EffectiveInput(a.job.draft, row, TRUE)]_vars
  BY <1>1 DEF FullInvJ, FullInv
<1> QED BY <1>2, FullInvariant, PTL DEF Spec, OnlyFreshResultsMaterialize

\* A completed first review is billed for nothing more and receives no more evidence,
\* whoever races its completion, but through the two windows the property names.  A pass
\* that found the request keeps it open to the end of its transaction.
THEOREM ClosedReviewsAreFinal == Spec => ClosedReviewIsFinal
<1>1. ASSUME IInv, JudgmentStands, [Next]_vars, NEW a \in assessments', a \notin assessments,
             ReviewClosed(a.job.draft)
      PROVE  \/ a.revision = 0 /\ BeganBeforeRequest(a.job)
             \/ jobs[a.job].status = "succeeded" /\ a.call = jobs[a.job].call
  <2>1. CASE EnqueueStep
    <3>1. PICK P \in SUBSET Purposes, d \in Drafts, row \in Draft, attached \in BOOLEAN,
               v \in Visitors : Enqueue(P, d, row, attached, v)
      BY <2>1 DEF EnqueueStep
    <3>2. PICK p \in P : a \in Reused(Identity(p, d, row, attached), row, attached)
      BY <1>1, <3>1, EnqueueCopies
    <3> QED BY <3>2 DEF Reused
  <2>2. ASSUME NEW w \in Workers, FailExhausted(w)
        PROVE  FALSE
    BY <1>1, <2>2 DEF FailExhausted, FailedAssessment
  <2>3. ASSUME NEW w \in Workers, NEW cost \in UsableCosts, SettleFailure(w, cost)
        PROVE  FALSE
    BY <1>1, <2>3 DEF SettleFailure, FailedAssessment
  <2>4. ASSUME NEW w \in Workers, NEW cost \in UsableCosts, FinalizeSuccess(w, cost)
        PROVE  a.revision = 0 /\ BeganBeforeRequest(a.job)
    <3>1. /\ worker[w].pc = "settling" /\ worker[w].verdict = "current"
          /\ a.job = worker[w].job /\ a.revision = jobs[worker[w].job].revision
      BY <1>1, <2>4 DEF FinalizeSuccess
    <3>2. ~worker[w].holdsRequest /\ jobs[worker[w].job].revision = 0
      BY <1>1, <3>1 DEF JudgmentStands, JudgmentOf, InTransaction
    <3> QED BY <3>1, <3>2 DEF BeganBeforeRequest, InTransaction
  <2> QED BY <1>1, <2>1, <2>2, <2>3, <2>4, AssessmentsAreWritten
<1>2. ASSUME IInv, JudgmentStands, [Next]_vars, NEW i \in DOMAIN calls' \ DOMAIN calls,
             calls'[i].status = "reserved", ReviewClosed(calls'[i].job.draft)
      PROVE  BeganBeforeRequest(calls'[i].job)
  <2>1. PICK w \in Workers : CommitReservation(w)
    BY <1>2, RowsAreOnlySettled DEF SameRows
  <2>2. worker[w].job \in JobId /\ worker[w].pc = "deciding"
    BY <1>2, <2>1, CommitBills
  <2>3. calls'[i].job = worker[w].job
    <3>1. PICK row : calls' = Append(calls, row) /\ row.job = worker[w].job
      BY <2>1 DEF CommitReservation
    <3>2. calls \in Seq(Call)
      BY <1>2 DEF IInv, TypeOK
    <3> QED BY <1>2, <3>1, <3>2
  <2>4. ~worker[w].holdsRequest /\ jobs[worker[w].job].revision = 0
    BY <1>2, <2>2, <2>3 DEF JudgmentStands, JudgmentOf, InTransaction
  <2> QED BY <2>2, <2>3, <2>4 DEF BeganBeforeRequest, InTransaction
<1>3. FullInvJ /\ [Next]_vars =>
          [/\ \A i \in DOMAIN calls' \ DOMAIN calls :
                  calls'[i].status = "reserved" /\ ReviewClosed(calls'[i].job.draft) =>
                      BeganBeforeRequest(calls'[i].job)
           /\ \A a \in assessments' \ assessments :
                  ReviewClosed(a.job.draft) =>
                      \/ a.revision = 0 /\ BeganBeforeRequest(a.job)
                      \/ jobs[a.job].status = "succeeded" /\ a.call = jobs[a.job].call]_vars
  BY <1>1, <1>2 DEF FullInvJ, FullInv
<1> QED BY <1>3, FullInvariant, PTL DEF Spec, ClosedReviewIsFinal

------------------------------------------------------------------------------
(* Sums over the ledger *)

\* What holds at zero and at every number after one where it holds, holds up to n.
LEMMA NumbersUpTo ==
    ASSUME NEW n \in Nat, NEW S, 0 \in S, \A m \in 1 .. n : m - 1 \in S => m \in S
    PROVE  \A m \in 0 .. n : m \in S
<1> DEFINE below(i) == 0 .. (i - 1)
           T == {below(i) : i \in (0 .. n) \ S}
<1>1. ASSUME T # {}
      PROVE  FALSE
  <2>1. T \subseteq FiniteSubsetsOf(Nat)
    <3>1. ASSUME NEW i \in (0 .. n) \ S
          PROVE  IsFiniteSet(below(i)) /\ below(i) \subseteq Nat
      BY FS_Interval
    <3> QED BY <3>1 DEF FiniteSubsetsOf
  <2>2. PICK x \in T : \A y \in T : ~(<<y, x>> \in StrictSubsetOrdering(Nat))
    <3> HIDE DEF T
    <3> QED BY <1>1, <2>1, FS_StrictSubsetOrderingWellFounded, WFMin
  <2>3. PICK i \in (0 .. n) \ S : x = below(i)
    OBVIOUS
  <2>4. i - 1 \in (0 .. n) \ S
    OBVIOUS
  <2>5. below(i - 1) \subseteq below(i) /\ i - 1 \in below(i) /\ i - 1 \notin below(i - 1)
    BY <2>4
  <2>6. <<below(i - 1), below(i)>> \in StrictSubsetOrdering(Nat)
    BY <2>5 DEF StrictSubsetOrdering
  <2> QED BY <2>2, <2>3, <2>4, <2>6
<1> QED BY <1>1

IsSum(costs, n, sum) == sum = [i \in 0 .. n |-> IF i = 0 THEN 0 ELSE sum[i - 1] + costs[i]]

\* The running sum exists: each value adds one cost to the one before.
LEMMA SumExists ==
    ASSUME NEW costs, NEW n \in Nat
    PROVE  \E sum : IsSum(costs, n, sum)
<1> DEFINE S == {m \in 0 .. n : \E sum : IsSum(costs, m, sum)}
<1>1. 0 \in S
  <2>1. IsSum(costs, 0, [i \in 0 .. 0 |-> 0])
    BY DEF IsSum
  <2> QED BY <2>1
<1>2. ASSUME NEW m \in 1 .. n, m - 1 \in S
      PROVE  m \in S
  <2>1. PICK g : IsSum(costs, m - 1, g)
    BY <1>2
  <2> DEFINE h == [i \in 0 .. m |-> IF i < m THEN g[i] ELSE g[m - 1] + costs[m]]
  <2>2. g = [i \in 0 .. m - 1 |-> IF i = 0 THEN 0 ELSE g[i - 1] + costs[i]]
    BY <2>1 DEF IsSum
  <2>3. ASSUME NEW i \in 0 .. m
        PROVE  h[i] = IF i = 0 THEN 0 ELSE h[i - 1] + costs[i]
    <3>1. CASE i < m
      BY <2>2, <3>1
    <3>2. CASE i = m
      BY <3>2
    <3> QED BY <3>1, <3>2
  <2> DEFINE k == [i \in 0 .. m |-> IF i = 0 THEN 0 ELSE h[i - 1] + costs[i]]
  <2>4. \A i \in 0 .. m : h[i] = k[i]
    BY <2>3
  <2>5. h = k
    BY <2>4
  <2>6. IsSum(costs, m, h)
    BY <2>5 DEF IsSum
  <2> QED BY <2>6
<1> HIDE DEF S
<1>3. n \in S
  BY <1>1, <1>2, NumbersUpTo
<1> QED BY <1>3 DEF S

\* The total is the last value of such a running sum.
LEMMA TotalIsSum ==
    ASSUME NEW costs, NEW n \in Nat
    PROVE  \E sum : /\ Total(costs, n) = sum[n] /\ sum[0] = 0
                    /\ \A i \in 1 .. n : sum[i] = sum[i - 1] + costs[i]
<1> DEFINE r == CHOOSE g : IsSum(costs, n, g)
<1>1. Total(costs, n) = r[n]
  BY DEF Total, IsSum
<1>2. IsSum(costs, n, r)
  BY SumExists
<1> HIDE DEF r
<1>3. r = [i \in 0 .. n |-> IF i = 0 THEN 0 ELSE r[i - 1] + costs[i]]
  BY <1>2 DEF IsSum
<1> QED BY <1>1, <1>3

\* Costs in a sum are numbers, and so is the sum.
LEMMA TotalType ==
    ASSUME NEW n \in Nat, NEW costs, \A i \in 1 .. n : costs[i] \in Nat
    PROVE  Total(costs, n) \in Nat
<1>1. PICK sum : /\ Total(costs, n) = sum[n] /\ sum[0] = 0
                 /\ \A i \in 1 .. n : sum[i] = sum[i - 1] + costs[i]
  BY TotalIsSum
<1> DEFINE S == {m \in 0 .. n : sum[m] \in Nat}
<1>2. 0 \in S /\ \A m \in 1 .. n : m - 1 \in S => m \in S
  BY <1>1
<1> HIDE DEF S
<1>3. n \in S
  BY <1>2, NumbersUpTo
<1> QED BY <1>1, <1>3 DEF S

\* Where the costs agree on the first n, so do the sums.
LEMMA TotalsAgree ==
    ASSUME NEW n \in Nat, NEW costs, NEW others, \A i \in 1 .. n : others[i] = costs[i]
    PROVE  Total(others, n) = Total(costs, n)
<1>1. PICK sum : /\ Total(costs, n) = sum[n] /\ sum[0] = 0
                 /\ \A i \in 1 .. n : sum[i] = sum[i - 1] + costs[i]
  BY TotalIsSum
<1>2. PICK other : /\ Total(others, n) = other[n] /\ other[0] = 0
                   /\ \A i \in 1 .. n : other[i] = other[i - 1] + others[i]
  BY TotalIsSum
<1> DEFINE S == {m \in 0 .. n : other[m] = sum[m]}
<1>3. 0 \in S /\ \A m \in 1 .. n : m - 1 \in S => m \in S
  BY <1>1, <1>2
<1> HIDE DEF S
<1>4. n \in S
  BY <1>3, NumbersUpTo
<1> QED BY <1>1, <1>2, <1>4 DEF S

\* A cost appended is added to the sum.
LEMMA TotalWithOneMore ==
    ASSUME NEW n \in Nat, NEW costs, NEW others, \A i \in 1 .. n : others[i] = costs[i]
    PROVE  Total(others, n + 1) = Total(costs, n) + others[n + 1]
<1>1. PICK sum : /\ Total(costs, n) = sum[n] /\ sum[0] = 0
                 /\ \A i \in 1 .. n : sum[i] = sum[i - 1] + costs[i]
  BY TotalIsSum
<1>2. PICK other : /\ Total(others, n + 1) = other[n + 1] /\ other[0] = 0
                   /\ \A i \in 1 .. n + 1 : other[i] = other[i - 1] + others[i]
  BY TotalIsSum
<1> DEFINE S == {m \in 0 .. n : other[m] = sum[m]}
<1>3. 0 \in S /\ \A m \in 1 .. n : m - 1 \in S => m \in S
  BY <1>1, <1>2
<1> HIDE DEF S
<1>4. n \in S
  BY <1>3, NumbersUpTo
<1>5. other[n] = sum[n] /\ other[n + 1] = other[n] + others[n + 1]
  BY <1>2, <1>4 DEF S
<1> QED BY <1>1, <1>2, <1>5

\* One cost changed moves the sum by as much.
LEMMA TotalWithOneChanged ==
    ASSUME NEW n \in Nat, NEW costs, NEW others, NEW c \in 1 .. n,
           \A i \in 1 .. n : costs[i] \in Int /\ others[i] \in Int,
           \A i \in 1 .. n : i # c => others[i] = costs[i]
    PROVE  Total(others, n) = Total(costs, n) + (others[c] - costs[c])
<1>1. PICK sum : /\ Total(costs, n) = sum[n] /\ sum[0] = 0
                 /\ \A i \in 1 .. n : sum[i] = sum[i - 1] + costs[i]
  BY TotalIsSum
<1>2. PICK other : /\ Total(others, n) = other[n] /\ other[0] = 0
                   /\ \A i \in 1 .. n : other[i] = other[i - 1] + others[i]
  BY TotalIsSum
<1> DEFINE S == {m \in 0 .. n : /\ sum[m] \in Int
                               /\ other[m] = IF m < c THEN sum[m]
                                             ELSE sum[m] + (others[c] - costs[c])}
<1>3. 0 \in S
  BY <1>1, <1>2
<1>4. ASSUME NEW m \in 1 .. n, m - 1 \in S
      PROVE  m \in S
  <2>1. /\ sum[m] = sum[m - 1] + costs[m] /\ other[m] = other[m - 1] + others[m]
        /\ costs[m] \in Int /\ others[m] \in Int /\ sum[m - 1] \in Int
    BY <1>1, <1>2, <1>4
  <2>2. CASE m < c
    BY <1>4, <2>1, <2>2
  <2>3. CASE m = c
    BY <1>4, <2>1, <2>3
  <2>4. CASE m > c
    BY <1>4, <2>1, <2>4
  <2> QED BY <2>2, <2>3, <2>4
<1> HIDE DEF S
<1>5. n \in S
  BY <1>3, <1>4, NumbersUpTo
<1> QED BY <1>1, <1>2, <1>5 DEF S

------------------------------------------------------------------------------
(* How a step moves the ledger *)

\* Rows keep what the limits count them by.
KeptRows ==
    /\ DOMAIN calls' = DOMAIN calls
    /\ \A i \in DOMAIN calls :
           /\ calls'[i].visitor = calls[i].visitor
           /\ calls'[i].day = calls[i].day
           /\ calls'[i].reserved = calls[i].reserved
           /\ calls'[i].status = "denied" <=> calls[i].status = "denied"

\* The cost of a billed row becomes known; no other cost changes.
PricedRow(c, cost) ==
    /\ calls[c].actual = NoCost
    /\ calls'[c].actual = cost
    /\ \A i \in DOMAIN calls : i # c => calls'[i].actual = calls[i].actual

SettledRows ==
    /\ KeptRows
    /\ \/ \A i \in DOMAIN calls : calls'[i].actual = calls[i].actual
       \/ \E c \in Billed, cost \in ActualCosts : PricedRow(c, cost)

\* One settlement prices at most the row of its own call.
LEMMA SettlementPrices ==
    ASSUME IInv, LedgerRowsAreBounded, NEW w \in Workers, NEW cost \in UsableCosts,
           SettleLate(w, cost) \/ SettleFailure(w, cost) \/ FinalizeSuccess(w, cost)
    PROVE  SettledRows
<1> DEFINE c == worker[w].call
<1>1. worker[w].pc \in {"calling", "settling"}
  BY DEF SettleLate, SettleFailure, FinalizeSuccess, CanSettle
<1>2. /\ c \in DOMAIN calls /\ calls[c] \in Call
      /\ calls[c].status = "reserved" <=> Owned(w)
      /\ calls[c].status = "reserved" => calls[c].actual = NoCost
      /\ calls[c].status # "denied"
  BY <1>1, CallingFacts DEF IInv, ReservedIsUnpriced, LedgerRowsAreBounded
<1>3. c \in Billed
  BY <1>2 DEF Billed
<1> HIDE DEF c
<1>4. ASSUME NEW row, calls' = [calls EXCEPT ![c] = row],
             row.visitor = calls[c].visitor, row.day = calls[c].day,
             row.reserved = calls[c].reserved, row.status # "denied",
             \/ row.actual = calls[c].actual
             \/ calls[c].actual = NoCost /\ row.actual \in UsableCosts
      PROVE  SettledRows
  <2>1. /\ calls'[c] = row /\ DOMAIN calls' = DOMAIN calls
        /\ \A i \in DOMAIN calls : i # c => calls'[i] = calls[i]
    BY <1>2, <1>4
  <2>2. KeptRows
    BY <1>2, <1>4, <2>1 DEF KeptRows
  <2>3. CASE row.actual = calls[c].actual
    BY <2>1, <2>2, <2>3 DEF SettledRows
  <2>4. CASE row.actual # calls[c].actual
    <3>1. calls[c].actual = NoCost /\ row.actual \in ActualCosts
      BY <1>4, <2>4 DEF UsableCosts
    <3>2. PricedRow(c, row.actual)
      BY <2>1, <3>1 DEF PricedRow
    <3> QED BY <1>3, <2>2, <3>1, <3>2 DEF SettledRows
  <2> QED BY <2>3, <2>4
<1>5. CASE SettleLate(w, cost)
  <2>1. calls' = [calls EXCEPT ![c] = LateEvidence(calls[c], cost)] /\ ~Owned(w)
    BY <1>5 DEF SettleLate, c
  <2> DEFINE row == LateEvidence(calls[c], cost)
  <2>2. /\ row.visitor = calls[c].visitor /\ row.day = calls[c].day
        /\ row.reserved = calls[c].reserved /\ row.status # "denied"
        /\ row.actual = IF calls[c].actual = NoCost THEN cost ELSE calls[c].actual
    BY <1>2, <2>1 DEF LateEvidence, Call
  <2> QED BY <1>4, <2>1, <2>2
<1>6. ASSUME NEW status \in {"failed", "succeeded"},
             calls' = [calls EXCEPT ![c] = [calls[c] EXCEPT !.status = status, !.actual = cost]],
             Owned(w)
      PROVE  SettledRows
  <2> DEFINE row == [calls[c] EXCEPT !.status = status, !.actual = cost]
  <2>1. /\ row.visitor = calls[c].visitor /\ row.day = calls[c].day
        /\ row.reserved = calls[c].reserved /\ row.status # "denied"
        /\ row.actual = cost
    BY <1>2 DEF Call
  <2> QED BY <1>2, <1>4, <1>6, <2>1
<1>7. CASE SettleFailure(w, cost)
  BY <1>6, <1>7 DEF SettleFailure, c
<1>8. CASE FinalizeSuccess(w, cost)
  <2>1. Owned(w)
    BY <1>8 DEF FinalizeSuccess, IInv, PassIsSound, InTransaction
  <2> QED BY <1>6, <1>8, <2>1 DEF FinalizeSuccess, c
<1> QED BY <1>5, <1>7, <1>8

\* Every step but a reservation's commit keeps the rows and prices at most one.
LEMMA OnlySettlementsPrice ==
    ASSUME IInv, LedgerRowsAreBounded, [Next]_vars, \A w \in Workers : ~CommitReservation(w)
    PROVE  SettledRows
<1>1. ASSUME calls' = calls
      PROVE  SettledRows
  BY <1>1 DEF SettledRows, KeptRows
<1>2. ASSUME NEW ids, calls' = Reconciled(ids)
      PROVE  SettledRows
  <2>1. TypeOK
    BY DEF IInv
  <2> QED BY <1>2, <2>1, CallType DEF SettledRows, KeptRows, Reconciled, Call
<1>3. CASE UserStep
  <2>1. CASE ResetFixtureState
    BY <1>2, <2>1 DEF ResetFixtureState
  <2>2. CASE ~ResetFixtureState
    <3>1. calls' = calls
      BY <1>3, <2>2 DEF UserStep, EditDraft, ReadBeforeResult, AskClarification, CompleteFirstReview, Submit,
                        AnswerClarification, EnqueueModelJob, RetryModelJob, ChangeCatalog
    <3> QED BY <1>1, <3>1
  <2> QED BY <2>1, <2>2
<1>4. ASSUME NEW w \in Workers, NEW j \in JobId, ClaimJob(w, j)
      PROVE  SettledRows
  BY <1>2, <1>4 DEF ClaimJob
<1>5. ASSUME NEW w \in Workers, WorkerStep(w) \/ Crash(w)
      PROVE  SettledRows
  <2>1. CASE \/ PreDispatch(w) \/ SettleStale(w) \/ FailExhausted(w) \/ LockForReservation(w)
             \/ ReadUsage(w) \/ JudgeResult(w) \/ Crash(w)
    <3>1. calls' = calls
      BY <2>1 DEF PreDispatch, SettleStale, FailExhausted, LockForReservation, ReadUsage,
                  JudgeResult, Crash
    <3> QED BY <1>1, <3>1
  <2> QED BY <1>5, <2>1, SettlementPrices DEF WorkerStep
<1>6. CASE \/ NextDay \/ UNCHANGED vars
           \/ \E j \in JobId : ExpireAbandonedLease(j) \/ ExpireLiveLease(j)
  <2>1. calls' = calls
    BY <1>6 DEF NextDay, vars, ExpireAbandonedLease, ExpireLiveLease
  <2> QED BY <1>1, <2>1
<1> QED BY <1>3, <1>4, <1>5, <1>6 DEF Next

\* What a commit appends.
CommittedRow(w) ==
    LET granted == worker[w].verdict = "grant" IN
    [job |-> worker[w].job, visitor |-> jobs[worker[w].job].visitor,
     status |-> IF granted THEN "reserved" ELSE "denied",
     reserved |-> IF granted THEN ReservedCost ELSE 0,
     actual |-> NoCost, day |-> worker[w].day]

LEMMA CommitAppends ==
    ASSUME IInv, NEW w \in Workers, CommitReservation(w)
    PROVE  /\ worker[w].pc = "deciding" /\ worker[w].job \in JobId
           /\ jobs[worker[w].job].visitor \in Visitors
           /\ Len(calls) \in Nat /\ Len(calls') = Len(calls) + 1
           /\ DOMAIN calls = 1 .. Len(calls) /\ DOMAIN calls' = 1 .. Len(calls) + 1
           /\ DOMAIN calls' = DOMAIN calls \cup {Len(calls) + 1}
           /\ Len(calls) + 1 \notin DOMAIN calls
           /\ calls'[Len(calls) + 1] = CommittedRow(w)
           /\ \A i \in DOMAIN calls : calls'[i] = calls[i]
<1>1. worker[w].pc = "deciding" /\ calls' = Append(calls, CommittedRow(w))
  BY DEF CommitReservation, CommittedRow
<1>2. /\ worker[w].job \in JobId /\ calls \in Seq(Call) /\ Len(calls) \in Nat
      /\ Owned(w) /\ jobs[worker[w].job].status = "leased"
  BY <1>1 DEF IInv, PassIsSound, TypeOK, InTransaction, Owned
<1>3. jobs[worker[w].job].visitor \in Visitors
  BY <1>2 DEF IInv, JobsWellFormed
<1> QED BY <1>1, <1>2, <1>3

\* A day's month is a number.
LEMMA MonthType == ASSUME NEW d \in Nat PROVE MonthOf(d) \in Nat
BY BoundsAreNaturals DEF MonthOf

\* What a row adds to a month's spend is a number of micros.
LEMMA SpentType ==
    ASSUME NEW c \in Call, NEW m
    PROVE  Cost(c) \in Nat /\ SpentSince(c, m) \in Nat
<1>1. c.reserved \in {0, ReservedCost} /\ c.actual \in ActualCosts \cup {NoCost}
  BY DEF Call
<1>2. ReservedCost \in Nat
  BY CapsAreNaturals
<1>3. ActualCosts \subseteq Nat
  BY <1>2, ReservationIsAnUpperBound
<1>4. c.reserved \in Nat
  BY <1>1, <1>2
<1>5. c.actual # NoCost => c.actual \in Nat
  BY <1>1, <1>3
<1>6. Cost(c) \in Nat
  BY <1>4, <1>5 DEF Cost
<1> QED BY <1>6 DEF SpentSince

LEMMA SpendType ==
    ASSUME TypeOK, NEW m
    PROVE  SpendSinceMonth(m) \in Nat
<1>1. Len(calls) \in Nat /\ DOMAIN calls = 1 .. Len(calls)
  BY DEF TypeOK
<1>2. \A i \in 1 .. Len(calls) : [k \in DOMAIN calls |-> SpentSince(calls[k], m)][i] \in Nat
  BY <1>1, CallType, SpentType
<1> QED BY <1>1, <1>2, TotalType DEF SpendSinceMonth

\* A step that prices no row leaves every month's spend.
LEMMA UnpricedSpend ==
    ASSUME TypeOK, TypeOK', KeptRows, NEW m,
           \A i \in DOMAIN calls : calls'[i].actual = calls[i].actual
    PROVE  SpendSinceMonth(m)' = SpendSinceMonth(m)
<1> DEFINE costs == [i \in DOMAIN calls |-> SpentSince(calls[i], m)]
           others == [i \in DOMAIN calls' |-> SpentSince(calls'[i], m)]
<1>1. /\ Len(calls) \in Nat /\ DOMAIN calls = 1 .. Len(calls)
      /\ Len(calls') \in Nat /\ DOMAIN calls' = 1 .. Len(calls')
  BY DEF TypeOK
<1>2. DOMAIN calls' = DOMAIN calls /\ Len(calls') = Len(calls)
  BY <1>1 DEF KeptRows
<1>3. ASSUME NEW i \in 1 .. Len(calls)
      PROVE  others[i] = costs[i]
  BY <1>1, <1>2 DEF KeptRows, SpentSince, Cost
<1>4. SpendSinceMonth(m) = Total(costs, Len(calls)) /\ SpendSinceMonth(m)' = Total(others, Len(calls))
  BY <1>2 DEF SpendSinceMonth
<1> HIDE DEF costs, others
<1> QED BY <1>1, <1>3, <1>4, TotalsAgree

\* A cost that becomes known gives back what its reservation took too much.
LEMMA PricedSpend ==
    ASSUME TypeOK, TypeOK', LedgerRowsAreBounded, KeptRows,
           NEW c \in Billed, NEW cost \in ActualCosts, PricedRow(c, cost), NEW m
    PROVE  SpendSinceMonth(m)' =
               SpendSinceMonth(m) + (IF MonthOf(calls[c].day) >= m THEN cost - ReservedCost ELSE 0)
<1> DEFINE costs == [i \in DOMAIN calls |-> SpentSince(calls[i], m)]
           others == [i \in DOMAIN calls' |-> SpentSince(calls'[i], m)]
<1>1. /\ Len(calls) \in Nat /\ DOMAIN calls = 1 .. Len(calls)
      /\ Len(calls') \in Nat /\ DOMAIN calls' = 1 .. Len(calls')
  BY DEF TypeOK
<1>2. DOMAIN calls' = DOMAIN calls /\ Len(calls') = Len(calls)
  BY <1>1 DEF KeptRows
<1>3. c \in 1 .. Len(calls) /\ calls[c].status # "denied"
  BY <1>1 DEF Billed
<1>4. ASSUME NEW i \in 1 .. Len(calls), i # c
      PROVE  others[i] = costs[i]
  BY <1>1, <1>2, <1>4 DEF KeptRows, PricedRow, SpentSince, Cost
<1>5. ASSUME NEW i \in 1 .. Len(calls)
      PROVE  costs[i] \in Int /\ others[i] \in Int
  <2>1. calls[i] \in Call /\ calls'[i] \in Call
    BY <1>1, <1>2 DEF TypeOK
  <2> QED BY <1>1, <1>2, <2>1, SpentType
<1>6. cost \in Nat /\ cost # NoCost /\ ReservedCost \in Nat
  BY ReservationIsAnUpperBound, CapsAreNaturals DEF NoCost
<1>7. /\ costs[c] = IF MonthOf(calls[c].day) >= m THEN ReservedCost ELSE 0
      /\ others[c] = IF MonthOf(calls[c].day) >= m THEN cost ELSE 0
  BY <1>1, <1>2, <1>3, <1>6 DEF KeptRows, PricedRow, LedgerRowsAreBounded, SpentSince, Cost
<1>8. SpendSinceMonth(m) = Total(costs, Len(calls)) /\ SpendSinceMonth(m)' = Total(others, Len(calls))
  BY <1>2 DEF SpendSinceMonth
<1> DEFINE n == Len(calls)
<1> HIDE DEF costs, others, n
<1>9. Total(others, n) = Total(costs, n) + (others[c] - costs[c])
  <2>1. n \in Nat /\ c \in 1 .. n
    BY <1>1, <1>3 DEF n
  <2>2. \A i \in 1 .. n : costs[i] \in Int /\ others[i] \in Int
    BY <1>5 DEF n
  <2>3. \A i \in 1 .. n : i # c => others[i] = costs[i]
    BY <1>4 DEF n
  <2> QED BY <2>1, <2>2, <2>3, TotalWithOneChanged
<1> QED BY <1>6, <1>7, <1>8, <1>9 DEF n

\* A granted reservation adds its cost to its month and the months before.
LEMMA CommittedSpend ==
    ASSUME IInv, NEW w \in Workers, CommitReservation(w), NEW m
    PROVE  SpendSinceMonth(m)' =
               SpendSinceMonth(m) + (IF /\ worker[w].verdict = "grant"
                                        /\ MonthOf(worker[w].day) >= m
                                     THEN ReservedCost ELSE 0)
<1> DEFINE costs == [i \in DOMAIN calls |-> SpentSince(calls[i], m)]
           others == [i \in DOMAIN calls' |-> SpentSince(calls'[i], m)]
           n == Len(calls)
<1>1. /\ n \in Nat /\ Len(calls') = n + 1
      /\ DOMAIN calls = 1 .. n /\ DOMAIN calls' = 1 .. n + 1
      /\ calls'[n + 1] = CommittedRow(w)
      /\ \A i \in DOMAIN calls : calls'[i] = calls[i]
  BY CommitAppends
<1>2. ASSUME NEW i \in 1 .. n
      PROVE  others[i] = costs[i]
  BY <1>1
<1>3. others[n + 1] = IF worker[w].verdict = "grant" /\ MonthOf(worker[w].day) >= m
                      THEN ReservedCost ELSE 0
  <2>1. others[n + 1] = SpentSince(CommittedRow(w), m)
    BY <1>1
  <2> QED BY <2>1 DEF CommittedRow, SpentSince, Cost
<1>4. SpendSinceMonth(m) = Total(costs, n) /\ SpendSinceMonth(m)' = Total(others, n + 1)
  BY <1>1 DEF SpendSinceMonth
<1> HIDE DEF costs, others, n
<1>5. Total(others, n + 1) = Total(costs, n) + others[n + 1]
  BY <1>1, <1>2, TotalWithOneMore
<1> QED BY <1>3, <1>4, <1>5

\* Rows that are kept count towards the same limits.
LEMMA KeptRowsCountTheSame ==
    ASSUME KeptRows
    PROVE  /\ Billed' = Billed
           /\ \A d : /\ BilledSince(d)' = BilledSince(d) /\ BilledOn(d)' = BilledOn(d)
                     /\ \A v : /\ VisitorCallsSince(v, d)' = VisitorCallsSince(v, d)
                               /\ VisitorCallsOn(v, d)' = VisitorCallsOn(v, d)
<1>1. Billed' = Billed
  BY DEF KeptRows, Billed
<1>2. \A i \in Billed : calls'[i].day = calls[i].day /\ calls'[i].visitor = calls[i].visitor
  BY DEF KeptRows, Billed
<1>3. \A d : BilledSince(d)' = BilledSince(d) /\ BilledOn(d)' = BilledOn(d)
  BY <1>1, <1>2 DEF BilledSince, BilledOn
<1>4. \A d, v : /\ VisitorCallsSince(v, d)' = VisitorCallsSince(v, d)
                /\ VisitorCallsOn(v, d)' = VisitorCallsOn(v, d)
  BY <1>2, <1>3 DEF VisitorCallsSince, VisitorCallsOn, BilledSince, BilledOn
<1> QED BY <1>1, <1>3, <1>4

\* The sets the limits count are finite.
LEMMA LimitsCountNumbers ==
    ASSUME TypeOK, NEW v, NEW d, NEW m
    PROVE  /\ IsFiniteSet(BilledSince(d)) /\ IsFiniteSet(VisitorCallsSince(v, d))
           /\ IsFiniteSet(BilledOn(d)) /\ IsFiniteSet(VisitorCallsOn(v, d))
           /\ IsFiniteSet(OpenIn(m))
<1>1. IsFiniteSet(Billed)
  BY CountsAreFinite
<1>2. /\ BilledSince(d) \in SUBSET Billed /\ VisitorCallsSince(v, d) \in SUBSET Billed
      /\ BilledOn(d) \in SUBSET Billed /\ VisitorCallsOn(v, d) \in SUBSET Billed
      /\ OpenIn(m) \in SUBSET Billed
  BY DEF BilledSince, VisitorCallsSince, BilledOn, VisitorCallsOn, OpenIn
<1> QED BY <1>1, <1>2, FS_Subset

\* Settlements lower a month's spend or leave it: a cost is at most what was reserved.
LEMMA SettlementsLowerSpend ==
    ASSUME TypeOK, TypeOK', LedgerRowsAreBounded, SettledRows, NEW m
    PROVE  SpendSinceMonth(m)' \in Int /\ SpendSinceMonth(m)' <= SpendSinceMonth(m)
<1>1. SpendSinceMonth(m) \in Nat
  BY SpendType
<1>2. CASE \A i \in DOMAIN calls : calls'[i].actual = calls[i].actual
  <2>1. SpendSinceMonth(m)' = SpendSinceMonth(m)
    BY <1>2, UnpricedSpend DEF SettledRows
  <2> QED BY <1>1, <2>1
<1>3. ASSUME NEW c \in Billed, NEW cost \in ActualCosts, PricedRow(c, cost)
      PROVE  SpendSinceMonth(m)' \in Int /\ SpendSinceMonth(m)' <= SpendSinceMonth(m)
  <2>1. SpendSinceMonth(m)' = SpendSinceMonth(m)
            + (IF MonthOf(calls[c].day) >= m THEN cost - ReservedCost ELSE 0)
    BY <1>3, PricedSpend DEF SettledRows
  <2>2. ReservedCost \in Nat /\ cost \in 0 .. ReservedCost
    BY CapsAreNaturals, ReservationIsAnUpperBound
  <2> QED BY <1>1, <2>1, <2>2
<1> QED BY <1>2, <1>3 DEF SettledRows

\* So a settlement never uses up a limit.
LEMMA SettlementsFreeLimits ==
    ASSUME TypeOK, TypeOK', LedgerRowsAreBounded, SettledRows, NEW v, NEW d,
           ~capDenialReason(v, d)
    PROVE  ~capDenialReason(v, d)'
<1>1. /\ BilledSince(d)' = BilledSince(d)
      /\ VisitorCallsSince(v, d)' = VisitorCallsSince(v, d)
  BY KeptRowsCountTheSame DEF SettledRows
<1>2. /\ SpendSinceMonth(MonthOf(d)) \in Nat /\ SpendSinceMonth(MonthOf(d))' \in Int
      /\ SpendSinceMonth(MonthOf(d))' <= SpendSinceMonth(MonthOf(d))
  BY SpendType, SettlementsLowerSpend
<1>3. ReservedCost \in Nat /\ MonthlyCap \in Nat
  BY CapsAreNaturals
<1>4. ~(SpendSinceMonth(MonthOf(d)) + ReservedCost > MonthlyCap)
  BY DEF capDenialReason
<1>5. ~(SpendSinceMonth(MonthOf(d))' + ReservedCost > MonthlyCap)
  BY <1>2, <1>3, <1>4
<1> QED BY <1>1, <1>5 DEF capDenialReason

\* A worker's state moves only in its own steps, and a pass dispatches only by a commit.
LEMMA PassesMove ==
    ASSUME IInv, [Next]_vars, NEW w \in Workers
    PROVE  \/ worker'[w] = worker[w]
           \/ CommitReservation(w)
           \/ /\ worker'[w].day \in {0, day, worker[w].day}
              /\ worker'[w].pc \in {"calling", "settling"} =>
                     /\ worker[w].pc \in {"calling", "settling"}
                     /\ worker'[w].call = worker[w].call
<1>1. worker \in [Workers -> WorkerState] /\ worker[w] \in WorkerState
  BY DEF IInv, TypeOK
<1>2. Idle.pc = "idle" /\ Idle.day = 0
  BY DEF Idle
<1> SUFFICES ASSUME worker'[w] # worker[w], ~CommitReservation(w)
             PROVE  /\ worker'[w].day \in {0, day, worker[w].day}
                    /\ worker'[w].pc \in {"calling", "settling"} =>
                           /\ worker[w].pc \in {"calling", "settling"}
                           /\ worker'[w].call = worker[w].call
  OBVIOUS
<1>3. CASE UserStep \/ NextDay \/ UNCHANGED vars
           \/ \E j \in JobId : ExpireAbandonedLease(j) \/ ExpireLiveLease(j)
  <2>1. worker' = worker
    BY <1>3 DEF UserStep, EditDraft, ReadBeforeResult, AskClarification, CompleteFirstReview, Submit,
                AnswerClarification, EnqueueModelJob, RetryModelJob, ChangeCatalog,
                ResetFixtureState, NextDay, vars, ExpireAbandonedLease, ExpireLiveLease
  <2> QED BY <2>1
<1>4. ASSUME NEW u \in Workers, NEW j \in JobId, ClaimJob(u, j)
      PROVE  worker'[w].pc = "claimed" /\ worker'[w].day = 0
  <2>1. /\ u = w
        /\ worker' = [worker EXCEPT ![u] = [Idle EXCEPT !.pc = "claimed", !.job = j,
                                                        !.revision = jobs[j].revision]]
    BY <1>1, <1>4 DEF ClaimJob
  <2> QED BY <1>1, <2>1 DEF Idle
<1>5. ASSUME NEW u \in Workers, u # w, WorkerStep(u) \/ Crash(u)
      PROVE  FALSE
  <2>1. worker' = [worker EXCEPT ![u] = worker'[u]]
    BY <1>1, <1>5 DEF WorkerStep, PreDispatch, SettleStale, FailExhausted,
       LockForReservation, ReadUsage, CommitReservation, JudgeResult, SettleLate,
       SettleFailure, FinalizeSuccess, Crash
  <2> QED BY <1>1, <1>5, <2>1
<1>6. CASE WorkerStep(w) \/ Crash(w)
  <2>1. CASE PreDispatch(w)
    <3>1. worker'[w].pc \in {"fresh", "gated"} /\ worker'[w].day = worker[w].day
      BY <1>1, <2>1 DEF PreDispatch, WorkerState
    <3> QED BY <3>1
  <2>2. CASE LockForReservation(w)
    <3>1. \/ worker'[w].pc = "locking" /\ worker'[w].day = day
          \/ worker'[w] = Idle
      BY <1>1, <2>2 DEF LockForReservation, WorkerState
    <3> QED BY <1>2, <3>1
  <2>3. CASE ReadUsage(w)
    <3>1. worker'[w].pc = "deciding" /\ worker'[w].day = worker[w].day
      BY <1>1, <2>3 DEF ReadUsage, WorkerState
    <3> QED BY <3>1
  <2>4. CASE JudgeResult(w)
    <3>1. /\ worker'[w].day = worker[w].day /\ worker'[w].call = worker[w].call
          /\ worker[w].pc = "calling"
      BY <1>1, <2>4 DEF JudgeResult, CanSettle, WorkerState
    <3> QED BY <3>1
  <2>5. CASE SettleStale(w) \/ FailExhausted(w) \/ Crash(w)
    <3>1. worker'[w] = Idle
      BY <1>1, <2>5 DEF SettleStale, FailExhausted, Crash
    <3> QED BY <1>2, <3>1
  <2>6. ASSUME NEW cost \in UsableCosts,
               SettleLate(w, cost) \/ SettleFailure(w, cost) \/ FinalizeSuccess(w, cost)
        PROVE  worker'[w] = Idle
    BY <1>1, <2>6 DEF SettleLate, SettleFailure, FinalizeSuccess
  <2> QED BY <1>2, <1>6, <2>1, <2>2, <2>3, <2>4, <2>5, <2>6 DEF WorkerStep
<1> QED BY <1>3, <1>4, <1>5, <1>6 DEF Next

\* The clock only moves forward.
LEMMA DayAdvances ==
    ASSUME TypeOK, [Next]_vars
    PROVE  day \in Nat /\ day' \in Nat /\ day <= day'
<1>1. day \in Nat
  BY BoundsAreNaturals DEF TypeOK
<1>2. CASE NextDay
  BY <1>1, <1>2 DEF NextDay
<1>3. CASE UserStep
  <2>1. day' = day
    BY <1>3 DEF UserStep, EditDraft, ReadBeforeResult, AskClarification, CompleteFirstReview, Submit,
                AnswerClarification, EnqueueModelJob, RetryModelJob, ChangeCatalog,
                ResetFixtureState
  <2> QED BY <1>1, <2>1
<1>4. CASE \/ UNCHANGED vars \/ \E w \in Workers, j \in JobId : ClaimJob(w, j)
           \/ \E w \in Workers : WorkerStep(w) \/ Crash(w)
           \/ \E j \in JobId : ExpireAbandonedLease(j) \/ ExpireLiveLease(j)
  <2>1. day' = day
    BY <1>4 DEF vars, ClaimJob, WorkerStep, PreDispatch, SettleStale, FailExhausted,
       LockForReservation, ReadUsage, CommitReservation, JudgeResult, SettleLate,
       SettleFailure, FinalizeSuccess, Crash, ExpireAbandonedLease, ExpireLiveLease
  <2> QED BY <1>1, <2>1
<1> QED BY <1>2, <1>3, <1>4 DEF Next

\* What the rows and the passes hold of days and of reserved costs stays true.
LEMMA RowsStayBounded ==
    ASSUME IInv, LedgerRowsAreBounded, [Next]_vars
    PROVE  LedgerRowsAreBounded'
<1>1. TypeOK
  BY DEF IInv
<1>2. day \in Nat /\ day' \in Nat /\ day <= day'
  BY <1>1, DayAdvances
<1>3. /\ \A u \in Workers : worker[u].day \in Nat /\ worker[u].day <= day
      /\ \A i \in DOMAIN calls : calls[i].day \in Nat /\ calls[i].day <= day
  <2>1. \A u \in Workers : worker[u] \in WorkerState
    BY <1>1 DEF TypeOK
  <2>2. \A u \in Workers : worker[u].day \in Nat
    BY <2>1 DEF WorkerState
  <2>3. \A i \in DOMAIN calls : calls[i].day \in Nat
    BY <1>1, CallType DEF Call
  <2> QED BY <2>2, <2>3 DEF LedgerRowsAreBounded
<1>4. CASE \A w \in Workers : ~CommitReservation(w)
  <2>1. KeptRows
    BY <1>4, OnlySettlementsPrice DEF SettledRows
  <2>2. ASSUME NEW i \in DOMAIN calls'
        PROVE  /\ calls'[i].day <= day'
               /\ calls'[i].status # "denied" => calls'[i].reserved = ReservedCost
    <3>1. /\ i \in DOMAIN calls /\ calls'[i].day = calls[i].day
          /\ calls'[i].reserved = calls[i].reserved
          /\ calls'[i].status = "denied" <=> calls[i].status = "denied"
      BY <2>1, <2>2 DEF KeptRows
    <3> QED BY <1>2, <1>3, <3>1 DEF LedgerRowsAreBounded
  <2>3. ASSUME NEW w \in Workers
        PROVE  /\ worker'[w].day <= day'
               /\ worker'[w].pc \in {"calling", "settling"} =>
                      calls'[worker'[w].call].status # "denied"
    <3>1. \/ worker'[w] = worker[w]
          \/ /\ worker'[w].day \in {0, day, worker[w].day}
             /\ worker'[w].pc \in {"calling", "settling"} =>
                    worker[w].pc \in {"calling", "settling"} /\ worker'[w].call = worker[w].call
      BY <1>4, PassesMove
    <3>2. worker'[w].day \in {0, day, worker[w].day}
      BY <3>1
    <3>3. worker'[w].day <= day'
      BY <1>2, <1>3, <3>2
    <3>4. ASSUME worker'[w].pc \in {"calling", "settling"}
          PROVE  calls'[worker'[w].call].status # "denied"
      <4>1. worker[w].pc \in {"calling", "settling"} /\ worker'[w].call = worker[w].call
        BY <3>1, <3>4
      <4>2. worker[w].call \in DOMAIN calls /\ calls[worker[w].call].status # "denied"
        BY <4>1, CallingFacts DEF LedgerRowsAreBounded
      <4> QED BY <2>1, <4>1, <4>2 DEF KeptRows
    <3> QED BY <3>3, <3>4
  <2> QED BY <2>2, <2>3 DEF LedgerRowsAreBounded
<1>5. ASSUME NEW u \in Workers, CommitReservation(u)
      PROVE  LedgerRowsAreBounded'
  <2> DEFINE id == Len(calls) + 1
  <2>1. /\ DOMAIN calls' = DOMAIN calls \cup {id} /\ calls'[id] = CommittedRow(u)
        /\ \A i \in DOMAIN calls : calls'[i] = calls[i]
    BY <1>5, CommitAppends
  <2> HIDE DEF id
  <2>2. /\ calls'[id].day = worker[u].day
        /\ calls'[id].status = IF worker[u].verdict = "grant" THEN "reserved" ELSE "denied"
        /\ worker[u].verdict = "grant" => calls'[id].reserved = ReservedCost
    BY <2>1 DEF CommittedRow
  <2>3. ASSUME NEW i \in DOMAIN calls'
        PROVE  /\ calls'[i].day <= day'
               /\ calls'[i].status # "denied" => calls'[i].reserved = ReservedCost
    <3>1. CASE i = id
      <4>1. worker[u].day <= day'
        BY <1>2, <1>3
      <4> QED BY <2>2, <3>1, <4>1
    <3>2. CASE i # id
      <4>1. i \in DOMAIN calls /\ calls'[i] = calls[i]
        BY <2>1, <3>2
      <4> QED BY <1>2, <1>3, <4>1 DEF LedgerRowsAreBounded
    <3> QED BY <3>1, <3>2
  <2>4. ASSUME NEW w \in Workers
        PROVE  /\ worker'[w].day <= day'
               /\ worker'[w].pc \in {"calling", "settling"} =>
                      calls'[worker'[w].call].status # "denied"
    <3>1. CASE w = u
      <4>1. \/ /\ worker[u].verdict = "grant" /\ worker'[w].day = 0
               /\ worker'[w].call = id
            \/ worker'[w].day = 0 /\ worker'[w].pc = "idle"
        BY <1>1, <1>5, <3>1 DEF CommitReservation, Idle, TypeOK, id
      <4> QED BY <1>2, <2>2, <4>1
    <3>2. CASE w # u
      <4>1. worker'[w] = worker[w]
        BY <1>1, <1>5, <3>2 DEF CommitReservation, TypeOK
      <4>2. worker[w].day <= day'
        BY <1>2, <1>3
      <4>3. ASSUME worker[w].pc \in {"calling", "settling"}
            PROVE  calls'[worker[w].call].status # "denied"
        BY <2>1, <4>3, CallingFacts DEF LedgerRowsAreBounded
      <4> QED BY <4>1, <4>2, <4>3
    <3> QED BY <3>1, <3>2
  <2> QED BY <2>3, <2>4 DEF LedgerRowsAreBounded
<1> QED BY <1>4, <1>5

\* What was read of the limits under the spend lock stands until the commit.
LEMMA LimitsStayCurrent ==
    ASSUME IInv, IInv', UsageIsCurrent, LedgerRowsAreBounded, LimitsAreCurrent, [Next]_vars
    PROVE  LimitsAreCurrent'
<1>1. worker \in [Workers -> WorkerState] /\ TypeOK /\ TypeOK'
  BY DEF IInv, TypeOK
<1> SUFFICES ASSUME NEW w \in Workers, worker'[w].pc = "deciding", worker'[w].verdict = "grant"
             PROVE  ~capDenialReason(jobs[worker[w].job].visitor, worker[w].day)'
  BY DEF LimitsAreCurrent
<1>2. CASE worker'[w] = worker[w]
  <2>1. /\ ~capDenialReason(jobs[worker[w].job].visitor, worker[w].day)
        /\ spendLock = w /\ worker[w].pc = "deciding"
    BY <1>2 DEF LimitsAreCurrent, UsageIsCurrent
  <2>2. ASSUME NEW u \in Workers, CommitReservation(u)
        PROVE  FALSE
    <3>1. u = w
      BY <2>1, <2>2 DEF CommitReservation, UsageIsCurrent
    <3> QED BY <1>1, <1>2, <2>1, <2>2, <3>1 DEF CommitReservation, Idle
  <2>3. SettledRows
    BY <2>2, OnlySettlementsPrice
  <2>4. jobs'[worker'[w].job].visitor = jobs[worker[w].job].visitor
    BY <1>2, <2>1, LockedJobKeepsOrigin DEF InTransaction
  <2>5. ASSUME NEW v, NEW d, ~capDenialReason(v, d)
        PROVE  ~capDenialReason(v, d)'
    BY <1>1, <2>3, <2>5, SettlementsFreeLimits
  <2>6. PICK v, d : v = jobs[worker[w].job].visitor /\ d = worker[w].day
    OBVIOUS
  <2>7. ~capDenialReason(v, d)'
    BY <2>1, <2>5, <2>6
  <2> QED BY <1>2, <2>4, <2>6, <2>7 DEF capDenialReason, BilledSince, VisitorCallsSince
<1>3. CASE ReadUsage(w)
  <2>1. /\ UNCHANGED <<calls, jobs>>
        /\ worker'[w].job = worker[w].job /\ worker'[w].day = worker[w].day
        /\ ~capDenialReason(jobs[worker[w].job].visitor, worker[w].day)
    BY <1>1, <1>3 DEF ReadUsage, WorkerState
  <2> QED BY <2>1 DEF capDenialReason, BilledSince, VisitorCallsSince, Billed, SpendSinceMonth
<1>4. CASE worker'[w] # worker[w] /\ ~ReadUsage(w)
  <2>1. LockForReservation(w) \/ JudgeResult(w)
    BY <1>4, TransactionsBegin
  <2>2. CASE LockForReservation(w)
    BY <1>1, <2>2 DEF LockForReservation, Idle, WorkerState
  <2>3. CASE JudgeResult(w)
    BY <1>1, <2>3 DEF JudgeResult, WorkerState
  <2> QED BY <2>1, <2>2, <2>3
<1> QED BY <1>2, <1>3, <1>4

LEMMA LedgerInvHolds == Spec => []LedgerInv
<1>1. Init => LedgerInv
  <2> SUFFICES ASSUME Init
               PROVE  LedgerInv
    OBVIOUS
  <2>1. IInv /\ \A w \in Workers : worker[w].pc = "idle" /\ worker[w].day = 0
    BY InitInv DEF Init, Idle
  <2>2. calls = <<>> /\ day = 0
    BY DEF Init
  <2> QED BY <2>1, <2>2 DEF LedgerInv, UsageIsCurrent, LedgerRowsAreBounded, LimitsAreCurrent
<1>2. LedgerInv /\ [Next]_vars => LedgerInv'
  BY NextInv, UsageStaysCurrent, RowsStayBounded, LimitsStayCurrent DEF LedgerInv
<1> QED BY <1>1, <1>2, PTL DEF Spec

------------------------------------------------------------------------------
(* The ledger implements SpendLedger *)

\* The ledger that starts empty owes nothing.
LEMMA LedgerStartsEmpty == Init => Ledger!Init
<1> SUFFICES ASSUME Init
             PROVE  Ledger!Init
  OBVIOUS
<1>1. Billed = {} /\ calls = <<>>
  BY DEF Init, Billed
<1>2. Cardinality({}) = 0
  BY FS_EmptySet
<1>3. \A d, v, m : /\ Cardinality(BilledOn(d)) = 0 /\ Cardinality(VisitorCallsOn(v, d)) = 0
                   /\ Cardinality(OpenIn(m)) = 0
  <2>1. \A d, v, m : BilledOn(d) = {} /\ VisitorCallsOn(v, d) = {} /\ OpenIn(m) = {}
    BY <1>1 DEF BilledOn, VisitorCallsOn, OpenIn
  <2> QED BY <1>2, <2>1
<1>4. ASSUME NEW m
      PROVE  OwedIn(m) = 0
  <2>1. ASSUME NEW k
        PROVE  SpendSinceMonth(k) = 0
    <3>1. Len(calls) = 0
      BY <1>1
    <3> QED BY <3>1, TotalIsSum DEF SpendSinceMonth
  <2> QED BY <2>1 DEF OwedIn
<1> QED BY <1>3, <1>4 DEF Ledger!Init, Ledger!Months, Ledger!Days, Ledger!MonthOf,
                          Months, Days, MonthOf

\* A step that prices no row is one the abstract ledger does not see.
LEMMA UnpricedStepsStutter ==
    ASSUME TypeOK, TypeOK', KeptRows, \A i \in DOMAIN calls : calls'[i].actual = calls[i].actual
    PROVE  UNCHANGED Ledger!ledger
<1>1. \A d, v : BilledOn(d)' = BilledOn(d) /\ VisitorCallsOn(v, d)' = VisitorCallsOn(v, d)
  BY KeptRowsCountTheSame
<1>2. \A m : OpenIn(m)' = OpenIn(m)
  <2>1. /\ Billed' = Billed
        /\ \A i \in Billed : calls'[i].day = calls[i].day /\ calls'[i].actual = calls[i].actual
    BY KeptRowsCountTheSame DEF KeptRows, Billed
  <2> QED BY <2>1 DEF OpenIn
<1>3. ASSUME NEW m
      PROVE  OwedIn(m)' = OwedIn(m)
  BY UnpricedSpend DEF OwedIn
<1> QED BY <1>1, <1>2, <1>3 DEF Ledger!ledger

\* A priced row is one reservation reconciled.
LEMMA PricedStepsReconcile ==
    ASSUME LedgerInv, TypeOK', KeptRows,
           NEW c \in Billed, NEW cost \in ActualCosts, PricedRow(c, cost)
    PROVE  \E m \in Months : Ledger!Reconcile(m, cost)
<1> DEFINE m == MonthOf(calls[c].day)
<1>1. TypeOK /\ LedgerRowsAreBounded
  BY DEF LedgerInv, IInv
<1>2. c \in DOMAIN calls /\ calls[c].day \in Days
  <2>1. c \in DOMAIN calls /\ calls[c].day \in Nat /\ calls[c].day <= day
    BY <1>1, CallType DEF Billed, Call, LedgerRowsAreBounded
  <2> QED BY <1>1, <2>1, BoundsAreNaturals DEF TypeOK, Days
<1>3. m \in Months /\ m \in Nat
  BY <1>2, MonthType, BoundsAreNaturals DEF Months, Days
<1>4. \A d, v : BilledOn(d)' = BilledOn(d) /\ VisitorCallsOn(v, d)' = VisitorCallsOn(v, d)
  BY KeptRowsCountTheSame
<1>5. cost # NoCost /\ ReservedCost \in Nat /\ cost \in Nat
  BY ReservationIsAnUpperBound, CapsAreNaturals DEF NoCost
<1>6. c \in OpenIn(m) /\ \A k : OpenIn(k)' = IF k = m THEN OpenIn(k) \ {c} ELSE OpenIn(k)
  <2>1. /\ Billed' = Billed
        /\ \A i \in Billed : calls'[i].day = calls[i].day
        /\ \A i \in Billed : i # c => calls'[i].actual = calls[i].actual
        /\ calls[c].actual = NoCost /\ calls'[c].actual = cost
    BY KeptRowsCountTheSame DEF KeptRows, Billed, PricedRow
  <2> QED BY <1>5, <2>1 DEF OpenIn
<1> HIDE DEF m
<1>7. /\ Cardinality(OpenIn(m)) \in Nat /\ Cardinality(OpenIn(m)) > 0
      /\ \A k \in Months : Cardinality(OpenIn(k)') =
             IF k = m THEN Cardinality(OpenIn(k)) - 1 ELSE Cardinality(OpenIn(k))
  <2>1. IsFiniteSet(OpenIn(m))
    BY <1>1, LimitsCountNumbers
  <2>2. /\ Cardinality(OpenIn(m)) \in Nat
        /\ Cardinality(OpenIn(m) \ {c}) = Cardinality(OpenIn(m)) - 1
        /\ Cardinality(OpenIn(m) \ {c}) \in Nat
    BY <1>6, <2>1, FS_RemoveElement, FS_CardinalityType
  <2> QED BY <1>6, <2>2
<1>8. ASSUME NEW k \in Months
      PROVE  OwedIn(k)' = IF k = m THEN OwedIn(k) - (ReservedCost - cost) ELSE OwedIn(k)
  <2>1. k \in Nat
    BY MonthType, BoundsAreNaturals DEF Months, Days
  <2>2. /\ SpendSinceMonth(k)' = SpendSinceMonth(k) + (IF m >= k THEN cost - ReservedCost ELSE 0)
        /\ SpendSinceMonth(k + 1)' = SpendSinceMonth(k + 1)
               + (IF m >= k + 1 THEN cost - ReservedCost ELSE 0)
    BY <1>1, PricedSpend DEF m
  <2>3. SpendSinceMonth(k) \in Nat /\ SpendSinceMonth(k + 1) \in Nat
    BY <1>1, SpendType
  <2> QED BY <1>3, <1>5, <2>1, <2>2, <2>3 DEF OwedIn
<1>9. /\ [d \in Days |-> Cardinality(BilledOn(d))]' = [d \in Days |-> Cardinality(BilledOn(d))]
      /\ [v \in Visitors |-> [d \in Days |-> Cardinality(VisitorCallsOn(v, d))]]'
             = [v \in Visitors |-> [d \in Days |-> Cardinality(VisitorCallsOn(v, d))]]
  BY <1>4
<1>10. [k \in Months |-> Cardinality(OpenIn(k))]' =
           [[k \in Months |-> Cardinality(OpenIn(k))] EXCEPT ![m] = @ - 1]
  BY <1>3, <1>7
<1>11. [k \in Months |-> OwedIn(k)]' =
           [[k \in Months |-> OwedIn(k)] EXCEPT ![m] = @ - (ReservedCost - cost)]
  BY <1>3, <1>8
<1>12. [k \in Months |-> Cardinality(OpenIn(k))][m] > 0
  BY <1>3, <1>7
<1> QED BY <1>3, <1>9, <1>10, <1>11, <1>12 DEF Ledger!Reconcile

\* A granted commit is one reservation, let through below every limit.
LEMMA GrantedCommitsReserve ==
    ASSUME LedgerInv, NEW w \in Workers, CommitReservation(w), worker[w].verdict = "grant"
    PROVE  \E v \in Visitors, d \in Days : Ledger!Reserve(v, d)
<1> DEFINE v == jobs[worker[w].job].visitor
           d == worker[w].day
           m == MonthOf(d)
           id == Len(calls) + 1
<1>1. TypeOK /\ LedgerRowsAreBounded /\ IInv
  BY DEF LedgerInv, IInv
<1>2. /\ v \in Visitors /\ worker[w].pc = "deciding"
      /\ DOMAIN calls' = DOMAIN calls \cup {id} /\ id \notin DOMAIN calls
      /\ calls'[id] = CommittedRow(w)
      /\ \A i \in DOMAIN calls : calls'[i] = calls[i]
  BY <1>1, CommitAppends
<1>3. /\ calls'[id].visitor = v /\ calls'[id].day = d
      /\ calls'[id].status = "reserved" /\ calls'[id].actual = NoCost
  BY <1>2 DEF CommittedRow
<1>4. d \in Days
  <2>1. worker[w] \in WorkerState /\ d <= day
    BY <1>1 DEF TypeOK, LedgerRowsAreBounded
  <2>2. d \in Nat
    BY <2>1 DEF WorkerState
  <2> QED BY <1>1, <2>1, <2>2, BoundsAreNaturals DEF TypeOK, Days
<1>5. m \in Months /\ m \in Nat
  BY <1>4, MonthType, BoundsAreNaturals DEF Months, Days
<1>6. ~capDenialReason(v, d)
  BY <1>2 DEF LedgerInv, LimitsAreCurrent
<1>7. /\ ~(SpendSinceMonth(m) + ReservedCost > MonthlyCap)
      /\ SpendSinceMonth(m) \in Nat /\ SpendSinceMonth(m + 1) \in Nat
      /\ ReservedCost \in Nat /\ MonthlyCap \in Nat
  BY <1>1, <1>6, SpendType, CapsAreNaturals DEF capDenialReason
<1>8. \A k \in Months :
          OwedIn(k)' = IF k = m THEN OwedIn(k) + ReservedCost ELSE OwedIn(k)
  <2> SUFFICES ASSUME NEW k \in Months
               PROVE  OwedIn(k)' = IF k = m THEN OwedIn(k) + ReservedCost ELSE OwedIn(k)
    OBVIOUS
  <2>1. k \in Nat
    BY MonthType, BoundsAreNaturals DEF Months, Days
  <2>2. /\ SpendSinceMonth(k)' = SpendSinceMonth(k) + (IF m >= k THEN ReservedCost ELSE 0)
        /\ SpendSinceMonth(k + 1)' = SpendSinceMonth(k + 1)
               + (IF m >= k + 1 THEN ReservedCost ELSE 0)
    BY <1>1, CommittedSpend
  <2>3. SpendSinceMonth(k) \in Nat /\ SpendSinceMonth(k + 1) \in Nat
    BY <1>1, SpendType
  <2> HIDE DEF m
  <2> QED BY <1>5, <1>7, <2>1, <2>2, <2>3 DEF OwedIn
<1> HIDE DEF v, id
<1>9. Billed' = Billed \cup {id} /\ id \notin Billed /\ \A i \in Billed : calls'[i] = calls[i]
  BY <1>2, <1>3 DEF Billed
<1>10. \A e : BilledOn(e)' = IF e = d THEN BilledOn(e) \cup {id} ELSE BilledOn(e)
  BY <1>3, <1>9 DEF BilledOn
<1>11. \A e, u : VisitorCallsOn(u, e)' = IF e = d /\ u = v THEN VisitorCallsOn(u, e) \cup {id}
                                        ELSE VisitorCallsOn(u, e)
  BY <1>3, <1>9 DEF VisitorCallsOn, BilledOn
<1>12. \A k : OpenIn(k)' = IF k = m THEN OpenIn(k) \cup {id} ELSE OpenIn(k)
  BY <1>3, <1>9 DEF OpenIn
<1>13. /\ id \notin BilledOn(d) /\ id \notin VisitorCallsOn(v, d) /\ id \notin OpenIn(m)
       /\ IsFiniteSet(BilledOn(d)) /\ IsFiniteSet(VisitorCallsOn(v, d)) /\ IsFiniteSet(OpenIn(m))
  BY <1>1, <1>9, LimitsCountNumbers DEF BilledOn, VisitorCallsOn, OpenIn
<1>14. /\ Cardinality(BilledOn(d) \cup {id}) = Cardinality(BilledOn(d)) + 1
       /\ Cardinality(VisitorCallsOn(v, d) \cup {id}) = Cardinality(VisitorCallsOn(v, d)) + 1
       /\ Cardinality(OpenIn(m) \cup {id}) = Cardinality(OpenIn(m)) + 1
  <2> HIDE DEF d, m
  <2> QED BY <1>13, FS_AddElement
<1>15. /\ Cardinality(BilledOn(d)) < GlobalDailyCap
       /\ Cardinality(VisitorCallsOn(v, d)) < VisitorDailyCap
  <2>1. BilledOn(d) \subseteq BilledSince(d) /\ VisitorCallsOn(v, d) \subseteq VisitorCallsSince(v, d)
    <3>1. d \in Int
      BY <1>4, BoundsAreNaturals DEF Days
    <3> HIDE DEF d
    <3> QED BY <3>1 DEF BilledOn, BilledSince, VisitorCallsOn, VisitorCallsSince
  <2>2. IsFiniteSet(BilledSince(d)) /\ IsFiniteSet(VisitorCallsSince(v, d))
    BY <1>1, LimitsCountNumbers
  <2> HIDE DEF d
  <2>3. /\ Cardinality(BilledOn(d)) <= Cardinality(BilledSince(d))
        /\ Cardinality(VisitorCallsOn(v, d)) <= Cardinality(VisitorCallsSince(v, d))
        /\ Cardinality(BilledOn(d)) \in Nat /\ Cardinality(VisitorCallsOn(v, d)) \in Nat
        /\ Cardinality(BilledSince(d)) \in Nat /\ Cardinality(VisitorCallsSince(v, d)) \in Nat
    BY <1>13, <2>1, <2>2, FS_Subset, FS_CardinalityType
  <2>4. /\ ~(Cardinality(VisitorCallsSince(v, d)) >= VisitorDailyCap)
        /\ ~(Cardinality(BilledSince(d)) >= GlobalDailyCap)
    BY <1>6 DEF capDenialReason
  <2> QED BY <2>3, <2>4, CapsAreNaturals
<1>16. OwedIn(m) + ReservedCost <= MonthlyCap
  BY <1>7 DEF OwedIn
<1> HIDE DEF d
<1>17. /\ [e \in Days |-> Cardinality(BilledOn(e))]' =
              [[e \in Days |-> Cardinality(BilledOn(e))] EXCEPT ![d] = @ + 1]
       /\ [e \in Days |-> Cardinality(BilledOn(e))][d] < GlobalDailyCap
  BY <1>4, <1>10, <1>14, <1>15
<1>18. /\ [u \in Visitors |-> [e \in Days |-> Cardinality(VisitorCallsOn(u, e))]]' =
              [[u \in Visitors |-> [e \in Days |-> Cardinality(VisitorCallsOn(u, e))]]
                  EXCEPT ![v][d] = @ + 1]
       /\ [u \in Visitors |-> [e \in Days |-> Cardinality(VisitorCallsOn(u, e))]][v][d]
              < VisitorDailyCap
  BY <1>2, <1>4, <1>11, <1>14, <1>15
<1>19. /\ [k \in Months |-> Cardinality(OpenIn(k))]' =
              [[k \in Months |-> Cardinality(OpenIn(k))] EXCEPT ![m] = @ + 1]
       /\ [k \in Months |-> OwedIn(k)]' =
              [[k \in Months |-> OwedIn(k)] EXCEPT ![m] = @ + ReservedCost]
       /\ [k \in Months |-> OwedIn(k)][m] + ReservedCost <= MonthlyCap
  <2> HIDE DEF m
  <2> QED BY <1>5, <1>8, <1>12, <1>14, <1>16
<1>20. Ledger!MonthOf(d) = m
  BY DEF Ledger!MonthOf, MonthOf
<1> HIDE DEF m
<1>21. Ledger!Reserve(v, d)
  BY <1>17, <1>18, <1>19, <1>20 DEF Ledger!Reserve
<1> QED BY <1>2, <1>4, <1>21

\* Every step is one of the abstract ledger's, or invisible to it.
LEMMA LedgerSteps == LedgerInv /\ TypeOK' /\ [Next]_vars => [Ledger!Next]_(Ledger!ledger)
<1> SUFFICES ASSUME LedgerInv, TypeOK', [Next]_vars
             PROVE  Ledger!Next \/ UNCHANGED Ledger!ledger
  OBVIOUS
<1>1. TypeOK /\ IInv /\ LedgerRowsAreBounded
  BY DEF LedgerInv, IInv
<1>2. Months = Ledger!Months /\ Days = Ledger!Days
  BY DEF Months, Ledger!Months, Days, Ledger!Days, MonthOf, Ledger!MonthOf
<1>3. CASE \A w \in Workers : ~CommitReservation(w)
  <2>1. SettledRows
    BY <1>1, <1>3, OnlySettlementsPrice
  <2>2. CASE \A i \in DOMAIN calls : calls'[i].actual = calls[i].actual
    BY <1>1, <2>1, <2>2, UnpricedStepsStutter DEF SettledRows
  <2>3. ASSUME NEW c \in Billed, NEW cost \in ActualCosts, PricedRow(c, cost)
        PROVE  Ledger!Next
    <3>1. \E m \in Months : Ledger!Reconcile(m, cost)
      BY <2>1, <2>3, PricedStepsReconcile DEF SettledRows
    <3> QED BY <1>2, <3>1 DEF Ledger!Next
  <2> QED BY <2>1, <2>2, <2>3 DEF SettledRows
<1>4. ASSUME NEW w \in Workers, CommitReservation(w), worker[w].verdict = "grant"
      PROVE  Ledger!Next
  <2>1. \E v \in Visitors, d \in Days : Ledger!Reserve(v, d)
    BY <1>4, GrantedCommitsReserve
  <2> QED BY <1>2, <2>1 DEF Ledger!Next
<1>5. ASSUME NEW w \in Workers, CommitReservation(w), worker[w].verdict # "grant"
      PROVE  UNCHANGED Ledger!ledger
  <2> DEFINE id == Len(calls) + 1
  <2>1. /\ DOMAIN calls' = DOMAIN calls \cup {id} /\ id \notin DOMAIN calls
        /\ calls'[id] = CommittedRow(w)
        /\ \A i \in DOMAIN calls : calls'[i] = calls[i]
    BY <1>1, <1>5, CommitAppends
  <2>2. calls'[id].status = "denied"
    BY <1>5, <2>1 DEF CommittedRow
  <2> HIDE DEF id
  <2>3. Billed' = Billed /\ \A i \in Billed : calls'[i] = calls[i]
    BY <2>1, <2>2 DEF Billed
  <2>4. \A d, v, m : /\ BilledOn(d)' = BilledOn(d) /\ VisitorCallsOn(v, d)' = VisitorCallsOn(v, d)
                     /\ OpenIn(m)' = OpenIn(m)
    BY <2>3 DEF BilledOn, VisitorCallsOn, OpenIn
  <2>5. ASSUME NEW m
        PROVE  OwedIn(m)' = OwedIn(m)
    <3>1. ASSUME NEW k
          PROVE  SpendSinceMonth(k)' = SpendSinceMonth(k)
      <4>1. SpendSinceMonth(k)' = SpendSinceMonth(k) + 0
        BY <1>1, <1>5, CommittedSpend
      <4> QED BY <1>1, <4>1, SpendType
    <3> QED BY <3>1 DEF OwedIn
  <2> QED BY <2>4, <2>5 DEF Ledger!ledger
<1> QED BY <1>3, <1>4, <1>5

\* However reservations overlap and whenever costs arrive, the ledger of model_calls behaves
\* as one that looks at every limit and takes its share in a single step (jobs.ts
\* reserveModelCall, modelCaps), for any number of workers, visitors, days and drafts.
THEOREM LedgerIsRefined == Spec => RefinesSpendLedger
<1>1. LedgerInv => TypeOK
  BY DEF LedgerInv, IInv
<1> QED BY <1>1, LedgerInvHolds, LedgerStartsEmpty, LedgerSteps, PTL
        DEF Spec, RefinesSpendLedger, Ledger!Spec

Proven == INSTANCE SpendLedgerProofs WITH
    owed <- [m \in Months |-> OwedIn(m)],
    open <- [m \in Months |-> Cardinality(OpenIn(m))],
    calls <- [d \in Days |-> Cardinality(BilledOn(d))],
    asked <- [v \in Visitors |-> [d \in Days |-> Cardinality(VisitorCallsOn(v, d))]]

\* No month ever costs more than its limit and no day holds more calls than the demo's
\* limit, nor more of one visitor's than the browser limit (jobs.ts modelCaps).
THEOREM LimitsAreNeverPassed == Spec => []Ledger!WithinCaps
<1>1. Proven!Bounded
  BY BoundsAreNaturals, CapsAreNaturals, ReservationIsAnUpperBound DEF Proven!Bounded
<1>2. Ledger!Init => Proven!Init
  BY DEF Ledger!Init, Ledger!Months, Ledger!Days, Ledger!MonthOf,
         Proven!Init, Proven!Months, Proven!Days, Proven!MonthOf
<1>3. [Ledger!Next]_(Ledger!ledger) => [Proven!Next]_(Proven!ledger)
  BY DEF Ledger!Next, Ledger!ledger, Ledger!Reserve, Ledger!Reconcile, Ledger!Months,
         Ledger!Days, Ledger!MonthOf, Proven!Next, Proven!ledger, Proven!Reserve,
         Proven!Reconcile, Proven!Months, Proven!Days, Proven!MonthOf
<1>4. Proven!Spec => []Proven!WithinCaps
  BY <1>1, Proven!LedgerStaysWithinCaps
<1>5. Proven!WithinCaps => Ledger!WithinCaps
  BY DEF Proven!WithinCaps, Ledger!WithinCaps, Ledger!Months, Ledger!Days, Ledger!MonthOf,
         Proven!Months, Proven!Days, Proven!MonthOf
<1>6. Spec => Ledger!Init /\ [][Ledger!Next]_(Ledger!ledger)
  BY LedgerIsRefined DEF RefinesSpendLedger, Ledger!Spec
<1> QED BY <1>2, <1>3, <1>4, <1>5, <1>6, PTL DEF Proven!Spec

==============================================================================
