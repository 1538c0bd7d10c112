------------------------------ MODULE ModelJobs ------------------------------
(***************************************************************************)
(* The model-preparation queue of One Door: src/models/jobs.ts (enqueue,   *)
(* reserve, retry), src/models/worker.ts (claim, dispatch, settle) and the *)
(* writes of src/models/persist.ts, over the tables model_jobs and         *)
(* model_calls.                                                            *)
(*                                                                         *)
(* One action is one database transaction, with two exceptions, so that    *)
(* they really overlap with the rest: the reservation is three steps (row  *)
(* locks, the advisory spend lock and the usage query, the insert and      *)
(* commit) and a successful settlement is two (row locks and the freshness *)
(* judgement, the writes and commit).  The provider call is the time a     *)
(* worker spends in "calling".                                             *)
(*                                                                         *)
(* Abstractions.  A logical job is its identity (purpose, draft, input     *)
(* hash, corpus hash, generation): the table's unique index, whose prompt  *)
(* version only a release changes.  A lease token is the worker that drew  *)
(* it, because a worker runs one pass at a time and a fresh process never  *)
(* remembers an older token.  Revision 0 is "no request"; a seeded         *)
(* request's revision 1 is the null pointer it is restored to.             *)
(***************************************************************************)
EXTENDS Integers, Sequences, FiniteSets

CONSTANTS
    Drafts,            \* draft rows; each carries at most one request
    FixtureDrafts,     \* the seeded ones, already submitted at the start
    Purposes,          \* the model purposes in play
    DraftInputs,       \* distinct contents a draft can hold
    Corpora,           \* distinct corpus states of a purpose
    SeedCorpus,        \* the corpus the fixture reset restores
    Visitors,
    Workers,
    None,              \* no owner, no job, no lock holder
    ReservedCost,      \* micros reserved for a dispatch
    ActualCosts,       \* micros the provider's usage can come to
    VisitorDailyCap,
    GlobalDailyCap,
    MonthlyCap,
    MaxDay,            \* bound: days the clock can advance
    DaysPerMonth,
    MaxRevision,       \* bound: content revisions of a request
    MaxGeneration,     \* bound: fixture generations
    MaxRetries,        \* bound: manual retries of one job
    MaxFaults          \* bound: crashes and stalls beyond a lease

PurposeNames == {"intake_interpret", "asset_match", "risk_assess"}

ASSUME FiniteInstance ==
    IsFiniteSet(Drafts) /\ IsFiniteSet(DraftInputs) /\ IsFiniteSet(Corpora)
ASSUME FixturesAreDrafts == FixtureDrafts \subseteq Drafts
ASSUME PurposesAreKnown == Purposes \subseteq PurposeNames
ASSUME InputsAreNaturals == DraftInputs \subseteq Nat
ASSUME SeedIsACorpus == SeedCorpus \in Corpora
ASSUME NoneIsNotAWorker == None \notin Workers
ASSUME CapsAreNaturals ==
    /\ ReservedCost \in Nat
    /\ VisitorDailyCap \in Nat
    /\ GlobalDailyCap \in Nat
    /\ MonthlyCap \in Nat
ASSUME BoundsAreNaturals ==
    /\ MaxDay \in Nat
    /\ DaysPerMonth \in Nat \ {0}
    /\ MaxRevision \in Nat \ {0}
    /\ MaxGeneration \in Nat \ {0}
    /\ MaxRetries \in Nat
    /\ MaxFaults \in Nat
\* provider.ts reserves one token per UTF-8 byte, so real usage never costs more.
ASSUME ReservationIsAnUpperBound == ActualCosts \subseteq 0 .. ReservedCost

VARIABLES
    drafts,       \* draft and request rows
    corpus,       \* the eligible corpus of each purpose
    jobs,         \* model_jobs
    calls,        \* model_calls, in insertion order: the spend ledger
    assessments,  \* proposals and failed assessments written by settlements
    worker,       \* what each worker process is doing
    readEarly,    \* job rows an open enqueue read before they succeeded
    spendLock,    \* holder of the advisory spend lock
    day,          \* the database clock, in days
    faults        \* crashes and stalls so far

vars == <<drafts, corpus, jobs, calls, assessments, worker, readEarly, spendLock, day, faults>>

------------------------------------------------------------------------------
(* Rows *)

maxAttemptsBeforeManualRetry == 2
intakeAttemptBudget == 2

\* The input hash after the answer that made revision r: answers accumulate,
\* so it equals no draft's input and no other revision's.
AnswerInput(r) == -r

Inputs == DraftInputs \cup {AnswerInput(r) : r \in 2 .. MaxRevision}

JobId == [purpose : Purposes, draft : Drafts, input : Inputs,
          corpus : Corpora, generation : 1 .. MaxGeneration]

Draft == [input : DraftInputs, revision : 0 .. MaxRevision,
          generation : 1 .. MaxGeneration, closed : BOOLEAN]

JobStatus == {"queued", "leased", "succeeded", "failed", "capped", "superseded"}
Undone == {"queued", "failed", "capped"}

\* created orders the queue; retries counts manual retries and is not a column.
Job == [status : JobStatus \cup {"absent"},
        attempts : 0 .. maxAttemptsBeforeManualRetry,
        owner : Workers \cup {None}, expired : BOOLEAN,
        call : Nat, revision : 0 .. MaxRevision,
        visitor : Visitors \cup {None}, created : Nat, retries : 0 .. MaxRetries]

AbsentJob == [status |-> "absent", attempts |-> 0, owner |-> None, expired |-> FALSE,
              call |-> 0, revision |-> 0, visitor |-> None, created |-> 0, retries |-> 0]

NoCost == -1

Call == [job : JobId, visitor : Visitors,
         status : {"reserved", "succeeded", "failed", "denied"},
         reserved : {0, ReservedCost}, actual : ActualCosts \cup {NoCost}, day : Nat]

Assessment == [job : JobId, revision : 0 .. MaxRevision, call : Nat,
               outcome : {"succeeded", "failed"}]

WorkerState == [pc : {"idle", "claimed", "gated", "fresh", "locking", "deciding", "calling",
                      "settling"},
                job : JobId \cup {None}, revision : 0 .. MaxRevision, call : Nat,
                verdict : {"none", "stale", "exhausted", "grant", "budget", "quota", "current"},
                day : Nat, holdsRequest : BOOLEAN]

Idle == [pc |-> "idle", job |-> None, revision |-> 0, call |-> 0,
         verdict |-> "none", day |-> 0, holdsRequest |-> FALSE]

------------------------------------------------------------------------------
(* Input identity and freshness *)

\* effectiveInput: the request's content once a job is attached, else the draft's.
\* A seeded request keeps its content: nobody owns it, so nobody answers on it.
EffectiveInput(d, row, attached) ==
    IF attached /\ row.revision > 1 /\ d \notin FixtureDrafts
    THEN AnswerInput(row.revision) ELSE row.input

EffectiveGeneration(row, attached) == IF attached THEN row.generation ELSE 1

Identity(p, d, row, attached) ==
    [purpose |-> p, draft |-> d, input |-> EffectiveInput(d, row, attached),
     corpus |-> corpus[p], generation |-> EffectiveGeneration(row, attached)]

\* freshState: does a job, seen with revision r, still answer about the row?
Answers(j, r, row) ==
    /\ j.input = EffectiveInput(j.draft, row, r # 0)
    /\ r # 0 => r = row.revision
    /\ j.generation = EffectiveGeneration(row, r # 0)

\* Mutant: only the corpus is compared, the request's content and revision are not.
FreshCorpusOnly(j, r) == r >= 0 /\ j.corpus = corpus[j.purpose]

Fresh(j, r) == Answers(j, r, drafts[j.draft]) /\ j.corpus = corpus[j.purpose]

------------------------------------------------------------------------------
(* The ledger: readUsage and intakeAttemptsUsed *)

Billed == {i \in DOMAIN calls : calls[i].status # "denied"}
BilledSince(d) == {i \in Billed : calls[i].day >= d}
VisitorCallsSince(v, d) == {i \in BilledSince(d) : calls[i].visitor = v}
IntakeCalls(d) ==
    {i \in Billed : calls[i].job.draft = d /\ calls[i].job.purpose = "intake_interpret"}

\* A call counts at its reserved cost until an actual cost reconciles it.
Cost(c) == IF c.actual = NoCost THEN c.reserved ELSE c.actual

MonthOf(d) == d \div DaysPerMonth

\* What the ledger sums: the rows of a month and of every later one.
SpentSince(c, m) == IF c.status # "denied" /\ MonthOf(c.day) >= m THEN Cost(c) ELSE 0

Total(costs, n) ==
    LET sum[i \in 0 .. n] == IF i = 0 THEN 0 ELSE sum[i - 1] + costs[i] IN sum[n]

SpendSinceMonth(m) == Total([i \in DOMAIN calls |-> SpentSince(calls[i], m)], Len(calls))

capDenialReason(v, d) ==
    \/ Cardinality(VisitorCallsSince(v, d)) >= VisitorDailyCap
    \/ Cardinality(BilledSince(d)) >= GlobalDailyCap
    \/ SpendSinceMonth(MonthOf(d)) + ReservedCost > MonthlyCap

\* Mutant: the budget counts the attempts of one logical job.
OverJobBudget(j) ==
    /\ j.purpose = "intake_interpret"
    /\ Cardinality({i \in Billed : calls[i].job = j}) >= intakeAttemptBudget

OverIntakeBudget(j) ==
    /\ j.purpose = "intake_interpret"
    /\ Cardinality(IntakeCalls(j.draft)) >= intakeAttemptBudget

------------------------------------------------------------------------------
(* Row locks held between the steps of a worker's transaction *)

InTransaction(w) == worker[w].pc \in {"locking", "deciding", "settling"}
JobUnlocked(j) == \A w \in Workers : ~(InTransaction(w) /\ worker[w].job = j)

\* Mutant: workers take no request lock.
RequestNeverLocked(d) == drafts[d].revision >= 0

RequestUnlocked(d) ==
    \A w \in Workers :
        ~(InTransaction(w) /\ worker[w].holdsRequest /\ worker[w].job.draft = d)

\* Mutant: the status is checked, the lease token is not.
LeasedByAnyone(w) == jobs[worker[w].job].status = "leased"

\* lockOwnedJob: the row is leased under the caller's token.
Owned(w) == /\ jobs[worker[w].job].status = "leased"
            /\ jobs[worker[w].job].owner = w

Released(job, status) ==
    [job EXCEPT !.status = status, !.owner = None, !.expired = FALSE]

ReviewClosed(d) == drafts[d].revision > 0 /\ drafts[d].closed

\* Mutant: the reclaim and the reset leave the old reservation as it is.
Unreconciled(ids) == [i \in DOMAIN calls |-> calls[i]]

\* The reservations among ids become failed; other outcomes stay.
Reconciled(ids) ==
    [i \in DOMAIN calls |->
        IF i \in ids /\ calls[i].status = "reserved"
        THEN [calls[i] EXCEPT !.status = "failed"] ELSE calls[i]]

------------------------------------------------------------------------------
(* Enqueue *)

NextStamp == Cardinality({j \in JobId : jobs[j].status # "absent"}) + 1

QueuedJob(row, attached, v) ==
    [AbsentJob EXCEPT !.status = "queued", !.visitor = v, !.created = NextStamp,
                      !.revision = IF attached THEN row.revision ELSE 0]

\* enqueueJobInTx on one row of the table: reuse the identity, perhaps attaching
\* the request; or insert it and supersede the draft's other undone jobs.
EnqueuedJob(j, id, row, attached, v) ==
    IF jobs[id].status = "absent"
    THEN IF j = id THEN QueuedJob(row, attached, v)
         ELSE IF jobs[j].status \in Undone
         THEN [jobs[j] EXCEPT !.status = "superseded"] ELSE jobs[j]
    ELSE IF j = id /\ attached /\ jobs[j].revision = 0
    THEN [jobs[j] EXCEPT !.revision = row.revision] ELSE jobs[j]

\* Mutant: a stored result is never copied to the revision it now answers.
NeverReused(id, row, attached) == {}

\* attachRevisionReuse: a stored asset result answers for the new revision too.
Reused(id, row, attached) ==
    LET copy == [job |-> id, revision |-> row.revision,
                 call |-> jobs[id].call, outcome |-> "succeeded"]
        attachedAlready == \E a \in assessments :
                               a.call = jobs[id].call /\ a.revision = row.revision
    IN  IF /\ jobs[id].status = "succeeded"
           /\ attached
           /\ id.purpose = "asset_match"
           /\ ~attachedAlready
        THEN {copy} ELSE {}

\* The whole enqueue of purposes P for draft d, whose row is row on commit.  The
\* status of a job is read without its lock: a job missed was read before it
\* succeeded, and its update waited for the settlement that it does not see.
Enqueue(P, d, row, attached, v) ==
    LET id(p) == Identity(p, d, row, attached)
        ids == {id(p) : p \in P}
    IN
    /\ \A p \in P : /\ id(p) \in JobId
                    /\ jobs[id(p)].status = "absent" => ~OverIntakeBudget(id(p))
                    /\ attached /\ jobs[id(p)].revision = 0 => JobUnlocked(id(p))
    /\ jobs' = [j \in JobId |->
                   IF j.draft = d /\ j.purpose \in P
                   THEN EnqueuedJob(j, id(j.purpose), row, attached, v)
                   ELSE jobs[j]]
    /\ \E missed \in SUBSET (ids \cap readEarly) :
           /\ assessments' = assessments \cup
                  UNION {Reused(i, row, attached) : i \in ids \ missed}
           /\ readEarly' = readEarly \ missed

ReviewPurposes == Purposes \cap {"asset_match", "risk_assess"}

------------------------------------------------------------------------------
(* Requesters, reviewers and the clock *)

\* An enqueue of draft d that is still open has read the row of a job it is going to
\* attach.  Later it matters only for an asset job that succeeds before the commit:
\* the others have no result to copy.
ReadBeforeResult(d) ==
    /\ \E p \in Purposes \cap {"asset_match"} :
           LET j == Identity(p, d, drafts[d], TRUE) IN
           /\ j \in JobId \ readEarly
           /\ jobs[j].status \notin {"absent", "succeeded"}
           /\ jobs[j].revision = 0
           /\ readEarly' = readEarly \cup {j}
    /\ UNCHANGED <<drafts, corpus, jobs, calls, assessments, worker, spendLock, day, faults>>

\* The requester changes a draft that is not submitted.  The draft is locked, so
\* no submission that read a job before is still open.
EditDraft(d) ==
    /\ drafts[d].revision = 0
    /\ \E i \in DraftInputs \ {drafts[d].input} :
           drafts' = [drafts EXCEPT ![d].input = i]
    /\ readEarly' = {j \in readEarly : j.draft # d}
    /\ UNCHANGED <<corpus, jobs, calls, assessments, worker, spendLock, day, faults>>

\* submitRequest: request, revision 1 and the two review jobs in one transaction.
Submit(d, v) ==
    LET row == [drafts[d] EXCEPT !.revision = 1] IN
    /\ drafts[d].revision = 0
    /\ drafts' = [drafts EXCEPT ![d] = row]
    /\ Enqueue(ReviewPurposes, d, row, TRUE, v)
    /\ UNCHANGED <<corpus, calls, worker, spendLock, day, faults>>

\* askClarification on a seeded request: ensureCurrentRevision gives it a revision
\* to cite, with the content it has.  A submitted request has one already.
AskClarification(d) ==
    /\ d \in FixtureDrafts
    /\ drafts[d].revision = 1
    /\ drafts[d].revision < MaxRevision
    /\ ~drafts[d].closed
    /\ RequestUnlocked(d)
    /\ drafts' = [drafts EXCEPT ![d].revision = @ + 1]
    /\ UNCHANGED <<corpus, jobs, calls, assessments, worker, readEarly, spendLock, day, faults>>

\* answerClarification by the request's owner: a new revision and both review
\* jobs, under the request lock.
AnswerClarification(d, v) ==
    LET row == [drafts[d] EXCEPT !.revision = @ + 1] IN
    /\ d \notin FixtureDrafts
    /\ drafts[d].revision \in 1 .. MaxRevision - 1
    /\ ~drafts[d].closed
    /\ RequestUnlocked(d)
    /\ drafts' = [drafts EXCEPT ![d] = row]
    /\ Enqueue(ReviewPurposes, d, row, TRUE, v)
    /\ UNCHANGED <<corpus, calls, worker, spendLock, day, faults>>

\* queueModel.  allowModelWork looks at the review, or at the draft of a caller that
\* names no request, in a transaction of its own: every review was open and every
\* draft a visitor owns was unsubmitted once, so nothing is left of the gate here.
EnqueueModelJob(p, d, v) ==
    /\ \E attached \in BOOLEAN :
           /\ IF attached THEN drafts[d].revision > 0 ELSE d \notin FixtureDrafts
           /\ Enqueue({p}, d, drafts[d], attached, v)
    /\ UNCHANGED <<drafts, corpus, calls, worker, spendLock, day, faults>>

\* retryModel, behind the same gate: only a failed or capped job, charged to whoever
\* retries it.
RetryModelJob(j, v) ==
    /\ jobs[j].status \in {"failed", "capped"}
    /\ jobs[j].retries < MaxRetries
    /\ jobs' = [jobs EXCEPT ![j].status = "queued", ![j].attempts = 0,
                            ![j].visitor = v, ![j].retries = @ + 1]
    /\ UNCHANGED <<drafts, corpus, calls, assessments, worker, readEarly, spendLock, day, faults>>

\* completeFirstReview as this queue sees it: the stage changes under the request lock.
CompleteFirstReview(d) ==
    /\ drafts[d].revision > 0
    /\ ~drafts[d].closed
    /\ RequestUnlocked(d)
    /\ drafts' = [drafts EXCEPT ![d].closed = TRUE]
    /\ UNCHANGED <<corpus, jobs, calls, assessments, worker, readEarly, spendLock, day, faults>>

\* The catalog changes, under intake and asset matching alike.  Offerings and
\* policy rules are only ever written by the seed.
WithCatalog(c) == [p \in Purposes |-> IF p = "risk_assess" THEN SeedCorpus ELSE c]

ChangeCatalog ==
    /\ \E c \in Corpora : corpus' = WithCatalog(c)
    /\ UNCHANGED <<drafts, jobs, calls, assessments, worker, readEarly, spendLock, day, faults>>

\* advanceStrandedGenerations: a completion, a question (a seeded request is past
\* revision 1 exactly while one is open) or a live assessment.  A resolution
\* strands a request too and is not kept here.
Stranded(d) ==
    \/ drafts[d].closed
    \/ drafts[d].revision > 1
    \/ \E a \in assessments :
           a.job.draft = d /\ a.job.generation = drafts[d].generation

\* resetFixtureState: every undone fixture job is superseded, its reservation
\* reconciled, and the seeded content and catalog restored.
ResetFixtureState ==
    \E others \in SUBSET FixtureDrafts :
        LET hit == {j \in JobId : /\ j.draft \in FixtureDrafts
                                  /\ jobs[j].status \in {"queued", "leased"}}
            advanced == others \cup {d \in FixtureDrafts : Stranded(d)}
        IN
        /\ FixtureDrafts # {}
        /\ \A d \in FixtureDrafts : RequestUnlocked(d)
        /\ \A d \in advanced : drafts[d].generation < MaxGeneration
        /\ jobs' = [j \in JobId |->
                       IF j \in hit THEN Released(jobs[j], "superseded") ELSE jobs[j]]
        /\ calls' = Reconciled({jobs[j].call : j \in hit})
        /\ drafts' = [d \in Drafts |->
                         IF d \in FixtureDrafts
                         THEN [drafts[d] EXCEPT !.revision = 1, !.closed = FALSE,
                               !.generation = IF d \in advanced THEN @ + 1 ELSE @]
                         ELSE drafts[d]]
        /\ corpus' = WithCatalog(SeedCorpus)
        /\ UNCHANGED <<assessments, worker, readEarly, spendLock, day, faults>>

NextDay ==
    /\ day < MaxDay
    /\ day' = day + 1
    /\ UNCHANGED <<drafts, corpus, jobs, calls, assessments, worker, readEarly, spendLock, faults>>

------------------------------------------------------------------------------
(* Worker: claim and the gates before dispatch *)

\* Mutant: an expired lease is never taken over.
ClaimableIfQueued(j) == jobs[j].status = "queued" /\ JobUnlocked(j)

Claimable(j) ==
    /\ jobs[j].status = "queued" \/ (jobs[j].status = "leased" /\ jobs[j].expired)
    /\ JobUnlocked(j)

\* claimJob: a fresh token; the reservation of an expired lease becomes failed.
ClaimJob(w, j) ==
    /\ worker[w].pc = "idle"
    /\ Claimable(j)
    /\ calls' = Reconciled(IF jobs[j].status = "leased" THEN {jobs[j].call} ELSE {})
    /\ jobs' = [jobs EXCEPT ![j].status = "leased", ![j].owner = w, ![j].expired = FALSE]
    /\ worker' = [worker EXCEPT ![w] = [Idle EXCEPT !.pc = "claimed", !.job = j,
                                                    !.revision = jobs[j].revision]]
    /\ UNCHANGED <<drafts, corpus, assessments, readEarly, spendLock, day, faults>>

purposeRank(p) == CASE p = "intake_interpret" -> 0 [] p = "asset_match" -> 1 [] OTHER -> 2

Before(j, k) ==
    \/ jobs[j].created < jobs[k].created
    \/ jobs[j].created = jobs[k].created /\ purposeRank(j.purpose) < purposeRank(k.purpose)

\* The claim in the queue's order; SKIP LOCKED lets a claim pass over a row
\* that any transaction holds, so ClaimJob alone may take any claimable job.
ClaimOldest(w) ==
    \E j \in JobId :
        /\ ClaimJob(w, j)
        /\ \A k \in JobId : Claimable(k) => ~Before(k, j)

\* Mutant: off by one.
AttemptsOverspent(job) == job.attempts > maxAttemptsBeforeManualRetry

AttemptsSpent(job) == job.attempts >= maxAttemptsBeforeManualRetry

\* preDispatch: freshness is read before any lock, with the claimed row.
PreDispatch(w) ==
    LET j == worker[w].job
        gate == IF ~Fresh(j, worker[w].revision) THEN "stale"
                ELSE IF AttemptsSpent(jobs[j]) THEN "exhausted"
                ELSE "none"
    IN
    /\ worker[w].pc = "claimed"
    /\ worker' = [worker EXCEPT ![w].pc = IF gate = "none" THEN "fresh" ELSE "gated",
                                ![w].verdict = gate]
    /\ UNCHANGED <<drafts, corpus, jobs, calls, assessments, readEarly, spendLock, day, faults>>

\* persistFailedAssessment, for the purposes that keep one.
FailedAssessment(j, callId) ==
    IF j.purpose = "intake_interpret" \/ ReviewClosed(j.draft) THEN {}
    ELSE {[job |-> j, revision |-> jobs[j].revision, call |-> callId, outcome |-> "failed"]}

\* settleOwned with "superseded": the job moved on before dispatch.
SettleStale(w) ==
    LET j == worker[w].job IN
    /\ worker[w].pc = "gated"
    /\ worker[w].verdict = "stale"
    /\ JobUnlocked(j)
    /\ jobs' = IF Owned(w) THEN [jobs EXCEPT ![j] = Released(@, "superseded")] ELSE jobs
    /\ worker' = [worker EXCEPT ![w] = Idle]
    /\ UNCHANGED <<drafts, corpus, calls, assessments, readEarly, spendLock, day, faults>>

\* failDurablyBeforeDispatch: both attempts were spent by interrupted passes.
FailExhausted(w) ==
    LET j == worker[w].job IN
    /\ worker[w].pc = "gated"
    /\ worker[w].verdict = "exhausted"
    /\ JobUnlocked(j)
    /\ RequestUnlocked(j.draft)
    /\ jobs' = IF Owned(w) THEN [jobs EXCEPT ![j] = Released(@, "failed")] ELSE jobs
    /\ assessments' = IF Owned(w)
                      THEN assessments \cup FailedAssessment(j, jobs[j].call)
                      ELSE assessments
    /\ worker' = [worker EXCEPT ![w] = Idle]
    /\ UNCHANGED <<drafts, corpus, calls, readEarly, spendLock, day, faults>>

------------------------------------------------------------------------------
(* Worker: the reservation transaction *)

\* closedReviewGate and the ownership check: request lock, then job lock.
LockForReservation(w) ==
    LET j == worker[w].job
        open == Owned(w) /\ ~ReviewClosed(j.draft)
    IN
    /\ worker[w].pc = "fresh"
    /\ JobUnlocked(j)
    /\ RequestUnlocked(j.draft)
    /\ jobs' = IF Owned(w) /\ ~open
               THEN [jobs EXCEPT ![j] = Released(@, "superseded")] ELSE jobs
    /\ worker' = [worker EXCEPT ![w] =
                     IF open
                     THEN [@ EXCEPT !.pc = "locking", !.day = day,
                                    !.holdsRequest = drafts[j.draft].revision > 0]
                     ELSE Idle]
    /\ UNCHANGED <<drafts, corpus, calls, assessments, readEarly, spendLock, day, faults>>

\* Mutant: usage is read without the advisory lock.
NoSpendLock == spendLock \in Workers \cup {None}

SpendLockFree == spendLock = None

\* pg_advisory_xact_lock(SPEND_LOCK), then the budget and usage queries.
ReadUsage(w) ==
    LET j == worker[w].job
        denial == IF OverIntakeBudget(j) THEN "budget"
                  ELSE IF capDenialReason(jobs[j].visitor, worker[w].day) THEN "quota"
                  ELSE "grant"
    IN
    /\ worker[w].pc = "locking"
    /\ SpendLockFree
    /\ spendLock' = w
    /\ worker' = [worker EXCEPT ![w].pc = "deciding", ![w].verdict = denial]
    /\ UNCHANGED <<drafts, corpus, jobs, calls, assessments, readEarly, day, faults>>

\* The ledger row and the job row of the reservation, and the commit.
CommitReservation(w) ==
    LET j == worker[w].job
        id == Len(calls) + 1
        granted == worker[w].verdict = "grant"
        row == [job |-> j, visitor |-> jobs[j].visitor,
                status |-> IF granted THEN "reserved" ELSE "denied",
                reserved |-> IF granted THEN ReservedCost ELSE 0,
                actual |-> NoCost, day |-> worker[w].day]
        denied == IF worker[w].verdict = "budget" THEN "failed" ELSE "capped"
        job == IF granted
               THEN [jobs[j] EXCEPT !.attempts = jobs[j].attempts + 1, !.call = id]
               ELSE [Released(jobs[j], denied) EXCEPT !.call = id]
    IN
    /\ worker[w].pc = "deciding"
    /\ calls' = Append(calls, row)
    /\ jobs' = [jobs EXCEPT ![j] = job]
    /\ worker' = [worker EXCEPT ![w] =
                     IF granted
                     THEN [Idle EXCEPT !.pc = "calling", !.job = j, !.call = id]
                     ELSE Idle]
    /\ spendLock' = None
    /\ UNCHANGED <<drafts, corpus, assessments, readEarly, day, faults>>

------------------------------------------------------------------------------
(* Worker: settlement, once the provider answered *)

\* Settlements take the request lock, then the job lock.
CanSettle(w) ==
    /\ worker[w].pc = "calling"
    /\ JobUnlocked(worker[w].job)
    /\ RequestUnlocked(worker[w].job.draft)

\* recordLateCallEvidence: the status never flips, a known cost never changes.
LateEvidence(c, cost) ==
    [c EXCEPT !.status = IF @ = "reserved" THEN "failed" ELSE @,
              !.actual = IF c.status = "reserved" \/ @ = NoCost THEN cost ELSE @]

\* Without usable usage the actual cost stays unknown.
UsableCosts == ActualCosts \cup {NoCost}

\* Either settlement of a pass that lost its lease: cost evidence, nothing else.
SettleLate(w, cost) ==
    /\ CanSettle(w)
    /\ ~Owned(w)
    /\ calls' = [calls EXCEPT ![worker[w].call] = LateEvidence(@, cost)]
    /\ worker' = [worker EXCEPT ![w] = Idle]
    /\ UNCHANGED <<drafts, corpus, jobs, assessments, readEarly, spendLock, day, faults>>

\* settleFailure: provider error, bad output, unknown citation.
SettleFailure(w, cost) ==
    LET j == worker[w].job
        c == worker[w].call
        last == AttemptsSpent(jobs[j])
    IN
    /\ CanSettle(w)
    /\ Owned(w)
    /\ calls' = [calls EXCEPT ![c].status = "failed", ![c].actual = cost]
    /\ jobs' = [jobs EXCEPT ![j] = Released(@, IF last THEN "failed" ELSE "queued")]
    /\ assessments' = IF last THEN assessments \cup FailedAssessment(j, c) ELSE assessments
    /\ worker' = [worker EXCEPT ![w] = Idle]
    /\ UNCHANGED <<drafts, corpus, readEarly, spendLock, day, faults>>

\* finalizeSuccess takes its locks and judges freshness again with the row as it
\* is now, whatever request was attached while the provider worked.
JudgeResult(w) ==
    LET j == worker[w].job
        current == Fresh(j, jobs[j].revision) /\ ~ReviewClosed(j.draft)
    IN
    /\ CanSettle(w)
    /\ Owned(w)
    /\ worker' = [worker EXCEPT ![w].pc = "settling",
                                ![w].verdict = IF current THEN "current" ELSE "stale",
                                ![w].holdsRequest = drafts[j.draft].revision > 0]
    /\ UNCHANGED <<drafts, corpus, jobs, calls, assessments, readEarly, spendLock, day, faults>>

\* The receipt, the proposals of a current result, and the commit.
FinalizeSuccess(w, cost) ==
    LET j == worker[w].job
        c == worker[w].call
        current == worker[w].verdict = "current"
        result == [job |-> j, revision |-> jobs[j].revision, call |-> c,
                   outcome |-> "succeeded"]
    IN
    /\ worker[w].pc = "settling"
    /\ calls' = [calls EXCEPT ![c].status = "succeeded", ![c].actual = cost]
    /\ jobs' = [jobs EXCEPT ![j] = Released(@, IF current THEN "succeeded" ELSE "superseded")]
    /\ assessments' = IF current THEN assessments \cup {result} ELSE assessments
    /\ worker' = [worker EXCEPT ![w] = Idle]
    /\ UNCHANGED <<drafts, corpus, readEarly, spendLock, day, faults>>

------------------------------------------------------------------------------
(* Faults *)

\* The process dies or the pass throws: its transaction rolls back.
Crash(w) ==
    /\ worker[w].pc # "idle"
    /\ faults < MaxFaults
    /\ faults' = faults + 1
    /\ worker' = [worker EXCEPT ![w] = Idle]
    /\ spendLock' = IF spendLock = w THEN None ELSE spendLock
    /\ UNCHANGED <<drafts, corpus, jobs, calls, assessments, readEarly, day>>

\* No live pass works under the lease any more.
Abandoned(j) ==
    jobs[j].owner = None \/ worker[jobs[j].owner].job # j

Leased(j) == jobs[j].status = "leased" /\ ~jobs[j].expired

ExpireAbandonedLease(j) ==
    /\ Leased(j)
    /\ Abandoned(j)
    /\ jobs' = [jobs EXCEPT ![j].expired = TRUE]
    /\ UNCHANGED <<drafts, corpus, calls, assessments, worker, readEarly, spendLock, day, faults>>

\* A pass outlives its 120-second lease: a stalled process or a slow database.
ExpireLiveLease(j) ==
    /\ Leased(j)
    /\ ~Abandoned(j)
    /\ faults < MaxFaults
    /\ faults' = faults + 1
    /\ jobs' = [jobs EXCEPT ![j].expired = TRUE]
    /\ UNCHANGED <<drafts, corpus, calls, assessments, worker, readEarly, spendLock, day>>

------------------------------------------------------------------------------
Init ==
    /\ \E input \in [Drafts -> DraftInputs] :
           drafts = [d \in Drafts |->
                        [input |-> input[d], revision |-> IF d \in FixtureDrafts THEN 1 ELSE 0,
                         generation |-> 1, closed |-> FALSE]]
    /\ corpus = [p \in Purposes |-> SeedCorpus]
    /\ jobs = [j \in JobId |-> AbsentJob]
    /\ calls = <<>>
    /\ assessments = {}
    /\ worker = [w \in Workers |-> Idle]
    /\ readEarly = {}
    /\ spendLock = None
    /\ day = 0
    /\ faults = 0

WorkerStep(w) ==
    \/ PreDispatch(w)
    \/ SettleStale(w)
    \/ FailExhausted(w)
    \/ LockForReservation(w)
    \/ ReadUsage(w)
    \/ CommitReservation(w)
    \/ JudgeResult(w)
    \/ \E cost \in UsableCosts :
           SettleLate(w, cost) \/ SettleFailure(w, cost) \/ FinalizeSuccess(w, cost)

UserStep ==
    \/ \E d \in Drafts :
           EditDraft(d) \/ ReadBeforeResult(d) \/ AskClarification(d) \/ CompleteFirstReview(d)
    \/ \E d \in Drafts, v \in Visitors :
           \/ Submit(d, v)
           \/ AnswerClarification(d, v)
           \/ \E p \in Purposes : EnqueueModelJob(p, d, v)
    \/ \E j \in JobId, v \in Visitors : RetryModelJob(j, v)
    \/ ChangeCatalog
    \/ ResetFixtureState

Next ==
    \/ UserStep
    \/ \E w \in Workers, j \in JobId : ClaimJob(w, j)
    \/ \E w \in Workers : WorkerStep(w) \/ Crash(w)
    \/ \E j \in JobId : ExpireAbandonedLease(j) \/ ExpireLiveLease(j)
    \/ NextDay

Spec == Init /\ [][Next]_vars

\* A worker keeps polling, its transactions end, and the provider answers or
\* times out; the clock reaches the end of every lease.  Users owe nothing.
Fairness ==
    /\ \A w \in Workers : WF_vars(ClaimOldest(w)) /\ WF_vars(WorkerStep(w))
    /\ \A j \in JobId : WF_vars(ExpireAbandonedLease(j))

FairSpec == Spec /\ Fairness

------------------------------------------------------------------------------
(* Properties *)

TypeOK ==
    /\ drafts \in [Drafts -> Draft]
    /\ corpus \in [Purposes -> Corpora]
    /\ jobs \in [JobId -> Job]
    /\ calls \in Seq(Call)
    /\ assessments \subseteq Assessment
    /\ worker \in [Workers -> WorkerState]
    /\ readEarly \subseteq JobId
    /\ spendLock \in Workers \cup {None}
    /\ day \in 0 .. MaxDay
    /\ faults \in 0 .. MaxFaults

\* A draft never buys a third intake attempt: not through a second content,
\* a manual retry (which resets attempt_count) or two workers at once.
IntakeBudgetHolds ==
    \A d \in Drafts : Cardinality(IntakeCalls(d)) <= intakeAttemptBudget

\* No reservation is orphaned: a reserved ledger row always belongs to the
\* leased job that points at it, so settlement, reclaim or reset will
\* reconcile it.
ReservationHasOwner ==
    \A i \in DOMAIN calls :
        calls[i].status = "reserved" =>
            /\ jobs[calls[i].job].status = "leased"
            /\ jobs[calls[i].job].call = i

\* One logical job is billed at most twice per manual mandate, whatever
\* crashes, reclaims and late answers happen (0005: at most one automatic retry).
AtMostOneAutomaticRetry ==
    \A j \in JobId :
        Cardinality({i \in Billed : calls[i].job = j}) <=
            maxAttemptsBeforeManualRetry * (1 + jobs[j].retries)

\* The revision an asset job names has no assessment from its call.
ResultIsMissing(j) ==
    /\ j.purpose = "asset_match"
    /\ jobs[j].status = "succeeded"
    /\ jobs[j].revision # 0
    /\ \A a \in assessments : ~(/\ a.job = j
                                /\ a.revision = jobs[j].revision
                                /\ a.call = jobs[j].call
                                /\ a.outcome = "succeeded")

\* A stored result attaches to the revision it answers (jobs.ts:349-351).  Only one step
\* ever leaves a revision without the result of its asset job: an enqueue that attaches
\* a job which had succeeded unattached, and whose row it read before (jobs.ts:400-429).
\* No settlement, retry, reset, second revision or other enqueue does.
ResultLostOnlyToEarlyRead ==
    [][\A j \in JobId :
           ~ResultIsMissing(j) /\ ResultIsMissing(j)' =>
               /\ j \in readEarly \ readEarly'
               /\ jobs[j].status = "succeeded"
               /\ jobs[j].revision = 0]_vars

\* The answer a submitted revision receives is about the content and the
\* generation the revision has at the very commit that adds it, however long
\* the provider took and whatever was attached, answered or reset meanwhile.
OnlyFreshResultsMaterialize ==
    [][\A a \in assessments' \ assessments :
           a.outcome = "succeeded" /\ a.revision # 0 =>
               LET row == drafts'[a.job.draft] IN
               /\ a.revision = row.revision
               /\ a.job.generation = row.generation
               /\ a.job.input = EffectiveInput(a.job.draft, row, TRUE)]_vars

\* A pass whose transaction found no request to lock holds a job that none is attached to.
BeganBeforeRequest(j) ==
    /\ jobs[j].revision = 0
    /\ \E w \in Workers : InTransaction(w) /\ worker[w].job = j /\ ~worker[w].holdsRequest

\* Once first review completed nothing is billed for the request and no evidence is
\* added to what the humans reviewed, but for two windows: a pass that began before
\* the request existed ends its transaction, for no revision (jobs.ts:155 locks the
\* request it finds), and an enqueue that passed its gate while the review was open
\* copies a result stored earlier (model-access.ts:39).  A seeded request is born
\* with its request row, so only the copy is left for it.
ClosedReviewIsFinal ==
    [][/\ \A i \in DOMAIN calls' \ DOMAIN calls :
              calls'[i].status = "reserved" /\ ReviewClosed(calls'[i].job.draft) =>
                  BeganBeforeRequest(calls'[i].job)
       /\ \A a \in assessments' \ assessments :
              ReviewClosed(a.job.draft) =>
                  \/ a.revision = 0 /\ BeganBeforeRequest(a.job)
                  \/ jobs[a.job].status = "succeeded" /\ a.call = jobs[a.job].call]_vars

\* The ledger is evidence: rows are never dropped, an outcome never flips, and
\* a reconciled cost is never rewritten by a second settlement.
LedgerIsAppendOnly ==
    [][/\ Len(calls') >= Len(calls)
       /\ \A i \in DOMAIN calls :
              /\ calls[i].status # "reserved" => calls'[i].status = calls[i].status
              /\ calls[i].actual # NoCost => calls'[i].actual = calls[i].actual]_vars

\* A submission or an answer commits with preparation that can still run or has
\* an answer (requester.ts:700, "Preparation jobs commit with the submission").
SubmissionQueuesPreparation ==
    [][\A d \in Drafts, p \in ReviewPurposes :
           drafts'[d].revision > drafts[d].revision =>
               jobs'[Identity(p, d, drafts'[d], TRUE)].status # "superseded"]_vars

\* Every job that was queued or leased is eventually settled, and with it, by
\* ReservationHasOwner, its reservation: no crash keeps one counted for ever.
QueuedWorkSettles ==
    \A j \in JobId :
        jobs[j].status \in {"queued", "leased"} ~> jobs[j].status \notin {"queued", "leased"}

------------------------------------------------------------------------------
(* The ledger as SpendLedger sees it *)

BilledOn(d) == {i \in Billed : calls[i].day = d}
VisitorCallsOn(v, d) == {i \in BilledOn(d) : calls[i].visitor = v}
OpenIn(m) == {i \in Billed : MonthOf(calls[i].day) = m /\ calls[i].actual = NoCost}
OwedIn(m) == SpendSinceMonth(m) - SpendSinceMonth(m + 1)

Days == 0 .. MaxDay
Months == {MonthOf(d) : d \in Days}

Ledger == INSTANCE SpendLedger WITH
    owed <- [m \in Months |-> OwedIn(m)],
    open <- [m \in Months |-> Cardinality(OpenIn(m))],
    calls <- [d \in Days |-> Cardinality(BilledOn(d))],
    asked <- [v \in Visitors |-> [d \in Days |-> Cardinality(VisitorCallsOn(v, d))]]

\* Whatever reservations overlap, whenever they began and however late their costs
\* arrive, the ledger behaves as one that looks at every limit and takes its share
\* in a single step: neither the daily limits nor the monthly one are ever passed
\* (jobs.ts reserveModelCall, modelCaps).
RefinesSpendLedger == Ledger!Spec

------------------------------------------------------------------------------
(* The inductive invariant behind TypeOK, ReservationHasOwner and            *)
(* LedgerIsAppendOnly                                                        *)

JobsWellFormed ==
    \A j \in JobId :
        /\ jobs[j].status # "absent" => jobs[j].visitor \in Visitors
        /\ jobs[j].status = "leased" <=> jobs[j].owner # None
        /\ jobs[j].call \in 0 .. Len(calls)
        /\ jobs[j].call # 0 => calls[jobs[j].call].job = j

FixturesSubmitted == \A d \in FixtureDrafts : drafts[d].revision > 0

ReservedIsUnpriced ==
    \A i \in DOMAIN calls : calls[i].status = "reserved" => calls[i].actual = NoCost

\* What a pass may rely on: its transaction keeps the lease it checked, it
\* dispatches with an attempt left and no reservation open, and while the
\* provider works its reservation is open exactly as long as it holds the lease.
PassIsSound(w) ==
    LET j == worker[w].job
        c == worker[w].call
    IN
    /\ worker[w].pc # "idle" => j \in JobId
    /\ InTransaction(w) => /\ Owned(w)
                           /\ j.draft \in FixtureDrafts => worker[w].holdsRequest
    /\ worker[w].pc \in {"claimed", "gated", "fresh", "locking", "deciding"} /\ Owned(w) =>
           \A i \in DOMAIN calls : i = jobs[j].call => calls[i].status # "reserved"
    /\ worker[w].pc \in {"fresh", "locking", "deciding"} /\ Owned(w) =>
           jobs[j].attempts < maxAttemptsBeforeManualRetry
    /\ worker[w].pc \in {"calling", "settling"} =>
           /\ c \in DOMAIN calls
           /\ calls[c].status = "reserved" <=> Owned(w)
           /\ Owned(w) => jobs[j].call = c

IInv ==
    /\ TypeOK
    /\ JobsWellFormed
    /\ FixturesSubmitted
    /\ ReservedIsUnpriced
    /\ \A w \in Workers : PassIsSound(w)
    /\ ReservationHasOwner

------------------------------------------------------------------------------
(* The inductive invariants behind the budgets, the results that reach a     *)
(* revision, their freshness and the closed review                           *)

CallsOf(j) == {i \in Billed : calls[i].job = j}

\* Between the usage queries and the commit nobody else reserves.
UsageIsCurrent ==
    \A w \in Workers :
        worker[w].pc = "deciding" =>
            /\ spendLock = w
            /\ worker[w].verdict = "grant" => ~OverIntakeBudget(worker[w].job)

\* attempt_count holds what was billed since the last manual retry.
AttemptsAreCounted ==
    \A j \in JobId :
        /\ Cardinality(CallsOf(j)) <=
               maxAttemptsBeforeManualRetry * jobs[j].retries + jobs[j].attempts
        /\ jobs[j].status = "absent" => jobs[j].attempts = 0 /\ jobs[j].retries = 0

\* A job has succeeded exactly through its current call.
SucceedsByItsCall(j) ==
    /\ jobs[j].status = "succeeded" =>
           jobs[j].call # 0 /\ calls[jobs[j].call].status = "succeeded"
    /\ jobs[j].status \in Undone \cup {"leased"} /\ jobs[j].call # 0 =>
           calls[jobs[j].call].status # "succeeded"

\* An assessment says of its call what the ledger says.
AgreesWithItsCall(a) ==
    /\ a.call <= Len(calls)
    /\ a.call # 0 =>
           /\ calls[a.call].job = a.job
           /\ calls[a.call].status # "reserved"
           /\ a.outcome = "failed" => calls[a.call].status # "succeeded"

ResultsAreCalls ==
    /\ \A j \in JobId : SucceedsByItsCall(j)
    /\ \A a \in assessments : AgreesWithItsCall(a)

AttachedAreSubmitted ==
    \A j \in JobId : jobs[j].revision # 0 => drafts[j.draft].revision # 0

\* What a transaction found stands until its commit: either it locked the request, or
\* it found none and holds a job that none is attached to.
JudgmentOf(w) ==
    LET j == worker[w].job IN
    InTransaction(w) =>
        /\ ~worker[w].holdsRequest => jobs[j].revision = 0
        /\ worker[w].holdsRequest =>
               /\ drafts[j.draft].revision # 0
               /\ worker[w].pc # "settling" \/ worker[w].verdict = "current" =>
                      ~ReviewClosed(j.draft)
        /\ worker[w].pc = "settling" /\ worker[w].verdict = "current" /\ jobs[j].revision # 0 =>
               Answers(j, jobs[j].revision, drafts[j.draft])

JudgmentStands == \A w \in Workers : JudgmentOf(w)

FullInv ==
    /\ IInv /\ UsageIsCurrent /\ AttemptsAreCounted /\ ResultsAreCalls
    /\ IntakeBudgetHolds /\ AttachedAreSubmitted

FullInvJ == FullInv /\ JudgmentStands

------------------------------------------------------------------------------
(* The inductive invariant behind the refinement of SpendLedger                *)

\* A row holds the reservation of its attempt, or nothing; a pass that dispatched
\* points at a row that was granted.
LedgerRowsAreBounded ==
    /\ \A i \in DOMAIN calls :
           /\ calls[i].day <= day
           /\ calls[i].status # "denied" => calls[i].reserved = ReservedCost
    /\ \A w \in Workers :
           /\ worker[w].day <= day
           /\ worker[w].pc \in {"calling", "settling"} =>
                  calls[worker[w].call].status # "denied"

\* Between the usage queries and the commit no limit is used up.
LimitsAreCurrent ==
    \A w \in Workers :
        worker[w].pc = "deciding" /\ worker[w].verdict = "grant" =>
            ~capDenialReason(jobs[worker[w].job].visitor, worker[w].day)

LedgerInv == IInv /\ UsageIsCurrent /\ LedgerRowsAreBounded /\ LimitsAreCurrent

=============================================================================
