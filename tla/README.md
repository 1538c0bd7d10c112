# One Door in TLA+

One Door takes requests for software from draft to delivery: a requester writes
a draft, a model prepares it (suggested services, matching catalog assets, risk
findings), people review and approve it, and the work is handed over. It is a
Next.js application over PostgreSQL, with a separate worker process for the
model calls. All of its concurrency is between database transactions: browsers
that retry and go stale, several worker processes with leases, a fixture reset
that rewinds the demonstration under everybody, and a paid provider whose
answers come late or never. Its release program adds operators that deploy over
each other.

This directory holds TLA+ models of that code, TLC runs over small instances,
and TLAPS proofs. `PROJECT.json` maps every definition to the source lines it
models, and lists components, hazards, runs, mutants and theorems.

## Inventory

Paths are relative to `src/` of the application unless they start elsewhere.

| component | state it keeps | operations | hard behaviour | what makes it correct |
|---|---|---|---|---|
| Model preparation queue: `models/jobs.ts`, `models/worker.ts`, `server/model-access.ts` | `model_jobs` (logical identity, status, attempts, lease), `model_calls` (the spend ledger), an advisory lock | enqueue, reuse, supersede, claim, reserve, call, settle, retry | leases that expire under a live pass, late answers, overlapping reservations, crash between reservation and settlement | nothing spent beyond the caps, no orphaned reservation, no third attempt, a settled row never rewritten, stale results never shown, every job ends |
| Model results: `models/persist.ts` | assessments, candidates, findings, intake turns | write proposals, write failures, reset review tasks | a result that arrives after people acted on an earlier one | only current results become proposals |
| Effective input and corpus: `models/corpus.ts` | none (reads drafts, requests, catalog, policy) | hash the input, hash the corpus | contents and corpora that return (A, B, A) | identity decides currency |
| Provider, contracts, prompts: `models/provider.ts`, `contracts.ts`, `prompts.ts` | none | the call, its validation, its price | usage that is missing | the reservation bounds the price |
| Drafts and submission: `workflow/requester.ts` | `drafts`, `requests`, revision 1 | save with a row version, submit | a submission sent twice, two tabs | one request per draft |
| Clarification: `workflow/clarification.ts` | questions, revisions | ask, answer | an answer while a result settles or the reset runs | an answer makes a new revision and invalidates what was decided |
| First review: `workflow/review.ts`, `review-submission.ts`, `review-assessments.ts` | tasks, decisions, stage | decide, record outcomes, complete | evidence that changes between reading and approving | an approval rests on current, human-judged evidence |
| Review inputs: `workflow/review-inputs.ts`, `domain/review-inputs.ts` | targeted questions and answers | ask, answer, settle, withdraw | answers to something that moved on | a pending current input blocks approval |
| Priority: `workflow/priority.ts`, `domain/priority.ts` | proposals, decisions, RICE scores | propose, decide, score | estimates of another revision | the score names what it was computed from |
| Intake: `workflow/intake.ts`, `intake-workspace.ts` | turns, confirmation | prepare, answer, confirm, submit | two-transaction preparation, replays | at most two model attempts, a confirmation of what was read |
| Delivery: `workflow/delivery.ts` | completions, handoffs, work items, resolutions | complete, hand over, update, resolve | retries, status updates without the request lock | one milestone and one resolution per generation |
| Catalog: `workflow/catalog.ts` | items and versions | add, revise, publish, retire, confirm | versions and decisions that outlive a reset, forms opened before a change | published values rest on decisions, one content per version |
| Inventory: `workflow/inventory.ts` | sources, runs, conflicts | observe, resolve | conflicts reopened by new evidence | resolution matches its evidence |
| Saved work: `workflow/wip.ts`, `ui/saved-work-controller.ts` | one row per visitor and form, a client-side queue | save, restore, discard | lost responses, several tabs, a save during a save | the newest text is never lost silently |
| Fixture reset: `seed/fixture-reset.ts` | generations | supersede jobs, advance generations, restore | runs under live workers and reviewers | restored scenarios can be replayed, live evidence kept |
| Fixture import and upgrade, seed data: `seed/` | seed manifest | import, upgrade, check | operator scripts | idempotence |
| Schema: `migrations/` | constraints, triggers | - | the last line of defence | uniqueness, immutability |
| Read models: `server/read-model.ts` and others | none | the phase and the action needed of each request, derived in one snapshot | rules written a second time beside the workflow's | what a queue asks for is what the workflow accepts |
| HTTP, sessions, gate: `server/`, `app/api/` | cookies | parse, check, call the workflow | - | - |
| Administration: `workflow/admin.ts` | notes | add notes, run the reset | - | - |
| User interface: `ui/` | per-page state | render, submit | stale pages | row versions |
| Scripts, deployment, infrastructure: `scripts/`, `infra/` | releases | migrate, seed, deploy | ordering of steps | - |

The parts meet in few places. Submission, answers and the preparation buttons
call `enqueueJobInTx` inside their own transaction. The worker reads the draft
or the request again at every step, and locks the request row before the job row
when it settles. Review and reset take the request row. The catalog, offerings
and policy rules are read without locks and compared by hash.

## Modules

| module | what it models | proofs |
|---|---|---|
| `ModelJobs` | the preparation queue, its ledger and its workers | `ModelJobsProofs` |
| `SpendLedger` | abstract: what the ledger promises whoever pays | `SpendLedgerProofs` |
| `ReviewRequest` | one request between preparation and approval, over revisions, catalogs and generations | `ReviewRequestProofs` |
| `SavedWork` | the draft of a form: controllers, their shared backup, the server's row | `SavedWorkProofs` |
| `Intake` | a draft in several tabs, from creation to submission | `IntakeProofs` |
| `RequestRow`, `Contributions`, `Delivery`, `Lifecycle` | one request from its review to its resolution: questions, priority, the reviewer's submission; handoff and linked work; `Lifecycle` composes them over the row they share | `LifecycleProofs` |
| `ReadModel` | the phase of a request and the action it needs, as the queues derive them, beside what the workflow accepts | `LifecycleProofs` |
| `Catalog` | one catalog item, its evidence and a conflict of its sources | `CatalogProofs` |
| `Release` | overlapping releases of an image | `ReleaseProofs` |
| `MCModelJobs`, `MCReview`, `MCIntake`, `MCLifecycle`, `MCRelease`, `MCCatalog` | instances for TLC: symmetry, data, bounds, the refinement mapping | |

Invariants that only a proof needs stand at the end of the module they are about,
under a heading that says so.

## ModelJobs

`ModelJobs` models one action per transaction, except where transactions of the
code really overlap. The reservation is three steps (row locks, advisory lock
and usage query, insert and commit), a successful settlement is two (locks and
judgement, writes and commit). Row locks are not variables: a worker in the
middle of a transaction holds the rows its state says it holds, and the guards
`JobUnlocked` and `RequestUnlocked` keep others waiting.

| variable | in the code |
|---|---|
| `drafts` | the draft's content, the request's current revision (0: not submitted), `fixture_generation`, and whether `stage` is `first_review_completed` |
| `corpus` | what `collectCorpus` would hash now, per purpose |
| `jobs` | `model_jobs`, one entry per key of the unique index |
| `calls` | `model_calls`, in insertion order |
| `assessments` | the rows `persistProposals` and `persistFailedAssessment` insert |
| `worker` | where a worker's pass is, and what it read |
| `readEarly` | job rows that an enqueue still open read before they succeeded |
| `spendLock` | `pg_advisory_xact_lock(SPEND_LOCK)` |
| `day`, `faults` | the database clock; crashes and stalls so far (a bound) |

Users submit, edit, ask, answer, enqueue, retry, approve (`CompleteFirstReview`) and
reset; the corpus changes under all of them. A worker claims (`ClaimJob`), looks
at freshness without locks (`PreDispatch`), takes the row locks
(`LockForReservation`), the spend lock (`ReadUsage`), commits a reservation or
a denial (`CommitReservation`), calls, and settles (`JudgeResult` and
`FinalizeSuccess`, `SettleFailure`, or `SettleLate` when it lost its lease).
`Crash` drops a pass anywhere; `ExpireAbandonedLease` and `ExpireLiveLease` move
the clock past a lease.

Abstractions. Hashes, prompts and snapshots are tokens. The content after an
answer is new, because answers accumulate. A lease token is the worker that drew
it: a worker runs one pass at a time, and a new process knows no old token. A pass is
judged stale or exhausted in one read. `SettleFailure` is one step because it
reads only rows it has locked. Reset generations and seeded requests exist for
`FixtureDrafts` only, which start submitted; such a request can be asked about
(which gives it a snapshot revision) but has no owner who could answer.

Two windows of the code are steps of their own. `enqueueJobInTx` reads the row of an
existing job without a lock, and its UPDATE may wait for a settlement
(`ReadBeforeResult`, then an `Enqueue` with that job among `missed`). `allowModelWork`
looks at the stage or the draft in a transaction before the enqueue or the retry: since
every review was open and every draft unsubmitted once, nothing is left of that gate
when `EnqueueModelJob` and `RetryModelJob` run. (For a job made after the review closed
that is more than the code allows.)

`SpendLedger` is what the queue promises about money: a reservation looks at every
limit and takes its share in one step, and a known cost gives back what was reserved
too much, at most once. In the code that is a query and an insert under an advisory
lock, for the day on which the transaction began. `ModelJobs!RefinesSpendLedger`
maps the rows of `model_calls` to it.

## ReviewRequest

`ReviewRequest` is one request between preparation and approval. Everyone who
changes it locks its row, so one action is one transaction; what makes it hard is
that reviewers act on pages read earlier, that settlements and catalog changes do
not bump the row version, and that evidence is selected, not stored: which
assessment counts is computed from revision, generation, catalog and completion.

| variable | in the code |
|---|---|
| `request` | `requests`: kind, current revision, highest revision, `fixture_generation`, `closed` for stage `first_review_completed` |
| `catalog` | what `collectCorpus` would hash now |
| `assessments` | `asset_assessments` and `risk_assessments`, oldest first, with the current decision on each proposal |
| `tasks` | `review_tasks`: state and `completed_assessment_id` |
| `questions`, `milestones`, `resolutions` | `clarification_requests`, completions with their handoff, `request_resolutions`, by generation |
| `jobs` | preparation that may still settle |
| `page` | what each reviewer has open: the revision and the generation shown |

| action | in the code |
|---|---|
| `SubmitAssessment` | `submitAssessmentInTx` with everything it calls: decisions, outcomes, `completeFirstReviewInTx`; the single-purpose endpoints are submissions of one thing |
| `AddReviewCandidate`, `AssignReview` | the functions of that name in `review.ts` |
| `AskClarification`, `AnswerClarification` | `clarification.ts` |
| `ResolveRequest` | `resolveRequest`, closing without fulfillment |
| `PrepareArea` | `queueModel` and `retryModel` |
| `SettleSuccess`, `SettleStale`, `SettleFailure` | the ends of a pass of the worker, with `persist.ts` |
| `ChangeCatalog` | publishing, revising, retiring |
| `ResetFixtureState` | `fixture-reset.ts` for this request |
| `OpenPage` | `getReviewState` |

Abstractions. The row version is only ever compared for equality and only grows,
so a page is fresh or gone: every bump closes all pages, `FreshPage` is
`requireVersion`. Pages that are gone can do nothing, so a second reviewer adds no
behaviour that reopening a page does not: the runs have one, the proofs any
number. `created_at` is the order of insertion. The catalog is read once in a
transaction. A decision is one of the outcomes the guards distinguish. The check of
`allowModelWork` and its enqueue are one step. An enqueue that finds a stored
result attaches it: prepared and settled. A seeded request is an example under
review, with tasks and assessments; seeded examples in other stages are not
modelled. Review inputs, the next owner and catalog eligibility only block an
approval and are left out, so the model approves more than the code does.

The completion of a closed request is guarded twice: `SettleSuccess` looks at
`reviewClosed`, and `resetReviewTaskForNewAssessment` at the stage. Either alone keeps
`ApprovalRestsOnEvidence`.

## SavedWork

Each open form of one scope has a controller with a queue of saves; all of them
share one backup in the browser and one row on the server, which is replaced under an
optimistic version. A save may be answered late, never, or after its form was closed;
the record the form is about moves on meanwhile.

| variable | in the code |
|---|---|
| `saved` | every row version `saveWip` accepted; the last is the row |
| `backup` | localStorage: the draft, its row version, and whether it is still to be restored |
| `panel` | the controllers of `saved-work-controller.ts`: draft, sequence numbers, the save in flight |
| `delayed` | saves nobody waits for that may still arrive |
| `record` | version of the record the form is about |

`reviewed`, `base` and `lastChanged` are history: which record version was on screen,
which row version a text grew out of, what was typed last. Left out: the text itself,
the debounce's length (a timer fires or not), unrelated scopes. `SeeRecord` is the page
being rendered with newer data; `TabDies` and `Unmount` are the two ways a controller ends.

## Intake

One visitor works on one draft from several tabs. A value of `Words` stands for the
need and its structured content, one question and answer for the conversation. A job is
its logical identity: content, answer, corpus.

| variable | in the code |
|---|---|
| `draft` | the `drafts` row: state, version, content, answer, adopted interpretation |
| `jobs` | `intake_interpret` jobs by identity, and what each proposed |
| `asset` | the asset evaluation asked for with a draft |
| `request` | the submitted request with its evidence, routing and decision |
| `tab` | the page each tab shows, and whether it is between two transactions |
| `calls`, `corpus` | attempts billed to the draft; version of the matching corpus |

Two operations are not one transaction. Preparing saves and then enqueues
(`PrepareSave`, `PrepareEnqueue`), and a submission looks for a replay before it waits
for the draft's lock (`SubmitLookup`, then `SubmitIntake`, `SubmitRequest` or
`SubmitTooLate`). What the queue does with a job is the subject of `ModelJobs`: here it
settles once, fresh or stale.

## Lifecycle

`Contributions` and `Delivery` share `RequestRow`, and `Lifecycle` is their product: the
submission that completes the review also records the intent to hand over. Transactions
of the review are operators on a record of tables (`Tables`), composed as the code
composes them: `Submitted(t, p)` is decisions, outcome, estimates, settled questions, one
bump and the completion, and `Commit` writes the result.

| variable | in the code |
|---|---|
| `request` | `requests`: revision, row version, stage, current score, resolution, and whether a resolution has it locked |
| `proposals`, `decisions`, `scores` | `priority_contributions`, `priority_decisions`, `rice_scores` |
| `inputs` | `review_input_requests` with their responses |
| `assessed`, `selected`, `task` | the area's assessments with their verdict, the one that matches the catalog, the area's task |
| `sent`, `recorded` | per page: the submission without a reply, the work recorded under its key |
| `handoff`, `plan`, `items`, `links`, `judged` | `delivery_handoffs` and their plan, external items, their links, what a resolution judged |

`Send` loses nothing and promises nothing: a sent submission may arrive late, twice or
after other work (`Submit`), and its page may be reloaded (`Reload`). A resolution is two
steps, because it judges items that updates change without the request's lock.

Abstractions. A behaviour follows one of the two areas, with one finding or option per
assessment. The areas differ where the code does: an asset decision always reopens the
area (`saveAssetDecisionInTx`), a settled risk decision completes it, an open question is
a follow-up of risk and a pending outcome of assets, and each has its own hold on the
page (`RiskHold`, `FitHold`). With an assessment that no longer matches the catalog the
newest stays selected and reads as stale (`Preferred`, `Stale`). An estimate is named by
the row it came from, so equal numbers of different origin differ. A view of a factor is
a fold over the decisions, written as a function of their number. Resets and generations
are in `ReviewRequest`; an item's links to other requests and texts are left out.

`ReadModel` adds no state. `read-model.ts` derives a request's phase and the action it
needs from one snapshot of the same rows, by rules of its own;
`ActionNeededIsAccepted` says that the workflow would accept what they ask for. Left out:
preparation that failed or met a limit, who is waiting for whom and how long.

## Catalog

One item, the decisions behind its values, and one conflict of its sources. Stewards act
on forms opened earlier (`form`); a form sends the row versions it was opened at.
`decisions` are never withdrawn. `ResetFixtures` puts the seeded row and its old version
number back under them, so the next revision skips every number that was used
(`NextVersion`). `ImportFixture` reopens the conflict once. `contents` is
history: what the item said at each version. Provenance entries are valid, the review
date is only the row version it advances, observation files write single rows and are
left out.

## Release

Operators run `deploy-release.ts` at the same time: the Terraform lock covers one plan or
apply, not a release. A run that fails a check, times out or is killed takes no further
step, and trying again is another operator.

| variable | in the code |
|---|---|
| `state` | the Terraform state of `infra/release`: serial, settings, revisions it last saw |
| `definitions`, `jobFiles` | images of the service and job task definitions, by revision |
| `services` | the ECS services: goal, running revisions, rollout |
| `database` | applied migrations and installed fixture |
| `published`, `tasks` | release records in the bucket; one-off tasks by client token, which outlive their operator |
| `operator` | what each run of the program read, verified and planned |

Terraform and ECS are modelled from the calls made to them: a saved plan applies only to
the state it was made from; the circuit breaker goes back to the last completed
deployment. Image scans, accounts, logs and availability only stop an operator and are
left out. `StartServing` and `StartInstalled` are a release over a serving one and the
first start.

## Runs

| run | what it asks | bounds | distinct states |
|---|---|---|---|
| `jobs_fixture` | A seeded request asked about, reviewed, closed and reset while workers claim, crash and settle. `ReservationHasOwner`, `ClosedReviewIsFinal`, `OnlyFreshResultsMaterialize`, `QueuedWorkSettles` | 1 request, 2 revisions, 2 generations, 2 workers, 1 fault, 2 calls a day | 91,384 |
| `jobs_attach` | Which steps can leave a revision without the result computed for its draft? `ResultLostOnlyToEarlyRead`, `AtMostOneAutomaticRetry`, `LedgerIsAppendOnly`, `TypeOK` | 1 draft, 2 revisions, 2 workers, 1 fault, 1 manual retry | 360,133 |
| `jobs_caps` | Do overlapping reservations pass a limit, or outlive the review of a live request? `RefinesSpendLedger`, `IntakeBudgetHolds`, `ClosedReviewIsFinal` | 1 draft with 2 contents (so 2 jobs), 2 visitors, 2 workers, 2 months; caps 1 a visitor, 2 a day, 3 units a month at 2 a reservation; no manual retry (`IntakeBudgetAlwaysHolds` has any number) | 220,332 |
| `jobs_reversion` | expected violation, see Findings | 1 draft with 2 contents, 1 worker | |
| `review` | Does an approval rest on judged evidence of its revision and catalog, once, and survive late results, other catalogs and resets? `ApprovalRestsOnEvidence`, `ApprovalIsRecordedOnce`, `FreshPagesShowTheRequest`, `ApprovalIsForTodaysCatalog`, `ApprovedEvidenceIsFrozen`, `ResetReopensReview`, `TypeOK` | 2 revisions, 1 proposal; 3 assessments; live: 1 catalog, 3 jobs; seeded: 2 catalogs, 2 generations, 1 job | 398,776 |
| `saved` | Is the newest text ever lost or saved over something nobody saw? `LastChangeSurvives`, `SavedMeansAccepted`, `NoSilentReplacement`, `TokenWasReviewed` | 2 forms, 3 texts, 2 changes, 2 record versions, 1 fault | 2,308,186 |
| `intake` | Is what a reviewer is told the requester accepted what the requester was shown and sent? `AnchorMatchesWords`, `AcceptedAnswerIsKept`, `ShownSuggestionCanBeDecided`, `RoutingRestsOnCurrentServices`, `DecidedAsShown` | 2 tabs, 2 contents, 2 answers, 2 corpora, 3 versions of an unsubmitted draft, a suggested service | 983,383 |
| `lifecycle` | Questions, estimates, submissions lost, repeated and late, a completion the page offers, what the queues ask for, handoff and resolution. `ActionNeededIsAccepted`, `ScoreMatchesFactors`, `ResolvedInputRestsOnLaterJudgment`, `OfferedCompletionIsAccepted`, `CompletedReviewLeavesNoOpenQuestion`, `FulfilmentJudgedAllRequired`, `NothingMovesAfterResolution`, `TypeOK` | either area, 1 factor, 1 contributor, 1 question with 2 answers, 2 assessments (1 with a question about a factor), 2 revisions, 4 row versions (3 with work to link), 2 items, 2 changes of them | 622,085 |
| `lifecycle_retry` | expected violation, see Findings | 1 factor, 1 assessment, no questions, a kept key | |
| `release` | Do releases that overlap, stop or roll back leave tasks that disagree with the schema or each other? `RunningTasksAgree` | 2 operators, 3 releases (one differs in its fixture, one adds a migration), 6 applies, 3 failed rollouts | 32,775 |
| `release_retry` | expected violation, see Findings | 2 releases, 3 operators (one of them a retry), 7 applies | |
| `catalog` | Are published values evidenced and versions unambiguous, through import and reset? `PublishedRestsOnEvidence`, `VersionNamesOneContent`, `ResolutionSawEvidence` | 2 stewards, 2 fields, 4 row versions, 1 field a revision | 346,386 |

The bounds are the smallest at which the hazards occur. Two workers are needed for a
reclaim during a pass and for overlapping reservations; two revisions and generations
for a stale result; three jobs put both areas of a new revision beside one of the old;
two forms for a save under another form's feet and two changes for a change during
a save; two tabs and corpora for a page that is behind; two operators for
releases that overlap and a third for a retry; two
answers for a judgment older than the latest one; two months for a reservation that
begins in one and is priced in the other. The caps are small enough to be reached. One
factor, finding or proposal tells apart what the guards tell apart. `MCReview` gives live
and seeded requests different bounds. `MCLifecycle` starts a question about a factor in
the risk area only, where it has the same course, and follows it with one assessment,
which such a question does not refer to; a request with work to link starts completed,
with two row versions to go. None of the theorems depends on any of these numbers.

Every property of a passing run has a mutant in `PROJECT.json`: a plausible bug (a missing
lock, a token that is not compared, a swapped order, a snapshot taken first) under which
TLC finds it violated with the same configuration. Deadlock is never checked: the bounds
stop users, and a queue without work, a resolved request or a stopped operator is
a state the system rests in.

### Fairness

Only `jobs_fixture` has a liveness property. `FairSpec` assumes what `runWorkerLoop` and
PostgreSQL give: an idle worker claims the oldest claimable job if there is one (it
polls for ever and its errors are caught), the steps of a pass happen (transactions
end; the provider call has a timeout), and the clock passes the end of every lease
nobody works under. Nothing is assumed of users, of the provider's success, or of the
absence of faults up to the bound. Elsewhere people owe nothing, and what must
eventually happen is the queue's.

### Findings

`jobs_reversion`: a superseded job comes back. A draft whose asset match was queued,
then edited and prepared again (which supersedes the first job), then edited back, is
submitted against the superseded job: `enqueueJobInTx` finds the identity and returns it
as it is. Nothing is queued, a retry refuses superseded jobs, and enqueueing again
finds the same row. `requester.ts:700` says preparation jobs commit with the submission
without a gap.

`lifecycle_retry`: a lost response blocks the reviewer's next submission. The page keeps its
idempotency key in saved work and drops it only in a success callback, so after a
reload a new submission carries the key of the recorded one and is refused as
a conflicting repetition. `design/reviewer-brief-rules-record.md` says the key pins replays.

`release_retry`: a release is reported that does not serve. It is replaced after its
verification and then tried again; from the retry's apply on, a plan would change nothing,
which is all that the report of the first run checks (`confirmConvergence`). The retry's
rollout has only begun, and tasks of the other release run. `verify-release.ts:1-4` says the
program confirms that every running task uses the intended revision and image.

### Observations without a run

Seen while modelling. Where a sentence of the repository is contradicted, the property of
a passing run names the exception.

- An enqueue that reads its job before the result arrives attaches it after, and never
  copies the result: "the stored result attaches to that revision" (`jobs.ts:349-351`) fails in
  that window. `ResultLostOnlyToEarlyRead` shows that it is the only one.
- A reservation that starts before the submission holds no request lock (`jobs.ts:155`), so
  a call can be billed after the review is closed; and an enqueue that passed
  `allowModelWork` earlier copies a stored result onto a closed review.
  `ClosedReviewIsFinal` names both windows.
- A submission without a service rejects the suggestions of one run, the current one by
  identity or the newest, and none if that run has not succeeded (`intake.ts:182`). A
  service the draft adopted stays undecided once a queued or failed run has overtaken it,
  although `decideService` still accepts it. The comment speaks of "every current candidate
  not already rejected" (`requester.ts:419-422`).
- With no blocker left, the page offers completion together with a draft that reopens the
  area, and the server refuses it: another choice over a recorded outcome of the options, where
  the page adds no outcome because none was listed as pending (`review-brief.tsx:1477-1479`,
  `review.ts:176`), and a follow-up on a settled finding. `OfferedCompletionIsAccepted` names
  this case. The comment before `completionHold` says "Complete drafts count as their
  intended judgments".
- A reset after nothing but priority or question work does not advance the
  generation (`fixture-reset.ts:147-196`).
- The server would settle a question about a whole area after the area is closed, where the
  page does not offer it (`review-brief.tsx:1808-1818`, `review-submission.ts:292-314`); only
  open questions can be reassigned from the page (`priority-contributions.tsx:933`); an answer
  repeated after a reassignment is told it is not the owner's.
- `submitIntake` can report an error for a submission that another tab made while it waited
  (`intake-workspace.ts:518`); `prepareIntake` edits content and keeps the confirmed
  interpretation (`371-398`), which the submission then does not use.
- After a reset a seeded item has no decision of the first version for some fields;
  an import after a reset does nothing, because its run is on record.
- `enable-rollback-alarms` plans without pins, and `db-migrate` ignores applied migrations that
  the candidate does not have.

## Proofs

Every theorem holds for all values of the constants that satisfy the assumptions of
its module, which are what the code gives: bounds are naturals, drafts, contents, corpora
and factors are finite, there are factors and people to ask, `None` is nobody, a
reservation is an upper bound of its cost (`jobs.ts` prices it at the contract's maximum), and
seeded rows are rows. TLC evaluates each assumption in some run. Where a theorem needs
more, its statement says so: `LedgerStaysWithinCaps` assumes that the ledger's constants are
numbers.

An invariant is rarely inductive as it stands. Each module has an `IInv` (found with TLC
first) that the theorem `InductiveInvariant` shows to hold, and every other theorem follows
from it, together with a step's action where the property is about steps.

### The queue: `ModelJobsProofs`

`TypeCorrectness`, `ReservationsAreOwned`, `LedgerNeverRewritten`, `IntakeBudgetAlwaysHolds`,
`AtMostOneRetryEver`, `ResultsAreLostOnlyToEarlyReads`, `OnlyFreshResultsEver`,
`ClosedReviewsAreFinal`, and `LedgerIsRefined` and `LimitsAreNeverPassed` (below).

`ReservationHasOwner` alone is not inductive: a settlement could close the wrong row.
`IInv` adds what a pass knows (`PassIsSound`): in a transaction it still holds the
lease it checked; before a reservation the job's last call is closed and an attempt is
left; while the provider works, the reservation is open exactly as long as the pass
holds the lease. `FullInvJ` adds three things. Usage read under the spend lock is still the
usage at the commit (`UsageIsCurrent`), and attempts are counted as the ledger bills them
(`AttemptsAreCounted`): so neither two reservations nor a retry pass the intake budget. A job
has succeeded exactly through its current call and an assessment says of its call what
the ledger says (`ResultsAreCalls`): so a settlement leaves an attached job's result at its
revision, and only an enqueue can leave it out.
What was judged under the request's lock stands until the commit (`JudgmentStands`): so no
stale result materializes.

The argument is per action. `QuietStep` covers the steps that touch neither ledger nor
passes, `WorkerOnly` those that change one worker, `OwnerSettles` all the ways in which a
lease is given up and its row closed at once.

### The ledger: `SpendLedgerProofs` and the refinement

`LedgerStaysWithinCaps`: the abstract ledger passes none of its limits, for any visitors,
days, caps and costs. A month's reservations and prices are one number there, so a step is
arithmetic.

`LedgerIsRefined` (in `ModelJobsProofs`): the queue implements it, for any number of
workers, drafts, visitors and days. The invariant is `LedgerInv`: while a pass holds the
spend lock with a grant, no limit is used up (`LimitsAreCurrent`), because nobody else
commits, a settlement lowers a month's spend or leaves it (`SettlementsLowerSpend`, from
`ReservationIsAnUpperBound`), and nobody retries or attaches a job that is locked; and a
billed row holds exactly the reserved cost, on a day that has come
(`LedgerRowsAreBounded`). Then a granted commit is `Reserve`, a cost that becomes known is
`Reconcile`, and every other step leaves what the abstract ledger sees. The spend of a
month is a sum over the rows (`Total`): that the sum exists, grows by an appended cost and
moves with a changed one is proved by `NumbersUpTo`, induction over a set of numbers up to
a bound, from the library's well-foundedness of finite subsets. `LimitsAreNeverPassed`
composes the two theorems.

### The review: `ReviewRequestProofs`

`TypeCorrectness`, `ApprovalAlwaysRestsOnEvidence`, `ApprovalIsAlwaysRecordedOnce`,
`FreshPagesAlwaysShowTheRequest`, `ApprovedEvidenceStaysFrozen`,
`ApprovalIsAlwaysForTodaysCatalog`, `ResetAlwaysReopensReview`.

Approval is decided long after the outcomes it rests on, so `IInv` says what a completed
task means while review is still open (`CompletedIsSupported`); `ClosedIsCurrent` that once
closed both completions name assessments that count; `NothingFromLater` that nothing is
recorded for a generation that has not begun, which makes a new one clean. `NewestIsMember`
finds the newest of any set of assessments by well-foundedness. A submission is taken
apart once into what it writes to verdicts, tasks and the approval.

### Saved work: `SavedWorkProofs`

`LastChangeAlwaysSurvives`, `SavedAlwaysMeansAccepted`, `NothingIsSilentlyReplaced`,
`TokensWereAlwaysReviewed`.

What the server accepted, what the backup holds and what a form shows are three copies
of a text with three version numbers. `SoundAlone` says of a controller that nothing is sent before
its draft is restored, that a save in flight after which nothing was typed is the draft,
and that every save replaces the version it grew out of; `SoundAgainst` relates a controller to the
rows; `SoundBackup` the backup to the last change. Every operator a controller is built
from keeps them, and each action names the controller it leaves.

### Intake: `IntakeProofs`

`AnchorsAlwaysMatchTheWords`, `AcceptedAnswersAreKept`, `ShownSuggestionsCanBeDecided`,
`RoutingAlwaysRestsOnCurrentServices`, `SuggestionsAreDecidedAsShown`.

Three facts carry it: a page shows an open question only at its own version of the draft
(`PageIsSound`), a job that succeeded is never rewritten (`Grown`, `Kept`), a submission is
final (`SubmissionIsSound`). A page that is up to date then shows the draft the server
would lock, and what it decides is what it showed.

### From review to resolution: `LifecycleProofs`

`RowsStayTyped`, `ScoresAreOfTheirFactors`, `QuestionsAreSettledByJudgment`,
`OffersAreAccepted`, `CompletionLeavesNothingOpen`, `FulfilmentIsComplete`,
`ResolutionIsFinal`, `QueuesAskForWhatIsAccepted`.

`Sound(t)` is a predicate of the tables a transaction reads and leaves: decisions rest
on scores that exist, answers are older than the row, what the catalog selects is of the
current revision, a resolved question rests on a later judgment, the score is the
snapshot of the factors, a completion leaves no open question. It is proved through the
operators the transactions are composed of, then for each action.

The hard part is the fold. A factor's view is a function over the number of decisions
whose value at `i` is defined by the one at `i - 1`. Library induction is out of reach, so
that such a function exists (`ReviewedExists`), that it obeys its equation and that
appending decisions leaves its earlier values alone (`ReviewedIsView`) are each proved from
the least number at which they would fail (`LeastElement`, by well-foundedness of strict
subsets of an interval). `SnapshotIsRight` and `ScoreStaysRight` then say that a snapshot
after decisions, or none, is what the factors show.

`OffersAreAccepted` relates two programs: the page's holds and the server's blockers.
`OfferedJudgment` shows what an offered draft records, and that every question the page did not hold
for is one the submission settles. The areas are proved apart where their holds and blockers differ.

`QueuesAskForWhatIsAccepted` relates two others: the rules of the queues and the guards of the
review and of the delivery. They agree because of what earlier steps left behind
(`AgreementInv`): a completed area was completed with its finding settled, and a handoff is
intended exactly with the completion.

### Catalog and release: `CatalogProofs`, `ReleaseProofs`

`PublishedAlwaysRestsOnEvidence`, `VersionsAlwaysNameOneContent`, `ResolutionsAlwaysSawEvidence`: a
form that would be accepted shows the row as it is (`FormsWereTrue`), every recorded content
has a version that was taken (`ContentIsRecorded`), and a revision after a reset moves past
all of them.

`RunningTasksAlwaysAgree`: `Sound` says that all images in the state, the services, plans and
operators have the migrations and contract of the first release, because the compatibility
check was made against one of them, and stays true when the others move. The database
either has those migrations, or nothing was ever started (`MigrationsApplied` or
`Untouched`).

### What is only model-checked

- `QueuedWorkSettles`: liveness under fairness.
- The three expected violations, which are not theorems of the models.

## What the models leave out

- Foreign-key locks, and the order of row locks in the reset: PostgreSQL breaks such
  deadlocks and the transaction is retried.
- A pass that throws every time without reserving: the lease expires, no attempt
  is counted. Faults are bounded in the model.
- `ReviewRequest` joins the check of `allowModelWork` with its enqueue (`ModelJobs` has the
  window), and its `attachRevisionReuse` is a settlement; the race of a copy with a
  completion (an enqueue holds no request lock) is not modelled.
- What a reset owes to tasks and candidates reviewers added: `Restored` models what the
  code does, nothing says what it should do, so no property is stated.
- The clocks: `areaResolution` compares times of the application with times of the
  database; the models order events by their transactions.
- The eligibility of accepted items and the next owner, which only block an approval:
  `ReviewRequest` approves more than the code does.
- Provider contracts and prompts, worker health, the lists, reports and views of the read model, HTTP routes,
  sessions and the demo gate, administration notes and the seeded data: no state of their
  own that others rely on, or input and output. `PROJECT.json` gives the reason for each.
