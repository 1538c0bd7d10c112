------------------------------- MODULE ReadModel -------------------------------
(***************************************************************************)
(* What the queues, the dashboard and the record say of a request          *)
(* (src/server/read-model.ts): its phase and the action it needs.  Nothing *)
(* is stored: both are derived in one snapshot, from the rows the workflow *)
(* works on but by code of its own, so that the two can come to disagree.  *)
(*                                                                         *)
(* Left out: a capped or failed preparation (review_usage_limit,           *)
(* retry_assessment), which only replaces an action that waits for an      *)
(* assessment; the open clarification (waiting), which Lifecycle answers   *)
(* in the step that asks it; waiting times, owners and the risk summary.   *)
(***************************************************************************)
EXTENDS Lifecycle

------------------------------------------------------------------------------
(* The facts of one snapshot *)

eventFacts == [handoff |-> handoff, resolution |-> request.resolution]

\* The assessment that counts, and whether it was prepared for another catalog.
assessmentFacts(t) == [id |-> CurrentAssessment(t), stale |-> Stale(t)]

\* The questions nobody has settled, about the revision and the evidence shown.
inputRequestFacts(t) ==
    {i \in DOMAIN t.inputs : t.inputs[i].state # "resolved" /\ IsCurrentInput(t, t.inputs[i])}

workLinkFacts ==
    [i \in DOMAIN links |-> [relationship |-> links[i], closed |-> items[i].closed,
                             derivedHealth |-> DerivedHealth(items[i])]]

RequestBundle ==
    [base |-> request, events |-> eventFacts, assessments |-> assessmentFacts(Tables),
     tasks |-> task, links |-> workLinkFacts,
     areaInputs |-> {i \in inputRequestFacts(Tables) : inputs[i].factor = None}]

------------------------------------------------------------------------------
(* What is derived from them *)

settledPhase(b) ==
    IF b.events.resolution # "none" THEN "resolved"
    ELSE IF b.events.handoff = "confirmed" THEN "delivery"
    ELSE IF Completed(b.base) THEN "approved" ELSE "unsettled"

derivePhase(b) ==
    IF settledPhase(b) # "unsettled" THEN settledPhase(b)
    ELSE IF b.assessments.id # 0 THEN "review" ELSE "received"

\* Mutant: a completed area counts whichever assessment it was completed for.
areaCompleted(b) == b.tasks.state = "completed" /\ b.assessments.id # 0

\* Completed for the assessment that is current now.
areaReviewed(b) == areaCompleted(b) /\ b.tasks.of = b.assessments.id

reviewAction(b) ==
    IF b.assessments.stale THEN "refresh_preparation"
    ELSE IF ~areaReviewed(b) \/ b.areaInputs # {} THEN "review_area"
    ELSE "complete_first_review"

\* Supporting links never gate the outcome.
deliveryAction(b) ==
    IF \A i \in DOMAIN b.links : b.links[i].relationship = "required" =>
           b.links[i].closed /\ b.links[i].derivedHealth = "current"
    THEN "record_outcome" ELSE "monitor_delivery"

deriveAction(b) ==
    CASE derivePhase(b) = "resolved" -> "none"
      [] derivePhase(b) = "received" -> "wait_for_preparation"
      [] derivePhase(b) = "approved" ->
            IF b.events.handoff = "failed" THEN "retry_handoff" ELSE "execute_handoff"
      [] derivePhase(b) = "delivery" -> deliveryAction(b)
      [] derivePhase(b) = "review" -> reviewAction(b)

------------------------------------------------------------------------------
(* Properties *)

\* A submission that only completes the review.
Completion == [NoWork EXCEPT !.complete = TRUE]

\* The queue asks for a completion, a handoff or an outcome exactly when the
\* workflow would accept one: approvalBlockers, executeHandoff and
\* resolutionBlockers decide the same from the same rows, whatever questions,
\* catalogs, handoffs and item updates came before.
ActionNeededIsAccepted ==
    LET action == deriveAction(RequestBundle)
    IN  /\ action = "complete_first_review" <=> Unresolved /\ Accepts(Tables, Completion)
        /\ action \in {"execute_handoff", "retry_handoff"} <=>
              Unresolved /\ handoff \in {"intended", "failed"}
        /\ action = "record_outcome" <=> Unresolved /\ Fulfillable

------------------------------------------------------------------------------
(* What it rests on beside the invariant of Lifecycle *)

\* A completed area was completed with its finding settled.
AreaIsSettled(t) ==
    t.task.state = "completed" /\ t.task.of # 0 => t.assessed[t.task.of].verdict = "settled"

\* A handoff is intended with the completion, and only then.
HandoffFollowsCompletion == Completed(request) <=> handoff # "none"

AgreementInv == AreaIsSettled(Tables) /\ HandoffFollowsCompletion
==============================================================================
