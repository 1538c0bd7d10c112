------------------------------- MODULE Delivery -------------------------------
(***************************************************************************)
(* What follows a completed first review (src/workflow/delivery.ts and the *)
(* delivery page, ui/review-delivery.tsx): the handoff, the work items     *)
(* linked to the request, their status and age, and the resolution.        *)
(*                                                                         *)
(* A resolution is two steps: it judges the linked work under the          *)
(* request's lock, which item updates do not take, and then commits.       *)
(* Left out: text, systems, the requests an item is linked to elsewhere.   *)
(***************************************************************************)
EXTENDS RequestRow, FiniteSets

CONSTANTS
    PlanItems,    \* work a completion may plan: SIM- items the handoff creates
    SeededItems,  \* fixture items that exist
    ForeignItems, \* items imported from a real system
    MaxUpdates    \* bound: status updates of items and freshness intervals that pass

ASSUME DeliveryBounds ==
    /\ MaxUpdates \in Nat
    /\ PlanItems \cap (SeededItems \cup ForeignItems) = {} /\ SeededItems \cap ForeignItems = {}

VARIABLES
    handoff,  \* delivery_handoffs of the current generation
    plan,     \* its work_plan: the planned items and their relationship
    items,    \* external_work_items that exist
    links,    \* request_work_item_links of the current generation
    judged,   \* the required links a fulfilling resolution found closed and current
    updates   \* history: changes of items so far

deliveryVars == <<handoff, plan, items, links, judged, updates>>

Items == PlanItems \cup SeededItems \cup ForeignItems
Relationship == {"required", "supporting"}

\* age is past the system's freshness interval when old.
Item == [closed : BOOLEAN, health : {"current", "stale", "failed"}, old : BOOLEAN]
NewItem == [closed |-> FALSE, health |-> "current", old |-> FALSE]

Plan == UNION {[S -> Relationship] : S \in SUBSET PlanItems}
NoPlan == [i \in {} |-> "required"]

DeliveryTypeOK ==
    /\ request \in RequestType
    /\ handoff \in {"none", "intended", "failed", "confirmed"}
    /\ plan \in Plan
    /\ DOMAIN items \subseteq Items /\ \A i \in DOMAIN items : items[i] \in Item
    /\ DOMAIN links \subseteq DOMAIN items
    /\ \A i \in DOMAIN links : links[i] \in Relationship
    /\ judged \subseteq Items
    /\ updates \in 0 .. MaxUpdates

DeliveryInit(existing, used) ==
    /\ items = [i \in existing |-> NewItem]
    /\ links = [i \in {} |-> "required"]
    /\ judged = {} /\ updates = used

------------------------------------------------------------------------------
\* deriveWorkItemHealth
DerivedHealth(item) == IF item.health = "current" /\ item.old THEN "stale" ELSE item.health

Required == {i \in DOMAIN links : links[i] = "required"}

Done(item) == item.closed /\ DerivedHealth(item) = "current"

\* recordCompletion: the intent is recorded with the milestone.
IntendHandoff(planned) ==
    /\ handoff' = "intended" /\ plan' = planned
    /\ UNCHANGED <<items, links, judged, updates>>

\* executeHandoff: it neither checks nor moves the row version.
FailHandoff ==
    /\ lockUnresolvedRequest /\ handoff \in {"intended", "failed"}
    /\ handoff' = "failed"
    /\ UNCHANGED <<request, plan, items, links, judged, updates>>

\* createPlanItems: each item and each link once, whatever was there.
ConfirmHandoff ==
    /\ lockUnresolvedRequest /\ handoff \in {"intended", "failed"}
    /\ handoff' = "confirmed"
    /\ items' = [i \in DOMAIN items \cup DOMAIN plan |->
                    IF i \in DOMAIN items THEN items[i] ELSE NewItem]
    /\ links' = [i \in DOMAIN links \cup DOMAIN plan |->
                    IF i \in DOMAIN links THEN links[i] ELSE plan[i]]
    /\ UNCHANGED <<request, plan, judged, updates>>

\* linkWorkItem
LinkWorkItem(i, relationship) ==
    /\ lockUnresolvedRequest
    /\ i \in DOMAIN items \ DOMAIN links
    /\ links' = [j \in DOMAIN links \cup {i} |-> IF j = i THEN relationship ELSE links[j]]
    /\ request' = Bumped(request)
    /\ UNCHANGED <<handoff, plan, items, judged, updates>>

\* simulatedStatusValues: an item out of synchronization keeps its last status.
UpdatedItem(item, closed, health) ==
    IF health # "current" THEN [item EXCEPT !.health = health]
    ELSE [closed |-> closed, health |-> health, old |-> FALSE]

\* updateWorkItemStatus: no request is locked, and imported items are refused.
UpdateWorkItemStatus(i, closed, health) ==
    /\ i \in DOMAIN links \ ForeignItems
    /\ updates < MaxUpdates
    /\ items' = [items EXCEPT ![i] = UpdatedItem(@, closed, health)]
    /\ updates' = updates + 1
    /\ UNCHANGED <<request, handoff, plan, links, judged>>

\* The freshness interval of an item passes.
Age(i) ==
    /\ i \in DOMAIN links /\ ~items[i].old /\ updates < MaxUpdates
    /\ items' = [items EXCEPT ![i].old = TRUE]
    /\ updates' = updates + 1
    /\ UNCHANGED <<request, handoff, plan, links, judged>>

\* Mutant: only the planned work is judged.
FulfillableByPlan ==
    /\ Completed(request) /\ handoff = "confirmed"
    /\ \A i \in Required \cap DOMAIN plan : Done(items[i])

\* resolutionBlockers is empty for a fulfilment.
Fulfillable ==
    /\ Completed(request) /\ handoff = "confirmed"
    /\ \A i \in Required : Done(items[i])

\* resolveRequest up to its blockers: the row stays locked.
JudgeResolution ==
    /\ lockUnresolvedRequest /\ Fulfillable
    /\ request' = [request EXCEPT !.resolving = TRUE]
    /\ judged' = {i \in Required : Done(items[i])}
    /\ UNCHANGED <<handoff, plan, items, links, updates>>

\* The rest of it.
CommitResolution ==
    /\ request.resolving
    /\ request' = [Bumped(request) EXCEPT !.resolving = FALSE, !.resolution = "fulfilled"]
    /\ UNCHANGED deliveryVars

\* The withdrawal path, open at every stage.
CloseWithoutFulfillment ==
    /\ lockUnresolvedRequest
    /\ request' = [Bumped(request) EXCEPT !.resolution = "closed"]
    /\ UNCHANGED deliveryVars

DeliveryNext ==
    \/ FailHandoff \/ ConfirmHandoff
    \/ \E i \in Items, relationship \in Relationship : LinkWorkItem(i, relationship)
    \/ \E i \in Items, closed \in BOOLEAN, health \in {"current", "stale", "failed"} :
          UpdateWorkItemStatus(i, closed, health)
    \/ \E i \in Items : Age(i)
    \/ JudgeResolution \/ CommitResolution \/ CloseWithoutFulfillment
==============================================================================
