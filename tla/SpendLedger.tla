------------------------------ MODULE SpendLedger ------------------------------
(***************************************************************************)
(* What model_calls promises whoever pays for the demo (src/models/jobs.ts *)
(* modelCaps): the abstract specification that ModelJobs implements.       *)
(*                                                                         *)
(* A reservation is one step that sees the limits and takes its share of   *)
(* them; in the code it is a query and an insert, under an advisory lock,  *)
(* for the day its transaction began.  A known cost then gives back what   *)
(* the reservation took too much, at most once.                            *)
(***************************************************************************)
EXTENDS Integers

CONSTANTS
    Visitors, ReservedCost, ActualCosts,
    VisitorDailyCap, GlobalDailyCap, MonthlyCap,
    MaxDay, DaysPerMonth

VARIABLES
    owed,    \* micros a month has reserved or spent
    open,    \* reservations of a month whose cost is not known
    calls,   \* calls of a day
    asked    \* calls of a day for one visitor

ledger == <<owed, open, calls, asked>>

Days == 0 .. MaxDay
MonthOf(d) == d \div DaysPerMonth
Months == {MonthOf(d) : d \in Days}

Init ==
    /\ owed = [m \in Months |-> 0]
    /\ open = [m \in Months |-> 0]
    /\ calls = [d \in Days |-> 0]
    /\ asked = [v \in Visitors |-> [d \in Days |-> 0]]

\* A call is let through while no limit is reached.
Reserve(v, d) ==
    /\ calls' = [calls EXCEPT ![d] = @ + 1]
    /\ calls[d] < GlobalDailyCap
    /\ asked[v][d] < VisitorDailyCap
    /\ owed[MonthOf(d)] + ReservedCost <= MonthlyCap
    /\ owed' = [owed EXCEPT ![MonthOf(d)] = @ + ReservedCost]
    /\ open' = [open EXCEPT ![MonthOf(d)] = @ + 1]
    /\ asked' = [asked EXCEPT ![v][d] = @ + 1]

\* The cost of an open reservation becomes known.
Reconcile(m, cost) ==
    /\ open[m] > 0
    /\ open' = [open EXCEPT ![m] = @ - 1]
    /\ owed' = [owed EXCEPT ![m] = @ - (ReservedCost - cost)]
    /\ UNCHANGED <<calls, asked>>

Next ==
    \/ \E v \in Visitors, d \in Days : Reserve(v, d)
    \/ \E m \in Months, cost \in ActualCosts : Reconcile(m, cost)

Spec == Init /\ [][Next]_ledger

------------------------------------------------------------------------------
\* No month costs more than its limit and no day holds more calls than the
\* whole demo's limit, nor more of one visitor's than the browser limit.
WithinCaps ==
    /\ \A m \in Months : owed[m] <= MonthlyCap
    /\ \A d \in Days : calls[d] <= GlobalDailyCap
    /\ \A v \in Visitors, d \in Days : asked[v][d] <= VisitorDailyCap
==============================================================================
