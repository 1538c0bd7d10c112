--------------------------- MODULE SpendLedgerProofs ---------------------------
(* Proofs about SpendLedger, for any number of visitors and days and for any *)
(* caps, costs and calendar.  What they assume of the constants is stated    *)
(* where it is used: an instance of the module gives its constants values.   *)
EXTENDS SpendLedger, TLAPS

\* A reservation is an upper bound of the cost (jobs.ts reconcileModelCall).
Bounded ==
    /\ MaxDay \in Nat /\ DaysPerMonth \in Nat \ {0}
    /\ ReservedCost \in Nat /\ ActualCosts \subseteq 0 .. ReservedCost
    /\ VisitorDailyCap \in Nat /\ GlobalDailyCap \in Nat /\ MonthlyCap \in Nat

TypeOK ==
    /\ owed \in [Months -> Int] /\ open \in [Months -> Int]
    /\ calls \in [Days -> Nat]
    /\ asked \in [Visitors -> [Days -> Nat]]


IInv == TypeOK /\ WithinCaps

\* The month of a day is one of the ledger's months.
LEMMA MonthIsMonth == ASSUME NEW d \in Days PROVE MonthOf(d) \in Months
BY DEF Months

LEMMA InitWithin == ASSUME Bounded, Init PROVE IInv
BY DEF Bounded, Init, IInv, TypeOK, WithinCaps

\* A call is let through below each limit, and takes one of each.
LEMMA ReservingKeeps ==
    ASSUME Bounded, IInv, NEW v \in Visitors, NEW d \in Days, Reserve(v, d)
    PROVE  IInv'
<1> DEFINE m == MonthOf(d)
<1>1. m \in Months
  BY MonthIsMonth
<1> HIDE DEF m
<1>2. /\ calls' = [calls EXCEPT ![d] = @ + 1] /\ calls[d] < GlobalDailyCap
      /\ asked' = [asked EXCEPT ![v][d] = @ + 1] /\ asked[v][d] < VisitorDailyCap
      /\ owed[m] + ReservedCost <= MonthlyCap
      /\ owed' = [owed EXCEPT ![m] = @ + ReservedCost]
      /\ open' = [open EXCEPT ![m] = @ + 1]
  BY DEF Reserve, m
<1>3. TypeOK'
  BY <1>1, <1>2 DEF IInv, TypeOK, Bounded
<1>4. \A n \in Months : owed'[n] <= MonthlyCap
  BY <1>1, <1>2 DEF IInv, TypeOK, WithinCaps, Bounded
<1>5. \A e \in Days : calls'[e] <= GlobalDailyCap
  BY <1>2 DEF IInv, TypeOK, WithinCaps, Bounded
<1>6. ASSUME NEW u \in Visitors, NEW e \in Days
      PROVE  asked'[u][e] <= VisitorDailyCap
  <2>1. CASE u = v /\ e = d
    BY <1>2, <2>1 DEF IInv, TypeOK, Bounded
  <2>2. CASE ~(u = v /\ e = d)
    <3>1. asked'[u][e] = asked[u][e]
      BY <1>2, <2>2 DEF IInv, TypeOK
    <3> QED BY <3>1 DEF IInv, WithinCaps
  <2> QED BY <2>1, <2>2
<1> QED BY <1>3, <1>4, <1>5, <1>6 DEF IInv, WithinCaps

\* A cost gives back what its reservation took too much.
LEMMA ReconcilingKeeps ==
    ASSUME Bounded, IInv, NEW m \in Months, NEW cost \in ActualCosts, Reconcile(m, cost)
    PROVE  IInv'
<1>1. /\ owed' = [owed EXCEPT ![m] = @ - (ReservedCost - cost)]
      /\ open' = [open EXCEPT ![m] = @ - 1] /\ UNCHANGED <<calls, asked>>
  BY DEF Reconcile
<1>2. cost \in 0 .. ReservedCost /\ ReservedCost \in Nat /\ MonthlyCap \in Nat
  BY DEF Bounded
<1>3. TypeOK'
  BY <1>1, <1>2 DEF IInv, TypeOK
<1>4. \A n \in Months : owed'[n] <= MonthlyCap
  BY <1>1, <1>2 DEF IInv, TypeOK, WithinCaps
<1> QED BY <1>1, <1>3, <1>4 DEF IInv, WithinCaps

\* Whoever reserves and whenever costs become known, no limit is passed: what the
\* instance RefinesSpendLedger of the queue's ledger gets from being a SpendLedger
\* (jobs.ts reserveModelCall, modelCaps).
THEOREM LedgerStaysWithinCaps ==
    ASSUME Bounded
    PROVE  Spec => []WithinCaps
<1>1. Init => IInv
  BY InitWithin
<1>2. IInv /\ [Next]_ledger => IInv'
  <2>1. ASSUME IInv, Next PROVE IInv'
    BY <2>1, ReservingKeeps, ReconcilingKeeps DEF Next
  <2>2. ASSUME IInv, UNCHANGED ledger PROVE IInv'
    BY <2>2 DEF IInv, TypeOK, WithinCaps, ledger
  <2> QED BY <2>1, <2>2
<1>3. IInv => WithinCaps
  BY DEF IInv
<1> QED BY <1>1, <1>2, <1>3, PTL DEF Spec
==============================================================================
