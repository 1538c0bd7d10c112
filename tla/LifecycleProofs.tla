---------------------------- MODULE LifecycleProofs ----------------------------
(***************************************************************************)
(* What the work after submission promises for every number of pages,      *)
(* people, factors and questions.                                          *)
(*                                                                         *)
(* Sound(t) is a predicate of the tables a transaction reads and leaves.   *)
(* The operators a transaction is composed of (decisions, the verdict,     *)
(* settled questions, the completion, the bump) each get a lemma over any  *)
(* tables, and each action one that composes them; the page, the journal   *)
(* of sent work and the delivery columns of the row follow.                *)
(*                                                                         *)
(* A factor's view is a function over the numbers of the decisions. That   *)
(* the function exists, and that appended decisions leave its earlier      *)
(* values alone, rests on the least number for which it would fail.        *)
(***************************************************************************)
EXTENDS ReadModel, SequenceTheorems, FiniteSetTheorems, WellFoundedInduction, TLAPS

\* A set of numbers up to n has a least element.
LEMMA LeastElement ==
    ASSUME NEW n \in Nat, NEW S \in SUBSET (0 .. n), S # {}
    PROVE  Min(S) \in S /\ \A i \in S : Min(S) <= i
<1> DEFINE below(i) == 0 .. (i - 1)
           T == {below(i) : i \in S}
<1>1. T \subseteq FiniteSubsetsOf(Nat) /\ T # {}
  <2>1. ASSUME NEW i \in S
        PROVE  IsFiniteSet(below(i)) /\ below(i) \subseteq Nat
    BY FS_Interval
  <2> QED BY <2>1 DEF FiniteSubsetsOf
<1>2. PICK x \in T : \A y \in T : ~(<<y, x>> \in StrictSubsetOrdering(Nat))
  <2> HIDE DEF T
  <2> QED BY <1>1, FS_StrictSubsetOrderingWellFounded, WFMin
<1>3. PICK i \in S : x = below(i)
  OBVIOUS
<1>4. \A j \in S : i <= j
  <2>1. ASSUME NEW j \in S, j < i
        PROVE  FALSE
    <3>1. below(j) \subseteq below(i) /\ j \in below(i) /\ j \notin below(j)
      BY <2>1
    <3>2. <<below(j), below(i)>> \in StrictSubsetOrdering(Nat)
      BY <3>1 DEF StrictSubsetOrdering
    <3> QED BY <3>2, <1>2, <1>3
  <2> QED BY <2>1
<1> QED BY <1>4 DEF Min

\* One more decision.
Step(rows, revision, f, i, before) ==
    IF rows[i].factor = f /\ rows[i].revision = revision
    THEN ApplyDecision(before, rows[i], i) ELSE before

IsReviewed(rows, revision, f, start, n, g) ==
    g = [i \in 0 .. n |-> IF i = 0 THEN start ELSE Step(rows, revision, f, i, g[i - 1])]

LEMMA ReviewedExists ==
    ASSUME NEW rows, NEW revision, NEW f, NEW start, NEW n \in Nat
    PROVE  \E g : IsReviewed(rows, revision, f, start, n, g)
<1> DEFINE S == {m \in 0 .. n : ~ \E g : IsReviewed(rows, revision, f, start, m, g)}
<1>1. ASSUME S # {}
      PROVE  FALSE
  <2> DEFINE m == Min(S)
  <2>1. m \in S /\ \A i \in S : m <= i
    BY <1>1, LeastElement
  <2> HIDE DEF m
  <2>2. m \in 0 .. n /\ ~ \E g : IsReviewed(rows, revision, f, start, m, g)
    BY <2>1
  <2>3. CASE m = 0
    <3>1. IsReviewed(rows, revision, f, start, 0, [i \in 0 .. 0 |-> start])
      BY DEF IsReviewed
    <3> QED BY <2>2, <2>3, <3>1
  <2>4. CASE m # 0
    <3>1. m - 1 \in 0 .. n /\ m - 1 \notin S
      BY <2>1, <2>2, <2>4
    <3>2. PICK g : IsReviewed(rows, revision, f, start, m - 1, g)
      BY <3>1
    <3> DEFINE h == [i \in 0 .. m |-> IF i < m THEN g[i] ELSE Step(rows, revision, f, m, g[m - 1])]
    <3>3. g = [i \in 0 .. m - 1 |-> IF i = 0 THEN start ELSE Step(rows, revision, f, i, g[i - 1])]
      BY <3>2 DEF IsReviewed
    <3>4. ASSUME NEW i \in 0 .. m
          PROVE  h[i] = IF i = 0 THEN start ELSE Step(rows, revision, f, i, h[i - 1])
      <4>1. CASE i < m
        BY <4>1, <3>3, <2>2, <2>4
      <4>2. CASE i = m
        BY <4>2, <2>2, <2>4
      <4> QED BY <4>1, <4>2, <2>2
    <3>5. IsReviewed(rows, revision, f, start, m, h)
      <4> DEFINE k == [i \in 0 .. m |-> IF i = 0 THEN start ELSE Step(rows, revision, f, i, h[i - 1])]
      <4>1. \A i \in 0 .. m : h[i] = k[i]
        BY <3>4
      <4>2. h = k
        BY <4>1
      <4> QED BY <4>2 DEF IsReviewed
    <3> QED BY <3>5, <2>2
  <2> QED BY <2>3, <2>4
<1> QED BY <1>1

LEMMA ReviewedStepByStep ==
    ASSUME NEW rows, NEW revision, NEW f, NEW start, Len(rows) \in Nat
    PROVE  /\ Reviewed(rows, revision, f, start)[0] = start
           /\ \A i \in 1 .. Len(rows) :
                 Reviewed(rows, revision, f, start)[i]
                    = Step(rows, revision, f, i, Reviewed(rows, revision, f, start)[i - 1])
<1>1. Reviewed(rows, revision, f, start) = CHOOSE g : IsReviewed(rows, revision, f, start, Len(rows), g)
  BY DEF Reviewed, IsReviewed, Step
<1> DEFINE r == Reviewed(rows, revision, f, start)
<1>2. IsReviewed(rows, revision, f, start, Len(rows), r)
  BY <1>1, ReviewedExists
<1> HIDE DEF r
<1>3. r = [i \in 0 .. Len(rows) |-> IF i = 0 THEN start ELSE Step(rows, revision, f, i, r[i - 1])]
  BY <1>2 DEF IsReviewed
<1> QED BY <1>3 DEF r

\* Decisions of other revisions leave what there was.
LEMMA NothingDecided ==
    ASSUME NEW rows, NEW revision, NEW f, NEW start, Len(rows) \in Nat,
           \A i \in 1 .. Len(rows) : rows[i].revision # revision
    PROVE  Reviewed(rows, revision, f, start)[Len(rows)] = start
<1> DEFINE r == Reviewed(rows, revision, f, start)
           S == {i \in 0 .. Len(rows) : r[i] # start}
<1>1. /\ r[0] = start
      /\ \A i \in 1 .. Len(rows) : r[i] = Step(rows, revision, f, i, r[i - 1])
  BY ReviewedStepByStep
<1> HIDE DEF r
<1>2. ASSUME S # {}
      PROVE  FALSE
  <2>1. PICK m \in S : \A i \in S : m <= i
    BY <1>2, LeastElement
  <2>2. m # 0
    BY <1>1, <2>1
  <2>3. m \in 1 .. Len(rows) /\ m - 1 \in 0 .. Len(rows) /\ m - 1 \notin S
    BY <2>1, <2>2
  <2>4. r[m] = r[m - 1] /\ r[m - 1] = start
    BY <1>1, <2>3 DEF Step
  <2> QED BY <2>1, <2>4
<1>3. r[Len(rows)] = start
  BY <1>2
<1> QED BY <1>3 DEF r

\* An estimate a page may show, or none.
Views == [estimate : Estimate, proposal : Nat] \cup {NoEstimate}

LEMMA AppliedIsView ==
    ASSUME NEW before \in Views, NEW d \in Decision, NEW i \in Nat
    PROVE  /\ ApplyDecision(before, d, i) \in Views
           /\ ApplyDecision(before, d, i).proposal # 0 =>
                 \/ ApplyDecision(before, d, i) = before
                 \/ d.action # "reject" /\ ApplyDecision(before, d, i).proposal = d.proposal
<1>1. d.action \in {"adopt", "replace", "reject"} /\ d.proposal \in Nat
  BY DEF Decision
<1>2. NoEstimate.proposal = 0
  BY DEF NoEstimate
<1>3. CASE d.action = "reject"
  <2>1. ApplyDecision(before, d, i) \in {NoEstimate, before}
    BY <1>3 DEF ApplyDecision
  <2> QED BY <2>1, <1>2 DEF Views
<1>4. CASE d.action = "adopt"
  <2>1. ApplyDecision(before, d, i)
           = [estimate |-> [from |-> "proposal", row |-> d.proposal], proposal |-> d.proposal]
    BY <1>4 DEF ApplyDecision
  <2> QED BY <2>1, <1>1, <1>4 DEF Views, Estimate
<1>5. CASE d.action = "replace"
  <2>1. ApplyDecision(before, d, i)
           = [estimate |-> [from |-> "decision", row |-> i], proposal |-> d.proposal]
    BY <1>5 DEF ApplyDecision
  <2> QED BY <2>1, <1>1, <1>5 DEF Views, Estimate
<1> QED BY <1>1, <1>3, <1>4, <1>5

\* Some decision on the factor takes the estimate of this proposal.
Takes(rows, f, proposal) ==
    \E d \in DOMAIN rows :
        /\ rows[d].factor = f /\ rows[d].action # "reject" /\ rows[d].proposal = proposal

\* What is reviewed is always an estimate or none, and its proposal one that was taken.
LEMMA ReviewedIsView ==
    ASSUME NEW rows \in Seq(Decision), NEW revision, NEW f,
           NEW start \in Views, start.proposal = 0
    PROVE  LET v == Reviewed(rows, revision, f, start)[Len(rows)]
           IN  v \in Views /\ (v.proposal # 0 => Takes(rows, f, v.proposal))
<1> DEFINE r == Reviewed(rows, revision, f, start)
           Good(v) == v \in Views /\ (v.proposal # 0 => Takes(rows, f, v.proposal))
           S == {i \in 0 .. Len(rows) : ~Good(r[i])}
<1>0. Len(rows) \in Nat /\ DOMAIN rows = 1 .. Len(rows)
  OBVIOUS
<1>1. /\ r[0] = start
      /\ \A i \in 1 .. Len(rows) : r[i] = Step(rows, revision, f, i, r[i - 1])
  BY <1>0, ReviewedStepByStep
<1> HIDE DEF r
<1>2. ASSUME S # {}
      PROVE  FALSE
  <2>1. PICK m \in S : \A i \in S : m <= i
    <3> HIDE DEF Good
    <3> QED BY <1>2, <1>0, LeastElement
  <2>2. m # 0
    BY <1>1, <2>1
  <2>3. m \in 1 .. Len(rows) /\ m - 1 \in 0 .. Len(rows) /\ Good(r[m - 1])
    <3> HIDE DEF Good
    <3> QED BY <2>1, <2>2, <1>0
  <2>4. rows[m] \in Decision /\ m \in Nat
    BY <2>3
  <2>5. CASE rows[m].factor = f /\ rows[m].revision = revision
    <3>1. r[m] = ApplyDecision(r[m - 1], rows[m], m)
      BY <1>1, <2>3, <2>5 DEF Step
    <3>2. /\ r[m] \in Views
          /\ r[m].proposal # 0 =>
                \/ r[m] = r[m - 1]
                \/ rows[m].action # "reject" /\ r[m].proposal = rows[m].proposal
      BY <3>1, <2>3, <2>4, AppliedIsView
    <3>3. r[m].proposal # 0 => Takes(rows, f, r[m].proposal)
      <4>1. CASE r[m] = r[m - 1]
        BY <4>1, <2>3
      <4>2. CASE rows[m].action # "reject" /\ r[m].proposal = rows[m].proposal
        BY <4>2, <2>3, <2>5, <1>0 DEF Takes
      <4> QED BY <4>1, <4>2, <3>2
    <3>4. Good(r[m])
      BY <3>2, <3>3
    <3> QED BY <3>4, <2>1
  <2>6. CASE ~(rows[m].factor = f /\ rows[m].revision = revision)
    <3>1. r[m] = r[m - 1]
      BY <1>1, <2>3, <2>6 DEF Step
    <3> HIDE DEF Good
    <3> QED BY <3>1, <2>1, <2>3
  <2> QED BY <2>5, <2>6
<1>3. Good(r[Len(rows)])
  <2> HIDE DEF Good
  <2> QED BY <1>2, <1>0
<1> QED BY <1>3 DEF r

------------------------------------------------------------------------------
(* What the page shows of a factor *)

LEMMA BaseScoreExists ==
    ASSUME NEW t \in TableType, DecisionsAreFounded(t), ScoreExists(t)
    PROVE  BaseScore(t) \in 0 .. Len(t.scores)
<1> DEFINE n == Len(t.decisions)
           S == CurrentDecisions(t)
<1>1. t.decisions \in Seq(Decision) /\ t.request.score \in Nat /\ t.scores \in Seq([Factors -> Estimate])
  BY DEF TableType, RequestType
<1>2. n \in Nat /\ DOMAIN t.decisions = 1 .. n /\ S \subseteq 1 .. n
  BY <1>1 DEF CurrentDecisions
<1>3. CASE S = {}
  BY <1>3, <1>1 DEF BaseScore, ScoreExists
<1>4. CASE S # {}
  <2>1. Min(S) \in 1 .. n
    <3> HIDE DEF S
    <3>1. S \in SUBSET (0 .. n)
      BY <1>2
    <3> QED BY <3>1, <1>2, <1>4, LeastElement
  <2>2. t.decisions[Min(S)] \in Decision
    <3> HIDE DEF S
    <3> QED BY <2>1, <1>1
  <2>3. t.decisions[Min(S)].base \in Nat /\ t.decisions[Min(S)].base <= Len(t.scores)
    <3> HIDE DEF S
    <3> QED BY <2>1, <2>2, <1>2 DEF Decision, DecisionsAreFounded
  <2>4. BaseScore(t) = t.decisions[Min(S)].base
    BY <1>4 DEF BaseScore
  <2> QED BY <2>3, <2>4
<1> QED BY <1>3, <1>4

LEMMA FactorViewIsView ==
    ASSUME NEW t \in TableType, DecisionsAreFounded(t), ScoreExists(t), NEW f \in Factors
    PROVE  /\ FactorView(t, f) \in Views
           /\ FactorView(t, f).proposal # 0 => Takes(t.decisions, f, FactorView(t, f).proposal)
<1>1. BaseScore(t) \in 0 .. Len(t.scores)
  BY BaseScoreExists
<1>2. t.decisions \in Seq(Decision) /\ t.scores \in Seq([Factors -> Estimate])
  BY DEF TableType
<1>3. Existing(t, f) \in Views /\ Existing(t, f).proposal = 0
  <2>1. CASE BaseScore(t) = 0
    BY <2>1 DEF Existing, Views, NoEstimate
  <2>2. CASE BaseScore(t) # 0
    <3>1. t.scores[BaseScore(t)] \in [Factors -> Estimate]
      BY <1>1, <1>2, <2>2
    <3>2. t.scores[BaseScore(t)][f] \in Estimate
      BY <3>1
    <3> QED BY <2>2, <3>2 DEF Existing, Views
  <2> QED BY <2>1, <2>2
<1> QED BY <1>2, <1>3, ReviewedIsView DEF FactorView

\* The view depends on the decisions, the revision and the score they started from.
LEMMA SameView ==
    ASSUME NEW t, NEW s, s.decisions = t.decisions, s.request.revision = t.request.revision,
           BaseScore(s) = BaseScore(t),
           BaseScore(t) # 0 => s.scores[BaseScore(t)] = t.scores[BaseScore(t)]
    PROVE  \A f : FactorView(s, f) = FactorView(t, f)
<1>1. \A f : Existing(s, f) = Existing(t, f)
  BY DEF Existing
<1> QED BY <1>1 DEF FactorView

LEMMA SameBase ==
    ASSUME NEW t, NEW s, s.decisions = t.decisions, s.request.revision = t.request.revision,
           CurrentDecisions(t) # {} \/ s.request.score = t.request.score
    PROVE  BaseScore(s) = BaseScore(t) /\ CurrentDecisions(s) = CurrentDecisions(t)
<1>1. CurrentDecisions(s) = CurrentDecisions(t)
  BY DEF CurrentDecisions, IsCurrent
<1> QED BY <1>1 DEF BaseScore

\* What leaves decisions, scores and the request's score alone leaves the score right.
LEMMA ScoreStaysRight ==
    ASSUME NEW t, NEW s, s.decisions = t.decisions, s.scores = t.scores,
           s.request.revision = t.request.revision, s.request.score = t.request.score,
           ScoreIsOfFactors(t)
    PROVE  ScoreIsOfFactors(s)
<1>1. \A f : FactorView(s, f) = FactorView(t, f)
  BY SameBase, SameView
<1> QED BY <1>1 DEF ScoreIsOfFactors, Complete

------------------------------------------------------------------------------
(* Deciding factors *)

\* A set of factors is put into some order.
LEMMA FactorsInOrder ==
    ASSUME NEW S \in SUBSET Factors
    PROVE  /\ SetToSeq(S) \in Seq(S)
           /\ S # {} => Len(SetToSeq(S)) > 0
<1>1. IsFiniteSet(S)
  BY FactorsAndPeople, FS_Subset
<1>2. Cardinality(S) \in Nat /\ ExistsBijection(1 .. Cardinality(S), S)
  BY <1>1, FS_CardinalityType
<1>3. \E g \in [1 .. Cardinality(S) -> S] : IsInjective(g)
  BY <1>2 DEF ExistsBijection, Bijection, Injection
<1>4. SetToSeq(S) \in [1 .. Cardinality(S) -> S]
  BY <1>3 DEF SetToSeq
<1>5. Len(SetToSeq(S)) = Cardinality(S) /\ SetToSeq(S) \in Seq(S)
  BY <1>2, <1>4
<1>6. S # {} => Cardinality(S) # 0
  BY <1>1, FS_EmptySet
<1> QED BY <1>2, <1>5, <1>6

\* Decisions on some factors, each with its action and proposal.
IsChoice(chosen) ==
    /\ DOMAIN chosen \subseteq Factors
    /\ \A f \in DOMAIN chosen : /\ chosen[f].action \in {"adopt", "replace", "reject"}
                                /\ chosen[f].proposal \in Nat

\* They are appended as decisions of this revision that start from the same score.
LEMMA DecisionsAppended ==
    ASSUME NEW t \in TableType, DecisionsAreFounded(t), ScoreExists(t), NEW chosen, IsChoice(chosen)
    PROVE  \E new \in Seq(Decision) :
              /\ AppendDecisions(t, chosen) = [t EXCEPT !.decisions = t.decisions \o new]
              /\ \A i \in 1 .. Len(new) : /\ new[i].revision = t.request.revision
                                          /\ new[i].base = BaseScore(t)
              /\ DOMAIN chosen # {} => Len(new) > 0
<1> DEFINE rows == [f \in DOMAIN chosen |->
                      [factor |-> f, action |-> chosen[f].action, proposal |-> chosen[f].proposal,
                       base |-> BaseScore(t), revision |-> t.request.revision]]
           order == SetToSeq(DOMAIN chosen)
           new == [i \in DOMAIN order |-> rows[order[i]]]
<1>1. order \in Seq(DOMAIN chosen) /\ (DOMAIN chosen # {} => Len(order) > 0)
  BY FactorsInOrder DEF IsChoice
<1>2. BaseScore(t) \in Nat /\ t.request.revision \in 1 .. MaxRevision /\ t.scores \in Seq([Factors -> Estimate])
  BY BaseScoreExists DEF TableType, RequestType
<1>3. \A f \in DOMAIN chosen : rows[f] \in Decision
  BY <1>2 DEF IsChoice, Decision
<1>4. /\ DOMAIN order = 1 .. Len(order) /\ Len(order) \in Nat
      /\ \A i \in 1 .. Len(order) : order[i] \in DOMAIN chosen
  <2> HIDE DEF order
  <2> QED BY <1>1
<1>5. new \in [1 .. Len(order) -> Decision]
  <2> HIDE DEF order, rows
  <2> QED BY <1>3, <1>4
<1>6. new \in Seq(Decision) /\ Len(new) = Len(order)
  <2> HIDE DEF new
  <2> QED BY <1>4, <1>5
<1>7. \A i \in 1 .. Len(new) : new[i].revision = t.request.revision /\ new[i].base = BaseScore(t)
  <2>1. \A f \in DOMAIN chosen : rows[f].revision = t.request.revision /\ rows[f].base = BaseScore(t)
    OBVIOUS
  <2>2. \A i \in 1 .. Len(order) : new[i] = rows[order[i]]
    BY <1>4
  <2> HIDE DEF new, rows
  <2> QED BY <2>1, <2>2, <1>4, <1>6
<1>8. AppendDecisions(t, chosen) = [t EXCEPT !.decisions = t.decisions \o new]
  BY DEF AppendDecisions
<1> HIDE DEF new
<1> QED BY <1>1, <1>6, <1>7, <1>8

\* Only the priority of a request moved, and its score is right.
PriorityMoved(t, s) ==
    /\ s \in TableType
    /\ s.request = [t.request EXCEPT !.score = s.request.score]
    /\ s.proposals = t.proposals /\ s.inputs = t.inputs /\ s.assessed = t.assessed
    /\ s.selected = t.selected /\ s.task = t.task
    /\ Len(t.decisions) <= Len(s.decisions)
    /\ \A i \in 1 .. Len(t.decisions) : s.decisions[i] = t.decisions[i]
    /\ DecisionsAreFounded(s) /\ ScoreExists(s) /\ ScoreIsOfFactors(s)

LEMMA SnapshotIsRight ==
    ASSUME NEW t \in TableType, DecisionsAreFounded(t), ScoreExists(t), CurrentDecisions(t) # {}
    PROVE  LET s == SaveSnapshot(t)
           IN  /\ s \in TableType
               /\ s.request = [t.request EXCEPT !.score = s.request.score]
               /\ s.proposals = t.proposals /\ s.decisions = t.decisions /\ s.inputs = t.inputs
               /\ s.assessed = t.assessed /\ s.selected = t.selected /\ s.task = t.task
               /\ DecisionsAreFounded(s) /\ ScoreExists(s) /\ ScoreIsOfFactors(s)
<1> DEFINE s == SaveSnapshot(t)
           shot == [f \in Factors |-> FactorView(t, f).estimate]
<1>1. /\ t.scores \in Seq([Factors -> Estimate]) /\ t.decisions \in Seq(Decision)
      /\ t.request \in RequestType /\ Len(t.scores) \in Nat
  BY DEF TableType
<1>2. BaseScore(t) \in 0 .. Len(t.scores)
  BY BaseScoreExists
<1>3. CASE ~Complete(t)
  <2>1. s = [t EXCEPT !.request.score = 0]
    BY <1>3 DEF SaveSnapshot
  <2>2. s.request = [t.request EXCEPT !.score = 0] /\ s.request.score = 0
    BY <2>1, <1>1 DEF TableType, RequestType
  <2>3. /\ s.proposals = t.proposals /\ s.decisions = t.decisions /\ s.inputs = t.inputs
        /\ s.assessed = t.assessed /\ s.selected = t.selected /\ s.task = t.task
        /\ s.scores = t.scores
    BY <2>1 DEF TableType
  <2>4. s.request \in RequestType /\ s.request.revision = t.request.revision
    BY <2>2, <1>1 DEF RequestType
  <2>5. s \in TableType
    BY <2>1, <2>2, <2>4 DEF TableType
  <2> HIDE DEF s
  <2>6. \A f : FactorView(s, f) = FactorView(t, f)
    BY <2>3, <2>4, SameBase, SameView
  <2>7. ScoreIsOfFactors(s)
    BY <1>3, <2>2, <2>6 DEF ScoreIsOfFactors, Complete
  <2>8. DecisionsAreFounded(s) /\ ScoreExists(s)
    BY <2>2, <2>3, <2>4, <1>1 DEF DecisionsAreFounded, ScoreExists
  <2> QED BY <2>2, <2>3, <2>5, <2>7, <2>8 DEF s
<1>4. CASE Complete(t)
  <2>1. s = [t EXCEPT !.scores = Append(t.scores, shot), !.request.score = Len(t.scores) + 1]
    BY <1>4 DEF SaveSnapshot
  <2>2. s.request = [t.request EXCEPT !.score = Len(t.scores) + 1]
        /\ s.request.score = Len(t.scores) + 1
    BY <2>1, <1>1 DEF TableType, RequestType
  <2>3. /\ s.proposals = t.proposals /\ s.decisions = t.decisions /\ s.inputs = t.inputs
        /\ s.assessed = t.assessed /\ s.selected = t.selected /\ s.task = t.task
        /\ s.scores = Append(t.scores, shot)
    BY <2>1 DEF TableType
  <2> HIDE DEF s, shot
  <2>4. s.request \in RequestType /\ s.request.revision = t.request.revision
    <3>1. Len(t.scores) + 1 \in Nat
      BY <1>1
    <3>2. t.request \in RequestType
      BY <1>1
    <3> QED BY <2>2, <3>1, <3>2 DEF RequestType
  <2>5. shot \in [Factors -> Estimate]
    <3>1. ASSUME NEW f \in Factors
          PROVE  FactorView(t, f).estimate \in Estimate
      BY <1>4, FactorViewIsView DEF Complete, Views
    <3> QED BY <3>1 DEF shot
  <2>6. /\ s.scores \in Seq([Factors -> Estimate]) /\ Len(s.scores) = Len(t.scores) + 1
        /\ s.scores[Len(t.scores) + 1] = shot
        /\ \A i \in 1 .. Len(t.scores) : s.scores[i] = t.scores[i]
    BY <2>3, <2>5, <1>1, AppendProperties
  <2>7. s \in TableType
    BY <2>1, <2>2, <2>4, <2>3, <2>6 DEF TableType
  <2>8. BaseScore(s) = BaseScore(t)
    BY <2>3, <2>4, SameBase
  <2>9. \A f : FactorView(s, f) = FactorView(t, f)
    BY <2>3, <2>4, <2>6, <2>8, <1>2, SameView
  <2>10. ScoreIsOfFactors(s)
    <3>1. s.request.score # 0 /\ s.scores[s.request.score] = shot
      BY <2>2, <2>6, <1>1
    <3>2. \A f \in Factors : shot[f] = FactorView(s, f).estimate
      BY <2>9 DEF shot
    <3> QED BY <3>1, <3>2 DEF ScoreIsOfFactors
  <2>11. DecisionsAreFounded(s) /\ ScoreExists(s)
    <3>1. \A i \in DOMAIN t.decisions : t.decisions[i].base \in Nat
      <4>1. ASSUME NEW i \in DOMAIN t.decisions
            PROVE  t.decisions[i] \in Decision
        BY <1>1
      <4> QED BY <4>1 DEF Decision
    <3> QED BY <3>1, <2>2, <2>3, <2>4, <2>6, <1>1 DEF DecisionsAreFounded, ScoreExists
  <2> QED BY <2>2, <2>3, <2>7, <2>10, <2>11 DEF s
<1> QED BY <1>3, <1>4

\* applyPriorityDecisions leaves a score that is the snapshot of the factors, or none.
LEMMA PriorityDecided ==
    ASSUME NEW t \in TableType, DecisionsAreFounded(t), ScoreExists(t), ScoreIsOfFactors(t),
           NEW chosen, IsChoice(chosen)
    PROVE  PriorityMoved(t, ApplyPriorityDecisions(t, chosen))
<1>1. /\ t.decisions \in Seq(Decision) /\ t.request \in RequestType /\ Len(t.decisions) \in Nat
      /\ DOMAIN t.decisions = 1 .. Len(t.decisions) /\ t.scores \in Seq([Factors -> Estimate])
  BY DEF TableType
<1>2. CASE DOMAIN chosen = {}
  <2>1. ApplyPriorityDecisions(t, chosen) = t
    BY <1>2 DEF ApplyPriorityDecisions
  <2>2. t.request = [t.request EXCEPT !.score = t.request.score]
    BY <1>1 DEF RequestType
  <2> QED BY <2>1, <2>2, <1>1 DEF PriorityMoved
<1>3. CASE DOMAIN chosen # {}
  <2> DEFINE a == AppendDecisions(t, chosen)
             s == SaveSnapshot(a)
  <2>1. ApplyPriorityDecisions(t, chosen) = s
    BY <1>3 DEF ApplyPriorityDecisions
  <2>2. PICK new \in Seq(Decision) :
            /\ a = [t EXCEPT !.decisions = t.decisions \o new]
            /\ \A i \in 1 .. Len(new) : new[i].revision = t.request.revision
                                        /\ new[i].base = BaseScore(t)
            /\ Len(new) > 0
    BY <1>3, DecisionsAppended
  <2> HIDE DEF a
  <2>3. /\ a.request = t.request /\ a.proposals = t.proposals /\ a.inputs = t.inputs
        /\ a.scores = t.scores
        /\ a.assessed = t.assessed /\ a.selected = t.selected /\ a.task = t.task
        /\ a.decisions = t.decisions \o new
    BY <2>2 DEF TableType
  <2>4. /\ a.decisions \in Seq(Decision) /\ Len(a.decisions) = Len(t.decisions) + Len(new)
        /\ \A i \in 1 .. Len(t.decisions) + Len(new) :
              a.decisions[i] = IF i <= Len(t.decisions) THEN t.decisions[i]
                               ELSE new[i - Len(t.decisions)]
    BY <2>3, <1>1, ConcatProperties
  <2>5. a \in TableType
    BY <2>2, <2>3, <2>4 DEF TableType
  <2>6. BaseScore(t) \in 0 .. Len(t.scores)
    BY BaseScoreExists
  <2>7. DecisionsAreFounded(a) /\ ScoreExists(a)
    <3>1. ASSUME NEW i \in DOMAIN a.decisions
          PROVE  /\ a.decisions[i].revision <= a.request.revision
                 /\ a.decisions[i].base <= Len(a.scores)
      <4>0. i \in 1 .. Len(t.decisions) + Len(new) /\ Len(new) \in Nat
        BY <2>4
      <4>1. CASE i <= Len(t.decisions)
        BY <4>0, <4>1, <2>3, <2>4, <1>1 DEF DecisionsAreFounded
      <4>2. CASE i > Len(t.decisions)
        <5>1. i - Len(t.decisions) \in 1 .. Len(new)
          BY <4>0, <4>2, <1>1
        <5>2. a.decisions[i].revision = t.request.revision /\ a.decisions[i].base = BaseScore(t)
          BY <5>1, <4>0, <4>2, <2>2, <2>4, <1>1
        <5> QED BY <5>2, <2>3, <2>6, <1>1 DEF RequestType
      <4> QED BY <4>1, <4>2, <4>0, <1>1
    <3> QED BY <3>1, <2>3 DEF DecisionsAreFounded, ScoreExists
  <2>8. CurrentDecisions(a) # {}
    <3>1. Len(new) \in Nat /\ Len(t.decisions) + 1 \in 1 .. Len(a.decisions)
      BY <2>2, <2>4, <1>1
    <3>2. a.decisions[Len(t.decisions) + 1] = new[1]
      BY <3>1, <2>4, <2>2, <1>1
    <3>3. new[1].revision = t.request.revision
      BY <3>1, <2>2
    <3>4. Len(t.decisions) + 1 \in CurrentDecisions(a)
      BY <3>1, <3>2, <3>3, <2>3, <2>4 DEF CurrentDecisions, IsCurrent
    <3> QED BY <3>4
  <2>9. /\ s \in TableType
        /\ s.request = [a.request EXCEPT !.score = s.request.score]
        /\ s.proposals = a.proposals /\ s.decisions = a.decisions /\ s.inputs = a.inputs
        /\ s.assessed = a.assessed /\ s.selected = a.selected /\ s.task = a.task
        /\ DecisionsAreFounded(s) /\ ScoreExists(s) /\ ScoreIsOfFactors(s)
    BY <2>5, <2>7, <2>8, SnapshotIsRight
  <2> HIDE DEF s
  <2>10. /\ Len(t.decisions) <= Len(s.decisions)
         /\ \A i \in 1 .. Len(t.decisions) : s.decisions[i] = t.decisions[i]
    <3>1. Len(new) \in Nat
      OBVIOUS
    <3> QED BY <3>1, <2>4, <2>9, <1>1
  <2> QED BY <2>1, <2>3, <2>9, <2>10 DEF PriorityMoved
<1> QED BY <1>2, <1>3

------------------------------------------------------------------------------
(* Judging the area *)

\* Only verdicts and the area's task moved.
AreaMoved(t, s) ==
    /\ s \in TableType
    /\ s.request = t.request /\ s.proposals = t.proposals /\ s.decisions = t.decisions
    /\ s.scores = t.scores /\ s.inputs = t.inputs /\ s.selected = t.selected
    /\ Len(s.assessed) = Len(t.assessed)
    /\ \A i \in 1 .. Len(t.assessed) : s.assessed[i].revision = t.assessed[i].revision
    /\ TaskNamesAssessment(s)

\* While the review is open the assessment that counts is one of the revision.
LEMMA PreferredIsCurrent ==
    ASSUME NEW t \in TableType, SelectedIsCurrent(t)
    PROVE  /\ Preferred(t) \in 0 .. Len(t.assessed)
           /\ Preferred(t) # 0 => t.assessed[Preferred(t)].revision = t.request.revision
<1>1. t.assessed \in Seq(Assessment) /\ Len(t.assessed) \in Nat /\ t.selected \in Nat
  BY DEF TableType
<1>2. CASE t.selected # 0
  BY <1>1, <1>2 DEF Preferred, SelectedIsCurrent
<1>3. CASE t.selected = 0
  <2>1. Preferred(t) = Newest(t)
    BY <1>3 DEF Preferred
  <2>2. CASE Newest(t) = 0
    BY <1>1, <2>1, <2>2
  <2>3. CASE Newest(t) # 0
    <3>1. /\ t.assessed # <<>> /\ Newest(t) = Len(t.assessed)
          /\ t.assessed[Len(t.assessed)].revision = t.request.revision
      BY <2>3 DEF Newest, Last
    <3> QED BY <1>1, <2>1, <3>1
  <2> QED BY <2>2, <2>3
<1> QED BY <1>2, <1>3

LEMMA CurrentAssessmentExists ==
    ASSUME NEW t \in TableType, SelectedIsCurrent(t), TaskNamesAssessment(t)
    PROVE  CurrentAssessment(t) \in 0 .. Len(t.assessed)
<1>1. Len(t.assessed) \in Nat /\ t.task.of \in Nat
  BY DEF TableType, Task
<1>2. Preferred(t) \in 0 .. Len(t.assessed)
  BY PreferredIsCurrent
<1> QED BY <1>1, <1>2 DEF CurrentAssessment, TaskNamesAssessment

\* The row of an assessment with a decision made at a version.
Decide(c, verdict, version) == [[c EXCEPT !.verdict = verdict] EXCEPT !.decidedAt = version]

LEMMA DecidedRow ==
    ASSUME NEW c, NEW v, NEW n,
           c \in Assessment, v \in {"undecided", "settled", "follow_up"}, n \in Nat
    PROVE  /\ Decide(c, v, n) \in Assessment
           /\ Decide(c, v, n).verdict = v /\ Decide(c, v, n).decidedAt = n
           /\ Decide(c, v, n).revision = c.revision
<1> DEFINE b == [c EXCEPT !.verdict = v]
           r == [b EXCEPT !.decidedAt = n]
<1>1. b \in Assessment /\ b.verdict = v /\ b.revision = c.revision
  BY DEF Assessment
<1> HIDE DEF b
<1>2. r \in Assessment /\ r.verdict = v /\ r.decidedAt = n /\ r.revision = c.revision
  BY <1>1 DEF Assessment
<1> QED BY <1>2 DEF b, Decide

\* The rows after a decision on a finding.
DecidedOn(t, p, s) ==
    /\ AreaMoved(t, s)
    /\ \A i \in 1 .. Len(t.assessed) : i # p.finding => s.assessed[i] = t.assessed[i]
    /\ s.assessed[p.finding].verdict = p.verdict
    /\ s.assessed[p.finding].decidedAt = t.request.version
    /\ s.task = IF Reopens(t, p.verdict) THEN [state |-> "in_progress", of |-> 0]
                ELSE [state |-> "completed", of |-> p.finding]

LEMMA FindingDecided ==
    ASSUME NEW t \in TableType, NEW p, p.verdict \in {"settled", "follow_up"},
           p.finding \in 1 .. Len(t.assessed)
    PROVE  DecidedOn(t, p, SaveDecision(t, p))
<1> DEFINE s == SaveDecision(t, p)
           row == Decide(t.assessed[p.finding], p.verdict, t.request.version)
           job == IF Reopens(t, p.verdict) THEN [state |-> "in_progress", of |-> 0]
                  ELSE [state |-> "completed", of |-> p.finding]
<1>1. /\ t.assessed \in Seq(Assessment) /\ t.request.version \in 1 .. MaxVersion
      /\ Len(t.assessed) \in Nat /\ DOMAIN t.assessed = 1 .. Len(t.assessed)
      /\ t.request.version \in Nat
  BY RowBounds DEF TableType, RequestType
<1>2. t.assessed[p.finding] \in Assessment
  BY <1>1
<1>3. row \in Assessment /\ row.verdict = p.verdict /\ row.decidedAt = t.request.version
      /\ row.revision = t.assessed[p.finding].revision
  <2> DEFINE v == p.verdict
             n == t.request.version
             c == t.assessed[p.finding]
  <2>1. /\ v \in {"undecided", "settled", "follow_up"} /\ n \in Nat
        /\ c \in Assessment
    BY <1>1, <1>2
  <2> HIDE DEF v, n, c
  <2>2. /\ Decide(c, v, n) \in Assessment
        /\ Decide(c, v, n).verdict = v /\ Decide(c, v, n).decidedAt = n
        /\ Decide(c, v, n).revision = c.revision
    BY <2>1, DecidedRow
  <2> QED BY <2>2 DEF v, n, c
<1>4. job \in Task /\ job.of \in 0 .. Len(t.assessed)
  BY <1>1 DEF Task
<1>5. s = [t EXCEPT !.assessed = [t.assessed EXCEPT ![p.finding] = row], !.task = job]
  <2>1. s = [t EXCEPT !.assessed[p.finding].verdict = p.verdict,
                      !.assessed[p.finding].decidedAt = t.request.version,
                      !.task = job]
    BY DEF SaveDecision
  <2>2. [[t.assessed EXCEPT ![p.finding].verdict = p.verdict]
             EXCEPT ![p.finding].decidedAt = t.request.version]
          = [t.assessed EXCEPT ![p.finding] = row]
    BY <1>1, <1>2 DEF Decide
  <2> HIDE DEF s, job
  <2> QED BY <2>1, <2>2 DEF TableType
<1> HIDE DEF row, job
<1>6. /\ [t.assessed EXCEPT ![p.finding] = row] \in Seq(Assessment)
      /\ Len([t.assessed EXCEPT ![p.finding] = row]) = Len(t.assessed)
      /\ \A i \in 1 .. Len(t.assessed) :
            [t.assessed EXCEPT ![p.finding] = row][i] = IF i = p.finding THEN row ELSE t.assessed[i]
  BY <1>1, <1>3, ExceptSeq
<1> HIDE DEF s
<1>7. /\ s.request = t.request /\ s.proposals = t.proposals /\ s.decisions = t.decisions
      /\ s.scores = t.scores /\ s.inputs = t.inputs /\ s.selected = t.selected
      /\ s.assessed = [t.assessed EXCEPT ![p.finding] = row] /\ s.task = job
  BY <1>5 DEF TableType
<1>8. s \in TableType
  BY <1>4, <1>5, <1>6 DEF TableType
<1>9. AreaMoved(t, s)
  BY <1>3, <1>4, <1>6, <1>7, <1>8 DEF AreaMoved, TaskNamesAssessment
<1> QED BY <1>1, <1>3, <1>6, <1>7, <1>9 DEF s, job, DecidedOn

\* What the fields of a message are.
IsPayload(t, p) ==
    /\ p.verdict \in {"none", "settled", "follow_up"} /\ p.finding \in 0 .. Len(t.assessed)
    /\ p.outcome \in BOOLEAN /\ p.complete \in BOOLEAN
    /\ IsChoice(p.factors)

LEMMA AreaJudged ==
    ASSUME NEW t \in TableType, SelectedIsCurrent(t), TaskNamesAssessment(t),
           NEW p, IsPayload(t, p), MayDecide(t, p), MayRecordOutcome(SaveDecision(t, p), p)
    PROVE  /\ AreaMoved(t, Judged(t, p))
           /\ Completed(t.request) => Judged(t, p) = t
<1> DEFINE s == SaveDecision(t, p)
<1>0. Len(t.assessed) \in Nat /\ t.assessed \in Seq(Assessment)
  BY DEF TableType
<1>1. AreaMoved(t, s) /\ (Completed(t.request) => s = t)
  <2>1. CASE p.verdict = "none"
    BY <2>1 DEF SaveDecision, AreaMoved
  <2>2. CASE p.verdict # "none"
    <3>1. p.finding \in 1 .. Len(t.assessed) /\ ~Completed(t.request)
      BY <2>2, <1>0 DEF IsPayload, MayDecide, Reviewable
    <3>2. p.verdict \in {"settled", "follow_up"}
      BY <2>2 DEF IsPayload
    <3>3. DecidedOn(t, p, s)
      BY <3>1, <3>2, FindingDecided
    <3>4. AreaMoved(t, s)
      BY <3>3 DEF DecidedOn
    <3> QED BY <3>1, <3>4
  <2> QED BY <2>1, <2>2
<1> HIDE DEF s
<1>2. CASE ~p.outcome
  <2>1. Judged(t, p) = s
    BY <1>2 DEF Judged, RecordOutcome, s
  <2> QED BY <1>1, <2>1
<1>3. CASE p.outcome
  <2> DEFINE job == [state |-> "completed", of |-> CurrentAssessment(s)]
  <2>1. Judged(t, p) = [s EXCEPT !.task = job]
    BY <1>3 DEF Judged, RecordOutcome, s
  <2>2. ~Completed(t.request)
    BY <1>1, <1>3 DEF MayRecordOutcome, Reviewable, AreaMoved, s
  <2>3. s \in TableType /\ TaskNamesAssessment(s) /\ SelectedIsCurrent(s)
    <3>1. t.selected # 0 => t.selected \in 1 .. Len(t.assessed)
      BY <1>0 DEF SelectedIsCurrent, TableType
    <3> QED BY <1>1, <3>1 DEF AreaMoved, SelectedIsCurrent
  <2>4. CurrentAssessment(s) \in 0 .. Len(s.assessed)
    BY <2>3, CurrentAssessmentExists
  <2>5. job \in Task
    BY <2>3, <2>4 DEF Task, TableType
  <2> DEFINE j == [s EXCEPT !.task = job]
  <2>6. j.task.of <= Len(s.assessed) /\ j.assessed = s.assessed
    BY <2>3, <2>4 DEF TableType
  <2> HIDE DEF job
  <2>7. j \in TableType
    BY <2>3, <2>5 DEF TableType
  <2>8. /\ j.request = s.request /\ j.proposals = s.proposals /\ j.decisions = s.decisions
        /\ j.scores = s.scores /\ j.inputs = s.inputs /\ j.selected = s.selected
    BY <2>3 DEF TableType
  <2> HIDE DEF j
  <2>9. AreaMoved(t, j)
    BY <1>1, <2>6, <2>7, <2>8 DEF AreaMoved, TaskNamesAssessment
  <2> QED BY <2>1, <2>2, <2>9 DEF j
<1> QED BY <1>2, <1>3 DEF IsPayload

------------------------------------------------------------------------------
(* Settling questions *)

\* Only the state of some questions moved.
LEMMA QuestionsSettled ==
    ASSUME NEW t \in TableType, NEW settled
    PROVE  LET s == SettleAnsweredInputs(t, settled)
           IN  /\ s \in TableType
               /\ s.request = t.request /\ s.proposals = t.proposals
               /\ s.decisions = t.decisions /\ s.scores = t.scores /\ s.assessed = t.assessed
               /\ s.selected = t.selected /\ s.task = t.task
               /\ DOMAIN s.inputs = DOMAIN t.inputs
               /\ \A i \in DOMAIN t.inputs :
                     /\ i \notin settled => s.inputs[i] = t.inputs[i]
                     /\ i \in settled => s.inputs[i].state = "resolved"
                                         /\ s.inputs[i].judged = t.request.version
                     /\ s.inputs[i].factor = t.inputs[i].factor
                     /\ s.inputs[i].finding = t.inputs[i].finding
                     /\ s.inputs[i].revision = t.inputs[i].revision
                     /\ s.inputs[i].answers = t.inputs[i].answers
<1> DEFINE s == SettleAnsweredInputs(t, settled)
           row(i) == [[t.inputs[i] EXCEPT !.state = "resolved"] EXCEPT !.judged = t.request.version]
           rows == [i \in DOMAIN t.inputs |-> IF i \in settled THEN row(i) ELSE t.inputs[i]]
<1>1. /\ t.inputs \in Seq(Input) /\ t.request.version \in Nat
      /\ Len(t.inputs) \in Nat /\ DOMAIN t.inputs = 1 .. Len(t.inputs)
  BY DEF TableType, RequestType
<1>2. ASSUME NEW i \in DOMAIN t.inputs
      PROVE  /\ row(i) \in Input /\ t.inputs[i] \in Input
             /\ row(i).state = "resolved" /\ row(i).judged = t.request.version
             /\ row(i).factor = t.inputs[i].factor /\ row(i).finding = t.inputs[i].finding
             /\ row(i).revision = t.inputs[i].revision /\ row(i).answers = t.inputs[i].answers
  <2>1. t.inputs[i] \in Input
    BY <1>1
  <2> QED BY <2>1, <1>1 DEF Input
<1> HIDE DEF row
<1>3. rows \in [1 .. Len(t.inputs) -> Input]
  BY <1>1, <1>2
<1>4. rows \in Seq(Input) /\ DOMAIN rows = DOMAIN t.inputs
  <2> HIDE DEF rows
  <2> QED BY <1>1, <1>3
<1>5. s = [t EXCEPT !.inputs = rows]
  BY DEF SettleAnsweredInputs, row
<1>6. \A i \in DOMAIN t.inputs : rows[i] = IF i \in settled THEN row(i) ELSE t.inputs[i]
  OBVIOUS
<1> HIDE DEF rows, s
<1>7. /\ s \in TableType /\ s.inputs = rows
      /\ s.request = t.request /\ s.proposals = t.proposals
      /\ s.decisions = t.decisions /\ s.scores = t.scores /\ s.assessed = t.assessed
      /\ s.selected = t.selected /\ s.task = t.task
  BY <1>4, <1>5 DEF TableType
<1> QED BY <1>2, <1>4, <1>6, <1>7 DEF s

------------------------------------------------------------------------------
(* A submission *)

\* The row after the commit: another version, and another stage if review completed.
RowMoved(t, s) ==
    /\ s \in TableType
    /\ s.request.version = t.request.version + 1
    /\ s.request.revision = t.request.revision /\ s.request.score = t.request.score
    /\ s.request.resolution = t.request.resolution /\ s.request.resolving = t.request.resolving
    /\ s.proposals = t.proposals /\ s.decisions = t.decisions /\ s.scores = t.scores
    /\ s.inputs = t.inputs /\ s.assessed = t.assessed /\ s.selected = t.selected
    /\ s.task = t.task

LEMMA RowBumped ==
    ASSUME NEW t \in TableType, t.request.version < MaxVersion
    PROVE  RowMoved(t, Bump(t)) /\ Bump(t).request.stage = t.request.stage
<1> DEFINE s == Bump(t)
           row == [t.request EXCEPT !.version = t.request.version + 1]
<1>1. t.request \in RequestType /\ t.request.version \in Nat /\ MaxVersion \in Nat
      /\ t.request.version \in 1 .. MaxVersion
  BY RowBounds DEF TableType, RequestType
<1>2. s = [t EXCEPT !.request = row]
  BY DEF Bump, Bumped
<1>3. /\ row \in RequestType /\ row.version = t.request.version + 1
      /\ row.revision = t.request.revision /\ row.score = t.request.score
      /\ row.resolution = t.request.resolution /\ row.resolving = t.request.resolving
      /\ row.stage = t.request.stage
  BY <1>1 DEF RequestType
<1> HIDE DEF row, s
<1>4. /\ s \in TableType /\ s.request = row
      /\ s.proposals = t.proposals /\ s.decisions = t.decisions /\ s.scores = t.scores
      /\ s.inputs = t.inputs /\ s.assessed = t.assessed /\ s.selected = t.selected
      /\ s.task = t.task
  BY <1>2, <1>3 DEF TableType
<1> QED BY <1>3, <1>4 DEF RowMoved, s

LEMMA ReviewCompleted ==
    ASSUME NEW t \in TableType, NEW u, RowMoved(u, t), NEW p, p.complete \in BOOLEAN
    PROVE  /\ RowMoved(u, CompleteFirstReview(t, p))
           /\ Completed(CompleteFirstReview(t, p).request) <=> p.complete \/ Completed(t.request)
<1> DEFINE s == CompleteFirstReview(t, p)
           row == [t.request EXCEPT !.stage = "first_review_completed"]
<1>1. CASE ~p.complete
  <2>1. s = t
    BY <1>1 DEF CompleteFirstReview
  <2> QED BY <1>1, <2>1
<1>2. CASE p.complete
  <2>1. s = [t EXCEPT !.request = row]
    BY <1>2 DEF CompleteFirstReview, TableType
  <2>2. t.request \in RequestType
    BY DEF TableType
  <2>3. /\ row \in RequestType /\ row.version = t.request.version
        /\ row.revision = t.request.revision /\ row.score = t.request.score
        /\ row.resolution = t.request.resolution /\ row.resolving = t.request.resolving
        /\ row.stage = "first_review_completed"
    BY <2>2 DEF RequestType
  <2> HIDE DEF row, s
  <2>4. /\ s \in TableType /\ s.request = row
        /\ s.proposals = t.proposals /\ s.decisions = t.decisions /\ s.scores = t.scores
        /\ s.inputs = t.inputs /\ s.assessed = t.assessed /\ s.selected = t.selected
        /\ s.task = t.task
    BY <2>1, <2>3 DEF TableType
  <2>5. RowMoved(u, s)
    BY <2>3, <2>4 DEF RowMoved
  <2>6. Completed(s.request)
    BY <2>3, <2>4 DEF Completed
  <2> QED BY <1>2, <2>5, <2>6 DEF s
<1> QED BY <1>1, <1>2

\* The parts of Sound that a decision on priority, an outcome and a bump move.
LEMMA SubmissionIsTyped ==
    ASSUME NEW t, Sound(t), NEW p, IsPayload(t, p), Accepts(t, p),
           t.request.version < MaxVersion
    PROVE  /\ AreaMoved(t, Judged(t, p)) /\ (Completed(t.request) => Judged(t, p) = t)
           /\ PriorityMoved(Judged(t, p), Decided(t, p))
           /\ Settled(t, p) \in TableType
           /\ RowMoved(Settled(t, p), Submitted(t, p))
           /\ Completed(Submitted(t, p).request) <=> p.complete \/ Completed(t.request)
<1> DEFINE j == Judged(t, p)
           d == Decided(t, p)
           s == Settled(t, p)
           b == Bump(s)
<1>1. AreaMoved(t, j) /\ (Completed(t.request) => j = t)
  BY AreaJudged DEF Sound, Accepts
<1>2. DecisionsAreFounded(j) /\ ScoreExists(j) /\ ScoreIsOfFactors(j) /\ j \in TableType
  <2> HIDE DEF j
  <2>1. ScoreIsOfFactors(j)
    BY <1>1, ScoreStaysRight DEF AreaMoved, Sound
  <2> QED BY <1>1, <2>1 DEF AreaMoved, Sound, DecisionsAreFounded, ScoreExists
<1>3. PriorityMoved(j, d)
  <2>1. IsChoice(p.factors)
    BY DEF IsPayload
  <2>2. d = ApplyPriorityDecisions(j, p.factors)
    BY DEF Decided
  <2> HIDE DEF j, d
  <2> QED BY <1>2, <2>1, <2>2, PriorityDecided
<1>4. d \in TableType /\ d.request = [t.request EXCEPT !.score = d.request.score]
  BY <1>1, <1>3 DEF PriorityMoved, AreaMoved
<1>5. s \in TableType /\ s.request = d.request
  <2>1. s = SettleAnsweredInputs(d, Answered(d, p))
    BY DEF Settled
  <2> HIDE DEF s, d
  <2> QED BY <1>4, <2>1, QuestionsSettled
<1>6. s.request.version < MaxVersion /\ s.request.stage = t.request.stage
  <2>1. t.request \in RequestType
    BY DEF Sound, TableType
  <2> HIDE DEF s, d
  <2> QED BY <1>4, <1>5, <2>1 DEF RequestType
<1>7. RowMoved(s, b) /\ b.request.stage = s.request.stage /\ b \in TableType
  <2> HIDE DEF s
  <2> QED BY <1>5, <1>6, RowBumped DEF RowMoved
<1>8. Submitted(t, p) = CompleteFirstReview(b, p) /\ p.complete \in BOOLEAN
  BY DEF Submitted, IsPayload
<1>9. /\ RowMoved(s, Submitted(t, p))
      /\ Completed(Submitted(t, p).request) <=> p.complete \/ Completed(b.request)
  <2> HIDE DEF s, b
  <2> QED BY <1>7, <1>8, ReviewCompleted
<1>10. Completed(b.request) <=> Completed(t.request)
  BY <1>6, <1>7 DEF Completed
<1> QED BY <1>1, <1>3, <1>5, <1>9, <1>10

\* A judgment made now is later than every answer.
LEMMA AnswerIsEarlier ==
    ASSUME NEW t, Sound(t), NEW i \in DOMAIN t.inputs, t.inputs[i].answers # <<>>
    PROVE  LatestAnswer(t.inputs[i]).at < t.request.version
<1>1. t.inputs[i] \in Input
  BY DEF Sound, TableType
<1>2. t.inputs[i].answers \in Seq(Answer)
  BY <1>1 DEF Input
<1>3. Len(t.inputs[i].answers) \in DOMAIN t.inputs[i].answers
  BY <1>2
<1> QED BY <1>3 DEF Sound, QuestionsAreFramed, LatestAnswer, Last

\* Questions keep what the judgment that resolved them rested on.
LEMMA SettledByJudgment ==
    ASSUME NEW t, Sound(t), NEW p, IsPayload(t, p), NEW j, AreaMoved(t, j),
           NEW d, PriorityMoved(j, d), NEW s, s = SettleAnsweredInputs(d, Answered(d, p))
    PROVE  ResolvedByJudgment(s)
<1>1. /\ d \in TableType /\ d.inputs = t.inputs /\ d.request.version = t.request.version
      /\ d.request.revision = t.request.revision
  <2>1. t.request \in RequestType
    BY DEF Sound, TableType
  <2>2. d.request.version = j.request.version /\ d.request.revision = j.request.revision
    BY <2>1 DEF PriorityMoved, AreaMoved, RequestType
  <2> QED BY <2>2 DEF PriorityMoved, AreaMoved
<1>2. /\ s.decisions = d.decisions /\ DOMAIN s.inputs = DOMAIN t.inputs
      /\ \A i \in DOMAIN t.inputs :
            /\ i \notin Answered(d, p) => s.inputs[i] = t.inputs[i]
            /\ i \in Answered(d, p) => s.inputs[i].judged = t.request.version
            /\ s.inputs[i].factor = t.inputs[i].factor
            /\ s.inputs[i].answers = t.inputs[i].answers
  BY <1>1, QuestionsSettled
<1>3. ASSUME NEW f, NEW proposal, Takes(t.decisions, f, proposal)
      PROVE  Takes(s.decisions, f, proposal)
  <2>1. PICK k \in DOMAIN t.decisions :
            t.decisions[k].factor = f /\ t.decisions[k].action # "reject"
            /\ t.decisions[k].proposal = proposal
    BY <1>3 DEF Takes
  <2>2. t.decisions \in Seq(Decision) /\ j.decisions = t.decisions /\ d.decisions \in Seq(Decision)
    BY <1>1 DEF Sound, TableType, AreaMoved
  <2>3. k \in DOMAIN d.decisions /\ d.decisions[k] = t.decisions[k]
    BY <2>1, <2>2 DEF PriorityMoved
  <2> QED BY <2>1, <2>3, <1>2 DEF Takes
<1>4. ASSUME NEW i \in DOMAIN s.inputs, s.inputs[i].state = "resolved"
      PROVE  /\ s.inputs[i].answers # <<>> /\ LatestAnswer(s.inputs[i]).useful
             /\ s.inputs[i].judged > LatestAnswer(s.inputs[i]).at
             /\ s.inputs[i].factor # None =>
                   Takes(s.decisions, s.inputs[i].factor, LatestAnswer(s.inputs[i]).proposal)
  <2>1. CASE i \notin Answered(d, p)
    <3>1. s.inputs[i] = t.inputs[i] /\ i \in DOMAIN t.inputs
      BY <1>2, <2>1
    <3>2. /\ t.inputs[i].answers # <<>> /\ LatestAnswer(t.inputs[i]).useful
          /\ t.inputs[i].judged > LatestAnswer(t.inputs[i]).at
          /\ t.inputs[i].factor # None =>
                Takes(t.decisions, t.inputs[i].factor, LatestAnswer(t.inputs[i]).proposal)
      BY <3>1, <1>4 DEF Sound, ResolvedByJudgment, Takes
    <3> QED BY <3>1, <3>2, <1>3
  <2>2. CASE i \in Answered(d, p)
    <3>1. /\ i \in DOMAIN t.inputs /\ s.inputs[i].judged = t.request.version
          /\ s.inputs[i].factor = t.inputs[i].factor /\ s.inputs[i].answers = t.inputs[i].answers
          /\ LatestAnswer(s.inputs[i]) = LatestAnswer(t.inputs[i])
      BY <1>2, <2>2 DEF LatestAnswer
    <3>2. Provided(t.inputs[i]) /\ InputResolution(d, p, t.inputs[i])
      BY <2>2, <1>1 DEF Answered
    <3>3. t.inputs[i].answers # <<>> /\ LatestAnswer(t.inputs[i]).useful
      BY <3>2 DEF Provided
    <3>4. LatestAnswer(t.inputs[i]).at < t.request.version
      BY <3>1, <3>3, AnswerIsEarlier
    <3>5. ASSUME t.inputs[i].factor # None
          PROVE  Takes(s.decisions, t.inputs[i].factor, LatestAnswer(t.inputs[i]).proposal)
      <4>1. t.inputs[i].finding = 0
        BY <3>1, <3>5 DEF Sound, QuestionsAreFramed
      <4>2. /\ t.inputs[i].factor \in DOMAIN p.factors
            /\ LatestAnswer(t.inputs[i]).proposal # 0
            /\ FactorView(d, t.inputs[i].factor).proposal = LatestAnswer(t.inputs[i]).proposal
        BY <3>2, <4>1 DEF InputResolution
      <4>3. t.inputs[i].factor \in Factors
        BY <4>2 DEF IsPayload, IsChoice
      <4>4. Takes(d.decisions, t.inputs[i].factor, LatestAnswer(t.inputs[i]).proposal)
        BY <4>2, <4>3, <1>1, FactorViewIsView DEF PriorityMoved
      <4> QED BY <4>4, <1>2
    <3>6. t.request.version > LatestAnswer(t.inputs[i]).at
      <4>1. t.inputs[i] \in Input
        BY <3>1 DEF Sound, TableType
      <4>2. t.inputs[i].answers \in Seq(Answer)
        BY <4>1 DEF Input
      <4>3. LatestAnswer(t.inputs[i]) \in Answer
        BY <4>2, <3>3 DEF LatestAnswer, Last
      <4> QED BY <3>4, <4>3, <1>1 DEF Answer, TableType, RequestType
    <3> QED BY <3>1, <3>3, <3>5, <3>6
  <2> QED BY <2>1, <2>2
<1> QED BY <1>4 DEF ResolvedByJudgment, Takes

\* The questions on the page are those that block the approval.
LEMMA BlockersAreQuestions ==
    ASSUME NEW t, ApprovalBlockers(t) = {}
    PROVE  /\ CurrentAssessment(t) # 0 /\ PageQuestions(t) = {} /\ ~Stale(t)
           /\ t.task = [state |-> "completed", of |-> CurrentAssessment(t)]
<1>1. /\ "follow_up" \notin ApprovalBlockers(t) /\ "missing" \notin ApprovalBlockers(t)
      /\ "outcome" \notin ApprovalBlockers(t) /\ "stale" \notin ApprovalBlockers(t)
  OBVIOUS
<1>2. CurrentAssessment(t) # 0 /\ ~Stale(t)
  BY <1>1 DEF ApprovalBlockers
<1>3. ~OutcomeMissing(t)
  BY <1>1 DEF ApprovalBlockers
<1>4. PageQuestions(t) = {}
  BY <1>1 DEF ApprovalBlockers
<1> QED BY <1>2, <1>3, <1>4 DEF OutcomeMissing

\* A submission accepted after completion settles questions only; the one that
\* completes the review leaves none open.
LEMMA SubmissionIsSettled ==
    ASSUME NEW t, Sound(t), NEW p, IsPayload(t, p), Accepts(t, p),
           t.request.version < MaxVersion
    PROVE  CompletionIsSettled(Submitted(t, p))
<1> DEFINE j == Judged(t, p)
           d == Decided(t, p)
           s == Settled(t, p)
           e == Submitted(t, p)
<1>1. /\ AreaMoved(t, j) /\ (Completed(t.request) => j = t) /\ PriorityMoved(j, d)
      /\ RowMoved(s, e) /\ (Completed(e.request) <=> p.complete \/ Completed(t.request))
  BY SubmissionIsTyped
<1>2. s = SettleAnsweredInputs(d, Answered(d, p))
  BY DEF Settled
<1>3. p.complete => ~Completed(t.request) /\ ApprovalBlockers(s) = {}
  BY DEF Accepts, Reviewable
<1>4. t \in TableType /\ CompletionIsSettled(t)
  BY DEF Sound
<1> SUFFICES CompletionIsSettled(e)
  OBVIOUS
<1> HIDE DEF j, d, s, e
<1>5. CASE p.complete
  <2>1. /\ CurrentAssessment(s) # 0 /\ PageQuestions(s) = {}
        /\ s.task = [state |-> "completed", of |-> CurrentAssessment(s)]
    BY <1>3, <1>5, BlockersAreQuestions
  <2>2. e.task = s.task /\ e.inputs = s.inputs /\ e.request.revision = s.request.revision
    BY <1>1 DEF RowMoved
  <2>3. Completed(e.request) /\ e.task.state = "completed" /\ e.task.of = CurrentAssessment(s)
    BY <1>1, <1>5, <2>1, <2>2
  <2>4. CurrentAssessment(e) = CurrentAssessment(s)
    BY <2>3 DEF CurrentAssessment
  <2>5. PageQuestions(e) = PageQuestions(s)
    BY <2>2, <2>4 DEF PageQuestions, IsCurrentInput, IsCurrent
  <2> QED BY <2>1, <2>3, <2>5 DEF CompletionIsSettled
<1>6. CASE ~p.complete /\ Completed(t.request)
  <2>1. j = t /\ t.task.state = "completed" /\ PageQuestions(t) = {}
    BY <1>1, <1>4, <1>6 DEF CompletionIsSettled
  <2>2. d \in TableType /\ d.inputs = t.inputs /\ d.task = t.task
        /\ d.request.revision = t.request.revision
    <3>1. t.request \in RequestType
      BY <1>4 DEF TableType
    <3>2. d.request.revision = t.request.revision
      BY <1>1, <2>1, <3>1 DEF PriorityMoved, RequestType
    <3> QED BY <1>1, <2>1, <3>2 DEF PriorityMoved
  <2>3. /\ s.task = t.task /\ s.request = d.request /\ DOMAIN s.inputs = DOMAIN t.inputs
        /\ \A i \in DOMAIN t.inputs :
              /\ i \notin Answered(d, p) => s.inputs[i] = t.inputs[i]
              /\ i \in Answered(d, p) => s.inputs[i].state = "resolved"
    BY <1>2, <2>2, QuestionsSettled
  <2>4. e.task = t.task /\ e.inputs = s.inputs /\ e.request.revision = t.request.revision
        /\ Completed(e.request)
    BY <1>1, <1>6, <2>2, <2>3 DEF RowMoved
  <2>5. CurrentAssessment(e) = CurrentAssessment(t)
    BY <1>6, <2>1, <2>4 DEF CurrentAssessment
  <2>6. PageQuestions(e) \subseteq PageQuestions(t)
    <3>1. ASSUME NEW i \in PageQuestions(e)
          PROVE  i \in PageQuestions(t)
      <4>1. /\ i \in DOMAIN t.inputs /\ e.inputs[i] = s.inputs[i]
            /\ e.inputs[i].state # "resolved" /\ e.inputs[i].finding # 0
            /\ IsCurrentInput(e, e.inputs[i])
        BY <2>3, <2>4 DEF PageQuestions
      <4>2. s.inputs[i] = t.inputs[i]
        BY <4>1, <2>3
      <4> QED BY <4>1, <4>2, <2>4, <2>5 DEF PageQuestions, IsCurrentInput, IsCurrent
    <3> QED BY <3>1
  <2> QED BY <2>1, <2>4, <2>6 DEF CompletionIsSettled
<1>7. CASE ~p.complete /\ ~Completed(t.request)
  BY <1>1, <1>7 DEF CompletionIsSettled
<1> QED BY <1>5, <1>6, <1>7 DEF IsPayload

\* submitAssessmentInTx keeps the tables sound.
LEMMA SubmissionIsSound ==
    ASSUME NEW t, Sound(t), NEW p, IsPayload(t, p), Accepts(t, p),
           t.request.version < MaxVersion
    PROVE  Sound(Submitted(t, p))
<1> DEFINE j == Judged(t, p)
           d == Decided(t, p)
           s == Settled(t, p)
           e == Submitted(t, p)
<1>1. /\ AreaMoved(t, j) /\ PriorityMoved(j, d) /\ RowMoved(s, e)
  BY SubmissionIsTyped
<1>2. s = SettleAnsweredInputs(d, Answered(d, p))
  BY DEF Settled
<1>3. CompletionIsSettled(e)
  BY SubmissionIsSettled
<1> HIDE DEF j, d, s, e
<1>4. /\ t.request \in RequestType /\ t.assessed \in Seq(Assessment) /\ t.inputs \in Seq(Input)
      /\ t.request.version \in Nat /\ t \in TableType
  BY RowBounds DEF Sound, TableType, RequestType
<1>5. /\ d \in TableType /\ d.inputs = t.inputs /\ d.selected = t.selected
      /\ d.assessed = j.assessed /\ d.task = j.task
      /\ d.request.version = t.request.version /\ d.request.revision = t.request.revision
      /\ DecisionsAreFounded(d) /\ ScoreExists(d) /\ ScoreIsOfFactors(d)
  <2>1. j.request = t.request /\ d.request = [j.request EXCEPT !.score = d.request.score]
    BY <1>1 DEF AreaMoved, PriorityMoved
  <2>2. d.request.version = t.request.version /\ d.request.revision = t.request.revision
    BY <2>1, <1>4 DEF RequestType
  <2> QED BY <1>1, <2>2 DEF AreaMoved, PriorityMoved
<1>6. /\ s.request = d.request /\ s.decisions = d.decisions /\ s.scores = d.scores
      /\ s.assessed = d.assessed /\ s.selected = d.selected /\ s.task = d.task
      /\ DOMAIN s.inputs = DOMAIN t.inputs
      /\ \A i \in DOMAIN t.inputs :
            /\ s.inputs[i].factor = t.inputs[i].factor
            /\ s.inputs[i].finding = t.inputs[i].finding
            /\ s.inputs[i].answers = t.inputs[i].answers
  BY <1>2, <1>5, QuestionsSettled
<1>7. ResolvedByJudgment(s)
  BY <1>1, <1>2, SettledByJudgment
<1>8. /\ e \in TableType /\ e.request.version = t.request.version + 1
      /\ e.request.revision = t.request.revision /\ e.request.score = d.request.score
      /\ e.decisions = d.decisions /\ e.scores = d.scores /\ e.assessed = j.assessed
      /\ e.selected = t.selected /\ e.task = j.task /\ e.inputs = s.inputs
  BY <1>1, <1>5, <1>6 DEF RowMoved
<1>9. ResolvedByJudgment(e)
  BY <1>6, <1>7, <1>8 DEF ResolvedByJudgment
<1>10. DecisionsAreFounded(e) /\ ScoreExists(e)
  BY <1>5, <1>8 DEF DecisionsAreFounded, ScoreExists
<1>11. ScoreIsOfFactors(e)
  BY <1>5, <1>8, ScoreStaysRight
<1>12. TaskNamesAssessment(e)
  BY <1>1, <1>8 DEF AreaMoved, TaskNamesAssessment
<1>13. SelectedIsCurrent(e)
  <2>1. t.selected # 0 => t.selected \in 1 .. Len(t.assessed)
                          /\ t.assessed[t.selected].revision = t.request.revision
    BY <1>4 DEF Sound, SelectedIsCurrent, TableType
  <2> QED BY <2>1, <1>1, <1>8 DEF SelectedIsCurrent, AreaMoved
<1>14. QuestionsAreFramed(e)
  <2>1. ASSUME NEW i \in DOMAIN e.inputs
        PROVE  /\ (e.inputs[i].factor = None) <=> (e.inputs[i].finding # 0)
               /\ e.inputs[i].finding <= Len(e.assessed)
               /\ \A k \in DOMAIN e.inputs[i].answers :
                     e.inputs[i].answers[k].at < e.request.version
    <3>1. /\ i \in DOMAIN t.inputs /\ e.inputs[i].factor = t.inputs[i].factor
          /\ e.inputs[i].finding = t.inputs[i].finding
          /\ e.inputs[i].answers = t.inputs[i].answers
      BY <1>6, <1>8
    <3>2. /\ (t.inputs[i].factor = None) <=> (t.inputs[i].finding # 0)
          /\ t.inputs[i].finding <= Len(t.assessed)
          /\ \A k \in DOMAIN t.inputs[i].answers : t.inputs[i].answers[k].at < t.request.version
      BY <3>1 DEF Sound, QuestionsAreFramed
    <3>3. \A k \in DOMAIN t.inputs[i].answers : t.inputs[i].answers[k].at \in Nat
      <4>1. t.inputs[i] \in Input
        BY <3>1, <1>4
      <4>2. t.inputs[i].answers \in Seq(Answer)
        BY <4>1 DEF Input
      <4>3. \A k \in DOMAIN t.inputs[i].answers : t.inputs[i].answers[k] \in Answer
        BY <4>2
      <4> QED BY <4>3 DEF Answer
    <3>4. Len(e.assessed) = Len(t.assessed) /\ e.request.version = t.request.version + 1
      BY <1>1, <1>8 DEF AreaMoved
    <3> QED BY <3>1, <3>2, <3>3, <3>4, <1>4
  <2> QED BY <2>1 DEF QuestionsAreFramed
<1>15. Sound(e)
  BY <1>3, <1>8, <1>9, <1>10, <1>11, <1>12, <1>13, <1>14 DEF Sound
<1> QED BY <1>15 DEF e

------------------------------------------------------------------------------
(* The other steps on the tables *)

\* A judgment found before is still there.
LEMMA TakenStays ==
    ASSUME NEW rows \in Seq(Decision), NEW more \in Seq(Decision), Len(rows) <= Len(more),
           \A i \in 1 .. Len(rows) : more[i] = rows[i],
           NEW f, NEW proposal, Takes(rows, f, proposal)
    PROVE  Takes(more, f, proposal)
<1>1. PICK k \in DOMAIN rows :
          rows[k].factor = f /\ rows[k].action # "reject" /\ rows[k].proposal = proposal
  BY DEF Takes
<1>2. k \in DOMAIN more /\ more[k] = rows[k]
  BY <1>1
<1> QED BY <1>1, <1>2 DEF Takes

\* What a question that was asked, assigned or answered must look like.
MovedQuestion(s, input) ==
    /\ (input.factor = None) <=> (input.finding # 0)
    /\ input.finding <= Len(s.assessed)
    /\ \A k \in DOMAIN input.answers : input.answers[k].at < s.request.version
    /\ input.state # "resolved"
    /\ Completed(s.request) => input.finding = 0

\* Only questions and the row's version or resolution moved.
QuestionsMoved(t, s) ==
    /\ s \in TableType
    /\ s.decisions = t.decisions /\ s.scores = t.scores /\ s.assessed = t.assessed
    /\ s.selected = t.selected /\ s.task = t.task
    /\ s.request.revision = t.request.revision /\ s.request.score = t.request.score
    /\ s.request.stage = t.request.stage
    /\ t.request.version <= s.request.version
    /\ \A i \in DOMAIN s.inputs :
          \/ i \in DOMAIN t.inputs /\ s.inputs[i] = t.inputs[i]
          \/ MovedQuestion(s, s.inputs[i])

LEMMA AnswersHaveTimes ==
    ASSUME NEW t, t \in TableType, NEW i, i \in DOMAIN t.inputs
    PROVE  \A k \in DOMAIN t.inputs[i].answers : t.inputs[i].answers[k].at \in Nat
<1>1. t.inputs[i] \in Input
  BY DEF TableType
<1>2. t.inputs[i].answers \in Seq(Answer)
  BY <1>1 DEF Input
<1>3. \A k \in DOMAIN t.inputs[i].answers : t.inputs[i].answers[k] \in Answer
  BY <1>2
<1> QED BY <1>3 DEF Answer

LEMMA QuestionsMoveSoundly ==
    ASSUME NEW t, Sound(t), NEW s, QuestionsMoved(t, s)
    PROVE  Sound(s)
<1>1. ScoreIsOfFactors(s)
  BY ScoreStaysRight DEF Sound, QuestionsMoved
<1>2. DecisionsAreFounded(s) /\ SelectedIsCurrent(s) /\ TaskNamesAssessment(s) /\ ScoreExists(s)
  BY DEF Sound, QuestionsMoved, DecisionsAreFounded, SelectedIsCurrent, TaskNamesAssessment,
         ScoreExists
<1>3. QuestionsAreFramed(s)
  <2>1. ASSUME NEW i \in DOMAIN s.inputs
        PROVE  /\ (s.inputs[i].factor = None) <=> (s.inputs[i].finding # 0)
               /\ s.inputs[i].finding <= Len(s.assessed)
               /\ \A k \in DOMAIN s.inputs[i].answers :
                     s.inputs[i].answers[k].at < s.request.version
    <3>1. CASE MovedQuestion(s, s.inputs[i])
      BY <3>1 DEF MovedQuestion
    <3>2. CASE i \in DOMAIN t.inputs /\ s.inputs[i] = t.inputs[i]
      <4>1. /\ (t.inputs[i].factor = None) <=> (t.inputs[i].finding # 0)
            /\ t.inputs[i].finding <= Len(t.assessed)
            /\ \A k \in DOMAIN t.inputs[i].answers : t.inputs[i].answers[k].at < t.request.version
        BY <3>2 DEF Sound, QuestionsAreFramed
      <4>2. \A k \in DOMAIN t.inputs[i].answers : t.inputs[i].answers[k].at \in Nat
        BY <3>2, AnswersHaveTimes DEF Sound
      <4>3. t.request.version \in 1 .. MaxVersion /\ s.request.version \in 1 .. MaxVersion
        BY DEF Sound, QuestionsMoved, TableType, RequestType
      <4>4. t.request.version \in Nat /\ s.request.version \in Nat
            /\ t.request.version <= s.request.version /\ s.assessed = t.assessed
        BY <4>3, RowBounds DEF QuestionsMoved
      <4> QED BY <3>2, <4>1, <4>2, <4>4
    <3> QED BY <3>1, <3>2 DEF QuestionsMoved
  <2> QED BY <2>1 DEF QuestionsAreFramed
<1>4. ResolvedByJudgment(s)
  <2>1. \A i \in DOMAIN s.inputs : s.inputs[i].state = "resolved" =>
            i \in DOMAIN t.inputs /\ s.inputs[i] = t.inputs[i]
    BY DEF QuestionsMoved, MovedQuestion
  <2> QED BY <2>1 DEF Sound, QuestionsMoved, ResolvedByJudgment
<1>5. CompletionIsSettled(s)
  <2>1. CurrentAssessment(s) = CurrentAssessment(t) /\ (Completed(s.request) <=> Completed(t.request))
    BY DEF QuestionsMoved, CurrentAssessment, Preferred, Newest, Completed
  <2>2. ASSUME Completed(s.request), NEW i \in PageQuestions(s)
        PROVE  i \in PageQuestions(t)
    <3>1. i \in DOMAIN s.inputs /\ s.inputs[i].finding # 0
      BY <2>2 DEF PageQuestions
    <3>2. i \in DOMAIN t.inputs /\ s.inputs[i] = t.inputs[i]
      BY <2>2, <3>1 DEF QuestionsMoved, MovedQuestion
    <3> QED BY <2>1, <2>2, <3>2 DEF PageQuestions, IsCurrentInput, IsCurrent, QuestionsMoved
  <2> QED BY <2>1, <2>2 DEF Sound, QuestionsMoved, CompletionIsSettled
<1> QED BY <1>1, <1>2, <1>3, <1>4, <1>5 DEF Sound, QuestionsMoved

\* A settlement adds an assessment nobody has judged.
LEMMA SettlementIsSound ==
    ASSUME NEW t, Sound(t), ~Completed(t.request), NEW s,
           s = [t EXCEPT !.assessed = Append(t.assessed, [revision |-> t.request.revision,
                                                 verdict |-> "undecided", decidedAt |-> 0]),
                         !.selected = Len(t.assessed) + 1,
                         !.task = [state |-> "pending", of |-> 0]]
    PROVE  Sound(s)
<1> DEFINE row == [revision |-> t.request.revision, verdict |-> "undecided", decidedAt |-> 0]
           rows == Append(t.assessed, row)
           job == [state |-> "pending", of |-> 0]
<1>1. t \in TableType
  BY DEF Sound
<1>2. t.assessed \in Seq(Assessment) /\ t.request.revision \in 1 .. MaxRevision
  BY <1>1 DEF TableType, RequestType
<1>3. row \in Assessment /\ row.revision = t.request.revision
  BY <1>2 DEF Assessment
<1> HIDE DEF row
<1>4. /\ rows \in Seq(Assessment) /\ Len(rows) = Len(t.assessed) + 1
      /\ \A i \in 1 .. Len(t.assessed) : rows[i] = t.assessed[i]
      /\ rows[Len(t.assessed) + 1] = row
  BY <1>2, <1>3, AppendProperties
<1>5. job \in Task /\ job.of = 0
  BY DEF Task
<1>6. Len(t.assessed) \in Nat
  BY <1>2
<1>7. s = [t EXCEPT !.assessed = rows, !.selected = Len(t.assessed) + 1, !.task = job]
  BY DEF row
<1> HIDE DEF rows, job
<1>8. /\ s.request = t.request /\ s.proposals = t.proposals /\ s.decisions = t.decisions
      /\ s.scores = t.scores /\ s.inputs = t.inputs /\ s.assessed = rows
      /\ s.selected = Len(t.assessed) + 1 /\ s.task = job
  BY <1>1, <1>7 DEF TableType
<1>9. s \in TableType
  <2> DEFINE n == Len(t.assessed) + 1
  <2>1. n \in Nat /\ rows \in Seq(Assessment) /\ job \in Task
    BY <1>4, <1>5, <1>6
  <2>2. s = [t EXCEPT !.assessed = rows, !.selected = n, !.task = job]
    BY <1>7
  <2> HIDE DEF n
  <2> QED BY <1>1, <2>1, <2>2 DEF TableType
<1>10. ScoreIsOfFactors(s)
  BY <1>8, ScoreStaysRight DEF Sound
<1>11. DecisionsAreFounded(s) /\ ScoreExists(s) /\ ResolvedByJudgment(s)
  BY <1>8 DEF Sound, DecisionsAreFounded, ScoreExists, ResolvedByJudgment
<1>12. SelectedIsCurrent(s)
  BY <1>3, <1>4, <1>6, <1>8 DEF SelectedIsCurrent
<1>13. TaskNamesAssessment(s)
  BY <1>4, <1>5, <1>6, <1>8 DEF TaskNamesAssessment
<1>14. QuestionsAreFramed(s)
  <2>1. \A i \in DOMAIN t.inputs : t.inputs[i].finding \in Nat
    <3>1. \A i \in DOMAIN t.inputs : t.inputs[i] \in Input
      BY <1>1 DEF TableType
    <3> QED BY <3>1 DEF Input
  <2> QED BY <2>1, <1>4, <1>6, <1>8 DEF Sound, QuestionsAreFramed
<1>15. CompletionIsSettled(s)
  BY <1>8 DEF CompletionIsSettled
<1> QED BY <1>9, <1>10, <1>11, <1>12, <1>13, <1>14, <1>15 DEF Sound

\* A change of the catalog selects another assessment of the revision, or none.
LEMMA CatalogChangeIsSound ==
    ASSUME NEW t, Sound(t), NEW a,
           a \in {0} \cup {b \in DOMAIN t.assessed : t.assessed[b].revision = t.request.revision},
           NEW s, s = [t EXCEPT !.selected = a]
    PROVE  Sound(s)
<1>1. t \in TableType
  BY DEF Sound
<1>2. t.assessed \in Seq(Assessment) /\ a \in Nat
  BY <1>1 DEF TableType
<1>3. /\ s.request = t.request /\ s.proposals = t.proposals /\ s.decisions = t.decisions
      /\ s.scores = t.scores /\ s.inputs = t.inputs /\ s.assessed = t.assessed
      /\ s.selected = a /\ s.task = t.task
  BY <1>1 DEF TableType
<1>4. s \in TableType
  BY <1>1, <1>2 DEF TableType
<1>5. ScoreIsOfFactors(s)
  BY <1>3, ScoreStaysRight DEF Sound
<1>6. /\ DecisionsAreFounded(s) /\ ScoreExists(s) /\ ResolvedByJudgment(s)
      /\ QuestionsAreFramed(s) /\ TaskNamesAssessment(s)
  BY <1>3 DEF Sound, DecisionsAreFounded, ScoreExists, ResolvedByJudgment, QuestionsAreFramed,
              TaskNamesAssessment
<1>7. SelectedIsCurrent(s)
  BY <1>2, <1>3 DEF SelectedIsCurrent
<1>8. CompletionIsSettled(s)
  <2>1. ASSUME Completed(s.request)
        PROVE  s.task.state = "completed" /\ PageQuestions(s) = {}
    <3>1. Completed(t.request) /\ t.task.state = "completed" /\ PageQuestions(t) = {}
      BY <1>3, <2>1 DEF Sound, CompletionIsSettled
    <3>2. CurrentAssessment(s) = CurrentAssessment(t)
      BY <1>3, <3>1 DEF CurrentAssessment
    <3> QED BY <1>3, <3>1, <3>2 DEF PageQuestions, IsCurrentInput, IsCurrent
  <2> QED BY <2>1 DEF CompletionIsSettled
<1> QED BY <1>4, <1>5, <1>6, <1>7, <1>8 DEF Sound

\* A new revision starts with no decision, so no factor has an estimate.
LEMMA RevisionIsSound ==
    ASSUME NEW t, Sound(t), ~Completed(t.request), NEW s, s \in TableType,
           s.request.revision = t.request.revision + 1, s.request.score = 0,
           s.request.version = t.request.version + 1, s.request.stage = t.request.stage,
           s.decisions = t.decisions, s.scores = t.scores, s.inputs = t.inputs,
           s.assessed = t.assessed, s.selected = 0, s.task.of = t.task.of
    PROVE  Sound(s)
<1>1. /\ t.decisions \in Seq(Decision) /\ t.request.revision \in 1 .. MaxRevision
      /\ t.request.version \in 1 .. MaxVersion /\ t.scores \in Seq([Factors -> Estimate])
  BY DEF Sound, TableType, RequestType
<1>2. t.request.revision \in Nat /\ t.request.version \in Nat /\ Len(t.decisions) \in Nat
      /\ DOMAIN t.decisions = 1 .. Len(t.decisions) /\ Len(t.scores) \in Nat
  BY <1>1, RowBounds
<1>3. \A i \in DOMAIN t.decisions : t.decisions[i].revision \in Nat
  <2>1. \A i \in DOMAIN t.decisions : t.decisions[i] \in Decision
    BY <1>1
  <2> QED BY <2>1, RowBounds DEF Decision
<1>4. \A i \in 1 .. Len(t.decisions) : s.decisions[i].revision # s.request.revision
  BY <1>2, <1>3 DEF Sound, DecisionsAreFounded
<1>5. CurrentDecisions(s) = {}
  BY <1>2, <1>4 DEF CurrentDecisions, IsCurrent
<1>6. \A f : Existing(s, f) = NoEstimate
  BY <1>5 DEF Existing, BaseScore
<1>7. \A f : FactorView(s, f) = NoEstimate
  BY <1>2, <1>4, <1>6, NothingDecided DEF FactorView
<1>8. ScoreIsOfFactors(s)
  BY <1>7, FactorsAndPeople DEF ScoreIsOfFactors, Complete
<1>9. DecisionsAreFounded(s)
  BY <1>2, <1>3 DEF Sound, DecisionsAreFounded
<1>10. ScoreExists(s) /\ SelectedIsCurrent(s) /\ TaskNamesAssessment(s) /\ ResolvedByJudgment(s)
  BY <1>2 DEF Sound, ScoreExists, SelectedIsCurrent, TaskNamesAssessment, ResolvedByJudgment
<1>11. QuestionsAreFramed(s)
  <2>1. \A i \in DOMAIN t.inputs : \A k \in DOMAIN t.inputs[i].answers :
            t.inputs[i].answers[k].at \in Nat
    BY AnswersHaveTimes DEF Sound
  <2> QED BY <1>2, <2>1 DEF Sound, QuestionsAreFramed
<1>12. CompletionIsSettled(s)
  BY DEF CompletionIsSettled, Completed
<1> QED BY <1>8, <1>9, <1>10, <1>11, <1>12 DEF Sound

\* Decisions on factors alone, in any phase.
LEMMA PriorityIsSound ==
    ASSUME NEW t, Sound(t), NEW d, PriorityMoved(t, d), NEW e, RowMoved(d, e),
           e.request.stage = d.request.stage
    PROVE  Sound(e)
<1>1. /\ t.request \in RequestType /\ t.decisions \in Seq(Decision) /\ d.decisions \in Seq(Decision)
      /\ t.request.version \in 1 .. MaxVersion
  BY DEF Sound, PriorityMoved, TableType, RequestType
<1>2. /\ d.request.version = t.request.version /\ d.request.revision = t.request.revision
      /\ d.request.stage = t.request.stage /\ t.request.version \in Nat
  BY <1>1, RowBounds DEF PriorityMoved, RequestType
<1>3. /\ e \in TableType /\ e.request.version = t.request.version + 1
      /\ e.request.revision = t.request.revision /\ e.request.stage = t.request.stage
      /\ e.inputs = t.inputs /\ e.assessed = t.assessed /\ e.selected = t.selected
      /\ e.task = t.task /\ e.decisions = d.decisions
  BY <1>2 DEF PriorityMoved, RowMoved
<1>4. ScoreIsOfFactors(e)
  BY ScoreStaysRight DEF PriorityMoved, RowMoved
<1>5. DecisionsAreFounded(e) /\ ScoreExists(e)
  BY DEF PriorityMoved, RowMoved, DecisionsAreFounded, ScoreExists
<1>6. SelectedIsCurrent(e) /\ TaskNamesAssessment(e)
  BY <1>3 DEF Sound, SelectedIsCurrent, TaskNamesAssessment
<1>7. QuestionsAreFramed(e)
  <2>1. \A i \in DOMAIN t.inputs : \A k \in DOMAIN t.inputs[i].answers :
            t.inputs[i].answers[k].at \in Nat
    BY AnswersHaveTimes DEF Sound
  <2> QED BY <1>2, <1>3, <2>1 DEF Sound, QuestionsAreFramed
<1>8. ResolvedByJudgment(e)
  <2>0. /\ Len(t.decisions) <= Len(e.decisions) /\ e.decisions \in Seq(Decision)
        /\ \A i \in 1 .. Len(t.decisions) : e.decisions[i] = t.decisions[i]
    BY <1>1, <1>3 DEF PriorityMoved
  <2>1. ASSUME NEW f, NEW proposal, Takes(t.decisions, f, proposal)
        PROVE  Takes(e.decisions, f, proposal)
    BY <1>1, <2>0, <2>1, TakenStays
  <2>2. ASSUME NEW i \in DOMAIN t.inputs, t.inputs[i].state = "resolved"
        PROVE  /\ t.inputs[i].answers # <<>> /\ LatestAnswer(t.inputs[i]).useful
               /\ t.inputs[i].judged > LatestAnswer(t.inputs[i]).at
               /\ t.inputs[i].factor # None =>
                     Takes(t.decisions, t.inputs[i].factor, LatestAnswer(t.inputs[i]).proposal)
    BY <2>2 DEF Sound, ResolvedByJudgment, Takes
  <2>3. ASSUME NEW i \in DOMAIN e.inputs, e.inputs[i].state = "resolved"
        PROVE  /\ e.inputs[i].answers # <<>> /\ LatestAnswer(e.inputs[i]).useful
               /\ e.inputs[i].judged > LatestAnswer(e.inputs[i]).at
               /\ e.inputs[i].factor # None =>
                     Takes(e.decisions, e.inputs[i].factor, LatestAnswer(e.inputs[i]).proposal)
    BY <1>3, <2>1, <2>2, <2>3
  <2> QED BY <2>3 DEF ResolvedByJudgment, Takes
<1>9. CompletionIsSettled(e)
  <2>1. CurrentAssessment(e) = CurrentAssessment(t) /\ (Completed(e.request) <=> Completed(t.request))
    BY <1>3 DEF CurrentAssessment, Preferred, Newest, Completed
  <2> QED BY <1>3, <2>1 DEF Sound, CompletionIsSettled, PageQuestions, IsCurrentInput, IsCurrent
<1> QED BY <1>3, <1>4, <1>5, <1>6, <1>7, <1>8, <1>9 DEF Sound

------------------------------------------------------------------------------
(* The actions of the review *)

LEMMA BumpedRow ==
    ASSUME NEW row, row \in RequestType, row.version < MaxVersion
    PROVE  /\ Bumped(row) \in RequestType /\ Bumped(row).version = row.version + 1
           /\ Bumped(row).revision = row.revision /\ Bumped(row).stage = row.stage
           /\ Bumped(row).score = row.score /\ Bumped(row).resolution = row.resolution
           /\ Bumped(row).resolving = row.resolving
<1>1. row.version \in 1 .. MaxVersion /\ MaxVersion \in Nat
  BY RowBounds DEF RequestType
<1>2. row.version + 1 \in 1 .. MaxVersion
  BY <1>1
<1> QED BY <1>2 DEF Bumped, RequestType

\* What the tables are of.
LEMMA TablesOf ==
    /\ Tables.request = request /\ Tables.proposals = proposals /\ Tables.decisions = decisions
    /\ Tables.scores = scores /\ Tables.inputs = inputs /\ Tables.assessed = assessed
    /\ Tables.selected = selected /\ Tables.task = task
BY DEF Tables

LEMMA TablesTyped ==
    ASSUME Tables \in TableType
    PROVE  /\ request \in RequestType /\ proposals \in Seq(Proposal) /\ decisions \in Seq(Decision)
           /\ scores \in Seq([Factors -> Estimate]) /\ inputs \in Seq(Input)
           /\ assessed \in Seq(Assessment) /\ selected \in Nat /\ task \in Task
BY TablesOf DEF TableType

LEMMA NextTablesTyped ==
    ASSUME request' \in RequestType, proposals' \in Seq(Proposal), decisions' \in Seq(Decision),
           scores' \in Seq([Factors -> Estimate]), inputs' \in Seq(Input),
           assessed' \in Seq(Assessment), selected' \in Nat, task' \in Task
    PROVE  Tables' \in TableType
<1>1. Tables' = [request |-> request', proposals |-> proposals', decisions |-> decisions',
                 scores |-> scores', inputs |-> inputs', assessed |-> assessed',
                 selected |-> selected', task |-> task']
  BY DEF Tables
<1>2. ASSUME NEW r \in RequestType, NEW p \in Seq(Proposal), NEW d \in Seq(Decision),
             NEW sc \in Seq([Factors -> Estimate]), NEW i \in Seq(Input),
             NEW a \in Seq(Assessment), NEW sel \in Nat, NEW job \in Task
      PROVE  [request |-> r, proposals |-> p, decisions |-> d, scores |-> sc, inputs |-> i,
              assessed |-> a, selected |-> sel, task |-> job] \in TableType
  BY DEF TableType
<1> QED BY <1>1, <1>2

\* The row keeps its resolution, and stays as it is while a resolution holds it.
RowKept ==
    /\ request'.resolution = request.resolution /\ request'.resolving = request.resolving
    /\ request.resolving => request' = request
    /\ Len(proposals) <= Len(proposals') /\ Len(assessed) <= Len(assessed')

LEMMA CommitIsTables ==
    ASSUME NEW t, t \in TableType, Commit(t)
    PROVE  Tables' = t
BY DEF Commit, Tables, TableType

LEMMA AskIsSound ==
    ASSUME Sound(Tables), NEW factor \in Factors \cup {None},
           NEW audience \in {"internal", "requester"}, NEW assignee \in People \cup {None},
           Ask(factor, audience, assignee)
    PROVE  Sound(Tables') /\ RowKept
<1> DEFINE row == [factor |-> factor,
                   finding |-> IF factor = None THEN CurrentAssessment(Tables) ELSE 0,
                   audience |-> audience, assignee |-> assignee, revision |-> request.revision,
                   state |-> "open", answers |-> <<>>, judged |-> 0]
<1>1. Tables \in TableType
  BY DEF Sound
<1>2. /\ request \in RequestType /\ inputs \in Seq(Input) /\ request.version < MaxVersion
      /\ ~request.resolving /\ request.revision \in 1 .. MaxRevision
  BY <1>1, TablesTyped DEF Ask, lockUnresolvedRequest, lockRequest, RequestType
<1>3. /\ request' \in RequestType /\ request'.version = request.version + 1
      /\ request'.revision = request.revision /\ request'.stage = request.stage
      /\ request'.score = request.score /\ request'.resolution = request.resolution
      /\ request'.resolving = request.resolving
  BY <1>2, BumpedRow DEF Ask
<1>4. CurrentAssessment(Tables) \in 0 .. Len(assessed) /\ Len(assessed) \in Nat
  <2>1. CurrentAssessment(Tables) \in 0 .. Len(Tables.assessed)
    BY <1>1, CurrentAssessmentExists DEF Sound
  <2> QED BY <2>1, <1>1, TablesOf, TablesTyped
<1>5. (factor = None) => ~Completed(request) /\ CurrentAssessment(Tables) # 0
  BY TablesOf DEF Ask, Reviewable
<1>6. row \in Input
  <2>1. <<>> \in Seq(Answer)
    OBVIOUS
  <2> QED BY <2>1, <1>2, <1>4 DEF Input
<1>7. /\ (row.factor = None) <=> (row.finding # 0)
      /\ row.finding <= Len(assessed) /\ row.answers = <<>> /\ row.state # "resolved"
      /\ Completed(request) => row.finding = 0
  BY <1>4, <1>5
<1>8. /\ inputs' = Append(inputs, row) /\ assessed' = assessed /\ decisions' = decisions
      /\ scores' = scores /\ selected' = selected /\ task' = task /\ proposals' = proposals
  BY DEF Ask
<1> HIDE DEF row
<1>9. /\ inputs' \in Seq(Input) /\ Len(inputs') = Len(inputs) + 1
      /\ \A i \in 1 .. Len(inputs) : inputs'[i] = inputs[i]
      /\ inputs'[Len(inputs) + 1] = row
  BY <1>2, <1>6, <1>8, AppendProperties
<1>10. Tables' \in TableType
  BY <1>1, <1>3, <1>8, <1>9, TablesTyped, NextTablesTyped
<1>11. ASSUME NEW i \in DOMAIN inputs'
       PROVE  (i \in DOMAIN inputs /\ inputs'[i] = inputs[i]) \/ MovedQuestion(Tables', inputs'[i])
  <2>1. i \in 1 .. Len(inputs) \/ i = Len(inputs) + 1
    BY <1>2, <1>9
  <2>2. CASE i \in 1 .. Len(inputs)
    BY <2>2, <1>2, <1>9
  <2>3. CASE i = Len(inputs) + 1
    <3>1. inputs'[i] = row /\ Tables'.assessed = assessed /\ Tables'.request = request'
      BY <2>3, <1>8, <1>9 DEF Tables
    <3>2. Completed(request') => Completed(request)
      BY <1>3 DEF Completed
    <3> QED BY <1>7, <3>1, <3>2 DEF MovedQuestion
  <2> QED BY <2>1, <2>2, <2>3
<1>12. QuestionsMoved(Tables, Tables')
  <2>1. request.version \in Nat
    BY <1>2, RowBounds DEF RequestType
  <2>2. Tables'.request = request' /\ Tables'.inputs = inputs' /\ Tables'.decisions = decisions
        /\ Tables'.scores = scores /\ Tables'.assessed = assessed /\ Tables'.selected = selected
        /\ Tables'.task = task
    BY <1>8 DEF Tables
  <2> QED BY <1>3, <1>10, <1>11, <2>1, <2>2, TablesOf DEF QuestionsMoved
<1>13. Sound(Tables')
  BY <1>12, QuestionsMoveSoundly
<1> QED BY <1>2, <1>3, <1>8, <1>13, <1>1, TablesTyped DEF RowKept

LEMMA AssignIsSound ==
    ASSUME Sound(Tables), NEW i \in DOMAIN inputs, NEW assignee \in People \cup {None},
           Assign(i, assignee)
    PROVE  Sound(Tables') /\ RowKept
<1> DEFINE row == [inputs[i] EXCEPT !.assignee = assignee]
<1>1. Tables \in TableType
  BY DEF Sound
<1>2. /\ request \in RequestType /\ inputs \in Seq(Input) /\ request.version < MaxVersion
      /\ ~request.resolving
  BY <1>1, TablesTyped DEF Assign, lockUnresolvedRequest, lockRequest
<1>3. /\ request' \in RequestType /\ request'.version = request.version + 1
      /\ request'.revision = request.revision /\ request'.stage = request.stage
      /\ request'.score = request.score /\ request'.resolution = request.resolution
      /\ request'.resolving = request.resolving
  BY <1>2, BumpedRow DEF Assign
<1>4. inputs[i] \in Input
  BY <1>2
<1>5. /\ row \in Input /\ row.factor = inputs[i].factor /\ row.finding = inputs[i].finding
      /\ row.answers = inputs[i].answers /\ row.state = inputs[i].state
  BY <1>4 DEF Input
<1>6. inputs[i].state # "resolved" /\ (Completed(request) => inputs[i].finding = 0)
  BY TablesOf DEF Assign, Amendable, Available
<1>7. /\ inputs' = [inputs EXCEPT ![i] = row] /\ assessed' = assessed /\ decisions' = decisions
      /\ scores' = scores /\ selected' = selected /\ task' = task /\ proposals' = proposals
  BY DEF Assign
<1> HIDE DEF row
<1>8. /\ inputs' \in Seq(Input) /\ DOMAIN inputs' = DOMAIN inputs /\ inputs'[i] = row
      /\ \A k \in DOMAIN inputs : k # i => inputs'[k] = inputs[k]
  BY <1>2, <1>5, <1>7
<1>9. Tables' \in TableType
  BY <1>1, <1>3, <1>7, <1>8, TablesTyped, NextTablesTyped
<1>10. MovedQuestion(Tables', row)
  <2>1. /\ (inputs[i].factor = None) <=> (inputs[i].finding # 0)
        /\ inputs[i].finding <= Len(assessed)
        /\ \A k \in DOMAIN inputs[i].answers : inputs[i].answers[k].at < request.version
    BY TablesOf DEF Sound, QuestionsAreFramed
  <2>2. \A k \in DOMAIN inputs[i].answers : inputs[i].answers[k].at \in Nat
    BY <1>1, AnswersHaveTimes, TablesOf
  <2>3. request.version \in Nat
    BY <1>2, RowBounds DEF RequestType
  <2>4. Tables'.assessed = assessed /\ Tables'.request = request'
    BY <1>7 DEF Tables
  <2>5. \A k \in DOMAIN inputs[i].answers : inputs[i].answers[k].at < request'.version
    BY <2>1, <2>2, <2>3, <1>3
  <2>6. Completed(request') => Completed(request)
    BY <1>3 DEF Completed
  <2> QED BY <1>5, <1>6, <2>1, <2>4, <2>5, <2>6 DEF MovedQuestion
<1>11. QuestionsMoved(Tables, Tables')
  <2>1. request.version \in Nat
    BY <1>2, RowBounds DEF RequestType
  <2>2. Tables'.request = request' /\ Tables'.inputs = inputs' /\ Tables'.decisions = decisions
        /\ Tables'.scores = scores /\ Tables'.assessed = assessed /\ Tables'.selected = selected
        /\ Tables'.task = task
    BY <1>7 DEF Tables
  <2>3. \A k \in DOMAIN inputs' :
            (k \in DOMAIN inputs /\ inputs'[k] = inputs[k]) \/ MovedQuestion(Tables', inputs'[k])
    BY <1>8, <1>10
  <2> QED BY <1>3, <1>9, <2>1, <2>2, <2>3, TablesOf DEF QuestionsMoved
<1>12. Sound(Tables')
  BY <1>11, QuestionsMoveSoundly
<1> QED BY <1>2, <1>3, <1>7, <1>12, <1>1, TablesTyped DEF RowKept

\* An input with one more answer.
LEMMA AnsweredRow ==
    ASSUME NEW c, c \in Input, NEW a, a \in Answer
    PROVE  LET r == [[c EXCEPT !.state = "answered"] EXCEPT !.answers = Append(c.answers, a)]
           IN  /\ r \in Input /\ r.factor = c.factor /\ r.finding = c.finding
               /\ r.state = "answered" /\ r.answers = Append(c.answers, a)
<1> DEFINE b == [c EXCEPT !.state = "answered"]
           more == Append(c.answers, a)
<1>1. c.answers \in Seq(Answer)
  BY DEF Input
<1>2. more \in Seq(Answer)
  BY <1>1, AppendProperties
<1>3. b \in Input /\ b.factor = c.factor /\ b.finding = c.finding /\ b.state = "answered"
  BY DEF Input
<1> HIDE DEF b, more
<1>4. LET r == [b EXCEPT !.answers = more]
      IN  /\ r \in Input /\ r.factor = b.factor /\ r.finding = b.finding
          /\ r.state = b.state /\ r.answers = more
  BY <1>2, <1>3 DEF Input
<1> QED BY <1>3, <1>4 DEF b, more

LEMMA AnswerIsSound ==
    ASSUME Sound(Tables), NEW i \in DOMAIN inputs, NEW useful \in BOOLEAN,
           NEW estimate \in BOOLEAN, AnswerInput(i, useful, estimate)
    PROVE  Sound(Tables') /\ RowKept
<1> DEFINE answer == [useful |-> useful, at |-> request.version,
                      proposal |-> IF estimate THEN Len(proposals) + 1 ELSE 0]
           row == [[inputs[i] EXCEPT !.state = "answered"]
                       EXCEPT !.answers = Append(inputs[i].answers, answer)]
<1>1. Tables \in TableType
  BY DEF Sound
<1>2. /\ request \in RequestType /\ inputs \in Seq(Input) /\ request.version < MaxVersion
      /\ ~request.resolving /\ proposals \in Seq(Proposal) /\ request.revision \in 1 .. MaxRevision
      /\ request.version \in 1 .. MaxVersion
  BY <1>1, TablesTyped DEF AnswerInput, lockUnresolvedRequest, lockRequest, RequestType
<1>3. /\ request' \in RequestType /\ request'.version = request.version + 1
      /\ request'.revision = request.revision /\ request'.stage = request.stage
      /\ request'.score = request.score /\ request'.resolution = request.resolution
      /\ request'.resolving = request.resolving
  BY <1>2, BumpedRow DEF AnswerInput
<1>4. inputs[i] \in Input /\ request.version \in Nat /\ Len(proposals) \in Nat
  BY <1>2, RowBounds
<1>5. answer \in Answer /\ answer.at = request.version
  BY <1>4 DEF Answer
<1> HIDE DEF answer
<1>6. /\ row \in Input /\ row.factor = inputs[i].factor /\ row.finding = inputs[i].finding
      /\ row.answers = Append(inputs[i].answers, answer) /\ row.state = "answered"
  BY <1>4, <1>5, AnsweredRow
<1>7. Completed(request) => inputs[i].finding = 0
  BY TablesOf DEF AnswerInput, Amendable, Available
<1>8. /\ inputs' = [inputs EXCEPT ![i] = row] /\ assessed' = assessed /\ decisions' = decisions
      /\ scores' = scores /\ selected' = selected /\ task' = task
  <2> DEFINE after == [inputs EXCEPT ![i].state = "answered", ![i].answers = Append(@, answer)]
  <2>1. inputs' = after
    BY DEF AnswerInput, answer
  <2>2. /\ DOMAIN after = DOMAIN inputs /\ after[i] = row
        /\ \A k \in DOMAIN inputs : k # i => after[k] = inputs[k]
    BY <1>2, <1>4 DEF Input
  <2>3. /\ after = [k \in DOMAIN inputs |-> after[k]]
        /\ [inputs EXCEPT ![i] = row] = [k \in DOMAIN inputs |-> IF k = i THEN row ELSE inputs[k]]
    BY <1>2
  <2> HIDE DEF row, after
  <2>4. after = [inputs EXCEPT ![i] = row]
    BY <2>2, <2>3
  <2> QED BY <2>1, <2>4 DEF AnswerInput
<1> HIDE DEF row
<1>9. /\ inputs' \in Seq(Input) /\ DOMAIN inputs' = DOMAIN inputs /\ inputs'[i] = row
      /\ \A k \in DOMAIN inputs : k # i => inputs'[k] = inputs[k]
  BY <1>2, <1>6, <1>8
<1>10. proposals' \in Seq(Proposal) /\ Len(proposals) <= Len(proposals')
  <2>1. CASE estimate
    <3>1. inputs[i].factor \in Factors
      BY <1>4, <2>1 DEF AnswerInput, MayEstimate, Input
    <3>2. [factor |-> inputs[i].factor, revision |-> request.revision] \in Proposal
      BY <1>2, <3>1 DEF Proposal
    <3>3. proposals' = Append(proposals, [factor |-> inputs[i].factor,
                                          revision |-> request.revision])
      BY <2>1 DEF AnswerInput, Proposed
    <3> QED BY <1>2, <1>4, <3>2, <3>3, AppendProperties
  <2>2. CASE ~estimate
    <3>1. proposals' = proposals
      BY <2>2 DEF AnswerInput
    <3> QED BY <3>1, <1>2, <1>4
  <2> QED BY <2>1, <2>2
<1>11. Tables' \in TableType
  BY <1>1, <1>3, <1>8, <1>9, <1>10, TablesTyped, NextTablesTyped
<1>12. MovedQuestion(Tables', row)
  <2>1. /\ (inputs[i].factor = None) <=> (inputs[i].finding # 0)
        /\ inputs[i].finding <= Len(assessed)
        /\ \A k \in DOMAIN inputs[i].answers : inputs[i].answers[k].at < request.version
    BY TablesOf DEF Sound, QuestionsAreFramed
  <2>2. \A k \in DOMAIN inputs[i].answers : inputs[i].answers[k].at \in Nat
    BY <1>1, AnswersHaveTimes, TablesOf
  <2>3. Tables'.assessed = assessed /\ Tables'.request = request'
    BY <1>8 DEF Tables
  <2>4. ASSUME NEW k \in DOMAIN row.answers
        PROVE  row.answers[k].at < request'.version
    <3>1. inputs[i].answers \in Seq(Answer)
      BY <1>4 DEF Input
    <3>2. /\ Len(row.answers) = Len(inputs[i].answers) + 1 /\ row.answers \in Seq(Answer)
          /\ \A m \in 1 .. Len(inputs[i].answers) : row.answers[m] = inputs[i].answers[m]
          /\ row.answers[Len(inputs[i].answers) + 1] = answer
      BY <1>5, <1>6, <3>1, AppendProperties
    <3>3. k \in DOMAIN inputs[i].answers \/ k = Len(inputs[i].answers) + 1
      BY <3>1, <3>2
    <3>4. CASE k \in DOMAIN inputs[i].answers
      <4>1. row.answers[k] = inputs[i].answers[k]
        BY <3>1, <3>2, <3>4
      <4> QED BY <4>1, <3>4, <2>1, <2>2, <1>3, <1>4
    <3>5. CASE k = Len(inputs[i].answers) + 1
      BY <3>2, <3>5, <1>3, <1>4, <1>5
    <3> QED BY <3>3, <3>4, <3>5
  <2>5. Completed(request') => Completed(request)
    BY <1>3 DEF Completed
  <2> QED BY <1>6, <1>7, <2>1, <2>3, <2>4, <2>5 DEF MovedQuestion
<1>13. QuestionsMoved(Tables, Tables')
  <2>1. Tables'.request = request' /\ Tables'.inputs = inputs' /\ Tables'.decisions = decisions
        /\ Tables'.scores = scores /\ Tables'.assessed = assessed /\ Tables'.selected = selected
        /\ Tables'.task = task
    BY <1>8 DEF Tables
  <2>2. \A k \in DOMAIN inputs' :
            (k \in DOMAIN inputs /\ inputs'[k] = inputs[k]) \/ MovedQuestion(Tables', inputs'[k])
    BY <1>9, <1>12
  <2> QED BY <1>3, <1>4, <1>11, <2>1, <2>2, TablesOf DEF QuestionsMoved
<1>14. Sound(Tables')
  BY <1>13, QuestionsMoveSoundly
<1> QED BY <1>1, <1>2, <1>3, <1>8, <1>10, <1>14, TablesTyped DEF RowKept

LEMMA RiceIsSound ==
    ASSUME Sound(Tables), SaveRiceScore
    PROVE  Sound(Tables') /\ RowKept
<1> DEFINE chosen == [f \in Factors |-> [action |-> "replace", proposal |-> 0]]
           d == ApplyPriorityDecisions(Tables, chosen)
           e == Bump(d)
<1>1. IsChoice(chosen)
  BY DEF IsChoice
<1> HIDE DEF chosen
<1>2. PriorityMoved(Tables, d)
  BY <1>1, PriorityDecided DEF Sound
<1>3. Commit(e) /\ ~request.resolving /\ request.version < MaxVersion
  BY DEF SaveRiceScore, lockUnresolvedRequest, lockRequest, chosen
<1>4. request \in RequestType /\ assessed \in Seq(Assessment) /\ proposals \in Seq(Proposal)
  BY TablesTyped DEF Sound
<1> HIDE DEF d
<1>5. d \in TableType /\ d.request.version = request.version
      /\ d.request.resolution = request.resolution /\ d.request.resolving = request.resolving
      /\ d.assessed = assessed /\ d.proposals = proposals
  BY <1>2, <1>4, TablesOf DEF PriorityMoved, RequestType
<1>6. RowMoved(d, e) /\ e.request.stage = d.request.stage
  BY <1>3, <1>5, RowBumped
<1> HIDE DEF e
<1>7. Sound(e)
  BY <1>2, <1>6, PriorityIsSound
<1>8. Tables' = e
  BY <1>3, <1>7, CommitIsTables DEF Sound
<1>9. request'.resolution = request.resolution /\ request'.resolving = request.resolving
      /\ proposals' = proposals /\ assessed' = assessed
  BY <1>3, <1>5, <1>6 DEF Commit, RowMoved
<1> QED BY <1>3, <1>4, <1>7, <1>8, <1>9 DEF RowKept

LEMMA SettleIsSound ==
    ASSUME Sound(Tables), SettleAssessment
    PROVE  Sound(Tables') /\ RowKept
<1> DEFINE rows == Append(assessed, [revision |-> request.revision, verdict |-> "undecided",
                                     decidedAt |-> 0])
           s == [Tables EXCEPT !.assessed = rows, !.selected = Len(assessed) + 1,
                               !.task = [state |-> "pending", of |-> 0]]
<1>1. ~Completed(Tables.request)
  BY DEF SettleAssessment, Reviewable
<1>2. Tables' = s
  <2> DEFINE n == Len(assessed) + 1
             job == [state |-> "pending", of |-> 0]
  <2>1. /\ assessed' = rows /\ selected' = n /\ task' = job /\ request' = request
        /\ proposals' = proposals /\ decisions' = decisions /\ scores' = scores
        /\ inputs' = inputs
    BY DEF SettleAssessment
  <2>2. s = [Tables EXCEPT !.assessed = rows, !.selected = n, !.task = job]
    OBVIOUS
  <2> HIDE DEF rows, n, job, s
  <2> QED BY <2>1, <2>2 DEF Tables
<1>3. Sound(s)
  BY <1>1, SettlementIsSound, TablesOf
<1>4. assessed \in Seq(Assessment) /\ proposals \in Seq(Proposal)
  BY TablesTyped DEF Sound
<1>5. Len(rows) = Len(assessed) + 1 /\ assessed' = rows /\ Len(assessed) \in Nat
  BY <1>4 DEF SettleAssessment
<1>6. Len(assessed) <= Len(assessed')
  <2> HIDE DEF rows
  <2> QED BY <1>5
<1>7. request' = request /\ proposals' = proposals
  BY DEF SettleAssessment
<1> HIDE DEF s, rows
<1> QED BY <1>2, <1>3, <1>4, <1>6, <1>7 DEF RowKept

LEMMA CatalogIsSound ==
    ASSUME Sound(Tables), ChangeCatalog
    PROVE  Sound(Tables') /\ RowKept
<1>1. Tables' = [Tables EXCEPT !.selected = selected']
  BY DEF ChangeCatalog, Tables
<1>2. selected' \in {0} \cup {b \in DOMAIN Tables.assessed :
                                Tables.assessed[b].revision = Tables.request.revision}
  BY TablesOf DEF ChangeCatalog
<1>3. Sound(Tables')
  BY <1>1, <1>2, CatalogChangeIsSound
<1>4. assessed \in Seq(Assessment) /\ proposals \in Seq(Proposal)
  BY TablesTyped DEF Sound
<1> QED BY <1>3, <1>4 DEF RowKept, ChangeCatalog

LEMMA ClarificationIsSound ==
    ASSUME Sound(Tables), AnswerClarification
    PROVE  Sound(Tables') /\ RowKept
<1>1. Tables \in TableType
  BY DEF Sound
<1>2. /\ request \in RequestType /\ task \in Task /\ request.version < MaxVersion
      /\ ~request.resolving /\ request.revision < MaxRevision /\ assessed \in Seq(Assessment)
      /\ proposals \in Seq(Proposal) /\ ~Completed(request)
  BY <1>1, TablesTyped, TablesOf DEF AnswerClarification, lockUnresolvedRequest, lockRequest, Reviewable
<1> DEFINE b == Bumped(request)
           row == [[b EXCEPT !.revision = b.revision + 1] EXCEPT !.score = 0]
<1>3. /\ b \in RequestType /\ b.version = request.version + 1 /\ b.revision = request.revision
      /\ b.stage = request.stage /\ b.resolution = request.resolution
      /\ b.resolving = request.resolving
  BY <1>2, BumpedRow
<1>4. request' = row
  <2> HIDE DEF b
  <2> QED BY DEF AnswerClarification, b
<1> HIDE DEF b
<1>5. b.revision + 1 \in 1 .. MaxRevision
  <2>1. b.revision \in 1 .. MaxRevision /\ MaxRevision \in Nat
    BY <1>3, RowBounds DEF RequestType
  <2> QED BY <2>1, <1>2, <1>3
<1>6. /\ row \in RequestType /\ row.version = b.version /\ row.revision = b.revision + 1
      /\ row.score = 0 /\ row.stage = b.stage /\ row.resolution = b.resolution
      /\ row.resolving = b.resolving
  BY <1>3, <1>5 DEF RequestType
<1> HIDE DEF row
<1>7. /\ selected' = 0 /\ task' = [task EXCEPT !.state = "pending"] /\ proposals' = proposals
      /\ decisions' = decisions /\ scores' = scores /\ inputs' = inputs /\ assessed' = assessed
  BY DEF AnswerClarification
<1>8. task' \in Task /\ task'.of = task.of
  BY <1>2, <1>7 DEF Task
<1>9. Tables' \in TableType
  BY <1>1, <1>4, <1>6, <1>7, <1>8, TablesTyped, NextTablesTyped
<1>10. /\ Tables'.request = request' /\ Tables'.decisions = decisions /\ Tables'.scores = scores
       /\ Tables'.inputs = inputs /\ Tables'.assessed = assessed /\ Tables'.selected = 0
       /\ Tables'.task = task'
  BY <1>7 DEF Tables
<1>11. Sound(Tables')
  BY <1>2, <1>3, <1>4, <1>6, <1>8, <1>9, <1>10, TablesOf, RevisionIsSound
<1> QED BY <1>2, <1>3, <1>4, <1>6, <1>7, <1>11 DEF RowKept

------------------------------------------------------------------------------
(* The messages of the pages *)

\* A message that waits stays made of rows that exist.
LEMMA WorkStays ==
    ASSUME SentIsWork, RowKept, Tables \in TableType, Tables' \in TableType,
           DOMAIN sent' = Pages,
           \A page \in Pages : sent'[page] = sent[page] \/ sent'[page] = Nothing
    PROVE  SentIsWork'
<1>1. /\ Len(proposals) \in Nat /\ Len(assessed) \in Nat /\ Len(proposals') \in Nat
      /\ Len(assessed') \in Nat
      /\ Len(proposals) <= Len(proposals') /\ Len(assessed) <= Len(assessed')
  <2>1. proposals \in Seq(Proposal) /\ assessed \in Seq(Assessment)
    BY TablesTyped
  <2>2. proposals' \in Seq(Proposal) /\ assessed' \in Seq(Assessment)
    BY DEF Tables, TableType
  <2> QED BY <2>1, <2>2 DEF RowKept
<1>2. ASSUME NEW p, Payload(p)
      PROVE  Payload(p)'
  BY <1>1, <1>2 DEF Payload, Choice
<1>3. Payload(NoWork)'
  BY <1>1 DEF Payload, NoWork, NoDraft
<1>4. Nothing.version \in 0 .. MaxVersion /\ Nothing.payload = NoWork
  BY RowBounds DEF Nothing
<1>5. ASSUME NEW page \in Pages
      PROVE  /\ sent'[page].version \in 0 .. MaxVersion /\ Payload(sent[page].payload)'
             /\ sent'[page] # Nothing => HasWork(sent'[page].payload)
  <2>1. CASE sent'[page] = sent[page]
    BY <1>2, <2>1 DEF SentIsWork
  <2>2. CASE sent'[page] = Nothing
    BY <1>3, <1>4, <2>2
  <2> QED BY <2>1, <2>2
<1> QED BY <1>5 DEF SentIsWork, HasWork

LEMMA TablesUnchanged ==
    ASSUME Tables \in TableType, UNCHANGED tables
    PROVE  Tables' = Tables /\ RowKept
<1>1. Len(proposals) \in Nat /\ Len(assessed) \in Nat
  BY TablesTyped
<1> QED BY <1>1 DEF tables, Tables, RowKept

\* Everything the page assembles is a message about what it shows.
LEMMA DraftsAreChoices ==
    ASSUME Tables \in TableType, NEW d \in FactorDrafts(Tables)
    PROVE  DOMAIN d \subseteq Factors /\ \A f \in DOMAIN d : Choice(d[f])
<1>0. proposals \in Seq(Proposal) /\ Tables.proposals = proposals
  BY TablesTyped, TablesOf
<1>1. CASE d = NoDraft
  BY <1>1 DEF NoDraft
<1>2. CASE d # NoDraft
  <2>1. PICK f \in Factors : \E c \in FactorChoices(Tables, f) : d = [x \in {f} |-> c]
    BY <1>2 DEF FactorDrafts
  <2>2. PICK c \in FactorChoices(Tables, f) : d = [x \in {f} |-> c]
    BY <2>1
  <2>3. c.action \in {"adopt", "replace", "reject"} /\ c.proposal \in {0} \cup DOMAIN proposals
    BY <1>0 DEF FactorChoices
  <2>4. c.proposal \in 0 .. Len(proposals)
    BY <1>0, <2>3
  <2>5. Choice(c)
    BY <2>3, <2>4 DEF Choice
  <2> QED BY <2>2, <2>5
<1> QED BY <1>1, <1>2

LEMMA AssembledIsPayload ==
    ASSUME Tables \in TableType, SelectedIsCurrent(Tables), TaskNamesAssessment(Tables),
           NEW v, v \in {"none", "settled", "follow_up"}, NEW d \in FactorDrafts(Tables),
           NEW c \in BOOLEAN
    PROVE  Payload(Assembled(Tables, v, d, c))
<1> DEFINE p == Assembled(Tables, v, d, c)
<1>1. CurrentAssessment(Tables) \in 0 .. Len(assessed) /\ assessed \in Seq(Assessment)
  BY CurrentAssessmentExists, TablesOf, TablesTyped
<1>2. DOMAIN d \subseteq Factors /\ \A f \in DOMAIN d : Choice(d[f])
  BY DraftsAreChoices
<1>3. /\ p.verdict = v /\ p.complete = c /\ p.factors = d
      /\ p.finding = IF v = "none" THEN 0 ELSE CurrentAssessment(Tables)
      /\ p.outcome = (OutcomePending(Tables) /\ Effective(Tables, v) = "settled")
  BY DEF Assembled
<1>4. p.outcome \in BOOLEAN
  BY <1>3
<1>5. Len(assessed) \in Nat
  BY <1>1
<1> HIDE DEF p
<1>6. p.finding \in 0 .. Len(assessed)
  BY <1>1, <1>3, <1>5
<1>7. Payload(p)
  BY <1>2, <1>3, <1>4, <1>6 DEF Payload
<1> QED BY <1>7 DEF p

LEMMA OfferedIsPayload ==
    ASSUME Sound(Tables), NEW page \in Pages, NEW p \in Payloads(Tables, page)
    PROVE  Payload(p)
<1>1. Tables \in TableType /\ SelectedIsCurrent(Tables) /\ TaskNamesAssessment(Tables)
  BY DEF Sound
<1>2. \E v \in {"none", "settled", "follow_up"}, d \in FactorDrafts(Tables), c \in BOOLEAN :
          p = Assembled(Tables, v, d, c)
  <2>1. CASE page = "priority"
    BY <2>1 DEF Payloads, PriorityPayloads
  <2>2. CASE page # "priority"
    <3>1. Draftable(Tables) \subseteq {"none", "settled", "follow_up"}
      BY DEF Draftable, Verdicts
    <3>2. p \in FinishPayloads(Tables)
      BY <2>2 DEF Payloads
    <3>3. PICK d \in FactorDrafts(Tables) :
              p \in {Assembled(Tables, v, d, FALSE) : v \in Draftable(Tables)}
                    \cup {Assembled(Tables, v, d, TRUE) :
                            v \in {u \in Draftable(Tables) : ~CompletionHeld(Tables, u)}}
      BY <3>2, Zenon DEF FinishPayloads
    <3>4. \E v \in Draftable(Tables), c \in BOOLEAN : p = Assembled(Tables, v, d, c)
      BY <3>3, Zenon
    <3> QED BY <3>1, <3>4
  <2> QED BY <2>1, <2>2
<1> QED BY <1>1, <1>2, AssembledIsPayload

LEMMA SendKeepsWork ==
    ASSUME Sound(Tables), SentIsWork, NEW page \in Pages, Send(page)
    PROVE  UNCHANGED tables /\ SentIsWork'
<1>1. PICK p \in Payloads(Tables, page) :
          /\ HasWork(p)
          /\ sent' = [sent EXCEPT ![page] = [version |-> request.version, payload |-> p]]
  BY DEF Send
<1>2. UNCHANGED tables
  BY DEF Send
<1>3. Payload(p)
  BY OfferedIsPayload
<1>4. request.version \in 0 .. MaxVersion
  <2>1. request.version \in 1 .. MaxVersion
    BY TablesTyped DEF Sound, RequestType
  <2> QED BY <2>1, RowBounds
<1> DEFINE m == [version |-> request.version, payload |-> p]
<1>5. m.version \in 0 .. MaxVersion /\ m.payload = p
  BY <1>4
<1> HIDE DEF m
<1>6. sent' = [sent EXCEPT ![page] = m]
  BY <1>1 DEF m
<1>7. DOMAIN sent' = Pages /\ proposals' = proposals /\ assessed' = assessed
  BY <1>2, <1>6 DEF SentIsWork, tables
<1>8. ASSUME NEW q \in Pages
      PROVE  /\ sent'[q].version \in 0 .. MaxVersion /\ Payload(sent'[q].payload)
             /\ sent'[q] # Nothing => HasWork(sent'[q].payload)
  <2>1. CASE q = page
    <3>1. sent'[q] = m
      BY <1>6, <2>1 DEF SentIsWork
    <3> QED BY <1>1, <1>3, <1>5, <3>1
  <2>2. CASE q # page
    BY <1>6, <2>2 DEF SentIsWork
  <2> QED BY <2>1, <2>2
<1>9. SentIsWork'
  BY <1>7, <1>8 DEF SentIsWork, Payload, Choice, HasWork
<1> QED BY <1>2, <1>9

\* The tables after a recorded submission.
LEMMA RecordingIsSound ==
    ASSUME Sound(Tables), NEW p, Payload(p), Accepts(Tables, p), request.version < MaxVersion,
           ~request.resolving, Commit(Submitted(Tables, p))
    PROVE  Sound(Tables') /\ RowKept
<1>1. proposals \in Seq(Proposal) /\ assessed \in Seq(Assessment) /\ request \in RequestType
  BY TablesTyped DEF Sound
<1>2. IsPayload(Tables, p)
  <2>1. ASSUME NEW f \in DOMAIN p.factors
        PROVE  p.factors[f].action \in {"adopt", "replace", "reject"}
               /\ p.factors[f].proposal \in Nat
    <3>1. Len(proposals) \in Nat
      BY <1>1
    <3> QED BY <3>1 DEF Payload, Choice
  <2> QED BY <2>1, TablesOf DEF Payload, IsPayload, IsChoice
<1> DEFINE j == Judged(Tables, p)
           d == Decided(Tables, p)
           s == Settled(Tables, p)
           e == Submitted(Tables, p)
<1>3. AreaMoved(Tables, j) /\ PriorityMoved(j, d) /\ RowMoved(s, e)
  BY <1>2, TablesOf, SubmissionIsTyped
<1>4. s = SettleAnsweredInputs(d, Answered(d, p))
  BY DEF Settled
<1>5. Sound(e)
  BY <1>2, TablesOf, SubmissionIsSound
<1> HIDE DEF j, d, s, e
<1>6. d \in TableType /\ d.request.resolution = request.resolution
      /\ d.request.resolving = request.resolving /\ d.proposals = proposals
      /\ Len(d.assessed) = Len(assessed)
  BY <1>1, <1>3, TablesOf DEF AreaMoved, PriorityMoved, RequestType
<1>7. s.request = d.request /\ s.proposals = d.proposals /\ s.assessed = d.assessed
  BY <1>4, <1>6, QuestionsSettled
<1>8. Tables' = e /\ Commit(e)
  BY <1>5, CommitIsTables DEF Sound, e
<1>9. /\ request'.resolution = request.resolution /\ request'.resolving = request.resolving
      /\ proposals' = proposals /\ Len(assessed') = Len(assessed)
  BY <1>3, <1>6, <1>7, <1>8 DEF Commit, RowMoved
<1> QED BY <1>1, <1>5, <1>8, <1>9 DEF RowKept

LEMMA SubmitIsSound ==
    ASSUME Sound(Tables), SentIsWork, NEW page \in Pages, Submit(page)
    PROVE  Sound(Tables') /\ RowKept /\ SentIsWork'
<1>1. PICK reply \in {Reply(page, sent[page])}, heard \in BOOLEAN :
          /\ IF reply = "recorded" THEN Commit(Submitted(Tables, sent[page].payload))
             ELSE heard /\ UNCHANGED tables
          /\ sent' = IF heard THEN [sent EXCEPT ![page] = Nothing] ELSE sent
  BY DEF Submit
<1>2. sent[page] # Nothing /\ ~request.resolving /\ request.version < MaxVersion
  BY DEF Submit, lockRequest
<1>3. Payload(sent[page].payload) /\ sent[page].payload # NoWork
  BY <1>2 DEF SentIsWork, HasWork
<1>4. Sound(Tables') /\ RowKept
  <2>1. CASE reply = "recorded"
    <3>1. Accepts(Tables, sent[page].payload)
      BY <1>3, <2>1 DEF Reply
    <3>2. Commit(Submitted(Tables, sent[page].payload))
      BY <1>1, <2>1
    <3> QED BY <1>2, <1>3, <3>1, <3>2, RecordingIsSound
  <2>2. CASE reply # "recorded"
    BY <1>1, <2>2, TablesUnchanged DEF Sound
  <2> QED BY <2>1, <2>2
<1>5. /\ DOMAIN sent' = Pages
      /\ \A q \in Pages : sent'[q] = sent[q] \/ sent'[q] = Nothing
  BY <1>1 DEF SentIsWork
<1>6. SentIsWork'
  BY <1>4, <1>5, WorkStays DEF Sound
<1> QED BY <1>4, <1>6

LEMMA ReloadKeepsWork ==
    ASSUME Sound(Tables), SentIsWork, NEW page \in Pages, Reload(page)
    PROVE  Sound(Tables') /\ RowKept /\ SentIsWork'
<1>1. Tables' = Tables /\ RowKept
  BY TablesUnchanged DEF Reload, Sound
<1>2. /\ DOMAIN sent' = Pages
      /\ \A q \in Pages : sent'[q] = sent[q] \/ sent'[q] = Nothing
  BY DEF SentIsWork, Reload
<1>3. SentIsWork'
  BY <1>1, <1>2, WorkStays DEF Sound
<1> QED BY <1>1, <1>3

------------------------------------------------------------------------------
(* The steps of the delivery *)

\* The row moves on, with the revision, the score and the stage it had.
RowAdvanced ==
    /\ request' \in RequestType
    /\ request'.revision = request.revision /\ request'.score = request.score
    /\ request'.stage = request.stage /\ request.version <= request'.version

LEMMA DeliveryMovesRow ==
    ASSUME request \in RequestType, ResolutionIsJudged, DeliveryNext
    PROVE  RowAdvanced
<1>1. request.version \in Nat
  BY RowBounds DEF RequestType
<1>2. CASE UNCHANGED request
  BY <1>1, <1>2 DEF RowAdvanced
<1>3. CASE request.version < MaxVersion /\ request' = Bumped(request)
  BY <1>1, <1>3, BumpedRow DEF RowAdvanced
<1>4. CASE JudgeResolution
  <2>1. request' = [request EXCEPT !.resolving = TRUE]
    BY <1>4 DEF JudgeResolution
  <2>2. /\ request' \in RequestType /\ request'.version = request.version
        /\ request'.revision = request.revision /\ request'.stage = request.stage
        /\ request'.score = request.score
    BY <2>1 DEF RequestType
  <2> QED BY <1>1, <2>2 DEF RowAdvanced
<1>5. CASE CommitResolution
  <2>1. request.version < MaxVersion
    BY <1>5 DEF CommitResolution, ResolutionIsJudged
  <2> DEFINE b == Bumped(request)
  <2>2. /\ b \in RequestType /\ b.version = request.version + 1
        /\ b.revision = request.revision /\ b.stage = request.stage /\ b.score = request.score
    BY <2>1, BumpedRow
  <2>3. request' = [[b EXCEPT !.resolving = FALSE] EXCEPT !.resolution = "fulfilled"]
    <3> HIDE DEF b
    <3> QED BY <1>5 DEF CommitResolution, b
  <2> HIDE DEF b
  <2>4. /\ request' \in RequestType /\ request'.version = b.version
        /\ request'.revision = b.revision /\ request'.stage = b.stage /\ request'.score = b.score
    BY <2>2, <2>3 DEF RequestType
  <2> QED BY <1>1, <2>2, <2>4 DEF RowAdvanced
<1>6. CASE CloseWithoutFulfillment
  <2>1. request.version < MaxVersion
    BY <1>6 DEF CloseWithoutFulfillment, lockUnresolvedRequest, lockRequest
  <2> DEFINE b == Bumped(request)
  <2>2. /\ b \in RequestType /\ b.version = request.version + 1
        /\ b.revision = request.revision /\ b.stage = request.stage /\ b.score = request.score
    BY <2>1, BumpedRow
  <2>3. request' = [b EXCEPT !.resolution = "closed"]
    <3> HIDE DEF b
    <3> QED BY <1>6 DEF CloseWithoutFulfillment, b
  <2> HIDE DEF b
  <2>4. /\ request' \in RequestType /\ request'.version = b.version
        /\ request'.revision = b.revision /\ request'.stage = b.stage /\ request'.score = b.score
    BY <2>2, <2>3 DEF RequestType
  <2> QED BY <1>1, <2>2, <2>4 DEF RowAdvanced
<1>7. CASE FailHandoff \/ ConfirmHandoff
  BY <1>2, <1>7 DEF FailHandoff, ConfirmHandoff
<1>8. CASE \E i \in Items, relationship \in Relationship : LinkWorkItem(i, relationship)
  BY <1>3, <1>8 DEF LinkWorkItem, lockUnresolvedRequest, lockRequest
<1>9. CASE \/ \E i \in Items, closed \in BOOLEAN, health \in {"current", "stale", "failed"} :
                  UpdateWorkItemStatus(i, closed, health)
           \/ \E i \in Items : Age(i)
  BY <1>2, <1>9 DEF UpdateWorkItemStatus, Age
<1> QED BY <1>4, <1>5, <1>6, <1>7, <1>8, <1>9 DEF DeliveryNext

\* The rows of the delivery stay typed.
LEMMA DeliveryStaysTyped ==
    ASSUME DeliveryTypeOK, ResolutionIsJudged, DeliveryNext
    PROVE  DeliveryTypeOK'
<1>1. request' \in RequestType
  BY DeliveryMovesRow DEF RowAdvanced, DeliveryTypeOK
<1>2. /\ handoff \in {"none", "intended", "failed", "confirmed"} /\ plan \in Plan
      /\ DOMAIN items \subseteq Items /\ \A i \in DOMAIN items : items[i] \in Item
      /\ DOMAIN links \subseteq DOMAIN items /\ \A i \in DOMAIN links : links[i] \in Relationship
      /\ judged \subseteq Items /\ updates \in 0 .. MaxUpdates
  BY DEF DeliveryTypeOK
<1>3. updates < MaxUpdates => updates + 1 \in 0 .. MaxUpdates
  BY <1>2, DeliveryBounds
<1>4. CASE FailHandoff
  BY <1>1, <1>2, <1>4 DEF FailHandoff, DeliveryTypeOK
<1>5. CASE ConfirmHandoff
  <2>1. PICK S \in SUBSET PlanItems : plan \in [S -> Relationship]
    BY <1>2 DEF Plan
  <2>2. DOMAIN plan \subseteq Items /\ \A i \in DOMAIN plan : plan[i] \in Relationship
    BY <2>1 DEF Items
  <2>3. NewItem \in Item
    BY DEF NewItem, Item
  <2>4. /\ DOMAIN items' = DOMAIN items \cup DOMAIN plan
        /\ \A i \in DOMAIN items' : items'[i] = IF i \in DOMAIN items THEN items[i] ELSE NewItem
        /\ DOMAIN links' = DOMAIN links \cup DOMAIN plan
        /\ \A i \in DOMAIN links' : links'[i] = IF i \in DOMAIN links THEN links[i] ELSE plan[i]
    BY <1>5 DEF ConfirmHandoff
  <2>5. handoff' = "confirmed" /\ plan' = plan /\ judged' = judged /\ updates' = updates
    BY <1>5 DEF ConfirmHandoff
  <2> QED BY <1>1, <1>2, <2>2, <2>3, <2>4, <2>5 DEF DeliveryTypeOK
<1>6. CASE \E i \in Items, relationship \in Relationship : LinkWorkItem(i, relationship)
  <2>1. PICK i \in Items, relationship \in Relationship : LinkWorkItem(i, relationship)
    BY <1>6
  <2>2. /\ DOMAIN links' = DOMAIN links \cup {i} /\ i \in DOMAIN items
        /\ \A j \in DOMAIN links' : links'[j] = IF j = i THEN relationship ELSE links[j]
        /\ handoff' = handoff /\ plan' = plan /\ items' = items /\ judged' = judged
        /\ updates' = updates
    BY <2>1 DEF LinkWorkItem
  <2> QED BY <1>1, <1>2, <2>2 DEF DeliveryTypeOK
<1>7. CASE \E i \in Items, closed \in BOOLEAN, health \in {"current", "stale", "failed"} :
              UpdateWorkItemStatus(i, closed, health)
  <2>1. PICK i \in Items, closed \in BOOLEAN, health \in {"current", "stale", "failed"} :
            UpdateWorkItemStatus(i, closed, health)
    BY <1>7
  <2>2. /\ items' = [items EXCEPT ![i] = UpdatedItem(items[i], closed, health)]
        /\ updates' = updates + 1 /\ updates < MaxUpdates /\ i \in DOMAIN links
        /\ handoff' = handoff /\ plan' = plan /\ links' = links /\ judged' = judged
    BY <2>1 DEF UpdateWorkItemStatus
  <2>3. UpdatedItem(items[i], closed, health) \in Item
    BY <1>2, <2>2 DEF UpdatedItem, Item
  <2>4. /\ DOMAIN items' = DOMAIN items
        /\ \A k \in DOMAIN items : items'[k] \in Item
    BY <1>2, <2>2, <2>3
  <2> QED BY <1>1, <1>2, <1>3, <2>2, <2>4 DEF DeliveryTypeOK
<1>8. CASE \E i \in Items : Age(i)
  <2>1. PICK i \in Items : Age(i)
    BY <1>8
  <2> DEFINE aged == [items[i] EXCEPT !.old = TRUE]
  <2>2. /\ items' = [items EXCEPT ![i] = aged]
        /\ updates' = updates + 1 /\ updates < MaxUpdates /\ i \in DOMAIN links
        /\ handoff' = handoff /\ plan' = plan /\ links' = links /\ judged' = judged
    BY <2>1 DEF Age
  <2>3. aged \in Item
    BY <1>2, <2>2 DEF Item
  <2> HIDE DEF aged
  <2>4. /\ DOMAIN items' = DOMAIN items
        /\ \A k \in DOMAIN items : items'[k] \in Item
    BY <1>2, <2>2, <2>3
  <2> QED BY <1>1, <1>2, <1>3, <2>2, <2>4 DEF DeliveryTypeOK
<1>9. CASE JudgeResolution
  <2>1. judged' \subseteq Items
    BY <1>2, <1>9 DEF JudgeResolution, Required
  <2>2. /\ handoff' = handoff /\ plan' = plan /\ items' = items /\ links' = links
        /\ updates' = updates
    BY <1>9 DEF JudgeResolution
  <2> QED BY <1>1, <1>2, <2>1, <2>2 DEF DeliveryTypeOK
<1>10. CASE CommitResolution \/ CloseWithoutFulfillment
  BY <1>1, <1>2, <1>10 DEF CommitResolution, CloseWithoutFulfillment, deliveryVars, DeliveryTypeOK
<1> QED BY <1>4, <1>5, <1>6, <1>7, <1>8, <1>9, <1>10 DEF DeliveryNext

\* What a resolution judged stands while it holds the row and after its commit.
LEMMA ResolutionStaysJudged ==
    ASSUME request \in RequestType, ResolutionIsJudged, DeliveryNext
    PROVE  ResolutionIsJudged'
<1>1. CASE FailHandoff \/ ConfirmHandoff
  BY <1>1 DEF FailHandoff, ConfirmHandoff, lockUnresolvedRequest, lockRequest, Unresolved,
              ResolutionIsJudged
<1>2. CASE \E i \in Items, relationship \in Relationship : LinkWorkItem(i, relationship)
  <2>1. /\ request' = Bumped(request) /\ ~request.resolving /\ Unresolved
        /\ request.version < MaxVersion
    BY <1>2 DEF LinkWorkItem, lockUnresolvedRequest, lockRequest
  <2>2. request'.resolution = "none" /\ ~request'.resolving
    BY <2>1, BumpedRow DEF Unresolved
  <2> QED BY <2>2 DEF ResolutionIsJudged
<1>3. CASE \/ \E i \in Items, closed \in BOOLEAN, health \in {"current", "stale", "failed"} :
                  UpdateWorkItemStatus(i, closed, health)
           \/ \E i \in Items : Age(i)
  BY <1>3 DEF UpdateWorkItemStatus, Age, ResolutionIsJudged, Unresolved, Required
<1>4. CASE JudgeResolution
  <2>1. /\ request' = [request EXCEPT !.resolving = TRUE] /\ links' = links
        /\ judged' = {i \in Required : Done(items[i])}
        /\ request.version < MaxVersion /\ Unresolved /\ Fulfillable
    BY <1>4 DEF JudgeResolution, lockUnresolvedRequest, lockRequest
  <2>2. judged' = Required
    BY <2>1 DEF Fulfillable
  <2>3. Required' = Required
    BY <2>1 DEF Required
  <2>4. request'.resolution = request.resolution /\ request'.version = request.version
    BY <2>1 DEF RequestType
  <2> QED BY <2>1, <2>2, <2>3, <2>4 DEF ResolutionIsJudged, Unresolved
<1>5. CASE CommitResolution
  <2>1. judged = Required
    BY <1>5 DEF CommitResolution, ResolutionIsJudged
  <2>2. judged' = judged /\ Required' = Required
    BY <1>5 DEF CommitResolution, deliveryVars, Required
  <2>3. ~request'.resolving
    <3> DEFINE b == Bumped(request)
    <3>1. b \in RequestType
      BY <1>5, BumpedRow DEF CommitResolution, ResolutionIsJudged
    <3>2. request' = [b EXCEPT !.resolving = FALSE, !.resolution = "fulfilled"]
      BY <1>5 DEF CommitResolution
    <3> HIDE DEF b
    <3> QED BY <3>1, <3>2 DEF RequestType
  <2> QED BY <2>1, <2>2, <2>3 DEF ResolutionIsJudged
<1>6. CASE CloseWithoutFulfillment
  <2> DEFINE b == Bumped(request)
  <2>1. b \in RequestType /\ ~b.resolving
    BY <1>6, BumpedRow DEF CloseWithoutFulfillment, lockUnresolvedRequest, lockRequest
  <2>2. request' = [b EXCEPT !.resolution = "closed"]
    BY <1>6 DEF CloseWithoutFulfillment
  <2> HIDE DEF b
  <2>3. ~request'.resolving /\ request'.resolution = "closed"
    BY <2>1, <2>2 DEF RequestType
  <2> QED BY <2>3 DEF ResolutionIsJudged
<1> QED BY <1>1, <1>2, <1>3, <1>4, <1>5, <1>6 DEF DeliveryNext

LEMMA DeliveryIsSound ==
    ASSUME IInv, DeliveryStep
    PROVE  IInv'
<1>1. Sound(Tables) /\ DeliveryTypeOK /\ ResolutionIsJudged /\ SentIsWork /\ DeliveryNext
  BY DEF IInv, DeliveryStep
<1>2. RowAdvanced
  BY <1>1, DeliveryMovesRow DEF DeliveryTypeOK
<1>3. /\ proposals' = proposals /\ decisions' = decisions /\ scores' = scores /\ inputs' = inputs
      /\ assessed' = assessed /\ selected' = selected /\ task' = task /\ sent' = sent
  BY DEF DeliveryStep, contributionVars, exchange
<1>4. Tables' \in TableType
  BY <1>1, <1>2, <1>3, TablesTyped, NextTablesTyped DEF Sound, RowAdvanced
<1>5. QuestionsMoved(Tables, Tables')
  <2>1. Tables'.request = request' /\ Tables'.inputs = inputs /\ Tables'.decisions = decisions
        /\ Tables'.scores = scores /\ Tables'.assessed = assessed /\ Tables'.selected = selected
        /\ Tables'.task = task
    BY <1>3 DEF Tables
  <2> QED BY <1>2, <1>4, <2>1, TablesOf DEF QuestionsMoved, RowAdvanced
<1>6. Sound(Tables')
  BY <1>1, <1>5, QuestionsMoveSoundly
<1>7. SentIsWork'
  BY <1>1, <1>3 DEF SentIsWork, Payload, Choice, HasWork
<1>8. DeliveryTypeOK' /\ ResolutionIsJudged'
  BY <1>1, DeliveryStaysTyped, ResolutionStaysJudged DEF DeliveryTypeOK
<1> QED BY <1>6, <1>7, <1>8 DEF IInv

------------------------------------------------------------------------------
(* The steps and the starts *)

\* A step of the review keeps the tables sound and the row's resolution.
LEMMA ReviewIsSound ==
    ASSUME Sound(Tables), SentIsWork, ContributionNext
    PROVE  Sound(Tables') /\ RowKept /\ SentIsWork'
<1>0. Tables \in TableType
  BY DEF Sound
<1>1. CASE \E page \in Pages : Send(page) \/ Reload(page) \/ Submit(page)
  <2>1. PICK page \in Pages : Send(page) \/ Reload(page) \/ Submit(page)
    BY <1>1
  <2>2. CASE Send(page)
    BY <1>0, <2>2, SendKeepsWork, TablesUnchanged
  <2> QED BY <2>1, <2>2, ReloadKeepsWork, SubmitIsSound
<1>2. ASSUME Sound(Tables'), RowKept, sent' = sent
      PROVE  SentIsWork'
  <2>1. Tables' \in TableType
    BY <1>2 DEF Sound
  <2> QED BY <1>0, <1>2, <2>1, WorkStays DEF SentIsWork
<1>3. CASE \E factor \in Factors \cup {None}, audience \in {"internal", "requester"},
              assignee \in People \cup {None} : Ask(factor, audience, assignee)
  <2>1. PICK factor \in Factors \cup {None}, audience \in {"internal", "requester"},
             assignee \in People \cup {None} : Ask(factor, audience, assignee)
    BY <1>3
  <2>2. sent' = sent
    BY <2>1 DEF Ask, exchange
  <2> QED BY <1>2, <2>1, <2>2, AskIsSound
<1>4. CASE \E i \in DOMAIN inputs : \E assignee \in People \cup {None} : Assign(i, assignee)
  <2>1. PICK i \in DOMAIN inputs, assignee \in People \cup {None} : Assign(i, assignee)
    BY <1>4
  <2>2. sent' = sent
    BY <2>1 DEF Assign, exchange
  <2> QED BY <1>2, <2>1, <2>2, AssignIsSound
<1>5. CASE \E i \in DOMAIN inputs : \E useful, estimate \in BOOLEAN : AnswerInput(i, useful, estimate)
  <2>1. PICK i \in DOMAIN inputs, useful \in BOOLEAN, estimate \in BOOLEAN :
            AnswerInput(i, useful, estimate)
    BY <1>5
  <2>2. sent' = sent
    BY <2>1 DEF AnswerInput, exchange
  <2> QED BY <1>2, <2>1, <2>2, AnswerIsSound
<1>6. CASE SaveRiceScore
  <2>1. sent' = sent
    BY <1>6 DEF SaveRiceScore, exchange
  <2> QED BY <1>2, <1>6, <2>1, RiceIsSound
<1>7. CASE SettleAssessment
  <2>1. sent' = sent
    BY <1>7 DEF SettleAssessment, exchange
  <2> QED BY <1>2, <1>7, <2>1, SettleIsSound
<1>8. CASE ChangeCatalog
  <2>1. sent' = sent
    BY <1>8 DEF ChangeCatalog, exchange
  <2> QED BY <1>2, <1>8, <2>1, CatalogIsSound
<1>9. CASE AnswerClarification
  <2>1. sent' = sent
    BY <1>9 DEF AnswerClarification, exchange
  <2> QED BY <1>2, <1>9, <2>1, ClarificationIsSound
<1> QED BY <1>1, <1>3, <1>4, <1>5, <1>6, <1>7, <1>8, <1>9 DEF ContributionNext

LEMMA ReviewStepIsSound ==
    ASSUME IInv, ReviewStep
    PROVE  IInv'
<1>1. Sound(Tables) /\ DeliveryTypeOK /\ ResolutionIsJudged /\ SentIsWork /\ ContributionNext
  BY DEF IInv, ReviewStep
<1>2. Sound(Tables') /\ RowKept /\ SentIsWork'
  BY <1>1, ReviewIsSound
<1>3. request' \in RequestType
  BY <1>2 DEF Sound, Tables, TableType
<1>4. /\ items' = items /\ links' = links /\ judged' = judged /\ updates' = updates
      /\ handoff' \in {"none", "intended", "failed", "confirmed"} /\ plan' \in Plan
  BY <1>1 DEF ReviewStep, IntendHandoff, deliveryVars, DeliveryTypeOK
<1>5. DeliveryTypeOK'
  BY <1>1, <1>3, <1>4 DEF DeliveryTypeOK
<1>6. ResolutionIsJudged'
  BY <1>1, <1>2, <1>4 DEF ResolutionIsJudged, RowKept, Unresolved, Required
<1> QED BY <1>2, <1>5, <1>6 DEF IInv

LEMMA StutterIsSound ==
    ASSUME IInv, UNCHANGED vars
    PROVE  IInv'
<1>1. Tables' = Tables
  BY DEF vars, contributionVars, Tables
<1>2. Sound(Tables')
  BY <1>1 DEF IInv
<1>3. DeliveryTypeOK' /\ ResolutionIsJudged'
  BY DEF IInv, vars, deliveryVars, DeliveryTypeOK, ResolutionIsJudged, Unresolved, Required
<1>4. SentIsWork'
  BY DEF IInv, vars, contributionVars, exchange, SentIsWork, Payload, Choice, HasWork
<1> QED BY <1>2, <1>3, <1>4 DEF IInv

LEMMA NextIsSound ==
    ASSUME IInv, [Next]_vars
    PROVE  IInv'
BY ReviewStepIsSound, DeliveryIsSound, StutterIsSound DEF Next

\* A request as it starts its review, or as its delivery starts.
LEMMA RowStarts ==
    ASSUME NEW stage \in {"in_first_review", "first_review_completed"},
           NEW area \in {"risk", "assets"}, Len(scores) \in Nat
    PROVE  Row(stage, area) \in RequestType
BY RowBounds DEF Row, RequestType

LEMMA StartsWithoutWork ==
    ASSUME Tables \in TableType, sent = [page \in Pages |-> Nothing]
    PROVE  SentIsWork
<1>1. Len(assessed) \in Nat
  BY TablesTyped
<1>2. Payload(NoWork)
  BY <1>1 DEF Payload, NoWork, NoDraft
<1>3. Nothing.version \in 0 .. MaxVersion /\ Nothing.payload = NoWork
  BY RowBounds DEF Nothing
<1> QED BY <1>2, <1>3 DEF SentIsWork

LEMMA DeliveryStartsTyped ==
    ASSUME NEW existing \in SUBSET Items, NEW used \in 0 .. MaxUpdates,
           DeliveryInit(existing, used), request \in RequestType, plan \in Plan,
           handoff \in {"none", "intended"}
    PROVE  DeliveryTypeOK
<1>1. NewItem \in Item
  BY DEF NewItem, Item
<1> QED BY <1>1 DEF DeliveryInit, DeliveryTypeOK

LEMMA NothingIsPlanned == NoPlan \in Plan
<1>1. NoPlan \in [{} -> Relationship]
  BY DEF NoPlan
<1> QED BY <1>1 DEF Plan

\* Before any decision the factors show the current score.
LEMMA UndecidedView ==
    ASSUME NEW t, t.decisions = <<>>, NEW f
    PROVE  FactorView(t, f) = IF t.request.score = 0 THEN NoEstimate
                              ELSE [estimate |-> t.scores[t.request.score][f], proposal |-> 0]
<1>1. Len(t.decisions) = 0 /\ CurrentDecisions(t) = {}
  BY DEF CurrentDecisions
<1>2. Existing(t, f) = IF t.request.score = 0 THEN NoEstimate
                       ELSE [estimate |-> t.scores[t.request.score][f], proposal |-> 0]
  BY <1>1 DEF Existing, BaseScore
<1>3. FactorView(t, f) = Existing(t, f)
  BY <1>1, ReviewedStepByStep DEF FactorView
<1> QED BY <1>2, <1>3

LEMMA TablesTypedNow ==
    ASSUME request \in RequestType, proposals \in Seq(Proposal), decisions \in Seq(Decision),
           scores \in Seq([Factors -> Estimate]), inputs \in Seq(Input),
           assessed \in Seq(Assessment), selected \in Nat, task \in Task
    PROVE  Tables \in TableType
BY DEF Tables, TableType

\* What every start has in common: no decision, one assessment, a score or none.
LEMMA StartIsSound ==
    ASSUME Tables \in TableType, decisions = <<>>, request.revision = 1,
           request.score = Len(scores), scores = <<>> \/ Len(scores) = 1,
           Len(assessed) = 1, assessed[1].revision = 1, selected = 1, task.of <= 1,
           QuestionsAreFramed(Tables), \A i \in DOMAIN inputs : inputs[i].state # "resolved",
           CompletionIsSettled(Tables)
    PROVE  Sound(Tables)
<1>1. ScoreIsOfFactors(Tables)
  <2>1. CASE scores = <<>>
    BY <2>1, TablesOf DEF ScoreIsOfFactors
  <2>2. CASE Len(scores) = 1
    <3>1. \A f \in Factors : FactorView(Tables, f)
              = [estimate |-> scores[request.score][f], proposal |-> 0]
      BY <2>2, TablesOf, UndecidedView
    <3> QED BY <2>2, <3>1, TablesOf DEF ScoreIsOfFactors
  <2> QED BY <2>1, <2>2
<1>2. DecisionsAreFounded(Tables)
  BY TablesOf DEF DecisionsAreFounded
<1>3. ScoreExists(Tables)
  <2>1. Len(scores) \in Nat
    BY TablesTyped
  <2> QED BY <2>1, TablesOf DEF ScoreExists
<1>4. SelectedIsCurrent(Tables) /\ TaskNamesAssessment(Tables)
  <2>1. SelectedIsCurrent(Tables)
    <3>1. Tables.assessed[Tables.selected] = assessed[1]
      BY TablesOf
    <3>2. Tables.assessed[Tables.selected].revision = Tables.request.revision
      BY <3>1, TablesOf
    <3>3. Tables.selected <= Len(Tables.assessed)
      <4>1. Tables.selected = 1 /\ Len(Tables.assessed) = 1
        BY TablesOf
      <4> QED BY <4>1
    <3> QED BY <3>2, <3>3 DEF SelectedIsCurrent
  <2>2. TaskNamesAssessment(Tables)
    BY TablesOf DEF TaskNamesAssessment
  <2> QED BY <2>1, <2>2
<1>5. ResolvedByJudgment(Tables)
  BY TablesOf DEF ResolvedByJudgment
<1> QED BY <1>1, <1>2, <1>3, <1>4, <1>5 DEF Sound

\* What a contributor answered before the review began.
LEMMA AskedIsInput ==
    ASSUME NEW factor \in Factors \cup {None}
    PROVE  /\ Asked(factor) \in Input /\ Asked(factor).state = "answered"
           /\ Asked(factor).factor = factor
           /\ Asked(factor).finding = IF factor = None THEN 1 ELSE 0
           /\ Len(Asked(factor).answers) = 1 /\ Asked(factor).answers[1].at = 0
<1> DEFINE answer == [useful |-> TRUE, proposal |-> IF factor = None THEN 0 ELSE 1, at |-> 0]
           person == CHOOSE p \in People : TRUE
           given == <<answer>>
<1>1. person \in People
  BY FactorsAndPeople
<1>2. answer \in Answer /\ answer.at = 0
  BY DEF Answer
<1> HIDE DEF answer, person
<1>3. given \in Seq(Answer) /\ Len(given) = 1 /\ given[1] = answer
  BY <1>2
<1>4. Asked(factor) = [factor |-> factor, finding |-> IF factor = None THEN 1 ELSE 0,
                       audience |-> "internal", assignee |-> person, revision |-> 1,
                       state |-> "answered", answers |-> given, judged |-> 0]
  BY DEF Asked, answer, person
<1> HIDE DEF given
<1>5. 1 \in 1 .. MaxRevision
  BY RowBounds
<1> QED BY <1>1, <1>2, <1>3, <1>4, <1>5 DEF Input

\* The rows a review may start with.
RowsStart ==
    /\ proposals \in Seq(Proposal) /\ inputs \in Seq(Input)
    /\ scores \in Seq([Factors -> Estimate]) /\ (scores = <<>> \/ Len(scores) = 1)
    /\ \A i \in DOMAIN inputs :
          /\ inputs[i].state # "resolved" /\ (inputs[i].factor = None <=> inputs[i].finding # 0)
          /\ inputs[i].finding <= 1
          /\ \A k \in DOMAIN inputs[i].answers : inputs[i].answers[k].at = 0

LEMMA ReviewStarts ==
    ASSUME StartInReview
    PROVE  IInv
<1>1. 1 \in 1 .. MaxRevision /\ Relationship # {}
  BY RowBounds DEF Relationship
<1>2. /\ decisions = <<>> /\ selected = 1 /\ task = [state |-> "pending", of |-> 0]
      /\ assessed = <<[revision |-> 1, verdict |-> "undecided", decidedAt |-> 0]>>
      /\ sent = [page \in Pages |-> Nothing]
      /\ \E area \in {"risk", "assets"} : request = Row("in_first_review", area)
      /\ handoff = "none" /\ plan = NoPlan /\ DeliveryInit({}, MaxUpdates) /\ ContributionInit
  BY DEF StartInReview, ContributionInit
<1>3. RowsStart
  <2>1. CASE /\ proposals = <<>> /\ inputs = <<>>
             /\ scores = <<[f \in Factors |-> [from |-> "score", row |-> 1]]>>
    <3>1. [f \in Factors |-> [from |-> "score", row |-> 1]] \in [Factors -> Estimate]
      BY DEF Estimate
    <3> QED BY <2>1, <3>1 DEF RowsStart
  <2>2. ASSUME NEW factor \in Factors \cup {None}, inputs = <<Asked(factor)>>, scores = <<>>,
               proposals = IF factor = None THEN <<>>
                           ELSE <<[factor |-> factor, revision |-> 1]>>
        PROVE  RowsStart
    <3>1. /\ Asked(factor) \in Input /\ Asked(factor).state = "answered"
          /\ Asked(factor).factor = factor
          /\ Asked(factor).finding = IF factor = None THEN 1 ELSE 0
          /\ Len(Asked(factor).answers) = 1 /\ Asked(factor).answers[1].at = 0
      BY AskedIsInput
    <3>2. proposals \in Seq(Proposal)
      <4>1. CASE factor = None
        BY <2>2, <4>1
      <4>2. CASE factor # None
        <5>1. [factor |-> factor, revision |-> 1] \in Proposal
          BY <1>1, <4>2 DEF Proposal
        <5> QED BY <2>2, <4>2, <5>1
      <4> QED BY <4>1, <4>2
    <3>3. DOMAIN inputs = {1} /\ inputs[1] = Asked(factor) /\ inputs \in Seq(Input)
      BY <2>2, <3>1
    <3>4. Asked(factor).answers \in Seq(Answer)
      BY <3>1 DEF Input
    <3>5. DOMAIN Asked(factor).answers = {1}
      BY <3>1, <3>4
    <3> QED BY <2>2, <3>1, <3>2, <3>3, <3>5 DEF RowsStart
  <2> QED BY <1>2, <2>1, <2>2 DEF ContributionInit
<1>4. /\ [revision |-> 1, verdict |-> "undecided", decidedAt |-> 0] \in Assessment
      /\ task \in Task /\ task.of = 0
  BY <1>1, <1>2 DEF Assessment, Task
<1>5. assessed \in Seq(Assessment) /\ Len(assessed) = 1 /\ assessed[1].revision = 1
  BY <1>2, <1>4
<1>6. Len(scores) \in Nat
  BY <1>3 DEF RowsStart
<1>7. /\ request \in RequestType /\ request.revision = 1 /\ request.score = Len(scores)
      /\ request.version = 1 /\ ~Completed(request) /\ ~request.resolving
      /\ request.resolution = "none"
  <2>1. PICK area \in {"risk", "assets"} : request = Row("in_first_review", area)
    BY <1>2
  <2>2. request \in RequestType
    BY <1>6, <2>1, RowStarts
  <2> QED BY <2>1, <2>2 DEF Row, Completed
<1>8. decisions \in Seq(Decision) /\ selected \in Nat
  BY <1>2
<1>9. Tables \in TableType
  BY <1>3, <1>4, <1>5, <1>7, <1>8, TablesTypedNow DEF RowsStart
<1>10. QuestionsAreFramed(Tables) /\ CompletionIsSettled(Tables)
  <2>1. CompletionIsSettled(Tables)
    BY <1>7, TablesOf DEF CompletionIsSettled
  <2>2. ASSUME NEW i \in DOMAIN inputs
        PROVE  /\ inputs[i].factor = None <=> inputs[i].finding # 0
               /\ inputs[i].finding <= Len(assessed)
               /\ \A k \in DOMAIN inputs[i].answers : inputs[i].answers[k].at < request.version
    BY <1>3, <1>5, <1>7 DEF RowsStart
  <2>3. QuestionsAreFramed(Tables)
    BY <2>2, TablesOf DEF QuestionsAreFramed
  <2> QED BY <2>1, <2>3
<1>11. Sound(Tables)
  BY <1>2, <1>3, <1>4, <1>5, <1>7, <1>9, <1>10, StartIsSound DEF RowsStart
<1>12. SentIsWork
  BY <1>2, <1>9, StartsWithoutWork
<1>13. DeliveryTypeOK
  BY <1>2, <1>7, NothingIsPlanned, DeliveryStartsTyped, DeliveryBounds
<1>14. ResolutionIsJudged
  BY <1>7 DEF ResolutionIsJudged
<1> QED BY <1>11, <1>12, <1>13, <1>14 DEF IInv

LEMMA DeliveryStarts ==
    ASSUME StartInDelivery
    PROVE  IInv
<1>1. 1 \in 1 .. MaxRevision
  BY RowBounds
<1>2. /\ proposals = <<>> /\ decisions = <<>> /\ scores = <<>> /\ inputs = <<>>
      /\ assessed = <<[revision |-> 1, verdict |-> "settled", decidedAt |-> 0]>>
      /\ selected = 1 /\ task = [state |-> "completed", of |-> 1]
      /\ sent = [page \in Pages |-> Nothing] /\ request = Row("first_review_completed", "risk")
      /\ handoff = "intended" /\ plan \in Plan
      /\ DeliveryInit(SeededItems \cup ForeignItems, 0)
  BY DEF StartInDelivery
<1>3. /\ [revision |-> 1, verdict |-> "settled", decidedAt |-> 0] \in Assessment
      /\ task \in Task /\ task.of = 1 /\ task.state = "completed"
  BY <1>1, <1>2 DEF Assessment, Task
<1>4. assessed \in Seq(Assessment) /\ Len(assessed) = 1 /\ assessed[1].revision = 1
  BY <1>2, <1>3
<1>5. Len(scores) = 0
  BY <1>2
<1>6. /\ request \in RequestType /\ request.revision = 1 /\ request.score = Len(scores)
      /\ ~request.resolving /\ request.resolution = "none"
  BY <1>2, <1>5, RowStarts DEF Row
<1>7. /\ proposals \in Seq(Proposal) /\ decisions \in Seq(Decision) /\ inputs \in Seq(Input)
      /\ scores \in Seq([Factors -> Estimate]) /\ selected \in Nat /\ DOMAIN inputs = {}
  BY <1>2
<1>8. Tables \in TableType
  BY <1>3, <1>4, <1>6, <1>7, TablesTypedNow
<1>9. QuestionsAreFramed(Tables) /\ CompletionIsSettled(Tables)
  BY <1>3, <1>7, TablesOf DEF QuestionsAreFramed, CompletionIsSettled, PageQuestions
<1>10. Sound(Tables)
  BY <1>2, <1>3, <1>4, <1>6, <1>7, <1>8, <1>9, StartIsSound
<1>11. SentIsWork
  BY <1>2, <1>8, StartsWithoutWork
<1>12. DeliveryTypeOK
  <2>1. SeededItems \cup ForeignItems \in SUBSET Items /\ 0 \in 0 .. MaxUpdates
    BY DeliveryBounds DEF Items
  <2> QED BY <1>2, <1>6, <2>1, DeliveryStartsTyped
<1>13. ResolutionIsJudged
  BY <1>6 DEF ResolutionIsJudged
<1> QED BY <1>10, <1>11, <1>12, <1>13 DEF IInv

------------------------------------------------------------------------------
(* What the page offers *)

\* The message that completes the review, with this verdict on the finding shown.
Completing(t, v, p) ==
    /\ p.verdict = v /\ p.factors = NoDraft /\ p.complete = TRUE
    /\ v = "none" => p.finding = 0
    /\ v # "none" => p.finding = CurrentAssessment(t)
    /\ p.outcome \in BOOLEAN
    /\ p.outcome <=> OutcomePending(t) /\ Effective(t, v) = "settled"

\* A verdict with which completion is offered and something is missing, or no area
\* would be reopened.
Offered(t, v) ==
    /\ v \in Verdicts(t) /\ ~CompletionHeld(t, v)
    /\ ApprovalBlockers(t) = {} => v = "none" \/ ~Reopens(t, v)

LEMMA AssembledCompletes ==
    ASSUME NEW t, NEW v
    PROVE  Completing(t, v, Assembled(t, v, NoDraft, TRUE))
<1>1. (OutcomePending(t) /\ Effective(t, v) = "settled") \in BOOLEAN
  OBVIOUS
<1> QED BY <1>1 DEF Completing, Assembled

\* Deciding on the finding shown leaves it the one that counts.
LEMMA OpenReviewKeepsAssessment ==
    ASSUME NEW t, NEW s, AreaMoved(t, s), Sound(t), ~Completed(t.request)
    PROVE  CurrentAssessment(s) = CurrentAssessment(t)
<1>1. /\ s.request = t.request /\ s.selected = t.selected /\ s.assessed \in Seq(Assessment)
      /\ t.assessed \in Seq(Assessment) /\ Len(s.assessed) = Len(t.assessed)
      /\ Len(t.assessed) \in Nat
      /\ \A i \in 1 .. Len(t.assessed) : s.assessed[i].revision = t.assessed[i].revision
  BY DEF AreaMoved, Sound, TableType
<1>2. Newest(s) = Newest(t)
  BY <1>1 DEF Newest, Last
<1> QED BY <1>1, <1>2 DEF CurrentAssessment, Preferred

\* What the page offers to complete leaves the finding settled and its outcome recorded.
LEMMA OfferedJudgment ==
    ASSUME NEW t, Sound(t), ~Completed(t.request), NEW v, Offered(t, v),
           NEW p, Completing(t, v, p)
    PROVE  /\ IsPayload(t, p) /\ MayDecide(t, p) /\ CurrentAssessment(t) # 0 /\ ~Stale(t)
           /\ MayRecordOutcome(SaveDecision(t, p), p) /\ AreaMoved(t, Judged(t, p))
           /\ Judged(t, p).task = [state |-> "completed", of |-> CurrentAssessment(t)]
           /\ t.request.area = "risk" \/ v = "settled" =>
                 Judged(t, p).assessed[CurrentAssessment(t)].verdict = "settled"
           /\ v # "settled" => PageQuestions(t) = {}
           /\ v = "settled" =>
                 Judged(t, p).assessed[CurrentAssessment(t)].decidedAt = t.request.version
<1> DEFINE a == CurrentAssessment(t)
           j == Judged(t, p)
           s == SaveDecision(t, p)
           risk == t.request.area = "risk"
<1>0. a # 0 /\ ~Stale(t) /\ v \in {"none", "settled", "follow_up"} /\ (v = "follow_up" => risk)
  <2>1. "missing" \notin ApprovalBlockers(t) /\ "stale" \notin ApprovalBlockers(t)
    BY DEF Offered, CompletionHeld, PreparationHold
  <2>2. a # 0 /\ ~Stale(t)
    BY <2>1 DEF ApprovalBlockers
  <2> QED BY <2>2 DEF Offered, Verdicts
<1>1. /\ t \in TableType /\ t.assessed \in Seq(Assessment) /\ Len(t.assessed) \in Nat
      /\ a \in 1 .. Len(t.assessed) /\ SelectedIsCurrent(t) /\ TaskNamesAssessment(t)
  <2>1. /\ t \in TableType /\ SelectedIsCurrent(t) /\ TaskNamesAssessment(t)
        /\ t.assessed \in Seq(Assessment) /\ Len(t.assessed) \in Nat
    BY DEF Sound, TableType
  <2>2. a \in 0 .. Len(t.assessed)
    BY <2>1, CurrentAssessmentExists
  <2> QED BY <1>0, <2>1, <2>2
<1> HIDE DEF a
<1>2. /\ p.verdict = v /\ p.factors = NoDraft /\ p.complete = TRUE
      /\ v = "none" => p.finding = 0
      /\ v # "none" => p.finding = a
      /\ p.outcome \in BOOLEAN
      /\ p.outcome <=> OutcomePending(t) /\ Effective(t, v) = "settled"
  BY DEF Completing, a
<1>3. IsPayload(t, p)
  <2>1. IsChoice(NoDraft)
    BY DEF IsChoice, NoDraft
  <2>2. p.finding \in 0 .. Len(t.assessed)
    BY <1>1, <1>2
  <2> QED BY <1>0, <1>2, <2>1, <2>2 DEF IsPayload
<1>4. t.assessed[a].verdict \in {"undecided", "settled", "follow_up"}
  <2>1. t.assessed[a] \in Assessment
    BY <1>1
  <2> QED BY <2>1 DEF Assessment
<1>5. v # "settled" => PageQuestions(t) = {}
  BY DEF Offered, CompletionHeld, QuestionHold
<1>6. ASSUME v # "settled"
      PROVE  /\ v = "none" /\ (risk => t.assessed[a].verdict = "settled")
             /\ OutcomePending(t) => t.assessed[a].verdict = "settled"
  <2>1. CASE ApprovalBlockers(t) = {}
    <3>1. v = "none" /\ ~OutcomePending(t)
      BY <1>0, <1>6, <2>1 DEF Offered, Reopens, OutcomePending
    <3>2. "follow_up" \notin ApprovalBlockers(t) /\ "undecided" \notin ApprovalBlockers(t)
      BY <2>1
    <3>3. risk => t.assessed[a].verdict # "follow_up" /\ t.assessed[a].verdict # "undecided"
      BY <3>2, <1>0 DEF ApprovalBlockers, a
    <3> QED BY <3>1, <3>3, <1>4
  <2>2. CASE ApprovalBlockers(t) # {} /\ risk
    <3>1. Effective(t, v) # "undecided" /\ Effective(t, v) # "follow_up"
      BY <1>5, <1>6, <2>2 DEF Offered, CompletionHeld, RiskHold
    <3>2. v = "none"
      BY <3>1, <1>0, <1>6 DEF Effective
    <3>3. Effective(t, v) = t.assessed[a].verdict
      BY <3>2 DEF Effective, a
    <3> QED BY <3>1, <3>2, <3>3, <1>4
  <2>3. CASE ApprovalBlockers(t) # {} /\ ~risk
    <3>1. v = "none"
      BY <1>0, <1>6, <2>3
    <3>2. Effective(t, v) = t.assessed[a].verdict
      BY <3>1 DEF Effective, a
    <3>3. OutcomePending(t) => Effective(t, v) = "settled"
      BY <2>3 DEF Offered, CompletionHeld, FitHold, OutcomePending
    <3> QED BY <3>1, <3>2, <3>3, <2>3
  <2> QED BY <2>1, <2>2, <2>3
<1>7. MayDecide(t, p)
  BY <1>0, <1>1, <1>2 DEF Offered, MayDecide, Reviewable, a
<1>8. /\ AreaMoved(t, s)
      /\ v = "settled" => /\ s.assessed[a].decidedAt = t.request.version
                          /\ s.assessed[a].verdict = "settled"
                          /\ risk => s.task = [state |-> "completed", of |-> a]
      /\ v # "settled" => s = t
  <2>1. CASE v = "settled"
    <3>1. p.verdict \in {"settled", "follow_up"} /\ p.finding = a /\ p.verdict = "settled"
      BY <1>2, <2>1
    <3>2. DecidedOn(t, p, s)
      <4>1. t \in TableType /\ p.finding \in 1 .. Len(t.assessed)
        BY <1>1, <3>1
      <4> QED BY <3>1, <4>1, FindingDecided
    <3> HIDE DEF s
    <3>3. ASSUME risk
          PROVE  s.task = [state |-> "completed", of |-> a]
      <4>1. ~Reopens(t, p.verdict)
        BY <3>1, <3>3 DEF Reopens
      <4>2. s.task = IF Reopens(t, p.verdict) THEN [state |-> "in_progress", of |-> 0]
                     ELSE [state |-> "completed", of |-> p.finding]
        BY <3>2 DEF DecidedOn
      <4>3. s.task = [state |-> "completed", of |-> p.finding]
        BY <4>1, <4>2, Zenon
      <4> QED BY <3>1, <4>3
    <3>4. /\ AreaMoved(t, s) /\ s.assessed[a].verdict = "settled"
          /\ s.assessed[a].decidedAt = t.request.version
      BY <3>1, <3>2 DEF DecidedOn
    <3> QED BY <3>3, <3>4, <2>1
  <2>2. CASE v # "settled"
    <3>1. s = t
      BY <1>2, <1>6, <2>2 DEF SaveDecision
    <3>2. AreaMoved(t, t)
      BY <1>1 DEF AreaMoved
    <3> HIDE DEF s
    <3> QED BY <3>1, <3>2, <2>2
  <2> QED BY <2>1, <2>2
<1>9. CurrentAssessment(s) = a /\ ~Completed(s.request)
  <2> HIDE DEF s
  <2>1. CurrentAssessment(s) = a
    BY <1>8, OpenReviewKeepsAssessment DEF a
  <2> QED BY <2>1, <1>8 DEF AreaMoved
<1>10. MayRecordOutcome(s, p)
  <2>1. p.outcome => s.assessed[a].verdict = "settled"
    <3>1. CASE v = "settled"
      <4> HIDE DEF s
      <4> QED BY <1>8, <3>1
    <3>2. CASE v # "settled"
      <4>1. s = t /\ (OutcomePending(t) => t.assessed[a].verdict = "settled")
        BY <1>6, <1>8, <3>2
      <4> HIDE DEF s
      <4> QED BY <1>2, <4>1
    <3> QED BY <3>1, <3>2
  <2> HIDE DEF s
  <2> QED BY <1>1, <1>9, <2>1 DEF MayRecordOutcome, Reviewable, AreaSettled
<1>11. AreaMoved(t, j)
  BY <1>1, <1>3, <1>7, <1>10, AreaJudged
<1>12. j.task = [state |-> "completed", of |-> a] /\ j.assessed = s.assessed
  <2>1. CASE p.outcome
    <3>1. j = [s EXCEPT !.task = [state |-> "completed", of |-> CurrentAssessment(s)]]
      BY <2>1 DEF Judged, RecordOutcome
    <3>2. s \in TableType
      BY <1>8 DEF AreaMoved
    <3> HIDE DEF s, j
    <3> QED BY <3>1, <3>2, <1>9 DEF TableType
  <2>2. CASE ~p.outcome
    <3>1. j = s
      BY <2>2 DEF Judged, RecordOutcome
    <3>2. CASE v = "settled"
      <4>1. ~OutcomePending(t)
        BY <1>2, <2>2, <3>2 DEF Effective
      <4>2. risk
        <5>1. ASSUME ~risk, NEW b \in ApprovalBlockers(t)
              PROVE  FALSE
          BY <1>0, <4>1, <5>1 DEF ApprovalBlockers, OutcomePending, a
        <5>2. t.request.area \in {"risk", "assets"}
          BY <1>1 DEF TableType, RequestType
        <5>3. ~risk => Reopens(t, v)
          BY <5>2 DEF Reopens
        <5> QED BY <5>1, <5>3, <3>2 DEF Offered
      <4> HIDE DEF s, j
      <4> QED BY <3>1, <3>2, <4>2, <1>8
    <3>3. CASE v # "settled"
      <4>1. ~OutcomePending(t)
        BY <1>2, <2>2, <1>6, <3>3 DEF Effective, a
      <4>2. ~OutcomeMissing(t)
        BY <4>1 DEF OutcomePending, ApprovalBlockers
      <4>3. t.task = [state |-> "completed", of |-> a]
        BY <1>0, <4>2 DEF OutcomeMissing, a
      <4> HIDE DEF s, j
      <4> QED BY <3>1, <3>3, <4>3, <1>8
    <3> QED BY <3>2, <3>3
  <2> QED BY <2>1, <2>2
<1>13. risk \/ v = "settled" => s.assessed[a].verdict = "settled"
  <2>1. CASE v = "settled"
    <3> HIDE DEF s
    <3> QED BY <1>8, <2>1
  <2>2. CASE v # "settled"
    <3>1. s = t /\ (risk => t.assessed[a].verdict = "settled")
      BY <1>6, <1>8, <2>2
    <3> HIDE DEF s
    <3> QED BY <3>1, <2>2
  <2> QED BY <2>1, <2>2
<1> HIDE DEF s, j
<1> QED BY <1>0, <1>3, <1>5, <1>7, <1>8, <1>10, <1>11, <1>12, <1>13 DEF a, s, j

\* Such a submission is accepted.
LEMMA OfferedIsAccepted ==
    ASSUME NEW t, Sound(t), ~Completed(t.request), NEW v, Offered(t, v)
    PROVE  Accepts(t, Assembled(t, v, NoDraft, TRUE))
<1>0. PICK p : p = Assembled(t, v, NoDraft, TRUE) /\ Completing(t, v, p)
  BY AssembledCompletes
<1> SUFFICES Accepts(t, p)
  BY <1>0
<1> DEFINE a == CurrentAssessment(t)
           j == Judged(t, p)
           s == Settled(t, p)
<1>1. /\ IsPayload(t, p) /\ MayDecide(t, p)
      /\ MayRecordOutcome(SaveDecision(t, p), p) /\ AreaMoved(t, j)
      /\ j.task = [state |-> "completed", of |-> a] /\ a # 0 /\ ~Stale(t)
      /\ t.request.area = "risk" \/ v = "settled" => j.assessed[a].verdict = "settled"
      /\ v # "settled" => PageQuestions(t) = {}
      /\ v = "settled" => j.assessed[a].decidedAt = t.request.version
  <2>1. Completing(t, v, p)
    BY <1>0
  <2> HIDE DEF a, j
  <2>2. /\ IsPayload(t, p) /\ MayDecide(t, p) /\ CurrentAssessment(t) # 0 /\ ~Stale(t)
        /\ MayRecordOutcome(SaveDecision(t, p), p) /\ AreaMoved(t, Judged(t, p))
        /\ Judged(t, p).task = [state |-> "completed", of |-> CurrentAssessment(t)]
        /\ t.request.area = "risk" \/ v = "settled" =>
              Judged(t, p).assessed[CurrentAssessment(t)].verdict = "settled"
        /\ v # "settled" => PageQuestions(t) = {}
        /\ v = "settled" =>
              Judged(t, p).assessed[CurrentAssessment(t)].decidedAt = t.request.version
    BY <2>1, OfferedJudgment
  <2> QED BY <2>2 DEF a, j
<1>2. /\ p.verdict = v /\ DOMAIN p.factors = {} /\ p.complete = TRUE
      /\ v = "none" => p.finding = 0
      /\ v # "none" => p.finding = a
  BY <1>0 DEF Completing, NoDraft
<1>3. Decided(t, p) = j
  BY <1>2 DEF Decided, ApplyPriorityDecisions
<1> HIDE DEF j
<1>4. s = SettleAnsweredInputs(j, Answered(j, p))
  BY <1>3 DEF Settled
<1> HIDE DEF s
<1>5. /\ j \in TableType /\ j.inputs = t.inputs /\ j.request = t.request /\ j.selected = t.selected
  BY <1>1 DEF AreaMoved
<1>6. /\ s.request = t.request /\ s.assessed = j.assessed /\ s.selected = t.selected
      /\ s.task = j.task /\ DOMAIN s.inputs = DOMAIN t.inputs
      /\ \A i \in DOMAIN t.inputs :
            /\ i \notin Answered(j, p) => s.inputs[i] = t.inputs[i]
            /\ i \in Answered(j, p) => s.inputs[i].state = "resolved"
  BY <1>4, <1>5, QuestionsSettled
<1>7. a = Preferred(t) /\ CurrentAssessment(j) = a /\ CurrentAssessment(s) = a
  <2>1. CurrentAssessment(j) = a
    BY <1>1, OpenReviewKeepsAssessment
  <2>2. Preferred(s) = Preferred(j)
    BY <1>5, <1>6 DEF Preferred, Newest
  <2> QED BY <1>5, <1>6, <2>1, <2>2 DEF CurrentAssessment
<1>8. t \in TableType /\ a \in 1 .. Len(t.assessed) /\ t.assessed[a].revision = t.request.revision
  <2>1. t \in TableType /\ SelectedIsCurrent(t) /\ Len(t.assessed) \in Nat
    BY DEF Sound, TableType
  <2>2. /\ Preferred(t) \in 0 .. Len(t.assessed)
        /\ Preferred(t) # 0 => t.assessed[Preferred(t)].revision = t.request.revision
    BY <2>1, PreferredIsCurrent
  <2> QED BY <1>1, <1>7, <2>1, <2>2
<1>9. ASSUME NEW i \in Answered(j, p)
      PROVE  ResolutionSatisfied(j, t.inputs[i])
  <2>1. /\ i \in DOMAIN t.inputs /\ Provided(t.inputs[i]) /\ InputResolution(j, p, t.inputs[i])
        /\ IsCurrentInput(j, t.inputs[i])
    BY <1>5 DEF Answered
  <2>2. t.inputs[i].finding # 0 /\ p.finding = t.inputs[i].finding /\ p.verdict = "settled"
    BY <2>1, <1>2 DEF InputResolution
  <2>3. t.inputs[i].finding = a /\ v = "settled"
    BY <2>2, <1>2
  <2>4. j.assessed[a].verdict = "settled" /\ j.assessed[a].decidedAt = t.request.version
    BY <1>1, <2>3
  <2>5. IsCurrent(j, j.assessed[a])
    BY <1>1, <1>5, <1>8 DEF IsCurrent, AreaMoved
  <2>6. t.inputs[i].answers # <<>>
    BY <2>1 DEF Provided
  <2>7. LatestAnswer(t.inputs[i]).at < t.request.version
    BY <2>1, <2>6, AnswerIsEarlier
  <2>8. LatestAnswer(t.inputs[i]).at \in Nat /\ t.request.version \in Nat
    <3>1. t.inputs[i] \in Input /\ t.request.version \in 1 .. MaxVersion
      BY <1>8, <2>1 DEF TableType, RequestType
    <3>2. t.inputs[i].answers \in Seq(Answer)
      BY <3>1 DEF Input
    <3>3. LatestAnswer(t.inputs[i]) \in Answer
      BY <3>2, <2>6 DEF LatestAnswer, Last
    <3> QED BY <3>1, <3>3, RowBounds DEF Answer
  <2>9. j.assessed[a].decidedAt >= LatestAnswer(t.inputs[i]).at
    BY <2>4, <2>7, <2>8
  <2> QED BY <2>2, <2>3, <2>4, <2>5, <2>9 DEF ResolutionSatisfied
<1>10. PageQuestions(s) = {}
  <2>1. ASSUME NEW i \in PageQuestions(s)
        PROVE  FALSE
    <3>1. /\ i \in DOMAIN t.inputs /\ s.inputs[i].finding # 0 /\ IsCurrentInput(s, s.inputs[i])
          /\ s.inputs[i].state # "resolved"
      BY <1>6 DEF PageQuestions
    <3>2. i \notin Answered(j, p) /\ s.inputs[i] = t.inputs[i]
      BY <1>6, <3>1
    <3>3. i \in PageQuestions(t)
      BY <1>6, <1>7, <3>1, <3>2 DEF PageQuestions, IsCurrentInput, IsCurrent
    <3>4. v = "settled" /\ Provided(t.inputs[i])
      BY <3>3 DEF Offered, CompletionHeld, QuestionHold
    <3>5. t.inputs[i].finding = a
      BY <1>7, <3>1, <3>2 DEF IsCurrentInput
    <3>6. IsCurrentInput(j, t.inputs[i])
      BY <1>5, <1>6, <1>7, <3>1, <3>2 DEF IsCurrentInput, IsCurrent
    <3>7. InputResolution(j, p, t.inputs[i])
      BY <1>2, <3>1, <3>2, <3>4, <3>5 DEF InputResolution
    <3> QED BY <1>5, <3>1, <3>2, <3>4, <3>6, <3>7 DEF Answered
  <2> QED BY <2>1
<1>11. ApprovalBlockers(s) = {}
  <2>1. ~OutcomeMissing(s)
    BY <1>1, <1>6, <1>7 DEF OutcomeMissing
  <2>2. ~Stale(s) /\ CurrentAssessment(s) # 0
    BY <1>1, <1>6, <1>7 DEF Stale
  <2>3. s.request.area = "risk" => s.assessed[CurrentAssessment(s)].verdict = "settled"
    BY <1>1, <1>6, <1>7
  <2>4. ASSUME NEW b \in ApprovalBlockers(s)
        PROVE  FALSE
    BY <1>10, <2>1, <2>2, <2>3 DEF ApprovalBlockers
  <2> QED BY <2>4
<1>12. Reviewable(t)
  BY DEF Reviewable
<1>13. Accepts(t, p)
  BY <1>1, <1>2, <1>3, <1>9, <1>11, <1>12 DEF Accepts, s
<1> QED BY <1>13

------------------------------------------------------------------------------
(* The queues *)

\* Judging the area leaves a completed area settled.
LEMMA AreaStaysSettled ==
    ASSUME NEW t \in TableType, NEW p, IsPayload(t, p), AreaIsSettled(t),
           MayDecide(t, p), MayRecordOutcome(SaveDecision(t, p), p)
    PROVE  AreaIsSettled(Judged(t, p))
<1> DEFINE s == SaveDecision(t, p)
<1>1. AreaIsSettled(s) /\ s \in TableType
  <2>1. CASE p.verdict = "none"
    BY <2>1 DEF SaveDecision
  <2>2. CASE p.verdict # "none"
    <3>1. p.finding \in 1 .. Len(t.assessed) /\ p.verdict \in {"settled", "follow_up"}
      <4>1. Len(t.assessed) \in Nat
        BY DEF TableType
      <4> QED BY <2>2, <4>1 DEF IsPayload, MayDecide
    <3>2. DecidedOn(t, p, s)
      BY <3>1, FindingDecided
    <3> HIDE DEF s
    <3>3. CASE Reopens(t, p.verdict)
      <4>1. s.task = [state |-> "in_progress", of |-> 0]
        BY <3>2, <3>3, Zenon DEF DecidedOn
      <4> QED BY <3>2, <4>1 DEF DecidedOn, AreaMoved, AreaIsSettled
    <3>4. CASE ~Reopens(t, p.verdict)
      <4>1. s.task = [state |-> "completed", of |-> p.finding]
        BY <3>2, <3>4, Zenon DEF DecidedOn
      <4>2. p.verdict = "settled"
        BY <3>1, <3>4 DEF Reopens
      <4>3. s.task.of = p.finding
        BY <4>1
      <4> QED BY <3>2, <4>2, <4>3 DEF DecidedOn, AreaMoved, AreaIsSettled
    <3> QED BY <3>3, <3>4
  <2> QED BY <2>1, <2>2
<1>2. Judged(t, p) = RecordOutcome(s, p)
  BY DEF Judged
<1>3. p.outcome => AreaSettled(s)
  BY DEF MayRecordOutcome
<1> HIDE DEF s
<1>4. CASE ~p.outcome
  BY <1>1, <1>2, <1>4 DEF RecordOutcome
<1>5. CASE p.outcome
  <2> DEFINE job == [state |-> "completed", of |-> CurrentAssessment(s)]
             j == [s EXCEPT !.task = job]
  <2>1. Judged(t, p) = j
    BY <1>2, <1>5 DEF RecordOutcome
  <2>2. j.assessed = s.assessed /\ j.task = job
    BY <1>1 DEF TableType
  <2>3. job.of = CurrentAssessment(s)
    OBVIOUS
  <2> HIDE DEF j, job
  <2> QED BY <1>3, <1>5, <2>1, <2>2, <2>3 DEF AreaSettled, AreaIsSettled
<1> QED BY <1>4, <1>5 DEF IsPayload

\* The area and the stage after a recorded submission.
LEMMA SubmittedStaysSettled ==
    ASSUME NEW t, Sound(t), NEW p, IsPayload(t, p), Accepts(t, p), AreaIsSettled(t),
           t.request.version < MaxVersion
    PROVE  /\ AreaIsSettled(Submitted(t, p))
           /\ Completed(t.request) => Completed(Submitted(t, p).request)
<1> DEFINE j == Judged(t, p)
           d == Decided(t, p)
           s == Settled(t, p)
           e == Submitted(t, p)
<1>1. /\ AreaMoved(t, j) /\ PriorityMoved(j, d) /\ RowMoved(s, e)
      /\ Completed(t.request) => Completed(e.request)
  BY SubmissionIsTyped
<1>2. AreaIsSettled(j)
  BY AreaStaysSettled DEF Sound, Accepts
<1>3. s = SettleAnsweredInputs(d, Answered(d, p))
  BY DEF Settled
<1> HIDE DEF j, d, s, e
<1>4. d.task = j.task /\ d.assessed = j.assessed /\ d \in TableType
  BY <1>1 DEF PriorityMoved
<1>5. s.task = d.task /\ s.assessed = d.assessed
  BY <1>3, <1>4, QuestionsSettled
<1>6. e.task = j.task /\ e.assessed = j.assessed
  BY <1>1, <1>4, <1>5 DEF RowMoved
<1>7. AreaIsSettled(e)
  BY <1>2, <1>6 DEF AreaIsSettled
<1> QED BY <1>1, <1>7 DEF e

\* Reviewers' and contributors' steps never leave a completed area unsettled, nor
\* take a completion back.
LEMMA ReviewKeepsArea ==
    ASSUME IInv, AreaIsSettled(Tables), ContributionNext
    PROVE  AreaIsSettled(Tables') /\ (Completed(request) => Completed(request'))
<1>0. Tables \in TableType /\ Sound(Tables) /\ request \in RequestType /\ SentIsWork
  BY DEF IInv, Sound, DeliveryTypeOK
<1>1. ASSUME task' = task, assessed' = assessed, request'.stage = request.stage
      PROVE  AreaIsSettled(Tables') /\ (Completed(request) => Completed(request'))
  BY <1>1 DEF AreaIsSettled, Tables, Completed
<1>2. Bumped(request).stage = request.stage
  BY <1>0 DEF Bumped, RequestType
<1>3. ASSUME NEW page \in Pages, Send(page) \/ Reload(page)
      PROVE  task' = task /\ assessed' = assessed /\ request' = request
  BY <1>3 DEF Send, Reload, tables
<1>4. ASSUME NEW page \in Pages, Submit(page)
      PROVE  AreaIsSettled(Tables') /\ (Completed(request) => Completed(request'))
  <2> DEFINE p == sent[page].payload
             e == Submitted(Tables, p)
  <2>1. /\ IF Reply(page, sent[page]) = "recorded" THEN Commit(e) ELSE UNCHANGED tables
        /\ sent[page] # Nothing /\ request.version < MaxVersion
    BY <1>4 DEF Submit, lockRequest
  <2>2. CASE Reply(page, sent[page]) = "recorded"
    <3>1. Accepts(Tables, p) /\ Payload(p)
      <4>1. Payload(p) /\ p # NoWork
        BY <1>0, <2>1 DEF SentIsWork, HasWork
      <4>2. Accepts(Tables, p)
        BY <2>2, <4>1 DEF Reply
      <4> QED BY <4>1, <4>2
    <3>2. IsPayload(Tables, p)
      <4>1. ASSUME NEW f \in DOMAIN p.factors
            PROVE  p.factors[f].action \in {"adopt", "replace", "reject"}
                   /\ p.factors[f].proposal \in Nat
        <5>1. Len(proposals) \in Nat
          BY <1>0, TablesTyped
        <5> QED BY <3>1, <5>1 DEF Payload, Choice
      <4> QED BY <3>1, <4>1, TablesOf DEF Payload, IsPayload, IsChoice
    <3>3. Tables.request.version < MaxVersion
      BY <2>1, TablesOf
    <3> HIDE DEF p
    <3>4. AreaIsSettled(e) /\ (Completed(Tables.request) => Completed(e.request))
      BY <1>0, <3>1, <3>2, <3>3, SubmittedStaysSettled
    <3>5. e \in TableType
      BY <1>0, <3>1, <3>2, <3>3, SubmissionIsSound DEF Sound
    <3> HIDE DEF e
    <3>6. Commit(e)
      BY <2>1, <2>2
    <3>7. Tables' = e /\ request' = e.request
      BY <3>5, <3>6, CommitIsTables DEF Commit
    <3> QED BY <3>4, <3>7, TablesOf
  <2>3. CASE Reply(page, sent[page]) # "recorded"
    BY <1>1, <2>1, <2>3 DEF tables
  <2> QED BY <2>2, <2>3
<1>5. ASSUME NEW factor \in Factors \cup {None}, NEW audience \in {"internal", "requester"},
             NEW assignee \in People \cup {None}, Ask(factor, audience, assignee)
      PROVE  task' = task /\ assessed' = assessed /\ request' = Bumped(request)
  BY <1>5 DEF Ask
<1>6. ASSUME NEW i \in DOMAIN inputs, NEW assignee \in People \cup {None}, Assign(i, assignee)
      PROVE  task' = task /\ assessed' = assessed /\ request' = Bumped(request)
  BY <1>6 DEF Assign
<1>7. ASSUME NEW i \in DOMAIN inputs, NEW useful \in BOOLEAN, NEW estimate \in BOOLEAN,
             AnswerInput(i, useful, estimate)
      PROVE  task' = task /\ assessed' = assessed /\ request' = Bumped(request)
  BY <1>7 DEF AnswerInput
<1>8. ASSUME SaveRiceScore
      PROVE  task' = task /\ assessed' = assessed /\ request'.stage = request.stage
  <2> DEFINE chosen == [f \in Factors |-> [action |-> "replace", proposal |-> 0]]
             d == ApplyPriorityDecisions(Tables, chosen)
             e == Bump(d)
  <2>1. Commit(e) /\ request.version < MaxVersion
    BY <1>8 DEF SaveRiceScore, lockUnresolvedRequest, lockRequest
  <2>2. IsChoice(chosen)
    BY DEF IsChoice
  <2>3. PriorityMoved(Tables, d)
    <3> HIDE DEF chosen
    <3> QED BY <1>0, <2>2, PriorityDecided DEF Sound
  <2> HIDE DEF d
  <2>4. d \in TableType /\ d.request.version = request.version
        /\ d.request.stage = request.stage /\ d.task = task /\ d.assessed = assessed
    BY <1>0, <2>3, TablesOf DEF PriorityMoved, RequestType
  <2>5. RowMoved(d, e) /\ e.request.stage = d.request.stage
    BY <2>1, <2>4, RowBumped
  <2> HIDE DEF e
  <2> QED BY <2>1, <2>4, <2>5 DEF Commit, RowMoved
<1>9. ASSUME SettleAssessment
      PROVE  AreaIsSettled(Tables') /\ (Completed(request) => Completed(request'))
  <2>1. task'.state = "pending" /\ request' = request
    BY <1>9 DEF SettleAssessment
  <2> QED BY <2>1 DEF AreaIsSettled, Tables
<1>10. ASSUME ChangeCatalog
       PROVE  task' = task /\ assessed' = assessed /\ request' = request
  BY <1>10 DEF ChangeCatalog
<1>11. ASSUME AnswerClarification
       PROVE  AreaIsSettled(Tables') /\ (Completed(request) => Completed(request'))
  <2>1. task \in Task
    BY <1>0, TablesTyped
  <2>2. task'.state = "pending"
    BY <1>11, <2>1 DEF AnswerClarification, Task
  <2>3. ~Completed(request)
    BY <1>11, TablesOf DEF AnswerClarification, Reviewable
  <2> QED BY <2>2, <2>3 DEF AreaIsSettled, Tables
<1> QED BY <1>1, <1>2, <1>3, <1>4, <1>5, <1>6, <1>7, <1>8, <1>9, <1>10, <1>11
        DEF ContributionNext

\* Every step keeps what the agreement rests on.
LEMMA AgreementIsKept ==
    ASSUME IInv, AgreementInv, [Next]_vars
    PROVE  AgreementInv'
<1>1. CASE ReviewStep
  <2>1. AreaIsSettled(Tables') /\ (Completed(request) => Completed(request'))
    BY <1>1, ReviewKeepsArea DEF ReviewStep, AgreementInv
  <2>2. IF Completed(request') /\ ~Completed(request) THEN handoff' = "intended"
        ELSE handoff' = handoff
    BY <1>1 DEF ReviewStep, IntendHandoff, deliveryVars
  <2>3. Completed(request') <=> handoff' # "none"
    BY <2>1, <2>2 DEF AgreementInv, HandoffFollowsCompletion
  <2> QED BY <2>1, <2>3 DEF AgreementInv, HandoffFollowsCompletion
<1>2. CASE DeliveryStep
  <2>1. request \in RequestType
    BY DEF IInv, DeliveryTypeOK
  <2>2. request'.stage = request.stage
    BY <1>2, <2>1 DEF DeliveryStep, DeliveryNext, FailHandoff, ConfirmHandoff, LinkWorkItem,
                      UpdateWorkItemStatus, Age, JudgeResolution, CommitResolution,
                      CloseWithoutFulfillment, Bumped, RequestType
  <2>3. handoff' # "none" <=> handoff # "none"
    BY <1>2 DEF DeliveryStep, DeliveryNext, FailHandoff, ConfirmHandoff, LinkWorkItem,
                UpdateWorkItemStatus, Age, JudgeResolution, CommitResolution,
                CloseWithoutFulfillment, deliveryVars
  <2>4. task' = task /\ assessed' = assessed
    BY <1>2 DEF DeliveryStep, contributionVars
  <2> QED BY <2>2, <2>3, <2>4 DEF AgreementInv, HandoffFollowsCompletion, AreaIsSettled, Tables,
                                  Completed
<1>3. CASE UNCHANGED vars
  BY <1>3 DEF vars, contributionVars, deliveryVars, AgreementInv, HandoffFollowsCompletion,
              AreaIsSettled, Tables
<1> QED BY <1>1, <1>2, <1>3 DEF Next

LEMMA AgreementStarts == Init => AgreementInv
<1>1. StartInReview => AgreementInv
  BY DEF StartInReview, ContributionInit, AgreementInv, HandoffFollowsCompletion, AreaIsSettled,
         Tables, Row, Completed
<1>2. StartInDelivery => AgreementInv
  BY DEF StartInDelivery, AgreementInv, HandoffFollowsCompletion, AreaIsSettled,
         Tables, Row, Completed
<1> QED BY <1>1, <1>2 DEF Init

\* A submission that only completes changes nothing that its blockers look at.
LEMMA CompletionAlone ==
    ASSUME NEW t, Sound(t)
    PROVE  Accepts(t, Completion) <=> Reviewable(t) /\ ApprovalBlockers(t) = {}
<1> DEFINE p == Completion
           s == Settled(t, p)
<1>1. /\ p.verdict = "none" /\ p.finding = 0 /\ p.outcome = FALSE /\ DOMAIN p.factors = {}
      /\ p.complete = TRUE
  BY DEF Completion, NoWork, NoDraft
<1>2. t \in TableType
  BY DEF Sound
<1> HIDE DEF p
<1>3. SaveDecision(t, p) = t /\ Judged(t, p) = t /\ Decided(t, p) = t
  BY <1>1 DEF SaveDecision, Judged, RecordOutcome, Decided, ApplyPriorityDecisions
<1>4. Answered(t, p) = {}
  BY <1>1 DEF Answered, InputResolution
<1>5. s = SettleAnsweredInputs(t, {})
  BY <1>3, <1>4 DEF Settled
<1> HIDE DEF s
<1>6. /\ s.request = t.request /\ s.assessed = t.assessed /\ s.selected = t.selected
      /\ s.task = t.task /\ DOMAIN s.inputs = DOMAIN t.inputs
      /\ \A i \in DOMAIN t.inputs : s.inputs[i] = t.inputs[i]
  BY <1>2, <1>5, QuestionsSettled
<1>7. CurrentAssessment(s) = CurrentAssessment(t) /\ (Stale(s) <=> Stale(t))
  <2>1. Preferred(s) = Preferred(t)
    BY <1>6 DEF Preferred, Newest
  <2>2. CurrentAssessment(s) = CurrentAssessment(t)
    BY <1>6, <2>1 DEF CurrentAssessment
  <2> QED BY <1>6, <2>2 DEF Stale
<1>8. \A i \in DOMAIN t.inputs : IsCurrentInput(s, s.inputs[i]) <=> IsCurrentInput(t, t.inputs[i])
  BY <1>6, <1>7 DEF IsCurrentInput, IsCurrent
<1>9. OutcomeMissing(s) <=> OutcomeMissing(t)
  BY <1>6, <1>7 DEF OutcomeMissing
<1>10. ApprovalBlockers(s) = {} <=> ApprovalBlockers(t) = {}
  <2>1. PageQuestions(s) = PageQuestions(t)
    BY <1>6, <1>8 DEF PageQuestions
  <2>2. \A b : b \in ApprovalBlockers(s) <=> b \in ApprovalBlockers(t)
    BY <1>6, <1>7, <1>9, <2>1 DEF ApprovalBlockers
  <2> QED BY <2>2
<1>11. MayDecide(t, p) /\ MayRecordOutcome(t, p)
  BY <1>1 DEF MayDecide, MayRecordOutcome
<1> QED BY <1>1, <1>3, <1>4, <1>10, <1>11 DEF Accepts, p, s

\* When nothing blocks the approval.
LEMMA NothingBlocks ==
    ASSUME NEW t, Sound(t), AreaIsSettled(t)
    PROVE  ApprovalBlockers(t) = {} <=>
              /\ CurrentAssessment(t) # 0 /\ ~Stale(t) /\ PageQuestions(t) = {}
              /\ t.task.state = "completed" /\ t.task.of = CurrentAssessment(t)
<1> DEFINE a == CurrentAssessment(t)
<1>1. ASSUME ApprovalBlockers(t) = {}
      PROVE  /\ a # 0 /\ ~Stale(t) /\ PageQuestions(t) = {}
             /\ t.task.state = "completed" /\ t.task.of = a
  <2> DEFINE job == [state |-> "completed", of |-> a]
  <2>1. a # 0 /\ ~Stale(t) /\ PageQuestions(t) = {} /\ t.task = job
    BY <1>1, BlockersAreQuestions
  <2>2. job.state = "completed" /\ job.of = a
    OBVIOUS
  <2> HIDE DEF job
  <2> QED BY <2>1, <2>2
<1>2. ASSUME a # 0, ~Stale(t), PageQuestions(t) = {}, t.task.state = "completed", t.task.of = a
      PROVE  ApprovalBlockers(t) = {}
  <2>1. t.assessed[a].verdict = "settled"
    BY <1>2 DEF AreaIsSettled
  <2>2. t.task = [state |-> "completed", of |-> a]
    <3>1. t.task \in Task
      BY DEF Sound, TableType
    <3> QED BY <1>2, <3>1 DEF Task
  <2>3. ~OutcomeMissing(t)
    BY <2>2 DEF OutcomeMissing
  <2> QED BY <1>2, <2>1, <2>3 DEF ApprovalBlockers
<1> QED BY <1>1, <1>2

\* The questions of the snapshot are those that block the approval.
LEMMA AreaInputsBlock ==
    ASSUME Sound(Tables)
    PROVE  RequestBundle.areaInputs = PageQuestions(Tables)
<1>1. \A i \in DOMAIN inputs : (inputs[i].factor = None) <=> (inputs[i].finding # 0)
  BY TablesOf DEF Sound, QuestionsAreFramed
<1>2. RequestBundle.areaInputs = {i \in inputRequestFacts(Tables) : inputs[i].factor = None}
  BY DEF RequestBundle
<1>3. \A i : i \in RequestBundle.areaInputs <=> i \in PageQuestions(Tables)
  BY <1>1, <1>2, TablesOf DEF inputRequestFacts, PageQuestions
<1> QED BY <1>3

\* What the queues derive is what the workflow accepts.
LEMMA QueueAgrees ==
    ASSUME IInv, AgreementInv
    PROVE  ActionNeededIsAccepted
<1> DEFINE b == RequestBundle
           c == CurrentAssessment(Tables)
           action == deriveAction(b)
<1>1. Sound(Tables) /\ AreaIsSettled(Tables) /\ (Completed(request) <=> handoff # "none")
      /\ handoff \in {"none", "intended", "failed", "confirmed"}
      /\ request.resolution \in {"none", "fulfilled", "closed"}
  BY DEF IInv, AgreementInv, HandoffFollowsCompletion, DeliveryTypeOK, RequestType
<1>2. /\ b.base = request /\ b.events.handoff = handoff /\ b.events.resolution = request.resolution
      /\ b.tasks = task /\ b.areaInputs = PageQuestions(Tables) /\ b.links = workLinkFacts
      /\ b.assessments.id = c /\ b.assessments.stale = Stale(Tables)
  <2>1. b.areaInputs = PageQuestions(Tables)
    BY <1>1, AreaInputsBlock
  <2> QED BY <2>1, TablesOf DEF RequestBundle, eventFacts, assessmentFacts
<1>3. Accepts(Tables, Completion) <=>
          /\ ~Completed(request) /\ c # 0 /\ ~Stale(Tables) /\ PageQuestions(Tables) = {}
          /\ task.state = "completed" /\ task.of = c
  BY <1>1, CompletionAlone, NothingBlocks, TablesOf DEF Reviewable
<1>4. deliveryAction(b) = "record_outcome" <=> \A i \in Required : Done(items[i])
  BY <1>2 DEF deliveryAction, workLinkFacts, Required, Done
<1> HIDE DEF b, c
<1>6. deliveryAction(b) \in {"record_outcome", "monitor_delivery"}
  BY DEF deliveryAction
<1>7. CASE request.resolution # "none"
  <2>1. action = "none"
    BY <1>2, <1>7 DEF deriveAction, derivePhase, settledPhase
  <2> QED BY <1>7, <2>1 DEF ActionNeededIsAccepted, Unresolved, b
<1>8. CASE request.resolution = "none" /\ handoff = "confirmed"
  <2>1. action = deliveryAction(b)
    BY <1>2, <1>8 DEF deriveAction, derivePhase, settledPhase
  <2>2. Completed(request) /\ ~Accepts(Tables, Completion)
    BY <1>1, <1>3, <1>8
  <2> QED BY <1>4, <1>6, <1>8, <2>1, <2>2 DEF ActionNeededIsAccepted, Unresolved, Fulfillable, b
<1>9. CASE request.resolution = "none" /\ handoff # "confirmed" /\ Completed(request)
  <2>1. handoff \in {"intended", "failed"}
    BY <1>1, <1>9
  <2>2. action \in {"execute_handoff", "retry_handoff"}
    BY <1>2, <1>9 DEF deriveAction, derivePhase, settledPhase
  <2>3. ~Accepts(Tables, Completion) /\ ~Fulfillable
    BY <1>3, <1>9 DEF Fulfillable
  <2> QED BY <1>9, <2>1, <2>2, <2>3 DEF ActionNeededIsAccepted, Unresolved, b
<1>10. CASE request.resolution = "none" /\ ~Completed(request)
  <2>1. handoff = "none" /\ ~Fulfillable
    BY <1>1, <1>10 DEF Fulfillable
  <2>2. action = IF b.assessments.id # 0 THEN reviewAction(b) ELSE "wait_for_preparation"
    BY <1>2, <1>10, <2>1 DEF deriveAction, derivePhase, settledPhase
  <2>3. reviewAction(b) = "complete_first_review" <=>
            ~b.assessments.stale /\ areaReviewed(b) /\ b.areaInputs = {}
    BY DEF reviewAction
  <2>4. areaReviewed(b) <=> task.state = "completed" /\ c # 0 /\ task.of = c
    BY <1>2 DEF areaReviewed, areaCompleted
  <2>5. action = "complete_first_review" <=> Accepts(Tables, Completion)
    BY <1>2, <1>3, <1>10, <2>2, <2>3, <2>4
  <2>6. action \notin {"execute_handoff", "retry_handoff", "record_outcome"}
    BY <2>2 DEF reviewAction
  <2> QED BY <1>10, <2>1, <2>5, <2>6 DEF ActionNeededIsAccepted, Unresolved, b
<1> QED BY <1>1, <1>7, <1>8, <1>9, <1>10

------------------------------------------------------------------------------
(* Theorems *)

\* Everything the tables rely on holds throughout: through submissions that
\* arrive late or twice, answers, revisions, other assessments, the handoff and
\* the resolution (review-submission.ts, review-inputs.ts, priority.ts, delivery.ts).
THEOREM InductiveInvariant == Spec => []IInv
<1>1. Init => IInv
  BY ReviewStarts, DeliveryStarts DEF Init
<1>2. IInv /\ [Next]_vars => IInv'
  BY NextIsSound
<1> QED BY <1>1, <1>2, PTL DEF Spec

\* Every row keeps its declared shape.
THEOREM RowsStayTyped == Spec => []TypeOK
<1>1. IInv => TypeOK
  <2> SUFFICES ASSUME IInv
               PROVE  TypeOK
    OBVIOUS
  <2>1. Tables \in TableType /\ Sound(Tables) /\ DeliveryTypeOK /\ SentIsWork
    BY DEF IInv, Sound
  <2>2. /\ request \in RequestType /\ proposals \in Seq(Proposal) /\ decisions \in Seq(Decision)
        /\ scores \in Seq([Factors -> Estimate]) /\ inputs \in Seq(Input)
        /\ assessed \in Seq(Assessment) /\ selected \in Nat /\ task \in Task
    BY <2>1, TablesTyped
  <2>3. /\ \A i \in DOMAIN proposals : proposals[i] \in Proposal
        /\ \A i \in DOMAIN decisions : decisions[i] \in Decision
        /\ \A i \in DOMAIN assessed : assessed[i] \in Assessment
    BY <2>2
  <2>4. \A i \in DOMAIN scores : \A f \in Factors : scores[i][f] \in Estimate
    <3>1. \A i \in DOMAIN scores : scores[i] \in [Factors -> Estimate]
      BY <2>2
    <3> QED BY <3>1
  <2>5. \A i \in DOMAIN inputs : inputs[i].state \in {"open", "answered", "resolved"}
    <3>1. \A i \in DOMAIN inputs : inputs[i] \in Input
      BY <2>2
    <3> QED BY <3>1 DEF Input
  <2>6. request.score \in 0 .. Len(scores)
    <3>1. request.score \in Nat /\ Len(scores) \in Nat
      BY <2>2 DEF RequestType
    <3> QED BY <2>1, <3>1, TablesOf DEF Sound, ScoreExists
  <2>7. selected \in 0 .. Len(assessed)
    <3>1. Len(assessed) \in Nat
      BY <2>2
    <3> QED BY <2>1, <2>2, <3>1, TablesOf DEF Sound, SelectedIsCurrent
  <2>8. \A page \in Pages : sent[page].version \in 0 .. MaxVersion /\ Payload(sent[page].payload)
    BY <2>1 DEF SentIsWork
  <2> QED BY <2>1, <2>2, <2>3, <2>4, <2>5, <2>6, <2>7, <2>8 DEF TypeOK
<1> QED BY <1>1, InductiveInvariant, PTL

\* The score shown is always the snapshot of the factors as they are decided now,
\* whatever was decided, asked or answered since it was taken, and whichever
\* revision the request is at (saveSnapshotIfComplete, factorView).
THEOREM ScoresAreOfTheirFactors == Spec => []ScoreMatchesFactors
<1>1. IInv => ScoreMatchesFactors
  BY TablesOf DEF IInv, Sound, ScoreIsOfFactors, ScoreMatchesFactors
<1> QED BY <1>1, InductiveInvariant, PTL

\* No question is ever settled by a judgment older than its latest answer, and a
\* question about a factor only by a decision that takes the estimate of that answer.
THEOREM QuestionsAreSettledByJudgment == Spec => []ResolvedInputRestsOnLaterJudgment
<1>1. IInv => ResolvedInputRestsOnLaterJudgment
  <2>1. IInv => ResolvedByJudgment(Tables)
    BY DEF IInv, Sound
  <2> QED BY <2>1, TablesOf DEF ResolvedByJudgment, ResolvedInputRestsOnLaterJudgment
<1> QED BY <1>1, InductiveInvariant, PTL

\* What the page offers to complete is accepted by the server if nothing moved, in
\* either area, but for a draft that reopens an area with nothing missing
\* (completionHold, approvalBlockers, submitAssessmentInTx).
THEOREM OffersAreAccepted == Spec => []OfferedCompletionIsAccepted
<1>1. IInv => OfferedCompletionIsAccepted
  <2> SUFFICES ASSUME IInv, Reviewable(Tables), NEW verdict \in Verdicts(Tables),
                      ~CompletionHeld(Tables, verdict),
                      ~(ApprovalBlockers(Tables) = {} /\ verdict # "none"
                        /\ Reopens(Tables, verdict))
               PROVE  Accepts(Tables, Assembled(Tables, verdict, NoDraft, TRUE))
    BY DEF OfferedCompletionIsAccepted
  <2>1. Offered(Tables, verdict)
    BY DEF Offered
  <2> QED BY <2>1, OfferedIsAccepted DEF IInv, Reviewable
<1> QED BY <1>1, InductiveInvariant, PTL

\* A completed review has no open question about the evidence it rests on, whatever
\* the catalog selects later (selectCurrentAssessment).
THEOREM CompletionLeavesNothingOpen == Spec => []CompletedReviewLeavesNoOpenQuestion
<1>1. IInv => CompletedReviewLeavesNoOpenQuestion
  BY TablesOf DEF IInv, Sound, CompletionIsSettled, CompletedReviewLeavesNoOpenQuestion
<1> QED BY <1>1, InductiveInvariant, PTL

\* A fulfilled request was judged on every required link it has (resolveRequest).
THEOREM FulfilmentIsComplete == Spec => []FulfilmentJudgedAllRequired
<1>1. IInv => FulfilmentJudgedAllRequired
  BY DEF IInv, ResolutionIsJudged, FulfilmentJudgedAllRequired
<1> QED BY <1>1, InductiveInvariant, PTL

\* After a resolution no step of anyone changes the request, what was decided or
\* asked about it, or its links and handoff (requireUnresolved).
THEOREM ResolutionIsFinal == Spec => NothingMovesAfterResolution
<1> DEFINE Frozen == UNCHANGED <<request, proposals, decisions, scores, inputs, handoff, links,
                                 judged>>
<1>1. ASSUME IInv, [Next]_vars, request.resolution # "none"
      PROVE  Frozen
  <2>0. ~Unresolved /\ ~request.resolving
    BY <1>1 DEF IInv, ResolutionIsJudged, Unresolved
  <2>1. CASE ReviewStep
    <3>1. UNCHANGED <<request, proposals, decisions, scores, inputs>>
      <4>1. CASE \E page \in Pages : Send(page) \/ Reload(page)
        BY <4>1 DEF Send, Reload, tables
      <4>2. ASSUME NEW page \in Pages, Submit(page)
            PROVE  UNCHANGED <<request, proposals, decisions, scores, inputs>>
        <5>1. sent[page].payload # NoWork
          BY <1>1, <4>2 DEF IInv, SentIsWork, HasWork, Submit
        <5>2. Reply(page, sent[page]) # "recorded"
          BY <2>0, <5>1 DEF Reply
        <5>3. UNCHANGED tables
          BY <4>2, <5>2 DEF Submit
        <5> QED BY <5>3 DEF tables
      <4>3. CASE \/ \E factor \in Factors \cup {None}, audience \in {"internal", "requester"},
                      assignee \in People \cup {None} : Ask(factor, audience, assignee)
                 \/ \E i \in DOMAIN inputs :
                       \/ \E assignee \in People \cup {None} : Assign(i, assignee)
                       \/ \E useful, estimate \in BOOLEAN : AnswerInput(i, useful, estimate)
                 \/ SaveRiceScore \/ AnswerClarification
        BY <2>0, <4>3 DEF Ask, Assign, AnswerInput, SaveRiceScore, AnswerClarification,
                         lockUnresolvedRequest
      <4>4. CASE SettleAssessment \/ ChangeCatalog
        BY <4>4 DEF SettleAssessment, ChangeCatalog
      <4> QED BY <2>1, <4>1, <4>2, <4>3, <4>4 DEF ReviewStep, ContributionNext
    <3>2. UNCHANGED deliveryVars
      BY <2>1, <3>1 DEF ReviewStep
    <3> QED BY <3>1, <3>2 DEF deliveryVars
  <2>2. CASE DeliveryStep
    <3>1. UNCHANGED <<request, handoff, links, judged>>
      BY <2>0, <2>2 DEF DeliveryStep, DeliveryNext, FailHandoff, ConfirmHandoff, LinkWorkItem,
                        UpdateWorkItemStatus, Age, JudgeResolution, CommitResolution,
                        CloseWithoutFulfillment, lockUnresolvedRequest
    <3> QED BY <2>2, <3>1 DEF DeliveryStep, contributionVars
  <2>3. CASE UNCHANGED vars
    BY <2>3 DEF vars, contributionVars, deliveryVars
  <2> QED BY <1>1, <2>1, <2>2, <2>3 DEF Next
<1>2. IInv /\ [Next]_vars => [request.resolution # "none" => Frozen]_vars
  BY <1>1
<1> QED BY <1>2, InductiveInvariant, PTL DEF Spec, NothingMovesAfterResolution

\* The queues ask for a completion, a handoff or an outcome exactly when the
\* workflow accepts one, though each decides by code of its own (deriveAction;
\* approvalBlockers, executeHandoff, resolutionBlockers).
THEOREM QueuesAskForWhatIsAccepted == Spec => []ActionNeededIsAccepted
<1>1. Init => AgreementInv
  BY AgreementStarts
<1>2. IInv /\ AgreementInv /\ [Next]_vars => AgreementInv'
  BY AgreementIsKept
<1>3. IInv /\ AgreementInv => ActionNeededIsAccepted
  BY QueueAgrees
<1> QED BY <1>1, <1>2, <1>3, InductiveInvariant, PTL DEF Spec
==============================================================================
