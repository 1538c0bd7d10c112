----------------------------- MODULE CatalogProofs -----------------------------
(* Proofs about Catalog, for every value of its constants: any fields and   *)
(* values, any number of stewards and of changes.                           *)
EXTENDS Catalog, FiniteSetTheorems, TLAPS

Decision == [version : Nat \ {0}, field : Fields, value : UNION {Value[f] : f \in Fields}]

------------------------------------------------------------------------------
(* Rows *)

\* A row is never the value that stands for no row.
LEMMA RowsAreNotNone ==
    /\ \A i \in Item : i # None
    /\ \A c \in Conflict : c # None
    /\ \A f \in Form : f # None
    /\ \A z \in Seed : z # None
BY NoneIsNoRow

\* The parts of a state that TypeOK names, for the items that exist.
LEMMA ItemParts ==
    ASSUME TypeOK, item # None
    PROVE  /\ item \in Item
           /\ item.publication \in {"draft", "published", "retired"}
           /\ item.version \in Nat /\ item.row \in Nat /\ item.values \in Values
BY DEF TypeOK, Item

LEMMA ConflictParts ==
    ASSUME TypeOK, conflict # None
    PROVE  /\ conflict \in Conflict
           /\ conflict.state \in ConflictStates /\ conflict.evidence \in Nat
           /\ conflict.row \in Nat /\ conflict.resolution \in Nat
BY DEF TypeOK, Conflict

LEMMA FormParts ==
    ASSUME TypeOK, NEW s \in Stewards, form[s] # None
    PROVE  /\ form[s] \in Form
           /\ form[s].what \in {"item", "conflict"} /\ form[s].row \in Nat
           /\ form[s].values \in Values /\ form[s].conflict \in Conflict \cup {None}
BY DEF TypeOK, Form

\* The fields that govern approval and publication are fields.
LEMMA FieldsAreFields ==
    /\ "approvalStatus" \in Material /\ "approvalStatus" \in Decided
    /\ "approvalStatus" \in Fields
    /\ Material \subseteq Decided /\ Decided \subseteq Fields /\ Material \subseteq Fields
BY CatalogAssumption

------------------------------------------------------------------------------
(* Decisions *)

\* DecisionsOf writes one decision per changed field, at one version.
LEMMA DecisionsOfChanges ==
    ASSUME NEW version \in Nat \ {0}, NEW changes, DOMAIN changes \subseteq Fields,
           \A f \in DOMAIN changes : changes[f] \in UNION {Value[g] : g \in Fields}
    PROVE  /\ DecisionsOf(version, changes) \subseteq Decision
           /\ \A d \in DecisionsOf(version, changes) : d.version = version
           /\ DOMAIN changes # {} => \E d \in DecisionsOf(version, changes) : d.version = version
<1> DEFINE decision(f) == [version |-> version, field |-> f, value |-> changes[f]]
<1>1. \A f \in DOMAIN changes : decision(f) \in Decision /\ decision(f).version = version
  BY DEF Decision
<1>2. DecisionsOf(version, changes) = {decision(f) : f \in DOMAIN changes}
  BY DEF DecisionsOf
<1> HIDE DEF decision
<1> QED BY <1>1, <1>2

\* The evidence carried to a version is at that version.
LEMMA CarriedDecisions ==
    ASSUME TypeOK, NEW version \in Nat \ {0}, NEW changes
    PROVE  /\ Carried(version, changes) \subseteq Decision
           /\ \A d \in Carried(version, changes) : d.version = version
<1> DEFINE parents == UNION {ActiveAt(f, item.version) : f \in Fields \ DOMAIN changes}
<1>1. parents \subseteq Decision
  BY DEF ActiveAt, TypeOK, Decision
<1>2. Carried(version, changes) = {[p EXCEPT !.version = version] : p \in parents}
  BY DEF Carried
<1>3. \A p \in parents : /\ [p EXCEPT !.version = version] \in Decision
                         /\ [p EXCEPT !.version = version].version = version
  BY <1>1 DEF Decision
<1> HIDE DEF parents
<1> QED BY <1>2, <1>3

\* maxDecisionVersion: the next version is newer than any decision or content.
LEMMA NextVersionIsNew ==
    ASSUME TypeOK, item # None, NewestVersionExists, ContentIsRecorded
    PROVE  /\ NextVersion(item.version) \in Nat \ {0, 1}
           /\ \A v \in VersionsTaken : v < NextVersion(item.version)
           /\ \A c \in contents : c.version < NextVersion(item.version)
<1> DEFINE taken == {d.version : d \in decisions} \cup {item.version}
           newest == CHOOSE v \in taken : \A w \in taken : w <= v
<1>1. item.version \in Nat \ {0}
  BY ItemParts DEF ContentIsRecorded, Content, TypeOK
<1>2. taken \subseteq Nat \ {0}
  BY <1>1 DEF TypeOK
<1>3. PICK top \in VersionsTaken : /\ \A v \in VersionsTaken : v <= top
                                   /\ \A c \in contents : c.version <= top
  BY DEF NewestVersionExists
<1>4. VersionsTaken \subseteq Nat \ {0}
  BY DEF VersionsTaken, TypeOK
<1>5. item.version <= top
  BY <1>3, ItemParts DEF ContentIsRecorded, Content
<1>6. \E v \in taken : \A w \in taken : w <= v
  <2>1. CASE top \in {d.version : d \in decisions}
    BY <2>1, <1>3, <1>5 DEF VersionsTaken
  <2>2. CASE top = 1
    <3>1. \A w \in taken : w <= item.version
      BY <1>1, <1>2, <1>3, <2>2 DEF VersionsTaken
    <3> QED BY <3>1
  <2> QED BY <2>1, <2>2 DEF VersionsTaken
<1>7. newest \in taken /\ \A w \in taken : w <= newest
  BY <1>6
<1>8. NextVersion(item.version) = newest + 1
  BY DEF NextVersion
<1> HIDE DEF newest
<1>9. top <= newest
  <2>1. CASE top = 1
    BY <2>1, <1>2, <1>7
  <2>2. CASE top \in {d.version : d \in decisions}
    BY <2>2, <1>7
  <2> QED BY <2>1, <2>2 DEF VersionsTaken
<1> HIDE DEF taken
<1>10. \A c \in contents : c.version \in Nat
  BY DEF TypeOK
<1> QED BY <1>2, <1>3, <1>4, <1>7, <1>8, <1>9, <1>10

\* A form's change names at least one field.
LEMMA ChangesAreChanges ==
    ASSUME NEW changes \in Changes, ValidChange(changes)
    PROVE  /\ DOMAIN changes \subseteq Fields /\ DOMAIN changes # {}
           /\ \A f \in DOMAIN changes : changes[f] \in UNION {Value[g] : g \in Fields}
<1>1. PICK fields \in SUBSET Fields :
          /\ Cardinality(fields) \in 1 .. MaxChanged
          /\ changes \in [fields -> UNION {Value[f] : f \in fields}]
  BY DEF Changes
<1>2. fields # {}
  BY <1>1, FS_EmptySet, CatalogAssumption
<1>3. DOMAIN changes = fields
  BY <1>1
<1> QED BY <1>1, <1>2, <1>3 DEF ValidChange

\* A revision writes a draft under a version nothing had, its decisions at that version.
LEMMA RevisionIsNew ==
    ASSUME TypeOK, item # None, NewestVersionExists, ContentIsRecorded,
           NEW changes \in Changes, ValidChange(changes), Revision(changes)
    PROVE  /\ item' \in Item /\ item'.publication = "draft" /\ item'.row = item.row + 1
           /\ item'.version \in Nat \ {0, 1}
           /\ \A v \in VersionsTaken : v < item'.version
           /\ \A c \in contents : c.version < item'.version
           /\ decisions \subseteq decisions' /\ decisions' \subseteq Decision
           /\ \A d \in decisions' \ decisions : d.version = item'.version
           /\ \E d \in decisions' : d.version = item'.version
<1> DEFINE n == NextVersion(item.version)
<1>1. /\ n \in Nat \ {0, 1}
      /\ \A v \in VersionsTaken : v < n
      /\ \A c \in contents : c.version < n
  BY NextVersionIsNew
<1>2. /\ DOMAIN changes \subseteq Fields /\ DOMAIN changes # {}
      /\ \A f \in DOMAIN changes : changes[f] \in UNION {Value[g] : g \in Fields}
  BY ChangesAreChanges
<1>3. /\ decisions' = decisions \cup DecisionsOf(n, changes) \cup Carried(n, changes)
      /\ item' = [publication |-> "draft", version |-> n, row |-> item.row + 1,
                  values |-> [f \in Fields |-> IF f \in DOMAIN changes THEN changes[f]
                                                                      ELSE item.values[f]]]
  BY DEF Revision
<1>4. n \in Nat \ {0}
  BY <1>1
<1> HIDE DEF n
<1>5. [f \in Fields |-> IF f \in DOMAIN changes THEN changes[f] ELSE item.values[f]] \in Values
  BY <1>2, ItemParts DEF Values
<1>6. item' \in Item /\ item'.publication = "draft" /\ item'.row = item.row + 1 /\ item'.version = n
  BY <1>3, <1>4, <1>5, ItemParts DEF Item
<1>7. /\ DecisionsOf(n, changes) \subseteq Decision
      /\ \A d \in DecisionsOf(n, changes) : d.version = n
      /\ \E d \in DecisionsOf(n, changes) : d.version = n
  BY <1>2, <1>4, DecisionsOfChanges
<1>8. /\ Carried(n, changes) \subseteq Decision
      /\ \A d \in Carried(n, changes) : d.version = n
  BY <1>4, CarriedDecisions
<1>9. decisions \subseteq Decision
  BY DEF TypeOK, Decision
<1> QED BY <1>1, <1>3, <1>6, <1>7, <1>8, <1>9

------------------------------------------------------------------------------
(* What every step that changes the item owes *)

\* A form opened before the item changed names an older row.
LEMMA FormsStayTrue ==
    ASSUME TypeOK, FormsWereTrue, item # None,
           item' \in Item, item'.row = item.row + 1,
           \A s \in Stewards : form'[s] = form[s] \/ form'[s] = None,
           conflict = None \/ ( /\ conflict' \in Conflict
                                /\ \/ conflict'.row = conflict.row + 1
                                   \/ conflict' = conflict )
    PROVE  FormsWereTrue'
<1> SUFFICES ASSUME NEW s \in Stewards, form'[s] # None, form'[s].what = "conflict"
             PROVE  /\ item' # None /\ conflict' # None /\ form'[s].conflict # None
                    /\ form'[s].row <= item'.row
                    /\ form'[s].row = item'.row => form'[s].values = item'.values
                    /\ form'[s].conflict.row <= conflict'.row
                    /\ form'[s].conflict.row = conflict'.row =>
                          form'[s].conflict.evidence = conflict'.evidence
  BY DEF FormsWereTrue
<1>1. form'[s] = form[s]
  OBVIOUS
<1>2. /\ conflict # None /\ form[s].conflict # None
      /\ form[s].row <= item.row
      /\ form[s].conflict.row <= conflict.row
      /\ form[s].conflict.row = conflict.row =>
             form[s].conflict.evidence = conflict.evidence
  BY <1>1 DEF FormsWereTrue
<1>3. form[s].row \in Nat /\ form[s].conflict \in Conflict
  BY <1>1, <1>2, FormParts
<1>4. form[s].conflict.row \in Nat
  BY <1>3 DEF Conflict
<1>5. item.row \in Nat /\ conflict.row \in Nat
  BY <1>2, ItemParts, ConflictParts
<1>6. item' # None /\ conflict' # None
  BY <1>2, RowsAreNotNone
<1> QED BY <1>1, <1>2, <1>3, <1>4, <1>5, <1>6

\* Whoever closes a form closes no other.
LEMMA ClosedForms ==
    ASSUME TypeOK, NEW s \in Stewards, Closed(s)
    PROVE  /\ form' \in [Stewards -> Form \cup {None}]
           /\ form'[s] = None
           /\ \A t \in Stewards : form'[t] = form[t] \/ form'[t] = None
           /\ \A t \in Stewards \ {s} : form'[t] = form[t]
BY DEF TypeOK, Closed

\* A step that changes neither content nor evidence keeps all but what it publishes.
LEMMA SameContentKeeps ==
    ASSUME IInv, item # None, item' \in Item, item'.row = item.row + 1,
           item'.version = item.version, item'.values = item.values,
           UNCHANGED <<decisions, conflict, imported, seed, contents>>,
           NEW s \in Stewards, Closed(s)
    PROVE  /\ TypeOK' /\ NothingWithoutItem' /\ NewestVersionExists' /\ ContentIsRecorded'
           /\ SeedDecisionsStand' /\ FormsWereTrue' /\ VersionNamesOneContent'
<1> USE DEF IInv
<1>1. item' # None
  BY RowsAreNotNone
<1>2. TypeOK'
  BY ClosedForms DEF TypeOK
<1>3. NothingWithoutItem'
  BY <1>1 DEF NothingWithoutItem
<1>4. NewestVersionExists'
  BY DEF NewestVersionExists, VersionsTaken
<1>5. ContentIsRecorded'
  BY DEF ContentIsRecorded, Content
<1>6. SeedDecisionsStand'
  BY DEF SeedDecisionsStand, DecisionsOf
<1>7. VersionNamesOneContent'
  BY DEF VersionNamesOneContent
<1>8. FormsWereTrue'
  <2>1. conflict = None \/ (conflict' \in Conflict /\ conflict' = conflict)
    BY ConflictParts
  <2> QED BY <2>1, ClosedForms, FormsStayTrue
<1> QED BY <1>2, <1>3, <1>4, <1>5, <1>6, <1>7, <1>8

LEMMA PublishingKeeps ==
    ASSUME IInv, NEW s \in Stewards, PublishCatalogItem(s), item # None
    PROVE  IInv'
<1>1. /\ item' = [item EXCEPT !.publication = "published", !.row = @ + 1]
      /\ Closed(s) /\ UNCHANGED <<decisions, conflict, imported, seed, contents>>
      /\ Status = "approved" /\ Evidenced(item)
  BY DEF PublishCatalogItem
<1>2. /\ item' \in Item /\ item'.row = item.row + 1 /\ item'.publication = "published"
      /\ item'.version = item.version /\ item'.values = item.values
  <2>1. item \in Item /\ item.row \in Nat /\ item.version \in Nat /\ item.values \in Values
    BY ItemParts DEF IInv
  <2>2. item' = [publication |-> "published", version |-> item.version,
                 row |-> item.row + 1, values |-> item.values]
    BY <1>1, <2>1 DEF Item
  <2> QED BY <2>1, <2>2 DEF Item
<1>3. PublishedRestsOnEvidence'
  BY <1>1, <1>2 DEF PublishedRestsOnEvidence, Evidenced, ActiveAt, Status
<1> QED BY <1>1, <1>2, <1>3, SameContentKeeps DEF IInv

LEMMA RetiringKeeps ==
    ASSUME IInv, NEW s \in Stewards, RetireCatalogItem(s), item # None
    PROVE  IInv'
<1>1. /\ item' = [item EXCEPT !.publication = "retired", !.row = @ + 1]
      /\ Closed(s) /\ UNCHANGED <<decisions, conflict, imported, seed, contents>>
  BY DEF RetireCatalogItem
<1>2. /\ item' \in Item /\ item'.row = item.row + 1 /\ item'.publication = "retired"
      /\ item'.version = item.version /\ item'.values = item.values
  <2>1. item \in Item /\ item.row \in Nat /\ item.version \in Nat /\ item.values \in Values
    BY ItemParts DEF IInv
  <2>2. item' = [publication |-> "retired", version |-> item.version,
                 row |-> item.row + 1, values |-> item.values]
    BY <1>1, <2>1 DEF Item
  <2> QED BY <2>1, <2>2 DEF Item
<1>3. PublishedRestsOnEvidence'
  BY <1>2 DEF PublishedRestsOnEvidence
<1> QED BY <1>1, <1>2, <1>3, SameContentKeeps DEF IInv

LEMMA ConfirmingKeeps ==
    ASSUME IInv, NEW s \in Stewards, ConfirmCatalogItemAccurate(s), item # None
    PROVE  IInv'
<1>1. /\ item' = [item EXCEPT !.row = @ + 1]
      /\ Closed(s) /\ UNCHANGED <<decisions, conflict, imported, seed, contents>>
  BY DEF ConfirmCatalogItemAccurate
<1>2. /\ item' \in Item /\ item'.row = item.row + 1 /\ item'.publication = item.publication
      /\ item'.version = item.version /\ item'.values = item.values
  BY <1>1, ItemParts DEF IInv, Item
<1>3. PublishedRestsOnEvidence'
  BY <1>1, <1>2 DEF IInv, PublishedRestsOnEvidence, Evidenced, ActiveAt, Status, Content
<1> QED BY <1>1, <1>2, <1>3, SameContentKeeps DEF IInv

\* A revision, whoever asked for it, is a new content under a new version.
LEMMA RevisionKeeps ==
    ASSUME IInv, item # None, NEW s \in Stewards, Closed(s),
           NEW changes \in Changes, ValidChange(changes), Revision(changes), Note,
           UNCHANGED <<imported, seed>>,
           \/ UNCHANGED conflict
           \/ conflict # None /\ conflict' \in Conflict /\ conflict'.row = conflict.row + 1
    PROVE  IInv'
<1> USE DEF IInv
<1>1. /\ item' \in Item /\ item'.publication = "draft" /\ item'.row = item.row + 1
      /\ item'.version \in Nat \ {0, 1}
      /\ \A v \in VersionsTaken : v < item'.version
      /\ \A c \in contents : c.version < item'.version
      /\ decisions \subseteq decisions' /\ decisions' \subseteq Decision
      /\ \A d \in decisions' \ decisions : d.version = item'.version
      /\ \E d \in decisions' : d.version = item'.version
  BY RevisionIsNew
<1>2. item' # None
  BY <1>1, RowsAreNotNone
<1>3. /\ contents' = contents \cup {Content(item')}
      /\ Content(item').version = item'.version
      /\ Content(item') \in [version : Nat \ {0}, values : Values]
  BY <1>1 DEF Note, Content, Item
<1>4. TypeOK'
  <2>1. item' \in Item \cup {None} /\ conflict' \in Conflict \cup {None}
    BY <1>1 DEF TypeOK
  <2>2. form' \in [Stewards -> Form \cup {None}]
    BY ClosedForms
  <2>3. contents' \subseteq [version : Nat \ {0}, values : Values]
    BY <1>3 DEF TypeOK
  <2> QED BY <1>1, <2>1, <2>2, <2>3 DEF TypeOK, Decision
<1>5. NothingWithoutItem'
  <2>1. seed # None => conflict' # None
    BY RowsAreNotNone DEF NothingWithoutItem
  <2> QED BY <1>2, <2>1 DEF NothingWithoutItem
<1>6. NewestVersionExists'
  <2>1. item'.version \in VersionsTaken'
    BY <1>1 DEF VersionsTaken
  <2>2. \A v \in VersionsTaken' : v \in VersionsTaken \/ v = item'.version
    BY <1>1 DEF VersionsTaken
  <2>3. VersionsTaken \subseteq Nat
    BY DEF VersionsTaken, TypeOK
  <2>4. \A c \in contents : c.version \in Nat
    BY DEF TypeOK
  <2>5. ASSUME NEW v \in VersionsTaken'
        PROVE  v <= item'.version
    <3>1. CASE v = item'.version
      BY <1>1, <3>1
    <3>2. CASE v \in VersionsTaken
      BY <1>1, <2>3, <3>2
    <3> QED BY <2>2, <3>1, <3>2
  <2>6. \A c \in contents' : c.version <= item'.version
    BY <1>1, <1>3, <2>4
  <2> QED BY <2>1, <2>5, <2>6 DEF NewestVersionExists
<1>7. ContentIsRecorded'
  BY <1>3 DEF ContentIsRecorded
<1>8. SeedDecisionsStand'
  <2>1. \A d \in decisions' \ decisions : ~(d.version <= 1)
    BY <1>1
  <2>2. {d \in decisions' : d.version <= 1} = {d \in decisions : d.version <= 1}
    BY <1>1, <2>1
  <2> QED BY <2>2 DEF SeedDecisionsStand, DecisionsOf
<1>9. VersionNamesOneContent'
  <2>1. \A c \in contents : c.version \in Nat /\ c.version < item'.version
    BY <1>1 DEF TypeOK
  <2>2. \A c \in contents : c.version # Content(item').version
    BY <1>1, <1>3, <2>1
  <2> QED BY <1>3, <2>2 DEF VersionNamesOneContent
<1>10. PublishedRestsOnEvidence'
  BY <1>1 DEF PublishedRestsOnEvidence
<1>11. FormsWereTrue'
  <2>1. item' \in Item /\ item'.row = item.row + 1
    BY <1>1
  <2>2. \A t \in Stewards : form'[t] = form[t] \/ form'[t] = None
    BY ClosedForms
  <2>3. TypeOK /\ FormsWereTrue
    OBVIOUS
  <2>4. CASE UNCHANGED conflict
    <3>1. conflict = None \/ (conflict' \in Conflict /\ conflict' = conflict)
      BY <2>4, ConflictParts
    <3> QED BY <2>1, <2>2, <2>3, <3>1, FormsStayTrue
  <2>5. CASE conflict' \in Conflict /\ conflict'.row = conflict.row + 1
    BY <2>1, <2>2, <2>3, <2>5, FormsStayTrue
  <2> QED BY <2>4, <2>5
<1> QED BY <1>4, <1>5, <1>6, <1>7, <1>8, <1>9, <1>10, <1>11

LEMMA RevisingKeeps ==
    ASSUME IInv, NEW s \in Stewards, NEW changes \in Changes, ReviseCatalogItem(s, changes)
    PROVE  IInv'
<1>1. /\ ValidChange(changes) /\ Revision(changes) /\ Note /\ Closed(s)
      /\ UNCHANGED <<conflict, imported, seed>>
  BY DEF ReviseCatalogItem
<1>2. item # None
  BY DEF ReviseCatalogItem, Current, IInv, NothingWithoutItem
<1> QED BY <1>1, <1>2, RevisionKeeps

LEMMA ResolvingKeeps ==
    ASSUME IInv, NEW s \in Stewards, NEW changes \in Changes, ResolveConflict(s, changes)
    PROVE  IInv'
<1>1. /\ ValidChange(changes) /\ Revision(changes) /\ Note /\ Closed(s)
      /\ UNCHANGED <<imported, seed>>
      /\ conflict' = [conflict EXCEPT !.state = "resolved", !.row = @ + 1,
                                      !.resolution = item'.version]
  BY DEF ResolveConflict
<1>2. item # None /\ conflict # None
  BY DEF ResolveConflict, Current, IInv, FormsWereTrue
<1>3. item'.version \in Nat
  <2>1. item'.version \in Nat \ {0, 1}
    BY <1>1, <1>2, RevisionIsNew DEF IInv
  <2> QED BY <2>1
<1>4. /\ conflict.row \in Nat /\ conflict.evidence \in Nat /\ conflict \in Conflict
  BY <1>2, ConflictParts DEF IInv
<1>5. conflict' = [state |-> "resolved", evidence |-> conflict.evidence,
                   row |-> conflict.row + 1, resolution |-> item'.version]
  BY <1>1, <1>4 DEF Conflict
<1>6. conflict' \in Conflict /\ conflict'.row = conflict.row + 1
  BY <1>3, <1>4, <1>5 DEF Conflict, ConflictStates
<1> QED BY <1>1, <1>2, <1>6, RevisionKeeps

\* A form opens on the rows as they are.
LEMMA OpeningKeeps ==
    ASSUME IInv, NEW s \in Stewards, NEW what \in {"item", "conflict"}, Open(s, what)
    PROVE  IInv'
<1> USE DEF IInv
<1> DEFINE opened == [what |-> what, row |-> item.row, values |-> item.values,
                      conflict |-> IF what = "conflict" THEN conflict ELSE None]
<1>1. /\ item # None /\ (what = "conflict" => conflict # None)
      /\ form' = [form EXCEPT ![s] = opened]
      /\ UNCHANGED <<item, decisions, conflict, imported, seed, contents>>
  BY DEF Open
<1>2. opened \in Form
  <2>1. (IF what = "conflict" THEN conflict ELSE None) \in Conflict \cup {None}
    BY DEF TypeOK
  <2> QED BY <1>1, <2>1, ItemParts DEF Form
<1>3. /\ opened.what = what /\ opened.row = item.row /\ opened.values = item.values
      /\ what = "conflict" => opened.conflict = conflict
  OBVIOUS
<1> HIDE DEF opened
<1>4. /\ form' \in [Stewards -> Form \cup {None}] /\ form'[s] = opened
      /\ \A t \in Stewards \ {s} : form'[t] = form[t]
  BY <1>1, <1>2 DEF TypeOK
<1>5. TypeOK'
  BY <1>1, <1>4 DEF TypeOK
<1>6. NothingWithoutItem'
  BY <1>1 DEF NothingWithoutItem
<1>7. FormsWereTrue'
  <2> SUFFICES ASSUME NEW t \in Stewards, form'[t] # None, form'[t].what = "conflict"
               PROVE  /\ item # None /\ conflict # None /\ form'[t].conflict # None
                      /\ form'[t].row <= item.row
                      /\ form'[t].row = item.row => form'[t].values = item.values
                      /\ form'[t].conflict.row <= conflict.row
                      /\ form'[t].conflict.row = conflict.row =>
                            form'[t].conflict.evidence = conflict.evidence
    BY <1>1 DEF FormsWereTrue
  <2>1. CASE t # s
    BY <1>4, <2>1 DEF FormsWereTrue
  <2>2. CASE t = s
    <3>1. conflict # None /\ form'[t].conflict = conflict
      BY <1>1, <1>3, <1>4, <2>2
    <3>2. conflict.row \in Nat /\ item.row \in Nat
      BY <1>1, <3>1, ConflictParts, ItemParts
    <3> QED BY <1>1, <1>3, <1>4, <2>2, <3>1, <3>2
  <2> QED BY <2>1, <2>2
<1>8. /\ NewestVersionExists' /\ ContentIsRecorded' /\ SeedDecisionsStand'
      /\ VersionNamesOneContent'
  BY <1>1 DEF NewestVersionExists, VersionsTaken, ContentIsRecorded, Content,
              SeedDecisionsStand, DecisionsOf, VersionNamesOneContent
<1>9. PublishedRestsOnEvidence'
  BY <1>1 DEF PublishedRestsOnEvidence, Evidenced, ActiveAt, Status, Content
<1> QED BY <1>5, <1>6, <1>7, <1>8, <1>9

\* The decisions of the seed are evidence of the seed's values.
LEMMA SeedIsEvidence ==
    ASSUME NEW i, i.version = 1,
           {d \in decisions : d.version <= 1} =
               DecisionsOf(1, [f \in Decided |-> i.values[f]])
    PROVE  Evidenced(i)
<1> SUFFICES ASSUME NEW f \in Material
             PROVE  \E d \in ActiveAt(f, 1) : d.value = i.values[f]
  BY DEF Evidenced
<1> DEFINE d == [version |-> 1, field |-> f, value |-> i.values[f]]
<1>1. f \in Decided
  BY FieldsAreFields
<1>2. d \in {e \in decisions : e.version <= 1}
  BY <1>1 DEF DecisionsOf
<1>3. \A e \in decisions : e.version <= 1 => e.version = 1
  BY DEF DecisionsOf
<1>4. d \in ActiveAt(f, 1)
  BY <1>2, <1>3 DEF ActiveAt
<1> QED BY <1>4

------------------------------------------------------------------------------
(* The first item, the import and the reset *)

LEMMA AddingKeeps ==
    ASSUME IInv, NEW values \in Values, NEW covered \in SUBSET Fields,
           ValidChange(values), AddCatalogItem(values, covered)
    PROVE  IInv'
<1> USE DEF IInv
<1> DEFINE authored == [f \in covered |-> values[f]]
<1>1. /\ item = None
      /\ item' = [publication |-> "draft", version |-> 1, row |-> 1, values |-> values]
      /\ decisions' = DecisionsOf(1, authored)
      /\ contents' = contents \cup {Content(item')}
      /\ UNCHANGED <<conflict, imported, form, seed>>
  BY DEF AddCatalogItem, Note
<1>2. /\ seed = None /\ conflict = None /\ decisions = {} /\ contents = {}
      /\ \A s \in Stewards : form[s] = None
  BY <1>1 DEF NothingWithoutItem
<1>3. item' \in Item /\ item' # None
  BY <1>1, RowsAreNotNone DEF Item
<1>4. /\ contents' = {Content(item')} /\ Content(item').version = 1
      /\ Content(item') \in [version : Nat \ {0}, values : Values]
  BY <1>1, <1>2 DEF Content
<1>5. /\ decisions' \subseteq Decision
      /\ \A d \in decisions' : d.version = 1
  <2>1. /\ DOMAIN authored \subseteq Fields
        /\ \A f \in DOMAIN authored : authored[f] \in UNION {Value[g] : g \in Fields}
    BY DEF Values
  <2> HIDE DEF authored
  <2> QED BY <1>1, <2>1, DecisionsOfChanges
<1>6. TypeOK'
  BY <1>1, <1>2, <1>3, <1>4, <1>5 DEF TypeOK, Decision
<1>7. NothingWithoutItem' /\ SeedDecisionsStand' /\ ContentIsRecorded'
  BY <1>1, <1>2, <1>3, <1>4 DEF NothingWithoutItem, SeedDecisionsStand, ContentIsRecorded
<1>8. NewestVersionExists'
  BY <1>4, <1>5 DEF NewestVersionExists, VersionsTaken
<1>9. FormsWereTrue'
  BY <1>1, <1>2 DEF FormsWereTrue
<1>10. VersionNamesOneContent' /\ PublishedRestsOnEvidence'
  BY <1>1, <1>4 DEF VersionNamesOneContent, PublishedRestsOnEvidence
<1> QED BY <1>6, <1>7, <1>8, <1>9, <1>10

\* The import reopens the conflict under a new row, and touches no item.
LEMMA ImportingKeeps ==
    ASSUME IInv, ImportFixture
    PROVE  IInv'
<1> USE DEF IInv
<1>1. /\ conflict # None /\ imported' = TRUE /\ conflict' = Reopened(conflict)
      /\ UNCHANGED <<item, decisions, form, seed, contents>>
  BY DEF ImportFixture
<1>2. /\ conflict.row \in Nat /\ conflict.evidence \in Nat /\ conflict \in Conflict
  BY <1>1, ConflictParts
<1>3. conflict' = [state |-> "reopened", evidence |-> conflict.evidence + 1,
                   row |-> conflict.row + 1, resolution |-> conflict.resolution]
  BY <1>1, <1>2 DEF Reopened, Conflict
<1>4. conflict' \in Conflict /\ conflict'.row = conflict.row + 1 /\ conflict' # None
  BY <1>2, <1>3, RowsAreNotNone DEF Conflict, ConflictStates
<1>5. TypeOK'
  BY <1>1, <1>4 DEF TypeOK
<1>6. NothingWithoutItem'
  BY <1>1, <1>4 DEF NothingWithoutItem
<1>7. FormsWereTrue'
  <2> SUFFICES ASSUME NEW s \in Stewards, form[s] # None, form[s].what = "conflict"
               PROVE  /\ item # None /\ conflict' # None /\ form[s].conflict # None
                      /\ form[s].row <= item.row
                      /\ form[s].row = item.row => form[s].values = item.values
                      /\ form[s].conflict.row < conflict'.row
    <3>1. \A s \in Stewards : form[s].conflict \in Conflict /\ conflict' \in Conflict =>
              (form[s].conflict.row < conflict'.row =>
                   /\ form[s].conflict.row <= conflict'.row
                   /\ form[s].conflict.row # conflict'.row)
      BY DEF Conflict
    <3>2. \A s \in Stewards : form[s] # None /\ form[s].what = "conflict" =>
              form[s].conflict \in Conflict
      BY FormParts DEF FormsWereTrue
    <3> QED BY <1>1, <1>4, <3>1, <3>2 DEF FormsWereTrue
  <2>1. /\ item # None /\ form[s].conflict # None
        /\ form[s].row <= item.row
        /\ form[s].row = item.row => form[s].values = item.values
        /\ form[s].conflict.row <= conflict.row
    BY DEF FormsWereTrue
  <2>2. form[s].conflict.row \in Nat
    BY <2>1, FormParts DEF Conflict
  <2> QED BY <1>2, <1>4, <2>1, <2>2
<1>8. /\ NewestVersionExists' /\ ContentIsRecorded' /\ SeedDecisionsStand'
      /\ VersionNamesOneContent'
  BY <1>1 DEF NewestVersionExists, VersionsTaken, ContentIsRecorded, Content,
              SeedDecisionsStand, DecisionsOf, VersionNamesOneContent
<1>9. PublishedRestsOnEvidence'
  BY <1>1 DEF PublishedRestsOnEvidence, Evidenced, ActiveAt, Status, Content
<1> QED BY <1>5, <1>6, <1>7, <1>8, <1>9

\* The reset goes back to version 1, whose content and decisions nothing has touched.
LEMMA ResettingKeeps ==
    ASSUME IInv, ResetFixtures
    PROVE  IInv'
<1> USE DEF IInv
<1>1. /\ seed # None
      /\ item' = [seed.item EXCEPT !.row = item.row + 1]
      /\ conflict' = [seed.conflict EXCEPT !.row = conflict.row + 1]
      /\ contents' = contents \cup {Content(item')}
      /\ UNCHANGED <<decisions, imported, form, seed>>
  BY DEF ResetFixtures, Note
<1>2. item # None /\ conflict # None
  BY <1>1 DEF NothingWithoutItem
<1>3. seed.item \in Item /\ seed.conflict \in Conflict
  BY <1>1 DEF TypeOK, Seed
<1>4. item.row \in Nat /\ conflict.row \in Nat
  BY <1>2, ItemParts, ConflictParts
<1>5. /\ item' = [publication |-> seed.item.publication, version |-> seed.item.version,
                  row |-> item.row + 1, values |-> seed.item.values]
      /\ conflict' = [state |-> seed.conflict.state, evidence |-> seed.conflict.evidence,
                      row |-> conflict.row + 1, resolution |-> seed.conflict.resolution]
  BY <1>1, <1>3 DEF Item, Conflict
<1>6. item' \in Item /\ item'.row = item.row + 1 /\ item' # None
  BY <1>3, <1>4, <1>5, RowsAreNotNone DEF Item
<1>7. conflict' \in Conflict /\ conflict'.row = conflict.row + 1 /\ conflict' # None
  BY <1>3, <1>4, <1>5, RowsAreNotNone DEF Conflict
<1>8. Content(item') = Content(seed.item) /\ contents' = contents
  BY <1>1, <1>5 DEF Content, ContentIsRecorded
<1>9. /\ seed.item.version = 1 /\ item'.version = 1 /\ item'.values = seed.item.values
      /\ {d \in decisions : d.version <= 1} =
             DecisionsOf(1, [f \in Decided |-> seed.item.values[f]])
  BY <1>1, <1>5 DEF SeedDecisionsStand
<1>10. TypeOK'
  BY <1>1, <1>6, <1>7, <1>8 DEF TypeOK
<1>11. NothingWithoutItem' /\ ContentIsRecorded'
  BY <1>1, <1>6, <1>7, <1>8 DEF NothingWithoutItem, ContentIsRecorded
<1>12. NewestVersionExists' /\ SeedDecisionsStand' /\ VersionNamesOneContent'
  BY <1>1, <1>8 DEF NewestVersionExists, VersionsTaken, SeedDecisionsStand, DecisionsOf,
                    VersionNamesOneContent
<1>13. FormsWereTrue'
  <2>1. \A s \in Stewards : form'[s] = form[s]
    BY <1>1
  <2>2. TypeOK /\ FormsWereTrue
    OBVIOUS
  <2> QED BY <1>2, <1>6, <1>7, <2>1, <2>2, FormsStayTrue
<1>14. Evidenced(item)'
  <2>1. Evidenced(seed.item)
    BY <1>9, SeedIsEvidence
  <2> QED BY <1>1, <1>9, <2>1 DEF Evidenced, ActiveAt
<1>15. PublishedRestsOnEvidence'
  <2>1. seed' = seed /\ Content(item)' = Content(seed.item)
    BY <1>1, <1>8 DEF Content
  <2> QED BY <1>1, <1>14, <2>1 DEF PublishedRestsOnEvidence, Content
<1> QED BY <1>10, <1>11, <1>12, <1>13, <1>15

------------------------------------------------------------------------------
(* The specification *)

LEMMA SeededItemIsItem ==
    ASSUME NEW status \in Value["approvalStatus"]
    PROVE  /\ SeededItem(status) \in Item /\ SeededItem(status).version = 1
           /\ SeededItem(status).values["approvalStatus"] = status
<1>1. status \in UNION {Value[f] : f \in Fields}
  BY FieldsAreFields
<1>2. [SeedValue EXCEPT !["approvalStatus"] = status] \in Values
  BY <1>1, SeedHasValues DEF Values
<1>3. [SeedValue EXCEPT !["approvalStatus"] = status]["approvalStatus"] = status
  BY FieldsAreFields, SeedHasValues DEF Values
<1>4. (IF status = "review_required" THEN "retired" ELSE "published")
          \in {"draft", "published", "retired"}
  OBVIOUS
<1> QED BY <1>2, <1>3, <1>4 DEF SeededItem, Item

\* The history starts with the seed or with nothing.
LEMMA InitSound ==
    ASSUME Init
    PROVE  IInv
<1>1. imported = FALSE /\ form = [s \in Stewards |-> None]
  BY DEF Init
<1>2. FormsWereTrue
  BY <1>1 DEF FormsWereTrue
<1>3. form \in [Stewards -> Form \cup {None}] /\ imported \in BOOLEAN
  BY <1>1
<1>4. CASE StartEmpty
  <2>1. item = None /\ conflict = None /\ seed = None /\ decisions = {} /\ contents = {}
    BY <1>4 DEF StartEmpty
  <2>2. TypeOK
    BY <1>3, <2>1 DEF TypeOK
  <2>3. NothingWithoutItem /\ ContentIsRecorded /\ SeedDecisionsStand
    BY <1>1, <2>1 DEF NothingWithoutItem, ContentIsRecorded, SeedDecisionsStand
  <2>4. NewestVersionExists
    BY <2>1 DEF NewestVersionExists, VersionsTaken
  <2>5. VersionNamesOneContent /\ PublishedRestsOnEvidence
    BY <2>1 DEF VersionNamesOneContent, PublishedRestsOnEvidence
  <2> QED BY <1>2, <2>2, <2>3, <2>4, <2>5 DEF IInv
<1>5. CASE StartSeeded
  <2>1. PICK status \in Value["approvalStatus"], state \in ConflictStates :
            /\ item = SeededItem(status)
            /\ conflict = SeededConflict(state)
            /\ seed = [item |-> item, conflict |-> conflict]
            /\ decisions = DecisionsOf(1, [f \in Decided |-> item.values[f]])
            /\ contents = {Content(item)}
    BY <1>5 DEF StartSeeded
  <2>2. item \in Item /\ item.version = 1 /\ item.values \in Values
    BY <2>1, SeededItemIsItem DEF Item
  <2>3. conflict \in Conflict
    BY <2>1 DEF SeededConflict, Conflict
  <2>4. seed \in Seed /\ seed.item = item /\ seed.conflict = conflict
    BY <2>1, <2>2, <2>3 DEF Seed
  <2>5. item # None /\ conflict # None /\ seed # None
    BY <2>2, <2>3, <2>4, RowsAreNotNone
  <2> DEFINE seeded == [f \in Decided |-> item.values[f]]
  <2>6. /\ DOMAIN seeded \subseteq Fields
        /\ \A f \in DOMAIN seeded : seeded[f] \in UNION {Value[g] : g \in Fields}
    BY <2>2, FieldsAreFields DEF Values
  <2>7. decisions = DecisionsOf(1, seeded)
    BY <2>1
  <2>8. /\ decisions \subseteq Decision
        /\ \A d \in decisions : d.version = 1
    <3> HIDE DEF seeded
    <3> QED BY <2>6, <2>7, DecisionsOfChanges
  <2>9. /\ contents = {Content(item)} /\ Content(item).version = 1
        /\ Content(item) \in [version : Nat \ {0}, values : Values]
    BY <2>1, <2>2 DEF Content
  <2>10. TypeOK
    BY <1>3, <2>2, <2>3, <2>4, <2>8, <2>9 DEF TypeOK, Decision
  <2>11. NothingWithoutItem /\ ContentIsRecorded
    BY <2>4, <2>5, <2>9 DEF NothingWithoutItem, ContentIsRecorded
  <2>12. NewestVersionExists
    BY <2>8, <2>9 DEF NewestVersionExists, VersionsTaken
  <2>13. {d \in decisions : d.version <= 1} = decisions
    BY <2>8
  <2>14. SeedDecisionsStand
    BY <2>2, <2>4, <2>7, <2>13 DEF SeedDecisionsStand
  <2>15. Evidenced(item)
    BY <2>2, <2>7, <2>13, SeedIsEvidence
  <2>16. VersionNamesOneContent /\ PublishedRestsOnEvidence
    BY <2>4, <2>5, <2>9, <2>15 DEF VersionNamesOneContent, PublishedRestsOnEvidence
  <2> QED BY <1>2, <2>10, <2>11, <2>12, <2>14, <2>16 DEF IInv
<1> QED BY <1>4, <1>5 DEF Init

LEMMA StutteringKeeps ==
    ASSUME IInv, UNCHANGED vars
    PROVE  IInv'
<1>1. UNCHANGED <<item, decisions, conflict, imported, form, seed, contents>>
  BY DEF vars
<1>2. TypeOK' /\ NothingWithoutItem' /\ NewestVersionExists' /\ ContentIsRecorded'
  BY <1>1 DEF IInv, TypeOK, NothingWithoutItem, NewestVersionExists, VersionsTaken,
              ContentIsRecorded, Content
<1>3. SeedDecisionsStand' /\ FormsWereTrue' /\ VersionNamesOneContent'
  BY <1>1 DEF IInv, SeedDecisionsStand, DecisionsOf, FormsWereTrue, VersionNamesOneContent
<1>4. PublishedRestsOnEvidence'
  BY <1>1 DEF IInv, PublishedRestsOnEvidence, Evidenced, ActiveAt, Status, Content
<1> QED BY <1>2, <1>3, <1>4 DEF IInv

\* One step of each operation.
LEMMA NextKeeps ==
    ASSUME IInv, [Next]_vars
    PROVE  IInv'
<1>1. ASSUME NEW s \in Stewards, Current(s, "item")
      PROVE  item # None
  BY <1>1 DEF Current, IInv, NothingWithoutItem
<1>2. ASSUME NEW s \in Stewards, NEW what \in {"item", "conflict"}, Open(s, what)
      PROVE  IInv'
  BY <1>2, OpeningKeeps
<1>3. ASSUME NEW s \in Stewards, NEW changes \in Changes,
             ReviseCatalogItem(s, changes) \/ ResolveConflict(s, changes)
      PROVE  IInv'
  BY <1>3, RevisingKeeps, ResolvingKeeps
<1>4. ASSUME NEW s \in Stewards, PublishCatalogItem(s)
      PROVE  IInv'
  BY <1>1, <1>4, PublishingKeeps DEF PublishCatalogItem
<1>5. ASSUME NEW s \in Stewards, RetireCatalogItem(s)
      PROVE  IInv'
  BY <1>1, <1>5, RetiringKeeps DEF RetireCatalogItem
<1>6. ASSUME NEW s \in Stewards, ConfirmCatalogItemAccurate(s)
      PROVE  IInv'
  BY <1>1, <1>6, ConfirmingKeeps DEF ConfirmCatalogItemAccurate
<1>7. ASSUME NEW values \in Values, NEW covered \in SUBSET Fields,
             ValidChange(values), AddCatalogItem(values, covered)
      PROVE  IInv'
  BY <1>7, AddingKeeps
<1>8. CASE ImportFixture \/ ResetFixtures
  BY <1>8, ImportingKeeps, ResettingKeeps
<1>9. CASE UNCHANGED vars
  BY <1>9, StutteringKeeps
<1> QED BY <1>2, <1>3, <1>4, <1>5, <1>6, <1>7, <1>8, <1>9 DEF Next

\* Whatever stewards, the import and the reset do in any order: versions are fresh,
\* the seed's decisions stand and forms name what they were opened at
\* (workflow/catalog.ts, workflow/inventory.ts, seed/fixture-import.ts).
THEOREM InductiveInvariant == Spec => []IInv
<1>1. Init => IInv
  BY InitSound
<1>2. IInv /\ [Next]_vars => IInv'
  BY NextKeeps
<1> QED BY <1>1, <1>2, PTL DEF Spec

\* A published item always has evidence of the very values it has, and an approval or
\* its seeded content, across revisions, retirements and resets
\* (catalog.ts requireMaterialProvenance).
THEOREM PublishedAlwaysRestsOnEvidence == Spec => []PublishedRestsOnEvidence
<1>1. IInv => PublishedRestsOnEvidence
  BY DEF IInv
<1> QED BY <1>1, InductiveInvariant, PTL

\* No item version is ever used for two contents, so a hash of versions names what a
\* model answered about (catalog.ts maxDecisionVersion, corpus.ts).
THEOREM VersionsAlwaysNameOneContent == Spec => []VersionNamesOneContent
<1>1. IInv => VersionNamesOneContent
  BY DEF IInv
<1> QED BY <1>1, InductiveInvariant, PTL

\* What closes a conflict's form is its resolution, on the rows it was opened at.
LEMMA ClosingSawEvidence ==
    ASSUME IInv, [Next]_vars, NEW s \in Stewards,
           form[s] # None, form'[s] = None, form[s].what = "conflict"
    PROVE  /\ form[s].conflict.evidence = conflict.evidence
           /\ form[s].values = item.values
<1> SUFFICES ASSUME ~( /\ form[s].conflict.evidence = conflict.evidence
                       /\ form[s].values = item.values )
             PROVE  FALSE
  OBVIOUS
<1>1. TypeOK /\ FormsWereTrue /\ s \in Stewards
  BY DEF IInv
<1>2. ASSUME NEW t \in Stewards, Current(t, "item"), Closed(t)
      PROVE  FALSE
  BY <1>1, <1>2 DEF Current, Closed, TypeOK
<1>3. ASSUME NEW t \in Stewards, NEW what \in {"item", "conflict"}, Open(t, what)
      PROVE  FALSE
  <2> DEFINE opened == [what |-> what, row |-> item.row, values |-> item.values,
                        conflict |-> IF what = "conflict" THEN conflict ELSE None]
  <2>1. item # None /\ form' = [form EXCEPT ![t] = opened]
    BY <1>3 DEF Open
  <2>2. (IF what = "conflict" THEN conflict ELSE None) \in Conflict \cup {None}
    BY <1>1 DEF TypeOK
  <2>3. opened \in Form
    BY <1>1, <2>1, <2>2, ItemParts DEF Form
  <2> HIDE DEF opened
  <2> QED BY <1>1, <2>1, <2>3, RowsAreNotNone DEF TypeOK
<1>4. ASSUME NEW t \in Stewards, NEW changes \in Changes, ResolveConflict(t, changes)
      PROVE  FALSE
  <2>1. /\ Closed(t) /\ form[t].row = item.row /\ form[t].conflict.row = conflict.row
    BY <1>4 DEF ResolveConflict, Current
  <2>2. t = s
    BY <1>1, <2>1 DEF Closed, TypeOK
  <2> QED BY <1>1, <2>1, <2>2 DEF FormsWereTrue
<1>5. ASSUME NEW t \in Stewards, NEW changes \in Changes, ReviseCatalogItem(t, changes)
      PROVE  FALSE
  BY <1>2, <1>5 DEF ReviseCatalogItem
<1>6. ASSUME NEW t \in Stewards,
             PublishCatalogItem(t) \/ RetireCatalogItem(t) \/ ConfirmCatalogItemAccurate(t)
      PROVE  FALSE
  BY <1>2, <1>6 DEF PublishCatalogItem, RetireCatalogItem, ConfirmCatalogItemAccurate
<1>7. ASSUME UNCHANGED form
      PROVE  FALSE
  BY <1>7
<1>8. ASSUME NEW values \in Values, NEW covered \in SUBSET Fields,
             AddCatalogItem(values, covered)
      PROVE  FALSE
  BY <1>7, <1>8 DEF AddCatalogItem
<1>9. CASE ImportFixture \/ ResetFixtures \/ UNCHANGED vars
  BY <1>7, <1>9 DEF ImportFixture, ResetFixtures, vars
<1>10. ASSUME NEW t \in Stewards,
              NEW changes \in Changes, ReviseCatalogItem(t, changes) \/ ResolveConflict(t, changes)
       PROVE  FALSE
  BY <1>4, <1>5, <1>10
<1>11. ASSUME NEW t \in Stewards,
              \/ \E what \in {"item", "conflict"} : Open(t, what)
              \/ \E changes \in Changes :
                     ReviseCatalogItem(t, changes) \/ ResolveConflict(t, changes)
              \/ PublishCatalogItem(t) \/ RetireCatalogItem(t) \/ ConfirmCatalogItemAccurate(t)
       PROVE  FALSE
  BY <1>3, <1>6, <1>10, <1>11
<1>12. CASE \E t \in Stewards :
                 \/ \E what \in {"item", "conflict"} : Open(t, what)
                 \/ \E changes \in Changes :
                        ReviseCatalogItem(t, changes) \/ ResolveConflict(t, changes)
                 \/ PublishCatalogItem(t) \/ RetireCatalogItem(t) \/ ConfirmCatalogItemAccurate(t)
  BY <1>11, <1>12
<1>13. CASE \E values \in Values, covered \in SUBSET Fields :
                ValidChange(values) /\ AddCatalogItem(values, covered)
  BY <1>8, <1>13
<1> QED BY <1>9, <1>12, <1>13 DEF Next

\* A steward resolves a conflict on the evidence and the values that stand at that
\* moment, however many imports, revisions and resets went before
\* (inventory.ts resolveConflict).
THEOREM ResolutionsAlwaysSawEvidence == Spec => ResolutionSawEvidence
<1>1. IInv /\ [Next]_vars =>
          [\A s \in Stewards :
               form[s] # None /\ form'[s] = None /\ form[s].what = "conflict" =>
                   /\ form[s].conflict.evidence = conflict.evidence
                   /\ form[s].values = item.values]_vars
  BY ClosingSawEvidence
<1> QED BY <1>1, InductiveInvariant, PTL DEF Spec, ResolutionSawEvidence
==============================================================================
