-------------------------------- MODULE Catalog --------------------------------
(***************************************************************************)
(* One catalog item, the decisions behind its values, and the disagreement *)
(* of its sources (workflow/catalog.ts, workflow/inventory.ts,             *)
(* ui/catalog-editor.tsx), with the fixture import that reopens the        *)
(* disagreement (seed/fixture-import.ts) and the reset that restores the   *)
(* seeded item under decisions that stay (seed/fixture-reset.ts).          *)
(*                                                                         *)
(* Every operation is one transaction that holds the item's row.  Stewards *)
(* work from forms they opened earlier: a form sends the row versions it   *)
(* was opened at and the fields it changes.                                *)
(*                                                                         *)
(* Abstractions.  A provenance entry is valid: a rationale may always be   *)
(* given in place of a source record.  The review date, which no decision  *)
(* need cover, is only the row version it advances.  Opening a form again  *)
(* is how a steward acknowledges a change.                                 *)
(***************************************************************************)
EXTENDS Integers, FiniteSets

CONSTANTS
    Stewards,
    Fields,        \* fields of an item, approvalStatus among them
    Material,      \* those that publication needs evidence for
    Decided,       \* those a seeded item has a decision for
    Value,         \* the values of each field
    SeedValue,     \* a seeded item's, its approval status aside
    None,
    MaxRow,        \* bound: changes of the item
    MaxChanged     \* bound: fields that one revision changes

ASSUME CatalogAssumption ==
    /\ "approvalStatus" \in Material
    /\ Material \subseteq Decided /\ Decided \subseteq Fields
    /\ {"approved", "review_required"} \subseteq Value["approvalStatus"]
    /\ MaxRow \in Nat /\ MaxChanged \in Nat

Values == [Fields -> UNION {Value[f] : f \in Fields}]

ConflictStates == {"open", "resolved", "reopened"}

Item == [publication : {"draft", "published", "retired"}, version : Nat, row : Nat,
         values : Values]

Conflict == [state : ConflictStates, evidence : Nat, row : Nat, resolution : Nat]

Form == [what : {"item", "conflict"}, row : Nat, values : Values,
         conflict : Conflict \cup {None}]

Seed == [item : Item, conflict : Conflict]

ASSUME SeedHasValues == SeedValue \in Values
ASSUME NoneIsNoRow == None \notin Item /\ None \notin Conflict /\ None \notin Form /\ None \notin Seed

VARIABLES
    item,       \* catalog_items
    decisions,  \* catalog_field_decisions
    conflict,   \* inventory_conflicts
    imported,   \* whether the fixture import ran
    form,       \* what each steward has open
    seed,       \* the seeded item and conflict, None for an added item
    contents    \* history: what the item ever said, with the version it had

vars == <<item, decisions, conflict, imported, form, seed, contents>>

Status == item.values["approvalStatus"]

Content(i) == [version |-> i.version, values |-> i.values]

Note == contents' = contents \cup {Content(item')}

------------------------------------------------------------------------------
(* Decisions *)

\* Mutant: decisions that a reset abandoned still govern.
NewestOfAll(f, version) ==
    LET all == {d \in decisions : d.field = f} IN
    {d \in all : \A e \in all : e.version <= d.version}

\* The decision that governs a field at a version: the newest at or below it.
ActiveAt(f, version) ==
    LET upTo == {d \in decisions : d.field = f /\ d.version <= version} IN
    {d \in upTo : \A e \in upTo : e.version <= d.version}

\* Mutant: versions a reset abandoned are used again.
VersionAfter(version) == version + 1

\* The next version continues past every recorded decision.
NextVersion(version) ==
    LET taken == {d.version : d \in decisions} \cup {version} IN
    (CHOOSE v \in taken : \A w \in taken : w <= v) + 1

DecisionsOf(version, changes) ==
    {[version |-> version, field |-> f, value |-> changes[f]] : f \in DOMAIN changes}

\* The unchanged evidence of the version before.
Carried(version, changes) ==
    LET parents == UNION {ActiveAt(f, item.version) : f \in Fields \ DOMAIN changes} IN
    {[p EXCEPT !.version = version] : p \in parents}

Changes ==
    LET some == {fields \in SUBSET Fields : Cardinality(fields) \in 1 .. MaxChanged} IN
    UNION {[fields -> UNION {Value[f] : f \in fields}] : fields \in some}

ValidChange(changes) == \A f \in DOMAIN changes : changes[f] \in Value[f]

\* applyItemRevision
Revision(changes) ==
    LET version == NextVersion(item.version) IN
    /\ decisions' = decisions \cup DecisionsOf(version, changes) \cup Carried(version, changes)
    /\ item' = [publication |-> "draft", version |-> version, row |-> item.row + 1,
                values |-> [f \in Fields |-> IF f \in DOMAIN changes THEN changes[f]
                                                                    ELSE item.values[f]]]

------------------------------------------------------------------------------
(* Stewards *)

\* An item's page, or a conflict's with the evidence it compares.
Open(s, what) ==
    /\ item # None
    /\ what = "conflict" => conflict # None /\ conflict.state # "resolved"
    /\ form' = [form EXCEPT ![s] = [what |-> what, row |-> item.row, values |-> item.values,
                                    conflict |-> IF what = "conflict" THEN conflict ELSE None]]
    /\ UNCHANGED <<item, decisions, conflict, imported, seed, contents>>

\* requireVersion
Current(s, what) == form[s] # None /\ form[s].what = what /\ form[s].row = item.row

Closed(s) == form' = [form EXCEPT ![s] = None]

\* addCatalogItem: a draft that needs approval, with decisions for what was authored.
AddCatalogItem(values, covered) ==
    /\ item = None
    /\ values["approvalStatus"] = "review_required"
    /\ Material \ {"approvalStatus"} \subseteq covered
    /\ item' = [publication |-> "draft", version |-> 1, row |-> 1, values |-> values]
    /\ decisions' = DecisionsOf(1, [f \in covered |-> values[f]])
    /\ Note
    /\ UNCHANGED <<conflict, imported, form, seed>>

ReviseCatalogItem(s, changes) ==
    /\ Current(s, "item") /\ ValidChange(changes)
    /\ item.row < MaxRow
    /\ Revision(changes)
    /\ Note /\ Closed(s)
    /\ UNCHANGED <<conflict, imported, seed>>

\* requireMaterialProvenance: evidence of the very values stored.
Evidenced(i) == \A f \in Material : \E d \in ActiveAt(f, i.version) : d.value = i.values[f]

PublishCatalogItem(s) ==
    /\ Current(s, "item") /\ item.row < MaxRow
    /\ Status = "approved"
    /\ Evidenced(item)
    /\ item' = [item EXCEPT !.publication = "published", !.row = @ + 1]
    /\ Closed(s)
    /\ UNCHANGED <<decisions, conflict, imported, seed, contents>>

RetireCatalogItem(s) ==
    /\ Current(s, "item") /\ item.row < MaxRow
    /\ item.publication # "retired"
    /\ item' = [item EXCEPT !.publication = "retired", !.row = @ + 1]
    /\ Closed(s)
    /\ UNCHANGED <<decisions, conflict, imported, seed, contents>>

ConfirmCatalogItemAccurate(s) ==
    /\ Current(s, "item") /\ item.row < MaxRow
    /\ item' = [item EXCEPT !.row = @ + 1]
    /\ Closed(s)
    /\ UNCHANGED <<decisions, conflict, imported, seed, contents>>

\* Its form also sends the version of the item it was opened at.
ResolveConflict(s, changes) ==
    /\ Current(s, "conflict") /\ ValidChange(changes)
    /\ item.row < MaxRow
    /\ form[s].conflict.row = conflict.row
    /\ conflict.state # "resolved"
    /\ Revision(changes)
    /\ conflict' = [conflict EXCEPT !.state = "resolved", !.row = @ + 1,
                                    !.resolution = item'.version]
    /\ Note /\ Closed(s)
    /\ UNCHANGED <<imported, seed>>

------------------------------------------------------------------------------
(* Fixture import and reset *)

\* Mutant: pages that compare the evidence before it stay current.
ReopenedQuietly(c) == [c EXCEPT !.state = "reopened", !.evidence = @ + 1]

\* reopenConflict
Reopened(c) == [c EXCEPT !.state = "reopened", !.evidence = @ + 1, !.row = @ + 1]

\* importArchitectureFixture, which does nothing where its run is recorded.
ImportFixture ==
    /\ ~imported /\ conflict # None
    /\ imported' = TRUE
    /\ conflict' = Reopened(conflict)
    /\ UNCHANGED <<item, decisions, form, seed, contents>>

\* resetCatalog and restoreConflict: values and pointers, never a decision.
ResetFixtures ==
    /\ seed # None /\ item.row < MaxRow
    /\ item' = [seed.item EXCEPT !.row = item.row + 1]
    /\ conflict' = [seed.conflict EXCEPT !.row = conflict.row + 1]
    /\ Note
    /\ UNCHANGED <<decisions, imported, form, seed>>

------------------------------------------------------------------------------
SeededItem(status) ==
    [publication |-> IF status = "review_required" THEN "retired" ELSE "published",
     version |-> 1, row |-> 1, values |-> [SeedValue EXCEPT !["approvalStatus"] = status]]

SeededConflict(state) ==
    [state |-> state, evidence |-> 1, row |-> 1, resolution |-> IF state = "open" THEN 0 ELSE 1]

StartSeeded ==
    \E status \in Value["approvalStatus"], state \in ConflictStates :
        /\ item = SeededItem(status)
        /\ conflict = SeededConflict(state)
        /\ seed = [item |-> item, conflict |-> conflict]
        /\ decisions = DecisionsOf(1, [f \in Decided |-> item.values[f]])
        /\ contents = {Content(item)}

StartEmpty == item = None /\ conflict = None /\ seed = None /\ decisions = {} /\ contents = {}

Init ==
    /\ StartSeeded \/ StartEmpty
    /\ imported = FALSE
    /\ form = [s \in Stewards |-> None]

Next ==
    \/ \E s \in Stewards :
           \/ \E what \in {"item", "conflict"} : Open(s, what)
           \/ \E changes \in Changes : ReviseCatalogItem(s, changes) \/ ResolveConflict(s, changes)
           \/ PublishCatalogItem(s) \/ RetireCatalogItem(s) \/ ConfirmCatalogItemAccurate(s)
    \/ \E values \in Values, covered \in SUBSET Fields :
           ValidChange(values) /\ AddCatalogItem(values, covered)
    \/ ImportFixture \/ ResetFixtures

Spec == Init /\ [][Next]_vars

------------------------------------------------------------------------------
(* Properties *)

\* A published item rests on evidence of the very values it has, and is approved unless
\* it is as seeded: revisions, retirements and resets in any order never leave an item
\* open to matching on values nobody decided (catalog.ts requireMaterialProvenance).
PublishedRestsOnEvidence ==
    item # None /\ item.publication = "published" =>
        /\ Evidenced(item)
        /\ \/ Status = "approved"
           \/ seed # None /\ Content(item) = Content(seed.item)

\* A version names one content for ever, across resets too.  Model results are reused
\* and called current by a hash of item versions (corpus.ts:49-53), so a number used
\* twice would pass an answer about the old content for one about the new.
VersionNamesOneContent ==
    \A c, d \in contents : c.version = d.version => c = d

\* A conflict is resolved by a steward who compared its present evidence with the item's
\* present values: neither an import, a revision nor a reset slips in between
\* (inventory.ts resolveConflict).
ResolutionSawEvidence ==
    [][\A s \in Stewards :
           form[s] # None /\ form'[s] = None /\ form[s].what = "conflict" =>
               /\ form[s].conflict.evidence = conflict.evidence
               /\ form[s].values = item.values]_vars

------------------------------------------------------------------------------
(* What the proofs rest on *)

TypeOK ==
    /\ item \in Item \cup {None} /\ conflict \in Conflict \cup {None}
    /\ seed \in Seed \cup {None}
    /\ imported \in BOOLEAN
    /\ form \in [Stewards -> Form \cup {None}]
    /\ decisions \subseteq [version : Nat \ {0}, field : Fields,
                             value : UNION {Value[f] : f \in Fields}]
    /\ contents \subseteq [version : Nat \ {0}, values : Values]

\* Before the first item there is nothing, and a seeded item never goes away.
NothingWithoutItem ==
    /\ item = None => /\ seed = None /\ conflict = None
                      /\ decisions = {} /\ contents = {}
                      /\ \A s \in Stewards : form[s] = None
    /\ seed # None => conflict # None

VersionsTaken == {d.version : d \in decisions} \cup {1}

\* Some version is the newest, and every content has one up to it.
NewestVersionExists ==
    \E newest \in VersionsTaken :
        /\ \A v \in VersionsTaken : v <= newest
        /\ \A c \in contents : c.version <= newest

ContentIsRecorded ==
    /\ item # None => Content(item) \in contents
    /\ seed # None => Content(seed.item) \in contents

\* A reset finds the seed's decisions as they were: later ones have later versions.
SeedDecisionsStand ==
    seed # None => /\ seed.item.version = 1
                   /\ {d \in decisions : d.version <= 1} =
                          DecisionsOf(1, [f \in Decided |-> seed.item.values[f]])

\* A row version names what a form was opened at.
FormsWereTrue ==
    \A s \in Stewards :
        form[s] # None /\ form[s].what = "conflict" =>
            /\ item # None /\ conflict # None /\ form[s].conflict # None
            /\ form[s].row <= item.row
            /\ form[s].row = item.row => form[s].values = item.values
            /\ form[s].conflict.row <= conflict.row
            /\ form[s].conflict.row = conflict.row =>
                   form[s].conflict.evidence = conflict.evidence

IInv ==
    /\ TypeOK /\ NothingWithoutItem /\ NewestVersionExists /\ ContentIsRecorded
    /\ SeedDecisionsStand /\ FormsWereTrue
    /\ VersionNamesOneContent /\ PublishedRestsOnEvidence
==============================================================================
