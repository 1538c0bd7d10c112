------------------------------- MODULE MCRelease -------------------------------
(* Instances of Release for TLC: three releases and what they contain. *)
EXTENDS Release, TLC

\* "next" only changes the fixture, "wider" adds a migration.
MCMigrations ==
    LET base == [name |-> "0001", sha |-> 1] IN
    [r \in Releases |-> IF r = "wider" THEN {base, [name |-> "0002", sha |-> 1]} ELSE {base}]
MCContract == [r \in Releases |-> 1]
MCFixture == [r \in Releases |-> IF r = "next" THEN 2 ELSE 1]
MCKnownPrior == [r \in Releases |-> {1}]

Symmetric == Permutations(Operators) \cup Permutations(Services)
==============================================================================
