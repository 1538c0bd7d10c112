------------------------------- MODULE MCCatalog -------------------------------
(* An instance of Catalog for TLC: an item's name and its approval. *)
EXTENDS Catalog, TLC

MCFields == {"name", "approvalStatus"}
MCValue == [f \in MCFields |->
    IF f = "approvalStatus" THEN {"approved", "conditional", "review_required"}
                            ELSE {"first", "second"}]
MCSeedValue == [f \in MCFields |-> "first"]

StewardSymmetry == Permutations(Stewards)
==============================================================================
