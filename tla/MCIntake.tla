------------------------------ MODULE MCIntake ------------------------------
(* The instance of Intake that TLC checks. Tabs, words and answers are only *)
(* ever compared, so permuting each of them is a symmetry; every property   *)
(* checked is a safety property.                                            *)
EXTENDS Intake, TLC

Symmetry == Permutations(Tabs) \cup Permutations(Words) \cup Permutations(Replies)
=============================================================================
