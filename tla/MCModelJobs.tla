---------------------------- MODULE MCModelJobs ----------------------------
(* Instances of ModelJobs for TLC: model values and symmetry.              *)
EXTENDS ModelJobs, TLC

\* Workers are interchangeable: no action names one.
WorkerSymmetry == Permutations(Workers)

\* So are visitors, and drafts that start with the same content.
PartySymmetry == Permutations(Workers) \cup Permutations(Visitors) \cup Permutations(Drafts)
=============================================================================
