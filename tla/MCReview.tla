-------------------------------- MODULE MCReview --------------------------------
(* The instance of ReviewRequest that TLC checks: each kind of request with    *)
(* bounds of its own.  A live request is followed through preparation, answers *)
(* and decisions under one catalog; a seeded one under a changing catalog and  *)
(* resets, with fewer preparations.                                            *)
EXTENDS ReviewRequest

MCNext ==
    /\ Next
    /\ IF Seeded THEN Cardinality(jobs') <= 1 ELSE catalog' = catalog

MCSpec == Init /\ [][MCNext]_vars
================================================================================
