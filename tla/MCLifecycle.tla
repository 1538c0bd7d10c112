------------------------------ MODULE MCLifecycle ------------------------------
(* The instance of Lifecycle and ReadModel that TLC checks.  A question about *)
(* a factor has the same course in both areas and whatever the evidence: its  *)
(* answers and decisions are followed with the risk area and one assessment   *)
(* only.  A request with work to link starts completed and has two versions   *)
(* to go.                                                                     *)
EXTENDS ReadModel

AsksAboutFactor(questions) == \E i \in DOMAIN questions : questions[i].factor # None

MCInit ==
    /\ Init
    /\ request.area = "assets" => ~AsksAboutFactor(inputs)

MCNext ==
    /\ Next
    /\ AsksAboutFactor(inputs') => Len(assessed') <= 1
    /\ SeededItems \subseteq DOMAIN items' => request'.version <= 3

MCSpec == MCInit /\ [][MCNext]_vars
===============================================================================
