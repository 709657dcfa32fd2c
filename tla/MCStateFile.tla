---------------------------- MODULE MCStateFile ----------------------------
(***************************************************************************)
(* Instances of StateFile: a dashboard run by root, the service, and a     *)
(* dashboard run by a user who owns nothing here.                          *)
(***************************************************************************)
EXTENDS StateFile

CONSTANTS w1, w2, w3, v0

ThreeUsers ==
  [w \in Writers |->
     IF w = w1 THEN "root" ELSE IF w = w2 THEN "creator" ELSE "operator"]

\* The service's data is as long as what was there, the others' is longer.
TwoSizes == [v \in Writers \cup {Original, Torn} |-> IF v \in {w1, w3} THEN 2 ELSE 1]
=============================================================================
