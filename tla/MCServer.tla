------------------------------ MODULE MCServer ------------------------------
(***************************************************************************)
(* Three requests for one link meet a cap of two.                          *)
(***************************************************************************)
EXTENDS Server

CONSTANTS r1, r2, r3, t1

OneUse == [t \in Tokens |-> 1]
SameLink == [r \in Requests |-> t1]
=============================================================================
