-------------------------- MODULE MCRedeemConsole --------------------------
(***************************************************************************)
(* Instances of RedeemConsole for TLC.                                     *)
(***************************************************************************)
EXTENDS RedeemConsole

CONSTANTS r1, r2, r3, t1, t2, c1, c2

OneUse == [t \in Tokens |-> 1]
TwoUses == [t \in Tokens |-> 2]
SameLink == [r \in Requests |-> t1]
=============================================================================
