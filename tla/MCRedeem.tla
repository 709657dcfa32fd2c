------------------------------ MODULE MCRedeem ------------------------------
(***************************************************************************)
(* Instances of Redeem for TLC: three requests for one link, so that two   *)
(* can race while a third comes after, and one for another link.           *)
(***************************************************************************)
EXTENDS Redeem

CONSTANTS r1, r2, r3, r4, t1, t2

OneUse == [t \in Tokens |-> 1]
MixedUses == [t \in Tokens |-> IF t = t1 THEN 2 ELSE 1]

SameLink == [r \in Requests |-> t1]
TwoLinks == [r \in Requests |-> IF r = r4 THEN t2 ELSE t1]
=============================================================================
