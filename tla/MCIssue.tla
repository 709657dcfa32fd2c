------------------------------ MODULE MCIssue ------------------------------
(***************************************************************************)
(* The instance of Issue for TLC.  Lifetime 2 and ttl 3 stand for 24h and  *)
(* 25h; the clock runs on until both have expired.                         *)
(***************************************************************************)
EXTENDS Issue, FiniteSets, TLC

CONSTANTS d1, d2, d3, f1, f2, k1, k2

Symmetry ==
  Permutations(Deliveries) \cup Permutations(Fetches) \cup Permutations(Keys)

\* Bound: either challenges are fetched, and two deliveries with one nonce
\* arrive, or none is fetched, and three deliveries with two nonces arrive, so
\* that the use of one nonce purges the entry of the other.
TwoDeliveriesOrNoChallenge ==
  \/ \A f \in Fetches : asked[f] = "idle"
  \/ /\ Cardinality({d \in Deliveries : pc[d] # "idle"}) <= 2
     /\ Cardinality({msg[d].key : d \in Deliveries} \cap Keys) <= 1
=============================================================================
