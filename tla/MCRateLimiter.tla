--------------------------- MODULE MCRateLimiter ---------------------------
(***************************************************************************)
(* Instances of RateLimiter for TLC: four calls under limits of two and    *)
(* one, a sweep, and a clock that outlives two windows.                    *)
(***************************************************************************)
EXTENDS RateLimiter, TLC

CONSTANTS a1, a2, a3, a4, s1, k1

OneKey == [c \in Calls |-> k1]

\* The policy of the config is replaced: a lower limit for a3 and a4.
Lowered == [c \in Calls |-> IF c \in {a3, a4} THEN 1 ELSE 2]

Symmetry == Permutations({a1, a2}) \cup Permutations({a3, a4})
=============================================================================
