---------------------------- MODULE MCDeployment ----------------------------
(***************************************************************************)
(* A dashboard and the installer on a fresh host, or on one with a unit    *)
(* that was written by hand.  One choice of options has what only built-in *)
(* TLS uses, the other what only a proxy uses.                             *)
(***************************************************************************)
EXTENDS Deployment

CONSTANTS c1, vpn, me, mine, p8443, p2053

BuiltIn == [mode |-> "builtin", domain |-> vpn, email |-> me, addr |-> Unset]
Proxy == [mode |-> "proxy", domain |-> vpn, email |-> me, addr |-> p2053]

ByHand == [f \in {"-domain", "-cert"} |-> IF f = "-cert" THEN mine ELSE vpn]

MCChoices == {BuiltIn, Proxy}
MCOriginals == {NoUnit, ByHand}
=============================================================================
