-------------------------- MODULE MCConfigRegistry --------------------------
(***************************************************************************)
(* An instance of ConfigRegistry for TLC: two requests for one of two      *)
(* configs, so that a slow reload can race a fast one; edits are numbered  *)
(* from 2.                                                                 *)
(***************************************************************************)
EXTENDS ConfigRegistry

CONSTANTS r1, r2, c1, c2, s1, s2

WantsFirst == [r \in Requests |-> c1]

\* Reloads race while the file is edited, broken and not always readable; the
\* same with restarts; and a world in which everything comes one by one.
Racing == {"requests overlap", "invalid file", "i/o error"}
AllWorlds == {Racing, Racing \cup {"restart"}, {}}
=============================================================================
