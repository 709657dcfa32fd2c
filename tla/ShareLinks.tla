----------------------------- MODULE ShareLinks -----------------------------
(***************************************************************************)
(* What share links promise, without files, copies of the token map,       *)
(* modification times and locks.  A link is created with so many           *)
(* redemptions and is there until it is burned; it is never created again. *)
(* A request takes a redemption at one instant or is turned away at one,   *)
(* for a reason that is true at that instant.                              *)
(***************************************************************************)
EXTENDS Naturals

CONSTANTS
  Requests,  \* redeem requests
  Tokens,    \* tokens a link can have
  Limit,     \* redemptions a link with that token is created with
  Presents   \* the token each request carries

VARIABLES
  left,      \* the links there are, and how many redemptions each has left
  ever,      \* the links there have ever been
  fate       \* per request: "open", "taken", or the answer it was given

vars == <<left, ever, fate>>

Init ==
  /\ ever \subseteq Tokens
  /\ left = [t \in ever |-> Limit[t]]
  /\ fate = [r \in Requests |-> "open"]

Become(r, how) == fate' = [fate EXCEPT ![r] = how]

Exists(t) == t \in DOMAIN left

Take(r) ==
  LET t == Presents[r]
  IN  /\ fate[r] = "open"
      /\ Exists(t) /\ left[t] > 0
      /\ left' = [left EXCEPT ![t] = @ - 1]
      /\ Become(r, "taken")
      /\ UNCHANGED ever

Grant(r) ==
  /\ fate[r] = "taken"
  /\ Become(r, "granted")
  /\ UNCHANGED <<left, ever>>

\* A request may fail, or find its link expired, for reasons of its own.
TurnAway(r) ==
  LET t == Presents[r]
  IN  /\ fate[r] = "open"
      /\ \/ ~Exists(t) /\ Become(r, "not_found")
         \/ Exists(t) /\ left[t] = 0 /\ Become(r, "exhausted")
         \/ Exists(t) /\ left[t] > 0 /\ Become(r, "expired")
         \/ Become(r, "failed")
      /\ UNCHANGED <<left, ever>>

\* The process dies: some requests get no answer, what they took stays taken.
Die ==
  /\ \E dead \in SUBSET {r \in Requests : fate[r] \in {"open", "taken"}} :
       fate' = [r \in Requests |-> IF r \in dead THEN "lost" ELSE fate[r]]
  /\ UNCHANGED <<left, ever>>

Create(t) ==
  /\ t \in Tokens \ ever
  /\ ever' = ever \cup {t}
  /\ left' = [u \in DOMAIN left \cup {t} |->
                IF u = t THEN Limit[t] ELSE left[u]]
  /\ UNCHANGED fate

Burn(t) ==
  /\ Exists(t)
  /\ left' = [u \in DOMAIN left \ {t} |-> left[u]]
  /\ UNCHANGED <<ever, fate>>

Next ==
  \/ \E r \in Requests : Take(r) \/ Grant(r) \/ TurnAway(r)
  \/ Die
  \/ \E t \in Tokens : Create(t) \/ Burn(t)

Spec == Init /\ [][Next]_vars
=============================================================================
