----------------------------- MODULE AtomicFile -----------------------------
(***************************************************************************)
(* What callers of atomicWriteFile rely on, without temporary files, syncs *)
(* and directories: a write replaces the file at once or does not touch    *)
(* it, an error means that it did not, and a power loss brings back a      *)
(* state the file was in, at the earliest the one that was last settled.   *)
(***************************************************************************)
CONSTANTS
  Writers,   \* calls; each writes data of its own
  Original,  \* the data that was there before
  NoFile     \* there is no file

VARIABLES
  content,   \* what readers find: data and its owner, or NoFile
  fallback,  \* what they may find after a power loss
  rightful,  \* the owner of the file, or of the one to come
  outcome    \* per call: how far it is, as its caller sees it

vars == <<content, fallback, rightful, outcome>>

By(data) == [version |-> data, owner |-> rightful]

Init ==
  /\ content \in {By(Original), NoFile}
  /\ fallback = {content}
  /\ outcome = [w \in Writers |-> "uncalled"]

Become(w, how) == outcome' = [outcome EXCEPT ![w] = how]

Call(w) ==
  /\ outcome[w] = "uncalled"
  /\ Become(w, "called")
  /\ UNCHANGED <<content, fallback, rightful>>

Replace(w) ==
  /\ outcome[w] = "called"
  /\ Become(w, "replaced")
  /\ content' = By(w)
  /\ fallback' = fallback \cup {content'}
  /\ UNCHANGED rightful

\* The replacement need not be settled when the call returns.
Succeed(w) ==
  /\ outcome[w] = "replaced"
  /\ Become(w, "succeeded")
  /\ fallback' \in {fallback, {content}}
  /\ UNCHANGED <<content, rightful>>

Err(w) ==
  /\ outcome[w] \in {"uncalled", "called"}
  /\ Become(w, "failed")
  /\ UNCHANGED <<content, fallback, rightful>>

Dying(o) == IF o \in {"called", "replaced"} THEN "died" ELSE o

Die(w) ==
  /\ Become(w, Dying(outcome[w]))
  /\ UNCHANGED <<content, fallback, rightful>>

PowerLoss ==
  /\ content' \in fallback
  /\ fallback' = {content'}
  /\ outcome' = [w \in Writers |-> Dying(outcome[w])]
  /\ UNCHANGED rightful

Next ==
  \/ \E w \in Writers :
       Call(w) \/ Replace(w) \/ Succeed(w) \/ Err(w) \/ Die(w)
  \/ PowerLoss

Spec == Init /\ [][Next]_vars
=============================================================================
