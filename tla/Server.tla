------------------------------- MODULE Server -------------------------------
(***************************************************************************)
(* The process around the redeem handler of module Redeem: the cap on      *)
(* requests in flight (limitInFlight, server.go) and the way the process   *)
(* stops (main.go).                                                        *)
(*                                                                         *)
(* A client connects and sends its request; a slot of the semaphore admits *)
(* it, or it is told 503 at once.  The slot comes back when the handler    *)
(* returns.  SIGTERM starts a graceful shutdown: no new connections, wait  *)
(* for those that are open, at most until a deadline, then close the State *)
(* and exit.  Past the deadline, and when a listener fails, the process    *)
(* exits under its handlers.                                               *)
(*                                                                         *)
(* One run of the process is modelled; module Redeem restarts it.          *)
(* /healthz takes no slot and touches no state, and is left out.           *)
(***************************************************************************)
EXTENDS Redeem

CONSTANT MaxInFlight  \* maxInFlightRequests (256)

ASSUME MaxInFlightAssumption == MaxInFlight \in Nat \ {0}

\* This module ends the process by its own actions, not by Redeem's Crash.
ASSUME OneRunAssumption == ~MayCrash

VARIABLES
  life,     \* how far the process is on its way out
  slot      \* where each client's connection is, seen from limitInFlight

serverVars == <<vars, life, slot>>

Lives == {"serving", "draining", "drained", "stopped", "aborted"}
\* "held": the handler has a slot; "done": it has returned; "busy": told 503;
\* "closed": closed before a request was read.
Places == {"away", "connected", "held", "done", "busy", "closed"}

Listening == life = "serving"
Handling == life \in {"serving", "draining"}

InSlot == {r \in Requests : slot[r] = "held"}
OpenConnections == {r \in Requests : slot[r] \in {"connected", "held"}}

ServerInit ==
  /\ Init
  /\ life = "serving"
  /\ slot = [r \in Requests |-> "away"]

Move(r, place) == slot' = [slot EXCEPT ![r] = place]

Connect(r) ==
  /\ Listening
  /\ slot[r] = "away"
  /\ Move(r, "connected")
  /\ UNCHANGED <<vars, life>>

(***************************************************************************)
(* limitInFlight                                                           *)
(***************************************************************************)
\* Fault: the send to the channel is not tried, the request just goes on.
AdmitAlways(r) ==
  /\ Handling
  /\ slot[r] = "connected"
  /\ Move(r, "held")
  /\ UNCHANGED <<vars, life>>

Admit(r) ==
  /\ Handling
  /\ slot[r] = "connected"
  /\ Cardinality(InSlot) < MaxInFlight
  /\ Move(r, "held")
  /\ UNCHANGED <<vars, life>>

Busy(r) ==
  /\ Handling
  /\ slot[r] = "connected"
  /\ Cardinality(InSlot) >= MaxInFlight
  /\ Move(r, "busy")
  /\ UNCHANGED <<vars, life>>

\* The header does not come in time, or shutdown closes a new connection.
CloseUnread(r) ==
  /\ Handling
  /\ slot[r] = "connected"
  /\ Move(r, "closed")
  /\ UNCHANGED <<vars, life>>

\* The mux behind the semaphore runs the handler.
Handle(r) ==
  /\ Handling
  /\ slot[r] = "held"
  /\ Arrive(r) \/ HandleRedeem(r)
  /\ UNCHANGED <<life, slot>>

\* Fault: the slot is given back on the way to a 200 only.
ReleaseIfGranted(r) ==
  /\ Handling
  /\ slot[r] = "held" /\ pc[r] = "granted"
  /\ Move(r, "done")
  /\ UNCHANGED <<vars, life>>

\* The deferred receive, however the handler returned.
Release(r) ==
  /\ Handling
  /\ slot[r] = "held" /\ pc[r] \in Answers
  /\ Move(r, "done")
  /\ UNCHANGED <<vars, life>>

(***************************************************************************)
(* The end of the process                                                  *)
(***************************************************************************)
\* What the handlers were doing is gone; the file stays as the last rename
\* left it.
HandlersDie ==
  /\ pc' = [r \in Requests |-> IF pc[r] \in Active THEN "lost" ELSE pc[r]]
  /\ lock' = NoOne
  /\ UNCHANGED <<file, mem, clock, server, held, snap, expired, overtaken,
                 regressed, deleted, unsaved, slot>>

\* SIGTERM or SIGINT.
Terminate ==
  /\ life = "serving"
  /\ life' = "draining"
  /\ UNCHANGED <<vars, slot>>

\* Fault: shutdown closes the listeners and does not wait (Close, not Shutdown).
DrainedAtOnce ==
  /\ life = "draining"
  /\ life' = "drained"
  /\ UNCHANGED <<vars, slot>>

\* Shutdown returns once no connection is open.
Drained ==
  /\ life = "draining"
  /\ OpenConnections = {}
  /\ life' = "drained"
  /\ UNCHANGED <<vars, slot>>

\* Shutdown gives up with a connection open: exit status 1.
Deadline ==
  /\ life = "draining"
  /\ OpenConnections # {}
  /\ life' = "aborted"
  /\ HandlersDie

\* The accept loop ends with an error that is not ErrServerClosed: exit
\* status 1, from the listener's goroutine.
ListenerFails ==
  /\ life = "serving"
  /\ life' = "aborted"
  /\ HandlersDie

\* State.Close takes State.mu and gives it back; then main returns.
CloseState ==
  /\ life = "drained"
  /\ lock = NoOne
  /\ life' = "stopped"
  /\ HandlersDie

\* The world around a process that is still there.
Surroundings ==
  /\ life \in {"serving", "draining", "drained"}
  /\ DeleteFile \/ \E t \in Tokens : ExpiryPasses(t)
  /\ UNCHANGED <<life, slot>>

\* No connection is open: the process has ended, or main waits for State.mu
\* (StopEnds says that this wait ends).
Ended ==
  /\ life \in {"drained", "stopped", "aborted"}
  /\ UNCHANGED serverVars

ServerNext ==
  \/ \E r \in Requests : \/ Connect(r) \/ Admit(r) \/ Busy(r) \/ CloseUnread(r)
                         \/ Handle(r) \/ Release(r)
  \/ Terminate
  \/ Drained
  \/ Deadline
  \/ ListenerFails
  \/ CloseState
  \/ Surroundings
  \/ Ended

ServerSpec == ServerInit /\ [][ServerNext]_serverVars

\* Connections are read or time out (ReadHeaderTimeout), handlers run, and
\* main goes on once it may.  Clients need not connect, nobody has to stop the
\* process, and the deadline need not strike.
ServerFairness ==
  /\ \A r \in Requests :
       /\ WF_serverVars(Admit(r) \/ Busy(r) \/ CloseUnread(r))
       /\ WF_serverVars(Handle(r))
       /\ WF_serverVars(Release(r))
  /\ WF_serverVars(Drained)
  /\ WF_serverVars(CloseState)

FairServerSpec == ServerSpec /\ ServerFairness

(***************************************************************************)
(* What must hold                                                          *)
(***************************************************************************)
\* No interleaving of arrivals and returns has more than the cap in flight,
\* and a request is in the handler only while it has a slot.
ServerTypeOK ==
  /\ life \in Lives
  /\ slot \in [Requests -> Places]
  /\ Cardinality(InSlot) <= MaxInFlight
  /\ Handling => \A r \in Requests : pc[r] \in Active => r \in InSlot

\* A process that ends the graceful way ("bye") has answered every request it
\* let in: shutdown waits for the handlers, and none starts after the wait.
NothingLost ==
  life = "stopped" =>
    \A r \in Requests : r \notin InSlot /\ pc[r] # "lost"

\* It leaves exact books: if the disk took every write, nobody deleted the
\* file and no stale map was installed, then what the file has left for a
\* link and what was handed out add up to its limit.  A graceful stop neither
\* burns a redemption nor gives one back.
BooksClosed ==
  life = "stopped" /\ Sound =>
    \A t \in Registered :
      file.counts[t] + Cardinality(Granted(t)) = Limit[t]

\* However the handler ends (200, 4xx, a failed write), the request's slot
\* comes back, unless the process goes down under it.
SlotsComeBack ==
  \A r \in Requests :
    slot[r] = "connected" ~>
      \/ slot[r] \in {"done", "busy", "closed"}
      \/ life = "aborted"

\* A server told to stop stops, even if the deadline never strikes: requests
\* in flight cannot keep it, nor can a lock that an error path left taken.
StopEnds == life = "draining" ~> life \in {"stopped", "aborted"}

=============================================================================
