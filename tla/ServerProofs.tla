---------------------------- MODULE ServerProofs ----------------------------
(***************************************************************************)
(* Proofs about Server, for any set of requests and any cap.  A server     *)
(* that does not exit under its handlers takes steps of Redeem: what       *)
(* RedeemProofs shows of those steps is used here.                         *)
(***************************************************************************)
EXTENDS Server, RedeemProofs, FiniteSetTheorems, TLAPS

\* Nothing is lost while handlers may run, and from the moment shutdown has
\* returned nobody is in the handler any more.
Orderly ==
  /\ pc \in [Requests -> Phases]
  /\ Handling => \A r \in Requests : pc[r] # "lost"
  /\ life \in {"drained", "stopped"} =>
       \A r \in Requests :
         r \notin InSlot /\ pc[r] \notin Active /\ pc[r] # "lost"

SInv == ServerTypeOK /\ Orderly

LEMMA SlotsFinite == IsFiniteSet(InSlot) /\ Cardinality(InSlot) \in Nat
  <1>1. InSlot \subseteq Requests
    BY DEF InSlot
  <1>2. QED
    BY <1>1, RequestsAssumption, FS_Subset, FS_CardinalityType

\* A handler moves its own request only, and never to "lost".
LEMMA HandlerMoves ==
  ASSUME NEW r \in Requests, Arrive(r) \/ HandleRedeem(r)
  PROVE  \E p \in Phases \ {"lost"} : pc' = [pc EXCEPT ![r] = p]
  <1> USE DEF Goto, Phases, Active, Reloading, Serving, Writing, Answers
  <1>1. CASE Arrive(r)
    BY <1>1 DEF Arrive
  <1>2. CASE Poll(r)
    BY <1>2 DEF Poll, StatTokens, ClearTokens, LoadTokens, LoadFails,
                InstallTokens
  <1>3. CASE Serve(r)
    BY <1>3 DEF Serve, Screen, Refuse, Lookup, Mint, MintFails, Respond,
                TurnAway
  <1>4. CASE Consume(r)
    BY <1>4 DEF Consume, Charge, ChargeDenied, RenameFile, PersistFails,
                RestatFile, TurnAway
  <1>5. QED
    BY <1>1, <1>2, <1>3, <1>4 DEF HandleRedeem

LEMMA SInvInit == ServerInit => SInv
  <1> SUFFICES ASSUME ServerInit
               PROVE  SInv
    OBVIOUS
  <1>1. InSlot = {}
    BY DEF ServerInit, InSlot
  <1>2. Cardinality(InSlot) <= MaxInFlight
    BY <1>1, FS_EmptySet, MaxInFlightAssumption
  <1>3. QED
    BY <1>2 DEF ServerInit, Init, SInv, ServerTypeOK, Orderly, Lives, Places,
                Handling, Phases, Active, Reloading, Serving, Writing

LEMMA SInvStep == SInv /\ [ServerNext]_serverVars => SInv'
  <1> SUFFICES ASSUME SInv, [ServerNext]_serverVars
               PROVE  SInv'
    OBVIOUS
  <1> USE DEF SInv, ServerTypeOK, Orderly, Lives, Places, Handling, Listening,
              Move
  \* A connection outside the handler comes, goes, or returns.
  <1>1. ASSUME NEW r \in Requests,
               Connect(r) \/ Busy(r) \/ CloseUnread(r) \/ Release(r)
        PROVE  SInv'
    <2>1. /\ pc' = pc /\ life' = life
          /\ life \in {"serving", "draining"}
          /\ slot' \in [Requests -> Places]
          /\ InSlot' \subseteq InSlot
          /\ InSlot \subseteq InSlot' \cup {r}
      BY <1>1 DEF Connect, Busy, CloseUnread, Release, vars, InSlot
    <2>2. pc[r] \in Active => r \in InSlot'
      BY <1>1 DEF Connect, Busy, CloseUnread, Release, InSlot, Active, Answers,
                  Reloading, Serving, Writing
    <2>3. Cardinality(InSlot') <= Cardinality(InSlot)
          /\ Cardinality(InSlot') \in Nat
      BY <2>1, SlotsFinite, FS_Subset, FS_CardinalityType
    <2>4. Cardinality(InSlot') <= MaxInFlight
      BY <2>3, SlotsFinite, MaxInFlightAssumption
    <2>5. QED
      BY <2>1, <2>2, <2>4
  <1>2. ASSUME NEW r \in Requests, Admit(r)
        PROVE  SInv'
    <2>1. InSlot' = InSlot \cup {r} /\ r \notin InSlot
      BY <1>2 DEF Admit, InSlot
    <2>2. Cardinality(InSlot') = Cardinality(InSlot) + 1
      BY <2>1, SlotsFinite, FS_AddElement
    <2>3. Cardinality(InSlot') <= MaxInFlight
      BY <1>2, <2>2, SlotsFinite, MaxInFlightAssumption DEF Admit
    <2>4. QED
      BY <1>2, <2>1, <2>3 DEF Admit, vars
  <1>3. ASSUME NEW r \in Requests, Handle(r)
        PROVE  SInv'
    <2>1. PICK p \in Phases \ {"lost"} : pc' = [pc EXCEPT ![r] = p]
      BY <1>3, HandlerMoves DEF Handle
    <2>2. r \in InSlot /\ InSlot' = InSlot
      BY <1>3 DEF Handle, InSlot
    <2>3. /\ life' = life /\ slot' = slot
          /\ life \in {"serving", "draining"}
      BY <1>3 DEF Handle
    <2>4. QED
      BY <2>1, <2>2, <2>3
  <1>4. CASE Terminate
    BY <1>4 DEF Terminate, vars, InSlot
  <1>5. CASE Drained
    <2>1. InSlot = {} /\ InSlot' = InSlot
      BY <1>5 DEF Drained, OpenConnections, InSlot
    <2>2. QED
      BY <1>5, <2>1 DEF Drained, vars
  \* The process exits under its handlers.
  <1>6. CASE Deadline \/ ListenerFails
    <2>1. /\ life' = "aborted" /\ slot' = slot
          /\ pc' \in [Requests -> Phases]
          /\ InSlot' = InSlot
      BY <1>6 DEF Deadline, ListenerFails, HandlersDie, Phases, Answers, InSlot
    <2>2. QED
      BY <2>1
  <1>7. CASE CloseState
    <2>1. /\ life = "drained" /\ life' = "stopped" /\ slot' = slot
          /\ InSlot' = InSlot
          /\ pc' = [r \in Requests |-> IF pc[r] \in Active THEN "lost" ELSE pc[r]]
      BY <1>7 DEF CloseState, HandlersDie, InSlot
    <2>2. pc' = pc
      BY <2>1
    <2>3. QED
      BY <2>1, <2>2
  <1>8. CASE Surroundings
    BY <1>8 DEF Surroundings, DeleteFile, ExpiryPasses, InSlot
  <1>9. CASE Ended \/ UNCHANGED serverVars
    BY <1>9 DEF Ended, serverVars, vars, InSlot
  <1>10. QED
    BY <1>1, <1>2, <1>3, <1>4, <1>5, <1>6, <1>7, <1>8, <1>9 DEF ServerNext

\* However many requests arrive and in whatever order their handlers return,
\* the cap holds, and nobody is in the handler without a slot.
THEOREM CapHolds == ServerSpec => []ServerTypeOK
  <1>1. SInv => ServerTypeOK
    BY DEF SInv
  <1>2. QED
    BY SInvInit, SInvStep, <1>1, PTL DEF ServerSpec

\* A graceful stop leaves no request without its answer.
THEOREM GracefulStop == ServerSpec => []NothingLost
  <1>1. SInv => NothingLost
    BY DEF SInv, Orderly, NothingLost
  <1>2. QED
    BY SInvInit, SInvStep, <1>1, PTL DEF ServerSpec

(***************************************************************************)
(* The token map across the end of the process                             *)
(***************************************************************************)
\* What a step of the server is for Redeem.
LEMMA ServerSteps ==
  ASSUME [ServerNext]_serverVars
  PROVE  [Next]_vars \/ (HandlersDie /\ life' \in {"aborted", "stopped"})
  BY DEF ServerNext, Connect, Admit, Busy, CloseUnread, Handle, Release,
         Terminate, Drained, Deadline, ListenerFails, CloseState, Surroundings,
         Ended, serverVars, Next

LEMMA DeathKeepsTypes ==
  ASSUME TInv, HandlersDie
  PROVE  TInv'
  BY DEF HandlersDie, TInv, TypeOK, InFlight, Phases, Active, Answers, Reloading

LEMMA DeathKeepsOnce ==
  ASSUME NEW t \in Tokens, TInv, OnceInv(t), HandlersDie
  PROVE  OnceInv(t)'
  <1>1. /\ UNCHANGED <<file, mem, server, held, snap>>
        /\ \A q \in Requests :
             pc'[q] = IF pc[q] \in Active THEN "lost" ELSE pc[q]
    BY DEF HandlersDie
  <1>2. Payers' \subseteq Payers
    BY <1>1 DEF Payers, Writing
  <1>3. QED
    BY <1>1, <1>2 DEF OnceInv, Active, Reloading, Serving, Writing

\* The last redemption is handed out once whatever happens to the process
\* around the handlers.
THEOREM LastRedemptionServed == ServerSpec => []LastRedemptionOnce
  <1>1. CASE OneLastRedemption
    <2>1. PICK t \in Tokens : OnlyLink(t)
      BY <1>1 DEF OneLastRedemption, OnlyLink
    <2> DEFINE I == TInv /\ (Lossless => OnceInv(t))
    <2>2. ServerInit => I
      BY <2>1, TInvInit, OnceInit DEF ServerInit
    <2>3. I /\ [ServerNext]_serverVars => I'
      <3> SUFFICES ASSUME I, [ServerNext]_serverVars PROVE I'
        OBVIOUS
      <3>1. CASE [Next]_vars
        BY <3>1, <2>1, TInvStep, OnceStep, HistoryStays DEF Lossless
      <3>2. CASE HandlersDie
        <4>1. Lossless' = Lossless
          BY <3>2 DEF HandlersDie, Lossless
        <4>2. QED
          BY <3>2, <4>1, DeathKeepsTypes, DeathKeepsOnce
      <3>3. QED
        BY <3>1, <3>2, ServerSteps
    <2>4. I => LastRedemptionOnce
      BY <2>1 DEF OnceInv, LastRedemptionOnce, OnlyLink, Granted, At, Payers
    <2>5. QED
      BY <2>2, <2>3, <2>4, PTL DEF ServerSpec
  <1>2. CASE ~OneLastRedemption
    <2>1. ServerInit => LastRedemptionOnce
      BY <1>2 DEF LastRedemptionOnce
    <2>2. LastRedemptionOnce /\ [ServerNext]_serverVars => LastRedemptionOnce'
      BY <1>2 DEF LastRedemptionOnce, OneLastRedemption
    <2>3. QED
      BY <2>1, <2>2, PTL DEF ServerSpec
  <1>3. QED
    BY <1>1, <1>2

\* Until the process exits under its handlers the books of Redeem balance.
BooksKept == Sound /\ life # "aborted"

KInv == SInv /\ TInv /\ (life # "aborted" => LockInv) /\ (BooksKept => BooksInv)

LEMMA NoWayBack ==
  ASSUME [ServerNext]_serverVars
  PROVE  life = "aborted" => life' = "aborted"
  BY DEF ServerNext, Connect, Admit, Busy, CloseUnread, Handle, Release,
         Terminate, Drained, Deadline, ListenerFails, CloseState, Surroundings,
         Ended, serverVars, Handling, Listening

LEMMA KInvStep == KInv /\ [ServerNext]_serverVars => KInv'
  <1> SUFFICES ASSUME KInv, [ServerNext]_serverVars
               PROVE  KInv'
    OBVIOUS
  <1>1. SInv'
    BY SInvStep DEF KInv
  <1>2. CASE [Next]_vars
    <2>1. TInv'
      BY <1>2, TInvStep DEF KInv
    <2>2. life' # "aborted" => LockInv'
      BY <1>2, LockStep, NoWayBack DEF KInv, TInv, TypeOK
    <2>3. ASSUME BooksKept'
          PROVE  BooksInv'
      <3>1. BooksKept
        BY <1>2, <2>3, HistoryStays, NoWayBack DEF Sound, BooksKept
      <3>2. QED
        BY <1>2, <2>3, <3>1, BooksStep DEF BooksKept, KInv
    <2>4. QED
      BY <1>1, <2>1, <2>2, <2>3 DEF KInv
  \* The process exits: either the books are void, or nobody was at work.
  <1>3. CASE HandlersDie /\ life' \in {"aborted", "stopped"}
    <2>1. TInv'
      BY <1>3, DeathKeepsTypes DEF KInv
    <2>2. CASE life' = "aborted"
      BY <1>1, <2>1, <2>2 DEF KInv, BooksKept
    <2>3. CASE life' = "stopped"
      <3>1. life \in {"drained", "stopped"}
        BY <1>3, <2>3 DEF ServerNext, Connect, Admit, Busy, CloseUnread, Handle,
             Release, Terminate, Drained, Deadline, ListenerFails, CloseState,
             Surroundings, Ended, serverVars, Handling, Listening, KInv, SInv,
             ServerTypeOK
      <3>2. \A r \in Requests : pc[r] \notin Active
        BY <3>1 DEF KInv, SInv, Orderly
      <3>3. pc' = pc /\ lock' = lock
        <4>1. lock = NoOne
          BY <3>1, <3>2 DEF KInv, LockInv, TInv, TypeOK, Active
        <4>2. QED
          BY <1>3, <3>2, <4>1 DEF HandlersDie, KInv, SInv, Orderly
      <3>4. UNCHANGED <<file, mem, snap, overtaken, regressed, deleted, unsaved>>
        BY <1>3 DEF HandlersDie
      <3>5. \A t \in Registered : Durable(t)' = Durable(t)
        BY <3>3 DEF Durable, At
      <3>6. LockInv'
        BY <3>1, <3>3 DEF KInv, LockInv
      <3>7. BooksKept' => BooksInv'
        BY <3>1, <3>3, <3>4, <3>5 DEF KInv, BooksKept, Sound, BooksInv
      <3>8. QED
        BY <1>1, <2>1, <3>6, <3>7 DEF KInv
    <2>4. QED
      BY <1>3, <2>2, <2>3
  <1>4. QED
    BY <1>2, <1>3, ServerSteps

\* A graceful stop leaves exact books, for any number of links and requests, if
\* the disk took every write it was asked for.
THEOREM ExactBooks == ServerSpec => []BooksClosed
  <1>1. ServerInit => KInv
    BY SInvInit, BooksInit DEF ServerInit, KInv, BInv
  <1>2. KInv => BooksClosed
    <2> SUFFICES ASSUME KInv, life = "stopped", BooksKept, NEW t \in Registered
                 PROVE  file.counts[t] + Cardinality(Granted(t)) = Limit[t]
      BY DEF BooksClosed, BooksKept, Sound
    <2>1. \A r \in Requests : pc[r] \notin Active
      BY DEF KInv, SInv, Orderly
    <2>2. Granted(t) = Durable(t)
      BY <2>1 DEF Granted, Durable, At, Active, Writing
    <2>3. QED
      BY <2>2, OneRunAssumption DEF KInv, BooksInv
  <1>3. QED
    BY <1>1, <1>2, KInvStep, PTL DEF ServerSpec

(***************************************************************************)
(* One registry of links, also around the end of the process               *)
(***************************************************************************)
\* Once the process has exited under its handlers nothing moves any more.
LEMMA NothingAfter ==
  ASSUME [ServerNext]_serverVars, life = "aborted"
  PROVE  UNCHANGED vars
  BY DEF ServerNext, Connect, Admit, Busy, CloseUnread, Handle, Release,
         Terminate, Drained, Deadline, ListenerFails, CloseState, Surroundings,
         Ended, serverVars, Handling, Listening

\* The cap, a graceful stop and an exit under the handlers leave the links what
\* they are in ShareLinks: an exit costs answers, and no redemption is taken
\* or given back by it.
THEOREM ServedAtOnce == ServerSpec => RedeemedAtOnce
  <1>1. ServerInit => KInv /\ Links!Init
    BY SInvInit, BooksInit, LinksInit DEF ServerInit, KInv, BInv
  <1>2. KInv /\ [ServerNext]_serverVars
          => [Sound' => Links!Next \/ UNCHANGED Links!vars]_vars
    <2> SUFFICES ASSUME KInv, [ServerNext]_serverVars, Sound'
                 PROVE  Links!Next \/ UNCHANGED Links!vars \/ UNCHANGED vars
      OBVIOUS
    <2>1. CASE life = "aborted"
      BY <2>1, NothingAfter
    <2>2. CASE life # "aborted" /\ [Next]_vars
      <3>1. Sound
        BY <2>2, HistoryStays DEF Sound
      <3>2. BInv
        BY <2>2, <3>1 DEF KInv, BInv, BooksKept
      <3>3. QED
        BY <2>2, <3>2, RedeemImplements
    <2>3. CASE HandlersDie
      <3>1. Links!Die
        BY <2>3, HandlersLost DEF HandlersDie, KInv, TInv, TypeOK
      <3>2. QED
        BY <3>1 DEF Links!Next
    <2>4. QED
      BY <2>1, <2>2, <2>3, ServerSteps
  <1>3. QED
    BY KInvStep, <1>1, <1>2, PTL DEF ServerSpec, RedeemedAtOnce

=============================================================================
