---------------------------- MODULE RedeemProofs ----------------------------
(***************************************************************************)
(* Proofs about Redeem, and about Redeem with dashboards (RedeemConsole),  *)
(* for any set of requests, tokens and dashboards, any limits and any      *)
(* interleaving.                                                           *)
(***************************************************************************)
EXTENDS RedeemConsole, FiniteSetTheorems, TLAPS

(***************************************************************************)
(* 1. Types                                                                *)
(***************************************************************************)
\* A request clears the map only if the file is absent, so that nothing was ever
\* registered or the file was deleted; one about to install has loaded a map.
InFlight ==
  ~deleted =>
    \A r \in Requests :
      /\ pc[r] = "clear" => Registered = {}
      /\ pc[r] = "install" => snap[r] \in Counts

TInv == TypeOK /\ InFlight

LEMMA InitialFileType == InitialFile \in [counts : Counts, mtime : Nat]
  BY TokensAssumption DEF InitialFile, NoFile, NoCounts, Counts

LEMMA AbsentMeansEmpty ==
  ASSUME file \in [counts : Counts, mtime : Nat], file = NoFile
  PROVE  Registered = {}
  BY DEF NoFile, NoCounts, Counts

\* Removing the last t of a map of naturals leaves a map of naturals.
LEMMA ChargeType ==
  ASSUME TypeOK, NEW r \in Requests, Redeemable(r)
  PROVE  /\ Presents[r] \in Registered
         /\ mem.counts[Presents[r]] \in Nat \ {0}
         /\ [mem EXCEPT !.counts[Presents[r]] = @ - 1]
              \in [counts : Counts, mtime : Nat]
  <1>1. mem \in [counts : Counts, mtime : Nat]
    <2>1. mem \in [counts : Maps, mtime : Nat] /\ mem.counts # NoCounts
      BY DEF TypeOK, Redeemable, Unknown, NoCounts
    <2>2. QED
      BY <2>1 DEF Maps
  <1>2. /\ DOMAIN mem.counts = Registered
        /\ Presents[r] \in Registered
        /\ mem.counts[Presents[r]] # 0
    BY <1>1 DEF Redeemable, Unknown, Exhausted, Counts
  <1>3. mem.counts[Presents[r]] \in Nat \ {0}
    BY <1>1, <1>2 DEF Counts
  <1> DEFINE n == mem.counts[Presents[r]]
  <1>4. n - 1 \in Nat
    BY <1>3
  <1>5. [mem.counts EXCEPT ![Presents[r]] = n - 1] \in Counts
    BY <1>1, <1>2, <1>4 DEF Counts
  <1>6. [mem EXCEPT !.counts[Presents[r]] = @ - 1]
          = [mem EXCEPT !.counts = [mem.counts EXCEPT ![Presents[r]] = n - 1]]
    BY <1>1
  <1>7. QED
    BY <1>1, <1>2, <1>3, <1>5, <1>6

LEMMA TInvInit == Init => TInv
  <1> SUFFICES ASSUME Init
               PROVE  TInv
    OBVIOUS
  <1>1. pc = [r \in Requests |-> "idle"] /\ pc \in [Requests -> Phases]
    BY DEF Init, Phases
  <1>2. InFlight
    BY <1>1 DEF InFlight
  <1>3. snap \in [Requests -> Maps]
    BY DEF Init, Maps
  <1>4. QED
    BY InitialFileType, <1>1, <1>2, <1>3 DEF Init, TInv, TypeOK, Maps

LEMMA TInvStep == TInv /\ [Next]_vars => TInv'
  <1> SUFFICES ASSUME TInv, [Next]_vars
               PROVE  TInv'
    OBVIOUS
  <1> USE DEF TInv, TypeOK, InFlight, Maps, Goto, Phases, Active, Reloading,
              Serving, Writing, Answers
  <1>1. ASSUME NEW r \in Requests, Arrive(r)
        PROVE  TInv'
    BY <1>1 DEF Arrive
  <1>2. ASSUME NEW r \in Requests, StatTokens(r)
        PROVE  TInv'
    BY <1>2, AbsentMeansEmpty DEF StatTokens
  <1>3. ASSUME NEW r \in Requests, ClearTokens(r)
        PROVE  TInv'
    <2>1. /\ NoFile \in [counts : Maps, mtime : Nat]
          /\ ~deleted => NoFile.counts \in Counts
      BY <1>3 DEF ClearTokens, NoFile, NoCounts, Counts
    <2>2. QED
      BY <1>3, <2>1 DEF ClearTokens
  <1>4. ASSUME NEW r \in Requests, LoadTokens(r)
        PROVE  TInv'
    BY <1>4 DEF LoadTokens
  <1>5. ASSUME NEW r \in Requests, LoadFails(r)
        PROVE  TInv'
    BY <1>5 DEF LoadFails
  <1>6. ASSUME NEW r \in Requests, InstallTokens(r)
        PROVE  TInv'
    BY <1>6 DEF InstallTokens
  <1>7. ASSUME NEW r \in Requests, Serve(r)
        PROVE  TInv'
    BY <1>7 DEF Serve, Screen, Refuse, Lookup, Mint, MintFails, Respond,
                TurnAway
  <1>8. ASSUME NEW r \in Requests, Charge(r)
        PROVE  TInv'
    <2>1. mem' \in [counts : Counts, mtime : Nat]
      BY <1>8, ChargeType DEF Charge
    <2>2. clock' \in Nat
      BY <1>8, FaultsAssumption DEF Charge
    <2>3. QED
      BY <1>8, <2>1, <2>2 DEF Charge
  <1>9. ASSUME NEW r \in Requests, ChargeDenied(r)
        PROVE  TInv'
    BY <1>9 DEF ChargeDenied, TurnAway
  <1>10. ASSUME NEW r \in Requests, RenameFile(r)
         PROVE  TInv'
    BY <1>10 DEF RenameFile
  <1>11. ASSUME NEW r \in Requests, PersistFails(r)
         PROVE  TInv'
    BY <1>11 DEF PersistFails
  <1>12. ASSUME NEW r \in Requests, RestatFile(r)
         PROVE  TInv'
    BY <1>12 DEF RestatFile
  <1>13. ASSUME NEW t \in Tokens, ExpiryPasses(t)
         PROVE  TInv'
    BY <1>13 DEF ExpiryPasses
  <1>14. CASE Crash
    BY <1>14 DEF Crash
  <1>15. CASE BootStat
    BY <1>15 DEF BootStat
  <1>16. CASE DeleteFile
    <2>1. NoFile \in [counts : Maps, mtime : Nat]
      BY DEF NoFile
    <2>2. QED
      BY <1>16, <2>1 DEF DeleteFile
  <1>17. CASE Served \/ UNCHANGED vars
    BY <1>17 DEF Served, vars
  <1>18. QED
    BY <1>1, <1>2, <1>3, <1>4, <1>5, <1>6, <1>7, <1>8, <1>9, <1>10, <1>11,
       <1>12, <1>13, <1>14, <1>15, <1>16, <1>17
       DEF Next, HandleRedeem, Poll, Consume

\* No interleaving of requests, failed writes and crashes drives a count
\* below zero, drops a token from a copy of the map while the file is there, or
\* leaves a request outside handleRedeem.
THEOREM Typing == Spec => []TypeOK
  <1>1. TInv => TypeOK
    BY DEF TInv
  <1>2. QED
    BY TInvInit, TInvStep, <1>1, PTL DEF Spec

\* Histories do not forget.
LEMMA HistoryStays ==
  ASSUME [Next]_vars
  PROVE  /\ regressed => regressed'
         /\ deleted => deleted'
         /\ unsaved => unsaved'
  <1>1. regressed => regressed'
    BY DEF Next, HandleRedeem, Poll, Serve, Consume, Arrive, StatTokens,
           ClearTokens, LoadTokens, LoadFails, InstallTokens, Screen, Refuse,
           Lookup, Mint, MintFails, Charge, ChargeDenied, RenameFile,
           PersistFails, RestatFile, Respond, ExpiryPasses, Crash, BootStat,
           DeleteFile, Served, vars
  <1>2. deleted => deleted'
    BY DEF Next, HandleRedeem, Poll, Serve, Consume, Arrive, StatTokens,
           ClearTokens, LoadTokens, LoadFails, InstallTokens, Screen, Refuse,
           Lookup, Mint, MintFails, Charge, ChargeDenied, RenameFile,
           PersistFails, RestatFile, Respond, ExpiryPasses, Crash, BootStat,
           DeleteFile, Served, vars
  <1>3. unsaved => unsaved'
    BY DEF Next, HandleRedeem, Poll, Serve, Consume, Arrive, StatTokens,
           ClearTokens, LoadTokens, LoadFails, InstallTokens, Screen, Refuse,
           Lookup, Mint, MintFails, Charge, ChargeDenied, RenameFile,
           PersistFails, RestatFile, Respond, ExpiryPasses, Crash, BootStat,
           DeleteFile, Served, vars
  <1>4. QED
    BY <1>1, <1>2, <1>3

(***************************************************************************)
(* 2. The last redemption                                                  *)
(*                                                                         *)
(* While the file still has the one redemption, it is the file the map in  *)
(* memory was read from and no request can find it newer, so no request    *)
(* holds a loaded copy.  Once the file has none, no copy anywhere has one. *)
(* A memory that still has the redemption has charged nobody.              *)
(***************************************************************************)
Payers == {r \in Requests : pc[r] \in Writing \cup {"respond", "granted"}}

OnceInv(t) ==
  /\ file.counts[t] # 0 =>
       /\ server = "up" => file.mtime <= mem.mtime
       /\ \A r \in Requests :
            /\ pc[r] = "stat" => file.mtime <= held[r]
            /\ pc[r] \notin {"load", "install", "restat"}
       /\ MayCrash => \A r \in Requests : pc[r] \notin {"respond", "granted"}
  /\ file.counts[t] = 0 =>
       /\ mem.counts[t] = 0
       /\ \A r \in Requests : pc[r] = "install" => snap[r][t] = 0
  /\ file.counts[t] \in {0, 1} /\ mem.counts[t] \in {0, 1}
  /\ mem.counts[t] # 0 => Payers = {}
  /\ \A q, r \in Payers : q = r
  /\ \A r \in Requests :
       /\ pc[r] \in Active => server = "up"
       /\ pc[r] # "clear"
       /\ pc[r] \in {"mint", "charge"} \cup Writing \cup {"respond", "granted"}
            => Presents[r] = t

\* The setting of TestRedeemConcurrentRedemptionsCannotOverdraw.
OnlyLink(t) == Registered = {t} /\ Limit[t] <= 1

LEMMA OnceInit ==
  ASSUME NEW t \in Tokens, OnlyLink(t), Init
  PROVE  OnceInv(t)
  <1>1. file = [counts |-> [u \in Registered |-> Limit[u]], mtime |-> 1]
    BY DEF Init, InitialFile, OnlyLink
  <1>2. file.counts[t] \in {0, 1} /\ mem = file
    BY <1>1, TokensAssumption DEF OnlyLink, Init
  <1>3. \A r \in Requests : pc[r] = "idle"
    BY DEF Init
  <1>4. Payers = {}
    BY <1>3 DEF Payers, Writing
  <1>5. file.mtime = 1 /\ server = "up"
    BY <1>1 DEF Init
  <1>6. QED
    BY <1>2, <1>3, <1>4, <1>5 DEF OnceInv, Writing

LEMMA OnceStep ==
  ASSUME NEW t \in Tokens, OnlyLink(t), Lossless, Lossless', TInv, OnceInv(t),
         [Next]_vars
  PROVE  OnceInv(t)'
  <1>0. /\ Registered = {t}
        /\ file \in [counts : [{t} -> Nat], mtime : Nat]
        /\ mem \in [counts : [{t} -> Nat], mtime : Nat]
        /\ file # NoFile
        /\ \A r \in Requests : pc[r] = "install" => snap[r] \in [{t} -> Nat]
        /\ ~deleted
    <2>1. Registered = {t} /\ file \in [counts : Counts, mtime : Nat]
      BY DEF OnlyLink, TInv, TypeOK, Lossless
    <2>2. file # NoFile
      BY <2>1, AbsentMeansEmpty
    <2>3. QED
      BY <2>1, <2>2 DEF TInv, TypeOK, InFlight, Counts, Lossless
  <1> USE <1>0 DEF TInv, TypeOK, InFlight, Goto, Phases, Active, Reloading,
              Serving, Writing, Answers, OnceInv, Payers
  <1>1. ASSUME NEW r \in Requests, Arrive(r)
        PROVE  OnceInv(t)'
    BY <1>1, <1>0 DEF Arrive
  <1>2. ASSUME NEW r \in Requests, StatTokens(r)
        PROVE  OnceInv(t)'
    BY <1>2, <1>0 DEF StatTokens
  <1>3. ASSUME NEW r \in Requests, ClearTokens(r)
        PROVE  OnceInv(t)'
    BY <1>3 DEF ClearTokens
  <1>4. ASSUME NEW r \in Requests, LoadTokens(r)
        PROVE  OnceInv(t)'
    BY <1>4, <1>0 DEF LoadTokens
  <1>5. ASSUME NEW r \in Requests, LoadFails(r)
        PROVE  OnceInv(t)'
    BY <1>5, <1>0 DEF LoadFails
  <1>6. ASSUME NEW r \in Requests, InstallTokens(r)
        PROVE  OnceInv(t)'
    <2>1. file.counts[t] = 0 /\ snap[r][t] = 0
      BY <1>6, <1>0 DEF InstallTokens
    <2>2. mem'.counts[t] = 0 /\ Payers' = Payers
      BY <1>6, <2>1 DEF InstallTokens
    <2>3. file' = file /\ server' = server
      BY <1>6 DEF InstallTokens
    <2>4. \A q \in Requests :
            /\ pc'[q] = IF q = r THEN "screen" ELSE pc[q]
            /\ pc'[q] = "install" => snap'[q] = snap[q]
      BY <1>6 DEF InstallTokens
    <2>5. server = "up"
      BY <1>6 DEF InstallTokens
    <2>6. QED
      BY <2>1, <2>2, <2>3, <2>4, <2>5, <1>0
  <1>7. ASSUME NEW r \in Requests, Serve(r)
        PROVE  OnceInv(t)'
    BY <1>7, <1>0 DEF Serve, Screen, Refuse, Lookup, Mint, MintFails, Respond,
                TurnAway, Redeemable, Unknown
  <1>8. ASSUME NEW r \in Requests, Charge(r)
        PROVE  OnceInv(t)'
    <2>1. /\ Presents[r] = t
          /\ mem.counts[t] = 1 /\ mem'.counts[t] = 0 /\ mem'.mtime = mem.mtime
      BY <1>8, <1>0, ChargeType DEF Charge
    <2>2. Payers' = {r} /\ file.counts[t] # 0
      BY <1>8, <2>1 DEF Charge
    <2>3. QED
      BY <1>8, <2>1, <2>2, <1>0 DEF Charge
  <1>9. ASSUME NEW r \in Requests, ChargeDenied(r)
        PROVE  OnceInv(t)'
    BY <1>9, <1>0 DEF ChargeDenied, TurnAway
  <1>10. ASSUME NEW r \in Requests, RenameFile(r)
         PROVE  OnceInv(t)'
    <2>1. r \in Payers /\ mem.counts[t] = 0
      BY <1>10 DEF RenameFile
    <2>2. file'.counts[t] = 0 /\ Payers' = Payers
      BY <1>10, <2>1 DEF RenameFile
    <2>3. ASSUME NEW q \in Requests
          PROVE  pc[q] = "install" => snap[q][t] = 0
      BY <1>0
    <2>4. QED
      BY <1>10, <2>1, <2>2, <2>3, <1>0 DEF RenameFile
  <1>11. ASSUME NEW r \in Requests, PersistFails(r)
         PROVE  OnceInv(t)'
    BY <1>11, <1>0 DEF PersistFails, Lossless
  <1>12. ASSUME NEW r \in Requests, RestatFile(r)
         PROVE  OnceInv(t)'
    BY <1>12, <1>0 DEF RestatFile
  <1>13. ASSUME NEW u \in Tokens, ExpiryPasses(u)
         PROVE  OnceInv(t)'
    BY <1>13 DEF ExpiryPasses
  <1>14. CASE Crash
    <2>1. /\ mem'.counts = file.counts /\ file' = file
          /\ server' = "booting" /\ MayCrash
          /\ \A q \in Requests :
               pc'[q] = IF pc[q] \in Active THEN "lost" ELSE pc[q]
      BY <1>14 DEF Crash
    <2>2. Payers' = {q \in Requests : pc[q] = "granted"}
      BY <2>1
    <2>3. QED
      BY <2>1, <2>2, <1>0
  <1>15. CASE BootStat
    BY <1>15, <1>0 DEF BootStat
  <1>16. CASE Served \/ UNCHANGED vars
    BY <1>16 DEF Served, vars
  <1>17. CASE DeleteFile
    BY <1>17 DEF DeleteFile, Lossless
  <1>18. QED
    BY <1>1, <1>2, <1>3, <1>4, <1>5, <1>6, <1>7, <1>8, <1>9, <1>10, <1>11,
       <1>12, <1>13, <1>14, <1>15, <1>16, <1>17
       DEF Next, HandleRedeem, Poll, Consume

\* Of a link with one redemption left, alone in the registry, any number of
\* concurrent requests get at most one, even if writes fail or, as long as none
\* has, if the process is killed and restarted at any point, while the file is
\* not deleted.
THEOREM LastRedemption == Spec => []LastRedemptionOnce
  <1>1. CASE OneLastRedemption
    <2>1. PICK t \in Tokens : OnlyLink(t)
      BY <1>1 DEF OneLastRedemption, OnlyLink
    <2> DEFINE I == TInv /\ (Lossless => OnceInv(t))
    <2>2. Init => I
      BY <2>1, TInvInit, OnceInit
    <2>3. I /\ [Next]_vars => I'
      <3> SUFFICES ASSUME I, [Next]_vars PROVE I'
        OBVIOUS
      <3>1. TInv'
        BY TInvStep
      <3>2. Lossless' => OnceInv(t)'
        BY <2>1, OnceStep, HistoryStays DEF Lossless
      <3>3. QED
        BY <3>1, <3>2
    <2>4. I => LastRedemptionOnce
      BY <2>1 DEF OnceInv, LastRedemptionOnce, OnlyLink, Granted, At, Payers
    <2>5. QED
      BY <2>2, <2>3, <2>4, PTL DEF Spec
  <1>2. CASE ~OneLastRedemption
    <2>1. Init => LastRedemptionOnce
      BY <1>2 DEF LastRedemptionOnce
    <2>2. LastRedemptionOnce /\ [Next]_vars => LastRedemptionOnce'
      BY <1>2 DEF LastRedemptionOnce, OneLastRedemption
    <2>3. QED
      BY <2>1, <2>2, PTL DEF Spec
  <1>3. QED
    BY <1>1, <1>2

(***************************************************************************)
(* 3. The books                                                            *)
(*                                                                         *)
(* While Sound, the file and the memory agree but for the decrement of the *)
(* request about to rename; a loaded map the file has not moved past is    *)
(* the file; and the file plus the requests whose charge is on disk make   *)
(* up the limit.                                                           *)
(***************************************************************************)
Durable(t) == At(t, {"restat", "respond", "granted"})

LockInv ==
  \A r \in Requests : pc[r] \in Writing <=> lock = r

BooksInv ==
  /\ (\A r \in Requests : pc[r] # "rename") => file.counts = mem.counts
  /\ \A r \in Requests : pc[r] = "rename" =>
       /\ Presents[r] \in Registered
       /\ file.counts =
            [mem.counts EXCEPT ![Presents[r]] = mem.counts[Presents[r]] + 1]
  /\ \A r \in Requests \ overtaken :
       pc[r] = "install" => snap[r] = file.counts
  /\ \A t \in Registered :
       /\ file.counts[t] + Cardinality(Durable(t)) <= Limit[t]
       /\ ~MayCrash => file.counts[t] + Cardinality(Durable(t)) = Limit[t]
  /\ \A r \in Requests : pc[r] = "exhausted" =>
       /\ Presents[r] \in Registered
       /\ file.counts[Presents[r]] = 0

BInv == TInv /\ LockInv /\ (Sound => BooksInv)

LEMMA AtFinite ==
  ASSUME NEW t, NEW phases
  PROVE  /\ IsFiniteSet(At(t, phases))
         /\ Cardinality(At(t, phases)) \in Nat
  BY RequestsAssumption, FS_Subset, FS_CardinalityType DEF At

\* Requests that end up neither entering nor leaving the durable phases
\* leave the set of durable charges as it is.
LEMMA DurableKept ==
  ASSUME NEW t,
         \A q \in Requests : pc'[q] \in {"restat", "respond", "granted"}
                             <=> pc[q] \in {"restat", "respond", "granted"}
  PROVE  Durable(t)' = Durable(t)
  BY DEF Durable, At

LEMMA BooksInit == Init => BInv /\ BooksInv
  <1> SUFFICES ASSUME Init
               PROVE  BInv /\ BooksInv
    OBVIOUS
  <1>1. \A r \in Requests : pc[r] = "idle"
    BY DEF Init
  <1>2. LockInv
    BY <1>1, RequestsAssumption DEF LockInv, Writing, Init
  <1>3. ASSUME NEW t \in Registered
        PROVE  /\ file.counts[t] = Limit[t] /\ Limit[t] \in Nat
               /\ Cardinality(Durable(t)) = 0
    <2>1. Durable(t) = {}
      BY <1>1 DEF Durable, At
    <2>2. QED
      BY <2>1, FS_EmptySet, TokensAssumption DEF Init, InitialFile
  <1>4. BooksInv
    BY <1>1, <1>3 DEF BooksInv, Init
  <1>5. QED
    BY TInvInit, <1>2, <1>4 DEF BInv

LEMMA LockStep ==
  ASSUME pc \in [Requests -> Phases], LockInv, [Next]_vars
  PROVE  LockInv'
  <1> USE RequestsAssumption DEF LockInv, Goto, Writing
  <1>1. ASSUME NEW r \in Requests, Arrive(r) \/ Poll(r) \/ Serve(r)
        PROVE  LockInv'
    BY <1>1 DEF Arrive, Poll, Serve, StatTokens, ClearTokens, LoadTokens,
                LoadFails, InstallTokens, Screen, Refuse, Lookup, Mint,
                MintFails, Respond, TurnAway
  <1>2. ASSUME NEW r \in Requests, Consume(r)
        PROVE  LockInv'
    BY <1>2 DEF Consume, Charge, ChargeDenied, RenameFile, PersistFails,
                RestatFile, TurnAway
  <1>3. CASE Crash
    BY <1>3 DEF Crash, Active
  <1>4. CASE (\E t \in Tokens : ExpiryPasses(t)) \/ BootStat \/ Served
             \/ DeleteFile \/ UNCHANGED vars
    BY <1>4 DEF ExpiryPasses, BootStat, Served, DeleteFile, vars
  <1>5. QED
    BY <1>1, <1>2, <1>3, <1>4 DEF Next, HandleRedeem

\* Every step after which the books are sound keeps them.
LEMMA BooksStep ==
  ASSUME TInv, LockInv, BooksInv, Sound, Sound', [Next]_vars
  PROVE  BooksInv'
  <1>0. /\ file.counts \in Counts /\ mem.counts \in Counts
        /\ \A r \in Requests : pc[r] = "install" => snap[r] \in Counts
        /\ \A r \in Requests : pc[r] = "clear" => Registered = {}
        /\ ~deleted'
    BY DEF TInv, TypeOK, InFlight, Sound
  <1> USE <1>0 DEF TInv, TypeOK, LockInv, BooksInv, Goto
  \* Steps that leave the file and the memory alone and charge nobody.
  <1>1. ASSUME NEW r \in Requests, Arrive(r) \/ StatTokens(r) \/ LoadFails(r)
                 \/ Screen(r) \/ Refuse(r) \/ Mint(r) \/ MintFails(r)
                 \/ Respond(r)
        PROVE  BooksInv'
    <2>1. /\ file' = file /\ mem' = mem /\ snap' = snap /\ overtaken' = overtaken
          /\ \A q \in Requests :
               /\ pc'[q] \in {"rename", "install", "exhausted"} => pc'[q] = pc[q]
               /\ pc[q] \in {"rename", "install", "exhausted"} => pc'[q] = pc[q]
               /\ pc'[q] \in {"restat", "respond", "granted"}
                    <=> pc[q] \in {"restat", "respond", "granted"}
      BY <1>1 DEF Arrive, StatTokens, LoadFails, Screen, Refuse, Mint,
                  MintFails, Respond
    <2>2. \A t \in Registered : Durable(t)' = Durable(t)
      BY <2>1, DurableKept
    <2>3. QED
      BY <2>1, <2>2
  <1>2. ASSUME NEW r \in Requests, Lookup(r) \/ ChargeDenied(r)
        PROVE  BooksInv'
    <2>1. lock = NoOne /\ UNCHANGED <<file, mem, snap, overtaken>>
      BY <1>2 DEF Lookup, ChargeDenied
    <2>2. file.counts = mem.counts
      BY <2>1, RequestsAssumption DEF Writing
    <2>3. /\ \A q \in Requests \ {r} : pc'[q] = pc[q]
          /\ pc[r] \in {"lookup", "charge"}
          /\ pc'[r] \in {"mint", "not_found", "exhausted", "expired"}
          /\ pc'[r] = "exhausted" => Exhausted(r)
      BY <1>2 DEF Lookup, ChargeDenied, TurnAway
    <2>4. \A t \in Registered : Durable(t)' = Durable(t)
      BY <2>3, DurableKept
    <2>5. Exhausted(r) => /\ Presents[r] \in Registered
                          /\ file.counts[Presents[r]] = 0
      BY <2>2 DEF Exhausted, Unknown, Counts
    <2>6. QED
      BY <2>1, <2>2, <2>3, <2>4, <2>5
  <1>3. ASSUME NEW r \in Requests, ClearTokens(r)
        PROVE  BooksInv'
    <2>1. Registered = {} /\ NoFile.counts \in Counts /\ mem'.counts \in Counts
      BY <1>3 DEF ClearTokens, InFlight, Counts, NoFile, NoCounts
    <2>2. file'.counts = mem'.counts
      BY <1>3, <2>1 DEF ClearTokens, Counts
    <2>3. \A q \in Requests : pc[q] # "rename"
      BY <1>3, RequestsAssumption DEF ClearTokens, Writing
    <2>4. QED
      BY <1>3, <2>1, <2>2, <2>3 DEF ClearTokens
  <1>4. ASSUME NEW r \in Requests, LoadTokens(r)
        PROVE  BooksInv'
    <2>1. \A t \in Registered : Durable(t)' = Durable(t)
      BY <1>4, DurableKept DEF LoadTokens
    <2>2. QED
      BY <1>4, <2>1 DEF LoadTokens
  \* Sound' holds, so r has not been overtaken: it installs the file.
  <1>5. ASSUME NEW r \in Requests, InstallTokens(r)
        PROVE  BooksInv'
    <2>1. r \notin overtaken
      BY <1>5 DEF InstallTokens, Sound
    <2>2. mem'.counts = file.counts /\ file' = file
      BY <1>5, <2>1 DEF InstallTokens
    <2>3. \A q \in Requests : pc[q] # "rename" /\ pc'[q] # "rename"
      BY <1>5, RequestsAssumption DEF InstallTokens, Writing
    <2>4. \A t \in Registered : Durable(t)' = Durable(t)
      BY <1>5, DurableKept DEF InstallTokens
    <2>5. QED
      BY <1>5, <2>2, <2>3, <2>4 DEF InstallTokens
  \* The memory goes one below the file for the token charged.
  <1>6. ASSUME NEW r \in Requests, Charge(r)
        PROVE  BooksInv'
    <2>1. file.counts = mem.counts /\ \A q \in Requests : pc[q] # "rename"
      BY <1>6, RequestsAssumption DEF Charge, Writing
    <2>2. /\ Presents[r] \in Registered
          /\ mem.counts[Presents[r]] \in Nat \ {0}
      BY <1>6, ChargeType DEF Charge
    <2>3. mem'.counts = [mem.counts EXCEPT ![Presents[r]] = @ - 1]
      BY <1>6 DEF Charge
    <2>4. file.counts =
            [mem'.counts EXCEPT ![Presents[r]] = mem'.counts[Presents[r]] + 1]
      <3> DEFINE u == Presents[r]
                 c == mem.counts
                 d == [c EXCEPT ![u] = c[u] - 1]
      <3>1. c \in [Registered -> Nat] /\ u \in Registered /\ mem'.counts = d
        BY <2>2, <2>3 DEF Counts
      <3> HIDE DEF c, u
      <3>2. \A t \in Registered : c[t] = [d EXCEPT ![u] = d[u] + 1][t]
        BY <3>1
      <3>3. c = [d EXCEPT ![u] = d[u] + 1]
        BY <3>1, <3>2
      <3>4. QED
        BY <2>1, <3>1, <3>3 DEF c, u
    <2>5. \A t \in Registered : Durable(t)' = Durable(t)
      BY <1>6, DurableKept DEF Charge
    <2>6. QED
      BY <1>6, <2>1, <2>2, <2>4, <2>5 DEF Charge
  \* The charge becomes durable as the file goes down by one.
  <1>7. ASSUME NEW r \in Requests, RenameFile(r)
        PROVE  BooksInv'
    <2> DEFINE u == Presents[r]
    <2>1. /\ file'.counts = mem.counts /\ mem' = mem /\ lock = r
          /\ pc[r] = "rename" /\ snap' = snap
          /\ u \in Registered
          /\ file.counts = [mem.counts EXCEPT ![u] = mem.counts[u] + 1]
      BY <1>7 DEF RenameFile, Writing
    <2>2. \A q \in Requests \ {r} : pc'[q] = pc[q] /\ pc[q] # "rename"
      BY <1>7, <2>1 DEF RenameFile, Writing
    <2>3. \A q \in Requests \ overtaken' : pc'[q] # "install"
      BY <1>7, <2>2 DEF RenameFile
    <2>4. ASSUME NEW t \in Registered, t # u
          PROVE  Durable(t)' = Durable(t) /\ file'.counts[t] = file.counts[t]
      BY <2>1, <2>2, <2>4 DEF Durable, At, Counts
    <2>5. /\ Cardinality(Durable(u))' = Cardinality(Durable(u)) + 1
          /\ file.counts[u] = file'.counts[u] + 1
      <3>1. Durable(u)' = Durable(u) \cup {r} /\ r \notin Durable(u)
        BY <1>7, <2>1, <2>2 DEF RenameFile, Durable, At
      <3>2. IsFiniteSet(Durable(u))
        BY AtFinite DEF Durable
      <3>3. Cardinality(Durable(u)') = Cardinality(Durable(u)) + 1
        <4> HIDE <1>0 DEF TInv, TypeOK, LockInv, BooksInv, Goto
        <4>1. QED
          BY <3>1, <3>2, FS_AddElement
      <3>4. mem.counts \in [Registered -> Nat] /\ mem.counts[u] \in Nat
        BY <1>0, <2>1 DEF Counts
      <3>5. file.counts[u] = mem.counts[u] + 1
        BY <2>1, <3>4
      <3>6. file'.counts[u] = mem.counts[u]
        BY <2>1
      <3>7. file.counts[u] = file'.counts[u] + 1
        BY <3>5, <3>6
      <3>8. QED
        BY <3>3, <3>7
    <2>6. \A t \in Registered :
            /\ mem.counts[t] \in Nat /\ file.counts[t] \in Nat
            /\ Limit[t] \in Nat /\ Cardinality(Durable(t)) \in Nat
      BY AtFinite, TokensAssumption DEF Counts, Durable
    <2>7. ASSUME NEW t \in Registered
          PROVE  /\ file'.counts[t] + Cardinality(Durable(t))' <= Limit[t]
                 /\ ~MayCrash =>
                      file'.counts[t] + Cardinality(Durable(t))' = Limit[t]
      <3>1. CASE t = u
        BY <3>1, <2>1, <2>5, <2>6
      <3>2. CASE t # u
        BY <3>2, <2>4
      <3>3. QED
        BY <3>1, <3>2
    <2>8. ASSUME NEW q \in Requests, pc'[q] = "exhausted"
          PROVE  Presents[q] \in Registered /\ file'.counts[Presents[q]] = 0
      <3>1. /\ pc[q] = "exhausted" /\ Presents[q] \in Registered
            /\ file.counts[Presents[q]] = 0
        BY <1>7, <2>2, <2>8 DEF RenameFile
      <3>2. Presents[q] # u
        BY <3>1, <2>5, <2>1, <2>6
      <3>3. QED
        BY <3>1, <3>2, <2>4
    <2>9. \A q \in Requests : pc'[q] # "rename"
      BY <1>7, <2>2 DEF RenameFile
    <2>10. QED
      BY <2>1, <2>3, <2>7, <2>8, <2>9
  <1>8. \A r \in Requests : ~PersistFails(r)
    BY DEF PersistFails, Sound
  <1>9. ASSUME NEW r \in Requests, RestatFile(r)
        PROVE  BooksInv'
    <2>1. mem'.counts = mem.counts /\ UNCHANGED <<file, snap, overtaken>>
      BY <1>9 DEF RestatFile
    <2>2. \A t \in Registered : Durable(t)' = Durable(t)
      BY <1>9, DurableKept DEF RestatFile
    <2>3. QED
      BY <1>9, <2>1, <2>2 DEF RestatFile
  <1>10. CASE (\E t \in Tokens : ExpiryPasses(t)) \/ BootStat \/ Served
              \/ UNCHANGED vars
    <2>1. UNCHANGED <<file, pc, snap, overtaken>> /\ mem'.counts = mem.counts
      BY <1>10 DEF ExpiryPasses, BootStat, Served, vars
    <2>2. \A t \in Registered : Durable(t)' = Durable(t)
      BY <2>1, DurableKept
    <2>3. QED
      BY <2>1, <2>2
  \* A crash loses charges in flight, and the memory becomes the file.
  <1>11. CASE Crash
    <2>1. /\ mem'.counts = file.counts /\ file' = file /\ MayCrash
          /\ \A q \in Requests :
               /\ pc'[q] \notin {"rename", "install", "restat", "respond"}
               /\ pc'[q] \in {"exhausted", "granted"} => pc'[q] = pc[q]
      BY <1>11 DEF Crash, Active, Reloading, Writing
    <2>2. ASSUME NEW t \in Registered
          PROVE  Cardinality(Durable(t)') <= Cardinality(Durable(t))
      <3>1. Durable(t)' \subseteq Durable(t)
        BY <2>1 DEF Durable, At
      <3>2. QED
        BY <3>1, AtFinite, FS_Subset DEF Durable
    <2>3. \A t \in Registered :
            /\ file.counts[t] \in Nat /\ Limit[t] \in Nat
            /\ Cardinality(Durable(t)) \in Nat
            /\ Cardinality(Durable(t)') \in Nat
      <3>1. \A t : Cardinality(Durable(t)) \in Nat
        BY AtFinite DEF Durable
      <3>2. ASSUME NEW t \in Registered
            PROVE  Cardinality(Durable(t)') \in Nat
        <4>1. Durable(t)' \subseteq Durable(t)
          BY <2>1 DEF Durable, At
        <4>2. IsFiniteSet(Durable(t))
          BY AtFinite DEF Durable
        <4>3. QED
          BY <4>1, <4>2, FS_Subset, FS_CardinalityType
      <3>3. QED
        BY <3>1, <3>2, TokensAssumption DEF Counts
    <2>4. \A t \in Registered :
            file'.counts[t] + Cardinality(Durable(t))' <= Limit[t]
      BY <2>1, <2>2, <2>3
    <2>5. QED
      BY <2>1, <2>4
  <1>12. CASE DeleteFile
    BY <1>12 DEF DeleteFile, Sound
  <1>13. QED
    BY <1>1, <1>2, <1>3, <1>4, <1>5, <1>6, <1>7, <1>8, <1>9, <1>10, <1>11, <1>12
       DEF Next, HandleRedeem, Poll, Serve, Consume

LEMMA BInvStep == BInv /\ [Next]_vars => BInv'
  <1> SUFFICES ASSUME BInv, [Next]_vars
               PROVE  BInv'
    OBVIOUS
  <1>1. TInv' /\ LockInv'
    BY TInvStep, LockStep DEF BInv, TInv, TypeOK
  \* Once an overtaken map has been installed, or the file was deleted, the
  \* books stay unsound.
  <1>3. Sound' => Sound
    BY HistoryStays DEF Sound
  <1>4. Sound' => BooksInv'
    BY <1>3, BooksStep DEF BInv
  <1>5. QED
    BY <1>1, <1>4 DEF BInv

LEMMA BooksBalance ==
  ASSUME BInv, Sound, NEW t \in Registered
  PROVE  /\ mem.counts[t] + Cardinality(Charged(t)) <= Limit[t]
         /\ ~MayCrash => mem.counts[t] + Cardinality(Charged(t)) = Limit[t]
  <1>1. /\ file.counts[t] + Cardinality(Durable(t)) <= Limit[t]
        /\ ~MayCrash => file.counts[t] + Cardinality(Durable(t)) = Limit[t]
        /\ mem.counts[t] \in Nat
    BY DEF BInv, BooksInv, TInv, TypeOK, Counts, Sound
  <1>2. IsFiniteSet(Durable(t)) /\ Cardinality(Durable(t)) \in Nat
    BY AtFinite DEF Durable
  <1>3. CASE \A r \in Requests : pc[r] = "rename" => Presents[r] # t
    <2>1. Charged(t) = Durable(t)
      BY <1>3 DEF Charged, Durable, At, Writing
    <2>2. file.counts[t] = mem.counts[t]
      BY <1>3 DEF BInv, BooksInv, TInv, TypeOK, Counts, Sound
    <2>3. QED
      BY <1>1, <2>1, <2>2
  <1>4. ASSUME NEW r \in Requests, pc[r] = "rename", Presents[r] = t
        PROVE  /\ mem.counts[t] + Cardinality(Charged(t)) <= Limit[t]
               /\ ~MayCrash =>
                    mem.counts[t] + Cardinality(Charged(t)) = Limit[t]
    <2>1. \A q \in Requests : pc[q] = "rename" => q = r
      BY <1>4 DEF BInv, LockInv, Writing
    <2>2. Charged(t) = Durable(t) \cup {r} /\ r \notin Durable(t)
      BY <1>4, <2>1 DEF Charged, Durable, At, Writing
    <2>3. Cardinality(Charged(t)) = Cardinality(Durable(t)) + 1
      BY <1>2, <2>2, FS_AddElement
    <2>4. file.counts[t] = mem.counts[t] + 1
      BY <1>4 DEF BInv, BooksInv, TInv, TypeOK, Counts, Sound
    <2>5. QED
      BY <1>1, <1>2, <2>3, <2>4
  <1>5. QED
    BY <1>3, <1>4

\* As long as writes succeed, the file is there and no request installs a map
\* it loaded before another request's write, what is left of every link and
\* what was charged for it add up to its limit: no interleaving and no crash
\* overdraws it, and a request that was turned away has cost nothing.
THEOREM Books == Spec => []Accounting
  <1>1. BInv => Accounting
    BY BooksBalance DEF Accounting
  <1>2. QED
    BY BooksInit, BInvStep, <1>1, PTL DEF Spec

\* Under the same conditions a link that answered 410 token_exhausted once
\* never has a redemption again.
THEOREM ExhaustedForGood == Spec => []ExhaustionIsFinal
  <1>1. BInv => ExhaustionIsFinal
    <2> SUFFICES ASSUME BInv, Sound, NEW r \in Requests, pc[r] = "exhausted"
                 PROVE  mem.counts[Presents[r]] = 0
      BY DEF ExhaustionIsFinal
    <2> DEFINE t == Presents[r]
    <2>1. t \in Registered /\ file.counts[t] = 0
      BY DEF BInv, BooksInv
    <2>2. mem.counts[t] \in Nat
      BY <2>1 DEF BInv, TInv, TypeOK, Counts, Sound
    <2>3. ASSUME NEW q \in Requests, pc[q] = "rename", Presents[q] = t
          PROVE  FALSE
      BY <2>1, <2>2, <2>3 DEF BInv, BooksInv, TInv, TypeOK, Counts, Sound
    <2>4. QED
      BY <2>1, <2>3 DEF BInv, BooksInv, TInv, TypeOK, Counts, Sound
  <1>2. QED
    BY BooksInit, BInvStep, <1>1, PTL DEF Spec

(***************************************************************************)
(* 4. What the server has in memory is what its mtime says                 *)
(***************************************************************************)
\* A stamp of a file clock that ticks at every write is new to everybody.
Stamps ==
  /\ clock > 0
  /\ file.mtime <= clock /\ mem.mtime <= clock
  /\ file # NoFile => file.mtime > 0
  /\ \A r \in Requests : held[r] <= clock
  /\ \A r \in Requests : pc[r] = "rename" =>
       /\ held[r] = clock /\ mem.mtime < clock /\ file.mtime < clock
       /\ \A q \in Requests \ {r} : held[q] < clock

\* Content and the mtime it goes with: in memory, in the hands of a request,
\* and while one is missing its new mtime.
Paired ==
  /\ \A r \in Requests : pc[r] = "restat" =>
       file = NoFile \/ mem.counts = file.counts
  /\ \A r \in Requests :
       pc[r] = "install" /\ file # NoFile /\ held[r] >= file.mtime
         => snap[r] = file.counts
  /\ server = "booting" => file = NoFile \/ mem.counts = file.counts
  /\ (\A r \in Requests : pc[r] # "rename")
       /\ file # NoFile /\ mem.mtime >= file.mtime
     => mem.counts = file.counts

\* Nobody is at work before a start is complete.
Booting ==
  server = "booting" =>
    lock = NoOne /\ \A r \in Requests : pc[r] \notin Active

FInv == TInv /\ LockInv /\ Booting /\ Stamps /\ (~unsaved => Paired)

LEMMA FInvInit == Init => FInv
  <1> SUFFICES ASSUME Init
               PROVE  FInv
    OBVIOUS
  <1>1. TInv /\ LockInv
    BY BooksInit DEF BInv
  <1>2. Booting /\ Stamps /\ Paired
    BY DEF Init, InitialFile, NoFile, NoCounts, Booting, Stamps, Paired
  <1>3. QED
    BY <1>1, <1>2 DEF FInv

LEMMA FInvStep ==
  ASSUME 0 \notin Ticks
  PROVE  FInv /\ [Next]_vars => FInv'
  <1> SUFFICES ASSUME FInv, [Next]_vars
               PROVE  FInv'
    OBVIOUS
  <1>a. TInv' /\ LockInv'
    BY TInvStep, LockStep DEF FInv, TInv, TypeOK
  <1>b. /\ file.mtime \in Nat /\ mem.mtime \in Nat /\ clock \in Nat
        /\ held \in [Requests -> Nat] /\ snap \in [Requests -> Maps]
        /\ pc \in [Requests -> Phases]
        /\ NoFile.mtime = 0
        /\ \A r \in Requests : pc[r] \in Writing <=> lock = r
        /\ NoOne \notin Requests
    BY RequestsAssumption DEF FInv, TInv, TypeOK, LockInv, NoFile
  <1> SUFFICES (Booting /\ Stamps /\ (~unsaved => Paired))'
    BY <1>a DEF FInv
  <1> USE <1>b DEF FInv, Booting, Stamps, Paired, Goto, Active, Reloading,
                   Serving, Writing
  <1>1. ASSUME NEW r \in Requests,
               Arrive(r) \/ StatTokens(r) \/ LoadFails(r)
        PROVE  (Booting /\ Stamps /\ (~unsaved => Paired))'
    BY <1>1 DEF Arrive, StatTokens, LoadFails
  <1>2. ASSUME NEW r \in Requests, Serve(r) \/ ChargeDenied(r)
        PROVE  (Booting /\ Stamps /\ (~unsaved => Paired))'
    <2>1. UNCHANGED <<file, mem, clock, server, lock, held, snap, unsaved>>
      BY <1>2 DEF Serve, Screen, Refuse, Lookup, Mint, MintFails, Respond,
                  ChargeDenied
    <2>2. /\ pc[r] \in {"screen", "lookup", "mint", "charge", "respond"}
          /\ pc'[r] \notin {"rename", "restat", "install"}
          /\ \A q \in Requests \ {r} : pc'[q] = pc[q]
      BY <1>2 DEF Serve, Screen, Refuse, Lookup, Mint, MintFails, Respond,
                  ChargeDenied, TurnAway
    <2>3. QED
      BY <2>1, <2>2
  <1>3. ASSUME NEW r \in Requests, ClearTokens(r)
        PROVE  (Booting /\ Stamps /\ (~unsaved => Paired))'
    BY <1>3 DEF ClearTokens
  <1>4. ASSUME NEW r \in Requests, LoadTokens(r)
        PROVE  (Booting /\ Stamps /\ (~unsaved => Paired))'
    BY <1>4 DEF LoadTokens
  <1>5. ASSUME NEW r \in Requests, InstallTokens(r)
        PROVE  (Booting /\ Stamps /\ (~unsaved => Paired))'
    BY <1>5 DEF InstallTokens
  \* The new stamp is ahead of all that anybody holds.
  <1>6. ASSUME NEW r \in Requests, Charge(r)
        PROVE  (Booting /\ Stamps /\ (~unsaved => Paired))'
    <2>1. PICK d \in Ticks : clock' = clock + d
      BY <1>6 DEF Charge
    <2>2. clock' \in Nat /\ clock' > clock
      BY <2>1, FaultsAssumption
    <2>3. /\ mem'.mtime = mem.mtime
          /\ pc' = [pc EXCEPT ![r] = "rename"]
          /\ held' = [held EXCEPT ![r] = clock']
          /\ UNCHANGED <<file, server, snap, unsaved>>
          /\ pc[r] = "charge" /\ lock = NoOne
      BY <1>6 DEF Charge
    <2>4. \A q \in Requests : pc[q] \notin Writing
      BY <2>3
    <2>5. Stamps'
      BY <2>2, <2>3, <2>4
    <2>6. Booting' /\ (~unsaved => Paired)'
      BY <2>3, <2>4
    <2>7. QED
      BY <2>5, <2>6
  \* The file gets a stamp nobody else has: what others have loaded is older.
  <1>7. ASSUME NEW r \in Requests, RenameFile(r)
        PROVE  (Booting /\ Stamps /\ (~unsaved => Paired))'
    <2>1. /\ file'.counts = mem.counts /\ file'.mtime = clock
          /\ \A q \in Requests \ {r} : pc'[q] = pc[q] /\ held[q] < clock
          /\ pc[r] = "rename" /\ pc'[r] = "restat" /\ mem.mtime < clock
          /\ UNCHANGED <<mem, clock, server, lock, held, snap, unsaved>>
      BY <1>7 DEF RenameFile
    <2>2. \A q \in Requests \ {r} : pc[q] \notin Writing
      BY <2>1
    <2>3. QED
      BY <2>1, <2>2
  <1>8. ASSUME NEW r \in Requests, PersistFails(r)
        PROVE  (Booting /\ Stamps /\ (~unsaved => Paired))'
    BY <1>8 DEF PersistFails
  <1>9. ASSUME NEW r \in Requests, RestatFile(r)
        PROVE  (Booting /\ Stamps /\ (~unsaved => Paired))'
    <2>0. mem \in [counts : Maps, mtime : Nat]
      BY DEF TInv, TypeOK
    <2>1. /\ mem'.counts = mem.counts /\ mem'.mtime \in {mem.mtime, file.mtime}
          /\ pc[r] = "restat" /\ pc' = [pc EXCEPT ![r] = "respond"]
          /\ held' = [held EXCEPT ![r] = 0] /\ lock' = NoOne
          /\ UNCHANGED <<file, clock, server, snap, unsaved>>
      BY <1>9, <2>0 DEF RestatFile
    <2>2. \A q \in Requests \ {r} : pc[q] \notin Writing
      BY <2>1
    <2>3. QED
      BY <2>1, <2>2
  <1>10. CASE (\E t \in Tokens : ExpiryPasses(t)) \/ Served \/ UNCHANGED vars
    BY <1>10 DEF ExpiryPasses, Served, vars
  <1>11. CASE Crash
    BY <1>11 DEF Crash
  <1>12. CASE BootStat
    BY <1>12 DEF BootStat
  <1>13. CASE DeleteFile
    BY <1>13 DEF DeleteFile
  <1>14. QED
    BY <1>1, <1>2, <1>3, <1>4, <1>5, <1>6, <1>7, <1>8, <1>9, <1>10, <1>11,
       <1>12, <1>13
    DEF Next, HandleRedeem, Poll, Consume

\* A server at rest whose mtime says that it need not load the file has what
\* the file has, whatever stale maps it has installed and however often it has
\* crashed, unless a charge was not written.
THEOREM CacheIsCurrent == Spec => []CachedIsCurrent
  <1>1. CASE 0 \notin Ticks
    <2>1. FInv => CachedIsCurrent
      BY DEF FInv, Paired, CachedIsCurrent, Active, Writing
    <2>2. FInv /\ [Next]_vars => FInv'
      BY <1>1, FInvStep
    <2>3. QED
      BY FInvInit, <2>1, <2>2, PTL DEF Spec
  <1>2. CASE 0 \in Ticks
    <2>1. Init => CachedIsCurrent
      BY <1>2 DEF CachedIsCurrent
    <2>2. CachedIsCurrent /\ [Next]_vars => CachedIsCurrent'
      BY <1>2 DEF CachedIsCurrent
    <2>3. QED
      BY <2>1, <2>2, PTL DEF Spec
  <1>3. QED
    BY <1>1, <1>2

(***************************************************************************)
(* 5. Dashboards around the server: types                                  *)
(*                                                                         *)
(* Every copy of the token map, in any process, is a map of some tokens    *)
(* to naturals within their limits.                                        *)
(***************************************************************************)
LinkMaps == {m \in UNION {[D -> Nat] : D \in SUBSET Tokens} : WithinLimits(m)}

LEMMA LinkMapsDef ==
  ASSUME NEW m
  PROVE  m \in LinkMaps <=> m \in [DOMAIN m -> Nat] /\ WithinLimits(m)
  BY DEF LinkMaps, WithinLimits

LEMMA InitialFileLinks == InitialFile \in [counts : LinkMaps, mtime : Nat]
  <1>1. NoCounts \in LinkMaps
    BY LinkMapsDef DEF NoCounts, WithinLimits
  <1>2. [t \in Registered |-> Limit[t]] \in LinkMaps
    <2> DEFINE m == [t \in Registered |-> Limit[t]]
    <2>1. m \in [DOMAIN m -> Nat] /\ WithinLimits(m)
      BY TokensAssumption DEF WithinLimits
    <2>2. QED
      BY <2>1, LinkMapsDef
  <1>3. QED
    BY <1>1, <1>2 DEF InitialFile, NoFile

\* A dashboard's change of the map: a link is added with its limit, or removed.
LEMMA WithLinks ==
  ASSUME NEW m \in LinkMaps, NEW t \in Tokens
  PROVE  With(m, t) \in LinkMaps /\ Without(m, t) \in LinkMaps
  <1>1. m \in [DOMAIN m -> Nat] /\ WithinLimits(m)
    BY LinkMapsDef
  <1>2. Limit[t] \in Nat
    BY TokensAssumption
  <1> DEFINE w == With(m, t)
             o == Without(m, t)
  <1>3. w \in [DOMAIN w -> Nat] /\ WithinLimits(w)
    BY <1>1, <1>2 DEF With, WithinLimits
  <1>4. o \in [DOMAIN o -> Nat] /\ WithinLimits(o)
    BY <1>1 DEF Without, WithinLimits
  <1>5. QED
    BY <1>3, <1>4, LinkMapsDef

\* The server's change of the map: one redemption less.
LEMMA ChargeLinks ==
  ASSUME mem \in [counts : LinkMaps, mtime : Nat], NEW r \in Requests,
         Redeemable(r)
  PROVE  LET u == Presents[r]
         IN  /\ u \in DOMAIN mem.counts
             /\ mem.counts[u] \in Nat \ {0}
             /\ [mem EXCEPT !.counts[u] = @ - 1]
                  = [counts |-> [mem.counts EXCEPT ![u] = mem.counts[u] - 1],
                     mtime |-> mem.mtime]
             /\ [mem.counts EXCEPT ![u] = mem.counts[u] - 1] \in LinkMaps
  <1> DEFINE u == Presents[r]
             m == mem.counts
             d == [m EXCEPT ![u] = m[u] - 1]
  <1>1. m \in [DOMAIN m -> Nat] /\ WithinLimits(m)
    BY LinkMapsDef
  <1>2. u \in DOMAIN m /\ m[u] # 0
    BY DEF Redeemable, Unknown, Exhausted
  <1>3. m[u] \in Nat \ {0} /\ m[u] - 1 \in Nat
    BY <1>1, <1>2
  <1>4. d \in [DOMAIN d -> Nat] /\ WithinLimits(d)
    <2>1. DOMAIN m \subseteq Tokens /\ \A t \in DOMAIN m : m[t] \in 0..Limit[t]
      BY <1>1 DEF WithinLimits
    <2>2. \A t \in DOMAIN m : Limit[t] \in Nat
      BY <2>1, TokensAssumption
    <2>3. m[u] - 1 \in 0..Limit[u]
      BY <1>2, <1>3, <2>1, <2>2
    <2>4. QED
      BY <1>1, <1>3, <2>1, <2>3 DEF WithinLimits
  <1>5. d \in LinkMaps
    BY <1>4, LinkMapsDef
  <1>6. QED
    BY <1>2, <1>3, <1>5

ServerTyped ==
  /\ file \in [counts : LinkMaps, mtime : Nat]
  /\ mem \in [counts : LinkMaps, mtime : Nat]
  /\ clock \in Nat
  /\ server \in {"up", "booting"}
  /\ lock \in Requests \cup {NoOne}
  /\ pc \in [Requests -> Phases]
  /\ held \in [Requests -> Nat]
  /\ snap \in [Requests -> LinkMaps]

DesksTyped ==
  /\ desk \in [Consoles -> {"closed", "open", "writing"}]
  /\ con \in [Consoles -> LinkMaps]
  /\ job \in [Consoles -> [op : {"none", "mint", "burn"},
                           token : Tokens \cup {NoOne}, stamp : Nat]]
  /\ \A c \in Consoles : desk[c] = "writing" => job[c].token \in Tokens
  /\ burned \subseteq Tokens
  /\ late \subseteq Requests
  /\ synced \subseteq Consoles

LEMMA NoFileLinks == NoFile \in [counts : LinkMaps, mtime : Nat]
  BY LinkMapsDef DEF NoFile, NoCounts, WithinLimits

LEMMA TypedInit == ConsoleInit => ServerTyped /\ DesksTyped
  <1>1. NoCounts \in LinkMaps
    BY NoFileLinks DEF NoFile
  <1>2. NoJob \in [op : {"none", "mint", "burn"}, token : Tokens \cup {NoOne},
                   stamp : Nat]
    BY DEF NoJob
  <1>3. ConsoleInit => ServerTyped
    BY <1>1, InitialFileLinks DEF ConsoleInit, Init, ServerTyped, Phases
  <1>4. ConsoleInit => DesksTyped
    BY <1>1, <1>2 DEF ConsoleInit, DesksTyped
  <1>5. QED
    BY <1>3, <1>4

LEMMA ServerTypedStep ==
  ServerTyped /\ DesksTyped /\ [ConsoleNext]_allVars => ServerTyped'
  <1> SUFFICES ASSUME ServerTyped, DesksTyped, [ConsoleNext]_allVars
               PROVE  ServerTyped'
    OBVIOUS
  <1>0. NoFile.counts = NoCounts /\ NoFile.mtime = 0 /\ NoCounts \in LinkMaps
    BY NoFileLinks DEF NoFile
  <1> USE DEF ServerTyped, Goto, Phases, Active, Reloading, Serving, Writing,
              Answers
  <1>1. ASSUME NEW r \in Requests,
               Arrive(r) \/ StatTokens(r) \/ LoadFails(r) \/ Serve(r)
                 \/ ChargeDenied(r) \/ PersistFails(r)
        PROVE  ServerTyped'
    <2>1. CASE Arrive(r) \/ StatTokens(r) \/ LoadFails(r) \/ PersistFails(r)
      BY <2>1 DEF Arrive, StatTokens, LoadFails, PersistFails
    <2>2. CASE Serve(r) \/ ChargeDenied(r)
      BY <2>2 DEF Serve, Screen, Refuse, Lookup, Mint, MintFails, Respond,
                  ChargeDenied, TurnAway
    <2>3. QED
      BY <1>1, <2>1, <2>2
  <1>2. ASSUME NEW r \in Requests,
               ClearTokens(r) \/ LoadTokens(r) \/ InstallTokens(r)
        PROVE  ServerTyped'
    BY <1>0, <1>2, NoFileLinks DEF ClearTokens, LoadTokens, InstallTokens
  <1>3. ASSUME NEW r \in Requests, Charge(r)
        PROVE  ServerTyped'
    <2>1. mem' \in [counts : LinkMaps, mtime : Nat]
      BY <1>3, ChargeLinks DEF Charge
    <2>2. clock' \in Nat
      BY <1>3, FaultsAssumption DEF Charge
    <2>3. QED
      BY <1>3, <2>1, <2>2 DEF Charge
  <1>4. ASSUME NEW r \in Requests, RenameFile(r) \/ RestatFile(r)
        PROVE  ServerTyped'
    BY <1>4 DEF RenameFile, RestatFile
  <1>5. CASE (\E t \in Tokens : ExpiryPasses(t)) \/ Served
    BY <1>5 DEF ExpiryPasses, Served, vars
  <1>6. CASE Crash
    BY <1>0, <1>6 DEF Crash
  <1>7. CASE BootStat
    BY <1>7 DEF BootStat
  <1>8. CASE DeleteFile
    BY <1>8, NoFileLinks DEF DeleteFile
  <1>9. ASSUME NEW c \in Consoles, ConsoleWrites(c)
        PROVE  ServerTyped'
    BY <1>9 DEF ConsoleWrites, DesksTyped
  <1>10. ASSUME NEW c \in Consoles, NEW t \in Tokens,
                MintLink(c, t) \/ BurnLink(c, t)
         PROVE  ServerTyped'
    <2>1. /\ clock' \in {clock + d : d \in Ticks}
          /\ UNCHANGED <<file, mem, server, lock, pc, held, snap>>
      BY <1>10 DEF MintLink, BurnLink, StartJob
    <2>2. PICK d \in Ticks : clock' = clock + d
      BY <2>1
    <2>3. clock' \in Nat
      BY <2>2, FaultsAssumption
    <2>4. QED
      BY <2>1, <2>3
  <1>11. ASSUME NEW c \in Consoles,
                Open(c) \/ Close(c) \/ ConsoleWriteFails(c)
         PROVE  ServerTyped'
    BY <1>11 DEF Open, Close, ConsoleWriteFails, vars
  <1>12. CASE UNCHANGED allVars
    BY <1>12 DEF allVars, vars
  <1>13. QED
    BY <1>1, <1>2, <1>3, <1>4, <1>5, <1>6, <1>7, <1>8, <1>9, <1>10, <1>11,
       <1>12
       DEF ConsoleNext, ServerArrive, ServerWrites, ServerMoves, ConsoleStep,
           FileDeleted, Poll

\* The server does not touch what the dashboards have.
LEMMA ServerLeavesDesks ==
  ASSUME DesksTyped, UNCHANGED <<desk, con, job, burned>>,
         late' \subseteq Requests, synced' \subseteq synced
  PROVE  DesksTyped'
  BY DEF DesksTyped

LEMMA DesksTypedStep ==
  ServerTyped /\ DesksTyped /\ [ConsoleNext]_allVars => DesksTyped'
  <1> SUFFICES ASSUME ServerTyped, DesksTyped, [ConsoleNext]_allVars
               PROVE  DesksTyped'
    OBVIOUS
  <1>0. /\ NoCounts \in LinkMaps /\ file.counts \in LinkMaps
        /\ NoJob \in [op : {"none", "mint", "burn"},
                      token : Tokens \cup {NoOne}, stamp : Nat]
    BY NoFileLinks DEF NoFile, NoJob, ServerTyped
  <1>1. ASSUME NEW r \in Requests,
               ServerArrive(r) \/ ServerWrites(r) \/ ServerMoves(r)
        PROVE  DesksTyped'
    <2>1. /\ UNCHANGED <<desk, con, job, burned>>
          /\ late' \subseteq Requests /\ synced' \subseteq synced
      BY <1>1 DEF ServerArrive, ServerWrites, ServerMoves, DesksTyped
    <2>2. QED
      BY <2>1, ServerLeavesDesks
  <1>2. CASE \/ \E t \in Tokens : ExpiryPasses(t) /\ UNCHANGED consoleVars
             \/ (Crash \/ BootStat \/ Served) /\ UNCHANGED consoleVars
             \/ FileDeleted
             \/ UNCHANGED allVars
    <2>1. /\ UNCHANGED <<desk, con, job, burned>>
          /\ late' \subseteq Requests /\ synced' \subseteq synced
      BY <1>2 DEF FileDeleted, allVars, consoleVars, DesksTyped
    <2>2. QED
      BY <2>1, ServerLeavesDesks
  <1> USE <1>0 DEF DesksTyped
  <1>3. ASSUME NEW c \in Consoles,
               Open(c) \/ Close(c) \/ ConsoleWriteFails(c)
        PROVE  DesksTyped'
    BY <1>3 DEF Open, Close, ConsoleWriteFails
  <1>4. ASSUME NEW c \in Consoles, ConsoleWrites(c)
        PROVE  DesksTyped'
    BY <1>4 DEF ConsoleWrites
  <1>5. ASSUME NEW c \in Consoles, NEW t \in Tokens,
               MintLink(c, t) \/ BurnLink(c, t)
        PROVE  DesksTyped'
    <2>1. PICK op \in {"mint", "burn"}, m \in LinkMaps : StartJob(c, op, t, m)
      BY <1>5, WithLinks DEF MintLink, BurnLink
    <2>2. clock' \in Nat
      <3>1. clock' \in {clock + d : d \in Ticks} /\ clock \in Nat
        BY <2>1 DEF StartJob, ServerTyped
      <3>2. QED
        BY <3>1, FaultsAssumption
    <2>3. [op |-> op, token |-> t, stamp |-> clock']
            \in [op : {"none", "mint", "burn"}, token : Tokens \cup {NoOne},
                 stamp : Nat]
      BY <2>2
    <2>4. QED
      BY <2>1, <2>3 DEF StartJob
  <1>6. QED
    BY <1>1, <1>2, <1>3, <1>4, <1>5 DEF ConsoleNext, ConsoleStep

\* However the server and any number of dashboards take turns at the file,
\* every copy of the map, in any process, gives each link it has a count
\* between zero and the redemptions the link was created with.
THEOREM ConsoleTyping == ConsoleSpec => []ConsoleTypeOK
  <1>1. ServerTyped /\ DesksTyped => ConsoleTypeOK
    <2>1. \A m \in LinkMaps : WithinLimits(m)
      BY LinkMapsDef
    <2>2. QED
      BY <2>1 DEF ServerTyped, DesksTyped, ConsoleTypeOK
  <1>2. QED
    BY TypedInit, ServerTypedStep, DesksTypedStep, <1>1, PTL DEF ConsoleSpec


(***************************************************************************)
(* 6. Dashboards around the server: calm writes                            *)
(*                                                                         *)
(* While dashboards write at calm moments only and nothing else disturbs   *)
(* the file, the map in the server's memory is the file's, but for the     *)
(* decrement of the request about to rename, or the server is behind: then *)
(* every request it serves is on its way to find the file newer.  A        *)
(* request therefore never looks a link up in an outdated map, and a       *)
(* dashboard that may write changes what is in the file.                   *)
(***************************************************************************)
Undisturbed == ~regressed /\ ~disturbed

\* The file's mtime only grows, and whoever will write holds a newer one.
StampsInOrder ==
  /\ file.mtime <= clock /\ mem.mtime <= file.mtime
  /\ \A r \in Requests :
       /\ pc[r] \in {"stat", "load", "install"} => held[r] <= file.mtime
       /\ pc[r] = "rename" => file.mtime <= held[r] /\ held[r] <= clock
  /\ \A c \in Consoles : job[c].stamp <= clock

MemoryIsFile ==
  /\ (\A r \in Requests : pc[r] # "rename") => mem.counts = file.counts
  /\ \A r \in Requests : pc[r] = "rename" =>
       /\ Presents[r] \in DOMAIN mem.counts
       /\ file.counts =
            [mem.counts EXCEPT ![Presents[r]] = mem.counts[Presents[r]] + 1]

\* A dashboard has written: whoever is at work will load the file.
MemoryIsBehind ==
  /\ server = "up" /\ mem.mtime < file.mtime
  /\ \A r \in Requests :
       /\ pc[r] \in Active => pc[r] \in {"stat", "load", "install"}
       /\ pc[r] = "stat" => held[r] < file.mtime

\* What a request found out about the file still holds, or it is overtaken.
LoadedIsFile ==
  /\ \A r \in Requests : pc[r] = "clear" => file = NoFile
  /\ \A r \in Requests \ overtaken :
       pc[r] = "install" => snap[r] = file.counts

\* A synced dashboard has the file's map, with its own change if it writes; a
\* link it adds is new, and one it burns is there.
DesksAreCurrent ==
  \A c \in synced :
    /\ desk[c] # "closed"
    /\ desk[c] = "open" => con[c] = file.counts
    /\ desk[c] = "writing" /\ job[c].op = "burn" =>
         /\ con[c] = Without(file.counts, job[c].token)
         /\ job[c].token \in DOMAIN file.counts
    /\ desk[c] = "writing" /\ job[c].op # "burn" =>
         /\ con[c] = With(file.counts, job[c].token)
         /\ job[c].token \notin DOMAIN file.counts \cup burned

\* What a link has left and what was charged for it stay within its limit, and
\* a link somebody paid for is in the file until it is burned, for good.
LinkBooks ==
  \A t \in Tokens :
    /\ Cardinality(Durable(t)) <= Limit[t]
    /\ t \in DOMAIN file.counts =>
         file.counts[t] + Cardinality(Durable(t)) <= Limit[t]
    /\ Durable(t) # {} => t \in DOMAIN file.counts \cup burned
    /\ t \in burned => t \notin DOMAIN file.counts

\* Who arrives after the burn does not get past the lookup.
LateRefused ==
  \A r \in late :
    /\ Presents[r] \in burned
    /\ pc[r] \notin {"idle", "mint", "charge", "rename", "restat", "respond",
                     "granted"}

CalmInv ==
  /\ StampsInOrder
  /\ MemoryIsFile \/ MemoryIsBehind
  /\ LoadedIsFile
  /\ DesksAreCurrent
  /\ LinkBooks
  /\ LateRefused

ConsoleInv ==
  /\ ServerTyped /\ DesksTyped
  /\ LockInv /\ Booting
  /\ Undisturbed => CalmInv

LEMMA ConsoleInvInit == ConsoleInit => ConsoleInv
  <1> SUFFICES ASSUME ConsoleInit
               PROVE  ConsoleInv
    OBVIOUS
  <1>1. /\ Init /\ synced = {} /\ late = {} /\ burned = {}
        /\ \A c \in Consoles : job[c] = NoJob
        /\ \A r \in Requests : pc[r] = "idle"
        /\ mem = file /\ file.mtime <= 1 /\ clock = 1 /\ server = "up"
    BY DEF ConsoleInit, Init, InitialFile, NoFile
  <1>2. LockInv /\ Booting
    BY <1>1, BooksInit DEF BInv, Booting
  <1>3. StampsInOrder
    BY <1>1, TypedInit DEF StampsInOrder, NoJob, ServerTyped
  <1>4. MemoryIsFile /\ LoadedIsFile /\ DesksAreCurrent /\ LateRefused
    BY <1>1 DEF MemoryIsFile, LoadedIsFile, DesksAreCurrent, LateRefused
  <1>5. LinkBooks
    <2>1. \A t : Durable(t) = {} /\ Cardinality(Durable(t)) = 0
      <3>1. \A t : Durable(t) = {}
        BY <1>1 DEF Durable, At
      <3>2. QED
        BY <3>1, FS_EmptySet
    <2>2. ASSUME NEW t \in Tokens
          PROVE  /\ Limit[t] \in Nat
                 /\ t \in DOMAIN file.counts => file.counts[t] = Limit[t]
      BY <1>1, TokensAssumption DEF Init, InitialFile, NoFile, NoCounts
    <2>3. QED
      BY <1>1, <2>1, <2>2 DEF LinkBooks
  <1>6. QED
    BY TypedInit, <1>2, <1>3, <1>4, <1>5 DEF ConsoleInv, CalmInv

LEMMA BootingStep ==
  ASSUME pc \in [Requests -> Phases], server \in {"up", "booting"}, Booting,
         [Next]_vars
  PROVE  Booting'
  <1> USE DEF Booting, Active, Reloading, Serving, Writing, Goto
  <1>1. ASSUME NEW r \in Requests, Arrive(r) \/ HandleRedeem(r)
        PROVE  server' = "up"
    <2>1. server' = server /\ (server = "up" \/ pc[r] \in Active)
      BY <1>1 DEF Arrive, HandleRedeem, Poll, Serve, Consume, StatTokens,
                  ClearTokens, LoadTokens, LoadFails, InstallTokens, Screen,
                  Refuse, Lookup, Mint, MintFails, Respond, Charge,
                  ChargeDenied, RenameFile, PersistFails, RestatFile
    <2>2. QED
      BY <2>1
  <1>2. CASE Crash
    BY <1>2 DEF Crash
  <1>3. CASE (\E t \in Tokens : ExpiryPasses(t)) \/ BootStat \/ Served
             \/ DeleteFile \/ UNCHANGED vars
    BY <1>3 DEF ExpiryPasses, BootStat, Served, DeleteFile, vars
  <1>4. QED
    BY <1>1, <1>2, <1>3 DEF Next

\* A step is one of the server's, or of a dashboard that leaves the server be.
LEMMA ServerOrDesk ==
  ASSUME [ConsoleNext]_allVars
  PROVE  [Next]_vars \/ UNCHANGED <<mem, server, lock, pc, held, snap>>
  BY DEF ConsoleNext, allVars, ServerArrive, ServerWrites, ServerMoves,
         ConsoleStep, Open, Close, MintLink, BurnLink, StartJob, ConsoleWrites,
         ConsoleWriteFails, FileDeleted, Next, HandleRedeem, Consume, vars

LEMMA ConsoleLockStep ==
  ASSUME ServerTyped, LockInv, Booting, [ConsoleNext]_allVars
  PROVE  LockInv' /\ Booting'
  <1>1. CASE [Next]_vars
    BY <1>1, LockStep, BootingStep DEF ServerTyped
  <1>2. CASE UNCHANGED <<mem, server, lock, pc, held, snap>>
    BY <1>2 DEF LockInv, Booting
  <1>3. QED
    BY <1>1, <1>2, ServerOrDesk

(***************************************************************************)
(* The steps that disturb nothing.                                         *)
(***************************************************************************)
QuietMove(r) ==
  \/ StatTokens(r) \/ ClearTokens(r) \/ LoadTokens(r)
  \/ InstallTokens(r) /\ r \notin overtaken
  \/ Serve(r) \/ Charge(r) \/ ChargeDenied(r)
  \/ RestatFile(r) /\ mem'.mtime = file.mtime

deskVars == <<desk, con, job, burned, late, synced>>

ProcessMove ==
  (\E t \in Tokens : ExpiryPasses(t)) \/ Crash \/ BootStat \/ UNCHANGED vars

DeskMove(c) ==
  \/ Open(c) \/ Close(c) \/ ConsoleWriteFails(c)
  \/ \E t \in Tokens : MintLink(c, t) \/ BurnLink(c, t)

CalmStep ==
  \/ \E r \in Requests : \/ ServerArrive(r)
                         \/ ServerWrites(r)
                         \/ QuietMove(r) /\ UNCHANGED deskVars
  \/ ProcessMove /\ UNCHANGED deskVars
  \/ \E c \in Consoles : DeskMove(c) \/ (ConsoleWrites(c) /\ Calm(c))

LEMMA OnlyCalmSteps ==
  ASSUME ServerTyped, [ConsoleNext]_allVars, Undisturbed'
  PROVE  Undisturbed /\ CalmStep
  <1> USE DEF Undisturbed, CalmStep
  <1>1. ASSUME NEW r \in Requests, ServerArrive(r) \/ ServerWrites(r)
        PROVE  Undisturbed /\ CalmStep
    BY <1>1 DEF ServerArrive, ServerWrites, Arrive, RenameFile
  <1>2. ASSUME NEW r \in Requests, ServerMoves(r)
        PROVE  Undisturbed /\ CalmStep
    <2>0. UNCHANGED deskVars
      BY <1>2 DEF ServerMoves, deskVars
    <2>1. ~disturbed /\ ~DiskFailed(r)
      BY <1>2 DEF ServerMoves
    <2>2. ~LoadFails(r)
      BY <2>1 DEF DiskFailed, LoadFails, Goto, ServerTyped
    <2>3. ~PersistFails(r)
      BY <2>1 DEF DiskFailed, PersistFails
    <2>4. RestatFile(r) => mem'.mtime = file.mtime
      BY <2>1 DEF DiskFailed, RestatFile
    <2>5. InstallTokens(r) => ~regressed /\ r \notin overtaken
      BY DEF InstallTokens
    <2>6. regressed' = regressed \/ InstallTokens(r)
      BY <1>2, <2>2, <2>3
         DEF ServerMoves, Poll, Serve, StatTokens, ClearTokens, LoadTokens,
             Screen, Refuse, Lookup, Mint, MintFails, Respond, Charge,
             ChargeDenied, RestatFile
    <2>7. ~regressed
      BY <2>5, <2>6
    <2>8. QuietMove(r)
      BY <1>2, <2>2, <2>3, <2>4, <2>5 DEF ServerMoves, Poll, QuietMove
    <2>9. QED
      BY <2>0, <2>1, <2>7, <2>8
  <1>3. CASE \/ \E t \in Tokens : ExpiryPasses(t) /\ UNCHANGED consoleVars
             \/ (Crash \/ BootStat \/ Served) /\ UNCHANGED consoleVars
             \/ UNCHANGED allVars
    <2>1. ProcessMove /\ UNCHANGED <<deskVars, disturbed, regressed>>
      BY <1>3 DEF ProcessMove, ExpiryPasses, Crash, BootStat, Served, vars,
                  consoleVars, deskVars, allVars
    <2>2. QED
      BY <2>1
  <1>4. ASSUME NEW c \in Consoles, DeskMove(c)
        PROVE  Undisturbed /\ CalmStep
    BY <1>4 DEF DeskMove, Open, Close, ConsoleWriteFails, MintLink, BurnLink,
                StartJob, vars
  <1>5. ASSUME NEW c \in Consoles, ConsoleWrites(c)
        PROVE  Undisturbed /\ CalmStep
    BY <1>5 DEF ConsoleWrites
  <1>6. CASE FileDeleted
    BY <1>6 DEF FileDeleted
  <1>7. QED
    BY <1>1, <1>2, <1>3, <1>4, <1>5, <1>6 DEF ConsoleNext, ConsoleStep, DeskMove

(***************************************************************************)
(* Each conjunct of CalmInv across those steps.                            *)
(***************************************************************************)
LEMMA StampsStep ==
  ASSUME ServerTyped, DesksTyped, LockInv, StampsInOrder, CalmStep
  PROVE  StampsInOrder'
  <1>0. /\ file.mtime \in Nat /\ mem.mtime \in Nat /\ clock \in Nat
        /\ held \in [Requests -> Nat] /\ pc \in [Requests -> Phases]
        /\ mem = [counts |-> mem.counts, mtime |-> mem.mtime]
        /\ \A c \in Consoles : job[c].stamp \in Nat
        /\ NoFile.mtime = 0
        /\ \A r \in Requests : pc[r] = "rename" => lock = r
    BY DEF ServerTyped, DesksTyped, LockInv, Writing, NoFile
  <1> USE <1>0 DEF StampsInOrder, Goto
  <1>1. ASSUME NEW r \in Requests, Arrive(r) \/ StatTokens(r), job' = job
        PROVE  StampsInOrder'
    BY <1>1 DEF Arrive, StatTokens
  <1>2. ASSUME NEW r \in Requests, job' = job,
               ClearTokens(r) \/ LoadTokens(r) \/ InstallTokens(r)
        PROVE  StampsInOrder'
    BY <1>2 DEF ClearTokens, LoadTokens, InstallTokens
  <1>3. ASSUME NEW r \in Requests, Serve(r) \/ ChargeDenied(r), job' = job
        PROVE  StampsInOrder'
    <2>1. /\ UNCHANGED <<file, mem, clock, held>>
          /\ pc'[r] \notin {"stat", "load", "install", "rename"}
          /\ \A q \in Requests \ {r} : pc'[q] = pc[q]
      BY <1>3 DEF Serve, Screen, Refuse, Lookup, Mint, MintFails, Respond,
                  ChargeDenied, TurnAway
    <2>2. QED
      BY <1>3, <2>1
  <1>4. ASSUME NEW r \in Requests, Charge(r), job' = job
        PROVE  StampsInOrder'
    <2>1. PICK d \in Ticks : clock' = clock + d
      BY <1>4 DEF Charge
    <2>2. clock' \in Nat /\ clock' >= clock
      BY <2>1, FaultsAssumption
    <2>3. /\ mem'.mtime = mem.mtime /\ file' = file
          /\ pc' = [pc EXCEPT ![r] = "rename"]
          /\ held' = [held EXCEPT ![r] = clock']
      BY <1>4 DEF Charge
    <2>4. QED
      BY <1>4, <2>2, <2>3
  \* Nobody else is about to rename: everybody else holds an older mtime.
  <1>5. ASSUME NEW r \in Requests, RenameFile(r), job' = job
        PROVE  StampsInOrder'
    <2>1. /\ file'.mtime = held[r] /\ file.mtime <= held[r] /\ held[r] <= clock
          /\ UNCHANGED <<mem, clock, held>>
          /\ pc' = [pc EXCEPT ![r] = "restat"]
          /\ \A q \in Requests \ {r} : pc[q] # "rename"
      BY <1>5 DEF RenameFile
    <2>2. QED
      BY <1>5, <2>1
  <1>6. ASSUME NEW r \in Requests, RestatFile(r), job' = job
        PROVE  StampsInOrder'
    <2>1. /\ mem'.mtime \in {mem.mtime, file.mtime}
          /\ UNCHANGED <<file, clock>>
          /\ pc' = [pc EXCEPT ![r] = "respond"]
          /\ held' = [held EXCEPT ![r] = 0]
      BY <1>6 DEF RestatFile
    <2>2. QED
      BY <1>6, <2>1
  <1>7. ASSUME ProcessMove, job' = job
        PROVE  StampsInOrder'
    BY <1>7 DEF ProcessMove, ExpiryPasses, Crash, BootStat, vars, Active,
                Reloading, Writing
  <1>8. ASSUME NEW c \in Consoles,
               Open(c) \/ Close(c) \/ ConsoleWriteFails(c)
        PROVE  StampsInOrder'
    BY <1>8 DEF Open, Close, ConsoleWriteFails, vars, NoJob, DesksTyped
  <1>9. ASSUME NEW c \in Consoles, NEW t \in Tokens,
               MintLink(c, t) \/ BurnLink(c, t)
        PROVE  StampsInOrder'
    <2>1. /\ clock' \in {clock + d : d \in Ticks}
          /\ UNCHANGED <<file, mem, pc, held>>
          /\ \A b \in Consoles : job'[b].stamp \in {job[b].stamp, clock'}
      BY <1>9 DEF MintLink, BurnLink, StartJob, DesksTyped
    <2>2. PICK d \in Ticks : clock' = clock + d
      BY <2>1
    <2>3. clock' \in Nat /\ clock' >= clock
      BY <2>2, FaultsAssumption
    <2>4. QED
      BY <2>1, <2>3
  <1>10. ASSUME NEW c \in Consoles, ConsoleWrites(c), Calm(c)
         PROVE  StampsInOrder'
    <2>1. /\ file'.mtime = job[c].stamp /\ job[c].stamp > file.mtime
          /\ UNCHANGED <<mem, clock, pc, held>>
          /\ \A b \in Consoles : job'[b].stamp \in {job[b].stamp, 0}
          /\ \A r \in Requests :
               pc[r] \notin {"stat", "load", "install", "rename"}
      BY <1>10 DEF ConsoleWrites, Calm, NoJob, DesksTyped, Active, Reloading,
                   Writing
    <2>2. QED
      BY <2>1
  <1>11. QED
    BY <1>1, <1>2, <1>3, <1>4, <1>5, <1>6, <1>7, <1>8, <1>9, <1>10
       DEF CalmStep, QuietMove, DeskMove, ServerArrive, ServerWrites, deskVars

\* Nobody is about to rename while the lock is free.
LEMMA FreeLock ==
  ASSUME LockInv, lock = NoOne
  PROVE  \A r \in Requests : pc[r] \notin Writing
  BY RequestsAssumption DEF LockInv

\* A decrement can be taken back.
LEMMA ChargedBack ==
  \A m, d : \A u \in DOMAIN m :
    m \in LinkMaps /\ d = [m EXCEPT ![u] = m[u] - 1]
      => m = [d EXCEPT ![u] = d[u] + 1]
  <1> SUFFICES ASSUME NEW m, NEW d, NEW u \in DOMAIN m, m \in LinkMaps,
                      d = [m EXCEPT ![u] = m[u] - 1]
               PROVE  m = [d EXCEPT ![u] = d[u] + 1]
    OBVIOUS
  <1>1. m \in [DOMAIN m -> Nat]
    BY LinkMapsDef
  <1>2. \A t \in DOMAIN m : m[t] = [d EXCEPT ![u] = d[u] + 1][t]
    BY <1>1
  <1>3. QED
    BY <1>1, <1>2

LEMMA MemoryStep ==
  ASSUME ServerTyped, DesksTyped, LockInv, StampsInOrder, MemoryIsFile,
         LoadedIsFile, CalmStep
  PROVE  (MemoryIsFile \/ MemoryIsBehind)'
  <1>0. /\ pc \in [Requests -> Phases]
        /\ mem = [counts |-> mem.counts, mtime |-> mem.mtime]
    BY DEF ServerTyped
  <1> USE <1>0 DEF Goto
  <1>1. ASSUME NEW r \in Requests,
               Arrive(r) \/ StatTokens(r) \/ LoadTokens(r) \/ Serve(r)
                 \/ ChargeDenied(r)
        PROVE  MemoryIsFile'
    <2>1. /\ UNCHANGED <<file, mem>> /\ pc[r] # "rename" /\ pc'[r] # "rename"
          /\ \A q \in Requests \ {r} : pc'[q] = pc[q]
      BY <1>1 DEF Arrive, StatTokens, LoadTokens, Serve, ChargeDenied, Screen,
                  Refuse, Lookup, Mint, MintFails, Respond, TurnAway
    <2>2. QED
      BY <2>1 DEF MemoryIsFile
  <1>2. ASSUME NEW r \in Requests, ClearTokens(r) \/ InstallTokens(r),
               InstallTokens(r) => r \notin overtaken
        PROVE  MemoryIsFile'
    <2>1. \A q \in Requests : pc[q] # "rename" /\ pc'[q] # "rename"
      BY <1>2, FreeLock DEF ClearTokens, InstallTokens, Writing
    <2>2. mem'.counts = file'.counts
      BY <1>2 DEF ClearTokens, InstallTokens, LoadedIsFile
    <2>3. QED
      BY <2>1, <2>2 DEF MemoryIsFile
  <1>3. ASSUME NEW r \in Requests, Charge(r)
        PROVE  MemoryIsFile'
    <2> DEFINE u == Presents[r]
    <2>1. file.counts = mem.counts /\ \A q \in Requests : pc[q] # "rename"
      BY <1>3, FreeLock DEF Charge, Writing, MemoryIsFile
    <2>2. /\ u \in DOMAIN mem.counts /\ mem.counts \in LinkMaps
          /\ mem'.counts = [mem.counts EXCEPT ![u] = mem.counts[u] - 1]
      BY <1>3, ChargeLinks DEF Charge, ServerTyped
    <2>3. mem.counts = [mem'.counts EXCEPT ![u] = mem'.counts[u] + 1]
      <3> DEFINE m == mem.counts
                 d == mem'.counts
      <3>1. m \in LinkMaps /\ u \in DOMAIN m /\ d = [m EXCEPT ![u] = m[u] - 1]
        BY <2>2
      <3> HIDE DEF u, m, d
      <3>2. m = [d EXCEPT ![u] = d[u] + 1]
        BY <3>1, ChargedBack
      <3>3. QED
        BY <3>2 DEF u, m, d
    <2>4. file' = file /\ \A q \in Requests : pc'[q] = "rename" => q = r
      BY <1>3, <2>1 DEF Charge
    <2>5. pc'[r] = "rename" /\ DOMAIN mem'.counts = DOMAIN mem.counts
      BY <1>3, <2>2 DEF Charge
    <2>6. QED
      BY <2>1, <2>2, <2>3, <2>4, <2>5 DEF MemoryIsFile
  <1>4. ASSUME NEW r \in Requests, RenameFile(r)
        PROVE  MemoryIsFile'
    <2>1. file'.counts = mem.counts /\ mem' = mem
      BY <1>4 DEF RenameFile
    <2>2. \A q \in Requests : pc'[q] # "rename"
      BY <1>4 DEF RenameFile, LockInv, Writing
    <2>3. QED
      BY <2>1, <2>2 DEF MemoryIsFile
  <1>5. ASSUME NEW r \in Requests, RestatFile(r)
        PROVE  MemoryIsFile'
    <2>1. /\ mem'.counts = mem.counts /\ file' = file
          /\ \A q \in Requests \ {r} : pc'[q] = pc[q]
          /\ pc[r] # "rename" /\ pc'[r] # "rename"
      BY <1>5 DEF RestatFile
    <2>2. QED
      BY <2>1 DEF MemoryIsFile
  <1>6. CASE ProcessMove
    <2>1. CASE Crash
      BY <2>1 DEF Crash, MemoryIsFile, Active, Writing
    <2>2. CASE BootStat \/ (\E t \in Tokens : ExpiryPasses(t)) \/ UNCHANGED vars
      BY <2>2 DEF BootStat, ExpiryPasses, vars, MemoryIsFile
    <2>3. QED
      BY <1>6, <2>1, <2>2 DEF ProcessMove
  <1>7. ASSUME NEW c \in Consoles, DeskMove(c)
        PROVE  MemoryIsFile'
    <2>1. UNCHANGED <<file, mem, pc>>
      BY <1>7 DEF DeskMove, Open, Close, ConsoleWriteFails, MintLink,
                  BurnLink, StartJob, vars
    <2>2. QED
      BY <2>1 DEF MemoryIsFile
  <1>8. ASSUME NEW c \in Consoles, ConsoleWrites(c), Calm(c)
        PROVE  MemoryIsBehind'
    <2>1. /\ server' = "up" /\ mem'.mtime = mem.mtime
          /\ file'.mtime = job[c].stamp /\ file.mtime < job[c].stamp
          /\ \A r \in Requests : pc'[r] \notin Active /\ pc'[r] # "stat"
      BY <1>8 DEF ConsoleWrites, Calm, Active, Reloading
    <2>2. mem.mtime < job[c].stamp
      BY <2>1, <1>0 DEF StampsInOrder, ServerTyped, DesksTyped
    <2>3. QED
      BY <2>1, <2>2 DEF MemoryIsBehind
  <1>9. ASSUME NEW r \in Requests, QuietMove(r)
        PROVE  MemoryIsFile'
    <2>1. CASE InstallTokens(r) /\ r \notin overtaken
      BY <2>1, <1>2
    <2>2. CASE ClearTokens(r)
      <3>1. ~InstallTokens(r)
        BY <2>2 DEF ClearTokens, InstallTokens
      <3>2. QED
        BY <2>2, <3>1, <1>2
    <2>3. QED
      BY <1>9, <2>1, <2>2, <1>1, <1>3, <1>5 DEF QuietMove
  <1>10. QED
    BY <1>1, <1>4, <1>6, <1>7, <1>8, <1>9
       DEF CalmStep, ServerArrive, ServerWrites

\* A server that is behind loads the file before it looks anything up.
LEMMA BehindStep ==
  ASSUME ServerTyped, DesksTyped, LockInv, StampsInOrder, MemoryIsBehind,
         LoadedIsFile, CalmStep
  PROVE  (MemoryIsFile \/ MemoryIsBehind)'
  <1>0. /\ pc \in [Requests -> Phases] /\ held \in [Requests -> Nat]
        /\ file.mtime \in Nat /\ mem.mtime \in Nat /\ NoFile.mtime = 0
        /\ \A r \in Requests : pc[r] \in {"idle", "stat", "load", "install"}
                                 \cup Answers
    BY DEF ServerTyped, MemoryIsBehind, NoFile, Phases
  <1> USE <1>0 DEF MemoryIsBehind, Goto, Active, Reloading, Serving, Writing,
                   Answers
  <1>1. ASSUME NEW r \in Requests, Arrive(r) \/ StatTokens(r) \/ LoadTokens(r)
        PROVE  MemoryIsBehind'
    <2>1. CASE Arrive(r)
      BY <2>1 DEF Arrive
    <2>2. CASE StatTokens(r)
      BY <2>2 DEF StatTokens
    <2>3. CASE LoadTokens(r)
      BY <2>3 DEF LoadTokens
    <2>4. QED
      BY <1>1, <2>1, <2>2, <2>3
  <1>2. ASSUME NEW r \in Requests, InstallTokens(r), r \notin overtaken
        PROVE  MemoryIsFile'
    <2>1. mem'.counts = snap[r] /\ snap[r] = file.counts /\ file' = file
      BY <1>2 DEF InstallTokens, LoadedIsFile
    <2>2. \A q \in Requests : pc'[q] # "rename"
      BY <1>2 DEF InstallTokens
    <2>3. QED
      BY <2>1, <2>2 DEF MemoryIsFile
  <1>3. ASSUME NEW r \in Requests,
               ClearTokens(r) \/ Serve(r) \/ Charge(r) \/ ChargeDenied(r)
                 \/ RestatFile(r) \/ RenameFile(r)
        PROVE  FALSE
    BY <1>3 DEF ClearTokens, Serve, Screen, Refuse, Lookup, Mint, MintFails,
                Respond, Charge, ChargeDenied, RestatFile, RenameFile
  <1>4. CASE ProcessMove
    <2>1. CASE Crash
      <3>1. /\ mem'.counts = file'.counts
            /\ \A q \in Requests : pc'[q] # "rename"
        BY <2>1 DEF Crash
      <3>2. QED
        BY <3>1 DEF MemoryIsFile
    <2>2. CASE (\E t \in Tokens : ExpiryPasses(t)) \/ UNCHANGED vars
      BY <2>2 DEF ExpiryPasses, vars
    <2>3. ~BootStat
      BY DEF BootStat
    <2>4. QED
      BY <1>4, <2>1, <2>2, <2>3 DEF ProcessMove
  <1>5. ASSUME NEW c \in Consoles, DeskMove(c)
        PROVE  MemoryIsBehind'
    <2>1. UNCHANGED <<file, mem, pc, server, held>>
      BY <1>5 DEF DeskMove, Open, Close, ConsoleWriteFails, MintLink,
                  BurnLink, StartJob, vars
    <2>2. QED
      BY <2>1
  <1>6. ASSUME NEW c \in Consoles, ConsoleWrites(c), Calm(c)
        PROVE  MemoryIsBehind'
    <2>1. /\ server' = "up" /\ mem'.mtime = mem.mtime
          /\ file'.mtime = job[c].stamp /\ file.mtime < job[c].stamp
          /\ \A r \in Requests : pc'[r] \notin Active
      BY <1>6 DEF ConsoleWrites, Calm
    <2>2. mem.mtime < job[c].stamp
      BY <2>1, <1>0 DEF DesksTyped
    <2>3. QED
      BY <2>1, <2>2
  <1>7. ASSUME NEW r \in Requests, QuietMove(r)
        PROVE  (MemoryIsFile \/ MemoryIsBehind)'
    BY <1>7, <1>1, <1>2, <1>3 DEF QuietMove
  <1>8. ASSUME NEW r \in Requests, ServerArrive(r) \/ ServerWrites(r)
        PROVE  MemoryIsBehind'
    BY <1>8, <1>1, <1>3 DEF ServerArrive, ServerWrites
  <1>9. QED
    BY <1>4, <1>5, <1>6, <1>7, <1>8 DEF CalmStep

\* A file somebody is about to write has the link that was charged.
LEMMA NothingToClear ==
  ASSUME MemoryIsFile \/ MemoryIsBehind, LoadedIsFile,
         NEW r \in Requests, pc[r] = "rename"
  PROVE  \A q \in Requests : pc[q] # "clear"
  <1>1. MemoryIsFile
    BY DEF MemoryIsBehind, Active, Writing
  <1>2. /\ Presents[r] \in DOMAIN mem.counts
        /\ DOMAIN file.counts = DOMAIN mem.counts
    BY <1>1 DEF MemoryIsFile
  <1>3. DOMAIN NoFile.counts = {}
    BY DEF NoFile, NoCounts
  <1>4. QED
    BY <1>2, <1>3 DEF LoadedIsFile

LEMMA LoadedStep ==
  ASSUME ServerTyped, MemoryIsFile \/ MemoryIsBehind, LoadedIsFile, CalmStep
  PROVE  LoadedIsFile'
  <1>0. pc \in [Requests -> Phases] /\ snap \in [Requests -> LinkMaps]
    BY DEF ServerTyped
  <1> USE <1>0 DEF LoadedIsFile, Goto
  <1>1. ASSUME NEW r \in Requests,
               Arrive(r) \/ StatTokens(r) \/ ClearTokens(r) \/ LoadTokens(r)
                 \/ InstallTokens(r)
        PROVE  LoadedIsFile'
    BY <1>1 DEF Arrive, StatTokens, ClearTokens, LoadTokens, InstallTokens
  <1>2. ASSUME NEW r \in Requests,
               Serve(r) \/ Charge(r) \/ ChargeDenied(r) \/ RestatFile(r)
        PROVE  LoadedIsFile'
    <2>1. /\ UNCHANGED <<file, snap, overtaken>>
          /\ pc'[r] \notin {"clear", "install"}
          /\ \A q \in Requests \ {r} : pc'[q] = pc[q]
      BY <1>2 DEF Serve, Screen, Refuse, Lookup, Mint, MintFails, Respond,
                  Charge, ChargeDenied, RestatFile, TurnAway
    <2>2. QED
      BY <2>1
  <1>3. ASSUME NEW r \in Requests, RenameFile(r)
        PROVE  LoadedIsFile'
    <2>1. /\ pc[r] = "rename" /\ pc' = [pc EXCEPT ![r] = "restat"]
          /\ overtaken' = overtaken \cup {q \in Requests : pc[q] = "install"}
      BY <1>3 DEF RenameFile
    <2>2. \A q \in Requests : pc'[q] # "clear"
      BY <2>1, NothingToClear
    <2>3. QED
      BY <2>1, <2>2
  <1>4. CASE ProcessMove
    BY <1>4 DEF ProcessMove, Crash, BootStat, ExpiryPasses, vars, Active,
                Reloading
  <1>5. ASSUME NEW c \in Consoles, DeskMove(c)
        PROVE  LoadedIsFile'
    <2>1. UNCHANGED <<file, pc, snap, overtaken>>
      BY <1>5 DEF DeskMove, Open, Close, ConsoleWriteFails, MintLink,
                  BurnLink, StartJob, vars
    <2>2. QED
      BY <2>1
  <1>6. ASSUME NEW c \in Consoles, ConsoleWrites(c), Calm(c)
        PROVE  LoadedIsFile'
    BY <1>6 DEF ConsoleWrites, Calm, Active, Reloading
  <1>7. QED
    BY <1>1, <1>2, <1>3, <1>4, <1>5, <1>6
       DEF CalmStep, QuietMove, ServerArrive, ServerWrites

LEMMA DesksStep ==
  ASSUME DesksTyped, DesksAreCurrent, CalmStep
  PROVE  DesksAreCurrent'
  <1> USE DEF DesksAreCurrent
  <1>1. ASSUME NEW r \in Requests,
               ServerArrive(r) \/ (QuietMove(r) /\ UNCHANGED deskVars)
        PROVE  DesksAreCurrent'
    <2>1. file' = file
      BY <1>1 DEF ServerArrive, QuietMove, Arrive, StatTokens, ClearTokens,
                  LoadTokens, InstallTokens, Serve, Screen, Refuse, Lookup,
                  Mint, MintFails, Respond, Charge, ChargeDenied, RestatFile
    <2>2. UNCHANGED <<desk, con, job, burned, synced>>
      BY <1>1 DEF ServerArrive, deskVars
    <2>3. QED
      BY <2>1, <2>2
  <1>2. ASSUME NEW r \in Requests, ServerWrites(r)
        PROVE  DesksAreCurrent'
    BY <1>2 DEF ServerWrites
  <1>3. CASE ProcessMove /\ UNCHANGED deskVars
    <2>1. file' = file
      BY <1>3 DEF ProcessMove, Crash, BootStat, ExpiryPasses, vars
    <2>2. QED
      BY <1>3, <2>1 DEF deskVars
  <1>4. ASSUME NEW c \in Consoles,
               Open(c) \/ Close(c) \/ ConsoleWriteFails(c)
        PROVE  DesksAreCurrent'
    BY <1>4 DEF Open, Close, ConsoleWriteFails, vars, DesksTyped
  \* A dashboard that was in step changes what the file has.
  <1>5. ASSUME NEW c \in Consoles, NEW t \in Tokens, MintLink(c, t)
        PROVE  DesksAreCurrent'
    <2>1. /\ desk[c] = "open" /\ desk' = [desk EXCEPT ![c] = "writing"]
          /\ con' = [con EXCEPT ![c] = With(con[c], t)]
          /\ job' = [job EXCEPT ![c] =
                       [op |-> "mint", token |-> t, stamp |-> clock']]
          /\ UNCHANGED <<file, burned, synced>>
          /\ t \notin DOMAIN file.counts \cup burned
      BY <1>5 DEF MintLink, StartJob
    <2>2. QED
      BY <2>1 DEF DesksTyped
  <1>6. ASSUME NEW c \in Consoles, NEW t \in Tokens, BurnLink(c, t)
        PROVE  DesksAreCurrent'
    <2>1. /\ desk[c] = "open" /\ desk' = [desk EXCEPT ![c] = "writing"]
          /\ con' = [con EXCEPT ![c] = Without(con[c], t)]
          /\ job' = [job EXCEPT ![c] =
                       [op |-> "burn", token |-> t, stamp |-> clock']]
          /\ UNCHANGED <<file, burned, synced>>
          /\ t \in DOMAIN file.counts
      BY <1>6 DEF BurnLink, StartJob
    <2>2. QED
      BY <2>1 DEF DesksTyped
  \* Whoever else was in step is not any more.
  <1>7. ASSUME NEW c \in Consoles, ConsoleWrites(c)
        PROVE  DesksAreCurrent'
    <2>1. /\ synced' \subseteq {c} /\ con' = con /\ file'.counts = con[c]
          /\ desk' = [desk EXCEPT ![c] = "open"]
      BY <1>7 DEF ConsoleWrites
    <2>2. QED
      BY <2>1 DEF DesksTyped
  <1>8. QED
    BY <1>1, <1>2, <1>3, <1>4, <1>5, <1>6, <1>7 DEF CalmStep, DeskMove

\* The books stay in order if no charge is added and no link comes or goes.
LEMMA LinkBooksKept ==
  ASSUME ServerTyped, LinkBooks, file' = file, burned' = burned,
         \A q \in Requests : pc'[q] \in {"restat", "respond", "granted"}
                             => pc[q] \in {"restat", "respond", "granted"}
  PROVE  LinkBooks'
  <1> SUFFICES ASSUME NEW t \in Tokens
               PROVE  /\ Cardinality(Durable(t)') <= Limit[t]
                      /\ t \in DOMAIN file.counts =>
                           file.counts[t] + Cardinality(Durable(t)') <= Limit[t]
                      /\ Durable(t)' # {}
                           => t \in DOMAIN file.counts \cup burned
                      /\ t \in burned => t \notin DOMAIN file.counts
    BY DEF LinkBooks
  <1>1. Durable(t)' \subseteq Durable(t)
    BY DEF Durable, At
  <1>2. /\ IsFiniteSet(Durable(t)) /\ Cardinality(Durable(t)) \in Nat
        /\ Cardinality(Durable(t)') \in Nat
        /\ Cardinality(Durable(t)') <= Cardinality(Durable(t))
    <2>1. IsFiniteSet(Durable(t)) /\ Cardinality(Durable(t)) \in Nat
      BY AtFinite DEF Durable
    <2>2. QED
      BY <1>1, <2>1, FS_Subset, FS_CardinalityType
  <1>3. /\ Limit[t] \in Nat
        /\ t \in DOMAIN file.counts => file.counts[t] \in Nat
    BY TokensAssumption, LinkMapsDef DEF ServerTyped
  <1>4. /\ Cardinality(Durable(t)) <= Limit[t]
        /\ t \in DOMAIN file.counts =>
             file.counts[t] + Cardinality(Durable(t)) <= Limit[t]
        /\ Durable(t) # {} => t \in DOMAIN file.counts \cup burned
        /\ t \in burned => t \notin DOMAIN file.counts
    BY DEF LinkBooks
  <1>5. Durable(t)' # {} => t \in DOMAIN file.counts \cup burned
    BY <1>1, <1>4
  <1>6. QED
    BY <1>2, <1>3, <1>4, <1>5

\* What the file is after the rename of a charge: one less for its token.
LEMMA RenameLeaves ==
  ASSUME ServerTyped, MemoryIsFile \/ MemoryIsBehind, LockInv,
         NEW r \in Requests, RenameFile(r)
  PROVE  LET u == Presents[r]
         IN  /\ u \in DOMAIN file.counts
             /\ file.counts[u] = file'.counts[u] + 1
             /\ file'.counts[u] \in Nat
             /\ DOMAIN file'.counts = DOMAIN file.counts
             /\ \A t \in DOMAIN file.counts : t # u =>
                  file'.counts[t] = file.counts[t]
             /\ Durable(u)' = Durable(u) \cup {r} /\ r \notin Durable(u)
             /\ \A t : t # u => Durable(t)' = Durable(t)
  <1> DEFINE u == Presents[r]
             m == mem.counts
  <1>1. /\ pc[r] = "rename" /\ pc' = [pc EXCEPT ![r] = "restat"]
        /\ file'.counts = m /\ pc \in [Requests -> Phases]
    BY DEF RenameFile, Goto, ServerTyped
  <1>2. u \in DOMAIN m /\ file.counts = [m EXCEPT ![u] = m[u] + 1]
    BY <1>1 DEF MemoryIsFile, MemoryIsBehind, Active, Writing
  <1>3. m \in [DOMAIN m -> Nat]
    BY LinkMapsDef DEF ServerTyped
  <1>4. /\ u \in DOMAIN file.counts
        /\ file.counts[u] = file'.counts[u] + 1
        /\ file'.counts[u] \in Nat
        /\ DOMAIN file'.counts = DOMAIN file.counts
        /\ \A t \in DOMAIN file.counts : t # u =>
             file'.counts[t] = file.counts[t]
    BY <1>1, <1>2, <1>3
  <1>5. /\ Durable(u)' = Durable(u) \cup {r} /\ r \notin Durable(u)
        /\ \A t : t # u => Durable(t)' = Durable(t)
    BY <1>1 DEF Durable, At
  <1>6. QED
    BY <1>4, <1>5

LEMMA LinkBooksStep ==
  ASSUME ServerTyped, DesksTyped, LockInv, MemoryIsFile \/ MemoryIsBehind,
         DesksAreCurrent, LinkBooks, CalmStep
  PROVE  LinkBooks'
  <1>0. /\ pc \in [Requests -> Phases]
        /\ \A t \in Tokens : Limit[t] \in Nat
        /\ \A t : /\ IsFiniteSet(Durable(t)) /\ Cardinality(Durable(t)) \in Nat
                  /\ Durable(t) = {} => Cardinality(Durable(t)) = 0
    BY TokensAssumption, AtFinite, FS_EmptySet DEF ServerTyped, Durable
  <1>1. ASSUME NEW r \in Requests,
               ServerArrive(r) \/ (QuietMove(r) /\ UNCHANGED deskVars)
        PROVE  LinkBooks'
    <2>1. file' = file /\ burned' = burned
      BY <1>1 DEF ServerArrive, QuietMove, Arrive, StatTokens, ClearTokens,
                  LoadTokens, InstallTokens, Serve, Screen, Refuse, Lookup,
                  Mint, MintFails, Respond, Charge, ChargeDenied, RestatFile,
                  deskVars
    <2>2. /\ \A q \in Requests \ {r} : pc'[q] = pc[q]
          /\ pc'[r] \in {"restat", "respond", "granted"}
               => pc[r] \in {"restat", "respond", "granted"}
      BY <1>0, <1>1
         DEF ServerArrive, QuietMove, Arrive, StatTokens, ClearTokens,
             LoadTokens, InstallTokens, Serve, Screen, Refuse, Lookup, Mint,
             MintFails, Respond, Charge, ChargeDenied, RestatFile, TurnAway,
             Goto
    <2>3. QED
      BY <2>1, <2>2, LinkBooksKept
  <1>2. ASSUME NEW r \in Requests, ServerWrites(r)
        PROVE  LinkBooks'
    <2> DEFINE u == Presents[r]
    <2>1. RenameFile(r) /\ burned' = burned
      BY <1>2 DEF ServerWrites
    <2>2. /\ u \in DOMAIN file.counts
          /\ file.counts[u] = file'.counts[u] + 1
          /\ file'.counts[u] \in Nat
          /\ DOMAIN file'.counts = DOMAIN file.counts
          /\ \A t \in DOMAIN file.counts : t # u =>
               file'.counts[t] = file.counts[t]
          /\ Durable(u)' = Durable(u) \cup {r} /\ r \notin Durable(u)
          /\ \A t : t # u => Durable(t)' = Durable(t)
      BY <2>1, RenameLeaves
    <2>3. Cardinality(Durable(u)') = Cardinality(Durable(u)) + 1
      BY <1>0, <2>2, FS_AddElement
    <2> SUFFICES ASSUME NEW t \in Tokens
                 PROVE  /\ Cardinality(Durable(t)') <= Limit[t]
                        /\ t \in DOMAIN file'.counts =>
                             file'.counts[t] + Cardinality(Durable(t)')
                               <= Limit[t]
                        /\ Durable(t)' # {} =>
                             t \in DOMAIN file'.counts \cup burned
                        /\ t \in burned => t \notin DOMAIN file'.counts
      BY <2>1 DEF LinkBooks
    <2>4. CASE t = u
      <3> HIDE DEF u
      <3>1. file.counts[u] + Cardinality(Durable(u)) <= Limit[u]
        BY <2>2, <2>4 DEF LinkBooks
      <3>2. file'.counts[u] + Cardinality(Durable(u)') <= Limit[u]
        BY <1>0, <2>2, <2>3, <2>4, <3>1
      <3>3. Cardinality(Durable(u)') <= Limit[u]
        BY <1>0, <2>2, <2>3, <2>4, <3>2
      <3>4. QED
        BY <2>2, <2>4, <3>2, <3>3 DEF LinkBooks
    <2>5. CASE t # u
      <3>1. Durable(t)' = Durable(t)
        BY <2>2, <2>5
      <3>2. t \in DOMAIN file.counts => file'.counts[t] = file.counts[t]
        BY <2>2, <2>5
      <3>3. QED
        BY <2>2, <3>1, <3>2 DEF LinkBooks
    <2>6. QED
      BY <2>4, <2>5
  <1>3. CASE ProcessMove /\ UNCHANGED deskVars
    <2>1. file' = file /\ burned' = burned
      BY <1>3 DEF ProcessMove, Crash, BootStat, ExpiryPasses, vars, deskVars
    <2>2. \A q \in Requests : pc'[q] \in {"restat", "respond", "granted"}
                              => pc[q] \in {"restat", "respond", "granted"}
      BY <1>3 DEF ProcessMove, Crash, BootStat, ExpiryPasses, vars
    <2>3. QED
      BY <2>1, <2>2, LinkBooksKept
  <1>4. ASSUME NEW c \in Consoles, DeskMove(c)
        PROVE  LinkBooks'
    <2>1. UNCHANGED <<file, pc, burned>>
      BY <1>4 DEF DeskMove, Open, Close, ConsoleWriteFails, MintLink,
                  BurnLink, StartJob, vars
    <2>2. QED
      BY <2>1, LinkBooksKept
  \* A new link has been charged for by nobody; a burned one leaves the file.
  <1>5. ASSUME NEW c \in Consoles, ConsoleWrites(c), Calm(c)
        PROVE  LinkBooks'
    <2> DEFINE u == job[c].token
    <2>1. /\ c \in synced /\ desk[c] = "writing" /\ file'.counts = con[c]
          /\ pc' = pc
      BY <1>5 DEF ConsoleWrites, Calm
    <2>2. \A t : Durable(t)' = Durable(t)
      BY <2>1 DEF Durable, At
    <2>3. CASE job[c].op = "burn"
      <3>1. file'.counts = Without(file.counts, u) /\ burned' = burned \cup {u}
        BY <1>5, <2>1, <2>3 DEF DesksAreCurrent, ConsoleWrites
      <3>2. /\ DOMAIN file'.counts = DOMAIN file.counts \ {u}
            /\ \A t \in DOMAIN file'.counts : file'.counts[t] = file.counts[t]
        BY <3>1 DEF Without
      <3>3. QED
        BY <2>2, <3>1, <3>2 DEF LinkBooks
    <2>4. CASE job[c].op # "burn"
      <3>1. /\ file'.counts = With(file.counts, u) /\ burned' = burned
            /\ u \notin DOMAIN file.counts \cup burned
        BY <1>5, <2>1, <2>4 DEF DesksAreCurrent, ConsoleWrites
      <3>2. /\ DOMAIN file'.counts = DOMAIN file.counts \cup {u}
            /\ file'.counts[u] = Limit[u]
            /\ \A t \in DOMAIN file.counts : file'.counts[t] = file.counts[t]
        BY <3>1 DEF With
      <3>3. u \in Tokens => Cardinality(Durable(u)) = 0
        BY <1>0, <3>1 DEF LinkBooks
      <3> HIDE DEF u
      <3>4. ASSUME NEW t \in Tokens, t \in DOMAIN file'.counts
            PROVE  file'.counts[t] + Cardinality(Durable(t)) <= Limit[t]
        <4>1. CASE t = u
          BY <1>0, <3>2, <3>3, <4>1
        <4>2. CASE t # u
          BY <3>2, <3>4, <4>2 DEF LinkBooks
        <4>3. QED
          BY <4>1, <4>2
      <3>5. QED
        BY <2>2, <3>1, <3>2, <3>4 DEF LinkBooks
    <2>5. QED
      BY <2>3, <2>4
  <1>6. QED
    BY <1>1, <1>2, <1>3, <1>4, <1>5 DEF CalmStep

\* A late request that looks its link up does so in the file's map.
LEMMA LateStep ==
  ASSUME ServerTyped, LockInv, MemoryIsFile \/ MemoryIsBehind, LinkBooks,
         DesksTyped, LateRefused, CalmStep
  PROVE  LateRefused'
  <1>0. pc \in [Requests -> Phases] /\ late \subseteq Requests
    BY DEF ServerTyped, DesksTyped
  <1>1. ASSUME NEW r \in Requests, Arrive(r),
               late' = IF Presents[r] \in burned THEN late \cup {r} ELSE late,
               burned' = burned
        PROVE  LateRefused'
    BY <1>0, <1>1 DEF Arrive, Goto, LateRefused
  <1>2. ASSUME NEW r \in Requests, QuietMove(r), UNCHANGED deskVars
        PROVE  LateRefused'
    <2>1. UNCHANGED <<late, burned>> /\ \A q \in Requests \ {r} : pc'[q] = pc[q]
      BY <1>0, <1>2
         DEF deskVars, QuietMove, StatTokens, ClearTokens, LoadTokens,
             InstallTokens, Serve, Screen, Refuse, Lookup, Mint, MintFails,
             Respond, Charge, ChargeDenied, RestatFile, TurnAway, Goto
    <2>2. CASE r \notin late
      BY <2>1, <2>2, <1>0 DEF LateRefused
    <2>3. CASE r \in late /\ Lookup(r)
      <3>1. mem.counts = file.counts
        BY <2>3, FreeLock DEF Lookup, MemoryIsFile, MemoryIsBehind, Writing,
                              Active, Serving
      <3>2. Presents[r] \notin DOMAIN file.counts
        BY <2>3, <1>0, RequestsAssumption DEF LateRefused, LinkBooks
      <3>3. pc'[r] = "not_found"
        BY <2>3, <3>1, <3>2, <1>0 DEF Lookup, TurnAway, Unknown, Exhausted,
                                      Expired, Redeemable, Goto
      <3>4. QED
        BY <2>1, <3>3, <1>0 DEF LateRefused
    <2>4. CASE r \in late /\ ~Lookup(r)
      <3>1. /\ pc[r] \notin {"mint", "charge", "restat", "respond"}
        BY <2>4 DEF LateRefused
      <3>2. pc'[r] \in {"clear", "load", "install", "screen", "lookup", "failed"}
        BY <1>2, <2>4, <3>1, <1>0
           DEF QuietMove, StatTokens, ClearTokens, LoadTokens, InstallTokens,
               Serve, Screen, Refuse, Mint, MintFails, Respond, Charge,
               ChargeDenied, RestatFile, Goto
      <3>3. QED
        BY <2>1, <3>2, <1>0 DEF LateRefused
    <2>5. QED
      BY <2>2, <2>3, <2>4
  <1>3. ASSUME NEW r \in Requests, ServerWrites(r)
        PROVE  LateRefused'
    BY <1>0, <1>3 DEF ServerWrites, RenameFile, Goto, LateRefused
  <1>4. CASE ProcessMove /\ UNCHANGED deskVars
    BY <1>0, <1>4 DEF ProcessMove, Crash, BootStat, ExpiryPasses, vars,
                      deskVars, LateRefused
  <1>5. ASSUME NEW c \in Consoles, DeskMove(c) \/ ConsoleWrites(c)
        PROVE  LateRefused'
    <2>1. pc' = pc /\ late' = late /\ burned \subseteq burned'
      BY <1>5 DEF DeskMove, Open, Close, ConsoleWriteFails, MintLink,
                  BurnLink, StartJob, ConsoleWrites, vars
    <2>2. QED
      BY <2>1 DEF LateRefused
  <1>6. QED
    BY <1>1, <1>2, <1>3, <1>4, <1>5 DEF CalmStep, ServerArrive

LEMMA ConsoleInvStep == ConsoleInv /\ [ConsoleNext]_allVars => ConsoleInv'
  <1> SUFFICES ASSUME ConsoleInv, [ConsoleNext]_allVars
               PROVE  ConsoleInv'
    OBVIOUS
  <1>1. ServerTyped' /\ DesksTyped' /\ LockInv' /\ Booting'
    BY ServerTypedStep, DesksTypedStep, ConsoleLockStep DEF ConsoleInv
  <1>2. ASSUME Undisturbed'
        PROVE  CalmInv'
    <2>1. CalmInv /\ CalmStep
      BY <1>2, OnlyCalmSteps DEF ConsoleInv
    <2>2. (MemoryIsFile \/ MemoryIsBehind)'
      BY <2>1, MemoryStep, BehindStep DEF ConsoleInv, CalmInv
    <2>3. StampsInOrder' /\ LoadedIsFile' /\ DesksAreCurrent'
      BY <2>1, StampsStep, LoadedStep, DesksStep DEF ConsoleInv, CalmInv
    <2>4. LinkBooks' /\ LateRefused'
      BY <2>1, LinkBooksStep, LateStep DEF ConsoleInv, CalmInv
    <2>5. QED
      BY <2>2, <2>3, <2>4 DEF CalmInv
  <1>3. QED
    BY <1>1, <1>2 DEF ConsoleInv

\* If dashboards write at calm moments only, no read or write fails, and no
\* request installs a map the file has moved past, then a burn holds against
\* every request that arrives after it and no link grants more than its limit:
\* for any number of dashboards and requests, and whenever the server is killed.
THEOREM CalmWrites == ConsoleSpec => []CalmWritesAreSafe
  <1>1. ConsoleInv => CalmWritesAreSafe
    <2> SUFFICES ASSUME CalmInv, ServerTyped, DesksTyped
                 PROVE  /\ BurnedLinkRefused
                        /\ \A t \in Tokens : Cardinality(Granted(t)) <= Limit[t]
      BY DEF ConsoleInv, Undisturbed, CalmWritesAreSafe
    <2>1. BurnedLinkRefused
      BY DEF CalmInv, LateRefused, BurnedLinkRefused
    <2>2. ASSUME NEW t \in Tokens
          PROVE  Cardinality(Granted(t)) <= Limit[t]
      <3>1. IsFiniteSet(Durable(t)) /\ Granted(t) \subseteq Durable(t)
        BY AtFinite DEF Durable, Granted, At
      <3>2. /\ Cardinality(Granted(t)) <= Cardinality(Durable(t))
            /\ Cardinality(Granted(t)) \in Nat /\ Cardinality(Durable(t)) \in Nat
        BY <3>1, FS_Subset, FS_CardinalityType
      <3>3. Cardinality(Durable(t)) <= Limit[t] /\ Limit[t] \in Nat
        BY TokensAssumption DEF CalmInv, LinkBooks
      <3>4. QED
        BY <3>2, <3>3
    <2>3. QED
      BY <2>1, <2>2
  <1>2. QED
    BY ConsoleInvInit, ConsoleInvStep, <1>1, PTL DEF ConsoleSpec

(***************************************************************************)
(* 7. One registry of links                                                *)
(*                                                                         *)
(* Where the invariants of sections 3 and 6 hold, a request looks its link *)
(* up in the map the file has, and the rename takes one redemption from    *)
(* it: then every step of the server is one of ShareLinks, or none.        *)
(***************************************************************************)
SeesFile ==
  /\ \A r \in Requests :
       pc[r] \in {"lookup", "charge"} /\ lock = NoOne
         => mem.counts = file.counts
  /\ \A r \in Requests : pc[r] = "rename" =>
       LET u == Presents[r]
       IN  /\ u \in DOMAIN file.counts
           /\ file.counts[u] > 0
           /\ mem.counts = [file.counts EXCEPT ![u] = file.counts[u] - 1]

LEMMA Fates ==
  ASSUME NEW phase
  PROVE  /\ phase \in Answers => FateAt(phase) = phase
         /\ phase \in {"restat", "respond"} => FateAt(phase) = "taken"
         /\ phase \in {"idle", "rename"} \cup Reloading \cup Serving
              => FateAt(phase) = "open"
  BY DEF FateAt, Answers, Reloading, Serving

LEMMA FateMoves ==
  ASSUME pc \in [Requests -> Phases], NEW r \in Requests, NEW phase,
         Goto(r, phase)
  PROVE  /\ Fate' = [Fate EXCEPT ![r] = FateAt(phase)]
         /\ Fate[r] = FateAt(pc[r])
         /\ FateAt(phase) = FateAt(pc[r]) => Fate' = Fate
  <1>1. pc' = [pc EXCEPT ![r] = phase] /\ DOMAIN pc = Requests
    BY DEF Goto
  <1> HIDE DEF FateAt
  <1>2. QED
    BY <1>1 DEF Fate

\* One more than m is one that m was taken from.
LEMMA OneMore ==
  \A m, d : \A u \in DOMAIN m :
    m \in [DOMAIN m -> Nat] /\ d = [m EXCEPT ![u] = m[u] + 1]
      => /\ u \in DOMAIN d /\ d[u] > 0
         /\ m = [d EXCEPT ![u] = d[u] - 1]
  <1> TAKE m, d
  <1> TAKE u \in DOMAIN m
  <1> HAVE m \in [DOMAIN m -> Nat] /\ d = [m EXCEPT ![u] = m[u] + 1]
  <1>1. m[u] \in Nat /\ d[u] = m[u] + 1 /\ DOMAIN d = DOMAIN m
    OBVIOUS
  <1>2. \A t \in DOMAIN m : m[t] = [d EXCEPT ![u] = d[u] - 1][t]
    BY <1>1
  <1>3. m = [d EXCEPT ![u] = d[u] - 1]
    BY <1>1, <1>2
  <1>4. QED
    BY <1>1, <1>3

\* Steps of a request that take nothing and answer nobody.
LEMMA QuietSteps ==
  ASSUME pc \in [Requests -> Phases], NEW r \in Requests,
         Arrive(r) \/ Poll(r) \/ Screen(r) \/ Mint(r) \/ Charge(r)
           \/ RestatFile(r)
  PROVE  file'.counts = file.counts /\ Fate' = Fate
  <1>1. CASE RestatFile(r)
    <2>1. file' = file /\ pc[r] = "restat" /\ Goto(r, "respond")
      BY <1>1 DEF RestatFile
    <2>2. FateAt("respond") = FateAt("restat")
      BY Fates
    <2>3. QED
      BY <2>1, <2>2, FateMoves
  <1>2. CASE ~RestatFile(r)
    <2> DEFINE early == {"idle"} \cup {"rename"} \cup Reloading \cup Serving
    <2>1. /\ file' = file /\ pc[r] \in early
          /\ \E phase \in early : Goto(r, phase)
      BY <1>2 DEF Arrive, Poll, StatTokens, ClearTokens, LoadTokens, LoadFails,
                  InstallTokens, Screen, Mint, Charge, Reloading, Serving
    <2>2. PICK phase \in early : Goto(r, phase)
      BY <2>1
    <2>3. FateAt(phase) = "open" /\ FateAt(pc[r]) = "open"
      BY <2>1, <2>2, Fates
    <2>4. QED
      BY <2>1, <2>2, <2>3, FateMoves
  <1>3. QED
    BY <1>1, <1>2

\* A refusal is true of the file at the instant it is made.
LEMMA RefusalIsTrue ==
  ASSUME pc \in [Requests -> Phases],
         file.counts \in [DOMAIN file.counts -> Nat], SeesFile,
         NEW r \in Requests,
         Refuse(r) \/ MintFails(r) \/ Lookup(r) \/ ChargeDenied(r)
  PROVE  Links!TurnAway(r) \/ (file'.counts = file.counts /\ Fate' = Fate)
  <1>0. file' = file /\ pc[r] \in Serving /\ Fate[r] = "open"
    <2>1. file' = file /\ pc[r] \in Serving
      BY DEF Refuse, MintFails, Lookup, ChargeDenied, Serving
    <2>2. QED
      BY <2>1, Fates DEF Fate
  <1>1. ASSUME NEW phase \in Answers, Goto(r, phase)
        PROVE  Fate' = [Fate EXCEPT ![r] = phase]
    BY <1>1, FateMoves, Fates
  <1>2. CASE Goto(r, "failed")
    BY <1>0, <1>1, <1>2 DEF Links!TurnAway, Links!Become, Answers
  <1>3. CASE Lookup(r) \/ ChargeDenied(r)
    <2>1. mem.counts = file.counts
      BY <1>3 DEF Lookup, ChargeDenied, SeesFile
    <2>2. CASE TurnAway(r)
      <3>1. CASE Unknown(r) /\ Goto(r, "not_found")
        BY <1>0, <1>1, <2>1, <3>1
           DEF Links!TurnAway, Links!Become, Links!Exists, Unknown, Answers
      <3>2. CASE Exhausted(r) /\ Goto(r, "exhausted")
        BY <1>0, <1>1, <2>1, <3>2
           DEF Links!TurnAway, Links!Become, Links!Exists, Unknown, Exhausted,
               Answers
      <3>3. CASE Expired(r) /\ Goto(r, "expired")
        <4>1. /\ Presents[r] \in DOMAIN file.counts
              /\ file.counts[Presents[r]] > 0
          BY <2>1, <3>3 DEF Expired, Unknown, Exhausted
        <4>2. Fate' = [Fate EXCEPT ![r] = "expired"]
          BY <1>1, <3>3 DEF Answers
        <4>3. QED
          BY <1>0, <4>1, <4>2 DEF Links!TurnAway, Links!Become, Links!Exists
      <3>4. QED
        BY <2>2, <3>1, <3>2, <3>3 DEF TurnAway
    <2>3. CASE Lookup(r) /\ Goto(r, "mint")
      <3>1. FateAt("mint") = FateAt(pc[r])
        BY <1>0, Fates DEF Serving
      <3>2. QED
        BY <1>0, <2>3, <3>1, FateMoves
    <2>4. QED
      BY <1>3, <2>2, <2>3 DEF Lookup, ChargeDenied
  <1>4. QED
    BY <1>2, <1>3 DEF Refuse, MintFails

LEMMA RenameTakes ==
  ASSUME pc \in [Requests -> Phases], SeesFile, NEW r \in Requests,
         RenameFile(r)
  PROVE  Links!Take(r)
  <1>1. /\ pc[r] = "rename" /\ file'.counts = mem.counts /\ Goto(r, "restat")
    BY DEF RenameFile
  <1>2. Fate[r] = "open" /\ Fate' = [Fate EXCEPT ![r] = "taken"]
    BY <1>1, FateMoves, Fates
  <1>3. /\ Presents[r] \in DOMAIN file.counts
        /\ file.counts[Presents[r]] > 0
        /\ file'.counts =
             [file.counts EXCEPT ![Presents[r]] = file.counts[Presents[r]] - 1]
    BY <1>1 DEF SeesFile
  <1>4. QED
    BY <1>2, <1>3 DEF Links!Take, Links!Become, Links!Exists

LEMMA RespondGrants ==
  ASSUME pc \in [Requests -> Phases], NEW r \in Requests, Respond(r)
  PROVE  Links!Grant(r)
  <1>1. pc[r] = "respond" /\ Goto(r, "granted") /\ file' = file
    BY DEF Respond
  <1>2. Fate[r] = "taken" /\ Fate' = [Fate EXCEPT ![r] = "granted"]
    BY <1>1, FateMoves, Fates DEF Answers
  <1>3. QED
    BY <1>1, <1>2 DEF Links!Grant, Links!Become

\* A process that ends under its handlers leaves the links alone.
LEMMA HandlersLost ==
  ASSUME pc \in [Requests -> Phases], file' = file,
         pc' = [r \in Requests |-> IF pc[r] \in Active THEN "lost" ELSE pc[r]]
  PROVE  Links!Die
  <1> DEFINE dead == {r \in Requests : pc[r] \in Active}
  <1>1. pc' = [r \in Requests |-> IF r \in dead THEN "lost" ELSE pc[r]]
    OBVIOUS
  <1>2. \A r \in dead : Fate[r] \in {"open", "taken"}
    BY Fates DEF Fate, Active, Writing
  <1>3. FateAt("lost") = "lost"
    BY Fates DEF Answers
  <1>4. Fate' = [r \in Requests |-> IF r \in dead THEN "lost" ELSE Fate[r]]
    BY <1>1, <1>3 DEF Fate
  <1>5. dead \in SUBSET {r \in Requests : Fate[r] \in {"open", "taken"}}
    BY <1>2
  <1> HIDE DEF dead
  <1>6. QED
    BY <1>4, <1>5 DEF Links!Die

\* A step of the server that neither fails to write nor loses the file.
ServerMove ==
  \/ \E r \in Requests :
       \/ Arrive(r) \/ Poll(r) \/ Serve(r) \/ Charge(r) \/ ChargeDenied(r)
       \/ RenameFile(r) \/ RestatFile(r)
  \/ ProcessMove

LEMMA ServerImplements ==
  ASSUME pc \in [Requests -> Phases],
         file.counts \in [DOMAIN file.counts -> Nat], SeesFile, ServerMove
  PROVE  \/ \E r \in Requests :
              Links!Take(r) \/ Links!Grant(r) \/ Links!TurnAway(r)
         \/ Links!Die
         \/ file'.counts = file.counts /\ Fate' = Fate
  <1>1. CASE (\E t \in Tokens : ExpiryPasses(t)) \/ BootStat \/ UNCHANGED vars
    BY <1>1 DEF ExpiryPasses, BootStat, vars, Fate
  <1>2. Crash => Links!Die
    BY HandlersLost DEF Crash
  <1>3. QED
    BY <1>1, <1>2, QuietSteps, RefusalIsTrue, RenameTakes, RespondGrants
       DEF ServerMove, ProcessMove, Serve

LEMMA BooksShowFile ==
  ASSUME BInv, Sound
  PROVE  SeesFile /\ file.counts \in [DOMAIN file.counts -> Nat]
  <1>1. file.counts \in Counts /\ mem.counts \in Counts /\ LockInv /\ BooksInv
    BY DEF BInv, TInv, TypeOK, Sound
  <1>2. ASSUME NEW r \in Requests, pc[r] = "rename"
        PROVE  LET u == Presents[r]
               IN  /\ u \in DOMAIN file.counts
                   /\ file.counts[u] > 0
                   /\ mem.counts =
                        [file.counts EXCEPT ![u] = file.counts[u] - 1]
    <2>1. /\ Presents[r] \in DOMAIN mem.counts
          /\ mem.counts \in [DOMAIN mem.counts -> Nat]
          /\ file.counts =
               [mem.counts EXCEPT ![Presents[r]] = mem.counts[Presents[r]] + 1]
      BY <1>1, <1>2 DEF BooksInv, Counts
    <2>2. QED
      BY <2>1, OneMore
  <1>3. lock = NoOne => mem.counts = file.counts
    BY <1>1, FreeLock DEF BooksInv, Writing
  <1>4. QED
    BY <1>1, <1>2, <1>3 DEF SeesFile, Counts

LEMMA LinksInit == Init => Links!Init
  <1> SUFFICES ASSUME Init
               PROVE  Links!Init
    OBVIOUS
  <1>1. file.counts = [t \in Registered |-> Limit[t]]
    BY DEF Init, InitialFile, NoFile, NoCounts
  <1>2. Fate = [r \in Requests |-> "open"]
    BY Fates DEF Init, Fate
  <1>3. QED
    BY <1>1, <1>2, TokensAssumption DEF Links!Init

LEMMA RedeemImplements ==
  ASSUME BInv, [Next]_vars, Sound'
  PROVE  Links!Next \/ UNCHANGED Links!vars
  <1>1. Sound /\ ServerMove
    <2>1. ~DeleteFile /\ \A r \in Requests : ~PersistFails(r)
      BY DEF Sound, DeleteFile, PersistFails
    <2>2. ServerMove
      BY <2>1 DEF ServerMove, ProcessMove, Next, HandleRedeem, Consume, Served
    <2>3. QED
      BY <2>2, HistoryStays DEF Sound
  <1>2. pc \in [Requests -> Phases]
    BY DEF BInv, TInv, TypeOK
  <1>3. \/ \E r \in Requests :
             Links!Take(r) \/ Links!Grant(r) \/ Links!TurnAway(r)
        \/ Links!Die
        \/ file'.counts = file.counts /\ Fate' = Fate
    BY <1>1, <1>2, BooksShowFile, ServerImplements
  <1>4. QED
    BY <1>3 DEF Links!Next, Links!vars

\* Redeem implements ShareLinks as long as the books are sound.
THEOREM Linearizable == Spec => RedeemedAtOnce
  <1>1. BInv /\ [Next]_vars
          => (Sound' => Links!Next \/ UNCHANGED Links!vars)
    BY RedeemImplements
  <1>2. QED
    BY BooksInit, BInvStep, LinksInit, <1>1, PTL DEF Spec, RedeemedAtOnce

LEMMA CalmShowsFile ==
  ASSUME ServerTyped, LockInv, MemoryIsFile \/ MemoryIsBehind
  PROVE  SeesFile /\ file.counts \in [DOMAIN file.counts -> Nat]
  <1>1. /\ file.counts \in [DOMAIN file.counts -> Nat]
        /\ mem.counts \in [DOMAIN mem.counts -> Nat]
    BY LinkMapsDef DEF ServerTyped
  <1>2. CASE MemoryIsFile
    <2>1. lock = NoOne => mem.counts = file.counts
      BY <1>2, FreeLock DEF MemoryIsFile, Writing
    <2>2. ASSUME NEW r \in Requests, pc[r] = "rename"
          PROVE  LET u == Presents[r]
                 IN  /\ u \in DOMAIN file.counts
                     /\ file.counts[u] > 0
                     /\ mem.counts =
                          [file.counts EXCEPT ![u] = file.counts[u] - 1]
      <3>1. /\ Presents[r] \in DOMAIN mem.counts
            /\ file.counts =
                 [mem.counts EXCEPT ![Presents[r]] = mem.counts[Presents[r]] + 1]
        BY <1>2, <2>2 DEF MemoryIsFile
      <3>2. QED
        BY <1>1, <3>1, OneMore
    <2>3. QED
      BY <1>1, <2>1, <2>2 DEF SeesFile
  <1>3. CASE MemoryIsBehind
    <2>1. \A r \in Requests : pc[r] \notin {"lookup", "charge", "rename"}
      BY <1>3 DEF MemoryIsBehind, Active, Serving, Writing
    <2>2. QED
      BY <1>1, <2>1 DEF SeesFile
  <1>4. QED
    BY <1>2, <1>3

\* What links there have ever been does not depend on the server.
LEMMA ServerOnRegistry ==
  ASSUME burned' = burned,
         \/ \E r \in Requests :
              Links!Take(r) \/ Links!Grant(r) \/ Links!TurnAway(r)
         \/ Links!Die
         \/ file'.counts = file.counts /\ Fate' = Fate
  PROVE  SharedLinks!Next \/ UNCHANGED SharedLinks!vars
  <1>1. ASSUME NEW r \in Requests, Links!Take(r)
        PROVE  SharedLinks!Take(r)
    <2>1. DOMAIN file'.counts = DOMAIN file.counts
      BY <1>1 DEF Links!Take
    <2>2. QED
      BY <1>1, <2>1 DEF Links!Take, SharedLinks!Take, Links!Become,
                        SharedLinks!Become, Links!Exists, SharedLinks!Exists
  <1>2. ASSUME NEW r \in Requests, Links!Grant(r)
        PROVE  SharedLinks!Grant(r)
    BY <1>2 DEF Links!Grant, SharedLinks!Grant, Links!Become,
                SharedLinks!Become
  <1>3. ASSUME NEW r \in Requests, Links!TurnAway(r)
        PROVE  SharedLinks!TurnAway(r)
    BY <1>3 DEF Links!TurnAway, SharedLinks!TurnAway, Links!Become,
                SharedLinks!Become, Links!Exists, SharedLinks!Exists
  <1>4. Links!Die => SharedLinks!Die
    BY DEF Links!Die, SharedLinks!Die
  <1>5. QED
    BY <1>1, <1>2, <1>3, <1>4 DEF SharedLinks!Next, SharedLinks!vars

\* A minting adds a link there has never been; a burn removes one that is there.
LEMMA WriteOnRegistry ==
  ASSUME DesksTyped, DesksAreCurrent, NEW c \in Consoles, ConsoleWrites(c),
         Calm(c)
  PROVE  SharedLinks!Next
  <1> DEFINE t == job[c].token
  <1>1. /\ c \in synced /\ desk[c] = "writing" /\ file'.counts = con[c]
        /\ t \in Tokens /\ pc' = pc
    BY DEF ConsoleWrites, Calm, DesksTyped
  <1>2. Fate' = Fate
    BY <1>1 DEF Fate
  <1>3. CASE job[c].op = "burn"
    <2>1. /\ file'.counts = Without(file.counts, t) /\ t \in DOMAIN file.counts
          /\ burned' = burned \cup {t}
      BY <1>1, <1>3 DEF DesksAreCurrent, ConsoleWrites
    <2>2. burned' \cup DOMAIN file'.counts = burned \cup DOMAIN file.counts
      BY <2>1 DEF Without
    <2>3. SharedLinks!Burn(t)
      BY <1>2, <2>1, <2>2 DEF SharedLinks!Burn, SharedLinks!Exists, Without
    <2>4. QED
      BY <1>1, <2>3 DEF SharedLinks!Next
  <1>4. CASE job[c].op # "burn"
    <2>1. /\ file'.counts = With(file.counts, t)
          /\ t \notin DOMAIN file.counts \cup burned
          /\ burned' = burned
      BY <1>1, <1>4 DEF DesksAreCurrent, ConsoleWrites
    <2>2. burned' \cup DOMAIN file'.counts =
            (burned \cup DOMAIN file.counts) \cup {t}
      BY <2>1 DEF With
    <2>3. SharedLinks!Create(t)
      BY <1>1, <1>2, <2>1, <2>2 DEF SharedLinks!Create, With
    <2>4. QED
      BY <1>1, <2>3 DEF SharedLinks!Next
  <1>5. QED
    BY <1>3, <1>4

\* Redeem with dashboards implements ShareLinks as long as nothing disturbs it.
THEOREM SharedRegistry == ConsoleSpec => OneRegistry
  <1>1. ConsoleInit => SharedLinks!Init
    <2> SUFFICES ASSUME ConsoleInit
                 PROVE  SharedLinks!Init
      OBVIOUS
    <2>1. file.counts = [t \in Registered |-> Limit[t]] /\ burned = {}
      BY DEF ConsoleInit, Init, InitialFile, NoFile, NoCounts
    <2>2. Fate = [r \in Requests |-> "open"]
      BY Fates DEF ConsoleInit, Init, Fate
    <2>3. burned \cup DOMAIN file.counts = Registered
      BY <2>1
    <2>4. QED
      BY <2>1, <2>2, <2>3, TokensAssumption DEF SharedLinks!Init
  <1>2. ConsoleInv /\ [ConsoleNext]_allVars
          => (~regressed' /\ ~disturbed'
                => SharedLinks!Next \/ UNCHANGED SharedLinks!vars)
    <2> SUFFICES ASSUME ConsoleInv, [ConsoleNext]_allVars, Undisturbed'
                 PROVE  SharedLinks!Next \/ UNCHANGED SharedLinks!vars
      BY DEF Undisturbed
    <2>1. CalmStep /\ ServerTyped /\ DesksTyped /\ LockInv /\ CalmInv
      BY OnlyCalmSteps DEF ConsoleInv
    <2>2. pc \in [Requests -> Phases]
      BY <2>1 DEF ServerTyped
    <2>3. ASSUME ServerMove, burned' = burned
          PROVE  SharedLinks!Next \/ UNCHANGED SharedLinks!vars
      BY <2>1, <2>2, <2>3, CalmShowsFile, ServerImplements, ServerOnRegistry
         DEF CalmInv
    <2>4. ASSUME NEW r \in Requests,
                 \/ ServerArrive(r) \/ ServerWrites(r)
                 \/ QuietMove(r) /\ UNCHANGED deskVars
          PROVE  ServerMove /\ burned' = burned
      BY <2>4 DEF ServerMove, ServerArrive, ServerWrites, QuietMove, Poll,
                  deskVars
    <2>5. ProcessMove /\ UNCHANGED deskVars => ServerMove /\ burned' = burned
      BY DEF ServerMove, deskVars
    <2>6. ASSUME NEW c \in Consoles, DeskMove(c)
          PROVE  UNCHANGED SharedLinks!vars
      <3>1. UNCHANGED <<file, pc, burned>>
        BY <2>6 DEF DeskMove, Open, Close, ConsoleWriteFails, MintLink,
                    BurnLink, StartJob, vars
      <3>2. QED
        BY <3>1 DEF SharedLinks!vars, Fate
    <2>7. ASSUME NEW c \in Consoles, ConsoleWrites(c), Calm(c)
          PROVE  SharedLinks!Next
      BY <2>1, <2>7, WriteOnRegistry DEF CalmInv
    <2>8. QED
      BY <2>1, <2>3, <2>4, <2>5, <2>6, <2>7 DEF CalmStep
  <1>3. QED
    BY ConsoleInvInit, ConsoleInvStep, <1>1, <1>2, PTL
       DEF ConsoleSpec, OneRegistry

=============================================================================
