------------------------------- MODULE Redeem -------------------------------
(***************************************************************************)
(* The server side of share links: POST /v1/redeem (redeem.go) over the    *)
(* redemption-token part of State (state.go).                              *)
(*                                                                         *)
(* The server keeps redemption-tokens.json in memory, guarded by           *)
(* State.mu.  Every request first polls the file's modification time, may  *)
(* load the file and swap it in, looks its token up, mints an envelope     *)
(* without the lock, and then charges one redemption under the write lock, *)
(* which rewrites the file and records the file's new modification time.   *)
(* Any number of requests are served at once; an action is what one of     *)
(* them does between two points where others can run.  The process may be  *)
(* killed at any time and started again by systemd.                        *)
(*                                                                         *)
(* File systems stamp files with a coarse clock: two writes may carry the  *)
(* same modification time (0 \in Ticks).                                   *)
(*                                                                         *)
(* The config registry, the rate limiter and the envelope format are other *)
(* components: here they may turn a request away (Refuse, MintFails) and   *)
(* nothing else.                                                           *)
(***************************************************************************)
EXTENDS Naturals, FiniteSets

CONSTANTS
  Requests,       \* redeem requests; each is served once, a retry is another
  Tokens,         \* share-link tokens
  Registered,     \* the tokens in redemption-tokens.json at the start
  Limit,          \* redemptions each token is created with
  Expiring,       \* tokens that have an ExpiresAt
  Presents,       \* the token each request carries
  DiskMayFail,    \* may reading or writing redemption-tokens.json fail?
  Ticks,          \* how far the file clock may advance from write to write
  MayCrash,       \* may the process be killed?
  MayDelete,      \* may the operator delete redemption-tokens.json?
  NoOne           \* State.mu is not held for writing

ASSUME RequestsAssumption ==
  /\ IsFiniteSet(Requests)
  /\ NoOne \notin Requests
  /\ Presents \in [Requests -> Tokens]

ASSUME TokensAssumption ==
  /\ Registered \subseteq Tokens
  /\ Expiring \subseteq Tokens
  /\ Limit \in [Tokens -> Nat]

ASSUME FaultsAssumption ==
  /\ DiskMayFail \in BOOLEAN
  /\ MayCrash \in BOOLEAN
  /\ MayDelete \in BOOLEAN
  /\ Ticks \subseteq Nat

VARIABLES
  file,      \* redemption-tokens.json: remaining redemptions, and its mtime
  mem,       \* State.redemptionTokens and State.redemptionTokensMtime
  clock,     \* the clock file writes are stamped with
  server,    \* "up", or "booting" between the load and the stat of a start
  lock,      \* the request that holds State.mu for writing
  pc,        \* where each request is in handleRedeem, or how it ended
  held,      \* the mtime a request holds: cached, then stat's, then its write's
  snap,      \* the token map a request has loaded and not yet installed
  expired,   \* tokens whose ExpiresAt has passed
  overtaken, \* history: requests whose loaded map the file has moved past
  regressed, \* history: an overtaken map has been installed
  deleted,   \* history: the file has been deleted
  unsaved    \* history: a charge was not written to disk

vars == <<file, mem, clock, server, lock, pc, held, snap, expired,
          overtaken, regressed, deleted, unsaved>>

(***************************************************************************)
(* Where a request can be.  The last group is the answer it was given:     *)
(* 200, 404, 410, 410, another error, or none because the process died.    *)
(***************************************************************************)
Reloading == {"stat", "load", "clear", "install"}
Serving   == {"screen", "lookup", "mint", "charge"}
Writing   == {"rename", "restat"}
Answers   == {"granted", "not_found", "exhausted", "expired", "failed", "lost"}
Active    == Reloading \cup Serving \cup Writing \cup {"respond"}
Phases    == {"idle"} \cup Active \cup Answers

NoCounts == [t \in {} |-> 0]
NoFile   == [counts |-> NoCounts, mtime |-> 0]

\* The file was last written by a State of an earlier run.
InitialFile ==
  IF Registered = {}
  THEN NoFile
  ELSE [counts |-> [t \in Registered |-> Limit[t]], mtime |-> 1]

Init ==
  /\ file = InitialFile
  /\ mem = InitialFile
  /\ clock = 1
  /\ server = "up"
  /\ lock = NoOne
  /\ pc = [r \in Requests |-> "idle"]
  /\ held = [r \in Requests |-> 0]
  /\ snap = [r \in Requests |-> NoCounts]
  /\ expired = {}
  /\ overtaken = {}
  /\ regressed = FALSE
  /\ deleted = FALSE
  /\ unsaved = FALSE

(***************************************************************************)
(* Helpers                                                                 *)
(***************************************************************************)
Goto(r, phase) == pc' = [pc EXCEPT ![r] = phase]

\* Why ConsumeRedemptionToken or the checks before the mint turn r away.
Unknown(r)   == Presents[r] \notin DOMAIN mem.counts
\* Fault: off by one, the last redemption is never handed out.
ExhaustedEarly(r) == ~Unknown(r) /\ mem.counts[Presents[r]] <= 1
Exhausted(r) == ~Unknown(r) /\ mem.counts[Presents[r]] = 0
Expired(r)   == ~Unknown(r) /\ ~Exhausted(r) /\ Presents[r] \in expired
Redeemable(r) == ~Unknown(r) /\ ~Exhausted(r) /\ Presents[r] \notin expired

TurnAway(r) ==
  \/ Unknown(r) /\ Goto(r, "not_found")
  \/ Exhausted(r) /\ Goto(r, "exhausted")
  \/ Expired(r) /\ Goto(r, "expired")

(***************************************************************************)
(* ReloadRedemptionTokensIfChanged: the cached mtime is read under the     *)
(* lock, the file is stat'ed and loaded without it, and the loaded map is  *)
(* installed under it without looking at the cached mtime again.           *)
(***************************************************************************)
Arrive(r) ==
  /\ server = "up" /\ lock = NoOne
  /\ pc[r] = "idle"
  /\ held' = [held EXCEPT ![r] = mem.mtime]
  /\ Goto(r, "stat")
  /\ UNCHANGED <<file, mem, clock, server, lock, snap, expired, overtaken,
                 regressed, deleted, unsaved>>

StatTokens(r) ==
  /\ pc[r] = "stat"
  /\ \/ /\ file = NoFile
        /\ Goto(r, "clear")
        /\ UNCHANGED held
     \/ /\ file # NoFile /\ file.mtime > held[r]
        /\ held' = [held EXCEPT ![r] = file.mtime]
        /\ Goto(r, "load")
     \/ /\ file # NoFile /\ file.mtime <= held[r]
        /\ held' = [held EXCEPT ![r] = 0]
        /\ Goto(r, "screen")
  /\ UNCHANGED <<file, mem, clock, server, lock, snap, expired, overtaken,
                 regressed, deleted, unsaved>>

ClearTokens(r) ==
  /\ pc[r] = "clear" /\ lock = NoOne
  /\ mem' = NoFile
  /\ held' = [held EXCEPT ![r] = 0]
  /\ Goto(r, "screen")
  /\ UNCHANGED <<file, clock, server, lock, snap, expired, overtaken,
                 regressed, deleted, unsaved>>

LoadTokens(r) ==
  /\ pc[r] = "load"
  /\ snap' = [snap EXCEPT ![r] = file.counts]
  /\ Goto(r, "install")
  /\ UNCHANGED <<file, mem, clock, server, lock, held, expired, overtaken,
                 regressed, deleted, unsaved>>

\* A load error is logged and the request goes on with the map in memory.
LoadFails(r) ==
  /\ DiskMayFail
  /\ pc[r] = "load"
  /\ held' = [held EXCEPT ![r] = 0]
  /\ Goto(r, "screen")
  /\ UNCHANGED <<file, mem, clock, server, lock, snap, expired, overtaken,
                 regressed, deleted, unsaved>>

\* Fault: the file is stat'ed again when the loaded map is installed.
InstallWithNewStat(r) ==
  /\ pc[r] = "install" /\ lock = NoOne
  /\ mem' = [counts |-> snap[r], mtime |-> file.mtime]
  /\ snap' = [snap EXCEPT ![r] = NoCounts]
  /\ held' = [held EXCEPT ![r] = 0]
  /\ Goto(r, "screen")
  /\ regressed' = (regressed \/ r \in overtaken)
  /\ overtaken' = overtaken \ {r}
  /\ UNCHANGED <<file, clock, server, lock, expired, deleted, unsaved>>

InstallTokens(r) ==
  /\ pc[r] = "install" /\ lock = NoOne
  /\ mem' = [counts |-> snap[r], mtime |-> held[r]]
  /\ snap' = [snap EXCEPT ![r] = NoCounts]
  /\ held' = [held EXCEPT ![r] = 0]
  /\ Goto(r, "screen")
  /\ regressed' = (regressed \/ r \in overtaken)
  /\ overtaken' = overtaken \ {r}
  /\ UNCHANGED <<file, clock, server, lock, expired, deleted, unsaved>>

(***************************************************************************)
(* handleRedeem from the request body to the mint.                         *)
(***************************************************************************)
\* The body parses, the client is under its rate limit, the key is a key.
Screen(r) ==
  /\ pc[r] = "screen"
  /\ Goto(r, "lookup")
  /\ UNCHANGED <<file, mem, clock, server, lock, held, snap, expired,
                 overtaken, regressed, deleted, unsaved>>

Refuse(r) ==
  /\ pc[r] = "screen"
  /\ Goto(r, "failed")
  /\ UNCHANGED <<file, mem, clock, server, lock, held, snap, expired,
                 overtaken, regressed, deleted, unsaved>>

Lookup(r) ==
  /\ pc[r] = "lookup" /\ lock = NoOne
  /\ TurnAway(r) \/ (Redeemable(r) /\ Goto(r, "mint"))
  /\ UNCHANGED <<file, mem, clock, server, lock, held, snap, expired,
                 overtaken, regressed, deleted, unsaved>>

Mint(r) ==
  /\ pc[r] = "mint"
  /\ Goto(r, "charge")
  /\ UNCHANGED <<file, mem, clock, server, lock, held, snap, expired,
                 overtaken, regressed, deleted, unsaved>>

\* No issuer URL, no registry, a config that is gone, or a bad key.
MintFails(r) ==
  /\ pc[r] = "mint"
  /\ Goto(r, "failed")
  /\ UNCHANGED <<file, mem, clock, server, lock, held, snap, expired,
                 overtaken, regressed, deleted, unsaved>>

(***************************************************************************)
(* ConsumeRedemptionToken: everything from the second check of the token   *)
(* to the stat of the rewritten file runs under the write lock.            *)
(***************************************************************************)
\* Fault: the check made before the mint is trusted.
ChargeUnchecked(r) ==
  /\ pc[r] = "charge" /\ lock = NoOne
  /\ ~Unknown(r)
  /\ mem' = [mem EXCEPT !.counts[Presents[r]] = @ - 1]
  /\ clock' \in {clock + d : d \in Ticks}
  /\ held' = [held EXCEPT ![r] = clock']
  /\ lock' = r
  /\ Goto(r, "rename")
  /\ UNCHANGED <<file, server, snap, expired, overtaken, regressed, deleted,
                 unsaved>>

\* Fault: the answer is given and the file is left to a later write.
ChargeInMemory(r) ==
  /\ pc[r] = "charge" /\ lock = NoOne
  /\ Redeemable(r)
  /\ mem' = [mem EXCEPT !.counts[Presents[r]] = @ - 1]
  /\ Goto(r, "respond")
  /\ UNCHANGED <<file, clock, server, lock, held, snap, expired, overtaken,
                 regressed, deleted, unsaved>>

\* Check again; decrement in memory; write and stamp the temporary file.
Charge(r) ==
  /\ pc[r] = "charge" /\ lock = NoOne
  /\ Redeemable(r)
  /\ mem' = [mem EXCEPT !.counts[Presents[r]] = @ - 1]
  /\ clock' \in {clock + d : d \in Ticks}
  /\ held' = [held EXCEPT ![r] = clock']
  /\ lock' = r
  /\ Goto(r, "rename")
  /\ UNCHANGED <<file, server, snap, expired, overtaken, regressed, deleted,
                 unsaved>>

ChargeDenied(r) ==
  /\ pc[r] = "charge" /\ lock = NoOne
  /\ TurnAway(r)
  /\ UNCHANGED <<file, mem, clock, server, lock, held, snap, expired,
                 overtaken, regressed, deleted, unsaved>>

\* atomicWriteFile's rename: the file now is the map in memory.
RenameFile(r) ==
  /\ pc[r] = "rename"
  /\ file' = [counts |-> mem.counts, mtime |-> held[r]]
  /\ overtaken' = overtaken \cup {q \in Requests : pc[q] = "install"}
  /\ Goto(r, "restat")
  /\ UNCHANGED <<mem, clock, server, lock, held, snap, expired, regressed,
                 deleted, unsaved>>

\* Fault: the error return skips the unlock.
PersistFailsLocked(r) ==
  /\ DiskMayFail
  /\ pc[r] = "rename"
  /\ held' = [held EXCEPT ![r] = 0]
  /\ Goto(r, "respond")
  /\ unsaved' = TRUE
  /\ UNCHANGED <<file, mem, clock, server, lock, snap, expired, overtaken,
                 regressed, deleted>>

\* The write fails: the decrement in memory stands, the file is as it was.
PersistFails(r) ==
  /\ DiskMayFail
  /\ pc[r] = "rename"
  /\ held' = [held EXCEPT ![r] = 0]
  /\ lock' = NoOne
  /\ Goto(r, "respond")
  /\ unsaved' = TRUE
  /\ UNCHANGED <<file, mem, clock, server, snap, expired, overtaken, regressed,
                 deleted>>

\* The stat after the write fills the cached mtime; it may fail.
RestatFile(r) ==
  /\ pc[r] = "restat"
  /\ \/ mem' = [mem EXCEPT !.mtime = file.mtime]
     \/ DiskMayFail /\ UNCHANGED mem
  /\ held' = [held EXCEPT ![r] = 0]
  /\ lock' = NoOne
  /\ Goto(r, "respond")
  /\ UNCHANGED <<file, clock, server, snap, expired, overtaken, regressed,
                 deleted, unsaved>>

Respond(r) ==
  /\ pc[r] = "respond"
  /\ Goto(r, "granted")
  /\ UNCHANGED <<file, mem, clock, server, lock, held, snap, expired,
                 overtaken, regressed, deleted, unsaved>>

(***************************************************************************)
(* The process and its surroundings                                        *)
(***************************************************************************)
ExpiryPasses(t) ==
  /\ t \in Expiring \ expired
  /\ expired' = expired \cup {t}
  /\ UNCHANGED <<file, mem, clock, server, lock, pc, held, snap, overtaken,
                 regressed, deleted, unsaved>>

\* The process dies, and its successor has loaded the file.
Crash ==
  /\ MayCrash
  /\ server' = "booting"
  /\ mem' = [counts |-> file.counts, mtime |-> 0]
  /\ lock' = NoOne
  /\ pc' = [r \in Requests |-> IF pc[r] \in Active THEN "lost" ELSE pc[r]]
  /\ held' = [r \in Requests |-> 0]
  /\ snap' = [r \in Requests |-> NoCounts]
  /\ overtaken' = {}
  /\ UNCHANGED <<file, clock, expired, regressed, deleted, unsaved>>

\* NewStateWithDir stats the file after it has loaded it.
BootStat ==
  /\ server = "booting"
  /\ server' = "up"
  /\ mem' = [mem EXCEPT !.mtime = file.mtime]
  /\ UNCHANGED <<file, clock, lock, pc, held, snap, expired, overtaken,
                 regressed, deleted, unsaved>>

\* The operator deletes the file: every link is burned at the next request.
DeleteFile ==
  /\ MayDelete
  /\ file # NoFile
  /\ file' = NoFile
  /\ overtaken' = overtaken \cup {q \in Requests : pc[q] = "install"}
  /\ deleted' = TRUE
  /\ UNCHANGED <<mem, clock, server, lock, pc, held, snap, expired, regressed,
                 unsaved>>

\* Every request has been answered: the server waits for more.
Served ==
  /\ server = "up"
  /\ \A r \in Requests : pc[r] \in Answers
  /\ UNCHANGED vars

Poll(r) == \/ StatTokens(r) \/ ClearTokens(r) \/ LoadTokens(r)
           \/ LoadFails(r) \/ InstallTokens(r)

Serve(r) == \/ Screen(r) \/ Refuse(r) \/ Lookup(r) \/ Mint(r)
            \/ MintFails(r) \/ Respond(r)

Consume(r) == \/ Charge(r) \/ ChargeDenied(r) \/ RenameFile(r)
              \/ PersistFails(r) \/ RestatFile(r)

HandleRedeem(r) == Poll(r) \/ Serve(r) \/ Consume(r)

Next ==
  \/ \E r \in Requests : Arrive(r) \/ HandleRedeem(r)
  \/ \E t \in Tokens : ExpiryPasses(t)
  \/ Crash
  \/ BootStat
  \/ DeleteFile
  \/ Served

Spec == Init /\ [][Next]_vars

(***************************************************************************)
(* What must hold                                                          *)
(***************************************************************************)
\* Requests that asked for t and are at one of the given phases.
At(t, phases) == {r \in Requests : Presents[r] = t /\ pc[r] \in phases}

Charged(t) == At(t, Writing \cup {"respond", "granted"})
Granted(t) == At(t, {"granted"})

Counts == [Registered -> Nat]
Maps == Counts \cup {NoCounts}

\* Every copy of the token map counts the registered tokens, in naturals: no
\* interleaving drives RemainingRedemptions below zero, or loses a token unless
\* the file is deleted.
TypeOK ==
  /\ file \in [counts : Maps, mtime : Nat]
  /\ mem \in [counts : Maps, mtime : Nat]
  /\ ~deleted => file.counts \in Counts /\ mem.counts \in Counts
  /\ clock \in Nat
  /\ server \in {"up", "booting"}
  /\ lock \in Requests \cup {NoOne}
  /\ pc \in [Requests -> Phases]
  /\ held \in [Requests -> Nat]
  /\ snap \in [Requests -> Maps]
  /\ expired \subseteq Tokens
  /\ overtaken \subseteq Requests
  /\ regressed \in BOOLEAN
  /\ deleted \in BOOLEAN
  /\ unsaved \in BOOLEAN

\* TestRedeemConcurrentRedemptionsCannotOverdraw (redeem_test.go): of a link
\* with one redemption left, any number of concurrent requests get at most
\* one.  The registry holds that link alone.  A failed write keeps the
\* decrement from the disk, so no crash must follow it.
OneLastRedemption == \E t \in Tokens : Registered = {t} /\ Limit[t] <= 1

Lossless == ~deleted /\ ~(unsaved /\ MayCrash)

LastRedemptionOnce ==
  OneLastRedemption /\ Lossless =>
    \A t \in Registered : \A q, r \in Granted(t) : q = r

\* The books balance while no write has failed, the file stays and no request
\* has installed a map it loaded before another's write: what is left of a link
\* and what was charged for it add up to its limit.  A crash may lose
\* an answer, so it can only leave less.  Hence redemptions are overdrawn
\* by a stale install and nothing else, and a mint that fails burns none.
Sound == ~regressed /\ ~deleted /\ ~unsaved

Accounting ==
  Sound =>
    \A t \in Registered :
      LET sum == mem.counts[t] + Cardinality(Charged(t))
      IN  /\ sum <= Limit[t]
          /\ ~MayCrash => sum = Limit[t]

\* A link somebody was told is exhausted (410) has nothing left for anyone.
ExhaustionIsFinal ==
  Sound =>
    \A r \in Requests :
      pc[r] = "exhausted" => mem.counts[Presents[r]] = 0

\* How far a request is for the links: a redemption is taken when the file is
\* renamed, and not before.
FateAt(phase) ==
  CASE phase \in Answers -> phase
    [] phase \in {"restat", "respond"} -> "taken"
    [] OTHER -> "open"

Fate == [r \in Requests |-> FateAt(pc[r])]

Links == INSTANCE ShareLinks
           WITH left <- file.counts, ever <- Registered, fate <- Fate

\* While the books are sound, the polls, the copies of the map, the second
\* check, the rewritten file and its mtimes come to this: each redemption is
\* taken at one instant, when the file is renamed, and each refusal is true at
\* one, as if there were a single map and no concurrency at all.
RedeemedAtOnce ==
  /\ Links!Init
  /\ [][Sound' => Links!Next \/ UNCHANGED Links!vars]_vars

\* ConsumeRedemptionToken (state.go) records "the mtime of our own write so
\* reload polling ignores it": a server at rest that would neither reload the
\* file nor find it gone has what the file has, even after it installed a stale
\* map, as long as the file clock tells its writes apart.
CachedIsCurrent ==
  ~unsaved /\ 0 \notin Ticks =>
    (/\ file # NoFile
     /\ server = "up" /\ lock = NoOne
     /\ \A r \in Requests : pc[r] \notin Active
     /\ mem.mtime >= file.mtime
     => mem.counts = file.counts)

\* A link never grants more than it was created with, whatever the limits.
\* The code does not keep this promise: see the run redeem_overdraw.
NoOverdraw ==
  \A t \in Registered : Cardinality(Granted(t)) <= Limit[t]

=============================================================================
