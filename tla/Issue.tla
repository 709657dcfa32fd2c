------------------------------- MODULE Issue -------------------------------
(***************************************************************************)
(* Connection-time issuance: POST /v1/issue and GET                        *)
(* /v1/attestation-challenge (server.go) over the replay cache and the     *)
(* challenge manager (attestation_challenge.go).                           *)
(*                                                                         *)
(* A request is delivered any number of times: devices retry, connections  *)
(* duplicate.  Each delivery is served by its own goroutine.  The clock is *)
(* read before the lock it is used under is taken, so a goroutine may act  *)
(* on a time that has long passed.  Replay cache and challenge live in     *)
(* memory and are gone after a restart.                                    *)
(*                                                                         *)
(* Signature, registry, limiter and policy evaluation can only refuse here.*)
(***************************************************************************)
EXTENDS Naturals

CONSTANTS
  Deliveries,        \* deliveries of issue requests to the server
  Fetches,           \* requests for the challenge; a fetch names the
                     \* challenge that is made for it
  Keys,              \* devicePk|configId|requestNonce
  NoChallenge,       \* no challenge, or one this server never made
  ChallengeLifetime, \* 24h in the code
  ReplayTtl,         \* 25h in the code
  MaxTime            \* bound on the clock

ASSUME TimesAssumption ==
  /\ ChallengeLifetime \in Nat
  /\ ReplayTtl \in Nat
  /\ ChallengeLifetime <= ReplayTtl
  /\ MaxTime \in Nat

ASSUME ChallengeAssumption == NoChallenge \notin Fetches

VARIABLES
  now,       \* the monotonic clock of the process
  cache,     \* replayCache.entries: key -> expiry
  current,   \* attestationChallengeManager.current
  expiresAt, \* attestationChallengeManager.expiresAt
  asked,     \* per fetch: "idle", "asking", "done" or "lost"
  askedAt,   \* per fetch: the time it read
  made,      \* history: the challenges made
  alive,     \* history: those made since the last restart
  pc,        \* per delivery: where it is in handleIssue
  msg,       \* per delivery: version, replay key, attestation challenge
  strictly,  \* per delivery: strict android-key-attestation applied to it
  usedAt,    \* per delivery: the time it read for the replay cache
  passedAt,  \* history: when it got past the replay cache
  validAt,   \* per delivery: the time it read for the challenge
  passed     \* history: deliveries past the replay cache since the restart

challengeVars == <<current, expiresAt, asked, askedAt, made, alive>>
deliveryVars == <<pc, msg, strictly, usedAt, passedAt, validAt, passed>>
vars == <<now, cache, challengeVars, deliveryVars>>

Messages ==
  [version : {1, 2}, key : Keys, challenge : Fetches \cup {NoChallenge}]

Phases == {"idle", "using", "resolve", "validating", "decide",
           "granted", "refused", "lost"}

NoMessage == [version |-> 0, key |-> NoChallenge, challenge |-> NoChallenge]
NoEntries == [k \in {} |-> 0]

Init ==
  /\ now = 0
  /\ cache = NoEntries
  /\ current = NoChallenge
  /\ expiresAt = 0
  /\ asked = [f \in Fetches |-> "idle"]
  /\ askedAt = [f \in Fetches |-> 0]
  /\ made = {}
  /\ alive = {}
  /\ pc = [d \in Deliveries |-> "idle"]
  /\ msg = [d \in Deliveries |-> NoMessage]
  /\ strictly = [d \in Deliveries |-> FALSE]
  /\ usedAt = [d \in Deliveries |-> 0]
  /\ passedAt = [d \in Deliveries |-> 0]
  /\ validAt = [d \in Deliveries |-> 0]
  /\ passed = {}

Goto(d, phase) == pc' = [pc EXCEPT ![d] = phase]

(***************************************************************************)
(* GET /v1/attestation-challenge                                           *)
(***************************************************************************)
AskChallenge(f) ==
  /\ asked[f] = "idle"
  /\ asked' = [asked EXCEPT ![f] = "asking"]
  /\ askedAt' = [askedAt EXCEPT ![f] = now]
  /\ UNCHANGED <<now, cache, current, expiresAt, made, alive, deliveryVars>>

\* Fault: the new challenge keeps the expiry of the old one.
CurrentNotRedated(f) ==
  /\ asked[f] = "asking"
  /\ asked' = [asked EXCEPT ![f] = "done"]
  /\ IF current = NoChallenge \/ askedAt[f] >= expiresAt
     THEN /\ current' = f
          /\ made' = made \cup {f}
          /\ alive' = alive \cup {f}
     ELSE UNCHANGED <<current, made, alive>>
  /\ UNCHANGED <<now, cache, askedAt, expiresAt, deliveryVars>>

\* attestationChallengeManager.Current: a new challenge if there is none or,
\* by the time this fetch read, the one there is has expired.
Current(f) ==
  /\ asked[f] = "asking"
  /\ asked' = [asked EXCEPT ![f] = "done"]
  /\ IF current = NoChallenge \/ askedAt[f] >= expiresAt
     THEN /\ current' = f
          /\ expiresAt' = askedAt[f] + ChallengeLifetime
          /\ made' = made \cup {f}
          /\ alive' = alive \cup {f}
     ELSE UNCHANGED <<current, expiresAt, made, alive>>
  /\ UNCHANGED <<now, cache, askedAt, deliveryVars>>

(***************************************************************************)
(* POST /v1/issue                                                          *)
(***************************************************************************)
\* Malformed, unsupported, or the signature does not verify.
Reject(d) ==
  /\ pc[d] = "idle"
  /\ Goto(d, "refused")
  /\ UNCHANGED <<now, cache, challengeVars, msg, strictly, usedAt, passedAt,
                 validAt, passed>>

\* A device can only have signed a challenge that was made.  A v2 request is
\* on its way to the replay cache, a v1 request does not go through it.
Receive(d, m) ==
  /\ pc[d] = "idle"
  /\ m.challenge \in made \cup {NoChallenge}
  /\ msg' = [msg EXCEPT ![d] = m]
  /\ \/ /\ m.version = 1
        /\ Goto(d, "resolve")
        /\ UNCHANGED usedAt
     \/ /\ m.version = 2
        /\ usedAt' = [usedAt EXCEPT ![d] = now]
        /\ Goto(d, "using")
  /\ UNCHANGED <<now, cache, challengeVars, strictly, passedAt, validAt, passed>>

\* replayCache.Use with the time d read: refuse a key that has not expired;
\* else drop what has expired and remember the key.
Replayed(d) == msg[d].key \in DOMAIN cache /\ usedAt[d] < cache[msg[d].key]

\* Fault: the purge drops the live entries and keeps the expired ones.
RememberExpired(d) ==
  LET kept == {k \in DOMAIN cache : usedAt[d] >= cache[k]}
  IN  [k \in kept \cup {msg[d].key} |->
         IF k = msg[d].key THEN usedAt[d] + ReplayTtl ELSE cache[k]]

Remember(d) ==
  LET kept == {k \in DOMAIN cache : usedAt[d] < cache[k]}
  IN  [k \in kept \cup {msg[d].key} |->
         IF k = msg[d].key THEN usedAt[d] + ReplayTtl ELSE cache[k]]

Use(d) ==
  /\ pc[d] = "using"
  /\ ~Replayed(d)
  /\ cache' = Remember(d)
  /\ passedAt' = [passedAt EXCEPT ![d] = now]
  /\ passed' = passed \cup {d}
  /\ Goto(d, "resolve")
  /\ UNCHANGED <<now, challengeVars, msg, strictly, usedAt, validAt>>

RefuseReplay(d) ==
  /\ pc[d] = "using"
  /\ Replayed(d)
  /\ Goto(d, "refused")
  /\ msg' = [msg EXCEPT ![d] = NoMessage]
  /\ usedAt' = [usedAt EXCEPT ![d] = 0]
  /\ UNCHANGED <<now, cache, challengeVars, strictly, passedAt, validAt, passed>>

\* ConfigByID does not know the config, or its policy is strict and the
\* request is v1, or not bound to the device key, or has no proof.
RefuseUnresolved(d) ==
  /\ pc[d] = "resolve"
  /\ Goto(d, "refused")
  /\ UNCHANGED <<now, cache, challengeVars, msg, strictly, usedAt, passedAt,
                 validAt, passed>>

\* The config's policy asks for no strict Android attestation.
ResolveLenient(d) ==
  /\ pc[d] = "resolve"
  /\ Goto(d, "decide")
  /\ UNCHANGED <<now, cache, challengeVars, msg, strictly, usedAt, passedAt,
                 validAt, passed>>

\* Fault: the version is not checked, so a v1 request may be strict.
ResolveAnyVersion(d) ==
  /\ pc[d] = "resolve"
  /\ strictly' = [strictly EXCEPT ![d] = TRUE]
  /\ validAt' = [validAt EXCEPT ![d] = now]
  /\ Goto(d, "validating")
  /\ UNCHANGED <<now, cache, challengeVars, msg, usedAt, passedAt, passed>>

\* It does: the request must be v2 and bound to its key.
ResolveStrict(d) ==
  /\ pc[d] = "resolve"
  /\ msg[d].version = 2
  /\ strictly' = [strictly EXCEPT ![d] = TRUE]
  /\ validAt' = [validAt EXCEPT ![d] = now]
  /\ Goto(d, "validating")
  /\ UNCHANGED <<now, cache, challengeVars, msg, usedAt, passedAt, passed>>

\* attestationChallengeManager.Valid with the time d read.
ValidChallenge(d) ==
  /\ current # NoChallenge
  /\ validAt[d] < expiresAt
  /\ msg[d].challenge = current

Validate(d) ==
  /\ pc[d] = "validating"
  /\ Goto(d, IF ValidChallenge(d) THEN "decide" ELSE "refused")
  /\ UNCHANGED <<now, cache, challengeVars, msg, strictly, usedAt, passedAt,
                 validAt, passed>>

\* The limiter and the attestation policy have the last word.
Decide(d) ==
  /\ pc[d] = "decide"
  /\ Goto(d, "granted") \/ Goto(d, "refused")
  /\ UNCHANGED <<now, cache, challengeVars, msg, strictly, usedAt, passedAt,
                 validAt, passed>>

(***************************************************************************)
(* Time and restarts                                                       *)
(***************************************************************************)
Tick ==
  /\ now < MaxTime
  /\ now' = now + 1
  /\ UNCHANGED <<cache, challengeVars, deliveryVars>>

\* The monotonic clock starts over with the process; what was granted before
\* is remembered, everything else is gone.
Restart ==
  /\ now' = 0
  /\ cache' = NoEntries
  /\ current' = NoChallenge
  /\ expiresAt' = 0
  /\ asked' = [f \in Fetches |-> IF asked[f] = "asking" THEN "lost" ELSE asked[f]]
  /\ askedAt' = [f \in Fetches |-> 0]
  /\ alive' = {}
  /\ pc' = [d \in Deliveries |->
              IF pc[d] \in {"idle", "granted", "refused"} THEN pc[d] ELSE "lost"]
  /\ msg' = [d \in Deliveries |->
               IF pc[d] = "granted" THEN msg[d] ELSE NoMessage]
  /\ usedAt' = [d \in Deliveries |-> 0]
  /\ passedAt' = [d \in Deliveries |-> 0]
  /\ validAt' = [d \in Deliveries |-> 0]
  /\ passed' = {}
  /\ UNCHANGED <<made, strictly>>

HandleIssue(d) ==
  \/ Reject(d) \/ Use(d) \/ RefuseReplay(d)
  \/ RefuseUnresolved(d) \/ ResolveLenient(d) \/ ResolveStrict(d)
  \/ Validate(d) \/ Decide(d)

Next ==
  \/ \E f \in Fetches : AskChallenge(f) \/ Current(f)
  \/ \E d \in Deliveries, m \in Messages : Receive(d, m)
  \/ \E d \in Deliveries : HandleIssue(d)
  \/ Tick
  \/ Restart

Spec == Init /\ [][Next]_vars

(***************************************************************************)
(* What must hold                                                          *)
(***************************************************************************)
\* Types, and that the current challenge was made by this process and dies a
\* lifetime after the time read by the fetch that made it (Current).
TypeOK ==
  /\ now \in Nat
  /\ DOMAIN cache \subseteq Keys
  /\ \A k \in DOMAIN cache : cache[k] \in Nat
  /\ current \in Fetches \cup {NoChallenge}
  /\ expiresAt \in Nat
  /\ asked \in [Fetches -> {"idle", "asking", "done", "lost"}]
  /\ askedAt \in [Fetches -> Nat]
  /\ alive \subseteq made /\ made \subseteq Fetches
  /\ pc \in [Deliveries -> Phases]
  /\ msg \in [Deliveries -> Messages \cup {NoMessage}]
  /\ strictly \in [Deliveries -> BOOLEAN]
  /\ usedAt \in [Deliveries -> Nat]
  /\ passedAt \in [Deliveries -> Nat]
  /\ validAt \in [Deliveries -> Nat]
  /\ passed \subseteq Deliveries
  /\ current # NoChallenge =>
       /\ current \in alive
       /\ expiresAt = askedAt[current] + ChallengeLifetime

\* Two deliveries of the same signed request: same device, config and nonce,
\* attested over the same challenge.
SameRequest(d, e) ==
  msg[d].key = msg[e].key /\ msg[d].challenge = msg[e].challenge

\* A request to a strictly attested config is granted once, however often it
\* is delivered: neither the purge of the replay cache, nor goroutines that
\* act on old times, nor a restart that empties the cache lets it through
\* again, because its challenge is dead by then.
GrantedOnce ==
  \A d, e \in Deliveries :
    /\ d # e /\ pc[d] = "granted" /\ pc[e] = "granted"
    /\ strictly[d] /\ strictly[e]
    => ~SameRequest(d, e)

\* Between restarts a nonce gets past the replay cache again only a full
\* ReplayTtl after the time its earlier use was stamped with, whatever the
\* policy of the config.
NonceWindow ==
  \A d, e \in passed :
    d # e /\ msg[d].key = msg[e].key =>
      \/ passedAt[d] >= usedAt[e] + ReplayTtl
      \/ passedAt[e] >= usedAt[d] + ReplayTtl
=============================================================================
