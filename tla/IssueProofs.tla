---------------------------- MODULE IssueProofs ----------------------------
(***************************************************************************)
(* Proofs about Issue, for any number of deliveries, challenges and        *)
(* restarts, and any times with ChallengeLifetime <= ReplayTtl.            *)
(*                                                                         *)
(* The argument.  A request names a challenge that was made before it was  *)
(* received, so its use of the nonce is stamped no earlier than the        *)
(* challenge.  A second use of the nonce comes a ReplayTtl after the first *)
(* was stamped (NonceWindow), and the challenge is dead by then, since it  *)
(* is checked with a time read after the nonce was used.  A restart kills  *)
(* the challenge together with the cache.                                  *)
(***************************************************************************)
EXTENDS Issue, TLAPS

\* A challenge is made once, by a fetch that is done, from a time in the past.
ChallengesDated ==
  /\ \A f \in made : asked[f] = "done"
  /\ \A f \in Fetches : f \in alive \/ asked[f] = "asking" => askedAt[f] <= now

\* Requests name challenges made before they were received.
RequestsFollowChallenges ==
  /\ \A d \in Deliveries : msg[d].challenge \in made \cup {NoChallenge}
  /\ \A d \in Deliveries : pc[d] = "using" => usedAt[d] <= now
  /\ \A d \in Deliveries :
       /\ pc[d] = "using" \/ d \in passed
       /\ msg[d].challenge \in alive
       => askedAt[msg[d].challenge] <= usedAt[d]

\* What the replay cache knows of a use of d's nonce, or has forgotten in time.
Remembered(d) ==
  \/ /\ msg[d].key \in DOMAIN cache
     /\ usedAt[d] + ReplayTtl <= cache[msg[d].key]
  \/ usedAt[d] + ReplayTtl <= now

PassedInOrder ==
  \A d \in passed :
    /\ pc[d] \in {"resolve", "validating", "decide", "granted", "refused"}
    /\ usedAt[d] <= passedAt[d]
    /\ passedAt[d] <= now
    /\ Remembered(d)

\* What is known of a delivery that the strict path let through in this life
\* of the server, and of one it granted in an earlier life.
Attested(d) ==
  /\ msg[d].challenge \in alive
  /\ d \in passed
  /\ passedAt[d] <= validAt[d]
  /\ validAt[d] < askedAt[msg[d].challenge] + ChallengeLifetime

AttestedBefore(d) ==
  /\ pc[d] = "granted"
  /\ msg[d].challenge \in made \ alive

StrictPath ==
  \A d \in Deliveries :
    /\ pc[d] \in {"idle", "using", "resolve"} => ~strictly[d]
    /\ pc[d] = "using" => msg[d].version = 2
    /\ pc[d] = "resolve" /\ msg[d].version = 2 => d \in passed
    /\ pc[d] = "validating" => d \in passed /\ passedAt[d] <= validAt[d]
    /\ pc[d] \in {"decide", "granted"} /\ strictly[d]
         => Attested(d) \/ AttestedBefore(d)

IInv ==
  /\ TypeOK
  /\ ChallengesDated
  /\ RequestsFollowChallenges
  /\ PassedInOrder
  /\ StrictPath
  /\ NonceWindow
  /\ GrantedOnce

LEMMA IInvInit == Init => IInv
  <1> SUFFICES ASSUME Init
               PROVE  IInv
    OBVIOUS
  <1>1. TypeOK
    BY ChallengeAssumption DEF Init, TypeOK, Phases, NoMessage, NoEntries
  <1>2. ChallengesDated /\ PassedInOrder /\ NonceWindow
    BY DEF Init, ChallengesDated, PassedInOrder, NonceWindow
  <1>3. RequestsFollowChallenges
    BY DEF Init, RequestsFollowChallenges, NoMessage
  <1>4. StrictPath /\ GrantedOnce
    BY DEF Init, StrictPath, GrantedOnce
  <1>5. QED
    BY <1>1, <1>2, <1>3, <1>4 DEF IInv

\* Types; a challenge is asked for only before it is made.
LEMMA TypeStep ==
  ASSUME TypeOK, ChallengesDated, StrictPath, [Next]_vars
  PROVE  TypeOK'
  <1> USE DEF TypeOK, Phases, Goto, challengeVars, deliveryVars
  <1>1. ASSUME NEW f \in Fetches, AskChallenge(f)
        PROVE  TypeOK'
    <2>1. f \notin made
      BY <1>1 DEF AskChallenge, ChallengesDated
    <2>2. QED
      BY <1>1, <2>1 DEF AskChallenge
  <1>2. ASSUME NEW f \in Fetches, Current(f)
        PROVE  TypeOK'
    <2>1. askedAt[f] + ChallengeLifetime \in Nat
      BY TimesAssumption
    <2>2. QED
      BY <1>2, <2>1, ChallengeAssumption DEF Current
  <1>3. ASSUME NEW d \in Deliveries, NEW m \in Messages, Receive(d, m)
        PROVE  TypeOK'
    BY <1>3 DEF Receive
  <1>4. ASSUME NEW d \in Deliveries, Reject(d)
        PROVE  TypeOK'
    BY <1>4 DEF Reject
  <1>5. ASSUME NEW d \in Deliveries, Use(d)
        PROVE  TypeOK'
    <2>1. usedAt[d] + ReplayTtl \in Nat
      BY TimesAssumption
    <2>2. msg[d].key \in Keys
      BY <1>5 DEF Use, StrictPath, NoMessage, Messages
    <2>3. DOMAIN Remember(d) \subseteq Keys
      BY <2>2 DEF Remember
    <2>4. \A k \in DOMAIN Remember(d) : Remember(d)[k] \in Nat
      BY <2>1 DEF Remember
    <2>5. QED
      BY <1>5, <2>3, <2>4 DEF Use
  <1>6. ASSUME NEW d \in Deliveries, RefuseReplay(d)
        PROVE  TypeOK'
    BY <1>6 DEF RefuseReplay
  <1>7. ASSUME NEW d \in Deliveries, RefuseUnresolved(d)
        PROVE  TypeOK'
    BY <1>7 DEF RefuseUnresolved
  <1>8. ASSUME NEW d \in Deliveries, ResolveLenient(d)
        PROVE  TypeOK'
    BY <1>8 DEF ResolveLenient
  <1>9. ASSUME NEW d \in Deliveries, ResolveStrict(d)
        PROVE  TypeOK'
    BY <1>9 DEF ResolveStrict
  <1>10. ASSUME NEW d \in Deliveries, Validate(d)
        PROVE  TypeOK'
    BY <1>10 DEF Validate
  <1>11. ASSUME NEW d \in Deliveries, Decide(d)
        PROVE  TypeOK'
    BY <1>11 DEF Decide
  <1>12. ASSUME Tick
        PROVE  TypeOK'
    BY <1>12 DEF Tick
  <1>13. ASSUME Restart
        PROVE  TypeOK'
    BY <1>13, ChallengeAssumption DEF Restart, NoEntries, NoMessage, Messages
  <1>14. CASE UNCHANGED vars
    BY <1>14 DEF vars, challengeVars, deliveryVars
  <1>15. QED
    BY <1>1, <1>2, <1>3, <1>4, <1>5, <1>6, <1>7, <1>8,
       <1>9, <1>10, <1>11, <1>12, <1>13, <1>14 DEF Next, HandleIssue

\* A challenge is dated when its fetch reads the clock, and made once.
LEMMA DatedStep ==
  ASSUME TypeOK, ChallengesDated, [Next]_vars
  PROVE  ChallengesDated'
  <1> USE DEF TypeOK, ChallengesDated, Goto, challengeVars, deliveryVars
  <1>1. ASSUME NEW f \in Fetches, AskChallenge(f)
        PROVE  ChallengesDated'
    BY <1>1 DEF AskChallenge
  <1>2. ASSUME NEW f \in Fetches, Current(f)
        PROVE  ChallengesDated'
    BY <1>2 DEF Current
  <1>3. ASSUME NEW d \in Deliveries, NEW m \in Messages, Receive(d, m)
        PROVE  ChallengesDated'
    BY <1>3 DEF Receive
  <1>4. ASSUME NEW d \in Deliveries, Reject(d)
        PROVE  ChallengesDated'
    BY <1>4 DEF Reject
  <1>5. ASSUME NEW d \in Deliveries, Use(d)
        PROVE  ChallengesDated'
    BY <1>5 DEF Use
  <1>6. ASSUME NEW d \in Deliveries, RefuseReplay(d)
        PROVE  ChallengesDated'
    BY <1>6 DEF RefuseReplay
  <1>7. ASSUME NEW d \in Deliveries, RefuseUnresolved(d)
        PROVE  ChallengesDated'
    BY <1>7 DEF RefuseUnresolved
  <1>8. ASSUME NEW d \in Deliveries, ResolveLenient(d)
        PROVE  ChallengesDated'
    BY <1>8 DEF ResolveLenient
  <1>9. ASSUME NEW d \in Deliveries, ResolveStrict(d)
        PROVE  ChallengesDated'
    BY <1>9 DEF ResolveStrict
  <1>10. ASSUME NEW d \in Deliveries, Validate(d)
        PROVE  ChallengesDated'
    BY <1>10 DEF Validate
  <1>11. ASSUME NEW d \in Deliveries, Decide(d)
        PROVE  ChallengesDated'
    BY <1>11 DEF Decide
  <1>12. ASSUME Tick
        PROVE  ChallengesDated'
    BY <1>12 DEF Tick
  <1>13. ASSUME Restart
        PROVE  ChallengesDated'
    BY <1>13 DEF Restart
  <1>14. CASE UNCHANGED vars
    BY <1>14 DEF vars, challengeVars, deliveryVars
  <1>15. QED
    BY <1>1, <1>2, <1>3, <1>4, <1>5, <1>6, <1>7, <1>8,
       <1>9, <1>10, <1>11, <1>12, <1>13, <1>14 DEF Next, HandleIssue

\* A request received now names a challenge already dated.
LEMMA RequestsStep ==
  ASSUME TypeOK, ChallengesDated, RequestsFollowChallenges, PassedInOrder, [Next]_vars
  PROVE  RequestsFollowChallenges'
  <1> USE DEF TypeOK, RequestsFollowChallenges, Goto, challengeVars, deliveryVars
  <1>1. ASSUME NEW f \in Fetches, AskChallenge(f)
        PROVE  RequestsFollowChallenges'
    <2>1. f \notin made
      BY <1>1 DEF AskChallenge, ChallengesDated
    <2>2. QED
      BY <1>1, <2>1 DEF AskChallenge
  <1>2. ASSUME NEW f \in Fetches, Current(f)
        PROVE  RequestsFollowChallenges'
    <2>1. f \notin made
      BY <1>2 DEF Current, ChallengesDated
    <2>2. QED
      BY <1>2, <2>1, ChallengeAssumption DEF Current
  <1>3. ASSUME NEW d \in Deliveries, NEW m \in Messages, Receive(d, m)
        PROVE  RequestsFollowChallenges'
    <2>1. d \notin passed
      BY <1>3 DEF Receive, PassedInOrder
    <2>2. \A f \in alive : askedAt[f] <= now
      BY DEF ChallengesDated
    <2>3. QED
      BY <1>3, <2>1, <2>2, ChallengeAssumption DEF Receive
  <1>4. ASSUME NEW d \in Deliveries, Reject(d)
        PROVE  RequestsFollowChallenges'
    BY <1>4 DEF Reject
  <1>5. ASSUME NEW d \in Deliveries, Use(d)
        PROVE  RequestsFollowChallenges'
    BY <1>5 DEF Use
  <1>6. ASSUME NEW d \in Deliveries, RefuseReplay(d)
        PROVE  RequestsFollowChallenges'
    <2>1. d \notin passed
      BY <1>6 DEF RefuseReplay, PassedInOrder
    <2>2. QED
      BY <1>6, <2>1, ChallengeAssumption DEF RefuseReplay, NoMessage
  <1>7. ASSUME NEW d \in Deliveries, RefuseUnresolved(d)
        PROVE  RequestsFollowChallenges'
    BY <1>7 DEF RefuseUnresolved
  <1>8. ASSUME NEW d \in Deliveries, ResolveLenient(d)
        PROVE  RequestsFollowChallenges'
    BY <1>8 DEF ResolveLenient
  <1>9. ASSUME NEW d \in Deliveries, ResolveStrict(d)
        PROVE  RequestsFollowChallenges'
    BY <1>9 DEF ResolveStrict
  <1>10. ASSUME NEW d \in Deliveries, Validate(d)
        PROVE  RequestsFollowChallenges'
    BY <1>10 DEF Validate
  <1>11. ASSUME NEW d \in Deliveries, Decide(d)
        PROVE  RequestsFollowChallenges'
    BY <1>11 DEF Decide
  <1>12. ASSUME Tick
        PROVE  RequestsFollowChallenges'
    BY <1>12 DEF Tick
  <1>13. ASSUME Restart
        PROVE  RequestsFollowChallenges'
    BY <1>13 DEF Restart, NoMessage
  <1>14. CASE UNCHANGED vars
    BY <1>14 DEF vars, challengeVars, deliveryVars
  <1>15. QED
    BY <1>1, <1>2, <1>3, <1>4, <1>5, <1>6, <1>7, <1>8,
       <1>9, <1>10, <1>11, <1>12, <1>13, <1>14 DEF Next, HandleIssue

\* A use that gets past the replay cache leaves every earlier use remembered,
\* or old enough to be forgotten.
LEMMA UseRemembers ==
  ASSUME TypeOK, RequestsFollowChallenges, PassedInOrder,
         NEW d \in Deliveries, Use(d), NEW e \in passed
  PROVE  /\ Remembered(e)'
         /\ msg[e].key = msg[d].key => usedAt[e] + ReplayTtl <= now
  <1> USE DEF TypeOK
  <1>1. /\ usedAt[d] \in Nat /\ usedAt[e] \in Nat /\ now \in Nat
        /\ usedAt[d] <= now /\ ReplayTtl \in Nat
    BY TimesAssumption DEF Use, RequestsFollowChallenges
  <1>2. UNCHANGED <<now, msg, usedAt>> /\ cache' = Remember(d) /\ ~Replayed(d)
    BY DEF Use
  <1> DEFINE k == msg[e].key
  <1>3. CASE usedAt[e] + ReplayTtl <= now
    BY <1>2, <1>3 DEF Remembered
  <1>4. CASE ~(usedAt[e] + ReplayTtl <= now)
    <2>1. k \in DOMAIN cache /\ usedAt[e] + ReplayTtl <= cache[k]
      BY <1>4 DEF Remembered, PassedInOrder
    <2>2. cache[k] \in Nat
      BY <2>1
    <2>3. usedAt[d] < cache[k]
      BY <1>1, <1>4, <2>1, <2>2
    <2>4. k # msg[d].key
      BY <1>2, <2>1, <2>3 DEF Replayed
    <2>5. k \in DOMAIN Remember(d) /\ Remember(d)[k] = cache[k]
      BY <2>1, <2>3, <2>4 DEF Remember
    <2>6. QED
      BY <1>2, <2>1, <2>4, <2>5 DEF Remembered
  <1>5. QED
    BY <1>3, <1>4

\* What has passed the replay cache stays remembered for a ReplayTtl.
LEMMA PassedStep ==
  ASSUME TypeOK, RequestsFollowChallenges, PassedInOrder, [Next]_vars
  PROVE  PassedInOrder'
  <1> USE DEF TypeOK, PassedInOrder, Remembered, Goto, challengeVars, deliveryVars
  <1>1. ASSUME NEW f \in Fetches, AskChallenge(f)
        PROVE  PassedInOrder'
    BY <1>1 DEF AskChallenge
  <1>2. ASSUME NEW f \in Fetches, Current(f)
        PROVE  PassedInOrder'
    BY <1>2 DEF Current
  <1>3. ASSUME NEW d \in Deliveries, NEW m \in Messages, Receive(d, m)
        PROVE  PassedInOrder'
    BY <1>3 DEF Receive
  <1>4. ASSUME NEW d \in Deliveries, Reject(d)
        PROVE  PassedInOrder'
    BY <1>4 DEF Reject
  <1>5. ASSUME NEW d \in Deliveries, Use(d)
        PROVE  PassedInOrder'
    <2>1. /\ usedAt[d] \in Nat /\ usedAt[d] <= now /\ now \in Nat
          /\ ReplayTtl \in Nat /\ pc[d] = "using"
      BY <1>5, TimesAssumption DEF Use, RequestsFollowChallenges
    <2>2. /\ UNCHANGED <<now, msg, usedAt>> /\ cache' = Remember(d)
          /\ passedAt' = [passedAt EXCEPT ![d] = now]
          /\ pc' = [pc EXCEPT ![d] = "resolve"] /\ passed' = passed \cup {d}
      BY <1>5 DEF Use
    <2>3. /\ pc'[d] = "resolve" /\ usedAt'[d] <= passedAt'[d]
          /\ passedAt'[d] <= now'
      BY <2>1, <2>2
    <2>4. Remembered(d)'
      BY <2>1, <2>2 DEF Remember
    <2>5. \A e \in passed : Remembered(e)'
      BY <1>5, UseRemembers
    <2>6. d \notin passed
      BY <2>1
    <2>7. \A e \in passed : pc'[e] = pc[e] /\ passedAt'[e] = passedAt[e]
      BY <2>2, <2>6
    <2>8. ASSUME NEW e \in passed'
          PROVE  /\ pc'[e] \in {"resolve", "validating", "decide", "granted",
                                "refused"}
                 /\ usedAt'[e] <= passedAt'[e]
                 /\ passedAt'[e] <= now'
                 /\ Remembered(e)'
      <3> HIDE DEF Remembered
      <3>1. CASE e = d
        BY <2>3, <2>4, <3>1
      <3>2. CASE e # d
        BY <2>2, <2>5, <2>7, <3>2
      <3>3. QED
        BY <3>1, <3>2
    <2>9. QED
      BY <2>8
  <1>6. ASSUME NEW d \in Deliveries, RefuseReplay(d)
        PROVE  PassedInOrder'
    BY <1>6 DEF RefuseReplay
  <1>7. ASSUME NEW d \in Deliveries, RefuseUnresolved(d)
        PROVE  PassedInOrder'
    BY <1>7 DEF RefuseUnresolved
  <1>8. ASSUME NEW d \in Deliveries, ResolveLenient(d)
        PROVE  PassedInOrder'
    BY <1>8 DEF ResolveLenient
  <1>9. ASSUME NEW d \in Deliveries, ResolveStrict(d)
        PROVE  PassedInOrder'
    BY <1>9 DEF ResolveStrict
  <1>10. ASSUME NEW d \in Deliveries, Validate(d)
        PROVE  PassedInOrder'
    BY <1>10 DEF Validate
  <1>11. ASSUME NEW d \in Deliveries, Decide(d)
        PROVE  PassedInOrder'
    BY <1>11 DEF Decide
  <1>12. ASSUME Tick
        PROVE  PassedInOrder'
    <2>1. \A e \in passed : usedAt[e] + ReplayTtl \in Nat
      BY TimesAssumption
    <2>2. QED
      BY <1>12, <2>1 DEF Tick
  <1>13. ASSUME Restart
        PROVE  PassedInOrder'
    BY <1>13 DEF Restart
  <1>14. CASE UNCHANGED vars
    BY <1>14 DEF vars, challengeVars, deliveryVars
  <1>15. QED
    BY <1>1, <1>2, <1>3, <1>4, <1>5, <1>6, <1>7, <1>8,
       <1>9, <1>10, <1>11, <1>12, <1>13, <1>14 DEF Next, HandleIssue

\* The strict path is taken by v2 requests, after their nonce was used.
LEMMA StrictStep ==
  ASSUME TypeOK, ChallengesDated, RequestsFollowChallenges, PassedInOrder, StrictPath, [Next]_vars
  PROVE  StrictPath'
  <1> USE DEF TypeOK, StrictPath, Attested, AttestedBefore, Goto, challengeVars, deliveryVars
  <1>1. ASSUME NEW f \in Fetches, AskChallenge(f)
        PROVE  StrictPath'
    <2>1. f \notin made
      BY <1>1 DEF AskChallenge, ChallengesDated
    <2>2. QED
      BY <1>1, <2>1 DEF AskChallenge
  <1>2. ASSUME NEW f \in Fetches, Current(f)
        PROVE  StrictPath'
    <2>1. f \notin made
      BY <1>2 DEF Current, ChallengesDated
    <2>2. QED
      BY <1>2, <2>1 DEF Current
  <1>3. ASSUME NEW d \in Deliveries, NEW m \in Messages, Receive(d, m)
        PROVE  StrictPath'
    BY <1>3 DEF Receive
  <1>4. ASSUME NEW d \in Deliveries, Reject(d)
        PROVE  StrictPath'
    BY <1>4 DEF Reject
  <1>5. ASSUME NEW d \in Deliveries, Use(d)
        PROVE  StrictPath'
    <2>1. d \notin passed
      BY <1>5 DEF Use, PassedInOrder
    <2>2. QED
      BY <1>5, <2>1 DEF Use
  <1>6. ASSUME NEW d \in Deliveries, RefuseReplay(d)
        PROVE  StrictPath'
    BY <1>6 DEF RefuseReplay
  <1>7. ASSUME NEW d \in Deliveries, RefuseUnresolved(d)
        PROVE  StrictPath'
    BY <1>7 DEF RefuseUnresolved
  <1>8. ASSUME NEW d \in Deliveries, ResolveLenient(d)
        PROVE  StrictPath'
    BY <1>8 DEF ResolveLenient
  <1>9. ASSUME NEW d \in Deliveries, ResolveStrict(d)
        PROVE  StrictPath'
    <2>1. d \in passed /\ passedAt[d] <= now
      BY <1>9 DEF ResolveStrict, PassedInOrder
    <2>2. QED
      BY <1>9, <2>1 DEF ResolveStrict
  <1>10. ASSUME NEW d \in Deliveries, Validate(d)
        PROVE  StrictPath'
    <2>1. ValidChallenge(d) =>
            /\ msg[d].challenge \in alive
            /\ validAt[d] < askedAt[msg[d].challenge] + ChallengeLifetime
      BY DEF ValidChallenge
    <2>2. QED
      BY <1>10, <2>1 DEF Validate
  <1>11. ASSUME NEW d \in Deliveries, Decide(d)
        PROVE  StrictPath'
    BY <1>11 DEF Decide
  <1>12. ASSUME Tick
        PROVE  StrictPath'
    BY <1>12 DEF Tick
  <1>13. ASSUME Restart
        PROVE  StrictPath'
    BY <1>13, ChallengeAssumption DEF Restart, NoMessage
  <1>14. CASE UNCHANGED vars
    BY <1>14 DEF vars, challengeVars, deliveryVars
  <1>15. QED
    BY <1>1, <1>2, <1>3, <1>4, <1>5, <1>6, <1>7, <1>8,
       <1>9, <1>10, <1>11, <1>12, <1>13, <1>14 DEF Next, HandleIssue

\* A nonce is used again only a ReplayTtl after its earlier use was stamped.
LEMMA NonceStep ==
  ASSUME TypeOK, RequestsFollowChallenges, PassedInOrder, NonceWindow, [Next]_vars
  PROVE  NonceWindow'
  <1> USE DEF TypeOK, NonceWindow, Goto, challengeVars, deliveryVars
  <1>1. ASSUME NEW f \in Fetches, AskChallenge(f)
        PROVE  NonceWindow'
    BY <1>1 DEF AskChallenge
  <1>2. ASSUME NEW f \in Fetches, Current(f)
        PROVE  NonceWindow'
    BY <1>2 DEF Current
  <1>3. ASSUME NEW d \in Deliveries, NEW m \in Messages, Receive(d, m)
        PROVE  NonceWindow'
    <2>1. d \notin passed
      BY <1>3 DEF Receive, PassedInOrder
    <2>2. QED
      BY <1>3, <2>1 DEF Receive
  <1>4. ASSUME NEW d \in Deliveries, Reject(d)
        PROVE  NonceWindow'
    BY <1>4 DEF Reject
  <1>5. ASSUME NEW d \in Deliveries, Use(d)
        PROVE  NonceWindow'
    <2>1. d \notin passed
      BY <1>5 DEF Use, PassedInOrder
    <2>2. \A e \in passed :
            msg[e].key = msg[d].key => usedAt[e] + ReplayTtl <= now
      BY <1>5, UseRemembers
    <2>3. QED
      BY <1>5, <2>1, <2>2 DEF Use
  <1>6. ASSUME NEW d \in Deliveries, RefuseReplay(d)
        PROVE  NonceWindow'
    <2>1. d \notin passed
      BY <1>6 DEF RefuseReplay, PassedInOrder
    <2>2. QED
      BY <1>6, <2>1 DEF RefuseReplay
  <1>7. ASSUME NEW d \in Deliveries, RefuseUnresolved(d)
        PROVE  NonceWindow'
    BY <1>7 DEF RefuseUnresolved
  <1>8. ASSUME NEW d \in Deliveries, ResolveLenient(d)
        PROVE  NonceWindow'
    BY <1>8 DEF ResolveLenient
  <1>9. ASSUME NEW d \in Deliveries, ResolveStrict(d)
        PROVE  NonceWindow'
    BY <1>9 DEF ResolveStrict
  <1>10. ASSUME NEW d \in Deliveries, Validate(d)
        PROVE  NonceWindow'
    BY <1>10 DEF Validate
  <1>11. ASSUME NEW d \in Deliveries, Decide(d)
        PROVE  NonceWindow'
    BY <1>11 DEF Decide
  <1>12. ASSUME Tick
        PROVE  NonceWindow'
    BY <1>12 DEF Tick
  <1>13. ASSUME Restart
        PROVE  NonceWindow'
    BY <1>13 DEF Restart
  <1>14. CASE UNCHANGED vars
    BY <1>14 DEF vars, challengeVars, deliveryVars
  <1>15. QED
    BY <1>1, <1>2, <1>3, <1>4, <1>5, <1>6, <1>7, <1>8,
       <1>9, <1>10, <1>11, <1>12, <1>13, <1>14 DEF Next, HandleIssue

\* Two deliveries attested over a live challenge with one nonce: the later use
\* of the nonce comes when the challenge is dead.
LEMMA OneAttested ==
  ASSUME TypeOK, RequestsFollowChallenges, NonceWindow,
         NEW d \in Deliveries, NEW e \in Deliveries, d # e,
         Attested(d), Attested(e)
  PROVE  ~SameRequest(d, e)
  <1> SUFFICES ASSUME SameRequest(d, e)
               PROVE  FALSE
    OBVIOUS
  <1> DEFINE f == msg[d].challenge
  <1>1. f = msg[e].challenge /\ msg[d].key = msg[e].key
    BY DEF SameRequest
  <1>2. /\ d \in passed /\ e \in passed /\ f \in alive
        /\ passedAt[d] <= validAt[d] /\ validAt[d] < askedAt[f] + ChallengeLifetime
        /\ passedAt[e] <= validAt[e] /\ validAt[e] < askedAt[f] + ChallengeLifetime
    BY <1>1 DEF Attested
  <1>3. askedAt[f] <= usedAt[d] /\ askedAt[f] <= usedAt[e]
    BY <1>1, <1>2 DEF RequestsFollowChallenges
  <1>4. \/ passedAt[d] >= usedAt[e] + ReplayTtl
        \/ passedAt[e] >= usedAt[d] + ReplayTtl
    BY <1>1, <1>2 DEF NonceWindow
  <1>5. /\ askedAt[f] \in Nat /\ ChallengeLifetime \in Nat /\ ReplayTtl \in Nat
        /\ usedAt[d] \in Nat /\ usedAt[e] \in Nat /\ passedAt[d] \in Nat
        /\ passedAt[e] \in Nat /\ validAt[d] \in Nat /\ validAt[e] \in Nat
        /\ ChallengeLifetime <= ReplayTtl
    BY <1>2, TimesAssumption DEF TypeOK
  <1>6. QED
    BY <1>2, <1>3, <1>4, <1>5

\* Only Decide grants, and it grants an attested delivery.
LEMMA GrantStep ==
  ASSUME IInv, [Next]_vars
  PROVE  GrantedOnce'
  <1> USE DEF GrantedOnce, SameRequest, Goto, challengeVars, deliveryVars
  <1>1. ASSUME NEW f \in Fetches, AskChallenge(f)
        PROVE  GrantedOnce'
    BY <1>1 DEF AskChallenge, IInv, TypeOK
  <1>2. ASSUME NEW f \in Fetches, Current(f)
        PROVE  GrantedOnce'
    BY <1>2 DEF Current, IInv, TypeOK
  <1>3. ASSUME NEW d \in Deliveries, NEW m \in Messages, Receive(d, m)
        PROVE  GrantedOnce'
    BY <1>3 DEF Receive, IInv, TypeOK
  <1>4. ASSUME NEW d \in Deliveries, Reject(d)
        PROVE  GrantedOnce'
    BY <1>4 DEF Reject, IInv, TypeOK
  <1>5. ASSUME NEW d \in Deliveries, Use(d)
        PROVE  GrantedOnce'
    BY <1>5 DEF Use, IInv, TypeOK
  <1>6. ASSUME NEW d \in Deliveries, RefuseReplay(d)
        PROVE  GrantedOnce'
    BY <1>6 DEF RefuseReplay, IInv, TypeOK
  <1>7. ASSUME NEW d \in Deliveries, RefuseUnresolved(d)
        PROVE  GrantedOnce'
    BY <1>7 DEF RefuseUnresolved, IInv, TypeOK
  <1>8. ASSUME NEW d \in Deliveries, ResolveLenient(d)
        PROVE  GrantedOnce'
    BY <1>8 DEF ResolveLenient, IInv, TypeOK
  <1>9. ASSUME NEW d \in Deliveries, ResolveStrict(d)
        PROVE  GrantedOnce'
    BY <1>9 DEF ResolveStrict, IInv, TypeOK
  <1>10. ASSUME NEW d \in Deliveries, Validate(d)
        PROVE  GrantedOnce'
    BY <1>10 DEF Validate, IInv, TypeOK
  <1>11. ASSUME NEW d \in Deliveries, Decide(d)
        PROVE  GrantedOnce'
    <2> HIDE DEF SameRequest
    <2>1. ASSUME NEW e \in Deliveries, e # d, pc[e] = "granted",
                 strictly[d], strictly[e]
          PROVE  ~SameRequest(d, e) /\ ~SameRequest(e, d)
      <3>1. Attested(d)
        BY <1>11, <2>1 DEF Decide, IInv, StrictPath, AttestedBefore
      <3>2. Attested(e) \/ msg[e].challenge \notin alive
        BY <2>1 DEF IInv, StrictPath, AttestedBefore
      <3>3. CASE Attested(e)
        BY <2>1, <3>1, <3>3, OneAttested DEF IInv
      <3>4. CASE msg[e].challenge \notin alive
        BY <3>1, <3>4 DEF Attested, SameRequest
      <3>5. QED
        BY <3>2, <3>3, <3>4
    <2>2. /\ UNCHANGED <<msg, strictly>>
          /\ \A e \in Deliveries : e # d => pc'[e] = pc[e]
      BY <1>11 DEF Decide, IInv, TypeOK
    <2>3. \A e1, e2 \in Deliveries : SameRequest(e1, e2)' <=> SameRequest(e1, e2)
      BY <2>2 DEF SameRequest
    <2>4. QED
      BY <2>1, <2>2, <2>3 DEF IInv
  <1>12. ASSUME Tick
        PROVE  GrantedOnce'
    BY <1>12 DEF Tick, IInv, TypeOK
  <1>13. ASSUME Restart
        PROVE  GrantedOnce'
    <2>1. \A e \in Deliveries :
            pc'[e] = "granted" => pc[e] = "granted" /\ msg'[e] = msg[e]
      BY <1>13 DEF Restart, IInv, TypeOK
    <2>2. strictly' = strictly
      BY <1>13 DEF Restart
    <2>3. QED
      BY <2>1, <2>2 DEF IInv
  <1>14. CASE UNCHANGED vars
    BY <1>14 DEF vars, challengeVars, deliveryVars, IInv
  <1>15. QED
    BY <1>1, <1>2, <1>3, <1>4, <1>5, <1>6, <1>7, <1>8,
       <1>9, <1>10, <1>11, <1>12, <1>13, <1>14 DEF Next, HandleIssue

LEMMA IInvStep == IInv /\ [Next]_vars => IInv'
  <1> SUFFICES ASSUME IInv, [Next]_vars
               PROVE  IInv'
    OBVIOUS
  <1>1. TypeOK' /\ ChallengesDated'
    BY TypeStep, DatedStep DEF IInv
  <1>2. RequestsFollowChallenges' /\ PassedInOrder'
    BY RequestsStep, PassedStep DEF IInv
  <1>3. StrictPath' /\ NonceWindow'
    BY StrictStep, NonceStep DEF IInv
  <1>4. GrantedOnce'
    BY GrantStep
  <1>5. QED
    BY <1>1, <1>2, <1>3, <1>4 DEF IInv

\* The clocks, challenges and replay entries of the server are always well
\* typed, and the current challenge dies a lifetime after the time its fetch
\* read (Current, Valid in attestation_challenge.go).
THEOREM IssueTyping == Spec => []TypeOK
  <1>1. IInv => TypeOK
    BY DEF IInv
  <1>2. QED
    BY IInvInit, IInvStep, <1>1, PTL DEF Spec

\* Between restarts no nonce gets past replayCache.Use twice within ReplayTtl,
\* however late a goroutine acts on the time it read.
THEOREM NonceOnce == Spec => []NonceWindow
  <1>1. IInv => NonceWindow
    BY DEF IInv
  <1>2. QED
    BY IInvInit, IInvStep, <1>1, PTL DEF Spec

\* handleIssue grants a request to a strictly attested config at most once,
\* over any number of deliveries and restarts, because a challenge lives no
\* longer than the replay cache remembers.
THEOREM StrictGrantOnce == Spec => []GrantedOnce
  <1>1. IInv => GrantedOnce
    BY DEF IInv
  <1>2. QED
    BY IInvInit, IInvStep, <1>1, PTL DEF Spec
=============================================================================
