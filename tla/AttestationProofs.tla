------------------------- MODULE AttestationProofs -------------------------
(***************************************************************************)
(* Proofs about Attestation, for any entries, requests and challenges, and *)
(* for any lifetimes that the assumptions of Attestation allow.            *)
(***************************************************************************)
EXTENDS Attestation, WellFoundedInduction, TLAPS

\* What handleIssue has established about a request once it has passed the
\* binding, and what the answer it then got says about the evaluation.
Vouched ==
  /\ req.attestation.bound = req.device
  /\ req.attestation.proof # NoProof
  /\ req.attestation.nonce # NoNonce
  /\ req.attestation.nonce \in made

Passed ==
  pc = "evaluate" \/ answer = "granted" =>
    (WantsBinding(entry, req.attestation) => Vouched)

Decided ==
  answer \in {"granted", "error"} => answer = Verdicts(entry, req.attestation)

IInv == TypeOK /\ Passed /\ Decided

-----------------------------------------------------------------------------
(***************************************************************************)
(* Lifetimes                                                               *)
(***************************************************************************)
\* The lifetimes of an entry that was accepted are in range, and the one after
\* a failed attestation is no longer than the other.
LEMMA Lifetimes ==
  ASSUME NEW e \in Entries, Admissible(e)
  PROVE  /\ ConfigTtl(e) \in 1..TtlMax
         /\ SoftTtl(e) \in 1..ConfigTtl(e)
<1>1. e.ttl \in Int /\ e.soft \in Int
  BY EntriesAssumption
<1>2. ConfigTtl(e) \in 1..TtlMax
  <2>1. e.ttl = 0 \/ e.ttl \in TtlMin..TtlMax
    BY Zenon DEF Admissible
  <2> QED
    BY <1>1, <2>1, TtlAssumption DEF ConfigTtl
<1>3. SoftFailureTtl(e) \in Nat /\ SoftFailureTtl(e) > 0
  BY <1>1, TtlAssumption DEF SoftFailureTtl
<1>4. SoftTtl(e) \in 1..ConfigTtl(e)
  BY <1>2, <1>3, TtlAssumption DEF SoftTtl
<1> QED
  BY <1>2, <1>4

\* The four modes, for one entry and one blob.
LEMMA Grades ==
  ASSUME NEW e, NEW b
  PROVE  /\ Lifetime("off", e, b) = ConfigTtl(e)
         /\ Lifetime("observe", e, b) = ConfigTtl(e)
         /\ Lifetime("soft", e, b) \in {SoftTtl(e), ConfigTtl(e)}
         /\ Lifetime("strict", e, b) \in {0, ConfigTtl(e)}
         /\ ~Attested(e, b) => Lifetime("strict", e, b) = 0
         /\ Attested(e, b) => Lifetime("soft", e, b) = ConfigTtl(e)
  BY DEF Lifetime

-----------------------------------------------------------------------------
(***************************************************************************)
(* The inductive invariant                                                 *)
(***************************************************************************)
LEMMA Initially == Init => IInv
  BY DEF Init, IInv, TypeOK, Passed, Decided

LEMMA Inductive == IInv /\ [Next]_vars => IInv'
<1> SUFFICES ASSUME IInv, [Next]_vars
             PROVE  IInv'
  OBVIOUS
<1> USE EntriesAssumption, RequestsAssumption DEF IInv, serving
<1>1. ASSUME NEW e \in Entries, Load(e)
      PROVE  IInv'
  BY <1>1 DEF Load, TypeOK, Passed, Decided, Vouched
<1>2. CASE Unload
  BY <1>2 DEF Unload, TypeOK, Passed, Decided, Vouched
<1>3. ASSUME NEW c \in Challenges, NewChallenge(c)
      PROVE  IInv'
  <2>1. TypeOK' /\ Decided'
    BY <1>3 DEF NewChallenge, TypeOK, Decided
  <2>2. Passed'
    BY <1>3 DEF NewChallenge, Passed, Vouched
  <2> QED
    BY <2>1, <2>2
<1>4. ASSUME NEW r \in Requests, NotFound(r)
      PROVE  IInv'
  BY <1>4 DEF NotFound, Respond, TypeOK, Passed, Decided
<1>5. ASSUME NEW r \in Requests, Resolve(r)
      PROVE  IInv'
  <2> USE <1>5 DEF Resolve, Respond
  <2>1. TypeOK'
    BY DEF TypeOK
  <2>2. answer = "none" /\ answer' \in {"none", "refused"}
    BY DEF TypeOK
  <2>3. Decided'
    BY <2>2 DEF Decided
  <2>4. Passed'
    <3> SUFFICES ASSUME pc' = "evaluate",
                        WantsBinding(served, r.attestation)
                 PROVE  Vouched'
      BY <2>2 DEF Passed
    <3>1. Bound(r)
      OBVIOUS
    <3> QED
      BY <3>1 DEF Bound, Vouched, TypeOK
  <2> QED
    BY <2>1, <2>3, <2>4
<1>6. CASE Limited
  BY <1>6 DEF Limited, Respond, TypeOK, Passed, Decided
<1>7. CASE Evaluate
  <2> USE <1>7 DEF Evaluate, Respond
  <2>1. answer' \in {"error", "refused", "granted"}
    BY DEF Verdicts
  <2>2. TypeOK'
    BY <2>1 DEF TypeOK
  <2>3. Decided'
    BY DEF Decided
  <2>4. Passed'
    BY DEF Passed, Vouched
  <2> QED
    BY <2>2, <2>3, <2>4
<1>8. CASE Finish
  BY <1>8 DEF Finish, TypeOK, Passed, Decided
<1>9. CASE UNCHANGED vars
  BY <1>9 DEF vars, TypeOK, Passed, Decided, Vouched
<1> QED
  BY <1>1, <1>2, <1>3, <1>4, <1>5, <1>6, <1>7, <1>8, <1>9 DEF Next

LEMMA Invariance == Spec => []IInv
  BY Initially, Inductive, PTL DEF Spec

-----------------------------------------------------------------------------
(***************************************************************************)
(* Theorems                                                                *)
(***************************************************************************)
\* Whatever the registry holds and a request is decided on has been accepted.
THEOREM Typing == Spec => []TypeOK
<1>1. IInv => TypeOK
  BY DEF IInv
<1> QED
  BY <1>1, Invariance, PTL

\* The fields of a verdict.
LEMMA Fields ==
  ASSUME NEW v, NEW h, NEW r, NEW o, NEW p, NEW s, NEW verdict,
         verdict = [verified |-> v, hardware |-> h, root |-> r, boot |-> o,
                    packages |-> p, signers |-> s]
  PROVE  /\ verdict.verified = v /\ verdict.hardware = h /\ verdict.boot = o
         /\ verdict.packages = p /\ verdict.signers = s
  OBVIOUS

\* A verdict that meets an Android arm has read the evidence the arm demands.
LEMMA AndroidMeets ==
  ASSUME NEW arm, NEW r, arm.verifier = Android, Vouched,
         r = req, Meets(arm, AndroidVerdict(r.attestation))
  PROVE  AndroidEvidence(arm, r)
<1> DEFINE b == r.attestation
           cert == b.token.chain[Attester(b.token.chain)]
           says == cert.says
           backed == says.level \in {"tee", "strongbox"}
           booted == says.boot = "verified" /\ says.locked
           verdict == AndroidVerdict(b)
<1>1. /\ b.platform = "ANDROID"
      /\ b.token.linked
      /\ BoundTo(b, cert)
      /\ verdict = [verified |-> b.token.anchored, hardware |-> backed,
                    root |-> b.token.anchored, boot |-> booted,
                    packages |-> says.packages, signers |-> says.signers]
  BY Zenon DEF Meets, AndroidVerdict, Unverified
<1>2. Meets(arm, verdict)
  OBVIOUS
<1> HIDE DEF backed, booted, verdict
<1>3. /\ b.token.anchored
      /\ arm.package \in says.packages /\ arm.signer \in says.signers
      /\ arm.hardware => backed
      /\ arm.boot => booted
  <2>1. /\ verdict.verified = b.token.anchored
        /\ verdict.hardware = backed
        /\ verdict.boot = booted
        /\ verdict.packages = says.packages /\ verdict.signers = says.signers
    BY <1>1, Fields
  <2> QED
    BY <1>2, <2>1, Zenon DEF Meets
<1>4. /\ says.challenge = b.nonce /\ b.nonce \in made
      /\ b.proof = [key |-> cert.key, nonce |-> b.nonce, bound |-> r.device]
  BY <1>1 DEF BoundTo, Vouched
<1> QED
  BY <1>1, <1>3, <1>4 DEF AndroidEvidence, backed, booted

\* A verdict that meets an App Attest arm has read what the arm demands.
LEMMA AppleMeets ==
  ASSUME NEW arm, NEW b, Meets(arm, AppleVerdict(b, arm.app))
  PROVE  AppleEvidence(arm, b)
<1>1. /\ b.platform = "IOS"
      /\ b.token.linked
      /\ b.token.challenge = b.nonce
      /\ b.token.parses => b.token.app = arm.app /\ b.token.genuine
      /\ AppleVerdict(b, arm.app) =
           [verified |-> b.token.anchored,
            hardware |-> b.token.parses,
            root |-> b.token.anchored,
            boot |-> FALSE, packages |-> {}, signers |-> {}]
  <2>1. Unverified.verified = FALSE
    BY DEF Unverified
  <2> QED
    BY <2>1, Zenon DEF Meets, AppleVerdict
<1>2. /\ b.token.anchored
      /\ arm.hardware => b.token.parses
      /\ ~arm.boot
  BY <1>1 DEF Meets
<1> QED
  BY <1>1, <1>2 DEF AppleEvidence

\* A strict grant rests on an arm and on the evidence that arm demands.
THEOREM StrictGrants == Spec => []StrictGrantIsBacked
<1>1. ASSUME IInv, answer = "granted", entry.mode = "strict"
      PROVE  LET b == req.attestation
                 arm == ArmFor(entry, b.platform)
             IN  /\ HasArm(entry, b.platform)
                 /\ b.token.format # "none"
                 /\ arm.verifier = Android => AndroidEvidence(arm, req)
                 /\ arm.verifier = Apple => AppleEvidence(arm, b)
  <2> DEFINE b == req.attestation
             arm == ArmFor(entry, b.platform)
  <2>1. Attested(entry, b)
    BY <1>1, Grades DEF IInv, Decided, Verdicts
  <2>2. HasArm(entry, b.platform) /\ b.token.format # "none"
    BY <2>1 DEF Attested, ClaimsAttestation
  <2>3. ASSUME arm.verifier # ""
        PROVE  Meets(arm, Verdict(arm, b))
    BY <2>1, <2>2, <2>3 DEF Attested
  <2>4. ASSUME arm.verifier = Android
        PROVE  AndroidEvidence(arm, req)
    <3>1. Vouched
      BY <1>1, <2>2, <2>4 DEF IInv, Passed, WantsBinding
    <3>2. Meets(arm, AndroidVerdict(b))
      BY <2>3, <2>4 DEF Verdict, Android, Apple
    <3> QED
      BY <3>1, <3>2, <2>4, AndroidMeets
  <2>5. ASSUME arm.verifier = Apple
        PROVE  AppleEvidence(arm, b)
    <3>1. Meets(arm, AppleVerdict(b, arm.app))
      BY <2>3, <2>5 DEF Verdict, Android, Apple
    <3> QED
      BY <3>1, AppleMeets
  <2> QED
    BY <2>2, <2>4, <2>5
<1>2. IInv => StrictGrantIsBacked
  BY <1>1 DEF StrictGrantIsBacked
<1> QED
  BY <1>2, Invariance, PTL

\* The modes grant in their order, within the longest lifetime.
THEOREM ModesAreGraded == Spec => []GradedModes
<1>1. ASSUME IInv, pc = "answered", entry # NoEntry
      PROVE  LET lifetime(mode) == Lifetime(mode, entry, req.attestation)
             IN  /\ lifetime("strict") <= lifetime("soft")
                 /\ 0 < lifetime("soft") /\ lifetime("soft") <= lifetime("observe")
                 /\ lifetime("observe") = lifetime("off")
                 /\ lifetime("off") <= TtlMax
  <2>1. /\ ConfigTtl(entry) \in 1..TtlMax
        /\ SoftTtl(entry) \in 1..ConfigTtl(entry)
    BY <1>1, Lifetimes DEF IInv, TypeOK
  <2> QED
    BY <2>1, Grades, TtlAssumption
<1>2. IInv => GradedModes
  BY <1>1 DEF GradedModes
<1> QED
  BY <1>2, Invariance, PTL

\* A policy without arms never fails the evaluation.
THEOREM FlatPolicies == Spec => []FlatPoliciesDecide
<1>1. IInv => FlatPoliciesDecide
  <2> SUFFICES ASSUME IInv, answer = "error", DOMAIN entry.arms = {}
               PROVE  FALSE
    BY DEF FlatPoliciesDecide
  <2>1. Fails(entry, req.attestation)
    BY DEF IInv, Decided, Verdicts
  <2>2. Admissible(entry)
    BY DEF IInv, TypeOK
  <2> QED
    BY <2>1, <2>2 DEF Fails, ArmFor, Admissible
<1> QED
  BY <1>1, Invariance, PTL

-----------------------------------------------------------------------------
(***************************************************************************)
(* Which certificate attests                                               *)
(***************************************************************************)
LEMMA LargestExists ==
  ASSUME NEW n \in Nat, NEW T, T \subseteq 1..n, T # {}
  PROVE  \E i \in T : \A j \in T : j <= i
<1> DEFINE R == OpToRel(<, Nat)
           U == {n - i : i \in T}
<1>1. U \subseteq Nat /\ U # {}
  OBVIOUS
<1>2. \A x, y \in Nat : x < y => <<x, y>> \in R
  BY DEF OpToRel
<1> HIDE DEF R, U
<1>3. \E x \in U : \A y \in U : <<y, x>> \notin R
  BY <1>1, NatLessThanWellFounded, WFMin DEF R
<1>4. PICK x \in U : \A y \in U : <<y, x>> \notin R
  BY <1>3
<1>5. PICK i \in T : x = n - i
  BY DEF U
<1>6. ASSUME NEW j \in T
      PROVE  j <= i
  <2>1. n - j \in U /\ n - j \in Nat /\ n - i \in U /\ n - i \in Nat
    BY DEF U
  <2>2. ~(n - j < n - i)
    BY <1>2, <1>4, <1>5, <2>1
  <2>3. i \in Int /\ j \in Int
    OBVIOUS
  <2> QED
    BY <2>1, <2>2, <2>3
<1> QED
  BY <1>6

\* There is one certificate nearest the root with the extension.
LEMMA AttesterIs ==
  ASSUME NEW s, Len(s) \in Nat, Attests(s)
  PROVE  /\ Attester(s) \in 1..Len(s)
         /\ s[Attester(s)].says # Nothing
         /\ \A j \in (Attester(s) + 1)..Len(s) : s[j].says = Nothing
<1> DEFINE T == {i \in 1..Len(s) : s[i].says # Nothing}
<1>1. T \subseteq 1..Len(s) /\ T # {}
  BY DEF Attests
<1>2. PICK i \in T : \A j \in T : j <= i
  BY <1>1, LargestExists
<1>3. ASSUME NEW j \in (i + 1)..Len(s)
      PROVE  s[j].says = Nothing
  <2>1. j \in 1..Len(s) /\ ~(j <= i)
    BY <1>1, <1>3
  <2> QED
    BY <1>2, <2>1
<1>4. \E k \in 1..Len(s) :
        /\ s[k].says # Nothing
        /\ \A j \in (k + 1)..Len(s) : s[j].says = Nothing
  BY <1>1, <1>2, <1>3
<1> QED
  BY <1>4 DEF Attester

LEMMA LeafIsIdle ==
  ASSUME NEW S, NEW s \in Seq(S), NEW cert, Attests(s)
  PROVE  LET long == <<cert>> \o s
         IN  Attests(long) /\ long[Attester(long)] = s[Attester(s)]
<1> DEFINE long == <<cert>> \o s
           a == Attester(s)
           b == Attester(long)
<1>1. /\ s \in Seq(S \cup {cert}) /\ <<cert>> \in Seq(S \cup {cert})
      /\ Len(s) \in Nat
  OBVIOUS
<1>2. /\ Len(long) = Len(s) + 1
      /\ \A i \in 1..Len(s) : long[i + 1] = s[i]
  BY <1>1
<1>3. /\ a \in 1..Len(s)
      /\ s[a].says # Nothing
      /\ \A j \in (a + 1)..Len(s) : s[j].says = Nothing
  BY <1>1, AttesterIs
<1> HIDE DEF long, a
<1>4. a + 1 \in 1..Len(long) /\ long[a + 1] = s[a]
  BY <1>1, <1>2, <1>3
<1>5. Attests(long)
  BY <1>3, <1>4 DEF Attests
<1>6. /\ b \in 1..Len(long)
      /\ long[b].says # Nothing
      /\ \A j \in (b + 1)..Len(long) : long[j].says = Nothing
  BY <1>1, <1>2, <1>5, AttesterIs
<1> HIDE DEF b
<1>7. a + 1 <= b
  <2> SUFFICES ASSUME b < a + 1
               PROVE  FALSE
    BY <1>3, <1>6
  <2>1. a + 1 \in (b + 1)..Len(long)
    BY <1>4, <1>6
  <2> QED
    BY <2>1, <1>3, <1>4, <1>6
<1>8. b <= a + 1
  <2> SUFFICES ASSUME a + 1 < b
               PROVE  FALSE
    BY <1>3, <1>6
  <2>1. b - 1 \in (a + 1)..Len(s) /\ b - 1 \in 1..Len(s) /\ (b - 1) + 1 = b
    BY <1>1, <1>2, <1>3, <1>6
  <2>2. long[b] = s[b - 1]
    BY <1>2, <2>1
  <2> QED
    BY <2>1, <2>2, <1>3, <1>6
<1>9. b = a + 1
  BY <1>3, <1>6, <1>7, <1>8
<1> QED
  BY <1>4, <1>5, <1>9 DEF long, a, b

\* The verdict looks at nothing of the chain but the certificate that attests.
LEMMA SameVerdict ==
  ASSUME NEW b, NEW c, NEW cert,
         Attests(b.token.chain), b.token.chain[Attester(b.token.chain)] = cert,
         Attests(c.token.chain), c.token.chain[Attester(c.token.chain)] = cert,
         c.token.format = b.token.format, c.token.linked = b.token.linked,
         c.token.anchored = b.token.anchored, c.platform = b.platform,
         BoundTo(c, cert) <=> BoundTo(b, cert)
  PROVE  AndroidVerdict(c) = AndroidVerdict(b)
<1> DEFINE Good(x) == /\ x.platform = "ANDROID" /\ x.token.format = "android"
                      /\ x.token.linked /\ Attests(x.token.chain)
                      /\ cert.says # Garbled /\ BoundTo(x, cert)
<1>1. Good(c) <=> Good(b)
  BY Zenon
<1>2. CASE Good(b)
  BY <1>1, <1>2, Zenon DEF AndroidVerdict
<1>3. CASE ~Good(b)
  <2>1. AndroidVerdict(b) = Unverified
    BY <1>3, Zenon DEF AndroidVerdict
  <2>2. AndroidVerdict(c) = Unverified
    BY <1>1, <1>3, Zenon DEF AndroidVerdict
  <2> QED
    BY <2>1, <2>2
<1> QED
  BY <1>2, <1>3

\* Whatever certificate is put below an attested chain, of whatever length, the
\* verdict is the same.
THEOREM LeavesAreIdle == Spec => []LeavesAddNothing
<1>1. IInv => LeavesAddNothing
  <2> SUFFICES ASSUME IInv, req # NoRequest, NEW cert,
                      req.attestation.token.format = "android",
                      Attests(req.attestation.token.chain)
               PROVE  AndroidVerdict(WithLeaf(req.attestation, cert))
                        = AndroidVerdict(req.attestation)
    BY DEF LeavesAddNothing
  <2> DEFINE b == req.attestation
             s == b.token.chain
             long == <<cert>> \o s
             c == WithLeaf(b, cert)
  <2>1. AndroidToken(b.token)
    BY RequestsAssumption DEF IInv, TypeOK, Token, AppleToken
  <2>2. Attests(long) /\ long[Attester(long)] = s[Attester(s)]
    BY <2>1, LeafIsIdle DEF AndroidToken
  <2>3. /\ c.token.chain = long
        /\ c.token.format = b.token.format
        /\ c.token.linked = b.token.linked /\ c.token.anchored = b.token.anchored
        /\ c.platform = b.platform /\ c.nonce = b.nonce /\ c.proof = b.proof
        /\ c.bound = b.bound
    BY <2>1 DEF WithLeaf, AndroidToken
  <2>4. BoundTo(c, long[Attester(long)]) <=> BoundTo(b, s[Attester(s)])
    BY <2>2, <2>3 DEF BoundTo
  <2> QED
    BY <2>2, <2>3, <2>4, SameVerdict
<1> QED
  BY <1>1, Invariance, PTL
=============================================================================
