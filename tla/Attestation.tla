---------------------------- MODULE Attestation ----------------------------
(***************************************************************************)
(* What the attestation of an issue request is worth: the policy of a      *)
(* config entry (state.go), the evaluation of that policy (policy.go), the *)
(* two verifiers it may name (verifier.go, aka.go, app_attest.go) and the  *)
(* binding demanded by handleIssue (server.go).                            *)
(*                                                                         *)
(* Certificates, signatures and encodings are abstracted to what the       *)
(* verifiers find out about them: a chain is linked and anchored or it is  *)
(* not, a certificate has a key and says something about it or nothing.    *)
(* Mode "off" stands for an entry without a policy as well.                *)
(***************************************************************************)
EXTENDS Integers, Sequences

CONSTANTS
  Entries,          \* entries the creator may write into configs.json
  Requests,         \* issue requests
  Challenges,       \* challenges the server may make
  NoNonce,          \* an empty nonce, or no challenge
  NoEntry,          \* the config is not in the registry
  NoRequest,        \* nothing is being served
  NoDevice,         \* an empty boundDevicePk
  NoProof,          \* an empty proof
  Nothing,          \* a certificate without an attestation extension
  Garbled,          \* a certificate whose attestation extension is malformed
  DefaultConfigTtl, \* 1h in the code
  DefaultSoftTtl,   \* 300s in the code
  TtlMin, TtlMax    \* 60s and 7 days in the code

ASSUME TtlAssumption ==
  /\ DefaultConfigTtl \in Nat /\ DefaultSoftTtl \in Nat
  /\ TtlMin \in Nat /\ TtlMax \in Nat
  /\ 0 < TtlMin /\ TtlMin <= DefaultConfigTtl /\ DefaultConfigTtl <= TtlMax
  /\ 0 < DefaultSoftTtl

ASSUME EntriesAssumption ==
  /\ NoEntry \notin Entries
  /\ \A e \in Entries : e.ttl \in Int /\ e.soft \in Int

(***************************************************************************)
(* Tokens                                                                  *)
(***************************************************************************)
\* What parseKeyDescription reads from an attestation extension.  Packages and
\* signers are empty without an application id, boot is "absent" and locked is
\* FALSE without a root of trust.
KeyDescriptions ==
  [challenge : Challenges \cup {NoNonce},
   level : {"software", "tee", "strongbox", "unknown"},
   boot : {"verified", "self-signed", "unverified", "failed", "absent"},
   locked : BOOLEAN, packages : SUBSET STRING, signers : SUBSET STRING]

Certificate(cert) ==
  /\ DOMAIN cert = {"key", "says"}
  /\ cert.says \in {Nothing, Garbled} \/ cert.says \in KeyDescriptions

\* A chain that parseLengthPrefixedChain accepts, whether each certificate is
\* signed by the next, and whether the chain ends at a known root.
AndroidToken(t) ==
  /\ DOMAIN t = {"format", "chain", "linked", "anchored"}
  /\ t.format = "android"
  /\ t.linked \in BOOLEAN /\ t.anchored \in BOOLEAN
  /\ t.chain \in Seq({t.chain[i] : i \in DOMAIN t.chain}) /\ t.chain # <<>>
  /\ \A i \in DOMAIN t.chain : Certificate(t.chain[i])

\* An App Attest object: made for a challenge, with a statement whose chain is
\* well formed and linked or not, and with authenticator data that parses or
\* not, is about an app, and is genuine if its ids are those of the leaf's key
\* and of App Attest.
AppleToken(t) ==
  t \in [format : {"ios"}, challenge : Challenges \cup {NoNonce},
         linked : BOOLEAN, anchored : BOOLEAN, parses : BOOLEAN,
         app : STRING, genuine : BOOLEAN]

Token(t) ==
  \/ t \in [format : {"none", "garbled"}]
  \/ AndroidToken(t)
  \/ AppleToken(t)

ASSUME RequestsAssumption ==
  /\ NoRequest \notin Requests
  /\ NoNonce \notin Challenges
  /\ \A r \in Requests : Token(r.attestation.token)

VARIABLES
  served,  \* the entry in the registry
  current, \* the current challenge
  made,    \* history: the challenges made
  pc,      \* where handleIssue is: "idle", "evaluate" or "answered"
  req,     \* the request it serves
  entry,   \* the entry it read
  answer   \* "none", or what it answered

vars == <<served, current, made, pc, req, entry, answer>>

Android == "android-key-attestation"
Apple == "apple-app-attest"
Modes == {"off", "observe", "soft", "strict"}

(***************************************************************************)
(* Policies                                                                *)
(***************************************************************************)
\* verifierRegistry.Lookup: an empty name means that there is no verifier.
Resolvable(verifier) == verifier \in {"", Android, Apple}

\* Fault: the verifier is not looked up.
AdmissibleUnresolved(e) ==
  /\ e.mode \in Modes
  /\ e.soft >= 0
  /\ e.flat.verifier = Apple => e.flat.app # ""
  /\ e.ttl = 0 \/ e.ttl \in TtlMin..TtlMax

\* loadConfigsFile, what it demands of a policy and of configTtlSec.
Admissible(e) ==
  /\ e.mode \in Modes
  /\ e.soft >= 0
  /\ Resolvable(e.flat.verifier)
  /\ e.flat.verifier = Apple => e.flat.app # ""
  /\ e.ttl = 0 \/ e.ttl \in TtlMin..TtlMax

\* strings.ToUpper, on the names a requester may send.
Upper(platform) ==
  CASE platform = "android" -> "ANDROID"
    [] platform = "ios" -> "IOS"
    [] platform = "none" -> "NONE"
    [] OTHER -> platform

\* AttestationPolicy.armFor: without arms the flat fields are the one arm of
\* every platform; with arms, a platform has its own or none.
HasArm(e, platform) ==
  DOMAIN e.arms = {} \/ Upper(platform) \in DOMAIN e.arms

ArmFor(e, platform) ==
  IF DOMAIN e.arms = {} THEN e.flat ELSE e.arms[Upper(platform)]

\* resolveConfigTtl and softFailureTtl.
ConfigTtl(e) == IF e.ttl <= 0 THEN DefaultConfigTtl ELSE e.ttl
SoftFailureTtl(e) == IF e.soft <= 0 THEN DefaultSoftTtl ELSE e.soft

(***************************************************************************)
(* Verifiers                                                               *)
(***************************************************************************)
Unverified ==
  [verified |-> FALSE, hardware |-> FALSE, root |-> FALSE, boot |-> FALSE,
   packages |-> {}, signers |-> {}]

\* Fault: the occurrence nearest the leaf is taken.
AttesterFromLeaf(chain) ==
  CHOOSE i \in 1..Len(chain) :
    /\ chain[i].says # Nothing
    /\ \A j \in 1..(i - 1) : chain[j].says = Nothing

\* The certificate that attests: of those with the extension, the one nearest
\* the root.  A chain is listed leaf first.
Attester(chain) ==
  CHOOSE i \in 1..Len(chain) :
    /\ chain[i].says # Nothing
    /\ \A j \in (i + 1)..Len(chain) : chain[j].says = Nothing

Attests(chain) == \E i \in 1..Len(chain) : chain[i].says # Nothing

\* The nonce and the proof are checked if they are there.
BoundTo(b, cert) ==
  /\ b.nonce # NoNonce => cert.says.challenge = b.nonce
  /\ b.bound # NoDevice \/ b.proof # NoProof =>
       b.proof = [key |-> cert.key, nonce |-> b.nonce, bound |-> b.bound]

\* androidKeyAttestationVerifier.Verify; a malformed token is an error, which
\* the evaluation takes for an unverified verdict.
AndroidVerdict(b) ==
  LET chain == b.token.chain
      cert == chain[Attester(chain)]
      says == cert.says
  IN  IF /\ b.platform = "ANDROID"
         /\ b.token.format = "android"
         /\ b.token.linked
         /\ Attests(chain)
         /\ says # Garbled
         /\ BoundTo(b, cert)
      THEN [verified |-> b.token.anchored,
            hardware |-> says.level \in {"tee", "strongbox"},
            root |-> b.token.anchored,
            boot |-> says.boot = "verified" /\ says.locked,
            packages |-> says.packages,
            signers |-> says.signers]
      ELSE Unverified

\* appleAppAttestVerifier.verifyWithAppID.  Authenticator data that does not
\* parse ends it early, with a verdict that has no hardware in it.
AppleVerdict(b, app) ==
  IF /\ b.platform = "IOS"
     /\ app # ""
     /\ b.token.format = "ios"
     /\ b.token.linked
     /\ b.token.challenge = b.nonce
     /\ b.token.parses => b.token.app = app /\ b.token.genuine
  THEN [verified |-> b.token.anchored,
        hardware |-> b.token.parses,
        root |-> b.token.anchored,
        boot |-> FALSE, packages |-> {}, signers |-> {}]
  ELSE Unverified

Verdict(arm, b) ==
  IF arm.verifier = Apple THEN AppleVerdict(b, arm.app) ELSE AndroidVerdict(b)

(***************************************************************************)
(* evaluateAttestationPolicy                                               *)
(***************************************************************************)
\* The package and the signer of an arm are the default ones where the file
\* leaves them empty.
Meets(arm, verdict) ==
  /\ verdict.verified
  /\ arm.hardware => verdict.hardware
  /\ arm.root => verdict.root
  /\ arm.boot => verdict.boot
  /\ arm.verifier = Android =>
       arm.package \in verdict.packages /\ arm.signer \in verdict.signers

ClaimsAttestation(b) ==
  b.platform \notin {"", "NONE"} /\ b.token.format # "none"

Attested(e, b) ==
  LET arm == ArmFor(e, b.platform)
  IN  /\ HasArm(e, b.platform)
      /\ IF arm.verifier # "" /\ b.token.format # "none"
         THEN Meets(arm, Verdict(arm, b))
         ELSE ClaimsAttestation(b)

\* The lookup of the verifier fails the request in every mode but "off".
Fails(e, b) ==
  /\ e.mode # "off"
  /\ HasArm(e, b.platform)
  /\ ~Resolvable(ArmFor(e, b.platform).verifier)

\* Fault: the lifetime after a failed attestation is not capped.
SoftTtlUncapped(e) == SoftFailureTtl(e)

SoftTtl(e) ==
  IF SoftFailureTtl(e) > ConfigTtl(e) THEN ConfigTtl(e) ELSE SoftFailureTtl(e)

\* The lifetime a mode grants, 0 if it rejects.
Lifetime(mode, e, b) ==
  CASE mode = "soft" /\ ~Attested(e, b) -> SoftTtl(e)
    [] mode = "strict" /\ ~Attested(e, b) -> 0
    [] OTHER -> ConfigTtl(e)

(***************************************************************************)
(* The server                                                              *)
(***************************************************************************)
Init ==
  /\ served = NoEntry
  /\ current = NoNonce
  /\ made = {}
  /\ pc = "idle"
  /\ req = NoRequest
  /\ entry = NoEntry
  /\ answer = "none"

serving == <<pc, req, entry, answer>>

\* Fault: the file is swapped in as it is.
LoadAny(e) ==
  /\ served' = e
  /\ UNCHANGED <<current, made, serving>>

\* A request loads configs.json and swaps the registry; a file that is not
\* admissible is never swapped in.
Load(e) ==
  /\ Admissible(e)
  /\ served' = e
  /\ UNCHANGED <<current, made, serving>>

Unload ==
  /\ served' = NoEntry
  /\ UNCHANGED <<current, made, serving>>

\* The first challenge, or the one after the last has expired.
NewChallenge(c) ==
  /\ c \notin made
  /\ current' = c
  /\ made' = made \cup {c}
  /\ UNCHANGED <<served, serving>>

Respond(a) == pc' = "answered" /\ answer' = a

\* A strict policy with Android key attestation wants a request that is bound
\* to its key and to the current challenge.
WantsBinding(e, b) ==
  /\ e.mode = "strict"
  /\ HasArm(e, b.platform)
  /\ ArmFor(e, b.platform).verifier = Android

Bound(r) ==
  /\ r.version >= 2
  /\ r.attestation.bound = r.device
  /\ r.attestation.proof # NoProof
  /\ current # NoNonce
  /\ r.attestation.nonce = current

NotFound(r) ==
  /\ pc = "idle"
  /\ served = NoEntry
  /\ req' = r
  /\ Respond("not found")
  /\ UNCHANGED <<served, current, made, entry>>

Resolve(r) ==
  /\ pc = "idle"
  /\ served # NoEntry
  /\ req' = r
  /\ entry' = served
  /\ IF WantsBinding(served, r.attestation) => Bound(r)
     THEN pc' = "evaluate" /\ UNCHANGED answer
     ELSE Respond("refused")
  /\ UNCHANGED <<served, current, made>>

\* The issuance limiter has the request wait.
Limited ==
  /\ pc = "evaluate"
  /\ Respond("limited")
  /\ UNCHANGED <<served, current, made, req, entry>>

Verdicts(e, b) ==
  IF Fails(e, b) THEN "error"
  ELSE IF Lifetime(e.mode, e, b) = 0 THEN "refused" ELSE "granted"

\* Fault: the entry is read from the registry once more.
EvaluateServed ==
  /\ pc = "evaluate"
  /\ entry' = served
  /\ Respond(IF served = NoEntry THEN "not found"
             ELSE Verdicts(served, req.attestation))
  /\ UNCHANGED <<served, current, made, req>>

Evaluate ==
  /\ pc = "evaluate"
  /\ Respond(Verdicts(entry, req.attestation))
  /\ UNCHANGED <<served, current, made, req, entry>>

\* The connection is done with.
Finish ==
  /\ pc = "answered"
  /\ pc' = "idle"
  /\ req' = NoRequest
  /\ entry' = NoEntry
  /\ answer' = "none"
  /\ UNCHANGED <<served, current, made>>

Next ==
  \/ \E e \in Entries : Load(e)
  \/ Unload
  \/ \E c \in Challenges : NewChallenge(c)
  \/ \E r \in Requests : NotFound(r) \/ Resolve(r)
  \/ Limited
  \/ Evaluate
  \/ Finish

Spec == Init /\ [][Next]_vars

-----------------------------------------------------------------------------
(***************************************************************************)
(* Properties                                                              *)
(***************************************************************************)
\* The registry only ever holds an entry that loadConfigsFile accepts, and a
\* request is decided on such an entry.
TypeOK ==
  /\ served \in {e \in Entries : Admissible(e)} \cup {NoEntry}
  /\ current \in made \cup {NoNonce}
  /\ made \subseteq Challenges
  /\ pc \in {"idle", "evaluate", "answered"}
  /\ req \in Requests \cup {NoRequest}
  /\ entry \in {e \in Entries : Admissible(e)} \cup {NoEntry}
  /\ answer \in {"none", "not found", "limited", "error", "refused", "granted"}
  /\ pc = "idle" <=> req = NoRequest
  /\ pc = "evaluate" => entry # NoEntry
  /\ pc = "answered" <=> answer # "none"
  /\ answer \in {"error", "granted"} => entry # NoEntry

\* What an Android attestation has to show for a request under an arm.
AndroidEvidence(arm, r) ==
  LET b == r.attestation
      cert == b.token.chain[Attester(b.token.chain)]
      says == cert.says
  IN  /\ b.platform = "ANDROID"
      /\ b.token.linked /\ b.token.anchored
      /\ says.challenge = b.nonce /\ b.nonce \in made
      /\ b.proof = [key |-> cert.key, nonce |-> b.nonce, bound |-> r.device]
      /\ arm.package \in says.packages /\ arm.signer \in says.signers
      /\ arm.hardware => says.level \in {"tee", "strongbox"}
      /\ arm.boot => says.boot = "verified" /\ says.locked

\* What an App Attest attestation has to show under an arm that demands
\* hardware, as the one the dashboard writes does.
AppleEvidence(arm, b) ==
  /\ b.platform = "IOS"
  /\ b.token.linked /\ b.token.anchored
  /\ b.token.challenge = b.nonce
  /\ arm.hardware => b.token.parses /\ b.token.app = arm.app /\ b.token.genuine
  /\ ~arm.boot

\* Under a strict policy a config is only handed out if the policy has an arm
\* for the requester's platform and the token is what that arm demands.  On
\* Android it was moreover made for a challenge of this server, and the
\* attested key has vouched for the device that signed the request: the
\* verifier checks nonce and proof only if they are there, and that they are
\* is seen to by handleIssue, before the limiter, on the entry it read then.
StrictGrantIsBacked ==
  answer = "granted" /\ entry.mode = "strict" =>
    LET b == req.attestation
        arm == ArmFor(entry, b.platform)
    IN  /\ HasArm(entry, b.platform)
        /\ b.token.format # "none"
        /\ arm.verifier = Android => AndroidEvidence(arm, req)
        /\ arm.verifier = Apple => AppleEvidence(arm, b)

\* A stricter mode never grants more than a laxer one, for the same entry and
\* request: not after a failed attestation either, when the lifetime that soft
\* mode grants is configured apart from the config's.  No mode grants more
\* than the longest lifetime a config may have.
GradedModes ==
  pc = "answered" /\ entry # NoEntry =>
    LET lifetime(mode) == Lifetime(mode, entry, req.attestation)
    IN  /\ lifetime("strict") <= lifetime("soft")
        /\ 0 < lifetime("soft") /\ lifetime("soft") <= lifetime("observe")
        /\ lifetime("observe") = lifetime("off")
        /\ lifetime("off") <= TtlMax

\* A certificate issued below the attested one changes nothing about what is
\* attested, whatever it says (the loop in aka.go over the extensions).
WithLeaf(b, cert) == [b EXCEPT !.token.chain = <<cert>> \o @]

Leaves ==
  {r.attestation.token.chain[1] :
     r \in {r \in Requests : r.attestation.token.format = "android"}}

LeavesAddNothing ==
  req # NoRequest =>
    LET b == req.attestation
    IN  b.token.format = "android" /\ Attests(b.token.chain) =>
          \A cert \in Leaves :
            AndroidVerdict(WithLeaf(b, cert)) = AndroidVerdict(b)

\* A request under a policy without arms is always decided: what it would take
\* for the evaluation to fail has been refused when the file was loaded.
FlatPoliciesDecide ==
  answer = "error" => DOMAIN entry.arms # {}

\* The same of all policies, as state.go has it above loadConfigsFile.
LoadedPoliciesDecide == answer # "error"
=============================================================================
