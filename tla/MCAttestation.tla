--------------------------- MODULE MCAttestation ---------------------------
(***************************************************************************)
(* Entries and requests for Attestation: whole ones, and what one or two   *)
(* departures make of them.                                                *)
(***************************************************************************)
EXTENDS Attestation

CONSTANTS c1, c2, d1, d2, k1, k2

(***************************************************************************)
(* Entries                                                                 *)
(***************************************************************************)
NoArm ==
  [verifier |-> "", hardware |-> FALSE, root |-> FALSE, boot |-> FALSE,
   app |-> "", package |-> "ours", signer |-> "ours"]

\* The arms of strictDeviceAttestationPolicy, and lesser ones.
AndroidArm ==
  [NoArm EXCEPT !.verifier = Android, !.hardware = TRUE, !.root = TRUE,
                !.boot = TRUE]
AppleArm ==
  [NoArm EXCEPT !.verifier = Apple, !.hardware = TRUE, !.root = TRUE,
                !.app = "ours"]
UnknownArm == [NoArm EXCEPT !.verifier = "play-integrity"]
Arms ==
  {NoArm, AndroidArm, AppleArm, UnknownArm,
   [AndroidArm EXCEPT !.hardware = FALSE, !.boot = FALSE],
   [AppleArm EXCEPT !.hardware = FALSE],
   [AppleArm EXCEPT !.app = ""]}

NoArms == [p \in {} |-> NoArm]

Entry(mode, arms, flat, soft, ttl) ==
  [mode |-> mode, arms |-> arms, flat |-> flat, soft |-> soft, ttl |-> ttl]

TwoArms ==
  [p \in {"ANDROID", "IOS"} |-> IF p = "IOS" THEN AppleArm ELSE AndroidArm]

MCEntries ==
  {Entry("off", NoArms, NoArm, 0, 0)}
  \cup {Entry("strict", NoArms, flat, 0, 0) : flat \in Arms}
  \cup {Entry("strict", TwoArms, NoArm, 0, ttl) : ttl \in {1, 9}}
  \cup {Entry(mode, [p \in {"ANDROID"} |-> arm], NoArm, 4, ttl) :
          mode \in {"soft", "strict"}, arm \in {AndroidArm, UnknownArm},
          ttl \in {2}}
  \cup {Entry("observe", [p \in {"IOS"} |-> UnknownArm], AndroidArm, 0, 0),
        Entry("soft", NoArms, AndroidArm, 0, 2),
        Entry("soft", NoArms, AndroidArm, -1, 2),
        Entry("enforce", NoArms, NoArm, 0, 0)}

(***************************************************************************)
(* Requests                                                                *)
(***************************************************************************)
Said(challenge) ==
  [challenge |-> challenge, level |-> "tee", boot |-> "verified",
   locked |-> TRUE, packages |-> {"ours"}, signers |-> {"ours"}]

Saids ==
  {Said(c1), Said(c2),
   [Said(c1) EXCEPT !.level = "software"],
   [Said(c1) EXCEPT !.locked = FALSE],
   [Said(c1) EXCEPT !.boot = "absent", !.locked = FALSE],
   [Said(c1) EXCEPT !.packages = {"theirs"}]}

Cert(key, says) == [key |-> key, says |-> says]
Root == Cert(k2, Nothing)

Chains ==
  {<<Cert(k1, s), Root>> : s \in Saids}
  \cup {<<Cert(k2, Said(c2)), Cert(k1, Said(c1)), Root>>,
        <<Cert(k1, Garbled), Root>>, <<Root>>}

ChainOf(chain, linked, anchored) ==
  [format |-> "android", chain |-> chain, linked |-> linked,
   anchored |-> anchored]

Object(challenge, linked, anchored, parses, app, genuine) ==
  [format |-> "ios", challenge |-> challenge, linked |-> linked,
   anchored |-> anchored, parses |-> parses, app |-> app,
   genuine |-> genuine]

AndroidTokens ==
  {ChainOf(chain, TRUE, TRUE) : chain \in Chains}
  \cup {ChainOf(<<Cert(k1, Said(c1)), Root>>, FALSE, FALSE),
        ChainOf(<<Cert(k1, Said(c1)), Root>>, TRUE, FALSE)}

AppleTokens ==
  {Object(c1, TRUE, anchored, TRUE, "ours", genuine) :
     anchored \in BOOLEAN, genuine \in BOOLEAN}
  \cup {Object(c1, FALSE, FALSE, TRUE, "ours", TRUE),
        Object(c1, TRUE, TRUE, FALSE, "", FALSE),
        Object(c1, TRUE, TRUE, TRUE, "theirs", TRUE)}

Blob(platform, token, nonce, bound, proof) ==
  [platform |-> platform, token |-> token, nonce |-> nonce, bound |-> bound,
   proof |-> proof]

Request(version, blob) == [version |-> version, device |-> d1, attestation |-> blob]

Proof(key, bound) == [key |-> key, nonce |-> c1, bound |-> bound]
NoToken == [format |-> "none"]

MCRequests ==
  {Request(2, Blob("ANDROID", token, c1, d1, Proof(k1, d1))) :
     token \in AndroidTokens}
  \cup {Request(version, Blob("ANDROID", ChainOf(chain, TRUE, TRUE),
                              nonce, bound, proof)) :
          version \in {1, 2},
          chain \in {<<Cert(k1, Said(c1)), Root>>},
          nonce \in {c1, c2, NoNonce}, bound \in {d1, d2, NoDevice},
          proof \in {Proof(k1, d1), Proof(k1, d2), Proof(k2, d1), NoProof}}
  \cup {Request(2, Blob("IOS", token, nonce, NoDevice, NoProof)) :
          token \in AppleTokens, nonce \in {c1, NoNonce}}
  \cup {Request(2, Blob(platform, token, c1, d1, Proof(k1, d1))) :
          platform \in {"", "none", "NONE", "android", "ios", "ANDROID", "IOS"},
          token \in {NoToken, [format |-> "garbled"],
                     ChainOf(<<Cert(k1, Said(c1)), Root>>, TRUE, TRUE)}}
=============================================================================
