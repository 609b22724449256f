------------------------- MODULE ClaimManifestProofs -------------------------
(***************************************************************************)
(* What a published manifest guarantees to the verifier built for it and   *)
(* to whoever reads its document, for any digests, modulus, names, texts   *)
(* and parameters; what the digest of the STWO policy that its statement   *)
(* pins tells of a proof's parameters; and what the BitVMX gates it feeds  *)
(* promise for any limits, keys, verifiers and observations.               *)
(***************************************************************************)
EXTENDS ClaimManifest, StwoPolicy, OuterFeasibility, Recursion, SequenceTheorems,
        FiniteSetTheorems, FunctionTheorems

(* Every receipt held went through parse_parts, and every manifest through *)
(* new with a receipt that is held.                                        *)
HeldAsChecked ==
  /\ \A receipt \in receipts :
       Len(receipt.proof) = ProofLen /\ CanonicalScalar(receipt.claim)
  /\ \A m \in manifests : /\ m.receipt \in receipts
                          /\ Accepts(m.params, m.receipt)
                          /\ m.manifest = Manifest(m.params, m.receipt)

(* Receipts come from the two parsers only and are never forgotten, so a   *)
(* manifest keeps the receipt it was built with.                           *)
LEMMA HeldInvariant == Spec => []HeldAsChecked
<1>1. Init => HeldAsChecked
  BY DEF Init, HeldAsChecked
<1>2. HeldAsChecked /\ [Next]_vars => HeldAsChecked'
  <2> SUFFICES ASSUME HeldAsChecked, [Next]_vars PROVE HeldAsChecked'
    OBVIOUS
  <2>1. ASSUME NEW receipt, Len(receipt.proof) = ProofLen,
               CanonicalScalar(receipt.claim), Parsed(receipt)
        PROVE  HeldAsChecked'
    BY <2>1 DEF HeldAsChecked, Parsed
  <2>2. ASSUME NEW journal \in Journals, NEW proof \in RawProofs,
               Deliver(journal, proof)
        PROVE  HeldAsChecked'
    BY <2>2 DEF HeldAsChecked, Deliver
  <2>3. ASSUME NEW d \in delivered, ParseSeal(d) PROVE HeldAsChecked'
    <3>1. PICK s \in SealSubmissions(d) :
            /\ SealParses(s.seal, s.journal, s.claim, s.inputs)
            /\ Parsed(Receipt(s.journal, s.claim, ProofOf(s.seal)))
      BY <2>3 DEF ParseSeal
    <3> QED
      BY <3>1, <2>1 DEF SealParses, PartsParse, Receipt
  <2>4. ASSUME NEW d \in delivered, ParseParts(d) PROVE HeldAsChecked'
    <3>1. PICK s \in PartSubmissions(d) :
            /\ PartsParse(s.selector, s.proof, s.journal, s.claim, s.inputs)
            /\ Parsed(Receipt(s.journal, s.claim, s.proof))
      BY <2>4 DEF ParseParts
    <3> QED
      BY <3>1, <2>1 DEF PartsParse, Receipt
  <2>5. ASSUME NEW receipt \in receipts, NEW other \in receipts, New(receipt, other)
        PROVE  HeldAsChecked'
    <3>1. PICK p \in Params(other) :
            /\ Accepts(p, receipt)
            /\ manifests' = manifests \cup {[params |-> p, receipt |-> receipt,
                                            manifest |-> Manifest(p, receipt)]}
      BY <2>5 DEF New
    <3>2. receipts' = receipts
      BY <2>5 DEF New
    <3> QED
      BY <3>1, <3>2 DEF HeldAsChecked
  <2>6. CASE UNCHANGED vars
    BY <2>6 DEF vars, HeldAsChecked
  <2> QED
    BY <2>2, <2>3, <2>4, <2>5, <2>6 DEF Next
<1> QED
  BY <1>1, <1>2, PTL DEF Spec

(* Whatever manifest is published, the input and the bindings of the       *)
(* verifier built for it pass the BitVMX gates: parse_parts fixes the      *)
(* proof's length, and new refuses every placeholder the gates refuse.     *)
THEOREM GatesFed == Spec => []FeedsGates
<1>1. ASSUME HeldAsChecked PROVE FeedsGates
  <2> SUFFICES ASSUME NEW m \in manifests
               PROVE  /\ InputFailures(Verifier(m).inputs) = {}
                      /\ BindingFailures(Verifier(m).bindings) = {}
    BY DEF FeedsGates
  <2> DEFINE input == [kind |-> "proof", len |-> Len(m.receipt.proof)]
             binding == [selector |-> Selector, risc0_image_id |-> m.manifest.image,
                         verifying_key_digest |-> m.manifest.verifyingKey,
                         expected_public_scalar |-> m.manifest.scalar]
  <2>1. Verifier(m).inputs = <<input>> /\ Verifier(m).bindings = binding
    BY DEF Verifier
  <2>2. Len(m.receipt.proof) = ProofLen
    BY <1>1 DEF HeldAsChecked
  <2>3. InputFailures(<<input>>) = {}
    <3>1. Len(<<input>>) = 1
      OBVIOUS
    <3>2. DOMAIN <<input>> = {1} /\ <<input>>[1] = input
      OBVIOUS
    <3>3. input.kind = "proof" /\ input.len = ProofLen
      BY <2>2
    <3> HIDE DEF input
    <3> QED
      BY <3>1, <3>2, <3>3 DEF InputFailures
  <2>4. /\ m.manifest.image = m.params.image
        /\ m.manifest.verifyingKey = m.params.verifyingKey
        /\ m.manifest.scalar = m.receipt.claim
    <3>1. m.manifest = Manifest(m.params, m.receipt)
      BY <1>1 DEF HeldAsChecked
    <3> QED
      BY <3>1 DEF Manifest
  <2>5. /\ m.params.image # Zero
        /\ m.params.verifyingKey # Zero
        /\ m.receipt.claim # Zero
    BY <1>1 DEF HeldAsChecked, Accepts, PinsFilledIn
  <2>6. BindingFailures(binding) = {}
    <3>1. /\ binding.selector = Selector
          /\ binding["risc0_image_id"] # Zero
          /\ binding["verifying_key_digest"] # Zero
          /\ binding["expected_public_scalar"] # Zero
      BY <2>4, <2>5
    <3> HIDE DEF binding
    <3> QED
      BY <3>1 DEF BindingFailures
  <2> QED
    BY <2>1, <2>3, <2>6
<1> QED
  BY <1>1, HeldInvariant, PTL

-----------------------------------------------------------------------------
(* Types *)

Hashes ==
  [sha256 : Range(Kinds) \cup {"seal", "graph", "other", "zero"}, bytes : Seq(Byte)]

Commits == {"hex", "main"}

Artifacts ==
  [kind : Range(Kinds), repository : Seq(Chars), commit : Commits,
   tag : Seq(Chars), file : Seq(Chars), url : Seq(Chars),
   sha256 : Hashes, len : Nat]

Requests ==
  [chain : {"sepolia", "base sepolia", "mainnet"}, market : Digests, id : Digests,
   commit : Commits]

ParamsSet ==
  [network : BitcoinNetworks, nonce : Digests, statement : Digests, image : Digests,
   claim : Digests, request : Requests, verifyingKey : Digests, graph : Hashes,
   inputCount : Nat, scalar : Digests, artifacts : Seq(Artifacts)]

ReceiptSet == [journal : Digests, claim : Digests, proof : Seq(Byte)]

Sealed == {Selector \o proof : proof \in Seq(Byte) \ {<< >>}}

DeliverySet == [seal : Sealed, journal : Journals, claim : Digests]

(* Whatever was delivered, parsed or published is of the right types.      *)
HeldTyped ==
  /\ delivered \subseteq DeliverySet
  /\ receipts \subseteq ReceiptSet
  /\ \A m \in manifests : m.params \in ParamsSet

(* A digest is a byte string of its length.                                *)
LEMMA DigestsAreBytes ==
  /\ Digests \subseteq Seq(Byte)
  /\ \A s \in Seq(Byte) : Len(s) = DigestLen => s \in Digests
  /\ \A s \in Digests : Len(s) = DigestLen
<1>1. DigestLen \in Nat
  BY DigestAssumption
<1>2. \A s \in Digests : s \in Seq(Byte) /\ Len(s) = DigestLen
  BY <1>1 DEF Digests, Bytes
<1>3. ASSUME NEW s \in Seq(Byte), Len(s) = DigestLen PROVE s \in Digests
  BY <1>1, <1>3 DEF Digests, Bytes
<1> QED
  BY <1>2, <1>3

LEMMA ZeroAndPin == Zero \in Digests /\ Pin \in Digests /\ Zero # Pin
<1>1. 0 \in Byte /\ 1 \in Byte /\ DigestLen \in Nat \ {0}
  BY DigestAssumption DEF Byte
<1>2. ZeroDigest \in Digests /\ Pin \in Digests
  BY <1>1 DEF Digests, Bytes, ZeroDigest, Pin
<1>3. ZeroDigest[1] = 0 /\ Pin[1] = 1
  BY <1>1 DEF ZeroDigest, Pin
<1> QED
  BY <1>2, <1>3, DigestAssumption

LEMMA TailTyped ==
  ASSUME NEW S, NEW s \in Seq(S), s # << >>
  PROVE  Tail(s) \in Seq(S)
  BY HeadTailProperties

LEMMA NonEmpty ==
  ASSUME NEW s \in Digests
  PROVE  s \in Seq(Byte) /\ s # << >>
<1>1. s \in Seq(Byte) /\ Len(s) = DigestLen /\ DigestLen # 0
  BY DigestsAreBytes, DigestAssumption
<1> QED
  BY <1>1, EmptySeq

(* A sealed proof is what follows the selector.                            *)
LEMMA SealedProof ==
  ASSUME NEW seal \in Sealed
  PROVE  /\ seal \in Seq(Byte) /\ seal # << >>
         /\ ProofOf(seal) \in Seq(Byte) \ {<< >>}
         /\ seal = Selector \o ProofOf(seal)
<1>1. PICK proof \in Seq(Byte) \ {<< >>} : seal = Selector \o proof
  BY DEF Sealed
<1>2. Selector \in Seq(Byte) /\ Selector # << >>
  BY DigestAssumption
<1>3. seal \in Seq(Byte) /\ Len(seal) = Len(Selector) + Len(proof)
  BY <1>1, <1>2
<1>4. /\ Len(Selector) \in Nat /\ Len(proof) \in Nat
      /\ Len(Selector) # 0 /\ Len(proof) # 0
  BY <1>2, EmptySeq
<1>5. seal # << >>
  BY <1>3, <1>4
<1>6. ProofOf(seal) = proof
  <2>1. ProofOf(seal) = [i \in 1..Len(proof) |-> seal[i + Len(Selector)]]
    BY <1>3, <1>4 DEF ProofOf
  <2>2. \A i \in 1..Len(proof) : seal[i + Len(Selector)] = proof[i]
    BY <1>1, <1>2, <1>4
  <2>3. proof = [i \in 1..Len(proof) |-> proof[i]]
    OBVIOUS
  <2> QED
    BY <2>1, <2>2, <2>3
<1> QED
  BY <1>1, <1>3, <1>5, <1>6

LEMMA WithPart ==
  ASSUME NEW record, NEW alternatives, NEW r \in With(record, alternatives)
  PROVE  \E part \in DOMAIN alternatives :
           \E v \in alternatives[part] : r = [record EXCEPT ![part] = v]
  BY DEF With

LEMMA SealPart ==
  ASSUME NEW d \in DeliverySet, delivered \subseteq DeliverySet,
         NEW s \in SealSubmissions(d)
  PROVE  s.seal \in Seq(Byte) /\ s.journal \in Seq(Byte) /\ s.claim \in Seq(Byte)
<1>1. /\ d.seal \in Seq(Byte) /\ d.journal \in Digests /\ d.claim \in Digests
      /\ d.journal \in Seq(Byte) /\ d.claim \in Seq(Byte)
  BY DigestAssumption, DigestsAreBytes, SealedProof DEF DeliverySet
<1>2. Tail(d.seal) \in Seq(Byte) /\ Tail(d.journal) \in Seq(Byte)
  BY <1>1, TailTyped, NonEmpty, SealedProof DEF DeliverySet
<1>3. Append(d.seal, 0) \in Seq(Byte)
  <2>1. 0 \in Byte
    BY DigestAssumption DEF Byte
  <2> QED
    BY <1>1, <2>1
<1>4. Seals \subseteq Seq(Byte) /\ Journals \subseteq Seq(Byte)
  BY DigestAssumption, DigestsAreBytes, SealedProof DEF Seals, DeliverySet
<1>5. CASE \E c \in Digests \cup {d.claim} :
             s = [seal |-> d.seal, journal |-> d.journal, claim |-> c, inputs |-> <<c>>]
  BY <1>1, <1>5, DigestsAreBytes
<1>6. CASE ~\E c \in Digests \cup {d.claim} :
             s = [seal |-> d.seal, journal |-> d.journal, claim |-> c, inputs |-> <<c>>]
  <2> DEFINE record == [seal |-> d.seal, journal |-> d.journal, claim |-> d.claim,
                        inputs |-> <<d.claim>>]
             alternatives == [seal |-> Seals \cup {Tail(d.seal), Append(d.seal, 0)},
               journal |-> Journals \cup {Tail(d.journal)},
               inputs |-> {<< >>, <<d.claim, d.claim>>}
                            \cup {<<c>> : c \in Digests}]
  <2>1. s \in With(record, alternatives)
    BY <1>6 DEF SealSubmissions
  <2>2. PICK part \in DOMAIN alternatives :
          \E v \in alternatives[part] : s = [record EXCEPT ![part] = v]
    <3> HIDE DEF record, alternatives
    <3> QED BY <2>1, WithPart
  <2>3. PICK v \in alternatives[part] : s = [record EXCEPT ![part] = v]
    BY <2>2
  <2>4. CASE part = "seal"
    BY <1>1, <1>2, <1>3, <1>4, <2>3, <2>4
  <2>5. CASE part = "journal"
    BY <1>1, <1>2, <1>4, <2>3, <2>5
  <2>6. CASE part = "inputs"
    BY <1>1, <2>3, <2>6
  <2> QED
    BY <2>4, <2>5, <2>6
<1> QED
  BY <1>5, <1>6

LEMMA ProofOfTyped ==
  ASSUME NEW seal \in Seq(Byte), Len(seal) = Len(Selector) + ProofLen
  PROVE  ProofOf(seal) \in Seq(Byte)
<1>1. Len(Selector) \in Nat /\ Len(seal) \in Nat /\ ProofLen \in Nat
  BY DigestAssumption, LimitsAssumption
<1> QED
  BY <1>1, SubSeqProperties DEF ProofOf

(* A receipt that parses is typed, whatever was submitted.                 *)
LEMMA ParsedSealTyped ==
  ASSUME NEW d \in DeliverySet, delivered \subseteq DeliverySet,
         NEW s \in SealSubmissions(d), SealParses(s.seal, s.journal, s.claim, s.inputs)
  PROVE  Receipt(s.journal, s.claim, ProofOf(s.seal)) \in ReceiptSet
<1>1. s.seal \in Seq(Byte) /\ s.journal \in Seq(Byte) /\ s.claim \in Seq(Byte)
  BY SealPart
<1>2. s.journal \in Digests /\ s.claim \in Digests
  BY <1>1, DigestsAreBytes DEF SealParses, PartsParse, CanonicalScalar
<1>3. ProofOf(s.seal) \in Seq(Byte)
  BY <1>1, ProofOfTyped DEF SealParses
<1> QED
  BY <1>2, <1>3 DEF Receipt, ReceiptSet

LEMMA ParsedPartsTyped ==
  ASSUME NEW d \in DeliverySet, NEW s \in PartSubmissions(d),
         PartsParse(s.selector, s.proof, s.journal, s.claim, s.inputs)
  PROVE  Receipt(s.journal, s.claim, s.proof) \in ReceiptSet
<1> DEFINE record == [selector |-> Selector, proof |-> ProofOf(d.seal),
                      journal |-> d.journal, claim |-> d.claim, inputs |-> <<d.claim>>]
           alternatives == [selector |-> {Selector, Tail(Selector), Append(Selector, 0)},
                            proof |-> {Tail(ProofOf(d.seal)), d.seal},
                            claim |-> {Tail(d.claim)}]
<1>1. s \in With(record, alternatives)
  BY DEF PartSubmissions
<1>2. PICK part \in DOMAIN alternatives :
        \E v \in alternatives[part] : s = [record EXCEPT ![part] = v]
  <2> HIDE DEF record, alternatives
  <2> QED
    BY <1>1, WithPart
<1>3. PICK v \in alternatives[part] : s = [record EXCEPT ![part] = v]
  BY <1>2
<1>4. /\ d.seal \in Seq(Byte) /\ d.journal \in Digests /\ d.claim \in Digests
      /\ ProofOf(d.seal) \in Seq(Byte) /\ Tail(ProofOf(d.seal)) \in Seq(Byte)
      /\ Tail(d.claim) \in Seq(Byte)
  BY SealedProof, TailTyped, NonEmpty, DigestAssumption DEF DeliverySet
<1>5. s.proof \in Seq(Byte) /\ s.journal \in Digests /\ s.claim \in Seq(Byte)
  <2>1. CASE part = "selector"
    BY <1>3, <1>4, <2>1, DigestsAreBytes
  <2>2. CASE part = "proof"
    BY <1>3, <1>4, <2>2, DigestsAreBytes
  <2>3. CASE part = "claim"
    BY <1>3, <1>4, <2>3
  <2> QED
    BY <2>1, <2>2, <2>3
<1>6. s.claim \in Digests
  BY <1>5, DigestsAreBytes DEF PartsParse, CanonicalScalar
<1> QED
  BY <1>5, <1>6 DEF Receipt, ReceiptSet

-----------------------------------------------------------------------------
(* The artifacts callers list are typed. *)

LEMMA KindsTyped ==
  /\ Len(Kinds) = 8 /\ DOMAIN Kinds = 1..8 /\ \A k \in 1..8 : Kinds[k] \in Range(Kinds)
  /\ {"boundless_seal", "bitvm2_graph"} \subseteq Range(Kinds)
<1>1. Len(Kinds) = 8 /\ DOMAIN Kinds = 1..8
  BY DEF Kinds
<1>2. Kinds[7] = "boundless_seal" /\ Kinds[8] = "bitvm2_graph"
  BY DEF Kinds
<1> QED
  BY <1>1, <1>2 DEF Range

LEMMA CharsOfText ==
  /\ {"v", "/", "/releases/download/", "elsewhere"} \cup Range(Kinds) \subseteq Chars
  /\ Names \cup Repositories \cup {Repository} \subseteq Seq(Chars)
  /\ << >> \in Seq(Chars)
  /\ \A c \in Chars : <<c>> \in Seq(Chars)
<1>1. {"v", "/", "/releases/download/", "elsewhere"} \cup Range(Kinds) \subseteq Chars
  BY DEF Chars
<1>2. << >> \in Seq(Chars) /\ \A c \in Chars : <<c>> \in Seq(Chars)
  OBVIOUS
<1> QED
  BY <1>1, <1>2, TextAssumption

LEMMA UrlTyped ==
  ASSUME NEW a, a.repository \in Seq(Chars), a.tag \in Seq(Chars), a.file \in Seq(Chars)
  PROVE  ReleaseUrl(a) \in Seq(Chars)
<1>1. <<"/">> \in Seq(Chars) /\ <<"/releases/download/">> \in Seq(Chars)
  BY CharsOfText
<1> DEFINE slash == <<"/">>
           path == <<"/releases/download/">>
<1> HIDE DEF slash, path
<1>2. a.repository \o path \o a.tag \o slash \o a.file \in Seq(Chars)
  BY <1>1 DEF slash, path
<1> QED
  BY <1>2 DEF ReleaseUrl, slash, path

LEMMA ArtifactTyped ==
  ASSUME NEW kind \in Range(Kinds), NEW sha256 \in Hashes, NEW len \in Nat
  PROVE  Artifact(kind, sha256, len) \in Artifacts
<1> DEFINE a == [kind |-> kind, repository |-> Repository, commit |-> "hex",
                 tag |-> <<"v">>, file |-> <<kind>>, url |-> << >>,
                 sha256 |-> sha256, len |-> len]
<1>1. /\ Repository \in Seq(Chars) /\ <<"v">> \in Seq(Chars)
      /\ <<kind>> \in Seq(Chars) /\ << >> \in Seq(Chars)
  BY CharsOfText
<1>2. a \in Artifacts
  BY <1>1 DEF Artifacts, Commits
<1>3. ReleaseUrl(a) \in Seq(Chars)
  BY <1>1, UrlTyped
<1>4. Artifact(kind, sha256, len) = [a EXCEPT !.url = ReleaseUrl(a)]
  BY DEF Artifact
<1> HIDE DEF a
<1> QED
  BY <1>2, <1>3, <1>4 DEF Artifacts

LEMMA HashesTyped ==
  /\ \A name \in Range(Kinds) \cup {"seal", "graph", "other", "zero"} :
       \A bytes \in Seq(Byte) : Sha256(name, bytes) \in Hashes
  /\ NoHash \in Hashes /\ Graph \in Hashes /\ Sha256("other", << >>) \in Hashes
<1>1. \A name \in Range(Kinds) \cup {"seal", "graph", "other", "zero"} :
        \A bytes \in Seq(Byte) : Sha256(name, bytes) \in Hashes
  BY DEF Sha256, Hashes
<1>2. << >> \in Seq(Byte)
  OBVIOUS
<1> QED
  BY <1>1, <1>2 DEF NoHash, Graph

LEMMA ArtifactsForTyped ==
  ASSUME NEW receipt \in ReceiptSet
  PROVE  /\ ArtifactsFor(receipt) \in Seq(Artifacts)
         /\ Len(ArtifactsFor(receipt)) = 8
<1>1. SealOf(receipt) \in Seq(Byte)
  BY DigestAssumption DEF SealOf, ReceiptSet
<1>2. Len(Selector) + ProofLen \in Nat
  BY DigestAssumption, LimitsAssumption
<1>3. ASSUME NEW i \in 1..8 PROVE ArtifactsFor(receipt)[i] \in Artifacts
  <2>1. Kinds[i] \in Range(Kinds)
    BY KindsTyped
  <2>2. /\ Sha256("seal", SealOf(receipt)) \in Hashes
        /\ Sha256(Kinds[i], << >>) \in Hashes /\ Graph \in Hashes
    <3>1. << >> \in Seq(Byte)
      OBVIOUS
    <3>2. \A name \in Range(Kinds) \cup {"seal", "graph", "other", "zero"} :
            \A bytes \in Seq(Byte) : Sha256(name, bytes) \in Hashes
      BY HashesTyped
    <3> QED
      BY <1>1, <2>1, <3>1, <3>2, HashesTyped
  <2>3. /\ Artifact(Kinds[i], Sha256("seal", SealOf(receipt)), Len(Selector) + ProofLen)
             \in Artifacts
        /\ Artifact(Kinds[i], Graph, 9) \in Artifacts
        /\ Artifact(Kinds[i], Sha256(Kinds[i], << >>), 1) \in Artifacts
    BY <1>2, <2>1, <2>2, ArtifactTyped
  <2> QED
    BY <2>3, KindsTyped DEF ArtifactsFor
<1>4. ArtifactsFor(receipt) = [i \in 1..8 |-> ArtifactsFor(receipt)[i]]
  BY KindsTyped DEF ArtifactsFor
<1> QED
  BY <1>3, <1>4

LEMMA RefiledTyped ==
  ASSUME NEW a \in Artifacts, NEW b \in Refiled(a)
  PROVE  b \in Artifacts
<1> DEFINE at(r) == [a EXCEPT !.repository = r]
           as(names) == [a EXCEPT !.tag = names[1], !.file = names[2]]
           moved == {at(r) : r \in Repositories} \cup {as(names) : names \in Names \X Names}
           filed(c) == [c EXCEPT !.url = ReleaseUrl(c)]
           replaced == With(a, [commit |-> {"main"}, url |-> {<<"elsewhere">>},
                                len |-> {0}, sha256 |-> {NoHash}])
<1>1. b \in {filed(c) : c \in moved} \cup replaced
  BY DEF Refiled
<1>2. CASE b \in {filed(c) : c \in moved}
  <2>1. ASSUME NEW r \in Repositories PROVE at(r) \in Artifacts
    BY CharsOfText DEF Artifacts
  <2>2. ASSUME NEW names \in Names \X Names PROVE as(names) \in Artifacts
    BY CharsOfText DEF Artifacts
  <2>3. ASSUME NEW c \in Artifacts PROVE filed(c) \in Artifacts
    <3>1. ReleaseUrl(c) \in Seq(Chars)
      BY UrlTyped DEF Artifacts
    <3> QED
      BY <3>1 DEF Artifacts
  <2> HIDE DEF at, as, filed
  <2>4. \A c \in moved : c \in Artifacts
    BY <2>1, <2>2, Zenon
  <2> HIDE DEF moved
  <2> QED
    BY <1>2, <2>3, <2>4
<1>3. CASE b \in replaced
  <2> DEFINE alternatives == [commit |-> {"main"}, url |-> {<<"elsewhere">>}, len |-> {0},
                              sha256 |-> {NoHash}]
  <2>1. PICK part \in DOMAIN alternatives :
          \E v \in alternatives[part] : b = [a EXCEPT ![part] = v]
    <3> HIDE DEF alternatives
    <3> QED
      BY <1>3, WithPart DEF alternatives
  <2>2. PICK v \in alternatives[part] : b = [a EXCEPT ![part] = v]
    BY <2>1
  <2>3. <<"elsewhere">> \in Seq(Chars) /\ NoHash \in Hashes /\ "main" \in Commits
    BY CharsOfText, HashesTyped DEF Commits
  <2>4. CASE part = "commit"
    BY <2>2, <2>3, <2>4 DEF Artifacts
  <2>5. CASE part = "url"
    <3>1. b = [a EXCEPT !.url = <<"elsewhere">>]
      BY <2>2, <2>5
    <3> DEFINE url == <<"elsewhere">>
    <3> HIDE DEF url
    <3>2. url \in Seq(Chars) /\ b = [a EXCEPT !.url = url]
      BY <2>3, <3>1 DEF url
    <3> QED
      BY ONLY <3>2, a \in Artifacts DEF Artifacts
  <2>6. CASE part = "len"
    <3>1. b = [a EXCEPT !.len = 0]
      BY <2>2, <2>6
    <3> QED
      BY ONLY <3>1, a \in Artifacts DEF Artifacts
  <2>7. CASE part = "sha256"
    BY <2>2, <2>3, <2>7 DEF Artifacts
  <2> QED
    BY <2>4, <2>5, <2>6, <2>7
<1> HIDE DEF at, as, filed, moved, replaced
<1> QED
  BY <1>1, <1>2, <1>3

LEMMA ChangedTyped ==
  ASSUME NEW a \in Artifacts
  PROVE  /\ [a EXCEPT !.sha256 = Sha256("other", << >>)] \in Artifacts
         /\ [a EXCEPT !.len = 1] \in Artifacts
         /\ \A b \in Artifacts : [a EXCEPT !.kind = b.kind] \in Artifacts
<1>1. Sha256("other", << >>) \in Hashes
  BY HashesTyped
<1> QED
  BY <1>1 DEF Artifacts

LEMMA ReplacedTyped ==
  ASSUME NEW A, NEW s \in Seq(A), NEW i \in 1..Len(s), NEW a \in A
  PROVE  [s EXCEPT ![i] = a] \in Seq(A)
  BY ExceptSeq

LEMMA ArtifactListsTyped ==
  ASSUME NEW arts \in Seq(Artifacts), Len(arts) = 8, NEW new \in ArtifactLists(arts)
  PROVE  new \in Seq(Artifacts)
<1> DEFINE A == Artifacts
           other(a) == [a EXCEPT !.sha256 = Sha256("other", << >>)]
           short(a) == [a EXCEPT !.len = 1]
           renamed(a, b) == [a EXCEPT !.kind = b.kind]
<1>1. /\ \A a \in A : other(a) \in A /\ short(a) \in A
      /\ \A a, b \in A : renamed(a, b) \in A
      /\ \A a \in A : \A b \in Refiled(a) : b \in A
  BY ChangedTyped, RefiledTyped
<1>2. arts \in Seq(A) /\ Len(arts) = 8 /\ DOMAIN arts = 1..8
  OBVIOUS
<1>3. new \in {Reverse(arts), Tail(arts)}
        \cup {Append(arts, other(arts[i])) : i \in {7, 8}}
        \cup {[arts EXCEPT ![i] = renamed(arts[2], arts[1])] : i \in {2}}
        \cup {[arts EXCEPT ![i] = other(arts[i])] : i \in {7, 8}}
        \cup {[arts EXCEPT ![7] = short(arts[7])]}
        \cup {[arts EXCEPT ![1] = a] : a \in Refiled(arts[1])}
  BY <1>2 DEF ArtifactLists
<1> HIDE DEF A, other, short, renamed
<1>4. \A i \in 1..8 : arts[i] \in A
  BY <1>2, ElementOfSeq
<1>5. Reverse(arts) \in Seq(A)
  <2>1. \A i \in 1..8 : arts[(8 - i) + 1] \in A
    BY <1>4
  <2>2. Reverse(arts) = [i \in 1..8 |-> arts[(8 - i) + 1]]
    BY <1>2 DEF Reverse
  <2> QED
    BY <2>1, <2>2
<1>6. Tail(arts) \in Seq(A)
  <2>1. Len(arts) # 0 /\ arts \in Seq(A)
    BY <1>2
  <2> QED
    BY ONLY <2>1, EmptySeq, TailTyped
<1>7. \A i \in 1..8 : \A a \in A : [arts EXCEPT ![i] = a] \in Seq(A)
  BY <1>2, ReplacedTyped
<1>8. \A i \in {7, 8} : other(arts[i]) \in A
  BY <1>1, <1>4
<1>9. renamed(arts[2], arts[1]) \in A /\ short(arts[7]) \in A
  BY <1>1, <1>4
<1>10. \A i \in {7, 8} : Append(arts, other(arts[i])) \in Seq(A)
  BY <1>2, <1>8, AppendProperties
<1>11. \A i \in {2} : [arts EXCEPT ![i] = renamed(arts[2], arts[1])] \in Seq(A)
  BY <1>7, <1>9
<1>12. \A i \in {7, 8} : [arts EXCEPT ![i] = other(arts[i])] \in Seq(A)
  BY <1>7, <1>8
<1>13. [arts EXCEPT ![7] = short(arts[7])] \in Seq(A)
  BY <1>7, <1>9
<1>14. \A a \in Refiled(arts[1]) : [arts EXCEPT ![1] = a] \in Seq(A)
  BY <1>1, <1>4, <1>7
<1>15. new \in Seq(A)
  BY <1>3, <1>5, <1>6, <1>10, <1>11, <1>12, <1>13, <1>14
<1> QED
  BY <1>15 DEF A

LEMMA ParamsForTyped ==
  ASSUME NEW receipt \in ReceiptSet
  PROVE  ParamsFor(receipt) \in ParamsSet
<1>1. /\ Pin \in Digests /\ receipt.journal \in Digests /\ receipt.claim \in Digests
      /\ "signet" \in BitcoinNetworks /\ "hex" \in Commits /\ Graph \in Hashes
      /\ ArtifactsFor(receipt) \in Seq(Artifacts)
  BY ZeroAndPin, HashesTyped, ArtifactsForTyped DEF ReceiptSet, BitcoinNetworks, Commits
<1> DEFINE request == [chain |-> "sepolia", market |-> Pin, id |-> Pin, commit |-> "hex"]
<1>2. request \in Requests
  BY <1>1 DEF Requests
<1> HIDE DEF request
<1>3. [network |-> "signet", nonce |-> Pin, statement |-> receipt.journal,
       image |-> Pin, claim |-> receipt.claim, request |-> request,
       verifyingKey |-> Pin, graph |-> Graph, inputCount |-> 1,
       scalar |-> receipt.claim, artifacts |-> ArtifactsFor(receipt)] \in ParamsSet
  BY <1>1, <1>2 DEF ParamsSet
<1> QED
  BY <1>3 DEF ParamsFor, request

LEMMA RequestsTyped ==
  ASSUME NEW q \in Requests, NEW alt, NEW new \in With(q, alt),
         alt = [chain |-> {"base sepolia", "mainnet"},
                         market |-> {Zero}, id |-> {Zero}, commit |-> {"main"}]
  PROVE  new \in Requests
<1>1. \E part \in DOMAIN alt :
        \E v \in alt[part] : new = [q EXCEPT ![part] = v]
  BY ONLY WithPart
<1>2. PICK part \in DOMAIN alt :
        \E v \in alt[part] : new = [q EXCEPT ![part] = v]
  BY ONLY <1>1
<1>3. PICK v \in alt[part] : new = [q EXCEPT ![part] = v]
  BY <1>2
<1>4. Zero \in Digests /\ "main" \in Commits
  BY ZeroAndPin DEF Commits
<1>5. CASE part = "chain"
  BY <1>3, <1>5 DEF Requests
<1>6. CASE part = "market"
  BY <1>3, <1>4, <1>6 DEF Requests
<1>7. CASE part = "id"
  BY <1>3, <1>4, <1>7 DEF Requests
<1>8. CASE part = "commit"
  BY <1>3, <1>4, <1>8 DEF Requests
<1> QED
  BY <1>5, <1>6, <1>7, <1>8

(* Whatever part of one claim's parameters a caller replaces, they are     *)
(* typed.                                                                  *)
LEMMA ParamsTyped ==
  ASSUME NEW receipt \in ReceiptSet, NEW p \in Params(receipt)
  PROVE  p \in ParamsSet
<1> DEFINE base == ParamsFor(receipt)
           alternatives ==
             [network |-> BitcoinNetworks, nonce |-> {Zero},
              statement |-> Journals, image |-> {Zero}, claim |-> {Zero, Pin},
              request |-> With(base.request, [chain |-> {"base sepolia", "mainnet"},
                                              market |-> {Zero}, id |-> {Zero},
                                              commit |-> {"main"}]),
              verifyingKey |-> {Zero},
              graph |-> {NoHash, Sha256("other", << >>)},
              inputCount |-> {0, 2}, scalar |-> Digests,
              artifacts |-> ArtifactLists(base.artifacts)]
<1>1. p \in With(base, alternatives)
  BY DEF Params
<1>2. base \in ParamsSet
  BY ParamsForTyped
<1>3. base.artifacts = ArtifactsFor(receipt)
  BY DEF ParamsFor
<1>4. /\ {Zero, Pin} \subseteq Digests /\ Journals \subseteq Digests
      /\ {NoHash, Sha256("other", << >>)} \subseteq Hashes
  BY ZeroAndPin, DigestAssumption, HashesTyped
<1>5. ArtifactLists(base.artifacts) \subseteq Seq(Artifacts)
  BY <1>3, ArtifactsForTyped, ArtifactListsTyped
<1>6. alternatives.request \subseteq Requests
  <2>1. base.request \in Requests
    BY <1>2 DEF ParamsSet
  <2> HIDE DEF base
  <2> QED
    BY <2>1, RequestsTyped
<1> HIDE DEF base
<1>7. PICK part \in DOMAIN alternatives :
        \E v \in alternatives[part] : p = [base EXCEPT ![part] = v]
  <2> HIDE DEF alternatives
  <2> QED
    BY <1>1, WithPart
<1>8. PICK v \in alternatives[part] : p = [base EXCEPT ![part] = v]
  BY <1>7
<1>9. CASE part \in {"nonce", "image", "claim", "verifyingKey", "statement", "scalar"}
  <2>1. v \in Digests
    <3>1. CASE part = "nonce"
      BY <1>4, <1>8, <3>1
    <3>2. CASE part = "image"
      BY <1>4, <1>8, <3>2
    <3>3. CASE part = "verifyingKey"
      BY <1>4, <1>8, <3>3
    <3>4. CASE part = "claim"
      BY <1>4, <1>8, <3>4
    <3>5. CASE part = "statement"
      BY <1>4, <1>8, <3>5
    <3>6. CASE part = "scalar"
      BY <1>8, <3>6
    <3> QED
      BY <1>9, <3>1, <3>4, <3>5, <3>6, <3>2, <3>3
  <2> HIDE DEF alternatives
  <2> QED
    BY <1>2, <1>8, <1>9, <2>1 DEF ParamsSet
<1>10. CASE part = "network"
  BY <1>2, <1>8, <1>10 DEF ParamsSet
<1>11. CASE part = "request"
  <2>1. v \in Requests
    BY <1>6, <1>8, <1>11
  <2> HIDE DEF alternatives
  <2> QED
    BY <1>2, <1>8, <1>11, <2>1 DEF ParamsSet
<1>12. CASE part = "graph"
  <2>1. v \in Hashes
    BY <1>4, <1>8, <1>12
  <2> HIDE DEF alternatives
  <2> QED
    BY <1>2, <1>8, <1>12, <2>1 DEF ParamsSet
<1>13. CASE part = "inputCount"
  <2>1. v \in Nat
    BY <1>8, <1>13
  <2> HIDE DEF alternatives
  <2> QED
    BY <1>2, <1>8, <1>13, <2>1 DEF ParamsSet
<1>14. CASE part = "artifacts"
  <2>1. v \in Seq(Artifacts)
    BY <1>5, <1>8, <1>14
  <2> HIDE DEF alternatives
  <2> QED
    BY <1>2, <1>8, <1>14, <2>1 DEF ParamsSet
<1> QED
  BY <1>9, <1>10, <1>11, <1>12, <1>13, <1>14

-----------------------------------------------------------------------------
(* The steps keep everything typed. *)
LEMMA TypedInductive ==
  ASSUME HeldTyped, [Next]_vars
  PROVE  HeldTyped'
<1> USE DEF HeldTyped
<1>1. ASSUME NEW journal \in Journals, NEW proof \in RawProofs, Deliver(journal, proof)
      PROVE  HeldTyped'
  <2>1. /\ journal \in Digests /\ ClaimDigest[journal] \in Digests
        /\ proof \in Seq(Byte) \ {<< >>}
    BY DigestAssumption
  <2>2. Selector \o proof \in Sealed
    BY <2>1 DEF Sealed
  <2>3. [seal |-> Selector \o proof, journal |-> journal,
         claim |-> ClaimDigest[journal]] \in DeliverySet
    BY <2>1, <2>2 DEF DeliverySet
  <2> QED
    BY <1>1, <2>3 DEF Deliver
<1>2. ASSUME NEW d \in delivered, ParseSeal(d)
      PROVE  HeldTyped'
  <2>1. PICK s \in SealSubmissions(d) :
          /\ SealParses(s.seal, s.journal, s.claim, s.inputs)
          /\ Parsed(Receipt(s.journal, s.claim, ProofOf(s.seal)))
    BY <1>2 DEF ParseSeal
  <2>2. Receipt(s.journal, s.claim, ProofOf(s.seal)) \in ReceiptSet
    BY <2>1, ParsedSealTyped
  <2> QED
    BY <2>1, <2>2 DEF Parsed
<1>3. ASSUME NEW d \in delivered, ParseParts(d)
      PROVE  HeldTyped'
  <2>1. PICK s \in PartSubmissions(d) :
          /\ PartsParse(s.selector, s.proof, s.journal, s.claim, s.inputs)
          /\ Parsed(Receipt(s.journal, s.claim, s.proof))
    BY <1>3 DEF ParseParts
  <2>2. Receipt(s.journal, s.claim, s.proof) \in ReceiptSet
    BY <2>1, ParsedPartsTyped
  <2> QED
    BY <2>1, <2>2 DEF Parsed
<1>4. ASSUME NEW receipt \in receipts, NEW other \in receipts, New(receipt, other)
      PROVE  HeldTyped'
  <2>1. PICK p \in Params(other) :
          manifests' = manifests \cup {[params |-> p, receipt |-> receipt,
                                        manifest |-> Manifest(p, receipt)]}
    BY <1>4 DEF New
  <2>2. p \in ParamsSet
    BY ParamsTyped
  <2> QED
    BY <1>4, <2>1, <2>2 DEF New
<1>5. CASE UNCHANGED vars
  BY <1>5 DEF vars
<1> QED
  BY <1>1, <1>2, <1>3, <1>4, <1>5 DEF Next

-----------------------------------------------------------------------------
(* The sort *)

(* Eight artifacts of eight kinds: as many positions as kinds.             *)
LEMMA PositionsMatch ==
  ASSUME NEW n \in Nat, NEW m \in Nat, NEW key \in Bijection(1..n, 1..m)
  PROVE  n = m
<1>1. ExistsBijection(1..n, 1..m)
  BY DEF ExistsBijection
<1>2. /\ IsFiniteSet(1..n)
      /\ Cardinality(1..n) = IF 1 > n THEN 0 ELSE n - 1 + 1
      /\ Cardinality(1..m) = IF 1 > m THEN 0 ELSE m - 1 + 1
  BY FS_Interval
<1>3. Cardinality(1..m) = Cardinality(1..n)
  BY <1>1, <1>2, FS_Bijection
<1> QED
  BY <1>2, <1>3

(* As many keys are smaller as the key says.                               *)
LEMMA SmallerKeys ==
  ASSUME NEW n \in Nat, NEW m \in Nat, NEW key \in Bijection(1..n, 1..m),
         NEW i \in 1..n
  PROVE  Cardinality({j \in 1..n : key[j] < key[i]}) = key[i] - 1
<1> DEFINE S == {j \in 1..n : key[j] < key[i]}
           l == key[i] - 1
           smaller == [j \in S |-> key[j]]
<1>1. /\ key \in [1..n -> 1..m]
      /\ \A j, k \in 1..n : key[j] = key[k] => j = k
      /\ \A k \in 1..m : \E j \in 1..n : key[j] = k
  BY DEF Bijection, Injection, Surjection, IsInjective
<1>2. key[i] \in 1..m /\ l \in Nat
  BY <1>1
<1>3. smaller \in Bijection(S, 1..l)
  <2>1. smaller \in [S -> 1..l]
    <3>1. ASSUME NEW j \in S PROVE key[j] \in 1..l
      BY <1>1, <1>2
    <3> QED
      BY <3>1
  <2>2. \A j, k \in S : smaller[j] = smaller[k] => j = k
    BY <1>1
  <2>3. ASSUME NEW k \in 1..l PROVE \E j \in S : smaller[j] = k
    <3>1. k \in 1..m /\ k < key[i]
      BY <1>2
    <3>2. PICK j \in 1..n : key[j] = k
      BY <1>1, <3>1
    <3>3. j \in S /\ smaller[j] = k
      BY <3>1, <3>2
    <3> HIDE DEF S, smaller
    <3> QED
      BY <3>3
  <2> HIDE DEF S, smaller
  <2> QED
    BY <2>1, <2>2, <2>3, Fun_IsBij
<1>4. ExistsBijection(S, 1..l)
  BY <1>3 DEF ExistsBijection
<1>5. IsFiniteSet(S)
  <2>1. S \in SUBSET (1..n)
    OBVIOUS
  <2>2. IsFiniteSet(1..n)
    BY FS_Interval
  <2> HIDE DEF S
  <2> QED
    BY <2>1, <2>2, FS_Subset
<1> HIDE DEF S, smaller, l
<1>6. Cardinality(1..l) = IF 1 > l THEN 0 ELSE l - 1 + 1
  BY <1>2, FS_Interval
<1>7. Cardinality(1..l) = Cardinality(S)
  BY <1>4, <1>5, FS_Bijection
<1>8. Cardinality(S) = l
  BY <1>2, <1>6, <1>7
<1> QED
  BY <1>8 DEF S, l

(* Each kind has one place in the order.                                   *)
LEMMA KindPlaces ==
  ASSUME NEW a, a.kind \in Range(Kinds)
  PROVE  /\ KindIndex(a) \in 1..8
         /\ Kinds[KindIndex(a)] = a.kind
         /\ \A k \in 1..8 : Kinds[k] = a.kind => k = KindIndex(a)
<1>1. \E k \in 1..8 : Kinds[k] = a.kind
  BY KindsTyped DEF Range
<1>2. KindIndex(a) \in 1..8 /\ Kinds[KindIndex(a)] = a.kind
  BY <1>1, KindsTyped DEF KindIndex
<1>3. ASSUME NEW k \in 1..8, NEW l \in 1..8, Kinds[k] = Kinds[l] PROVE k = l
  <2>1. /\ k \in {1, 2, 3, 4, 5, 6, 7, 8}
        /\ l \in {1, 2, 3, 4, 5, 6, 7, 8}
    OBVIOUS
  <2> QED
    BY <1>3, <2>1 DEF Kinds
<1> QED
  BY <1>2, <1>3

(* The sort puts one artifact of each kind at the kind's place.            *)
LEMMA Sorted ==
  ASSUME NEW arts \in Seq(Artifacts), ArtifactsComplete(arts)
  PROVE  /\ Len(arts) = 8
         /\ SortByKind(arts) \in Seq(Artifacts)
         /\ Len(SortByKind(arts)) = 8
         /\ \A k \in 1..8 : /\ SortByKind(arts)[k].kind = Kinds[k]
                            /\ \E i \in 1..8 : SortByKind(arts)[k] = arts[i]
<1> DEFINE n == Len(arts)
           key == [i \in 1..n |-> KindIndex(arts[i])]
<1>1. n \in Nat /\ DOMAIN arts = 1..n
  OBVIOUS
<1>2. ASSUME NEW i \in 1..n
      PROVE  arts[i] \in Artifacts /\ arts[i].kind \in Range(Kinds)
  <2>1. arts[i] \in Artifacts
    BY <1>1, ElementOfSeq
  <2> QED
    BY <2>1 DEF Artifacts
<1>3. ASSUME NEW i \in 1..n
      PROVE  key[i] \in 1..8 /\ Kinds[key[i]] = arts[i].kind
  BY <1>2, KindPlaces
<1>4. key \in [1..n -> 1..8]
  BY <1>3
<1>5. ASSUME NEW i \in 1..n, NEW j \in 1..n, key[i] = key[j] PROVE i = j
  <2>1. arts[i].kind = arts[j].kind
    BY <1>3, <1>5
  <2> QED
    BY <1>1, <2>1 DEF ArtifactsComplete, NoDuplicates
<1>6. ASSUME NEW k \in 1..8 PROVE \E i \in 1..n : key[i] = k
  <2>1. PICK i \in 1..n : arts[i].kind = Kinds[k]
    BY <1>1, KindsTyped DEF ArtifactsComplete
  <2>2. key[i] = k
    BY <1>2, <2>1, KindPlaces
  <2> QED
    BY <2>2
<1> HIDE DEF n, key
<1>7. key \in Bijection(1..n, 1..8)
  BY <1>4, <1>5, <1>6, Fun_IsBij
<1>8. n = 8
  BY <1>1, <1>7, PositionsMatch
<1> DEFINE Preceding(i) == {j \in 1..8 : ComesBefore(arts, j, i)}
           place(k) == CHOOSE i \in 1..8 : Cardinality(Preceding(i)) = k - 1
<1>9. ASSUME NEW i \in 1..8 PROVE Cardinality(Preceding(i)) = key[i] - 1
  <2>1. ASSUME NEW j \in 1..8
        PROVE  ComesBefore(arts, j, i) <=> key[j] < key[i]
    <3>1. key[j] = KindIndex(arts[j]) /\ key[i] = KindIndex(arts[i])
      BY <1>8 DEF key
    <3>2. key[j] \in 1..8 /\ key[i] \in 1..8
      BY <1>3, <1>8
    <3>3. key[j] = key[i] => j = i
      BY <1>5, <1>8
    <3> QED
      BY <3>1, <3>2, <3>3 DEF ComesBefore
  <2>2. Preceding(i) = {j \in 1..n : key[j] < key[i]}
    BY <1>8, <2>1
  <2>3. i \in 1..n
    BY <1>8
  <2>4. Cardinality({j \in 1..n : key[j] < key[i]}) = key[i] - 1
    BY <1>1, <1>7, <2>3, SmallerKeys
  <2> QED
    BY <2>2, <2>4
<1>10. ASSUME NEW k \in 1..8
      PROVE  place(k) \in 1..8 /\ key[place(k)] = k
  <2>1. PICK i \in 1..8 : key[i] = k
    BY <1>6, <1>8
  <2>2. Cardinality(Preceding(i)) = k - 1
    BY <1>9, <2>1
  <2> HIDE DEF Preceding
  <2>3. place(k) \in 1..8 /\ Cardinality(Preceding(place(k))) = k - 1
    BY <2>2
  <2> HIDE DEF place
  <2>4. key[place(k)] - 1 = k - 1 /\ key[place(k)] \in Int
    <3>1. Cardinality(Preceding(place(k))) = key[place(k)] - 1
      BY ONLY <1>9, <2>3
    <3>2. key[place(k)] \in Int
      BY ONLY <1>3, <1>8, <2>3
    <3> QED
      BY ONLY <2>3, <3>1, <3>2
  <2> QED
    BY <2>3, <2>4
<1>11. SortByKind(arts) = [k \in 1..8 |-> arts[place(k)]]
  BY <1>1, <1>8 DEF SortByKind
<1> HIDE DEF place
<1>12. ASSUME NEW k \in 1..8
       PROVE  /\ arts[place(k)] \in Artifacts
              /\ arts[place(k)].kind = Kinds[k]
  BY <1>2, <1>3, <1>8, <1>10
<1>13. SortByKind(arts) \in Seq(Artifacts) /\ Len(SortByKind(arts)) = 8
  BY <1>11, <1>12
<1> QED
  BY <1>8, <1>10, <1>11, <1>12, <1>13 DEF n

-----------------------------------------------------------------------------
(* URLs *)

(* Where the elements of two sequences put together are.                   *)
Joins(u, s, t, S) ==
  /\ u \in Seq(S)
  /\ Len(s) \in Nat /\ Len(t) \in Nat
  /\ Len(u) = Len(s) + Len(t)
  /\ \A i \in 1..Len(s) : u[i] = s[i]
  /\ \A i \in 1..Len(t) : u[Len(s) + i] = t[i]

LEMMA Joined ==
  ASSUME NEW S, NEW s \in Seq(S), NEW t \in Seq(S)
  PROVE  Joins(s \o t, s, t, S)
  BY DEF Joins

(* Where the parts of a URL are in it.                                     *)
Shape(url, repository, p, tag, q, file) ==
  LET r == Len(repository)
      t == Len(tag)
      f == Len(file) IN
  /\ r \in Nat /\ t \in Nat /\ f \in Nat
  /\ Len(url) = r + 1 + t + 1 + f
  /\ \A i \in 1..r : url[i] = repository[i]
  /\ url[r + 1] = p
  /\ \A i \in 1..t : url[r + 1 + i] = tag[i]
  /\ url[r + 1 + t + 1] = q
  /\ \A i \in 1..f : url[r + 1 + t + 1 + i] = file[i]

LEMMA UrlShape ==
  ASSUME NEW S, NEW repository \in Seq(S), NEW tag \in Seq(S), NEW file \in Seq(S),
         NEW p \in S, NEW q \in S
  PROVE  Shape(repository \o <<p>> \o tag \o <<q>> \o file,
               repository, p, tag, q, file)
<1> DEFINE P == <<p>>
           Q == <<q>>
           one == repository \o P
           two == one \o tag
           three == two \o Q
           url == three \o file
           r == Len(repository)
           t == Len(tag)
           f == Len(file)
<1>1. P \in Seq(S) /\ Q \in Seq(S) /\ Len(P) = 1 /\ P[1] = p /\ Len(Q) = 1 /\ Q[1] = q
  OBVIOUS
<1> HIDE DEF P, Q
<1>2. Joins(one, repository, P, S)
  BY <1>1, Joined
<1> HIDE DEF one
<1>3. one \in Seq(S)
  BY <1>2 DEF Joins
<1>4. Joins(two, one, tag, S)
  BY <1>3, Joined
<1> HIDE DEF two
<1>5. two \in Seq(S)
  BY <1>4 DEF Joins
<1>6. Joins(three, two, Q, S)
  BY <1>1, <1>5, Joined
<1> HIDE DEF three
<1>7. three \in Seq(S)
  BY <1>6 DEF Joins
<1>8. Joins(url, three, file, S)
  BY <1>7, Joined
<1>9. /\ r \in Nat /\ t \in Nat /\ f \in Nat
      /\ \A i \in 1..r : one[i] = repository[i]
      /\ \A i \in 1..Len(P) : one[r + i] = P[i]
      /\ \A i \in 1..Len(one) : two[i] = one[i]
      /\ \A i \in 1..t : two[Len(one) + i] = tag[i]
      /\ \A i \in 1..Len(two) : three[i] = two[i]
      /\ \A i \in 1..Len(Q) : three[Len(two) + i] = Q[i]
      /\ \A i \in 1..Len(three) : url[i] = three[i]
      /\ \A i \in 1..f : url[Len(three) + i] = file[i]
      /\ Len(one) = r + Len(P) /\ Len(two) = Len(one) + t
      /\ Len(three) = Len(two) + Len(Q) /\ Len(url) = Len(three) + f
  BY <1>2, <1>4, <1>6, <1>8 DEF Joins
<1> HIDE DEF url, r, t, f
<1>10. Len(one) = r + 1 /\ Len(two) = r + 1 + t /\ Len(three) = r + 1 + t + 1
  BY <1>1, <1>9
<1>11. ASSUME NEW i \in 1..(r + 1 + t) PROVE url[i] = two[i]
  <2>1. i \in 1..(r + 1 + t + 1)
    BY <1>9
  <2> QED
    BY <1>9, <1>10, <2>1
<1>12. ASSUME NEW i \in 1..(r + 1) PROVE url[i] = one[i]
  <2>1. i \in 1..(r + 1 + t)
    BY <1>9
  <2> QED
    BY <1>9, <1>10, <1>11, <2>1
<1>13. ASSUME NEW i \in 1..r PROVE url[i] = repository[i]
  <2>1. i \in 1..(r + 1)
    BY <1>9
  <2> QED
    BY <1>9, <1>12, <2>1
<1>14. url[r + 1] = p
  <2>1. r + 1 \in 1..(r + 1) /\ 1 \in 1..Len(P)
    BY <1>1, <1>9
  <2>2. url[r + 1] = one[r + 1]
    BY <1>12, <2>1
  <2>3. one[r + 1] = P[1]
    BY <1>9, <2>1
  <2> QED
    BY <1>1, <2>2, <2>3
<1>15. ASSUME NEW i \in 1..t PROVE url[r + 1 + i] = tag[i]
  <2>1. r + 1 + i \in 1..(r + 1 + t)
    BY <1>9
  <2>2. url[r + 1 + i] = two[r + 1 + i]
    BY <1>11, <2>1
  <2>3. two[r + 1 + i] = tag[i]
    BY <1>9, <1>10
  <2> QED
    BY <2>2, <2>3
<1>16. url[r + 1 + t + 1] = q
  <2>1. r + 1 + t + 1 \in 1..(r + 1 + t + 1) /\ 1 \in 1..Len(Q)
    BY <1>1, <1>9
  <2>2. url[r + 1 + t + 1] = three[r + 1 + t + 1]
    BY <1>9, <1>10, <2>1
  <2>3. three[r + 1 + t + 1] = Q[1]
    BY <1>9, <1>10, <2>1
  <2> QED
    BY <1>1, <2>2, <2>3
<1>17. ASSUME NEW i \in 1..f PROVE url[r + 1 + t + 1 + i] = file[i]
  BY <1>9, <1>10
<1>18. Len(url) = r + 1 + t + 1 + f
  BY <1>9, <1>10
<1>19. Shape(url, repository, p, tag, q, file)
  BY <1>13, <1>14, <1>15, <1>16, <1>17, <1>18, <1>9 DEF Shape, r, t, f
<1> QED
  BY <1>19 DEF url, three, two, one, P, Q

(* A repository's URL has a prefix, slashes and component characters only. *)
LEMMA NoReleasePath ==
  ASSUME NEW url \in Seq(Chars), IsRepository(url), NEW i \in 1..Len(url)
  PROVE  url[i] # "/releases/download/"
<1>1. PICK slash \in DOMAIN url :
        /\ url[slash] = "/"
        /\ IsSafeReleaseComponent(SubSeq(url, 2, slash - 1))
        /\ IsSafeReleaseComponent(SubSeq(url, slash + 1, Len(url)))
  BY DEF IsRepository
<1>2. url[1] = "https://github.com/"
  BY DEF IsRepository
<1>3. slash \in 1..Len(url) /\ Len(url) \in Nat
  OBVIOUS
<1>4. CASE i = 1
  BY <1>2, <1>4
<1>5. CASE i = slash
  BY <1>1, <1>5
<1>6. CASE 1 < i /\ i < slash
  <2> DEFINE owner == SubSeq(url, 2, slash - 1)
  <2>1. owner = [j \in 1..(slash - 2) |-> url[j + 1]]
    BY <1>3
  <2>2. i - 1 \in DOMAIN owner /\ owner[i - 1] = url[i]
    BY <1>3, <1>6, <2>1
  <2> HIDE DEF owner
  <2> QED
    BY <1>1, <2>2 DEF owner, IsSafeReleaseComponent, IsComponentChar
<1>7. CASE slash < i
  <2> DEFINE name == SubSeq(url, slash + 1, Len(url))
  <2>1. name = [j \in 1..(Len(url) - slash) |-> url[j + slash]]
    BY <1>3
  <2>2. i - slash \in DOMAIN name /\ name[i - slash] = url[i]
    <3>1. i - slash \in 1..(Len(url) - slash) /\ (i - slash) + slash = i
      BY ONLY <1>3, <1>7, i \in 1..Len(url)
    <3> HIDE DEF name
    <3> QED
      BY ONLY <2>1, <3>1
  <2> HIDE DEF name
  <2> QED
    BY <1>1, <2>2 DEF name, IsSafeReleaseComponent, IsComponentChar
<1> QED
  BY <1>3, <1>4, <1>5, <1>6, <1>7

(* ... and the first part has no p, the second no q.                       *)
Parted(url, repository, p, tag, q, file, S) ==
  /\ repository \in Seq(S) /\ tag \in Seq(S) /\ file \in Seq(S)
  /\ Shape(url, repository, p, tag, q, file)
  /\ \A i \in 1..Len(repository) : repository[i] # p
  /\ \A i \in 1..Len(tag) : tag[i] # q

LEMMA SameShape ==
  ASSUME NEW S, NEW url, NEW p, NEW q,
         NEW ra, NEW ta, NEW fa, Parted(url, ra, p, ta, q, fa, S),
         NEW rb, NEW tb, NEW fb, Parted(url, rb, p, tb, q, fb, S)
  PROVE  ra = rb /\ ta = tb /\ fa = fb
<1> DEFINE r == Len(ra)
           t == Len(ta)
           f == Len(fa)
           s == Len(rb)
           u == Len(tb)
           g == Len(fb)
<1>1. /\ r \in Nat /\ t \in Nat /\ f \in Nat
      /\ Len(url) = r + 1 + t + 1 + f
      /\ \A i \in 1..r : url[i] = ra[i]
      /\ url[r + 1] = p
      /\ \A i \in 1..t : url[r + 1 + i] = ta[i]
      /\ url[r + 1 + t + 1] = q
      /\ \A i \in 1..f : url[r + 1 + t + 1 + i] = fa[i]
  BY DEF Parted, Shape
<1>2. /\ s \in Nat /\ u \in Nat /\ g \in Nat
      /\ Len(url) = s + 1 + u + 1 + g
      /\ \A i \in 1..s : url[i] = rb[i]
      /\ url[s + 1] = p
      /\ \A i \in 1..u : url[s + 1 + i] = tb[i]
      /\ url[s + 1 + u + 1] = q
      /\ \A i \in 1..g : url[s + 1 + u + 1 + i] = fb[i]
  BY DEF Parted, Shape
<1>3. /\ \A i \in 1..r : ra[i] # p
      /\ \A i \in 1..s : rb[i] # p
      /\ \A i \in 1..t : ta[i] # q
      /\ \A i \in 1..u : tb[i] # q
  BY DEF Parted
<1> HIDE DEF r, t, f, s, u, g
<1>4. r = s
  <2>1. ASSUME r < s PROVE FALSE
    <3>1. r + 1 \in 1..s
      BY <1>1, <1>2, <2>1
    <3> QED
      BY <1>1, <1>2, <1>3, <3>1
  <2>2. ASSUME s < r PROVE FALSE
    <3>1. s + 1 \in 1..r
      BY <1>1, <1>2, <2>2
    <3> QED
      BY <1>1, <1>2, <1>3, <3>1
  <2> QED
    BY <1>1, <1>2, <2>1, <2>2
<1>5. t = u
  <2>1. ASSUME t < u PROVE FALSE
    <3>1. t + 1 \in 1..u /\ s + 1 + (t + 1) = r + 1 + t + 1
      BY <1>1, <1>2, <1>4, <2>1
    <3>2. url[s + 1 + (t + 1)] = tb[t + 1]
      BY <1>2, <3>1
    <3> QED
      BY <1>1, <1>3, <3>1, <3>2
  <2>2. ASSUME u < t PROVE FALSE
    <3>1. u + 1 \in 1..t /\ r + 1 + (u + 1) = s + 1 + u + 1
      BY <1>1, <1>2, <1>4, <2>2
    <3>2. url[r + 1 + (u + 1)] = ta[u + 1]
      BY <1>1, <3>1
    <3> QED
      BY <1>2, <1>3, <3>1, <3>2
  <2> QED
    BY <1>1, <1>2, <2>1, <2>2
<1>6. f = g
  <2>1. r + 1 + t + 1 + f = r + 1 + t + 1 + g
    BY <1>1, <1>2, <1>4, <1>5
  <2> QED
    BY <1>1, <1>2, <2>1
<1>7. ra = rb
  <2>1. \A i \in 1..r : ra[i] = rb[i]
    BY <1>1, <1>2, <1>4
  <2> QED
    BY <1>4, <2>1, SeqEqual DEF Parted, r, s
<1>8. ta = tb
  <2>1. ASSUME NEW i \in 1..t PROVE ta[i] = tb[i]
    <3>1. url[r + 1 + i] = ta[i]
      BY <1>1
    <3>2. url[s + 1 + i] = tb[i]
      BY <1>2, <1>5
    <3> QED
      BY <1>4, <3>1, <3>2
  <2> QED
    BY <1>5, <2>1, SeqEqual DEF Parted, t, u
<1>9. fa = fb
  <2>1. ASSUME NEW i \in 1..f PROVE fa[i] = fb[i]
    <3>1. url[r + 1 + t + 1 + i] = fa[i]
      BY <1>1
    <3>2. url[s + 1 + u + 1 + i] = fb[i]
      BY <1>2, <1>6
    <3> QED
      BY <1>4, <1>5, <3>1, <3>2
  <2> QED
    BY <1>6, <2>1, SeqEqual DEF Parted, f, g
<1> QED
  BY <1>7, <1>8, <1>9

(* Two checked artifacts at one URL are the same file of one release.      *)
LEMMA UrlParts ==
  ASSUME NEW a \in Artifacts, NEW b \in Artifacts,
         ValidateArtifact(a), ValidateArtifact(b), a.url = b.url
  PROVE  /\ a.repository = b.repository
         /\ a.tag = b.tag
         /\ a.file = b.file
<1> DEFINE p == "/releases/download/"
           q == "/"
<1>1. a.url = ReleaseUrl(a) /\ a.url = ReleaseUrl(b)
  BY DEF ValidateArtifact
<1>2. p \in Chars /\ q \in Chars
  BY CharsOfText
<1>3. ASSUME NEW c \in Artifacts, ValidateArtifact(c)
      PROVE  Parted(ReleaseUrl(c), c.repository, p, c.tag, q, c.file, Chars)
  <2>1. IsRepository(c.repository) /\ IsSafeReleaseComponent(c.tag)
    BY <1>3 DEF ValidateArtifact
  <2>2. c.repository \in Seq(Chars) /\ c.tag \in Seq(Chars) /\ c.file \in Seq(Chars)
    BY DEF Artifacts
  <2>3. \A i \in 1..Len(c.tag) : c.tag[i] # q
    BY <2>1, <2>2 DEF IsSafeReleaseComponent, IsComponentChar
  <2>4. \A i \in 1..Len(c.repository) : c.repository[i] # p
    BY <2>1, <2>2, NoReleasePath
  <2>5. Shape(ReleaseUrl(c), c.repository, p, c.tag, q, c.file)
    <3> DEFINE repository == c.repository
               tag == c.tag
               file == c.file
    <3>1. ReleaseUrl(c) = repository \o <<p>> \o tag \o <<q>> \o file
      BY DEF ReleaseUrl
    <3> HIDE DEF repository, tag, file, p, q
    <3>2. repository \in Seq(Chars) /\ tag \in Seq(Chars) /\ file \in Seq(Chars)
      BY <2>2 DEF repository, tag, file
    <3>3. Shape(repository \o <<p>> \o tag \o <<q>> \o file, repository, p, tag, q, file)
      BY <1>2, <3>2, UrlShape
    <3> QED
      BY <3>1, <3>3 DEF repository, tag, file
  <2> QED
    BY <2>2, <2>3, <2>4, <2>5 DEF Parted
<1> HIDE DEF p, q
<1>4. /\ Parted(a.url, a.repository, p, a.tag, q, a.file, Chars)
      /\ Parted(a.url, b.repository, p, b.tag, q, b.file, Chars)
  BY <1>1, <1>3
<1> QED
  BY <1>4, SameShape

-----------------------------------------------------------------------------
(* Lists of the same artifacts *)

(* Find returns the only artifact of a kind.                               *)
LEMMA FindOnly ==
  ASSUME NEW arts \in Seq(Artifacts), NoDuplicates(arts), NEW p \in DOMAIN arts
  PROVE  Find(arts, arts[p].kind) = arts[p]
<1> DEFINE kind == arts[p].kind
           I == {i \in 1..Len(arts) : arts[i].kind = kind}
<1>1. DOMAIN arts = 1..Len(arts) /\ Len(arts) \in Nat
  OBVIOUS
<1>2. I = {p}
  BY <1>1 DEF NoDuplicates
<1>3. Find(arts, kind) = arts[IF I # {} THEN Min(I) ELSE 0]
  BY DEF Find, SelectInSeq
<1> HIDE DEF I, kind
<1>4. Min({p}) = p
  BY <1>1 DEF Min
<1> QED
  BY <1>2, <1>3, <1>4 DEF kind

(* The same artifacts in another order.                                    *)
SameArtifacts(a, b) ==
  /\ \A i \in DOMAIN a : \E j \in DOMAIN b : a[i] = b[j]
  /\ \A j \in DOMAIN b : \E i \in DOMAIN a : a[i] = b[j]

(* new accepts them alike, finds the same seal and graph among them, and   *)
(* sorts them into the same list.                                          *)
LEMMA OrderForgotten ==
  ASSUME NEW a \in Seq(Artifacts), NEW b \in Seq(Artifacts),
         ArtifactsComplete(b), NoDuplicates(a), SameArtifacts(a, b)
  PROVE  /\ ArtifactsComplete(a)
         /\ \A kind \in Range(Kinds) : Find(a, kind) = Find(b, kind)
         /\ SortByKind(a) = SortByKind(b)
<1>1. ArtifactsComplete(a)
  <2>1. ASSUME NEW i \in DOMAIN a PROVE ValidateArtifact(a[i])
    BY DEF SameArtifacts, ArtifactsComplete
  <2>2. ASSUME NEW k \in DOMAIN Kinds
        PROVE  \E i \in DOMAIN a : a[i].kind = Kinds[k]
    <3>1. PICK j \in DOMAIN b : b[j].kind = Kinds[k]
      BY DEF ArtifactsComplete
    <3>2. PICK i \in DOMAIN a : a[i] = b[j]
      BY DEF SameArtifacts
    <3> QED
      BY <3>1, <3>2
  <2> QED
    BY <2>1, <2>2 DEF ArtifactsComplete
<1>2. NoDuplicates(b)
  BY DEF ArtifactsComplete
<1>3. ASSUME NEW kind \in Range(Kinds) PROVE Find(a, kind) = Find(b, kind)
  <2>1. PICK k \in DOMAIN Kinds : kind = Kinds[k]
    BY DEF Range
  <2>2. PICK j \in DOMAIN b : b[j].kind = kind
    BY <2>1 DEF ArtifactsComplete
  <2>3. PICK i \in DOMAIN a : a[i] = b[j]
    BY DEF SameArtifacts
  <2>4. Find(b, kind) = b[j] /\ Find(a, kind) = a[i]
    BY <1>2, <2>2, <2>3, FindOnly
  <2> QED
    BY <2>3, <2>4
<1>4. SortByKind(a) = SortByKind(b)
  <2>1. /\ Len(a) = 8 /\ SortByKind(a) \in Seq(Artifacts) /\ Len(SortByKind(a)) = 8
        /\ \A k \in 1..8 : /\ SortByKind(a)[k].kind = Kinds[k]
                           /\ \E i \in 1..8 : SortByKind(a)[k] = a[i]
    BY <1>1, Sorted
  <2>2. /\ Len(b) = 8 /\ SortByKind(b) \in Seq(Artifacts) /\ Len(SortByKind(b)) = 8
        /\ \A k \in 1..8 : /\ SortByKind(b)[k].kind = Kinds[k]
                           /\ \E i \in 1..8 : SortByKind(b)[k] = b[i]
    BY Sorted
  <2>3. DOMAIN a = 1..8 /\ DOMAIN b = 1..8
    BY <2>1, <2>2
  <2>4. ASSUME NEW k \in 1..8 PROVE SortByKind(a)[k] = SortByKind(b)[k]
    <3>1. PICK i \in 1..8 : SortByKind(a)[k] = a[i]
      BY <2>1
    <3>2. PICK j \in 1..8 : SortByKind(b)[k] = b[j]
      BY <2>2
    <3>3. PICK l \in 1..8 : a[i] = b[l]
      BY <2>3 DEF SameArtifacts
    <3>4. b[l].kind = b[j].kind
      BY <2>1, <2>2, <3>1, <3>2, <3>3, SMTT(30)
    <3>5. l = j
      BY <1>2, <2>3, <3>4 DEF NoDuplicates
    <3> QED
      BY <3>1, <3>2, <3>3, <3>5
  <2> DEFINE sa == SortByKind(a)
             sb == SortByKind(b)
  <2>5. /\ sa \in Seq(Artifacts) /\ sb \in Seq(Artifacts) /\ Len(sa) = Len(sb)
        /\ Len(sa) = 8 /\ \A k \in 1..8 : sa[k] = sb[k]
    BY <2>1, <2>2, <2>4
  <2> HIDE DEF sa, sb
  <2>6. \A k \in 1..Len(sa) : sa[k] = sb[k]
    BY <2>5
  <2>7. sa = sb
    BY <2>5, <2>6, SeqEqual
  <2> QED
    BY <2>7 DEF sa, sb
<1> QED
  BY <1>1, <1>3, <1>4

(* The sorted list is the same artifacts, and so is its reverse.           *)
LEMMA SortedSame ==
  ASSUME NEW arts \in Seq(Artifacts), ArtifactsComplete(arts)
  PROVE  /\ SameArtifacts(SortByKind(arts), arts)
         /\ NoDuplicates(SortByKind(arts))
<1> DEFINE s == SortByKind(arts)
<1>1. /\ Len(arts) = 8 /\ s \in Seq(Artifacts) /\ Len(s) = 8
      /\ \A k \in 1..8 : s[k].kind = Kinds[k] /\ \E i \in 1..8 : s[k] = arts[i]
  BY Sorted
<1> HIDE DEF s
<1>2. DOMAIN arts = 1..8 /\ DOMAIN s = 1..8
  BY <1>1
<1>3. ASSUME NEW i \in 1..8 PROVE \E k \in 1..8 : s[k] = arts[i]
  <2>1. arts[i].kind \in Range(Kinds)
    <3>1. arts[i] \in Artifacts
      BY <1>1, ElementOfSeq
    <3> QED
      BY <3>1 DEF Artifacts
  <2>2. PICK k \in 1..8 : Kinds[k] = arts[i].kind
    BY <2>1, KindPlaces
  <2>3. PICK j \in 1..8 : s[k] = arts[j]
    BY <1>1
  <2>4. arts[j].kind = arts[i].kind
    BY <1>1, <2>2, <2>3
  <2>5. j = i
    BY <1>2, <2>4 DEF ArtifactsComplete, NoDuplicates
  <2> QED
    BY <2>3, <2>5
<1>4. ASSUME NEW i \in 1..8, NEW j \in 1..8, s[i].kind = s[j].kind PROVE i = j
  <2>1. Kinds[i] = Kinds[j] /\ Kinds[i] \in Range(Kinds)
    BY <1>1, <1>4, KindsTyped
  <2> DEFINE a == [kind |-> Kinds[i]]
  <2>2. a.kind = Kinds[i]
    OBVIOUS
  <2> HIDE DEF a
  <2>3. i = KindIndex(a) /\ j = KindIndex(a)
    BY <2>1, <2>2, KindPlaces
  <2> QED
    BY <2>3
<1> QED
  BY <1>1, <1>2, <1>3, <1>4 DEF SameArtifacts, NoDuplicates, s

LEMMA ReversedSame ==
  ASSUME NEW s \in Seq(Artifacts), NoDuplicates(s)
  PROVE  /\ Reverse(s) \in Seq(Artifacts)
         /\ SameArtifacts(Reverse(s), s)
         /\ NoDuplicates(Reverse(s))
<1> DEFINE n == Len(s)
           r == Reverse(s)
<1>1. n \in Nat /\ DOMAIN s = 1..n
  OBVIOUS
<1>2. r = [i \in 1..n |-> s[(n - i) + 1]]
  BY DEF Reverse
<1>3. ASSUME NEW i \in 1..n PROVE (n - i) + 1 \in 1..n /\ (n - ((n - i) + 1)) + 1 = i
  BY <1>1
<1>4. \A i \in 1..n : s[i] \in Artifacts
  BY <1>1, ElementOfSeq
<1> HIDE DEF n, r
<1>5. DOMAIN r = 1..n /\ \A i \in 1..n : r[i] = s[(n - i) + 1]
  BY <1>2
<1>6. r \in Seq(Artifacts)
  BY <1>1, <1>2, <1>3, <1>4
<1>7. SameArtifacts(r, s)
  <2>1. ASSUME NEW i \in 1..n PROVE \E j \in 1..n : r[i] = s[j]
    BY <1>3, <1>5
  <2>2. ASSUME NEW j \in 1..n PROVE \E i \in 1..n : r[i] = s[j]
    <3>1. (n - j) + 1 \in 1..n /\ r[(n - j) + 1] = s[j]
      BY <1>3, <1>5
    <3> QED
      BY <3>1
  <2> QED
    BY <1>1, <1>5, <2>1, <2>2 DEF SameArtifacts
<1>8. ASSUME NEW i \in 1..n, NEW j \in 1..n, r[i].kind = r[j].kind PROVE i = j
  <2>1. (n - i) + 1 = (n - j) + 1
    BY <1>1, <1>3, <1>5, <1>8 DEF NoDuplicates
  <2> QED
    BY <1>1, <2>1
<1> QED
  BY <1>5, <1>6, <1>7, <1>8 DEF NoDuplicates, r

-----------------------------------------------------------------------------
(* The published document *)

(* A byte is its two digits.                                               *)
LEMMA TwoDigits ==
  ASSUME NEW byte \in Byte
  PROVE  (byte \div Nibble) * Nibble + (byte % Nibble) = byte
<1>1. byte \in Nat /\ Nibble \in Nat /\ Nibble # 0
  <2>1. MaxByte \in Nat \ {0} /\ Nibble \in Nat /\ MaxByte < Nibble * Nibble
    BY DigestAssumption
  <2>2. Nibble # 0
    <3> SUFFICES ASSUME Nibble = 0 PROVE FALSE
      OBVIOUS
    <3> QED
      BY <2>1
  <2> QED
    BY <2>1, <2>2 DEF Byte
<1> QED
  BY <1>1

(* What to_json_value writes in hexadecimal can be read back.              *)
LEMMA HexRead ==
  ASSUME NEW bytes \in Digests
  PROVE  DecodeHex(EncodeHex(bytes)) = bytes
<1> DEFINE n == Len(bytes)
           digits == EncodeHex(bytes)
<1>1. bytes \in Seq(Byte) /\ n \in Nat /\ bytes = [i \in 1..n |-> bytes[i]]
  BY DigestsAreBytes
<1>2. digits = [i \in 1..2 * n |->
                  IF i % 2 = 1 THEN bytes[(i + 1) \div 2] \div Nibble
                               ELSE bytes[(i + 1) \div 2] % Nibble]
  BY DEF EncodeHex
<1> HIDE DEF n, digits
<1>3. Len(digits) = 2 * n
  BY <1>1, <1>2
<1>4. Len(digits) \div 2 = n
  BY <1>1, <1>3
<1>5. ASSUME NEW i \in 1..n
      PROVE  digits[2 * i - 1] * Nibble + digits[2 * i] = bytes[i]
  <2>1. /\ 2 * i - 1 \in 1..2 * n /\ 2 * i \in 1..2 * n
        /\ ((2 * i - 1) + 1) \div 2 = i /\ ((2 * i) + 1) \div 2 = i
        /\ (2 * i - 1) % 2 = 1 /\ (2 * i) % 2 = 0
    <3>1. i \in Int /\ 1 <= i /\ i <= n
      BY <1>1
    <3>2. 2 * i - 1 \in 1..2 * n /\ 2 * i \in 1..2 * n
      BY <1>1, <3>1
    <3>3. ((2 * i - 1) + 1) \div 2 = i /\ ((2 * i) + 1) \div 2 = i
      BY <3>1
    <3>4. (2 * i - 1) % 2 = 1 /\ (2 * i) % 2 = 0
      BY <3>1
    <3> QED
      BY <3>2, <3>3, <3>4
  <2>2. digits[2 * i - 1] = bytes[i] \div Nibble
    BY <1>2, <2>1
  <2>3. digits[2 * i] = bytes[i] % Nibble
    BY <1>2, <2>1
  <2>4. bytes[i] \in Byte
    BY <1>1, ElementOfSeq DEF n
  <2>5. (bytes[i] \div Nibble) * Nibble + (bytes[i] % Nibble) = bytes[i]
    BY <2>4, TwoDigits
  <2> QED
    BY <2>2, <2>3, <2>5, Zenon
<1> QED
  BY <1>1, <1>4, <1>5 DEF DecodeHex, digits

LEMMA ArtifactRead ==
  ASSUME NEW a \in Artifacts
  PROVE  ArtifactOf(ArtifactJson(a)) = a
  BY DEF ArtifactOf, ArtifactJson, HexHash, Artifacts

LEMMA RequestRead ==
  ASSUME NEW r \in Requests
  PROVE  r = [chain |-> r.chain, market |-> r.market, id |-> r.id, commit |-> r.commit]
  BY DEF Requests

LEMMA ParamsRead ==
  ASSUME NEW p \in ParamsSet, NEW receipt \in ReceiptSet, Accepts(p, receipt)
  PROVE  ReadParams(ToJson(Manifest(p, receipt)))
           = [p EXCEPT !.artifacts = SortByKind(p.artifacts)]
<1> DEFINE s == SortByKind(p.artifacts)
           m == Manifest(p, receipt)
           j == ToJson(m)
<1>1. /\ p.nonce \in Digests /\ p.statement \in Digests /\ p.image \in Digests
      /\ p.claim \in Digests /\ p.verifyingKey \in Digests /\ p.scalar \in Digests
      /\ p.request \in Requests /\ p.artifacts \in Seq(Artifacts)
      /\ p.request.market \in Digests /\ p.request.id \in Digests
  BY DEF ParamsSet, Requests
<1>2. p.scalar = receipt.claim /\ p.inputCount = 1 /\ ArtifactsComplete(p.artifacts)
  BY DEF Accepts
<1>3. s \in Seq(Artifacts) /\ Len(s) = 8
  BY <1>1, <1>2, Sorted
<1>4. [i \in DOMAIN j.artifacts |-> ArtifactOf(j.artifacts[i])] = s
  <2>1. j.artifacts = [i \in DOMAIN s |-> ArtifactJson(s[i])]
    BY DEF ToJson, Manifest
  <2> HIDE DEF s, j
  <2>2. \A i \in DOMAIN s : s[i] \in Artifacts
    <3>1. DOMAIN s = 1..Len(s)
      BY <1>3
    <3> QED
      BY <1>3, <3>1, ElementOfSeq
  <2>3. \A i \in DOMAIN s : ArtifactOf(j.artifacts[i]) = s[i]
    BY <2>1, <2>2, ArtifactRead
  <2>4. s = [i \in DOMAIN s |-> s[i]]
    BY <1>3
  <2> QED
    BY <2>1, <2>3, <2>4
<1>5. DecodeHex(j.contract_nonce) = p.nonce
  BY <1>1, HexRead DEF ToJson, Manifest
<1>6. DecodeHex(j.statement_digest) = p.statement
  BY <1>1, HexRead DEF ToJson, Manifest
<1>7. DecodeHex(j.risc0_image_id) = p.image
  BY <1>1, HexRead DEF ToJson, Manifest
<1>8. DecodeHex(j.boundless.claim_digest) = p.claim
  BY <1>1, HexRead DEF ToJson, Manifest
<1>9. DecodeHex(j.boundless.request.market_contract) = p.request.market
  BY <1>1, HexRead DEF ToJson, Manifest
<1>10. DecodeHex(j.boundless.request.request_id) = p.request.id
  BY <1>1, HexRead DEF ToJson, Manifest
<1>11. DecodeHex(j.boundless.verifying_key_sha256) = p.verifyingKey
  BY <1>1, HexRead DEF ToJson, Manifest
<1>12. DecodeHex(j.boundless.public_inputs[1]) = p.scalar
  BY <1>1, <1>2, HexRead DEF ToJson, Manifest
<1>13. /\ j.bitcoin_network = p.network
       /\ j.boundless.request.chain_id = p.request.chain
       /\ j.boundless.request.boundless_git_commit = p.request.commit
       /\ j.bitvm2.graph_sha256.hex = p.graph
       /\ j.bitvm2.public_input_count = p.inputCount
  BY <1>2 DEF ToJson, Manifest, HexHash
<1> HIDE DEF s, m, j
<1>14. ReadParams(j) =
         [network |-> p.network, nonce |-> p.nonce, statement |-> p.statement,
          image |-> p.image, claim |-> p.claim, request |-> p.request,
          verifyingKey |-> p.verifyingKey, graph |-> p.graph,
          inputCount |-> p.inputCount, scalar |-> p.scalar, artifacts |-> s]
  <2>1. [chain |-> j.boundless.request.chain_id,
         market |-> DecodeHex(j.boundless.request.market_contract),
         id |-> DecodeHex(j.boundless.request.request_id),
         commit |-> j.boundless.request.boundless_git_commit] = p.request
    BY <1>1, <1>9, <1>10, <1>13, RequestRead
  <2> QED
    BY <1>4, <1>5, <1>6, <1>7, <1>8, <1>11, <1>12, <1>13, <2>1 DEF ReadParams
<1>15. [p EXCEPT !.artifacts = s] =
         [network |-> p.network, nonce |-> p.nonce, statement |-> p.statement,
          image |-> p.image, claim |-> p.claim, request |-> p.request,
          verifyingKey |-> p.verifyingKey, graph |-> p.graph,
          inputCount |-> p.inputCount, scalar |-> p.scalar, artifacts |-> s]
  BY DEF ParamsSet
<1> QED
  BY <1>14, <1>15 DEF s, m, j

-----------------------------------------------------------------------------
(* The theorems *)

(* Everything held is typed and went through the checks.                   *)
LEMMA HeldTypedAndChecked == Spec => [](HeldTyped /\ HeldAsChecked)
<1>1. Init => HeldTyped
  BY DEF Init, HeldTyped
<1>2. HeldTyped /\ [Next]_vars => HeldTyped'
  BY TypedInductive
<1> QED
  BY <1>1, <1>2, HeldInvariant, PTL DEF Spec

(* What is known of a manifest that is held.                               *)
LEMMA ManifestKnown ==
  ASSUME HeldTyped, HeldAsChecked, NEW m \in manifests
  PROVE  /\ m.params \in ParamsSet /\ m.receipt \in ReceiptSet
         /\ Accepts(m.params, m.receipt)
         /\ m.manifest = Manifest(m.params, m.receipt)
         /\ m.params.artifacts \in Seq(Artifacts)
         /\ ArtifactsComplete(m.params.artifacts)
         /\ m.manifest.artifacts = SortByKind(m.params.artifacts)
<1>1. /\ m.params \in ParamsSet /\ m.receipt \in ReceiptSet
      /\ Accepts(m.params, m.receipt)
      /\ m.manifest = Manifest(m.params, m.receipt)
  BY DEF HeldTyped, HeldAsChecked
<1>2. m.params.artifacts \in Seq(Artifacts)
  BY <1>1 DEF ParamsSet
<1>3. ArtifactsComplete(m.params.artifacts)
  BY <1>1 DEF Accepts
<1>4. m.manifest.artifacts = SortByKind(m.params.artifacts)
  BY <1>1 DEF Manifest
<1> QED
  BY <1>1, <1>2, <1>3, <1>4

(* Every artifact a manifest lists was checked by new.                     *)
LEMMA ListedChecked ==
  ASSUME HeldTyped, HeldAsChecked, NEW m \in manifests,
         NEW a \in Range(m.manifest.artifacts)
  PROVE  a \in Artifacts /\ ValidateArtifact(a)
<1> DEFINE arts == m.params.artifacts
           s == SortByKind(arts)
<1>1. arts \in Seq(Artifacts) /\ ArtifactsComplete(arts) /\ m.manifest.artifacts = s
  BY ManifestKnown
<1>2. /\ Len(arts) = 8 /\ s \in Seq(Artifacts) /\ Len(s) = 8
      /\ \A k \in 1..8 : \E i \in 1..8 : s[k] = arts[i]
  BY <1>1, Sorted
<1> HIDE DEF arts, s
<1>3. DOMAIN arts = 1..8 /\ DOMAIN s = 1..8
  BY <1>1, <1>2
<1>4. PICK k \in 1..8 : a = s[k]
  BY <1>1, <1>3 DEF Range
<1>5. PICK i \in 1..8 : a = arts[i]
  BY <1>2, <1>4
<1>6. arts[i] \in Artifacts
  BY <1>1, <1>2, ElementOfSeq
<1>7. ValidateArtifact(arts[i])
  BY <1>1, <1>3 DEF ArtifactsComplete
<1> QED
  BY <1>5, <1>6, <1>7

(* A download URL names one file of one release of one repository, in all  *)
(* manifests ever published: the owner, the repository's name, the tag and *)
(* the file name have no slash, so the URL splits in one way only.         *)
THEOREM OneRelease == Spec => []UrlNamesOneRelease
<1>1. ASSUME HeldTyped, HeldAsChecked PROVE UrlNamesOneRelease
  <2> SUFFICES ASSUME NEW m \in manifests, NEW n \in manifests,
                      NEW a \in Range(m.manifest.artifacts),
                      NEW b \in Range(n.manifest.artifacts), a.url = b.url
               PROVE  <<a.repository, a.tag, a.file>> = <<b.repository, b.tag, b.file>>
    BY DEF UrlNamesOneRelease
  <2>1. a \in Artifacts /\ ValidateArtifact(a)
    BY <1>1, ListedChecked
  <2>2. b \in Artifacts /\ ValidateArtifact(b)
    BY <1>1, ListedChecked
  <2>3. a.repository = b.repository /\ a.tag = b.tag /\ a.file = b.file
    <3> HIDE DEF ValidateArtifact
    <3> QED
      BY ONLY <2>1, <2>2, a.url = b.url, UrlParts, ZenonT(40)
  <2> QED
    BY <2>3
<1> QED
  BY <1>1, HeldTypedAndChecked, PTL

(* A manifest lists every required kind exactly once, and its seal and its *)
(* graph are the ones new checked: the list has no second entry of a kind, *)
(* so what new found first is all there is.                                *)
THEOREM ArtifactsChecked == Spec => []CheckedArtifacts
<1>1. ASSUME HeldTyped, HeldAsChecked PROVE CheckedArtifacts
  <2> SUFFICES ASSUME NEW m \in manifests
               PROVE  LET artifacts == m.manifest.artifacts IN
                      /\ Len(artifacts) = Len(Kinds)
                      /\ {artifacts[i].kind : i \in DOMAIN artifacts} = Range(Kinds)
                      /\ \A i \in DOMAIN artifacts :
                           /\ artifacts[i].kind = "boundless_seal"
                                => artifacts[i].sha256
                                     = Sha256("seal", SealOf(m.receipt))
                           /\ artifacts[i].kind = "bitvm2_graph"
                                => artifacts[i].sha256 = m.manifest.graph
    BY DEF CheckedArtifacts
  <2> DEFINE p == m.params
             s == m.manifest.artifacts
  <2>1. /\ Accepts(p, m.receipt) /\ m.manifest = Manifest(p, m.receipt)
        /\ p.artifacts \in Seq(Artifacts) /\ ArtifactsComplete(p.artifacts)
        /\ s = SortByKind(p.artifacts)
    BY <1>1, ManifestKnown
  <2>2. /\ s \in Seq(Artifacts) /\ Len(s) = 8
        /\ \A k \in 1..8 : s[k].kind = Kinds[k]
    BY <2>1, Sorted
  <2>3. SameArtifacts(s, p.artifacts) /\ NoDuplicates(s)
    BY <2>1, SortedSame
  <2>4. \A kind \in Range(Kinds) : Find(s, kind) = Find(p.artifacts, kind)
    BY <2>1, <2>2, <2>3, OrderForgotten
  <2>5. /\ Find(p.artifacts, "boundless_seal").sha256 = Sha256("seal", SealOf(m.receipt))
        /\ Find(p.artifacts, "bitvm2_graph").sha256 = p.graph
        /\ m.manifest.graph = p.graph
    BY <2>1 DEF Accepts, Manifest
  <2> HIDE DEF p, s
  <2>6. DOMAIN s = 1..8
    BY <2>2
  <2>7. {s[i].kind : i \in DOMAIN s} = Range(Kinds)
    <3>1. ASSUME NEW k \in 1..8 PROVE s[k].kind = Kinds[k]
      BY <2>2
    <3> QED
      BY <2>6, <3>1, KindsTyped DEF Range
  <2>8. ASSUME NEW i \in 1..8 PROVE s[i] = Find(s, s[i].kind)
    BY <2>2, <2>3, <2>6, FindOnly
  <2>9. "boundless_seal" \in Range(Kinds) /\ "bitvm2_graph" \in Range(Kinds)
    BY KindsTyped
  <2>10. ASSUME NEW i \in 1..8, s[i].kind = "boundless_seal"
         PROVE  s[i].sha256 = Sha256("seal", SealOf(m.receipt))
    BY <2>4, <2>5, <2>8, <2>9, <2>10
  <2>11. ASSUME NEW i \in 1..8, s[i].kind = "bitvm2_graph"
         PROVE  s[i].sha256 = m.manifest.graph
    BY <2>4, <2>5, <2>8, <2>9, <2>11
  <2> QED
    BY <2>2, <2>6, <2>7, <2>10, <2>11, KindsTyped DEF s
<1> QED
  BY <1>1, HeldTypedAndChecked, PTL

(* What new accepts of the parameters depends on the list of artifacts     *)
(* only up to its order.                                                   *)
LEMMA AcceptedAlike ==
  ASSUME NEW p \in ParamsSet, NEW receipt, Accepts(p, receipt),
         NEW arts \in Seq(Artifacts), NoDuplicates(arts),
         SameArtifacts(arts, p.artifacts)
  PROVE  /\ Accepts([p EXCEPT !.artifacts = arts], receipt)
         /\ Manifest([p EXCEPT !.artifacts = arts], receipt) = Manifest(p, receipt)
<1> DEFINE q == [p EXCEPT !.artifacts = arts]
<1>1. p.artifacts \in Seq(Artifacts) /\ ArtifactsComplete(p.artifacts)
  BY DEF ParamsSet, Accepts
<1>2. /\ ArtifactsComplete(arts)
      /\ \A kind \in Range(Kinds) : Find(arts, kind) = Find(p.artifacts, kind)
      /\ SortByKind(arts) = SortByKind(p.artifacts)
  BY <1>1, OrderForgotten
<1>3. /\ Find(arts, "boundless_seal") = Find(p.artifacts, "boundless_seal")
      /\ Find(arts, "bitvm2_graph") = Find(p.artifacts, "bitvm2_graph")
  BY <1>2, KindsTyped
<1>4. /\ q.artifacts = arts
      /\ q.network = p.network /\ q.nonce = p.nonce /\ q.statement = p.statement
      /\ q.image = p.image /\ q.claim = p.claim /\ q.request = p.request
      /\ q.verifyingKey = p.verifyingKey /\ q.graph = p.graph
      /\ q.inputCount = p.inputCount /\ q.scalar = p.scalar
  BY DEF ParamsSet
<1> HIDE DEF q
<1>5. Accepts(q, receipt)
  <2>1. PinsFilledIn(q)
    BY <1>4 DEF Accepts, PinsFilledIn
  <2> QED
    BY <1>2, <1>3, <1>4, <2>1 DEF Accepts
<1>6. Manifest(q, receipt) = Manifest(p, receipt)
  BY <1>2, <1>4 DEF Manifest
<1> QED
  BY <1>5, <1>6 DEF q

(* The published document can be read back and checked again: new accepts  *)
(* what is read, in either order, and rebuilds the very same manifest.     *)
THEOREM Rebuilt == Spec => []RebuiltFromJson
<1>1. ASSUME HeldTyped, HeldAsChecked PROVE RebuiltFromJson
  <2> SUFFICES ASSUME NEW m \in manifests
               PROVE  LET p == ReadParams(ToJson(m.manifest))
                          reversed == [p EXCEPT !.artifacts = Reverse(@)] IN
                      /\ Accepts(p, m.receipt) /\ Manifest(p, m.receipt) = m.manifest
                      /\ Accepts(reversed, m.receipt)
                      /\ Manifest(reversed, m.receipt) = m.manifest
    BY DEF RebuiltFromJson
  <2> DEFINE q == m.params
             s == SortByKind(q.artifacts)
             p == ReadParams(ToJson(m.manifest))
             reversed == [p EXCEPT !.artifacts = Reverse(@)]
  <2>1. /\ q \in ParamsSet /\ m.receipt \in ReceiptSet
        /\ Accepts(q, m.receipt) /\ m.manifest = Manifest(q, m.receipt)
        /\ q.artifacts \in Seq(Artifacts) /\ ArtifactsComplete(q.artifacts)
    BY <1>1, ManifestKnown
  <2>2. p = [q EXCEPT !.artifacts = s]
    BY <2>1, ParamsRead
  <2>3. s \in Seq(Artifacts) /\ SameArtifacts(s, q.artifacts) /\ NoDuplicates(s)
    BY <2>1, Sorted, SortedSame
  <2>4. Accepts(p, m.receipt) /\ Manifest(p, m.receipt) = m.manifest
    <3> HIDE DEF s, q
    <3>1. /\ Accepts([q EXCEPT !.artifacts = s], m.receipt)
          /\ Manifest([q EXCEPT !.artifacts = s], m.receipt) = m.manifest
      BY <2>1, <2>3, AcceptedAlike
    <3> HIDE DEF p
    <3> QED
      BY <2>2, <3>1
  <2>5. p \in ParamsSet /\ p.artifacts = s
    <3> HIDE DEF s, q, p
    <3> QED
      BY <2>1, <2>2, <2>3 DEF ParamsSet
  <2>6. /\ Reverse(s) \in Seq(Artifacts) /\ SameArtifacts(Reverse(s), s)
        /\ NoDuplicates(Reverse(s))
    BY <2>3, ReversedSame
  <2>7. reversed = [p EXCEPT !.artifacts = Reverse(s)]
    BY <2>5
  <2> HIDE DEF s, q, p, reversed
  <2>8. /\ Accepts([p EXCEPT !.artifacts = Reverse(s)], m.receipt)
        /\ Manifest([p EXCEPT !.artifacts = Reverse(s)], m.receipt) = m.manifest
    BY <2>4, <2>5, <2>6, AcceptedAlike
  <2> QED
    BY <2>4, <2>7, <2>8 DEF p, reversed
<1> QED
  BY <1>1, HeldTypedAndChecked, PTL

-----------------------------------------------------------------------------
(* Scalars as integers *)

(* A digit more makes up for any smaller digit after it.                   *)
LEMMA Scaled ==
  ASSUME NEW x \in Nat, NEW y \in Nat, x < y, NEW c \in Byte, NEW d \in Byte
  PROVE  x * (MaxByte + 1) + c < y * (MaxByte + 1) + d
<1> DEFINE base == MaxByte + 1
           k == y - (x + 1)
<1>1. base \in Nat /\ c \in Nat /\ d \in Nat /\ c < base /\ k \in Nat
  BY DigestAssumption DEF Byte
<1>2. y = x + 1 + k
  OBVIOUS
<1> HIDE DEF base, k
<1>3. y * base = x * base + base + k * base
  BY <1>1, <1>2
<1>4. x * base \in Nat /\ k * base \in Nat
  BY <1>1
<1>5. x * base + c < x * base + base + k * base + d
  BY <1>1, <1>4
<1> QED
  BY <1>3, <1>5 DEF base

LEMMA ScaledTyped ==
  ASSUME NEW x \in Nat, NEW c \in Byte
  PROVE  x * (MaxByte + 1) + c \in Nat
<1>1. MaxByte + 1 \in Nat /\ c \in Nat
  BY DigestAssumption DEF Byte
<1> DEFINE base == MaxByte + 1
<1> HIDE DEF base
<1>2. ASSUME base \in Nat PROVE x * base \in Nat
  BY <1>2
<1> QED
  BY <1>1, <1>2 DEF base

(* Value is the last of the values of the digests' first digits.           *)
LEMMA PartialValues ==
  ASSUME NEW s \in Digests
  PROVE  \E v \in [0..DigestLen -> Nat] :
           /\ Value(s) = v[DigestLen]
           /\ v[0] = 0
           /\ \A i \in 1..DigestLen : v[i] = v[i - 1] * (MaxByte + 1) + s[i]
<1> DEFINE n == Len(s)
           S == Nat
           step == [p \in (1..n) \X S |-> p[2] * (MaxByte + 1) + s[p[1]]]
           Obeys(f) == f = [i \in 0..n |-> IF i = 0 THEN 0
                               ELSE f[i - 1] * (MaxByte + 1) + s[i]]
<1>1. n = DigestLen /\ n \in Nat /\ 0 \in S /\ \A i \in 1..n : s[i] \in Byte
  <2>1. s \in Seq(Byte) /\ Len(s) = DigestLen /\ DigestLen \in Nat
    BY DigestsAreBytes, DigestAssumption
  <2> QED
    BY <2>1, ElementOfSeq
<1>2. ASSUME NEW x \in S, NEW c \in Byte PROVE x * (MaxByte + 1) + c \in S
  BY ScaledTyped
<1> HIDE DEF n, S
<1>3. step \in [(1..n) \X S -> S]
  BY <1>1, <1>2
<1> HIDE DEF step
<1>4. PICK g \in [0..n -> S] : Computes(g, n, 0, step)
  BY <1>1, <1>3, Recursive
<1>5. /\ g[0] = 0
      /\ \A i \in 1..n : g[i] = g[i - 1] * (MaxByte + 1) + s[i]
  <2>1. \A i \in 1..n : i - 1 \in 0..n
    BY <1>1
  <2> QED
    BY <1>1, <1>4, <2>1 DEF step, Computes
<1>6. Obeys(g)
  BY <1>1, <1>5
<1> DEFINE f == CHOOSE f : Obeys(f)
<1>7. Obeys(f)
  BY <1>6
<1>8. Value(s) = f[n]
  BY DEF Value, n
<1> HIDE DEF f
<1>9. /\ f[0] = 0
      /\ \A i \in 1..n : f[i] = f[i - 1] * (MaxByte + 1) + s[i]
  BY <1>1, <1>7
<1>10. \A i \in 0..n : f[i] \in S
  <2> DEFINE T == {j \in 0..n : f[j] \in S}
  <2>1. 0 \in T
    BY <1>1, <1>9
  <2>2. ASSUME NEW i \in 1..n, i - 1 \in T PROVE i \in T
    <3>1. /\ i \in 0..n /\ f[i - 1] \in S /\ s[i] \in Byte
          /\ f[i] = f[i - 1] * (MaxByte + 1) + s[i]
      BY <1>1, <1>9, <2>2
    <3> QED
      BY <1>2, <3>1
  <2> HIDE DEF T
  <2>3. \A i \in 0..n : i \in T
    BY <1>1, <2>1, <2>2, InductiveUpTo
  <2> QED
    BY <2>3 DEF T
<1>11. f \in [0..n -> S]
  BY <1>7, <1>10
<1>12. f \in [0..DigestLen -> Nat] /\ Value(s) = f[DigestLen]
  BY <1>1, <1>8, <1>11 DEF S
<1>13. \A i \in 1..DigestLen : f[i] = f[i - 1] * (MaxByte + 1) + s[i]
  BY <1>1, <1>9
<1> QED
  BY <1>9, <1>12, <1>13

(* Rust's order on the bytes is the order of the integers.                 *)
LEMMA BeforeIsLess ==
  ASSUME NEW a \in Digests, NEW b \in Digests, Before(a, b)
  PROVE  /\ Value(a) \in Nat /\ Value(b) \in Nat
         /\ Value(a) < Value(b)
<1>1. PICK v \in [0..DigestLen -> Nat] :
        /\ Value(a) = v[DigestLen]
        /\ v[0] = 0
        /\ \A i \in 1..DigestLen : v[i] = v[i - 1] * (MaxByte + 1) + a[i]
  BY PartialValues
<1>2. PICK w \in [0..DigestLen -> Nat] :
        /\ Value(b) = w[DigestLen]
        /\ w[0] = 0
        /\ \A i \in 1..DigestLen : w[i] = w[i - 1] * (MaxByte + 1) + b[i]
  BY PartialValues
<1>3. /\ DigestLen \in Nat \ {0}
      /\ DOMAIN a = 1..DigestLen
      /\ \A i \in 1..DigestLen : a[i] \in Byte /\ b[i] \in Byte
  BY DigestAssumption DEF Digests, Bytes
<1>4. PICK first \in 1..DigestLen :
        a[first] < b[first] /\ \A j \in 1..(first - 1) : a[j] = b[j]
  BY <1>3 DEF Before
<1>5. \A i \in 0..DigestLen : i < first => v[i] = w[i]
  <2> DEFINE T == {i \in 0..DigestLen : i < first => v[i] = w[i]}
  <2>1. 0 \in T
    BY <1>1, <1>2, <1>3
  <2>2. ASSUME NEW i \in 1..DigestLen, i - 1 \in T PROVE i \in T
    <3> SUFFICES ASSUME i < first PROVE v[i] = w[i]
      BY <1>3
    <3>1. v[i - 1] = w[i - 1] /\ a[i] = b[i]
      <4>1. i - 1 < first /\ i - 1 \in 0..DigestLen /\ i \in 1..(first - 1)
        BY ONLY <1>3, i < first, i \in 1..DigestLen, first \in 1..DigestLen
      <4> QED
        BY <1>4, <2>2, <4>1
    <3> QED
      BY <1>1, <1>2, <3>1
  <2> HIDE DEF T
  <2>3. \A i \in 0..DigestLen : i \in T
    BY <1>3, <2>1, <2>2, InductiveUpTo
  <2> QED
    BY <2>3 DEF T
<1>6. \A i \in 0..DigestLen : first <= i => v[i] < w[i]
  <2> DEFINE T == {i \in 0..DigestLen : first <= i => v[i] < w[i]}
  <2>1. 0 \in T
    BY <1>3
  <2>2. ASSUME NEW i \in 1..DigestLen, i - 1 \in T PROVE i \in T
    <3> SUFFICES ASSUME first <= i PROVE v[i] < w[i]
      BY <1>3
    <3>1. /\ v[i] = v[i - 1] * (MaxByte + 1) + a[i]
          /\ w[i] = w[i - 1] * (MaxByte + 1) + b[i]
          /\ v[i - 1] \in Nat /\ w[i - 1] \in Nat
      BY <1>1, <1>2, <1>3
    <3>2. CASE first = i
      <4>1. v[i - 1] = w[i - 1] /\ a[i] < b[i]
        BY <1>3, <1>4, <1>5, <3>2
      <4> DEFINE same == v[i - 1] * (MaxByte + 1)
      <4>2. same \in Nat /\ v[i] = same + a[i] /\ w[i] = same + b[i]
        <5>1. MaxByte + 1 \in Nat
          BY DigestAssumption
        <5>2. 0 \in Byte
          BY DigestAssumption DEF Byte
        <5>3. same + 0 \in Nat
          BY <3>1, <5>2, ScaledTyped
        <5>4. same \in Int
          BY <3>1, <5>1
        <5> QED
          BY <3>1, <4>1, <5>3, <5>4
      <4>3. a[i] \in Nat /\ b[i] \in Nat
        <5>1. Byte \subseteq Nat
          BY DigestAssumption DEF Byte
        <5> QED
          BY ONLY <1>3, <5>1, i \in 1..DigestLen
      <4> HIDE DEF same
      <4> QED
        BY <4>1, <4>2, <4>3
    <3>3. CASE first # i
      <4>1. v[i - 1] < w[i - 1]
        BY <1>3, <2>2, <3>3
      <4>2. a[i] \in Byte /\ b[i] \in Byte
        BY ONLY <1>3, i \in 1..DigestLen
      <4>3. v[i - 1] * (MaxByte + 1) + a[i] < w[i - 1] * (MaxByte + 1) + b[i]
        BY <3>1, <4>1, <4>2, Scaled
      <4> QED
        BY ONLY <3>1, <4>3
    <3> QED
      BY <3>2, <3>3
  <2> HIDE DEF T
  <2>3. \A i \in 0..DigestLen : i \in T
    BY <1>3, <2>1, <2>2, InductiveUpTo
  <2> QED
    BY <2>3 DEF T
<1> QED
  BY <1>1, <1>2, <1>3, <1>6

(* ... and it is total.                                                    *)
LEMMA BeforeTotal ==
  ASSUME NEW a \in Digests, NEW b \in Digests, a # b
  PROVE  Before(a, b) \/ Before(b, a)
<1> DEFINE T == {i \in 1..DigestLen : a[i] # b[i]}
<1>1. /\ DigestLen \in Nat
      /\ DOMAIN a = 1..DigestLen /\ DOMAIN b = 1..DigestLen
      /\ \A i \in 1..DigestLen : a[i] \in Int /\ b[i] \in Int
  <2>1. DigestLen \in Nat /\ MaxByte \in Nat
    BY DigestAssumption
  <2>2. a \in [1..DigestLen -> Byte] /\ b \in [1..DigestLen -> Byte]
    BY DEF Digests, Bytes
  <2>3. Byte \subseteq Int
    BY <2>1 DEF Byte
  <2> QED
    BY <2>1, <2>2, <2>3
<1>2. T # {}
  BY <1>1 DEF Digests, Bytes
<1>3. T \in SUBSET Nat
  BY <1>1
<1>4. PICK i \in T : \A j \in T : i <= j
  <2> HIDE DEF T
  <2> QED
    BY <1>2, <1>3, Least
<1>5. \A j \in 1..(i - 1) : a[j] = b[j] /\ b[j] = a[j]
  BY <1>1, <1>4
<1>6. a[i] < b[i] \/ b[i] < a[i]
  BY <1>1, <1>4
<1> QED
  BY <1>1, <1>4, <1>5, <1>6 DEF Before

(* Two canonical scalars that are the same element of the field are the    *)
(* same bytes.                                                             *)
LEMMA CanonicalUnique ==
  ASSUME NEW a \in Digests, NEW b \in Digests, Before(a, Modulus), Before(b, Modulus),
         Value(a) % Value(Modulus) = Value(b) % Value(Modulus)
  PROVE  a = b
<1>1. /\ Value(a) \in Nat /\ Value(b) \in Nat /\ Value(Modulus) \in Nat
      /\ Value(a) < Value(Modulus) /\ Value(b) < Value(Modulus)
  BY DigestAssumption, BeforeIsLess
<1>2. Value(a) = Value(b)
  <2> DEFINE x == Value(a)
             y == Value(b)
             z == Value(Modulus)
  <2> HIDE DEF x, y, z
  <2>1. ASSUME x \in Nat, y \in Nat, z \in Nat, x < z, y < z, x % z = y % z PROVE x = y
    <3>1. x % z = x /\ y % z = y
      BY <2>1
    <3> QED
      BY <2>1, <3>1
  <2> QED
    BY <1>1, <2>1 DEF x, y, z
<1> SUFFICES ASSUME a # b PROVE FALSE
  OBVIOUS
<1>3. Value(a) < Value(b) \/ Value(b) < Value(a)
  BY BeforeTotal, BeforeIsLess
<1> QED
  BY <1>1, <1>2, <1>3

(* No two claims share a public scalar: two manifests whose graphs verify  *)
(* the same field element are about the same claim, since both hold the    *)
(* canonical bytes of it.                                                  *)
THEOREM OneClaim == Spec => []OneClaimPerScalar
<1>1. ASSUME HeldTyped, HeldAsChecked PROVE OneClaimPerScalar
  <2> SUFFICES ASSUME NEW m \in manifests, NEW n \in manifests,
                      Value(m.params.scalar) % Value(Modulus)
                        = Value(n.manifest.scalar) % Value(Modulus)
               PROVE  m.manifest.claim = n.receipt.claim
    BY DEF OneClaimPerScalar
  <2>1. /\ m.params \in ParamsSet /\ Accepts(m.params, m.receipt)
        /\ m.manifest = Manifest(m.params, m.receipt)
    BY <1>1, ManifestKnown
  <2>2. /\ n.params \in ParamsSet /\ Accepts(n.params, n.receipt)
        /\ n.manifest = Manifest(n.params, n.receipt)
    BY <1>1, ManifestKnown
  <2>3. /\ m.params.scalar \in Digests /\ Before(m.params.scalar, Modulus)
        /\ m.params.scalar = m.receipt.claim /\ m.receipt.claim = m.params.claim
        /\ m.manifest.claim = m.params.claim
    BY <2>1 DEF ParamsSet, Accepts, CanonicalScalar, Manifest
  <2>4. /\ n.params.scalar \in Digests /\ Before(n.params.scalar, Modulus)
        /\ n.params.scalar = n.receipt.claim /\ n.manifest.scalar = n.receipt.claim
    BY <2>2 DEF ParamsSet, Accepts, CanonicalScalar, Manifest
  <2>5. m.params.scalar = n.params.scalar
    BY <2>3, <2>4, CanonicalUnique
  <2> QED
    BY <2>3, <2>4, <2>5
<1> QED
  BY <1>1, HeldTypedAndChecked, PTL

-----------------------------------------------------------------------------
(* The policy: the digest that a statement pins. *)

(* Two policies have the same digest exactly when they are the same, but   *)
(* for the lifting log size: none and one of 255 look the same in the      *)
(* canonical bytes, where None is unwrap_or(u8::MAX).                      *)
THEOREM DigestAlias ==
  ASSUME NEW p \in StwoPolicyV1, NEW q \in StwoPolicyV1
  PROVE  Digest(p) = Digest(q)
           <=> \/ p = q
               \/ /\ {p.lifting_log_size, q.lifting_log_size} = {NoLifting, U8Max}
                  /\ [p EXCEPT !.lifting_log_size = NoLifting]
                       = [q EXCEPT !.lifting_log_size = NoLifting]
<1> DEFINE bare(r) == [r EXCEPT !.lifting_log_size = NoLifting]
           mixed == {p.lifting_log_size, q.lifting_log_size} = {NoLifting, U8Max}
<1>1. ASSUME Digest(p) = Digest(q) PROVE p = q \/ (mixed /\ bare(p) = bare(q))
  <2>1. CanonicalBytes(p) = CanonicalBytes(q)
    BY <1>1 DEF Digest
  <2>2. /\ p.pow_bits = q.pow_bits
        /\ p.interaction_pow_bits = q.interaction_pow_bits
        /\ p.log_blowup_factor = q.log_blowup_factor
        /\ p.n_queries = q.n_queries
        /\ p.log_last_layer_degree_bound = q.log_last_layer_degree_bound
        /\ p.fold_step = q.fold_step
        /\ UnwrapOr(p.lifting_log_size, U8Max) = UnwrapOr(q.lifting_log_size, U8Max)
        /\ (p.channel = "blake2s") = (q.channel = "blake2s")
        /\ (p.preprocessed_variant = "canonical") = (q.preprocessed_variant = "canonical")
    BY <2>1 DEF CanonicalBytes
  <2>3. p.channel = q.channel /\ p.preprocessed_variant = q.preprocessed_variant
    BY <2>2 DEF StwoPolicyV1
  <2>4. p.lifting_log_size = q.lifting_log_size \/ mixed
    BY <2>2 DEF UnwrapOr, StwoPolicyV1, U8, U8Max, NoLifting
  <2>5. CASE p.lifting_log_size = q.lifting_log_size
    BY <2>2, <2>3, <2>5 DEF StwoPolicyV1
  <2>6. CASE mixed
    BY <2>2, <2>3, <2>6 DEF StwoPolicyV1
  <2> QED
    BY <2>4, <2>5, <2>6
<1>2. ASSUME mixed, bare(p) = bare(q) PROVE Digest(p) = Digest(q)
  <2>1. /\ bare(p).pow_bits = p.pow_bits /\ bare(q).pow_bits = q.pow_bits
        /\ bare(p).interaction_pow_bits = p.interaction_pow_bits
        /\ bare(q).interaction_pow_bits = q.interaction_pow_bits
        /\ bare(p).log_blowup_factor = p.log_blowup_factor
        /\ bare(q).log_blowup_factor = q.log_blowup_factor
        /\ bare(p).n_queries = p.n_queries /\ bare(q).n_queries = q.n_queries
        /\ bare(p).log_last_layer_degree_bound = p.log_last_layer_degree_bound
        /\ bare(q).log_last_layer_degree_bound = q.log_last_layer_degree_bound
        /\ bare(p).fold_step = p.fold_step /\ bare(q).fold_step = q.fold_step
        /\ bare(p).channel = p.channel /\ bare(q).channel = q.channel
        /\ bare(p).preprocessed_variant = p.preprocessed_variant
        /\ bare(q).preprocessed_variant = q.preprocessed_variant
    BY DEF StwoPolicyV1
  <2>2. UnwrapOr(p.lifting_log_size, U8Max) = UnwrapOr(q.lifting_log_size, U8Max)
    BY <1>2 DEF UnwrapOr, U8Max, NoLifting
  <2> HIDE DEF bare, mixed
  <2> QED
    BY <1>2, <2>1, <2>2 DEF Digest, CanonicalBytes
<1>3. ASSUME p = q PROVE Digest(p) = Digest(q)
  BY <1>3
<1> QED
  BY <1>1, <1>2, <1>3

(* Whoever compares a proof's policy digest with the pinned one accepts    *)
(* the required parameters and the ones that lift to 2^255, and no others, *)
(* whatever the prover chose.                                              *)
THEOREM PinAmbiguity ==
  ASSUME NEW p \in StwoPolicyV1
  PROVE  Digest(p) = Digest(Required)
           <=> Enforce(p) \/ p = [Required EXCEPT !.lifting_log_size = U8Max]
<1> DEFINE bare(r) == [r EXCEPT !.lifting_log_size = NoLifting]
           lifted == [Required EXCEPT !.lifting_log_size = U8Max]
<1>1. Required \in StwoPolicyV1 /\ Required.lifting_log_size = NoLifting
  BY DEF Required, StwoPolicyV1, U8, U8Max, NoLifting
<1>2. Digest(p) = Digest(Required)
        <=> \/ p = Required
            \/ /\ {p.lifting_log_size, NoLifting} = {NoLifting, U8Max}
               /\ bare(p) = bare(Required)
  BY <1>1, DigestAlias
<1>3. {p.lifting_log_size, NoLifting} = {NoLifting, U8Max}
        <=> p.lifting_log_size = U8Max
  BY DEF U8Max, NoLifting
<1>4. p.lifting_log_size = U8Max /\ bare(p) = bare(Required) <=> p = lifted
  BY <1>1 DEF StwoPolicyV1
<1> QED
  BY <1>2, <1>3, <1>4 DEF Enforce

-----------------------------------------------------------------------------
(* The gates themselves, over observations that arrive one by one. *)

(* The shape of a measurement; what was observed was observable. *)
MeasurementShape ==
  /\ measurement = [target |-> measurement.target,
                    inputs |-> measurement.inputs,
                    bindings |-> measurement.bindings,
                    setupKeys |-> measurement.setupKeys,
                    observed |-> measurement.observed]
  /\ measurement.observed = [name \in Observations |-> measurement.observed[name]]
  /\ measurement.observed["executed_steps"] \subseteq StepCounts
  /\ measurement.observed["peak_memory_bytes"] \subseteq MemorySizes

(* Initially nothing is observed, and an observation takes its value from  *)
(* what can be observed under its name.                                    *)
LEMMA MeasurementInvariant == OuterSpec => []MeasurementShape
<1>1. OuterInit => MeasurementShape
  BY DEF OuterInit, MeasurementShape, Missing, Observations
<1>2. MeasurementShape /\ [OuterNext]_outerVars => MeasurementShape'
  <2> SUFFICES ASSUME MeasurementShape, [OuterNext]_outerVars PROVE MeasurementShape'
    OBVIOUS
  <2>1. CASE UNCHANGED outerVars
    BY <2>1 DEF outerVars, MeasurementShape
  <2>2. ASSUME NEW name \in Observations, NEW value \in Observable[name],
               Observe(name, value)
        PROVE  MeasurementShape'
    <3>1. measurement' = [target |-> measurement.target,
                          inputs |-> measurement.inputs,
                          bindings |-> measurement.bindings,
                          setupKeys |-> measurement.setupKeys,
                          observed |-> [measurement.observed EXCEPT ![name] = {value}]]
      BY <2>2 DEF Observe, MeasurementShape
    <3>2. measurement'.observed = [measurement.observed EXCEPT ![name] = {value}]
      BY <3>1
    <3>3. name = "executed_steps" => value \in StepCounts
      BY <2>2 DEF Observable
    <3>4. name = "peak_memory_bytes" => value \in MemorySizes
      BY <2>2 DEF Observable
    <3>5. {"executed_steps", "peak_memory_bytes"} \subseteq Observations
      BY DEF Observations
    <3> QED
      BY <3>1, <3>2, <3>3, <3>4, <3>5 DEF MeasurementShape
  <2> QED
    BY <2>1, <2>2 DEF OuterNext
<1> QED
  BY <1>1, <1>2, PTL DEF OuterSpec

(* A candidate verdict is final: assess calls nothing a candidate while an *)
(* observation is missing, so none is left that could come in.             *)
THEOREM CandidatesStay == OuterSpec => CandidateFinal
<1>1. ASSUME [OuterNext]_outerVars, IsCandidate(measurement)
      PROVE  IsCandidate(measurement')
  <2>1. CASE UNCHANGED outerVars
    BY <1>1, <2>1 DEF outerVars
  <2>2. ASSUME NEW name \in Observations, NEW value \in Observable[name],
               Observe(name, value)
        PROVE  FALSE
    BY <1>1, <2>2 DEF Observe, IsCandidate, Failures, MissingObservations
  <2> QED
    BY <1>1, <2>1, <2>2 DEF OuterNext
<1> QED
  BY <1>1, PTL DEF OuterSpec, CandidateFinal

(* What was measured to fail stays in the report whatever is observed      *)
(* next: assess collects every failure and returns early on none.          *)
THEOREM FailuresStay == OuterSpec => FailuresPersist
<1>1. ASSUME MeasurementShape, [OuterNext]_outerVars
      PROVE  Failures(measurement) \ MissingObservations(measurement)
               \subseteq Failures(measurement')
  <2>1. CASE UNCHANGED outerVars
    BY <2>1 DEF outerVars
  <2>2. ASSUME NEW name \in Observations, NEW value \in Observable[name],
               Observe(name, value)
        PROVE  HardFailures(measurement) \subseteq HardFailures(measurement')
    <3>1. /\ measurement'.target = measurement.target
          /\ measurement'.inputs = measurement.inputs
          /\ measurement'.bindings = measurement.bindings
          /\ measurement'.setupKeys = measurement.setupKeys
          /\ measurement'.observed = [measurement.observed EXCEPT ![name] = {value}]
      BY <1>1, <2>2 DEF Observe, MeasurementShape
    <3>2. \A other \in Observations : \A v :
            Passes(measurement', other, v) <=> Passes(measurement, other, v)
      BY <3>1 DEF Passes, StepLimit, MemoryLimit
    <3>3. \A other \in Observations :
            measurement.observed[other] # Missing
              => measurement'.observed[other] = measurement.observed[other]
      BY <1>1, <2>2, <3>1 DEF Observe, MeasurementShape
    <3>4. \A other \in Observations : \A v :
            v \in measurement.observed[other] => v \in measurement'.observed[other]
      BY <3>3 DEF Missing
    <3> QED
      BY <3>1, <3>2, <3>4 DEF HardFailures, InputFailures, BindingFailures
  <2> QED
    BY <1>1, <2>1, <2>2 DEF OuterNext, Failures
<1> QED
  BY <1>1, MeasurementInvariant, PTL DEF OuterSpec, FailuresPersist
=============================================================================
