--------------------------- MODULE ClaimManifest ---------------------------
(***************************************************************************)
(* src/boundless.rs and src/bitvm2_manifest.rs: a Boundless receipt is     *)
(* parsed and bound to one public scalar, and a manifest that names the    *)
(* receipt, the BitVM2 graph and every artifact of one claim is published. *)
(*                                                                         *)
(* Neither keeps state.  What changes around them: the proof market        *)
(* delivers seals, callers hold the receipts they parsed and the manifests *)
(* they published, and may hand in any part in place of the right one.     *)
(*                                                                         *)
(* Abstractions: byte strings are sequences over a small alphabet and      *)
(* scaled lengths; SHA-256 is injective and never zero; the claim digest   *)
(* of a journal is what the market computes (Groth16 itself is not         *)
(* modelled, nor does the code verify it); strings are sequences of the    *)
(* characters the checks tell apart.                                       *)
(***************************************************************************)
EXTENDS OuterGates, SequencesExt

CONSTANTS
  MaxByte,           \* largest byte
  DigestLen,         \* 32
  Modulus,           \* BN254_SCALAR_MODULUS_BE
  Journals,          \* statement digests proofs are ordered for
  ClaimDigest,       \* external: the claim digest of each journal
  RawProofs,         \* proofs the market can come up with
  Names,             \* release tags and file names callers try
  Repositories, Repository,
  Nibble,            \* 16: what a hexadecimal digit counts to
  MaxDelivered,      \* bound: seals the market delivers
  MaxReceipts,       \* bound: receipts parsed
  MaxManifests       \* bound: manifests published

Byte == 0..MaxByte
Bytes(n) == [1..n -> Byte]
Digests == Bytes(DigestLen)
ZeroDigest == [i \in 1..DigestLen |-> 0]

ASSUME DigestAssumption ==
  /\ DigestLen \in Nat \ {0}
  /\ MaxByte \in Nat \ {0}
  /\ Zero = ZeroDigest
  /\ Modulus \in Digests
  /\ Journals \subseteq Digests
  /\ ClaimDigest \in [Journals -> Digests]
  /\ Nibble \in Nat
  /\ MaxByte < Nibble * Nibble
  /\ Selector \in Seq(Byte) \ {<< >>} /\ RawProofs \subseteq Seq(Byte) \ {<< >>}

VARIABLES
  delivered,         \* what the market delivered: [seal, journal, claim]
  receipts,          \* the receipts parsed so far
  manifests          \* [params, receipt, manifest] of each manifest published

vars == <<delivered, receipts, manifests>>

-----------------------------------------------------------------------------
(* Canonical public scalars *)

(* Rust's order on byte arrays. *)
Before(a, b) ==
  \E i \in DOMAIN a : a[i] < b[i] /\ \A j \in 1..(i - 1) : a[j] = b[j]

(* Mutant of CanonicalScalar: any 32 bytes will do. *)
AnyScalar(bytes) == Len(bytes) = DigestLen

(* CanonicalPublicScalar::parse accepts. *)
CanonicalScalar(bytes) == Len(bytes) = DigestLen /\ Before(bytes, Modulus)

-----------------------------------------------------------------------------
(* Receipts *)

Receipt(journal, claim, proof) ==
  [journal |-> journal, claim |-> claim, proof |-> proof]

(* Blake3Groth16Receipt::seal *)
SealOf(receipt) == Selector \o receipt.proof

(* Blake3Groth16Receipt::parse_parts accepts. *)
PartsParse(selector, proof, journal, claim, inputs) ==
  /\ selector = Selector
  /\ Len(proof) = ProofLen
  /\ Len(journal) = DigestLen
  /\ CanonicalScalar(claim)
  /\ Len(inputs) = 1
  /\ CanonicalScalar(inputs[1])
  /\ inputs[1] = claim

ProofOf(seal) == SubSeq(seal, Len(Selector) + 1, Len(seal))

(* Blake3Groth16Receipt::parse_seal accepts. *)
SealParses(seal, journal, claim, inputs) ==
  /\ Len(seal) = Len(Selector) + ProofLen
  /\ PartsParse(SubSeq(seal, 1, Len(Selector)), ProofOf(seal), journal, claim,
                inputs)

-----------------------------------------------------------------------------
(* Artifacts and where they are published *)

(* SHA-256 of a named content, and 32 zero bytes in its place. *)
Sha256(of, bytes) == [sha256 |-> of, bytes |-> bytes]
NoHash == Sha256("zero", << >>)

Kinds ==
  <<"statement_envelope", "stwo_program", "stwo_proof", "stwo_policy",
    "risc0_guest_elf", "risc0_guest_input", "boundless_seal", "bitvm2_graph">>

(* The host and the path of a release stand for strings with slashes.      *)
IsComponentChar(c) ==
  c \notin {"/", "%", "https://github.com/", "/releases/download/"}

IsDots(name) == name \in {<<".">>, <<".", ".">>}

(* Mutant of IsSafeReleaseComponent: a name may be a path. *)
IsSafeReleasePath(name) == Len(name) > 0 /\ ~IsDots(name)

IsSafeReleaseComponent(name) ==
  /\ Len(name) > 0
  /\ ~IsDots(name)
  /\ \A i \in DOMAIN name : IsComponentChar(name[i])

(* validate_github_repository: the prefix, then an owner and a name. *)
IsRepository(url) ==
  /\ url # << >> /\ url[1] = "https://github.com/"
  /\ \E slash \in DOMAIN url :
       LET owner == SubSeq(url, 2, slash - 1)
           name == SubSeq(url, slash + 1, Len(url)) IN
       /\ url[slash] = "/"
       /\ IsSafeReleaseComponent(owner)
       /\ IsSafeReleaseComponent(name)
       /\ ~IsSuffix(<<".git">>, name)

ReleaseUrl(a) ==
  a.repository \o <<"/releases/download/">> \o a.tag \o <<"/">> \o a.file

(* ArtifactProvenance::validate; commit: 40 lower-case hex digits or not. *)
ValidateArtifact(a) ==
  /\ IsRepository(a.repository)
  /\ a.commit = "hex"
  /\ IsSafeReleaseComponent(a.tag)
  /\ IsSafeReleaseComponent(a.file)
  /\ a.url = ReleaseUrl(a)
  /\ a.len # 0
  /\ a.sha256 # NoHash
-----------------------------------------------------------------------------
(* The manifest *)

BitcoinNetworks == {"regtest", "signet"}

(* Mutant of PinsFilledIn: the claim digest is not among the pins looked at. *)
PinsWithoutClaim(p) ==
  /\ Zero \notin {p.nonce, p.statement, p.image, p.verifyingKey}
  /\ p.graph # NoHash

PinsFilledIn(p) ==
  /\ Zero \notin {p.nonce, p.statement, p.image, p.claim, p.verifyingKey}
  /\ p.graph # NoHash

ValidateRequest(r) ==
  /\ r.chain \in {"sepolia", "base sepolia"}
  /\ r.market # Zero
  /\ r.id # Zero
  /\ r.commit = "hex"

(* Mutant of NoDuplicates: a kind may be listed twice. *)
DuplicatesAllowed(artifacts) == TRUE

NoDuplicates(artifacts) ==
  \A i, j \in DOMAIN artifacts :
    artifacts[i].kind = artifacts[j].kind => i = j

ArtifactsComplete(artifacts) ==
  /\ \A i \in DOMAIN artifacts : ValidateArtifact(artifacts[i])
  /\ NoDuplicates(artifacts)
  /\ \A k \in DOMAIN Kinds : \E i \in DOMAIN artifacts : artifacts[i].kind = Kinds[k]

(* The first artifact of a kind. *)
Find(artifacts, kind) ==
  artifacts[SelectInSeq(artifacts, LAMBDA a : a.kind = kind)]

(* Bitvm2ClaimManifestV1::new accepts. *)
Accepts(p, receipt) ==
  /\ PinsFilledIn(p)
  /\ receipt.journal = p.statement
  /\ receipt.claim = p.claim
  /\ p.inputCount = 1
  /\ CanonicalScalar(p.scalar)
  /\ p.scalar = receipt.claim
  /\ ValidateRequest(p.request)
  /\ ArtifactsComplete(p.artifacts)
  /\ LET seal == Find(p.artifacts, "boundless_seal") IN
     /\ seal.len = Len(Selector) + ProofLen
     /\ seal.sha256 = Sha256("seal", SealOf(receipt))
  /\ Find(p.artifacts, "bitvm2_graph").sha256 = p.graph

(* Mutant of SortByKind: the manifest keeps the order it was given. *)
KeepOrder(artifacts) == artifacts

KindIndex(a) == CHOOSE k \in DOMAIN Kinds : Kinds[k] = a.kind

(* The sort is stable. *)
ComesBefore(artifacts, i, j) ==
  LET k == KindIndex(artifacts[i])
      l == KindIndex(artifacts[j]) IN
  k < l \/ (k = l /\ i < j)

SortByKind(artifacts) ==
  LET Preceding(i) == {j \in DOMAIN artifacts : ComesBefore(artifacts, j, i)} IN
  [position \in DOMAIN artifacts |->
     artifacts[CHOOSE i \in DOMAIN artifacts :
                 Cardinality(Preceding(i)) = position - 1]]

(* What Bitvm2ClaimManifestV1::new makes of its parameters. *)
Manifest(p, receipt) ==
  [network |-> p.network, nonce |-> p.nonce, statement |-> p.statement,
   image |-> p.image, claim |-> p.claim, scalar |-> receipt.claim,
   request |-> p.request, verifyingKey |-> p.verifyingKey, graph |-> p.graph,
   artifacts |-> SortByKind(p.artifacts)]

-----------------------------------------------------------------------------
(* The published document *)

EncodeHex(bytes) ==
  [i \in 1..2 * Len(bytes) |->
     LET byte == bytes[(i + 1) \div 2] IN
     IF i % 2 = 1 THEN byte \div Nibble ELSE byte % Nibble]

(* The hexadecimal form of a SHA-256. *)
HexHash(hash) == [hex |-> hash]

(* ArtifactProvenance::to_json *)
ArtifactJson(a) ==
  [kind |-> a.kind, github_repository |-> a.repository, git_commit |-> a.commit,
   release_tag |-> a.tag, file_name |-> a.file, download_url |-> a.url,
   sha256 |-> HexHash(a.sha256), byte_len |-> a.len]

(* Bitvm2ClaimManifestV1::to_json_value *)
ToJson(m) ==
  [bitcoin_network |-> m.network, contract_nonce |-> EncodeHex(m.nonce),
   statement_digest |-> EncodeHex(m.statement),
   risc0_image_id |-> EncodeHex(m.image),
   boundless |->
     [selector |-> EncodeHex(Selector), claim_digest |-> EncodeHex(m.claim),
      public_inputs |-> <<EncodeHex(m.scalar)>>,
      request |-> [chain_id |-> m.request.chain,
                   market_contract |-> EncodeHex(m.request.market),
                   request_id |-> EncodeHex(m.request.id),
                   boundless_git_commit |-> m.request.commit],
      verifying_key_sha256 |-> EncodeHex(m.verifyingKey)],
   bitvm2 |-> [public_input_count |-> 1, graph_sha256 |-> HexHash(m.graph)],
   artifacts |-> [i \in DOMAIN m.artifacts |-> ArtifactJson(m.artifacts[i])]]

-----------------------------------------------------------------------------
(* What callers hand in: the parts of one claim, with one part replaced. *)

With(record, alternatives) ==
  UNION {{[record EXCEPT ![part] = v] : v \in alternatives[part]} :
           part \in DOMAIN alternatives}

Seals == {d.seal : d \in delivered}

SealSubmissions(d) ==
  {[seal |-> d.seal, journal |-> d.journal, claim |-> c, inputs |-> <<c>>] :
     c \in Digests \cup {d.claim}}
    \cup With([seal |-> d.seal, journal |-> d.journal, claim |-> d.claim,
               inputs |-> <<d.claim>>],
              [seal |-> Seals \cup {Tail(d.seal), Append(d.seal, 0)},
               journal |-> Journals \cup {Tail(d.journal)},
               inputs |-> {<< >>, <<d.claim, d.claim>>}
                            \cup {<<c>> : c \in Digests}])

PartSubmissions(d) ==
  With([selector |-> Selector, proof |-> ProofOf(d.seal), journal |-> d.journal,
        claim |-> d.claim, inputs |-> <<d.claim>>],
       [selector |-> {Selector, Tail(Selector), Append(Selector, 0)},
        proof |-> {Tail(ProofOf(d.seal)), d.seal},
        claim |-> {Tail(d.claim)}])

Pin == [i \in 1..DigestLen |-> IF i = 1 THEN 1 ELSE 0]

(* The characters of the names that callers try, and others they use. *)
Chars ==
  (UNION {Range(text) : text \in Names \cup Repositories \cup {Repository}})
    \cup Range(Kinds) \cup {"v", "/", "/releases/download/", "elsewhere"}

ASSUME TextAssumption ==
  Names \cup Repositories \cup {Repository} \subseteq Seq(Chars)

Artifact(kind, sha256, len) ==
  LET a == [kind |-> kind, repository |-> Repository, commit |-> "hex",
            tag |-> <<"v">>, file |-> <<kind>>, url |-> << >>,
            sha256 |-> sha256, len |-> len] IN
  [a EXCEPT !.url = ReleaseUrl(a)]

Graph == Sha256("graph", << >>)

ArtifactsFor(receipt) ==
  [i \in DOMAIN Kinds |->
     IF Kinds[i] = "boundless_seal"
     THEN Artifact(Kinds[i], Sha256("seal", SealOf(receipt)),
                   Len(Selector) + ProofLen)
     ELSE IF Kinds[i] = "bitvm2_graph" THEN Artifact(Kinds[i], Graph, 9)
     ELSE Artifact(Kinds[i], Sha256(Kinds[i], << >>), 1)]

ParamsFor(receipt) ==
  [network |-> "signet", nonce |-> Pin, statement |-> receipt.journal,
   image |-> Pin, claim |-> receipt.claim,
   request |-> [chain |-> "sepolia", market |-> Pin, id |-> Pin, commit |-> "hex"],
   verifyingKey |-> Pin, graph |-> Graph, inputCount |-> 1,
   scalar |-> receipt.claim, artifacts |-> ArtifactsFor(receipt)]

(* An artifact filed elsewhere, at a URL that matches or not. *)
Refiled(a) ==
  {[b EXCEPT !.url = ReleaseUrl(b)] :
     b \in {[a EXCEPT !.repository = r] : r \in Repositories}
             \cup {[a EXCEPT !.tag = names[1], !.file = names[2]] :
                      names \in Names \X Names}}
    \cup With(a, [commit |-> {"main"}, url |-> {<<"elsewhere">>}, len |-> {0},
                  sha256 |-> {NoHash}])

ArtifactLists(artifacts) ==
  {Reverse(artifacts), Tail(artifacts)}
    \cup {Append(artifacts, [artifacts[i] EXCEPT !.sha256 = Sha256("other", << >>)]) :
            i \in {7, 8}}
    \cup {[artifacts EXCEPT ![i].kind = artifacts[1].kind] : i \in {2}}
    \cup {[artifacts EXCEPT ![i].sha256 = Sha256("other", << >>)] : i \in {7, 8}}
    \cup {[artifacts EXCEPT ![7].len = 1]}
    \cup {[artifacts EXCEPT ![1] = a] : a \in Refiled(artifacts[1])}

Params(receipt) ==
  LET p == ParamsFor(receipt) IN
  With(p, [network |-> BitcoinNetworks, nonce |-> {Zero},
           statement |-> Journals, image |-> {Zero}, claim |-> {Zero, Pin},
           request |-> With(p.request, [chain |-> {"base sepolia", "mainnet"},
                                        market |-> {Zero}, id |-> {Zero},
                                        commit |-> {"main"}]),
           verifyingKey |-> {Zero},
           graph |-> {NoHash, Sha256("other", << >>)},
           inputCount |-> {0, 2}, scalar |-> Digests,
           artifacts |-> ArtifactLists(p.artifacts)])

-----------------------------------------------------------------------------
Init ==
  /\ delivered = {}
  /\ receipts = {}
  /\ manifests = {}

Deliver(journal, proof) ==
  /\ Cardinality(delivered) < MaxDelivered
  /\ delivered' = delivered \cup {[seal |-> Selector \o proof, journal |-> journal,
                                  claim |-> ClaimDigest[journal]]}
  /\ UNCHANGED <<receipts, manifests>>

Parsed(receipt) ==
  /\ receipts' = receipts \cup {receipt}
  /\ UNCHANGED <<delivered, manifests>>

ParseSeal(d) ==
  /\ Cardinality(receipts) < MaxReceipts
  /\ \E s \in SealSubmissions(d) :
       /\ SealParses(s.seal, s.journal, s.claim, s.inputs)
       /\ Parsed(Receipt(s.journal, s.claim, ProofOf(s.seal)))

ParseParts(d) ==
  /\ Cardinality(receipts) < MaxReceipts
  /\ \E s \in PartSubmissions(d) :
       /\ PartsParse(s.selector, s.proof, s.journal, s.claim, s.inputs)
       /\ Parsed(Receipt(s.journal, s.claim, s.proof))

New(receipt, other) ==
  /\ Cardinality(manifests) < MaxManifests
  /\ \E p \in Params(other) :
       /\ Accepts(p, receipt)
       /\ manifests' = manifests \cup {[params |-> p, receipt |-> receipt,
                                       manifest |-> Manifest(p, receipt)]}
  /\ UNCHANGED <<delivered, receipts>>

Next ==
  \/ \E journal \in Journals, proof \in RawProofs : Deliver(journal, proof)
  \/ \E d \in delivered : ParseSeal(d) \/ ParseParts(d)
  \/ \E receipt, other \in receipts : New(receipt, other)

Spec == Init /\ [][Next]_vars

-----------------------------------------------------------------------------
(* Properties *)

(* A big-endian integer. *)
Value(bytes) ==
  LET value[i \in 0..Len(bytes)] ==
        IF i = 0 THEN 0 ELSE value[i - 1] * (MaxByte + 1) + bytes[i] IN
  value[Len(bytes)]

(* Two manifests whose graphs verify the same element of the scalar field  *)
(* are about the same claim, and it is the receipt's: no byte string is an *)
(* alias of another's scalar (CanonicalPublicScalar, parse_parts, new).    *)
OneClaimPerScalar ==
  \A m, n \in manifests :
    Value(m.params.scalar) % Value(Modulus) = Value(n.manifest.scalar) % Value(Modulus)
      => m.manifest.claim = n.receipt.claim

(* A manifest lists every required kind exactly once, and what it lists as *)
(* the seal and as the graph is the parsed receipt's seal and the graph    *)
(* the verifier is bound to: no unchecked second entry hides in the list   *)
(* (the order of the checks in Bitvm2ClaimManifestV1::new).                *)
CheckedArtifacts ==
  \A m \in manifests :
    LET artifacts == m.manifest.artifacts IN
    /\ Len(artifacts) = Len(Kinds)
    /\ {artifacts[i].kind : i \in DOMAIN artifacts} = Range(Kinds)
    /\ \A i \in DOMAIN artifacts :
         /\ artifacts[i].kind = "boundless_seal"
              => artifacts[i].sha256 = Sha256("seal", SealOf(m.receipt))
         /\ artifacts[i].kind = "bitvm2_graph"
              => artifacts[i].sha256 = m.manifest.graph

(* The parameters that a reader of a published document fills in. *)
DecodeHex(digits) ==
  [i \in 1..Len(digits) \div 2 |-> digits[2 * i - 1] * Nibble + digits[2 * i]]

ArtifactOf(j) ==
  [kind |-> j.kind, repository |-> j.github_repository, commit |-> j.git_commit,
   tag |-> j.release_tag, file |-> j.file_name, url |-> j.download_url,
   sha256 |-> j.sha256.hex, len |-> j.byte_len]

ReadParams(j) ==
  [network |-> j.bitcoin_network, nonce |-> DecodeHex(j.contract_nonce),
   statement |-> DecodeHex(j.statement_digest),
   image |-> DecodeHex(j.risc0_image_id),
   claim |-> DecodeHex(j.boundless.claim_digest),
   request |-> [chain |-> j.boundless.request.chain_id,
                market |-> DecodeHex(j.boundless.request.market_contract),
                id |-> DecodeHex(j.boundless.request.request_id),
                commit |-> j.boundless.request.boundless_git_commit],
   verifyingKey |-> DecodeHex(j.boundless.verifying_key_sha256),
   graph |-> j.bitvm2.graph_sha256.hex,
   inputCount |-> j.bitvm2.public_input_count,
   scalar |-> DecodeHex(j.boundless.public_inputs[1]),
   artifacts |-> [i \in DOMAIN j.artifacts |-> ArtifactOf(j.artifacts[i])]]

(* Whoever holds a published document and the receipt can check all of it  *)
(* again: new accepts the parameters read back, their artifacts listed in  *)
(* either order, and makes the very same manifest of them, so publishing   *)
(* loses nothing and the order artifacts came in is forgotten              *)
(* (to_json_value, encode_hex, the sort at the end of new).                *)
RebuiltFromJson ==
  \A m \in manifests :
    LET p == ReadParams(ToJson(m.manifest))
        reversed == [p EXCEPT !.artifacts = Reverse(@)] IN
    /\ Accepts(p, m.receipt) /\ Manifest(p, m.receipt) = m.manifest
    /\ Accepts(reversed, m.receipt) /\ Manifest(reversed, m.receipt) = m.manifest

(* A download URL names one file of one release of one repository, in all  *)
(* manifests ever published: the parts it is built of cannot run together  *)
(* (validate_github_repository, is_safe_release_component).                *)
UrlNamesOneRelease ==
  \A m, n \in manifests :
    \A a \in Range(m.manifest.artifacts), b \in Range(n.manifest.artifacts) :
      a.url = b.url =>
        <<a.repository, a.tag, a.file>> = <<b.repository, b.tag, b.file>>

(* The verifier program built for a manifest: the raw proof is its only    *)
(* input and everything else is fixed in it.                               *)
Verifier(m) ==
  [target |-> "signet", inputs |-> <<[kind |-> "proof", len |-> Len(m.receipt.proof)]>>,
   bindings |-> [selector |-> Selector, risc0_image_id |-> m.manifest.image,
                 verifying_key_digest |-> m.manifest.verifyingKey,
                 expected_public_scalar |-> m.manifest.scalar]]

(* Whatever manifest is published, the BitVMX gates find nothing wrong     *)
(* with the input and the bindings of the verifier built for it: the two   *)
(* halves of the path agree on lengths and on placeholders.                *)
FeedsGates ==
  \A m \in manifests :
    InputFailures(Verifier(m).inputs) \cup BindingFailures(Verifier(m).bindings) = {}
=============================================================================
