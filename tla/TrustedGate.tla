----------------------------- MODULE TrustedGate -----------------------------
(***************************************************************************)
(* trusted-cosigner-gate.js: the independent verifier that signs what it   *)
(* derives from artifact bytes, and the trusted cosigner gates that hand   *)
(* out a settlement signature package for an operator's proposal.          *)
(*                                                                         *)
(* A gate keeps one piece of state, the set of nonces it has spent, in the *)
(* memory of the closure that also holds its keys.  A process restart is   *)
(* therefore a new gate: fresh challenger and state-signer keys, hence a   *)
(* fresh policy hash, and an empty nonce set.  The verifier outlives gates *)
(* and remembers nothing: it signs every request it is given, also one     *)
(* under a policy that somebody else composed (buildRoguePolicy).          *)
(*                                                                         *)
(* Abstractions: SHA-256 and the policy hash are injective, so a digest is *)
(* the value digested; keys are named by the gate that drew them; only the *)
(* verifier signs with the verifier's key, and the holder of another key   *)
(* may have signed anything with that.                                     *)
(***************************************************************************)
EXTENDS Naturals, Sequences, FiniteSets

CONSTANTS
  Networks, Network,     \* network labels; the one the policy pins
  Claims,                \* canonical claim inputs
  Proofs, Checks,        \* proof and Shinigami artifact bytes
  Materials,             \* the artifact triples anybody can present
  HonestProof,           \* registered claim -> the proof bytes that verify it
  HonestCheck,           \* the Shinigami artifact that verifies
  Cases, PinnedClaim,    \* case labels; pinned case -> registered claim
  Nonces,                \* request nonces
  Operators, Operator,   \* operator keys; the one the policy pins
  Malformed,             \* an input that fails normalisation
  ForeignCores,          \* policies that no gate's owner composed
  MaxGates,              \* bound: gates ever created
  MaxAttestations        \* bound: requests the verifier ever signs

Registered == DOMAIN HonestProof

ASSUME NetworkAssumption == Network \in Networks
ASSUME OperatorAssumption == Operator \in Operators
ASSUME MaterialAssumption ==
  Materials \subseteq [claim : Claims, proof : Proofs, check : Checks]
ASSUME HonestAssumption ==
  /\ HonestProof \in [Registered -> Proofs]
  /\ Registered \subseteq Claims
  /\ HonestCheck \in Checks
ASSUME PinAssumption ==
  /\ DOMAIN PinnedClaim \subseteq Cases
  /\ PinnedClaim \in [DOMAIN PinnedClaim -> Registered]
ASSUME MalformedAssumption == Malformed \notin Claims
ASSUME BoundAssumption == MaxGates \in Nat /\ MaxAttestations \in Nat

VARIABLES
  gates,      \* number of gates created so far
  attested,   \* every attestation the independent verifier has signed
  spent,      \* spent[g]: consumedAttestationNonces of gate g
  issued      \* the settlement packages handed out, oldest first

vars == <<gates, attested, spent, issued>>

-----------------------------------------------------------------------------
(* Facts and artifacts *)

FactKeys == {"claim_binding_matches", "pinned_stwo_statement_verified",
             "shinigami_engine_check_verified"}

Facts == [FactKeys -> BOOLEAN]

ASSUME MalformedFactsAssumption == Malformed \notin Facts

AllFactsTrue(facts) == \A key \in FactKeys : facts[key] = TRUE

(* Mutant of FactsFor: any registered claim's proof will do. *)
FactsForAnyProof(material) ==
  [key \in FactKeys |->
     \/ /\ key = "claim_binding_matches"
        /\ material.claim \in Registered
     \/ /\ key = "pinned_stwo_statement_verified"
        /\ \E claim \in Registered : material.proof = HonestProof[claim]
     \/ /\ key = "shinigami_engine_check_verified"
        /\ material.check = HonestCheck]

(* What the verifier concludes from the bytes, and from nothing else. *)
FactsFor(material) ==
  [key \in FactKeys |->
     \/ /\ key = "claim_binding_matches"
        /\ material.claim \in Registered
     \/ /\ key = "pinned_stwo_statement_verified"
        /\ material.claim \in Registered
        /\ material.proof = HonestProof[material.claim]
     \/ /\ key = "shinigami_engine_check_verified"
        /\ material.check = HonestCheck]

-----------------------------------------------------------------------------
(* Keys and policies *)

ForeignKey == 0     \* a key no gate drew
VerifierKey == "independent verifier"
ForeignVerifier == "other verifier"
Keys == 0..MaxGates

(* Mutant of PolicyCore: a restarted gate loads the keys of the first one. *)
PolicyCoreKeysKept(g) ==
  [network |-> Network, operator |-> Operator, challenger |-> 1,
   stateSigner |-> 1, factProvider |-> VerifierKey,
   claimInputs |-> PinnedClaim, terms |-> "pinned"]

(* The core of gate g's policy: its keys are drawn when g is created. *)
PolicyCore(g) ==
  [network |-> Network, operator |-> Operator, challenger |-> g,
   stateSigner |-> g, factProvider |-> VerifierKey,
   claimInputs |-> PinnedClaim, terms |-> "pinned"]

MakePolicy(core) == [kind |-> "trusted cosigner", core |-> core, hash |-> core]

Policy(g) == MakePolicy(PolicyCore(g))

PolicyHashes == {PolicyCore(g) : g \in 1..MaxGates}

(* Anybody can compose a policy, of keys of his own and of public keys of  *)
(* gates and verifier, and have the verifier sign requests under it.       *)
ASSUME ForeignAssumption ==
  ForeignCores \subseteq
    [network : Networks, operator : Operators, challenger : Keys,
     stateSigner : Keys, factProvider : {VerifierKey, ForeignVerifier},
     claimInputs : [DOMAIN PinnedClaim -> Claims], terms : {"pinned", "altered"}]

(* The policies there are: a key can be named once it has been drawn.      *)
KnownCores ==
  {PolicyCore(g) : g \in 1..gates}
    \cup {core \in ForeignCores :
            {core.challenger, core.stateSigner} \subseteq 0..gates}

PolicyValidation(proposed, trusted) ==
  /\ proposed.kind = trusted.kind
  /\ proposed.hash = proposed.core
  /\ proposed.hash = trusted.hash
  /\ proposed.core = trusted.core

-----------------------------------------------------------------------------
(* The independent verifier *)

Context(hash, network, case, nonce) ==
  [policyHash |-> hash, network |-> network, caseId |-> case,
   requestNonce |-> nonce]

Attestation(material, context) ==
  [verifierKeyId |-> VerifierKey, policyHash |-> context.policyHash,
   network |-> context.network, caseId |-> context.caseId,
   requestNonce |-> context.requestNonce, artifactBundle |-> material,
   claimInput |-> material.claim, facts |-> FactsFor(material)]

Contexts ==
  {Context(hash, network, case, nonce) :
     hash \in KnownCores, network \in Networks, case \in Cases,
     nonce \in Nonces}

Attest(material, context) ==
  /\ Cardinality(attested) < MaxAttestations
  /\ attested' = attested \cup {Attestation(material, context)}
  /\ UNCHANGED <<gates, spent, issued>>

(* Mutant of SignatureVerifies: the key id is taken for the signature. *)
SignatureAssumed(attestation, key) == attestation.verifierKeyId = key

(* Under the verifier's key only what the verifier signed verifies; under  *)
(* another one whatever its holder chose to sign.                          *)
SignatureVerifies(attestation, key) ==
  key = VerifierKey => attestation \in attested

-----------------------------------------------------------------------------
(* The gate's checks, in the order evaluateUnchecked makes them.  A check  *)
(* that throws in the code is caught by evaluate and rejects as well.      *)

(* Mutant of VerifyIndependentAttestation: the claimed hashes are not      *)
(* compared with those derived from the bytes.                             *)
VerifyWithoutClaimedBundle(g, p) ==
  LET a == p.attestation
      policy == PolicyCore(g) IN
  /\ a.verifierKeyId = policy.factProvider
  /\ a.policyHash = policy
  /\ a.network = policy.network
  /\ a.caseId = p.caseId
  /\ a.requestNonce = p.requestNonce
  /\ a.artifactBundle = p.material
  /\ a.claimInput = p.material.claim
  /\ SignatureVerifies(a, policy.factProvider)

VerifyIndependentAttestation(g, p) ==
  LET a == p.attestation
      policy == PolicyCore(g) IN
  /\ p.claimedBundle = p.material
  /\ a.verifierKeyId = policy.factProvider
  /\ a.policyHash = policy
  /\ a.network = policy.network
  /\ a.caseId = p.caseId
  /\ a.requestNonce = p.requestNonce
  /\ a.artifactBundle = p.material
  /\ a.claimInput = p.material.claim
  /\ SignatureVerifies(a, policy.factProvider)

(* Every gate's policy pins the same claims (claimInputs of PolicyCore).   *)
(* Mutant of ClaimDigestMatches: the pinned claim is compared with the     *)
(* proposal's claim input only, not with the attested bundle's.            *)
ClaimInputMatches(p) ==
  /\ p.caseId \in DOMAIN PinnedClaim
  /\ p.claimInput = PinnedClaim[p.caseId]

ClaimDigestMatches(p) ==
  /\ p.caseId \in DOMAIN PinnedClaim
  /\ p.claimInput = PinnedClaim[p.caseId]
  /\ p.claimInput = p.material.claim

(* The graph is signed with the secret the caller passes in; it cannot be  *)
(* finalised when that is not the secret of the pinned operator.           *)
GraphVerifies(g, p) == p.operatorSecret = PolicyCore(g).operator

(* Mutant of NonceUnspent: one nonce set shared by all gates. *)
NonceUnspentAnywhere(g, p) ==
  \A h \in 1..MaxGates : p.requestNonce \notin spent[h]

NonceUnspent(g, p) == p.requestNonce \notin spent[g]

CheckOrder ==
  <<"policy", "operator key", "challenger key", "state signer key",
    "disclosures", "claim input", "attestation", "nonce", "claim digest",
    "disclosed facts", "facts", "graph">>

Passes(g, p, check) ==
  CASE check = "policy"           -> PolicyValidation(p.proposedPolicy, Policy(g))
    [] check = "operator key"     -> p.operator = PolicyCore(g).operator
    [] check = "challenger key"   -> p.challenger = PolicyCore(g).challenger
    [] check = "state signer key" -> p.stateSigner = PolicyCore(g).stateSigner
    [] check = "disclosures"      -> p.disclosures # Malformed
    [] check = "claim input"      -> p.claimInput # Malformed
    [] check = "attestation"      -> VerifyIndependentAttestation(g, p)
    [] check = "nonce"            -> NonceUnspent(g, p)
    [] check = "claim digest"     -> ClaimDigestMatches(p)
    [] check = "disclosed facts"  -> p.disclosures = p.attestation.facts
    [] check = "facts"            -> AllFactsTrue(p.attestation.facts)
    [] check = "graph"            -> GraphVerifies(g, p)

Admissible(g, p) ==
  \A i \in 1..Len(CheckOrder) : Passes(g, p, CheckOrder[i])

(* The reason a rejection reports: the first check that fails. *)
Reason(g, p) ==
  CheckOrder[CHOOSE i \in 1..Len(CheckOrder) :
               /\ ~Passes(g, p, CheckOrder[i])
               /\ \A j \in 1..i-1 : Passes(g, p, CheckOrder[j])]

(* What the state signer and both settlement signatures commit to. *)
Package(g, p) ==
  [policyHash |-> PolicyCore(g), caseId |-> p.caseId,
   claimInput |-> p.claimInput, artifactBundle |-> p.material,
   attestation |-> p.attestation, requestNonce |-> p.requestNonce,
   facts |-> p.attestation.facts, disclosures |-> p.disclosures]

(* Mutant of Evaluate: the nonce is spent once the attestation verifies,   *)
(* before the checks that can still reject.                                *)
EvaluateSpendingEarly(g, p) ==
  /\ spent' = IF VerifyIndependentAttestation(g, p)
              THEN [spent EXCEPT ![g] = @ \cup {p.requestNonce}] ELSE spent
  /\ issued' = IF Admissible(g, p) THEN Append(issued, Package(g, p)) ELSE issued
  /\ UNCHANGED <<gates, attested>>

(* Mutant of Evaluate: the package is issued and the nonce forgotten. *)
EvaluateWithoutSpending(g, p) ==
  /\ Admissible(g, p)
  /\ issued' = Append(issued, Package(g, p))
  /\ UNCHANGED <<gates, attested, spent>>

Evaluate(g, p) ==
  IF Admissible(g, p)
  THEN /\ issued' = Append(issued, Package(g, p))
       /\ spent' = [spent EXCEPT ![g] = @ \cup {p.requestNonce}]
       /\ UNCHANGED <<gates, attested>>
  ELSE UNCHANGED vars

CreateTrustedGate ==
  /\ gates < MaxGates
  /\ gates' = gates + 1
  /\ spent' = [spent EXCEPT ![gates + 1] = {}]
  /\ UNCHANGED <<attested, issued>>

-----------------------------------------------------------------------------
(* Proposals: proposalFor builds one around an attestation, with whatever  *)
(* disclosures the operator chooses, and lets the caller override a part.  *)

ClaimFor(case) ==
  IF case \in DOMAIN PinnedClaim THEN PinnedClaim[case] ELSE Malformed

ProposalFor(g, attestation, disclosures) ==
  [caseId |-> attestation.caseId, disclosures |-> disclosures,
   claimInput |-> ClaimFor(attestation.caseId),
   material |-> attestation.artifactBundle,
   claimedBundle |-> attestation.artifactBundle, attestation |-> attestation,
   requestNonce |-> attestation.requestNonce, proposedPolicy |-> Policy(g),
   operator |-> Operator, challenger |-> PolicyCore(g).challenger,
   stateSigner |-> PolicyCore(g).stateSigner, operatorSecret |-> Operator]

(* An attestation that somebody other than the verifier filled in. *)
UnsignedAttestations(g, a) ==
  {[a EXCEPT !.facts = f] : f \in Facts}
    \cup {[a EXCEPT !.requestNonce = n] : n \in Nonces}
    \cup {[a EXCEPT !.artifactBundle = m] : m \in Materials}
    \cup {[a EXCEPT !.policyHash = PolicyCore(g)],
          [a EXCEPT !.verifierKeyId = ForeignVerifier]}

PolicyDocuments(g) ==
  LET altered == [PolicyCore(g) EXCEPT !.terms = "altered"] IN
  {Policy(h) : h \in 1..gates}
    \cup {MakePolicy(core) : core \in ForeignCores}
    \cup {MakePolicy(altered), [Policy(g) EXCEPT !.core = altered],
          [Policy(g) EXCEPT !.hash = altered], [Policy(g) EXCEPT !.kind = "other"]}

Alternatives(g, p) ==
  [caseId |-> Cases, disclosures |-> Facts \cup {Malformed},
   claimInput |-> Claims \cup {Malformed}, material |-> Materials,
   claimedBundle |-> Materials,
   attestation |-> attested \cup UnsignedAttestations(g, p.attestation),
   requestNonce |-> Nonces, proposedPolicy |-> PolicyDocuments(g),
   operator |-> Operators, challenger |-> Keys, stateSigner |-> Keys,
   operatorSecret |-> Operators]

AllTrue == [key \in FactKeys |-> TRUE]

WithOverride(g, p) ==
  UNION {{[p EXCEPT ![part] = v] : v \in Alternatives(g, p)[part]} :
           part \in DOMAIN p}

Proposals(g) ==
  UNION {WithOverride(g, ProposalFor(g, a, a.facts))
           \cup WithOverride(g, ProposalFor(g, a, AllTrue)) : a \in attested}

-----------------------------------------------------------------------------
Init ==
  /\ gates = 0
  /\ attested = {}
  /\ spent = [g \in 1..MaxGates |-> {}]
  /\ issued = << >>

Next ==
  \/ CreateTrustedGate
  \/ \E material \in Materials, context \in Contexts : Attest(material, context)
  \/ \E g \in 1..gates : \E p \in Proposals(g) : Evaluate(g, p)

Spec == Init /\ [][Next]_vars
-----------------------------------------------------------------------------
(* Properties *)

(* Everything the verifier can sign, and every package a gate can issue. *)
Attestations ==
  {Attestation(material, Context(core, network, case, nonce)) :
     material \in Materials, core \in PolicyHashes \cup ForeignCores,
     network \in Networks, case \in Cases, nonce \in Nonces}

Packages ==
  [policyHash : PolicyHashes, caseId : DOMAIN PinnedClaim, claimInput : Claims,
   artifactBundle : Materials, attestation : Attestations,
   requestNonce : Nonces, facts : Facts, disclosures : Facts]

(* The state's types: in particular only what the verifier itself derived  *)
(* from bytes is ever signed or packaged (createIndependentVerifier).      *)
TypeOK ==
  /\ gates \in 0..MaxGates
  /\ attested \subseteq Attestations
  /\ spent \in [1..MaxGates -> SUBSET Nonces]
  /\ issued \in Seq(Packages)

(* No attestation of the verifier ever justifies two packages, whichever   *)
(* gates it was shown to: a gate's memory of its nonces dies with it, so   *)
(* this rests on the keys drawn by createTrustedGate as well.              *)
AttestationUsedOnce ==
  \A i, j \in 1..Len(issued) :
    issued[i].attestation = issued[j].attestation => i = j

(* The artifacts make every fact true for the claim the policy pins. *)
Justified(case, material) ==
  /\ case \in DOMAIN PinnedClaim
  /\ material.claim = PinnedClaim[case]
  /\ material.proof = HonestProof[material.claim]
  /\ material.check = HonestCheck

(* Every package rests on artifacts that really establish the claim its    *)
(* case pins, on an attestation the verifier signed for this very policy,  *)
(* case and nonce, and on the operator having disclosed the same facts.    *)
AdmittedOnTruth ==
  \A i \in 1..Len(issued) :
    LET k == issued[i] IN
    /\ Justified(k.caseId, k.artifactBundle)
    /\ k.attestation = Attestation(k.artifactBundle,
                         Context(k.policyHash, Network, k.caseId, k.requestNonce))
    /\ k.attestation \in attested
    /\ k.claimInput = PinnedClaim[k.caseId]
    /\ k.facts = FactsFor(k.artifactBundle)
    /\ k.disclosures = k.facts

IssuedUnder(g, nonce) ==
  \E i \in 1..Len(issued) : /\ issued[i].policyHash = PolicyCore(g)
                            /\ issued[i].requestNonce = nonce

(* A gate's nonce is spent exactly when it has signed a package for it:    *)
(* neither a rejection nor a failed graph build uses one up, and no        *)
(* package leaves a nonce open.                                            *)
SpentIffIssued ==
  \A g \in 1..MaxGates, nonce \in Nonces :
    nonce \in spent[g] <=> IssuedUnder(g, nonce)

(* Taken together the checks leave no part of a proposal free: the only    *)
(* proposal admitted for an attestation is the one proposalFor builds from *)
(* it with the verifier's own facts.  Every override is refused.           *)
NoPartUnchecked ==
  \A g \in 1..gates : \A p \in Proposals(g) :
    Admissible(g, p) => p = ProposalFor(g, p.attestation, p.attestation.facts)

(* Whatever was evaluated before, a justified request with an unspent      *)
(* nonce is still admitted: earlier rejections cannot block it.            *)
HonestNeverBlocked ==
  \A g \in 1..gates : \A a \in attested :
    (/\ a.policyHash = PolicyCore(g)
     /\ a.network = Network
     /\ Justified(a.caseId, a.artifactBundle)
     /\ ~IssuedUnder(g, a.requestNonce))
    => Admissible(g, ProposalFor(g, a, a.facts))

(* Presenting an admitted proposal again to its gate passes every check up *)
(* to the nonce and is refused there: the nonce set is the only thing      *)
(* between a resubmission and a second package (runMatrix's replay test).  *)
ReplayReported ==
  \A i \in 1..Len(issued) :
    LET a == issued[i].attestation
        g == issued[i].policyHash.challenger
        replay == ProposalFor(g, a, a.facts) IN
    ~Admissible(g, replay) /\ Reason(g, replay) = "nonce"

-----------------------------------------------------------------------------
(* The ledger of AdmissionLedger, read off the packages. *)

Request(package) ==
  [policyHash |-> package.policyHash, requestNonce |-> package.requestNonce,
   caseId |-> package.caseId, artifactBundle |-> package.artifactBundle]

EligibleRequests ==
  {r \in [policyHash : PolicyHashes, requestNonce : Nonces,
          caseId : DOMAIN PinnedClaim, artifactBundle : Materials] :
     Justified(r.caseId, r.artifactBundle)}

Ledger == INSTANCE AdmissionLedger WITH
            Eligible <- EligibleRequests,
            ledger <- [i \in 1..Len(issued) |-> Request(issued[i])]

(* The gates together implement the ledger: a package is granted only to   *)
(* an eligible request and at most once per policy and nonce.              *)
ImplementsLedger == Ledger!Spec
=============================================================================
