-------------------------- MODULE TrustedGateProofs --------------------------
(***************************************************************************)
(* The gate's safety properties for any sets of claims, artifacts, cases,  *)
(* nonces and operators, and any number of gates and attestations.         *)
(***************************************************************************)
EXTENDS EvidenceAudit, SequenceTheorems, TLAPS

(* The package that the checks allow for a material, case and nonce. *)
PackageFor(g, material, case, nonce) ==
  LET attestation == Attestation(material,
                       Context(PolicyCore(g), Network, case, nonce)) IN
  [policyHash |-> PolicyCore(g), caseId |-> case,
   claimInput |-> PinnedClaim[case], artifactBundle |-> material,
   attestation |-> attestation, requestNonce |-> nonce,
   facts |-> FactsFor(material), disclosures |-> FactsFor(material)]

(* A proposal that is admitted passed every check.  This is what the rest  *)
(* of the module knows about evaluate.                                     *)
LEMMA AdmissibleChecks ==
  ASSUME NEW g, NEW p, Admissible(g, p)
  PROVE  /\ VerifyIndependentAttestation(g, p)
         /\ NonceUnspent(g, p)
         /\ ClaimDigestMatches(p)
         /\ p.disclosures = p.attestation.facts
         /\ AllFactsTrue(p.attestation.facts)
  <1>1. /\ Len(CheckOrder) = 12
        /\ CheckOrder[7] = "attestation"
        /\ CheckOrder[8] = "nonce"
        /\ CheckOrder[9] = "claim digest"
        /\ CheckOrder[10] = "disclosed facts"
        /\ CheckOrder[11] = "facts"
    BY DEF CheckOrder
  <1>2. /\ Passes(g, p, "attestation")
        /\ Passes(g, p, "nonce")
        /\ Passes(g, p, "claim digest")
        /\ Passes(g, p, "disclosed facts")
        /\ Passes(g, p, "facts")
    <2>1. \A i \in 1..12 : Passes(g, p, CheckOrder[i])
      BY <1>1 DEF Admissible
    <2>2. /\ Passes(g, p, CheckOrder[7])
          /\ Passes(g, p, CheckOrder[8])
          /\ Passes(g, p, CheckOrder[9])
          /\ Passes(g, p, CheckOrder[10])
          /\ Passes(g, p, CheckOrder[11])
      <3> HIDE DEF Passes, CheckOrder
      <3> QED BY <2>1
    <2>3. QED
      BY <1>1, <2>2, Zenon
  <1>3. Passes(g, p, "attestation") = VerifyIndependentAttestation(g, p)
    BY Zenon DEF Passes
  <1>4. Passes(g, p, "nonce") = NonceUnspent(g, p)
    BY Zenon DEF Passes
  <1>5. Passes(g, p, "claim digest") = ClaimDigestMatches(p)
    BY Zenon DEF Passes
  <1>6. Passes(g, p, "disclosed facts") = (p.disclosures = p.attestation.facts)
    BY Zenon DEF Passes
  <1>7. Passes(g, p, "facts") = AllFactsTrue(p.attestation.facts)
    BY Zenon DEF Passes
  <1>8. QED
    BY <1>2, <1>3, <1>4, <1>5, <1>6, <1>7

(* The verifier's facts are all true only for artifacts that establish the *)
(* claim they carry.                                                       *)
LEMMA TrueFactsJustify ==
  ASSUME NEW case \in DOMAIN PinnedClaim, NEW material \in Materials,
         material.claim = PinnedClaim[case],
         AllFactsTrue(FactsFor(material))
  PROVE  Justified(case, material)
  <1>1. /\ FactsFor(material)["pinned_stwo_statement_verified"] = TRUE
        /\ FactsFor(material)["shinigami_engine_check_verified"] = TRUE
    BY DEF AllFactsTrue, FactKeys
  <1>2. FactsFor(material)["pinned_stwo_statement_verified"]
          => material.proof = HonestProof[material.claim]
    BY DEF FactsFor, FactKeys
  <1>3. FactsFor(material)["shinigami_engine_check_verified"]
          => material.check = HonestCheck
    BY DEF FactsFor, FactKeys
  <1>4. QED
    BY <1>1, <1>2, <1>3 DEF Justified

(* Gates have different policies: the keys in them are their own. *)
LEMMA PolicyInjective ==
  ASSUME NEW g, NEW h, PolicyCore(g) = PolicyCore(h)
  PROVE  g = h
  BY DEF PolicyCore

LEMMA FactsForType ==
  ASSUME NEW material
  PROVE  FactsFor(material) \in Facts
  BY DEF FactsFor, Facts


(* An admitted proposal yields exactly the package determined by the       *)
(* verifier's attestation, for an unspent nonce and justified artifacts.   *)
LEMMA AdmittedPackage ==
  ASSUME TypeOK, NEW g \in 1..gates, NEW p, Admissible(g, p)
  PROVE  \E material \in Materials, case \in DOMAIN PinnedClaim, nonce \in Nonces :
           /\ Package(g, p) = PackageFor(g, material, case, nonce)
           /\ p.requestNonce = nonce
           /\ nonce \notin spent[g]
           /\ Justified(case, material)
           /\ PackageFor(g, material, case, nonce).attestation \in attested
  <1> DEFINE a == p.attestation
  <1>1. /\ a \in attested
        /\ a.policyHash = PolicyCore(g)
        /\ a.network = Network
        /\ a.caseId = p.caseId
        /\ a.requestNonce = p.requestNonce
        /\ a.artifactBundle = p.material
        /\ p.requestNonce \notin spent[g]
        /\ p.caseId \in DOMAIN PinnedClaim
        /\ p.claimInput = PinnedClaim[p.caseId]
        /\ p.claimInput = p.material.claim
        /\ p.disclosures = a.facts
        /\ AllFactsTrue(a.facts)
    <2>1. /\ PolicyCore(g).network = Network
          /\ PolicyCore(g).factProvider = VerifierKey
      BY DEF PolicyCore
    <2>2. QED
      BY <2>1, AdmissibleChecks
         DEF VerifyIndependentAttestation, SignatureVerifies, NonceUnspent,
             ClaimDigestMatches
  <1>2. PICK material \in Materials, core \in PolicyHashes \cup ForeignCores,
             network \in Networks, case \in Cases, nonce \in Nonces :
               a = Attestation(material, Context(core, network, case, nonce))
    BY <1>1 DEF TypeOK, Attestations
  <1>3. /\ a.policyHash = core
        /\ a.network = network
        /\ a.caseId = case
        /\ a.requestNonce = nonce
        /\ a.artifactBundle = material
        /\ a.facts = FactsFor(material)
    BY <1>2 DEF Attestation, Context
  <1>4. /\ p.caseId = case
        /\ p.requestNonce = nonce
        /\ p.material = material
        /\ p.disclosures = FactsFor(material)
        /\ p.claimInput = PinnedClaim[case]
        /\ case \in DOMAIN PinnedClaim
    BY <1>1, <1>3
  <1>5. a = Attestation(material, Context(PolicyCore(g), Network, case, nonce))
    BY <1>1, <1>2, <1>3
  <1>6. Justified(case, material)
    BY <1>1, <1>3, <1>4, TrueFactsJustify
  <1>7. Package(g, p) = PackageFor(g, material, case, nonce)
    BY <1>3, <1>4, <1>5 DEF Package, PackageFor
  <1>8. PackageFor(g, material, case, nonce).attestation = a
    BY <1>5 DEF PackageFor
  <1>9. QED
    BY <1>1, <1>3, <1>4, <1>6, <1>7, <1>8

-----------------------------------------------------------------------------
(* The inductive invariant: the properties, and the two facts they lean    *)
(* on.  Within a gate a nonce names one package, and a gate that does not  *)
(* exist yet has spent nothing.                                            *)

NonceNamesOnePackage ==
  \A i, j \in 1..Len(issued) :
    (/\ issued[i].policyHash = issued[j].policyHash
     /\ issued[i].requestNonce = issued[j].requestNonce) => i = j

FutureGatesFresh == \A g \in (gates + 1)..MaxGates : spent[g] = {}

IInv ==
  /\ TypeOK
  /\ AdmittedOnTruth
  /\ SpentIffIssued
  /\ NonceNamesOnePackage
  /\ FutureGatesFresh

(* The one change of state Evaluate can make. *)
Admit(g, p) ==
  /\ Admissible(g, p)
  /\ issued' = Append(issued, Package(g, p))
  /\ spent' = [spent EXCEPT ![g] = @ \cup {p.requestNonce}]
  /\ UNCHANGED <<gates, attested>>

(* Every step signs an attestation, creates a gate, admits a proposal or   *)
(* changes nothing.                                                        *)
LEMMA StepCases ==
  ASSUME [Next]_vars
  PROVE  \/ CreateTrustedGate
         \/ \E material \in Materials, context \in Contexts : Attest(material, context)
         \/ \E g \in 1..gates : \E p \in Proposals(g) : Admit(g, p)
         \/ UNCHANGED vars
  BY DEF Next, Evaluate, Admit

LEMMA PackageForType ==
  ASSUME NEW g \in 1..MaxGates, NEW material \in Materials,
         NEW case \in DOMAIN PinnedClaim, NEW nonce \in Nonces
  PROVE  PackageFor(g, material, case, nonce) \in Packages
  <1>1. PolicyCore(g) \in PolicyHashes
    BY DEF PolicyHashes
  <1>2. case \in Cases /\ PinnedClaim[case] \in Claims
    BY PinAssumption, HonestAssumption
  <1>3. Attestation(material, Context(PolicyCore(g), Network, case, nonce)) \in Attestations
    <2>1. PolicyCore(g) \in PolicyHashes \cup ForeignCores
      BY <1>1
    <2>2. \A core \in PolicyHashes \cup ForeignCores :
            Attestation(material, Context(core, Network, case, nonce)) \in Attestations
      BY <1>2, NetworkAssumption, SMT DEF Attestations
    <2>3. QED
      BY <2>1, <2>2, Zenon
  <1>4. FactsFor(material) \in Facts
    BY FactsForType
  <1>5. QED
    BY <1>1, <1>2, <1>3, <1>4 DEF PackageFor, Packages

LEMMA InitIInv ==
  ASSUME Init
  PROVE  IInv
  <1>1. issued = << >> /\ Len(issued) = 0 /\ issued \in Seq(Packages)
    BY EmptySeq DEF Init
  <1>2. gates \in 0..MaxGates
    BY BoundAssumption DEF Init
  <1>3. TypeOK
    BY <1>1, <1>2 DEF TypeOK, Init
  <1>4. AdmittedOnTruth /\ NonceNamesOnePackage
    BY <1>1 DEF AdmittedOnTruth, NonceNamesOnePackage
  <1>5. SpentIffIssued
    BY <1>1 DEF Init, SpentIffIssued, IssuedUnder
  <1>6. FutureGatesFresh
    BY DEF Init, FutureGatesFresh
  <1>7. QED
    BY <1>3, <1>4, <1>5, <1>6 DEF IInv

(* Signing adds an attestation of the right shape and touches nothing else. *)
LEMMA AttestStep ==
  ASSUME IInv, NEW material \in Materials, NEW context \in Contexts,
         Attest(material, context)
  PROVE  IInv'
  <1>1. /\ gates' = gates /\ spent' = spent /\ issued' = issued
        /\ attested' = attested \cup {Attestation(material, context)}
    BY DEF Attest
  <1>2. Attestation(material, context) \in Attestations
    <2>1. PICK core \in KnownCores, network \in Networks, case \in Cases, nonce \in Nonces :
            context = Context(core, network, case, nonce)
      BY DEF Contexts
    <2>2. core \in PolicyHashes \cup ForeignCores
      BY BoundAssumption DEF IInv, TypeOK, KnownCores, PolicyHashes
    <2>3. QED
      BY <2>1, <2>2 DEF Attestations
  <1>3. TypeOK'
    BY <1>1, <1>2 DEF IInv, TypeOK
  <1>4. AdmittedOnTruth'
    BY <1>1 DEF IInv, AdmittedOnTruth
  <1>5. SpentIffIssued' /\ NonceNamesOnePackage' /\ FutureGatesFresh'
    BY <1>1 DEF IInv, SpentIffIssued, IssuedUnder, NonceNamesOnePackage, FutureGatesFresh
  <1>6. QED
    BY <1>3, <1>4, <1>5 DEF IInv

(* A new gate starts with an empty nonce set, which is what no package     *)
(* under its fresh policy yet amounts to.                                  *)
LEMMA CreateStep ==
  ASSUME IInv, CreateTrustedGate
  PROVE  IInv'
  <1>1. /\ gates' = gates + 1 /\ gates + 1 \in 1..MaxGates
        /\ issued' = issued /\ attested' = attested
    BY BoundAssumption DEF CreateTrustedGate, IInv, TypeOK
  <1>2. spent' = spent
    <2>1. spent[gates + 1] = {}
      BY <1>1 DEF IInv, FutureGatesFresh
    <2>2. QED
      BY <1>1, <2>1 DEF CreateTrustedGate, IInv, TypeOK
  <1>3. TypeOK'
    BY <1>1, <1>2, BoundAssumption DEF IInv, TypeOK
  <1>4. AdmittedOnTruth' /\ SpentIffIssued' /\ NonceNamesOnePackage'
    BY <1>1, <1>2
       DEF IInv, AdmittedOnTruth, SpentIffIssued, IssuedUnder, NonceNamesOnePackage
  <1>5. FutureGatesFresh'
    BY <1>1, <1>2, BoundAssumption DEF IInv, TypeOK, FutureGatesFresh
  <1>6. QED
    BY <1>3, <1>4, <1>5 DEF IInv

(* Admission appends one package under the gate's own policy and spends    *)
(* its nonce in the same step.                                             *)
LEMMA AdmitStep ==
  ASSUME IInv, NEW g \in 1..gates, NEW p, Admit(g, p)
  PROVE  IInv'
  <1> DEFINE k == Package(g, p)
  <1>1. /\ g \in 1..MaxGates /\ gates \in 0..MaxGates
        /\ issued \in Seq(Packages) /\ Len(issued) \in Nat
        /\ spent \in [1..MaxGates -> SUBSET Nonces]
    BY BoundAssumption, LenProperties DEF IInv, TypeOK
  <1>2. PICK material \in Materials, case \in DOMAIN PinnedClaim, nonce \in Nonces :
          /\ k = PackageFor(g, material, case, nonce)
          /\ p.requestNonce = nonce
          /\ nonce \notin spent[g]
          /\ Justified(case, material)
          /\ PackageFor(g, material, case, nonce).attestation \in attested
    BY AdmittedPackage DEF IInv, Admit
  <1>3. /\ k \in Packages
        /\ k.policyHash = PolicyCore(g)
        /\ k.requestNonce = nonce
    BY <1>1, <1>2, PackageForType DEF PackageFor
  <1>4. /\ gates' = gates
        /\ attested' = attested
        /\ spent' = [spent EXCEPT ![g] = @ \cup {nonce}]
        /\ issued' = Append(issued, k)
    BY <1>2 DEF Admit
  <1> HIDE DEF k
  <1>5. /\ issued' \in Seq(Packages)
        /\ Len(issued') = Len(issued) + 1
        /\ \A i \in 1..Len(issued) : issued'[i] = issued[i]
        /\ issued'[Len(issued) + 1] = k
    BY <1>1, <1>3, <1>4, AppendProperties
  <1>6. TypeOK'
    BY <1>1, <1>2, <1>4, <1>5 DEF IInv, TypeOK
  <1>7. AdmittedOnTruth'
    <2>1. /\ Justified(k.caseId, k.artifactBundle)
          /\ k.attestation = Attestation(k.artifactBundle,
                       Context(k.policyHash, Network, k.caseId, k.requestNonce))
          /\ k.attestation \in attested
          /\ k.claimInput = PinnedClaim[k.caseId]
          /\ k.facts = FactsFor(k.artifactBundle)
          /\ k.disclosures = k.facts
      BY <1>2 DEF PackageFor
    <2>2. QED
      BY <1>1, <1>4, <1>5, <2>1 DEF IInv, AdmittedOnTruth
  <1>8. \A h \in 1..MaxGates, n \in Nonces :
          IssuedUnder(h, n)' <=> (IssuedUnder(h, n) \/ (h = g /\ n = nonce))
    <2> TAKE h \in 1..MaxGates, n \in Nonces
    <2>1. k.policyHash = PolicyCore(h) <=> h = g
      BY <1>3, PolicyInjective
    <2>2. Len(issued) \in Nat
      BY <1>1 DEF IInv, TypeOK
    <2> DEFINE n1 == Len(issued) + 1
    <2>3. /\ \A i \in 1..Len(issued) : i \in 1..n1 /\ issued'[i] = issued[i]
          /\ n1 \in 1..n1 /\ issued'[n1] = k /\ Len(issued') = n1
          /\ \A i \in 1..n1 : i \in 1..Len(issued) \/ i = n1
      BY ONLY <1>5, <2>2
    <2> HIDE DEF n1
    <2>4. QED
      BY <1>3, <2>1, <2>3, Zenon DEF IssuedUnder
  <1>9. SpentIffIssued'
    BY <1>1, <1>4, <1>8 DEF IInv, SpentIffIssued
  <1>10. NonceNamesOnePackage'
    <2>1. \A i \in 1..Len(issued) :
            ~(issued[i].policyHash = PolicyCore(g) /\ issued[i].requestNonce = nonce)
      BY <1>1, <1>2 DEF IInv, SpentIffIssued, IssuedUnder
    <2>2. Len(issued) \in Nat
      BY <1>1 DEF IInv, TypeOK
    <2> DEFINE n == Len(issued) + 1
    <2>3. /\ \A i \in 1..Len(issued) : issued'[i] = issued[i]
          /\ issued'[n] = k /\ Len(issued') = n
          /\ \A i \in 1..n : i \in 1..Len(issued) \/ i = n
      BY ONLY <1>5, <2>2
    <2> HIDE DEF n
    <2> SUFFICES ASSUME NEW i \in 1..n, NEW j \in 1..n,
                        issued'[i].policyHash = issued'[j].policyHash,
                        issued'[i].requestNonce = issued'[j].requestNonce
                 PROVE  i = j
      BY <2>3 DEF NonceNamesOnePackage
    <2>4. CASE i \in 1..Len(issued) /\ j \in 1..Len(issued)
      BY <2>3, <2>4 DEF IInv, NonceNamesOnePackage
    <2>5. ASSUME NEW m \in 1..Len(issued)
          PROVE  ~(/\ issued'[m].policyHash = issued'[n].policyHash
                   /\ issued'[m].requestNonce = issued'[n].requestNonce)
      BY <1>3, <2>1, <2>3
    <2>6. QED
      BY <2>3, <2>4, <2>5
  <1>11. FutureGatesFresh'
    BY <1>1, <1>4 DEF IInv, FutureGatesFresh
  <1>12. QED
    BY <1>6, <1>7, <1>9, <1>10, <1>11 DEF IInv

LEMMA StutterStep ==
  ASSUME IInv, UNCHANGED vars
  PROVE  IInv'
  BY DEF vars, IInv, TypeOK, AdmittedOnTruth, SpentIffIssued, IssuedUnder,
         NonceNamesOnePackage, FutureGatesFresh

(* The invariant holds of every behaviour of verifier and gates. *)
THEOREM InductiveInvariant == Spec => []IInv
  <1>1. Init => IInv
    BY InitIInv
  <1>2. IInv /\ [Next]_vars => IInv'
    BY StepCases, AttestStep, CreateStep, AdmitStep, StutterStep
  <1>3. QED
    BY <1>1, <1>2, PTL DEF Spec

(* The state keeps its types: nothing is signed or packaged that the       *)
(* verifier did not derive from bytes (createIndependentVerifier).         *)
THEOREM TypeCorrect == Spec => []TypeOK
  <1>1. IInv => TypeOK
    BY DEF IInv
  <1>2. QED
    BY <1>1, InductiveInvariant, PTL

(* An attestation names its policy and nonce, and a nonce one package: no  *)
(* attestation is ever used twice (consumedAttestationNonces).             *)
THEOREM AttestationsUsedOnce == Spec => []AttestationUsedOnce
  <1>1. IInv => AttestationUsedOnce
    <2> SUFFICES ASSUME IInv, NEW i \in 1..Len(issued), NEW j \in 1..Len(issued),
                        issued[i].attestation = issued[j].attestation
                 PROVE  i = j
      BY DEF AttestationUsedOnce
    <2>1. \A m \in 1..Len(issued) :
            /\ issued[m].attestation.policyHash = issued[m].policyHash
            /\ issued[m].attestation.requestNonce = issued[m].requestNonce
      <3> TAKE m \in 1..Len(issued)
      <3>1. issued[m].attestation =
              Attestation(issued[m].artifactBundle,
                Context(issued[m].policyHash, Network, issued[m].caseId,
                        issued[m].requestNonce))
        BY DEF IInv, AdmittedOnTruth
      <3>2. QED
        BY <3>1 DEF Attestation, Context
    <2>2. QED
      BY <2>1 DEF IInv, NonceNamesOnePackage
  <1>2. QED
    BY <1>1, InductiveInvariant, PTL

(* Every package is justified by artifacts the pinned verifier attested to *)
(* for its policy, case and nonce (evaluateUnchecked, end to end).         *)
THEOREM PackagesJustified == Spec => []AdmittedOnTruth
  <1>1. IInv => AdmittedOnTruth
    BY DEF IInv
  <1>2. QED
    BY <1>1, InductiveInvariant, PTL

(* Rejections spend nothing and packages always do. *)
THEOREM NonceAccounting == Spec => []SpentIffIssued
  <1>1. IInv => SpentIffIssued
    BY DEF IInv
  <1>2. QED
    BY <1>1, InductiveInvariant, PTL

-----------------------------------------------------------------------------
(* Refinement: the gates implement AdmissionLedger. *)

granted == [i \in 1..Len(issued) |-> Request(issued[i])]

LEMMA GrantedType ==
  ASSUME IInv
  PROVE  /\ Len(issued) \in Nat
         /\ issued \in Seq(Packages)
         /\ granted \in Seq({Request(k) : k \in Packages})
         /\ Len(granted) = Len(issued)
         /\ \A i \in 1..Len(issued) : granted[i] = Request(issued[i])
  <1>1. Len(issued) \in Nat /\ issued \in Seq(Packages)
    BY LenProperties DEF IInv, TypeOK
  <1>2. \A i \in 1..Len(issued) : issued[i] \in Packages
    BY <1>1, ElementOfSeq
  <1>3. QED
    BY <1>1, <1>2, SeqDef DEF granted

(* An admission is a grant of its request. *)
LEMMA AdmitGrants ==
  ASSUME IInv, NEW g \in 1..gates, NEW p, Admit(g, p)
  PROVE  \E request \in EligibleRequests : Ledger!Grant(request)
  <1> DEFINE k == Package(g, p)
             r == Request(k)
  <1>1. PICK material \in Materials, case \in DOMAIN PinnedClaim, nonce \in Nonces :
          /\ k = PackageFor(g, material, case, nonce)
          /\ nonce \notin spent[g]
          /\ Justified(case, material)
    BY AdmittedPackage DEF IInv, Admit
  <1>2. g \in 1..MaxGates
    BY BoundAssumption DEF IInv, TypeOK
  <1>3. k \in Packages
    BY <1>1, <1>2, PackageForType
  <1>4. /\ r.policyHash = PolicyCore(g)
        /\ r.requestNonce = nonce
        /\ r \in EligibleRequests
    <2>1. r = [policyHash |-> PolicyCore(g), requestNonce |-> nonce,
               caseId |-> case, artifactBundle |-> material]
      BY <1>1 DEF Request, PackageFor
    <2>2. PolicyCore(g) \in PolicyHashes
      BY <1>2 DEF PolicyHashes
    <2>3. QED
      BY <1>1, <2>1, <2>2 DEF EligibleRequests
  <1> HIDE DEF k
  <1>5. issued' = Append(issued, k)
    BY DEF Admit, k
  <1>6. ~Ledger!Granted(r)
    <2>1. \A i \in 1..Len(issued) :
            ~(issued[i].policyHash = PolicyCore(g) /\ issued[i].requestNonce = nonce)
      BY <1>1, <1>2 DEF IInv, SpentIffIssued, IssuedUnder
    <2>2. \A i \in 1..Len(granted) : Ledger!Key(granted[i]) # Ledger!Key(r)
      <3> TAKE i \in 1..Len(granted)
      <3>1. i \in 1..Len(issued) /\ granted[i] = Request(issued[i])
        BY GrantedType
      <3>2. /\ granted[i].policyHash = issued[i].policyHash
            /\ granted[i].requestNonce = issued[i].requestNonce
        BY <3>1 DEF Request
      <3>3. QED
        BY <1>4, <2>1, <3>1, <3>2 DEF Ledger!Key
    <2>3. QED
      BY <2>2 DEF Ledger!Granted, granted
  <1>7. granted' = Append(granted, r)
    <2>1. /\ issued' \in Seq(Packages)
          /\ Len(issued') = Len(issued) + 1
          /\ \A i \in 1..Len(issued) : issued'[i] = issued[i]
          /\ issued'[Len(issued) + 1] = k
      BY <1>3, <1>5, GrantedType, AppendProperties
    <2> DEFINE S == {Request(q) : q \in Packages}
    <2>2. r \in S /\ granted \in Seq(S)
      BY <1>3, GrantedType
    <2>3. /\ Append(granted, r) \in Seq(S)
          /\ Len(Append(granted, r)) = Len(issued) + 1
          /\ \A i \in 1..Len(issued) : Append(granted, r)[i] = Request(issued[i])
          /\ Append(granted, r)[Len(issued) + 1] = r
      BY <2>2, GrantedType, AppendProperties
    <2>4. granted' = [i \in 1..Len(issued) + 1 |-> Request(issued'[i])]
      BY <2>1 DEF granted
    <2>5. \A i \in 1..Len(issued) + 1 : Append(granted, r)[i] = Request(issued'[i])
      BY <2>1, <2>3, GrantedType
    <2>6. Append(granted, r) = [i \in 1..Len(issued) + 1 |-> Append(granted, r)[i]]
      BY <2>3, LenProperties
    <2> HIDE DEF r, S
    <2>7. QED
      BY <2>4, <2>5, <2>6
  <1>8. Ledger!Grant(r)
    BY <1>6, <1>7 DEF Ledger!Grant, granted
  <1>9. QED
    BY <1>4, <1>8

(* Seen as a ledger of requests, the verifier and any number of gates only *)
(* ever grant eligible requests, each (policy, nonce) at most once.        *)
THEOREM Refinement == Spec => ImplementsLedger
  <1>1. Init => Ledger!Init
    BY EmptySeq DEF Init, Ledger!Init
  <1>2. IInv /\ [Next]_vars => [Ledger!Next]_granted
    <2> SUFFICES ASSUME IInv, [Next]_vars
                 PROVE  [Ledger!Next]_granted
      OBVIOUS
    <2>1. CASE \E g \in 1..gates : \E p \in Proposals(g) : Admit(g, p)
      BY <2>1, AdmitGrants DEF Ledger!Next
    <2>2. CASE issued' = issued
      BY <2>2 DEF granted
    <2>3. QED
      BY <2>1, <2>2, StepCases DEF CreateTrustedGate, Attest, vars
  <1>3. QED
    BY <1>1, <1>2, InductiveInvariant, PTL DEF Spec, ImplementsLedger, Ledger!Spec, granted
-----------------------------------------------------------------------------
(* What the twelve checks amount to together. *)

LEMMA AdmissibleMeans ==
  ASSUME NEW g, NEW p
  PROVE  Admissible(g, p) <=>
           /\ \A i \in 1..7 : Passes(g, p, CheckOrder[i])
           /\ NonceUnspent(g, p)
           /\ ClaimDigestMatches(p)
           /\ p.disclosures = p.attestation.facts
           /\ AllFactsTrue(p.attestation.facts)
           /\ GraphVerifies(g, p)
  <1>1. /\ Len(CheckOrder) = 12
        /\ CheckOrder[8] = "nonce"
        /\ CheckOrder[9] = "claim digest"
        /\ CheckOrder[10] = "disclosed facts"
        /\ CheckOrder[11] = "facts"
        /\ CheckOrder[12] = "graph"
    BY DEF CheckOrder
  <1>2. Admissible(g, p) <=>
          /\ \A i \in 1..7 : Passes(g, p, CheckOrder[i])
          /\ Passes(g, p, CheckOrder[8])
          /\ Passes(g, p, CheckOrder[9])
          /\ Passes(g, p, CheckOrder[10])
          /\ Passes(g, p, CheckOrder[11])
          /\ Passes(g, p, CheckOrder[12])
    <2>1. Admissible(g, p) <=> \A i \in 1..12 : Passes(g, p, CheckOrder[i])
      BY <1>1 DEF Admissible
    <2> HIDE DEF Passes, CheckOrder
    <2>2. 1..12 = 1..7 \cup {8, 9, 10, 11, 12}
      OBVIOUS
    <2>3. QED
      BY <2>1, <2>2
  <1>3. /\ Passes(g, p, "nonce") = NonceUnspent(g, p)
        /\ Passes(g, p, "claim digest") = ClaimDigestMatches(p)
        /\ Passes(g, p, "disclosed facts") = (p.disclosures = p.attestation.facts)
        /\ Passes(g, p, "facts") = AllFactsTrue(p.attestation.facts)
        /\ Passes(g, p, "graph") = GraphVerifies(g, p)
    <2>1. Passes(g, p, "nonce") = NonceUnspent(g, p)
      BY Zenon DEF Passes
    <2>2. Passes(g, p, "claim digest") = ClaimDigestMatches(p)
      BY Zenon DEF Passes
    <2>3. Passes(g, p, "disclosed facts") = (p.disclosures = p.attestation.facts)
      BY Zenon DEF Passes
    <2>4. Passes(g, p, "facts") = AllFactsTrue(p.attestation.facts)
      BY Zenon DEF Passes
    <2>5. Passes(g, p, "graph") = GraphVerifies(g, p)
      BY Zenon DEF Passes
    <2>6. QED
      BY <2>1, <2>2, <2>3, <2>4, <2>5
  <1>4. QED
    BY <1>1, <1>2, <1>3

(* The checks made before the nonce is looked up. *)
LEMMA EarlyChecks ==
  ASSUME NEW g, NEW p
  PROVE  (\A i \in 1..7 : Passes(g, p, CheckOrder[i])) <=>
           /\ PolicyValidation(p.proposedPolicy, Policy(g))
           /\ p.operator = PolicyCore(g).operator
           /\ p.challenger = PolicyCore(g).challenger
           /\ p.stateSigner = PolicyCore(g).stateSigner
           /\ p.disclosures # Malformed
           /\ p.claimInput # Malformed
           /\ VerifyIndependentAttestation(g, p)
  <1>1. /\ CheckOrder[1] = "policy"
        /\ CheckOrder[2] = "operator key"
        /\ CheckOrder[3] = "challenger key"
        /\ CheckOrder[4] = "state signer key"
        /\ CheckOrder[5] = "disclosures"
        /\ CheckOrder[6] = "claim input"
        /\ CheckOrder[7] = "attestation"
    BY DEF CheckOrder
  <1>2. (\A i \in 1..7 : Passes(g, p, CheckOrder[i])) <=>
          /\ Passes(g, p, CheckOrder[1])
          /\ Passes(g, p, CheckOrder[2])
          /\ Passes(g, p, CheckOrder[3])
          /\ Passes(g, p, CheckOrder[4])
          /\ Passes(g, p, CheckOrder[5])
          /\ Passes(g, p, CheckOrder[6])
          /\ Passes(g, p, CheckOrder[7])
    <2> HIDE DEF Passes, CheckOrder
    <2>1. 1..7 = {1, 2, 3, 4, 5, 6, 7}
      OBVIOUS
    <2>2. QED
      BY <2>1
  <1>3. Passes(g, p, "policy") = PolicyValidation(p.proposedPolicy, Policy(g))
    BY Zenon DEF Passes
  <1>4. Passes(g, p, "operator key") = (p.operator = PolicyCore(g).operator)
    BY Zenon DEF Passes
  <1>5. Passes(g, p, "challenger key") = (p.challenger = PolicyCore(g).challenger)
    BY Zenon DEF Passes
  <1>6. Passes(g, p, "state signer key") = (p.stateSigner = PolicyCore(g).stateSigner)
    BY Zenon DEF Passes
  <1>7. Passes(g, p, "disclosures") = (p.disclosures # Malformed)
    BY Zenon DEF Passes
  <1>8. Passes(g, p, "claim input") = (p.claimInput # Malformed)
    BY Zenon DEF Passes
  <1>9. Passes(g, p, "attestation") = VerifyIndependentAttestation(g, p)
    BY Zenon DEF Passes
  <1>10. QED
    BY <1>1, <1>2, <1>3, <1>4, <1>5, <1>6, <1>7, <1>8, <1>9

(* Altering a policy document leaves it its three parts. *)
LEMMA DocumentShape ==
  ASSUME NEW core, NEW x, NEW part \in {"kind", "core", "hash"},
         NEW v, v = MakePolicy(core) \/ v = [MakePolicy(core) EXCEPT ![part] = x]
  PROVE  v = [kind |-> v.kind, core |-> v.core, hash |-> v.hash]
  BY DEF MakePolicy

(* A proposal has its twelve parts, and its policy document has three.     *)
LEMMA ProposalShape ==
  ASSUME NEW g, NEW p \in Proposals(g)
  PROVE  /\ p = [caseId |-> p.caseId, disclosures |-> p.disclosures,
                 claimInput |-> p.claimInput, material |-> p.material,
                 claimedBundle |-> p.claimedBundle, attestation |-> p.attestation,
                 requestNonce |-> p.requestNonce,
                 proposedPolicy |-> p.proposedPolicy, operator |-> p.operator,
                 challenger |-> p.challenger, stateSigner |-> p.stateSigner,
                 operatorSecret |-> p.operatorSecret]
         /\ p.proposedPolicy =
              [kind |-> p.proposedPolicy.kind, core |-> p.proposedPolicy.core,
               hash |-> p.proposedPolicy.hash]
  <1>1. PICK a, d : p \in WithOverride(g, ProposalFor(g, a, d))
    BY DEF Proposals
  <1> DEFINE base == ProposalFor(g, a, d)
  <1>2. PICK part \in DOMAIN base : \E v \in Alternatives(g, base)[part] :
               p = [base EXCEPT ![part] = v]
    BY <1>1 DEF WithOverride
  <1>3. PICK v \in Alternatives(g, base)[part] : p = [base EXCEPT ![part] = v]
    BY <1>2
  <1>4. part \in {"caseId", "disclosures", "claimInput", "material",
                  "claimedBundle", "attestation", "requestNonce",
                  "proposedPolicy", "operator", "challenger", "stateSigner",
                  "operatorSecret"}
    BY DEF ProposalFor
  <1>5. p = [caseId |-> p.caseId, disclosures |-> p.disclosures,
             claimInput |-> p.claimInput, material |-> p.material,
             claimedBundle |-> p.claimedBundle, attestation |-> p.attestation,
             requestNonce |-> p.requestNonce,
             proposedPolicy |-> p.proposedPolicy, operator |-> p.operator,
             challenger |-> p.challenger, stateSigner |-> p.stateSigner,
             operatorSecret |-> p.operatorSecret]
    BY <1>3, <1>4 DEF ProposalFor
  <1>6. CASE part = "proposedPolicy"
    <2> DEFINE altered == [PolicyCore(g) EXCEPT !.terms = "altered"]
    <2>1. p.proposedPolicy = v /\ v \in PolicyDocuments(g)
      BY <1>3, <1>6 DEF ProposalFor, Alternatives
    <2>2. v \in {Policy(h) : h \in 1..gates}
                 \cup {MakePolicy(core) : core \in ForeignCores}
                 \cup {MakePolicy(altered), [Policy(g) EXCEPT !.core = altered],
                       [Policy(g) EXCEPT !.hash = altered],
                       [Policy(g) EXCEPT !.kind = "other"]}
      BY <2>1, Zenon DEF PolicyDocuments
    <2> HIDE DEF altered
    <2>3. \E core, x : \E altering \in {"kind", "core", "hash"} :
            \/ v = MakePolicy(core)
            \/ v = [MakePolicy(core) EXCEPT ![altering] = x]
      BY <2>2, Zenon DEF Policy
    <2>4. v = [kind |-> v.kind, core |-> v.core, hash |-> v.hash]
      BY <2>3, DocumentShape
    <2>5. QED
      BY <1>5, <2>1, <2>4
  <1>7. CASE part # "proposedPolicy"
    <2>1. p.proposedPolicy = Policy(g)
      BY <1>3, <1>7 DEF ProposalFor
    <2>2. Policy(g) = [kind |-> Policy(g).kind, core |-> Policy(g).core,
                       hash |-> Policy(g).hash]
      BY DEF Policy, MakePolicy
    <2>3. QED
      BY <1>5, <2>1, <2>2
  <1>8. QED
    BY <1>5, <1>6, <1>7

(* However many parts there are to override, an admitted proposal is the   *)
(* one built from its attestation: the checks leave none of them free.     *)
THEOREM EveryPartChecked == Spec => []NoPartUnchecked
  <1>1. NoPartUnchecked
    <2> SUFFICES ASSUME NEW g \in 1..gates, NEW p \in Proposals(g), Admissible(g, p)
                 PROVE  p = ProposalFor(g, p.attestation, p.attestation.facts)
      BY DEF NoPartUnchecked
    <2> DEFINE a == p.attestation
    <2>1. /\ PolicyValidation(p.proposedPolicy, Policy(g))
          /\ p.operator = PolicyCore(g).operator
          /\ p.challenger = PolicyCore(g).challenger
          /\ p.stateSigner = PolicyCore(g).stateSigner
          /\ VerifyIndependentAttestation(g, p)
          /\ ClaimDigestMatches(p)
          /\ p.disclosures = a.facts
          /\ GraphVerifies(g, p)
      BY AdmissibleMeans, EarlyChecks
    <2>2. /\ p.caseId = a.caseId
          /\ p.requestNonce = a.requestNonce
          /\ p.material = a.artifactBundle
          /\ p.claimedBundle = a.artifactBundle
      BY <2>1 DEF VerifyIndependentAttestation
    <2>3. p.claimInput = ClaimFor(a.caseId)
      BY <2>1, <2>2 DEF ClaimDigestMatches, ClaimFor
    <2>4. p.proposedPolicy = Policy(g)
      BY <2>1, ProposalShape DEF PolicyValidation, Policy, MakePolicy
    <2>5. p.operator = Operator /\ p.operatorSecret = Operator
      BY <2>1 DEF GraphVerifies, PolicyCore
    <2>6. QED
      BY <2>1, <2>2, <2>3, <2>4, <2>5, ProposalShape, ZenonT(40) DEF ProposalFor
  <1>2. QED
    BY <1>1, PTL

(* The proposal built from an attestation of a gate's own policy and       *)
(* network, for justified artifacts, passes everything but the nonce       *)
(* check, which it passes while the nonce is unspent.                      *)
LEMMA HonestProposal ==
  ASSUME TypeOK, NEW g \in 1..MaxGates, NEW a \in attested,
         a.policyHash = PolicyCore(g), a.network = Network,
         Justified(a.caseId, a.artifactBundle)
  PROVE  LET p == ProposalFor(g, a, a.facts) IN
         /\ \A i \in 1..7 : Passes(g, p, CheckOrder[i])
         /\ Admissible(g, p) <=> a.requestNonce \notin spent[g]
  <1> DEFINE p == ProposalFor(g, a, a.facts)
  <1>1. PICK material \in Materials, core \in PolicyHashes \cup ForeignCores,
             network \in Networks, case \in Cases, nonce \in Nonces :
               a = Attestation(material, Context(core, network, case, nonce))
    BY DEF TypeOK, Attestations
  <1>2. /\ a.caseId = case /\ a.artifactBundle = material
        /\ a.facts = FactsFor(material) /\ a.claimInput = material.claim
        /\ a.verifierKeyId = VerifierKey
    BY <1>1 DEF Attestation, Context
  <1>3. /\ case \in DOMAIN PinnedClaim
        /\ material.claim = PinnedClaim[case]
        /\ material.proof = HonestProof[material.claim]
        /\ material.check = HonestCheck
        /\ material.claim \in Registered
    BY <1>2, PinAssumption DEF Justified
  <1>4. AllFactsTrue(a.facts)
    BY <1>2, <1>3 DEF AllFactsTrue, FactsFor, FactKeys
  <1>5. a.facts # Malformed
    BY <1>2, FactsForType, MalformedFactsAssumption
  <1>6. ClaimFor(case) = material.claim /\ ClaimFor(case) # Malformed
    BY <1>3, MalformedAssumption, HonestAssumption DEF ClaimFor
  <1>7. /\ p.caseId = case /\ p.disclosures = a.facts
        /\ p.claimInput = material.claim /\ p.claimInput # Malformed
        /\ p.material = material /\ p.claimedBundle = material
        /\ p.attestation = a /\ p.requestNonce = a.requestNonce
        /\ p.proposedPolicy = Policy(g)
        /\ p.operator = Operator /\ p.operatorSecret = Operator
        /\ p.challenger = PolicyCore(g).challenger
        /\ p.stateSigner = PolicyCore(g).stateSigner
    BY <1>2, <1>6 DEF ProposalFor
  <1> HIDE DEF p
  <1>8. VerifyIndependentAttestation(g, p)
    <2>1. /\ PolicyCore(g).factProvider = VerifierKey
          /\ PolicyCore(g).network = Network
      BY DEF PolicyCore
    <2>2. QED
      BY <1>2, <1>7, <2>1 DEF VerifyIndependentAttestation, SignatureVerifies
  <1>9. PolicyValidation(p.proposedPolicy, Policy(g))
    <2>1. Policy(g).hash = Policy(g).core
      BY DEF Policy, MakePolicy
    <2>2. QED
      BY <1>7, <2>1 DEF PolicyValidation
  <1>10. PolicyCore(g).operator = Operator
    BY DEF PolicyCore
  <1>11. \A i \in 1..7 : Passes(g, p, CheckOrder[i])
    BY <1>5, <1>7, <1>8, <1>9, <1>10, EarlyChecks
  <1>12. ClaimDigestMatches(p) /\ GraphVerifies(g, p)
    BY <1>3, <1>7, <1>10 DEF ClaimDigestMatches, GraphVerifies
  <1>13. NonceUnspent(g, p) <=> a.requestNonce \notin spent[g]
    BY <1>7 DEF NonceUnspent
  <1>14. p.disclosures = p.attestation.facts /\ AllFactsTrue(p.attestation.facts)
    BY <1>4, <1>7
  <1>15. Admissible(g, p) <=> a.requestNonce \notin spent[g]
    BY <1>11, <1>12, <1>13, <1>14, AdmissibleMeans
  <1>16. QED
    BY <1>11, <1>15 DEF p

(* Nothing evaluated earlier stands in the way of a justified request.     *)
THEOREM HonestAdmitted == Spec => []HonestNeverBlocked
  <1>1. IInv => HonestNeverBlocked
    <2> SUFFICES ASSUME IInv, NEW g \in 1..gates, NEW a \in attested,
                        a.policyHash = PolicyCore(g), a.network = Network,
                        Justified(a.caseId, a.artifactBundle),
                        ~IssuedUnder(g, a.requestNonce)
                 PROVE  Admissible(g, ProposalFor(g, a, a.facts))
      BY DEF HonestNeverBlocked
    <2>1. TypeOK /\ g \in 1..MaxGates
      BY BoundAssumption DEF IInv, TypeOK
    <2>2. a.requestNonce \in Nonces
      BY <2>1 DEF TypeOK, Attestations, Attestation, Context
    <2>3. a.requestNonce \notin spent[g]
      BY <2>1, <2>2, SMTT(30) DEF IInv, SpentIffIssued
    <2>4. QED
      BY <2>1, <2>3, HonestProposal
  <1>2. QED
    BY <1>1, InductiveInvariant, PTL

(* A resubmission gets as far as the nonce and no further.                 *)
THEOREM ReplayStopsAtNonce == Spec => []ReplayReported
  <1>1. IInv => ReplayReported
    <2> SUFFICES ASSUME IInv, NEW i \in 1..Len(issued)
                 PROVE  LET a == issued[i].attestation
                            g == issued[i].policyHash.challenger
                            replay == ProposalFor(g, a, a.facts) IN
                        ~Admissible(g, replay) /\ Reason(g, replay) = "nonce"
      BY DEF ReplayReported
    <2> DEFINE k == issued[i]
               a == k.attestation
               g == k.policyHash.challenger
               replay == ProposalFor(g, a, a.facts)
    <2>1. k \in Packages
      BY DEF IInv, TypeOK
    <2>2. g \in 1..MaxGates /\ k.policyHash = PolicyCore(g)
      BY <2>1 DEF Packages, PolicyHashes, PolicyCore
    <2>3. /\ Justified(k.caseId, k.artifactBundle)
          /\ a = Attestation(k.artifactBundle,
                             Context(k.policyHash, Network, k.caseId, k.requestNonce))
          /\ a \in attested
      BY DEF IInv, AdmittedOnTruth
    <2>4. /\ a.policyHash = PolicyCore(g) /\ a.network = Network
          /\ a.caseId = k.caseId /\ a.artifactBundle = k.artifactBundle
          /\ a.requestNonce = k.requestNonce
      BY <2>2, <2>3 DEF Attestation, Context
    <2>5. a.requestNonce \in spent[g]
      <3>1. k.requestNonce \in Nonces
        BY <2>1 DEF Packages
      <3>2. IssuedUnder(g, k.requestNonce)
        BY <2>2 DEF IssuedUnder
      <3>3. QED
        BY <2>2, <2>4, <3>1, <3>2 DEF IInv, SpentIffIssued
    <2>6. TypeOK
      BY DEF IInv
    <2> HIDE DEF k, a, g
    <2>7. /\ \A j \in 1..7 : Passes(g, replay, CheckOrder[j])
          /\ ~Admissible(g, replay)
      BY <2>2, <2>3, <2>4, <2>5, <2>6, HonestProposal
    <2>8. Len(CheckOrder) = 12 /\ CheckOrder[8] = "nonce"
      BY DEF CheckOrder
    <2>9. ~Passes(g, replay, CheckOrder[8])
      <3>1. Passes(g, replay, "nonce") = NonceUnspent(g, replay)
        BY Zenon DEF Passes
      <3>2. replay.requestNonce = a.requestNonce
        BY DEF ProposalFor
      <3>3. QED
        BY <2>5, <2>8, <3>1, <3>2 DEF NonceUnspent
    <2> HIDE DEF replay
    <2>10. \A j \in 1..12 :
             (/\ ~Passes(g, replay, CheckOrder[j])
              /\ \A l \in 1..j-1 : Passes(g, replay, CheckOrder[l])) <=> j = 8
      BY <2>7, <2>9
    <2>11. Reason(g, replay) = CheckOrder[8]
      BY <2>8, <2>10, SMTT(30) DEF Reason
    <2>12. QED
      BY <2>7, <2>8, <2>11 DEF k, a, g, replay
  <1>2. QED
    BY <1>1, InductiveInvariant, PTL

-----------------------------------------------------------------------------
(* The audit against the gates' own record of what they issued, for any     *)
(* number of gates and packages and any number of replaced parts.          *)

Parts ==
  {"policyHash", "providerKeyId", "policyCore", "material", "bundle",
   "attestation", "graph", "graphVerification", "receiptClaim",
   "receiptBundle", "receiptAttestation", "receiptNonce", "receiptGraph"}

(* A mark in a file has the fields of a package. *)
MarkShape(mark) ==
  mark = [policyHash |-> mark.policyHash, caseId |-> mark.caseId,
          claimInput |-> mark.claimInput, artifactBundle |-> mark.artifactBundle,
          attestation |-> mark.attestation, requestNonce |-> mark.requestNonce,
          facts |-> mark.facts, disclosures |-> mark.disclosures]

(* A graph in a file is the one of an issued package or self-signed.       *)
KnownGraph(graph) ==
  /\ graph = [mark |-> graph.mark, network |-> graph.network,
              signer |-> graph.signer]
  /\ MarkShape(graph.mark)
  /\ \/ \E k \in IssuedPackages : graph = Graph(k)
     \/ graph.signer = ForeignKey

FileShape ==
  file # Absent => /\ file = [part \in Parts |-> file[part]]
                   /\ KnownGraph(file["graph"])

(* The strengthening: what a file looks like before it is audited.         *)
AInv ==
  /\ FileShape
  /\ AuditedIsOneRecording
  /\ AuditedWasIssued
  /\ AuditedOnTruth

LEMMA EvidenceShape ==
  ASSUME NEW core, NEW material, NEW claim, NEW a, NEW nonce, NEW graph
  PROVE  LET e == Evidence(core, material, claim, a, nonce, graph) IN
         /\ e = [part \in Parts |-> e[part]]
         /\ e["graph"] = graph
  BY DEF Evidence, Parts

LEMMA RecordingShape ==
  ASSUME NEW k
  PROVE  /\ Recording(k) = [part \in Parts |-> Recording(k)[part]]
         /\ Recording(k)["graph"] = Graph(k)
  BY EvidenceShape DEF Recording

(* What a gate's state signer has signed. *)
LEMMA IssuedGraph ==
  ASSUME TypeOK, NEW k \in IssuedPackages
  PROVE  KnownGraph(Graph(k))
  <1>1. k \in Packages
    BY DEF TypeOK, IssuedPackages
  <1>2. MarkShape(k)
    BY <1>1 DEF Packages, MarkShape
  <1>3. /\ Graph(k).mark = k
        /\ Graph(k) = [mark |-> Graph(k).mark, network |-> Graph(k).network,
                       signer |-> Graph(k).signer]
    BY DEF Graph
  <1>4. QED
    BY <1>2, <1>3 DEF KnownGraph

(* What everybody else can sign. *)
LEMMA SelfMadeShape ==
  ASSUME NEW a
  PROVE  /\ SelfMade(a) = [part \in Parts |-> SelfMade(a)[part]]
         /\ KnownGraph(SelfMade(a)["graph"])
  <1> DEFINE graph == [mark |-> Described(a), network |-> a.policyHash.network,
                       signer |-> ForeignKey]
  <1>1. /\ SelfMade(a) = [part \in Parts |-> SelfMade(a)[part]]
        /\ SelfMade(a)["graph"] = graph
    BY EvidenceShape DEF SelfMade
  <1>2. MarkShape(Described(a))
    BY DEF MarkShape, Described
  <1>3. /\ graph.mark = Described(a)
        /\ graph = [mark |-> graph.mark, network |-> graph.network,
                    signer |-> graph.signer]
        /\ graph.signer = ForeignKey
    OBVIOUS
  <1> HIDE DEF graph
  <1>4. KnownGraph(graph)
    BY <1>2, <1>3 DEF KnownGraph
  <1>5. QED
    BY <1>1, <1>4

LEMMA DonorGraphs ==
  ASSUME TypeOK, NEW donor \in Donors
  PROVE  KnownGraph(donor["graph"])
  <1>1. CASE \E k \in IssuedPackages : donor = Recording(k)
    BY <1>1, RecordingShape, IssuedGraph
  <1>2. CASE \E a : donor = SelfMade(a)
    BY <1>2, SelfMadeShape
  <1>3. QED
    BY <1>1, <1>2 DEF Donors, SelfMadeFiles

(* The heart of the matter: the cross-links leave evidence that passes no  *)
(* part that is not the recording of the package its graph is signed for.  *)
LEMMA LinksDetermine ==
  ASSUME FileShape, file # Absent, VerifyEvidence(file)
  PROVE  LET k == file.graph.mark IN
         /\ file = Recording(k)
         /\ k = Described(k.attestation)
         /\ k.caseId = HonestCase
         /\ k.claimInput = k.policyHash.claimInputs[HonestCase]
         /\ AllFactsTrue(k.facts)
  <1> DEFINE a == file.attestation
             k == file.graph.mark
  <1>1. /\ file.graph.signer = file.policyCore.stateSigner
        /\ file.graph.network = file.policyCore.network
        /\ file.graphVerification = GraphCheck(file.graph, file.policyCore)
        /\ file.receiptGraph = file.graph
    BY DEF VerifyEvidence, GraphVerification, GraphCheck
  <1>2. /\ k.policyHash = a.policyHash /\ k.caseId = a.caseId
        /\ k.claimInput = a.claimInput
        /\ k.artifactBundle = a.artifactBundle
        /\ k.attestation = a /\ k.requestNonce = a.requestNonce
        /\ k.facts = a.facts /\ k.disclosures = a.facts
    BY DEF VerifyEvidence, StateMarkVerifies
  <1>3. /\ k.policyHash = file.policyCore
        /\ k.policyHash = file.policyHash
        /\ k.policyHash.factProvider = file.providerKeyId
        /\ k.artifactBundle = file.material
        /\ k.artifactBundle = file.bundle
        /\ k.attestation = file.attestation
        /\ k.attestation = file.receiptAttestation
        /\ k.claimInput = file.receiptClaim
        /\ k.artifactBundle = file.receiptBundle
        /\ k.requestNonce = file.receiptNonce
        /\ k.caseId = HonestCase
        /\ k.claimInput = k.policyHash.claimInputs[HonestCase]
        /\ AllFactsTrue(k.facts)
    BY <1>2 DEF VerifyEvidence, PolicyVerifies, ArtifactsVerify,
                AttestationVerifies
  <1>4. MarkShape(k) /\ file.graph = [mark |-> k, network |-> file.graph.network,
                                      signer |-> file.graph.signer]
    BY DEF FileShape, KnownGraph
  <1>5. k = Described(a)
    BY <1>2, <1>4 DEF MarkShape, Described
  <1>6. file.graph = Graph(k)
    BY <1>1, <1>3, <1>4 DEF Graph
  <1>7. /\ Graph(k) = file.receiptGraph
        /\ GraphCheck(Graph(k), k.policyHash) = file.graphVerification
    BY <1>1, <1>3, <1>6
  <1> HIDE DEF k
  <1>8. \A part \in Parts : file[part] = Recording(k)[part]
    <2> DEFINE r == Recording(k)
    <2>1. /\ r["policyHash"] = k.policyHash
          /\ r["providerKeyId"] = k.policyHash.factProvider
          /\ r["policyCore"] = k.policyHash
          /\ r["material"] = k.artifactBundle
          /\ r["bundle"] = k.artifactBundle
          /\ r["attestation"] = k.attestation
          /\ r["graph"] = Graph(k)
          /\ r["graphVerification"] = GraphCheck(Graph(k), k.policyHash)
          /\ r["receiptClaim"] = k.claimInput
          /\ r["receiptBundle"] = k.artifactBundle
          /\ r["receiptAttestation"] = k.attestation
          /\ r["receiptNonce"] = k.requestNonce
          /\ r["receiptGraph"] = Graph(k)
      BY DEF Recording, Evidence
    <2> HIDE DEF r
    <2>2. \A part \in Parts : file[part] = r[part]
      BY <1>3, <1>6, <1>7, <2>1, ZenonT(40) DEF Parts
    <2>3. QED
      BY <2>2 DEF r
  <1>9. file = Recording(k)
    <2>1. file = [part \in Parts |-> file[part]]
      BY DEF FileShape
    <2>2. Recording(k) = [part \in Parts |-> Recording(k)[part]]
      BY RecordingShape
    <2>3. [part \in Parts |-> file[part]] = [part \in Parts |-> Recording(k)[part]]
      BY <1>8
    <2>4. QED
      BY <2>1, <2>2, <2>3, Zenon
  <1>10. QED
    BY <1>3, <1>5, <1>9 DEF k

(* A mark under a gate's state signer is that of a package it issued.      *)
LEMMA GateSignedIssued ==
  ASSUME FileShape, file # Absent, VerifyEvidence(file),
         file.policyCore.stateSigner \in 1..gates
  PROVE  \E k \in HonestPackages : file = Recording(k)
  <1>1. /\ file = Recording(file.graph.mark)
        /\ file.graph.mark.caseId = HonestCase
    BY LinksDetermine
  <1>2. file.graph.signer # ForeignKey
    BY DEF VerifyEvidence, GraphVerification, GraphCheck, ForeignKey
  <1>3. PICK k \in IssuedPackages : file.graph = Graph(k)
    BY <1>2 DEF FileShape, KnownGraph
  <1>4. file.graph.mark = k
    BY <1>3 DEF Graph
  <1>5. QED
    BY <1>1, <1>4 DEF HonestPackages

(* What the verifier signed says of the artifacts what they establish.     *)
LEMMA VerifierSignedTrue ==
  ASSUME TypeOK, VerifyEvidence(file),
         file.policyCore.factProvider = VerifierKey
  PROVE  /\ file.attestation \in attested
         /\ AllFactsTrue(FactsFor(file.material))
  <1> DEFINE a == file.attestation
  <1>1. a \in attested /\ a.artifactBundle = file.material /\ AllFactsTrue(a.facts)
    BY DEF VerifyEvidence, AttestationVerifies, SignatureVerifies
  <1>2. PICK material \in Materials, core \in PolicyHashes \cup ForeignCores,
             network \in Networks, case \in Cases, nonce \in Nonces :
          a = Attestation(material, Context(core, network, case, nonce))
    BY <1>1 DEF TypeOK, Attestations
  <1>3. a.artifactBundle = material /\ a.facts = FactsFor(material)
    BY <1>2 DEF Attestation
  <1>4. QED
    BY <1>1, <1>3

-----------------------------------------------------------------------------
(* The invariant *)

(* Whoever writes the file: the report is not touched. *)
LEMMA FileStep ==
  ASSUME AInv, UNCHANGED vars, report' = report, FileShape'
  PROVE  AInv'
  <1>1. HonestPackages' = HonestPackages
    BY DEF vars, HonestPackages, IssuedPackages
  <1>2. AuditedIsOneRecording' /\ AuditedOnTruth'
    BY DEF AInv, AuditedIsOneRecording, AuditedOnTruth, vars
  <1>3. AuditedWasIssued'
    BY <1>1 DEF AInv, AuditedWasIssued, vars
  <1>4. QED
    BY <1>2, <1>3 DEF AInv

LEMMA RecordStep ==
  ASSUME TypeOK, AInv, UNCHANGED vars, NEW k \in HonestPackages, Record(k)
  PROVE  AInv'
  <1>1. file' = Recording(k) /\ report' = report
    BY DEF Record
  <1>2. k \in IssuedPackages
    BY DEF HonestPackages
  <1>3. KnownGraph(file'["graph"])
    BY <1>1, <1>2, RecordingShape, IssuedGraph
  <1>4. KnownGraph(file["graph"])'
    BY <1>3 DEF vars, KnownGraph, IssuedPackages
  <1>5. FileShape'
    BY <1>1, <1>4, RecordingShape DEF FileShape
  <1>6. QED
    BY <1>1, <1>5, FileStep
LEMMA FabricateStep ==
  ASSUME AInv, UNCHANGED vars, NEW e \in SelfMadeFiles, Fabricate(e)
  PROVE  AInv'
  <1>1. file' = e /\ report' = report
    BY DEF Fabricate
  <1>2. PICK a : e = SelfMade(a)
    BY DEF SelfMadeFiles
  <1>3. file' = [part \in Parts |-> file'[part]] /\ KnownGraph(file'["graph"])
    BY <1>1, <1>2, SelfMadeShape
  <1>4. KnownGraph(file["graph"])'
    BY <1>3 DEF vars, KnownGraph, IssuedPackages
  <1>5. FileShape'
    BY <1>3, <1>4 DEF FileShape
  <1>6. QED
    BY <1>1, <1>5, FileStep

LEMMA ReplaceStep ==
  ASSUME TypeOK, AInv, UNCHANGED vars, file # Absent, NEW donor \in Donors,
         NEW part \in DOMAIN file, Replace(part, donor)
  PROVE  AInv'
  <1>1. /\ file' = [file EXCEPT ![part] = donor[part]] /\ report' = report
    BY DEF Replace
  <1>2. /\ file = [p \in Parts |-> file[p]] /\ KnownGraph(file["graph"])
    BY DEF AInv, FileShape
  <1>3. DOMAIN file = Parts
    BY <1>2
  <1>4. /\ file' = [p \in Parts |-> file'[p]]
        /\ file'["graph"] \in {file["graph"], donor["graph"]}
    <2>1. file' = [p \in Parts |-> IF p = part THEN donor[part] ELSE file[p]]
      BY <1>1, <1>3
    <2>2. "graph" \in Parts
      BY DEF Parts
    <2>3. QED
      BY <2>1, <2>2
  <1>5. KnownGraph(file'["graph"])
    BY <1>2, <1>4, DonorGraphs
  <1>6. KnownGraph(file["graph"])'
    BY <1>5 DEF vars, KnownGraph, IssuedPackages
  <1>7. FileShape'
    BY <1>4, <1>6 DEF FileShape
  <1>8. QED
    BY <1>1, <1>7, FileStep

LEMMA AuditStep ==
  ASSUME TypeOK, AInv, UNCHANGED vars, Audit
  PROVE  AInv'
  <1>1. /\ file' = file /\ file # Absent
        /\ report' = IF VerifyEvidence(file) THEN file ELSE Absent
    BY DEF Audit
  <1>2. FileShape /\ FileShape'
    BY <1>1 DEF AInv, FileShape, vars, KnownGraph, IssuedPackages
  <1>3. CASE ~VerifyEvidence(file)
    <2>1. report' = Absent
      BY <1>1, <1>3
    <2>2. QED
      BY <1>2, <2>1 DEF AInv, AuditedIsOneRecording, AuditedWasIssued, AuditedOnTruth
  <1>4. CASE VerifyEvidence(file)
    <2>1. report' = file
      BY <1>1, <1>4
    <2>2. AuditedIsOneRecording'
      BY <1>1, <1>2, <1>4, <2>1, LinksDetermine DEF AuditedIsOneRecording
    <2>3. AuditedWasIssued'
      <3>1. HonestPackages' = HonestPackages /\ gates' = gates
        BY DEF vars, HonestPackages, IssuedPackages
      <3>2. QED
        BY <1>1, <1>2, <1>4, <2>1, <3>1, GateSignedIssued DEF AuditedWasIssued
    <2>4. AuditedOnTruth'
      BY <1>4, <2>1, VerifierSignedTrue DEF AuditedOnTruth, vars
    <2>5. QED
      BY <1>2, <2>2, <2>3, <2>4 DEF AInv
  <1>5. QED
    BY <1>3, <1>4

LEMMA AuditStepCases ==
  ASSUME TypeOK, AInv, [AuditNext]_<<vars, auditVars>>
  PROVE  AInv'
  <1>1. CASE file = Absent /\ report = Absent /\ Next /\ UNCHANGED auditVars
    <2>1. file' = Absent /\ report' = Absent
      BY <1>1 DEF auditVars
    <2>2. QED
      BY <2>1 DEF AInv, FileShape, AuditedIsOneRecording, AuditedWasIssued,
                  AuditedOnTruth
  <1>2. CASE UNCHANGED vars /\ \E k \in HonestPackages : Record(k)
    BY <1>2, RecordStep
  <1>3. CASE UNCHANGED vars /\ \E e \in SelfMadeFiles : Fabricate(e)
    BY <1>3, FabricateStep
  <1>4. CASE /\ UNCHANGED vars /\ file # Absent
             /\ \E donor \in Donors : \E part \in DOMAIN file : Replace(part, donor)
    BY <1>4, ReplaceStep
  <1>5. CASE UNCHANGED vars /\ Audit
    BY <1>5, AuditStep
  <1>6. CASE UNCHANGED <<vars, auditVars>>
    <2>1. FileShape'
      BY <1>6 DEF AInv, FileShape, KnownGraph, IssuedPackages, vars, auditVars
    <2>2. report' = report
      BY <1>6 DEF auditVars
    <2>3. QED
      BY <1>6, <2>1, <2>2, FileStep
  <1>7. QED
    BY <1>1, <1>2, <1>3, <1>4, <1>5, <1>6 DEF AuditNext

(* Every behaviour with an audit is one of the gates, so that what         *)
(* TrustedGateProofs shows of them holds here too.                         *)
LEMMA AuditRefinesGate == AuditSpec => Spec
  <1>1. AuditInit => Init
    BY DEF AuditInit
  <1>2. [AuditNext]_<<vars, auditVars>> => [Next]_vars
    BY DEF AuditNext
  <1>3. QED
    BY <1>1, <1>2, PTL DEF AuditSpec, Spec

(* The invariant holds whoever writes the file. *)
LEMMA AuditInvariant == AuditSpec => []AInv
  <1>1. AuditInit => AInv
    BY DEF AuditInit, AInv, FileShape, AuditedIsOneRecording, AuditedWasIssued,
           AuditedOnTruth
  <1>2. TypeOK /\ AInv /\ [AuditNext]_<<vars, auditVars>> => AInv'
    BY AuditStepCases
  <1>3. AuditSpec => []TypeOK
    BY AuditRefinesGate, TypeCorrect, PTL
  <1>4. QED
    BY <1>1, <1>2, <1>3, PTL DEF AuditSpec

(* Whoever made the file and whatever keys it names, what is reported as   *)
(* verified is part for part one package's recording (verifyEvidence).     *)
THEOREM AuditConsistent == AuditSpec => []AuditedIsOneRecording
  <1>1. AInv => AuditedIsOneRecording
    BY DEF AInv
  <1>2. QED
    BY <1>1, AuditInvariant, PTL

(* Under a state signer known as a gate's, only the recording of a package *)
(* that this gate issued is ever reported as verified.                     *)
THEOREM AuditSound == AuditSpec => []AuditedWasIssued
  <1>1. AInv => AuditedWasIssued
    BY DEF AInv
  <1>2. QED
    BY <1>1, AuditInvariant, PTL

(* Under the verifier's key the reported artifacts establish every fact,   *)
(* also in files that no gate wrote, under policies nobody trusts.         *)
THEOREM AuditTruthful == AuditSpec => []AuditedOnTruth
  <1>1. AInv => AuditedOnTruth
    BY DEF AInv
  <1>2. QED
    BY <1>1, AuditInvariant, PTL

-----------------------------------------------------------------------------
(* Completeness *)

LEMMA JustifiedFacts ==
  ASSUME NEW case, NEW material, Justified(case, material)
  PROVE  AllFactsTrue(FactsFor(material))
  <1>1. material.claim \in Registered
    BY PinAssumption DEF Justified
  <1>2. QED
    BY <1>1 DEF Justified, AllFactsTrue, FactsFor, FactKeys

(* Every recording of an honest package passes the audit.                  *)
THEOREM AuditComplete == AuditSpec => []IssuedIsAuditable
  <1>1. TypeOK /\ AdmittedOnTruth => IssuedIsAuditable
    <2> SUFFICES ASSUME TypeOK, AdmittedOnTruth, NEW k \in HonestPackages
                 PROVE  VerifyEvidence(Recording(k))
      BY DEF IssuedIsAuditable
    <2>1. PICK i \in 1..Len(issued) : k = issued[i]
      BY DEF HonestPackages, IssuedPackages
    <2>2. k.caseId = HonestCase
      BY DEF HonestPackages
    <2> DEFINE e == Recording(k)
               a == k.attestation
    <2>3. /\ Justified(k.caseId, k.artifactBundle)
          /\ a = Attestation(k.artifactBundle,
                   Context(k.policyHash, Network, k.caseId, k.requestNonce))
          /\ a \in attested
          /\ k.claimInput = PinnedClaim[k.caseId]
          /\ k.facts = FactsFor(k.artifactBundle)
          /\ k.disclosures = k.facts
      BY <2>1 DEF AdmittedOnTruth
    <2>4. k \in Packages
      <3>1. issued \in Seq(Packages)
        BY DEF TypeOK
      <3>2. QED
        BY <2>1, <3>1
    <2>5. PICK g \in 1..MaxGates : k.policyHash = PolicyCore(g)
      BY <2>4 DEF Packages, PolicyHashes
    <2>6. /\ a.verifierKeyId = VerifierKey /\ a.policyHash = k.policyHash
          /\ a.network = Network /\ a.caseId = k.caseId
          /\ a.requestNonce = k.requestNonce
          /\ a.artifactBundle = k.artifactBundle
          /\ a.claimInput = k.artifactBundle.claim
          /\ a.facts = FactsFor(k.artifactBundle)
      BY <2>3 DEF Attestation, Context
    <2>7. /\ k.policyHash.network = Network
          /\ k.policyHash.factProvider = VerifierKey
          /\ k.policyHash.claimInputs = PinnedClaim
      BY <2>5 DEF PolicyCore
    <2>8. /\ e.policyHash = k.policyHash /\ e.policyCore = k.policyHash
          /\ e.providerKeyId = k.policyHash.factProvider
          /\ e.material = k.artifactBundle /\ e.bundle = k.artifactBundle
          /\ e.attestation = a /\ e.graph = Graph(k) /\ e.graph.mark = k
          /\ e.graphVerification = GraphCheck(Graph(k), k.policyHash)
          /\ e.receiptClaim = k.claimInput
          /\ e.receiptBundle = k.artifactBundle
          /\ e.receiptAttestation = a /\ e.receiptNonce = k.requestNonce
          /\ e.receiptGraph = Graph(k)
      BY DEF Recording, Evidence, Graph
    <2>9. k.artifactBundle.claim = PinnedClaim[HonestCase]
      BY <2>2, <2>3 DEF Justified
    <2> HIDE DEF e, a
    <2>10. PolicyVerifies(e) /\ ArtifactsVerify(e)
      BY <2>2, <2>3, <2>7, <2>8, <2>9 DEF PolicyVerifies, ArtifactsVerify
    <2>11. AttestationVerifies(e)
      <3>1. AllFactsTrue(a.facts)
        BY <2>3, <2>6, JustifiedFacts
      <3>2. QED
        BY <2>2, <2>3, <2>6, <2>7, <2>8, <3>1
           DEF AttestationVerifies, SignatureVerifies
    <2>12. StateMarkVerifies(e)
      BY <2>2, <2>3, <2>6, <2>8, <2>9 DEF StateMarkVerifies, a
    <2>13. GraphVerification(e)
      BY <2>8 DEF GraphVerification, GraphCheck, Graph
    <2>14. QED
      BY <2>10, <2>11, <2>12, <2>13 DEF VerifyEvidence, e
  <1>2. AuditSpec => []TypeOK /\ []AdmittedOnTruth
    BY AuditRefinesGate, TypeCorrect, PackagesJustified, PTL
  <1>3. QED
    BY <1>1, <1>2, PTL
==============================================================================
