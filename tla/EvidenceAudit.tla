---------------------------- MODULE EvidenceAudit ----------------------------
(***************************************************************************)
(* verify-blue-evidence.js: the program that audits, from a file and in    *)
(* another process, the evidence runMatrix of trusted-cosigner-gate.js     *)
(* records of an honest package.  It has no secret of the gate and takes   *)
(* the public keys and the claim pin from the policy core in the file; all *)
(* it can do is recompute digests, check signatures under the file's own   *)
(* keys and compare the parts of the file with each other.  What a report  *)
(* says therefore depends on whose keys the policy in it names.            *)
(*                                                                         *)
(* The state of TrustedGate says what was really issued.  The file is the  *)
(* recording of one honest package, or is made from nothing around any     *)
(* attestation, under any policy, with a graph signed by a key of one's    *)
(* own; afterwards single parts of it are replaced by those of other such  *)
(* files.                                                                  *)
(*                                                                         *)
(* Abstractions: those of TrustedGate; a graph is the signed state mark    *)
(* with its signer, and its hash is the graph; the parts of the receipt    *)
(* the audit does not read (sighash, signatures, outpoint, tree root) and  *)
(* the pin of the UTXORef checkout, a constant, are left out.              *)
(***************************************************************************)
EXTENDS TrustedGate

CONSTANTS
  HonestCase,   \* the case label the evidence is recorded for
  Absent,       \* no file, no report
  MaxEdits      \* bound: parts replaced in a recorded file

ASSUME HonestCaseAssumption == HonestCase \in DOMAIN PinnedClaim
ASSUME EditAssumption == MaxEdits \in Nat

VARIABLES
  file,     \* the recorded evidence, blue-team.json
  edits,    \* how many parts were replaced since
  report    \* the evidence the audit last reported as verified

auditVars == <<file, edits, report>>

-----------------------------------------------------------------------------
(* Graphs and their verification by the pinned UTXORef code *)

(* The mark signed into the state of package k, and who signed it. *)
Graph(k) == [mark |-> k, network |-> k.policyHash.network,
             signer |-> k.policyHash.stateSigner]

(* Mutant of GraphCheck: the signer a graph names is the one trusted. *)
GraphCheckSelfTrust(graph, core) ==
  [ok |-> graph.network = core.network, graphHash |-> graph]

GraphCheck(graph, core) ==
  [ok |-> /\ graph.signer = core.stateSigner
          /\ graph.network = core.network,
   graphHash |-> graph]

-----------------------------------------------------------------------------
(* What runMatrix writes down for package k *)

(* The parts of the file for one policy, artifact triple and graph. *)
Evidence(core, material, claim, attestation, nonce, graph) ==
  [policyHash |-> core, providerKeyId |-> core.factProvider,
   policyCore |-> core, material |-> material, bundle |-> material,
   attestation |-> attestation,
   graph |-> graph, graphVerification |-> GraphCheck(graph, core),
   receiptClaim |-> claim, receiptBundle |-> material,
   receiptAttestation |-> attestation, receiptNonce |-> nonce,
   receiptGraph |-> graph]

(* Mutant of Recording: the graph is verified under the newest policy. *)
RecordingUnderNewest(k) ==
  [Evidence(k.policyHash, k.artifactBundle, k.claimInput, k.attestation,
            k.requestNonce, Graph(k))
     EXCEPT !.graphVerification = GraphCheck(Graph(k), PolicyCore(gates))]

Recording(k) ==
  Evidence(k.policyHash, k.artifactBundle, k.claimInput, k.attestation,
           k.requestNonce, Graph(k))

IssuedPackages == {issued[i] : i \in 1..Len(issued)}

HonestPackages == {k \in IssuedPackages : k.caseId = HonestCase}

Record(k) ==
  /\ file = Absent
  /\ file' = Recording(k)
  /\ UNCHANGED <<edits, report>>

-----------------------------------------------------------------------------
(* Files and parts that no gate wrote *)

(* Attestations filled in for the honest case under some policy.  Whether  *)
(* one verifies depends on who holds the key it names.                     *)
Forged ==
  {[Attestation(material, Context(core, core.network, HonestCase, nonce))
      EXCEPT !.verifierKeyId = core.factProvider, !.facts = AllTrue] :
     material \in Materials, core \in KnownCores, nonce \in Nonces}

(* The package that attestation a would be recorded with. *)
Described(a) ==
  [policyHash |-> a.policyHash, caseId |-> a.caseId, claimInput |-> a.claimInput,
   artifactBundle |-> a.artifactBundle, attestation |-> a,
   requestNonce |-> a.requestNonce, facts |-> a.facts, disclosures |-> a.facts]

(* The file for that package, its graph signed with a key of one's own. *)
SelfMade(a) ==
  Evidence(a.policyHash, a.artifactBundle, a.claimInput, a, a.requestNonce,
           [mark |-> Described(a), network |-> a.policyHash.network,
            signer |-> ForeignKey])

SelfMadeFiles == {SelfMade(a) : a \in attested \cup Forged}

Fabricate(e) ==
  /\ file = Absent
  /\ file' = e
  /\ UNCHANGED <<edits, report>>

Donors == {Recording(k) : k \in IssuedPackages} \cup SelfMadeFiles

Replace(part, donor) ==
  /\ file # Absent
  /\ edits < MaxEdits
  /\ file[part] # donor[part]
  /\ file' = [file EXCEPT ![part] = donor[part]]
  /\ edits' = edits + 1
  /\ UNCHANGED report

-----------------------------------------------------------------------------
(* verifyEvidence, section by section *)

(* Keys and pins are those of e.policyCore, never the reader's. *)

PolicyVerifies(e) == e.policyHash = e.policyCore

ArtifactsVerify(e) ==
  /\ e.bundle = e.material
  /\ e.material.claim = e.policyCore.claimInputs[HonestCase]
  /\ e.receiptClaim = e.material.claim
  /\ e.receiptBundle = e.material

AttestationVerifies(e) ==
  LET a == e.attestation IN
  /\ AllFactsTrue(a.facts)
  /\ a.policyHash = e.policyCore
  /\ a.network = e.policyCore.network
  /\ a.caseId = HonestCase
  /\ a.requestNonce = e.receiptNonce
  /\ a.artifactBundle = e.material
  /\ a.claimInput = e.material.claim
  /\ e.policyCore.factProvider = e.providerKeyId
  /\ a.verifierKeyId = e.providerKeyId
  /\ SignatureVerifies(a, e.policyCore.factProvider)
  /\ e.receiptAttestation = a

StateMarkVerifies(e) ==
  LET mark == e.graph.mark
      a == e.attestation IN
  /\ mark.policyHash = a.policyHash
  /\ mark.caseId = a.caseId
  /\ mark.claimInput = a.claimInput
  /\ mark.artifactBundle = a.artifactBundle
  /\ mark.attestation = a
  /\ mark.requestNonce = a.requestNonce
  /\ mark.facts = a.facts
  /\ mark.disclosures = a.facts

(* Mutant of GraphVerification: the recorded verification is believed. *)
GraphVerificationAsRecorded(e) ==
  /\ e.graphVerification.ok
  /\ e.receiptGraph = e.graphVerification.graphHash

GraphVerification(e) ==
  LET check == GraphCheck(e.graph, e.policyCore) IN
  /\ check.ok
  /\ e.graphVerification = check
  /\ e.receiptGraph = check.graphHash

VerifyEvidence(e) ==
  /\ PolicyVerifies(e)
  /\ ArtifactsVerify(e)
  /\ AttestationVerifies(e)
  /\ StateMarkVerifies(e)
  /\ GraphVerification(e)

(* Either the report is written or an error and no report. *)
Audit ==
  /\ file # Absent
  /\ report' = IF VerifyEvidence(file) THEN file ELSE Absent
  /\ UNCHANGED <<file, edits>>

-----------------------------------------------------------------------------
AuditInit ==
  /\ Init
  /\ file = Absent
  /\ edits = 0
  /\ report = Absent

(* The gates run first; the file is all the audit sees of them. *)
AuditNext ==
  \/ file = Absent /\ report = Absent /\ Next /\ UNCHANGED auditVars
  \/ UNCHANGED vars /\ \E k \in HonestPackages : Record(k)
  \/ UNCHANGED vars /\ \E e \in SelfMadeFiles : Fabricate(e)
  \/ UNCHANGED vars /\ file # Absent
     /\ \E donor \in Donors : \E part \in DOMAIN file : Replace(part, donor)
  \/ UNCHANGED vars /\ Audit

AuditSpec == AuditInit /\ [][AuditNext]_<<vars, auditVars>>
-----------------------------------------------------------------------------
(* Properties *)

(* A report is written only for evidence that is, part for part, the       *)
(* recording of one package for the honest case, with the claim its own    *)
(* policy pins and facts that its attestation all calls true: nothing of a *)
(* second run or a second policy gets through the links of verifyEvidence, *)
(* whoever made the file.                                                  *)
AuditedIsOneRecording ==
  report # Absent =>
    LET k == report.graph.mark IN
    /\ report = Recording(k)
    /\ k = Described(k.attestation)
    /\ k.caseId = HonestCase
    /\ k.claimInput = k.policyHash.claimInputs[HonestCase]
    /\ AllFactsTrue(k.facts)

(* To a reader who knows the state signer in the reported policy as a      *)
(* gate's, the report is the recording of a package that this gate issued: *)
(* the mark a gate signs names its whole policy, so that nobody can put    *)
(* other terms, pins or keys around it.  For a state signer the reader     *)
(* does not know, a report says nothing of any gate.                       *)
AuditedWasIssued ==
  (report # Absent /\ report.policyCore.stateSigner \in 1..gates)
    => \E k \in HonestPackages : report = Recording(k)

(* To a reader who knows the fact provider in the reported policy as the   *)
(* independent verifier, the artifacts in the report really make every     *)
(* fact true, whoever composed that policy and signed that graph.          *)
AuditedOnTruth ==
  (report # Absent /\ report.policyCore.factProvider = VerifierKey)
    => /\ report.attestation \in attested
       /\ AllFactsTrue(FactsFor(report.material))

(* The recording of every honest package passes the audit, whatever other  *)
(* gates and packages there were: the two scripts agree on every link.     *)
IssuedIsAuditable == \A k \in HonestPackages : VerifyEvidence(Recording(k))
=============================================================================
