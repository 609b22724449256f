----------------------------- MODULE ProofPath -----------------------------
(***************************************************************************)
(* Publishing a manifest for a delivered receipt: a publisher parses the   *)
(* receipt and builds the manifest from a draft in which some parts are    *)
(* wrong, and replaces what each ReceiptParseError or ManifestError names  *)
(* until nothing is refused.  How the receipt came about (the guest that   *)
(* wraps a STWO proof) is no part of this code.                            *)
(*                                                                         *)
(* An error is modelled by the parts it points a caller at, in the order   *)
(* the code looks for errors; one that does not say which of several parts *)
(* is wrong points at all of them.                                         *)
(***************************************************************************)
EXTENDS ClaimManifest

CONSTANTS
  MaxFaults          \* bound: wrong parts of a draft

VARIABLES
  draft,             \* what the publisher hands in next
  error              \* what the last attempt was refused for

pathVars == <<draft, error, delivered, receipts, manifests>>

-----------------------------------------------------------------------------
(* Errors *)

(* The fields of the receipt and of the parameters, and the artifacts, an  *)
(* error points at.                                                        *)
At(receipt, params, kinds) ==
  [receipt |-> receipt, params |-> params, artifacts |-> kinds]

NoError == At({}, {}, {})

InReceipt(fields) == At(fields, {}, {})
InParams(fields) == At({}, fields, {})
InArtifact(kind) == At({}, {}, {kind})

Check(ok, at) == [ok |-> ok, at |-> at]

FirstError(checks) ==
  LET failed == SelectSeq(checks, LAMBDA c : ~c.ok) IN
  IF failed = << >> THEN NoError ELSE Head(failed).at

(* The selector and the proof parse_seal splits a seal into. *)
Split(s) ==
  LET seal == s.selector \o s.proof IN
  [s EXCEPT !.selector = SubSeq(seal, 1, Len(Selector)), !.proof = ProofOf(seal)]

(* ReceiptParseError of parse_parts; in a whole seal the selector and the  *)
(* proof are one part.                                                     *)
PartsError(s) ==
  LET seal(part) == InReceipt(IF s.whole THEN {"selector", "proof"} ELSE {part})
      one == Len(s.inputs) = 1 IN
  FirstError(<<
    Check(Len(s.selector) = Len(Selector), seal("selector")),
    Check(s.selector = Selector, seal("selector")),
    Check(Len(s.proof) = ProofLen, seal("proof")),
    Check(Len(s.journal) = DigestLen, InReceipt({"journal"})),
    Check(Len(s.claim) = DigestLen, InReceipt({"claim"})),
    Check(CanonicalScalar(s.claim), InReceipt({"claim", "inputs"})),
    Check(one, InReceipt({"inputs"})),
    Check(one /\ Len(s.inputs[1]) = DigestLen, InReceipt({"inputs"})),
    Check(one /\ CanonicalScalar(s.inputs[1]), InReceipt({"claim", "inputs"})),
    Check(one /\ s.inputs[1] = s.claim, InReceipt({"claim", "inputs"}))>>)

(* ReceiptParseError of parse_seal or of parse_parts. *)
ReceiptParseError(s) ==
  IF ~s.whole THEN PartsError(s)
  ELSE IF Len(s.selector \o s.proof) # Len(Selector) + ProofLen
  THEN InReceipt({"selector", "proof"})
  ELSE PartsError(Split(s))

Parses(s) ==
  IF s.whole THEN SealParses(s.selector \o s.proof, s.journal, s.claim, s.inputs)
  ELSE PartsParse(s.selector, s.proof, s.journal, s.claim, s.inputs)

(* Mutant of CriticalDigests: two labels of the table are swapped. *)
CriticalDigestsMislabelled(p) ==
  <<<<"statement", p.statement>>, <<"verifyingKey", p.image>>, <<"claim", p.claim>>,
    <<"image", p.verifyingKey>>>>

(* The (field, digest) table of new, the graph apart. *)
CriticalDigests(p) ==
  <<<<"statement", p.statement>>, <<"image", p.image>>, <<"claim", p.claim>>,
    <<"verifyingKey", p.verifyingKey>>>>

PinChecks(p) ==
  <<Check(p.nonce # Zero, InParams({"nonce"}))>>
    \o [i \in DOMAIN CriticalDigests(p) |->
          LET entry == CriticalDigests(p)[i] IN
          Check(entry[2] # Zero, InParams({entry[1]}))]
    \o <<Check(p.graph # NoHash, InParams({"graph"}))>>

BindingChecks(p, receipt) ==
  <<Check(receipt.journal = p.statement, At({"journal"}, {"statement"}, {})),
    Check(receipt.claim = p.claim, At({"claim", "inputs"}, {"claim"}, {})),
    Check(p.inputCount = 1, InParams({"inputCount"})),
    Check(CanonicalScalar(p.scalar), InParams({"scalar"})),
    Check(p.scalar = receipt.claim, At({"claim", "inputs"}, {"scalar"}, {})),
    Check(ValidateRequest(p.request), InParams({"request"}))>>

(* The errors about a repository do not say whose it is. *)
ArtifactChecks(artifacts, i) ==
  LET a == artifacts[i] IN
  <<Check(IsRepository(a.repository), At({}, {}, Range(Kinds))),
    Check(ValidateArtifact(a), InArtifact(a.kind)),
    Check(\A j \in 1..(i - 1) : artifacts[j].kind # a.kind, InArtifact(a.kind))>>

MissingChecks(artifacts) ==
  [k \in DOMAIN Kinds |->
     Check(\E i \in DOMAIN artifacts : artifacts[i].kind = Kinds[k],
           InArtifact(Kinds[k]))]

(* Looked at only when every kind is there. *)
ContentChecks(p, receipt) ==
  LET seal == Find(p.artifacts, "boundless_seal")
      graph == Find(p.artifacts, "bitvm2_graph") IN
  <<Check(seal.len = Len(Selector) + ProofLen, InArtifact("boundless_seal")),
    Check(seal.sha256 = Sha256("seal", SealOf(receipt)),
          At({"selector", "proof"}, {}, {"boundless_seal"})),
    Check(graph.sha256 = p.graph, At({}, {"graph"}, {"bitvm2_graph"}))>>

(* ManifestError of Bitvm2ClaimManifestV1::new. *)
ManifestError(p, receipt) ==
  LET early == FirstError(
        PinChecks(p) \o BindingChecks(p, receipt)
          \o FlattenSeq([i \in DOMAIN p.artifacts |-> ArtifactChecks(p.artifacts, i)])
          \o MissingChecks(p.artifacts)) IN
  IF early # NoError THEN early ELSE FirstError(ContentChecks(p, receipt))

-----------------------------------------------------------------------------
(* Drafts *)

NoDraft == [receipt |-> << >>]

(* The right parts for a delivery. *)
RightReceipt(d) == Receipt(d.journal, d.claim, ProofOf(d.seal))

RightDraft(d, whole) ==
  [delivery |-> d,
   receipt |-> [whole |-> whole, selector |-> Selector, proof |-> ProofOf(d.seal),
                journal |-> d.journal, claim |-> d.claim, inputs |-> <<d.claim>>],
   params |-> ParamsFor(RightReceipt(d))]

(* Digests of any length a caller may hold in place of the right one. *)
WrongDigests == {Modulus, Zero, Tail(Zero)}

ReceiptFaults(s) ==
  With(s, [selector |-> {<< >>, Append(Selector, 0)},
           proof |-> {Reverse(s.proof), << >>, Append(s.proof, 0)},
           journal |-> Journals \cup {Tail(Zero)},
           claim |-> WrongDigests,
           inputs |-> {<< >>, <<Zero, Zero>>} \cup {<<c>> : c \in WrongDigests}])

ArtifactFaults(artifacts) ==
  {Reverse(artifacts), Tail(artifacts), Append(artifacts, artifacts[1])}
    \cup UNION {{[artifacts EXCEPT ![i] = a] :
                   a \in With(artifacts[i],
                              [kind |-> {"stwo_program"}, repository |-> Repositories,
                               commit |-> {"main"}, tag |-> {<< >>}, url |-> {<< >>},
                               len |-> {0}, sha256 |-> {NoHash, Sha256("other", << >>)}])} :
                  i \in {1, Len(artifacts) - 1, Len(artifacts)}}

ParamsFaults(p) ==
  With(p, [nonce |-> {Zero}, statement |-> Journals \cup {Zero}, image |-> {Zero},
           claim |-> {Zero, Pin}, verifyingKey |-> {Zero},
           graph |-> {NoHash, Sha256("other", << >>)}, inputCount |-> {0},
           scalar |-> WrongDigests,
           request |-> With(p.request, [chain |-> {"mainnet"}, market |-> {Zero},
                                        id |-> {Zero}, commit |-> {"main"}]),
           artifacts |-> ArtifactFaults(p.artifacts)])

Faults(drafts) ==
  UNION {With(d, [receipt |-> ReceiptFaults(d.receipt),
                  params |-> ParamsFaults(d.params)]) : d \in drafts}

Drafts(d) ==
  FoldLeft(LAMBDA drafts, i : drafts \cup Faults(drafts),
           {RightDraft(d, whole) : whole \in BOOLEAN}, [i \in 1..MaxFaults |-> i])

OpenDraft ==
  /\ draft = NoDraft
  /\ Cardinality(manifests) < MaxManifests
  /\ \E d \in delivered : draft' \in Drafts(d)
  /\ UNCHANGED <<error, delivered, receipts, manifests>>

-----------------------------------------------------------------------------
(* Publishing *)

DraftReceipt ==
  LET s == draft.receipt IN
  Receipt(s.journal, s.claim, IF s.whole THEN Split(s).proof ELSE s.proof)

Refused(e) ==
  /\ error' = e
  /\ UNCHANGED <<draft, delivered, manifests>>

(* The receipt is parsed, then the manifest built: the first error of      *)
(* either goes back to the publisher.                                      *)
Publish ==
  /\ draft # NoDraft /\ error = NoError
  /\ \/ /\ ~Parses(draft.receipt)
        /\ Refused(ReceiptParseError(draft.receipt))
        /\ UNCHANGED receipts
     \/ /\ Parses(draft.receipt)
        /\ receipts' = receipts \cup {DraftReceipt}
        /\ \/ /\ ~Accepts(draft.params, DraftReceipt)
              /\ Refused(ManifestError(draft.params, DraftReceipt))
           \/ /\ Accepts(draft.params, DraftReceipt)
              /\ manifests' = manifests \cup
                   {[params |-> draft.params, receipt |-> DraftReceipt,
                     manifest |-> Manifest(draft.params, DraftReceipt)]}
              /\ draft' = NoDraft
              /\ UNCHANGED <<error, delivered>>

(* The fields named get their right values. *)
Restore(record, right, fields) ==
  [f \in DOMAIN record |-> IF f \in fields THEN right[f] ELSE record[f]]

RestoreArtifacts(artifacts, right, kinds) ==
  SelectSeq(artifacts, LAMBDA a : a.kind \notin kinds)
    \o SelectSeq(right, LAMBDA a : a.kind \in kinds)

(* The publisher replaces what the error points at, and nothing else. *)
Repair ==
  /\ draft # NoDraft /\ error # NoError
  /\ LET right == RightDraft(draft.delivery, draft.receipt.whole) IN
     draft' = [draft EXCEPT
       !.receipt = Restore(@, right.receipt, error.receipt),
       !.params = [Restore(@, right.params, error.params) EXCEPT
         !.artifacts = RestoreArtifacts(@, right.params.artifacts, error.artifacts)]]
  /\ error' = NoError
  /\ UNCHANGED <<delivered, receipts, manifests>>

-----------------------------------------------------------------------------
PathInit ==
  /\ Init
  /\ draft = NoDraft
  /\ error = NoError

PathNext ==
  \/ /\ \E journal \in Journals, proof \in RawProofs : Deliver(journal, proof)
     /\ UNCHANGED <<draft, error>>
  \/ OpenDraft
  \/ Publish
  \/ Repair

(* A publisher at work keeps at it: both calls return at once. *)
PathSpec ==
  PathInit /\ [][PathNext]_pathVars /\ WF_pathVars(Publish) /\ WF_pathVars(Repair)

-----------------------------------------------------------------------------
(* Properties *)

(* Replacing what each error names is enough to get every draft published  *)
(* whose delivery has a canonical claim, whatever was wrong with it: no    *)
(* error points past the part that caused it, and no repair leads back to  *)
(* an error already seen (the labels and the order of the checks in        *)
(* parse_parts and Bitvm2ClaimManifestV1::new).                            *)
EventuallyPublished ==
  (draft # NoDraft /\ Value(draft.delivery.claim) < Value(Modulus))
    ~> (manifests # {})
=============================================================================
