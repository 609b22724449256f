---------------------------- MODULE HostPreflight ----------------------------
(***************************************************************************)
(* src/demo.rs: the envelopes of the three demos and validate_host, the    *)
(* host preflight every envelope goes through before the proof pipeline.   *)
(*                                                                         *)
(* validate_host keeps no state.  What changes around it is what has been  *)
(* signed: owners sign spends of their VTXOs, the oracle announces payout  *)
(* tables and attests outcomes, the demos do both with the keys they hold, *)
(* and anybody assembles an envelope from whatever was signed.             *)
(*                                                                         *)
(* Abstractions: a signature is the message and the key it was made with   *)
(* and verifies if it was made; hashes are injective; a transaction is the *)
(* parts the checks look at.  A sequence number keeps its two flag bits    *)
(* and its 16-bit block count.                                             *)
(***************************************************************************)
EXTENDS Enforcement, Sequences, SequencesExt

CONSTANTS
  Vtxos,            \* valid Bark VTXOs: [id, point, amount, delta, owner, anchor]
  DemoVtxo,         \* the one the demos spend
  DemoExit,         \* outputs of the owner-exit demos
  DemoPayouts,      \* payout table of the virtual-CET demo
  Regtests,         \* genesis hashes; Regtests[1] is the one required
  Events, Event,    \* oracle events; the pinned one
  Oracles, Oracle,  \* oracle keys; the pinned one
  Outcomes, DemoOutcome,
  Spends,           \* transactions owners sign
  Tables,           \* payout tables oracles sign
  Scripts,          \* the output scripts of both
  Malformed,        \* bytes that do not decode
  MaxSpends,        \* bound: spends signed, unless by the demos
  MaxOracle,        \* bound: oracle signatures, unless by the demos
  MaxAccepted       \* bound: envelopes accepted

VARIABLES
  signatures,       \* every signature made so far
  emitted,          \* the demos whose receipt was built
  accepted          \* the envelopes validate_host accepted

vars == <<signatures, emitted, accepted>>

-----------------------------------------------------------------------------
(* Messages that get signed *)

Sign(key, message) == [key |-> key, message |-> message]

Verifies(signature, key, message) ==
  signature = Sign(key, message) /\ signature \in signatures

Prevout(vtxo) == [amount |-> vtxo.amount, script |-> vtxo.id]

(* Mutant of Sighash: the outputs are left out of what is signed. *)
SighashWithoutOutputs(spend, prevout) ==
  [tag |-> "spend", spend |-> [spend EXCEPT !.outputs = << >>],
   prevout |-> prevout]

Sighash(spend, prevout) ==
  [tag |-> "spend", spend |-> spend, prevout |-> prevout]

AnnouncementDigest(event, payouts) ==
  [tag |-> "announcement", event |-> event, payouts |-> payouts]

AttestationDigest(event, outcome, payouts) ==
  [tag |-> "attestation", event |-> event, outcome |-> outcome,
   payouts |-> payouts]

-----------------------------------------------------------------------------
(* Arithmetic of the preflight *)

(* Mutant of OutputSum: the sum wraps. *)
OutputSumWrapping(outputs) ==
  LET sum[i \in 0..Len(outputs)] ==
        IF i = 0 THEN 0 ELSE (sum[i - 1] + outputs[i].amount) % (U64Max + 1) IN
  sum[Len(outputs)]

OutputSum(outputs) ==
  LET sum[i \in 0..Len(outputs)] ==
        IF i = 0 THEN 0 ELSE CheckedAdd(sum[i - 1], outputs[i].amount, U64Max) IN
  sum[Len(outputs)]

(* What the outputs are worth, whatever fits a u64. *)
RealSum(outputs) ==
  LET sum[i \in 0..Len(outputs)] ==
        IF i = 0 THEN 0 ELSE sum[i - 1] + outputs[i].amount IN
  sum[Len(outputs)]

Maturity(confirmed, delta) == CheckedAdd(confirmed, delta, U32Max)

SatisfiesCsv(sequence, delta) ==
  ~sequence.disabled /\ ~sequence.seconds /\ sequence.blocks >= delta

-----------------------------------------------------------------------------
(* validate_host.  Every check is an early return in the code, in this     *)
(* order; all must pass, so the order shows only in the reason given.      *)

VtxoValid(e) ==
  /\ e.vtxo # Malformed
  /\ e.anchor # Malformed
  /\ e.anchor = e.vtxo.anchor

ContextValid(e) ==
  /\ e.vtxoId = e.vtxo.id
  /\ e.nonce # 0
  /\ e.genesis = Regtests[1]
  /\ e.flags = "required"
  /\ Len(e.prevouts) = 1
  /\ e.prevouts[1] = Prevout(e.vtxo)

ShapeValid(e) ==
  /\ e.spend # Malformed
  /\ e.inputIndex = 0 /\ e.spend.inputs = 1
  /\ ~e.spend.scriptSig
  /\ e.spend.outputs # << >>
  /\ ~e.spend.overweight
  /\ e.spend.outpoint = e.vtxo.point
  /\ e.spend.version >= 2

(* Mutant of Mature: one block too many is waited for. *)
MatureOneLater(e) ==
  /\ SatisfiesCsv(e.spend.sequence, e.vtxo.delta)
  /\ Maturity(e.confirmed, e.vtxo.delta) # None
  /\ e.height > Maturity(e.confirmed, e.vtxo.delta)

Mature(e) ==
  /\ SatisfiesCsv(e.spend.sequence, e.vtxo.delta)
  /\ Maturity(e.confirmed, e.vtxo.delta) # None
  /\ e.height >= Maturity(e.confirmed, e.vtxo.delta)

WithinAmount(e) ==
  /\ OutputSum(e.spend.outputs) # None
  /\ OutputSum(e.spend.outputs) <= e.vtxo.amount

(* Mutant of OwnerScriptPath: any signature over the spend will do. *)
OwnerScriptPathAnyKey(e) ==
  /\ e.witness.leaf = e.vtxo.id
  /\ e.witness.signature \in signatures
  /\ e.witness.signature.message = Sighash(e.spend, Prevout(e.vtxo))

(* verify_owner_script_path: script and control block are the VTXO's. *)
OwnerScriptPath(e) ==
  /\ e.witness.leaf = e.vtxo.id
  /\ Verifies(e.witness.signature, e.vtxo.owner,
              Sighash(e.spend, Prevout(e.vtxo)))

OwnerEvidence(e) ==
  /\ e.evidence.kind = "owner exit"
  /\ e.evidence.owner = e.vtxo.owner
  /\ e.evidence.delay = e.vtxo.delta

(* Mutant of CetEvidence: the payouts are not compared with the outputs. *)
CetEvidenceAnyOutputs(e) ==
  LET c == e.evidence IN
  /\ c.kind = "virtual cet"
  /\ c.event = Event /\ c.oracle = Oracle
  /\ Len(c.payouts) = Len(e.spend.outputs)
  /\ Verifies(c.announcement, c.oracle, AnnouncementDigest(c.event, c.payouts))
  /\ Verifies(c.attestation, c.oracle,
              AttestationDigest(c.event, c.outcome, c.payouts))

CetEvidence(e) ==
  LET c == e.evidence IN
  /\ c.kind = "virtual cet"
  /\ c.event = Event /\ c.oracle = Oracle
  /\ c.payouts = e.spend.outputs
  /\ Verifies(c.announcement, c.oracle, AnnouncementDigest(c.event, c.payouts))
  /\ Verifies(c.attestation, c.oracle,
              AttestationDigest(c.event, c.outcome, c.payouts))

ValidateHost(e) ==
  /\ VtxoValid(e)
  /\ ContextValid(e)
  /\ ShapeValid(e)
  /\ Mature(e)
  /\ WithinAmount(e)
  /\ OwnerScriptPath(e)
  /\ OwnerEvidence(e) \/ CetEvidence(e)

(* The verdict: a VTXO that decodes is reported valid also when its spend  *)
(* is not, and the oracle is judged only in a virtual CET that is accepted. *)
HostValidation(e) ==
  [bark_vtxo_valid |-> VtxoValid(e),
   exact_spend_valid |-> ValidateHost(e),
   oracle_evidence_valid |->
     IF ValidateHost(e) /\ e.evidence.kind = "virtual cet" THEN {TRUE} ELSE {}]

-----------------------------------------------------------------------------
(* Building envelopes *)

Blocks(n) == [disabled |-> FALSE, seconds |-> FALSE, blocks |-> n]

OwnerSpend(vtxo, outputs) ==
  [inputs |-> 1, scriptSig |-> FALSE, outpoint |-> vtxo.point, version |-> 2,
   sequence |-> Blocks(vtxo.delta), outputs |-> outputs, overweight |-> FALSE]

OwnerExit(vtxo) ==
  [kind |-> "owner exit", owner |-> vtxo.owner, delay |-> vtxo.delta]

VirtualCet(outcome, payouts) ==
  [kind |-> "virtual cet", event |-> Event, oracle |-> Oracle,
   announcement |-> Sign(Oracle, AnnouncementDigest(Event, payouts)),
   attestation |-> Sign(Oracle, AttestationDigest(Event, outcome, payouts)),
   outcome |-> outcome, payouts |-> payouts]

(* An envelope for a VTXO confirmed at height 0 and just mature. *)
Envelope(vtxo, spend, evidence) ==
  [vtxo |-> vtxo, vtxoId |-> vtxo.id, anchor |-> vtxo.anchor, nonce |-> 1,
   genesis |-> Regtests[1], flags |-> "required",
   prevouts |-> <<Prevout(vtxo)>>, spend |-> spend, inputIndex |-> 0,
   height |-> vtxo.delta, confirmed |-> 0,
   witness |-> [leaf |-> vtxo.id,
                signature |-> Sign(vtxo.owner, Sighash(spend, Prevout(vtxo)))],
   evidence |-> evidence]

DemoCases == {"owner_exit_allow", "owner_exit_challenge", "virtual_cet_guard"}

DemoSpend(case) ==
  OwnerSpend(DemoVtxo,
             IF case = "virtual_cet_guard" THEN DemoPayouts ELSE DemoExit)

(* The challenge demo changes the signed amount and keeps the signature. *)
DemoEnvelope(case) ==
  LET signed == Envelope(DemoVtxo, DemoSpend(case),
                         IF case = "virtual_cet_guard"
                         THEN VirtualCet(DemoOutcome, DemoPayouts)
                         ELSE OwnerExit(DemoVtxo)) IN
  IF case = "owner_exit_challenge"
  THEN [signed EXCEPT !.spend.outputs[1].amount = @ - 1]
  ELSE signed

DemoSignatures(case) ==
  {Sign(DemoVtxo.owner, Sighash(DemoSpend(case), Prevout(DemoVtxo)))}
    \cup IF case = "virtual_cet_guard"
         THEN {Sign(Oracle, AnnouncementDigest(Event, DemoPayouts)),
               Sign(Oracle, AttestationDigest(Event, DemoOutcome, DemoPayouts))}
         ELSE {}

(* Payments of u64 amounts. *)
IsTable(table) == table \in Seq([amount : U64, script : Scripts])

(* What decodes is not malformed and has integers of its widths; tables    *)
(* pay somebody, and those of the demos no more than the demo VTXO holds.  *)
ASSUME PreflightAssumption ==
  /\ DemoVtxo \in Vtxos
  /\ \A vtxo \in Vtxos :
       vtxo.amount \in U64 /\ vtxo.delta \in U32 /\ Malformed \notin {vtxo, vtxo.anchor}
  /\ \A table \in Tables \cup {DemoExit, DemoPayouts} :
       /\ IsTable(table) /\ table # << >>
       /\ \A vtxo \in Vtxos : OwnerSpend(vtxo, table) # Malformed
  /\ \A table \in {DemoExit, DemoPayouts} : RealSum(table) <= DemoVtxo.amount
  /\ \A spend \in Spends : IsTable(spend.outputs)

-----------------------------------------------------------------------------
(* What anybody can assemble: an envelope around a signed spend, for the   *)
(* owner or for an attested outcome, with one part replaced.  Heights are  *)
(* replaced at their boundaries.                                           *)

SignedSpends ==
  {s.message : s \in {t \in signatures : t.message.tag = "spend"}}

Attestations ==
  {s.message : s \in {t \in signatures : t.message.tag = "attestation"}}

Alternatives(e) ==
  [vtxo |-> Vtxos \cup {Malformed}, vtxoId |-> {v.id : v \in Vtxos},
   anchor |-> {v.anchor : v \in Vtxos} \cup {Malformed}, nonce |-> {0, 2},
   genesis |-> {Regtests[i] : i \in 1..Len(Regtests)},
   flags |-> {"required", "other"},
   prevouts |-> {<< >>, <<e.prevouts[1], e.prevouts[1]>>}
                  \cup {<<Prevout(v)>> : v \in Vtxos},
   spend |-> Spends \cup {Malformed}, inputIndex |-> {0, 1},
   height |-> {e.vtxo.delta - 1, U32Max}, confirmed |-> {1, U32Max},
   witness |-> [leaf : {v.id : v \in Vtxos}, signature : signatures],
   evidence |-> {OwnerExit(v) : v \in Vtxos}
                  \cup {VirtualCet(o, t) : o \in Outcomes, t \in Tables}
                  \cup {[OwnerExit(DemoVtxo) EXCEPT !.delay = 0]}]

WithOverride(e) ==
  UNION {{[e EXCEPT ![part] = v] : v \in Alternatives(e)[part]} :
           part \in DOMAIN e}

Assembled ==
  UNION {LET vtxo == CHOOSE v \in Vtxos : Prevout(v) = m.prevout IN
         {Envelope(vtxo, m.spend, OwnerExit(vtxo))}
           \cup {Envelope(vtxo, m.spend, VirtualCet(a.outcome, a.payouts)) :
                   a \in Attestations} : m \in SignedSpends}

-----------------------------------------------------------------------------
Init ==
  /\ signatures = {}
  /\ emitted = {}
  /\ accepted = {}

(* build_receipt: builds, validates, and asserts the expected verdict. *)
BuildReceipt(case) ==
  /\ emitted' = emitted \cup {case}
  /\ signatures' = signatures \cup DemoSignatures(case)
  /\ UNCHANGED accepted

Owners == {v.owner : v \in Vtxos}

Made(keys) == {s \in signatures : s.key \in keys}

(* Anybody can sign a spend of anybody's VTXO with a key of their own. *)
OwnerSigns(key, vtxo, spend) ==
  /\ Cardinality(Made(Owners)) < MaxSpends
  /\ spend.outpoint = vtxo.point
  /\ signatures' = signatures \cup {Sign(key, Sighash(spend, Prevout(vtxo)))}
  /\ UNCHANGED <<emitted, accepted>>

OracleSigns(key, message) ==
  /\ Cardinality(Made(Oracles)) < MaxOracle
  /\ signatures' = signatures \cup {Sign(key, message)}
  /\ UNCHANGED <<emitted, accepted>>

Validate(e) ==
  /\ Cardinality(accepted) < MaxAccepted
  /\ ValidateHost(e)
  /\ accepted' = accepted \cup {e}
  /\ UNCHANGED <<signatures, emitted>>

Next ==
  \/ \E case \in DemoCases : BuildReceipt(case)
  \/ \E key \in Owners, vtxo \in Vtxos, spend \in Spends :
       OwnerSigns(key, vtxo, spend)
  \/ \E key \in Oracles, event \in Events, table \in Tables :
       \/ OracleSigns(key, AnnouncementDigest(event, table))
       \/ \E outcome \in Outcomes :
            OracleSigns(key, AttestationDigest(event, outcome, table))
  \/ \E a \in Assembled : \E e \in WithOverride(a) : Validate(e)

Spec == Init /\ [][Next]_vars
-----------------------------------------------------------------------------
(* Properties *)

(* Whatever envelope was assembled, an accepted spend is, output for       *)
(* output, one that the VTXO's own owner signed, and it spends that VTXO.  *)
OwnerAuthorized ==
  \A e \in accepted :
    /\ \E s \in signatures :
         /\ s.key = e.vtxo.owner
         /\ s.message.spend = e.spend /\ s.message.prevout = Prevout(e.vtxo)
    /\ e.spend.outpoint = e.vtxo.point

(* In true arithmetic, an accepted spend pays out no more than the VTXO    *)
(* holds, and the VTXO's delay has passed since it was confirmed: no u64   *)
(* sum of outputs and no u32 height wraps around.                          *)
ValueAndDelay ==
  \A e \in accepted :
    /\ RealSum(e.spend.outputs) <= e.vtxo.amount
    /\ e.height - e.confirmed >= e.vtxo.delta

(* An accepted virtual CET pays exactly a table that the pinned oracle     *)
(* announced for the pinned event and attested together with the outcome.  *)
PaysAsAttested ==
  \A e \in accepted : e.evidence.kind = "virtual cet" =>
    LET outcome == e.evidence.outcome
        table == e.spend.outputs IN
    /\ Sign(Oracle, AnnouncementDigest(Event, table)) \in signatures
    /\ Sign(Oracle, AttestationDigest(Event, outcome, table)) \in signatures
    /\ e.evidence.payouts = table

(* The owner's exit stays independent of everybody else: a plain spend the *)
(* owner signed within the amount is accepted as soon as it is mature,     *)
(* whatever oracles and other owners signed.                               *)
OwnerExitNeverRefused ==
  \A vtxo \in Vtxos, table \in Tables :
    LET spend == OwnerSpend(vtxo, table) IN
    (/\ Sign(vtxo.owner, Sighash(spend, Prevout(vtxo))) \in signatures
     /\ RealSum(table) <= vtxo.amount)
    => ValidateHost(Envelope(vtxo, spend, OwnerExit(vtxo)))

(* The assertion of build_receipt never fires: of the demos only the       *)
(* challenge is refused, for its spend and not for its VTXO, also when     *)
(* other demos left signatures behind; only the CET has an oracle verdict. *)
DemosAsExpected ==
  \A case \in emitted :
    HostValidation(DemoEnvelope(case)) =
      [bark_vtxo_valid |-> TRUE,
       exact_spend_valid |-> case # "owner_exit_challenge",
       oracle_evidence_valid |-> IF case = "virtual_cet_guard" THEN {TRUE} ELSE {}]
=============================================================================
