-------------------------- MODULE HostPreflightProofs --------------------------
(***************************************************************************)
(* What the host preflight guarantees for every set of VTXOs, keys,        *)
(* spends, payout tables and signatures.                                   *)
(*                                                                         *)
(* Signatures are only ever added, so what validate_host found when it     *)
(* accepted an envelope stays true.  The checked u64 sum of a table's      *)
(* amounts is compared with the real one by induction over the table, and  *)
(* no envelope that can be assembled has anything but integer heights.     *)
(***************************************************************************)
EXTENDS HostPreflight, Recursion, SequenceTheorems

-----------------------------------------------------------------------------
(* Signatures support what was accepted *)

(* The part of validate_host's verdict that signatures can decide. *)
Supported(e) ==
  /\ ShapeValid(e)
  /\ OwnerScriptPath(e)
  /\ OwnerEvidence(e) \/ CetEvidence(e)

AcceptedInv == \A e \in accepted : Supported(e)

(* A signature that verified keeps verifying. *)
LEMMA StillVerifies ==
  ASSUME NEW signature, NEW key, NEW message,
         Verifies(signature, key, message), signatures \subseteq signatures'
  PROVE  Verifies(signature, key, message)'
  BY DEF Verifies

LEMMA StillSupported ==
  ASSUME NEW e, Supported(e), signatures \subseteq signatures'
  PROVE  Supported(e)'
  <1>1. ShapeValid(e)'
    BY DEF Supported, ShapeValid
  <1>2. OwnerScriptPath(e)'
    BY StillVerifies DEF Supported, OwnerScriptPath
  <1>3. OwnerEvidence(e) => OwnerEvidence(e)'
    BY DEF OwnerEvidence
  <1>4. CetEvidence(e) => CetEvidence(e)'
    BY StillVerifies DEF CetEvidence
  <1>5. QED
    BY <1>1, <1>2, <1>3, <1>4 DEF Supported

LEMMA SignaturesGrow ==
  ASSUME [Next]_vars
  PROVE  signatures \subseteq signatures'
  <1>1. CASE UNCHANGED vars
    BY <1>1 DEF vars
  <1>2. ASSUME NEW case \in DemoCases, BuildReceipt(case)
        PROVE  signatures \subseteq signatures'
    BY <1>2 DEF BuildReceipt
  <1>3. ASSUME NEW key, NEW vtxo, NEW spend, OwnerSigns(key, vtxo, spend)
        PROVE  signatures \subseteq signatures'
    BY <1>3 DEF OwnerSigns
  <1>4. ASSUME NEW key, NEW message, OracleSigns(key, message)
        PROVE  signatures \subseteq signatures'
    BY <1>4 DEF OracleSigns
  <1>5. ASSUME NEW e, Validate(e)
        PROVE  signatures \subseteq signatures'
    BY <1>5 DEF Validate
  <1>6. QED
    BY <1>1, <1>2, <1>3, <1>4, <1>5 DEF Next

LEMMA AcceptedGrowByValid ==
  ASSUME [Next]_vars
  PROVE  \/ accepted' = accepted
         \/ \E e : ValidateHost(e) /\ accepted' = accepted \cup {e}
  <1>1. CASE UNCHANGED vars
    BY <1>1 DEF vars
  <1>2. ASSUME NEW case \in DemoCases, BuildReceipt(case)
        PROVE  accepted' = accepted
    BY <1>2 DEF BuildReceipt
  <1>3. ASSUME NEW key, NEW vtxo, NEW spend, OwnerSigns(key, vtxo, spend)
        PROVE  accepted' = accepted
    BY <1>3 DEF OwnerSigns
  <1>4. ASSUME NEW key, NEW message, OracleSigns(key, message)
        PROVE  accepted' = accepted
    BY <1>4 DEF OracleSigns
  <1>5. ASSUME NEW e, Validate(e)
        PROVE  ValidateHost(e) /\ accepted' = accepted \cup {e}
    BY <1>5 DEF Validate
  <1>6. QED
    BY <1>1, <1>2, <1>3, <1>4, <1>5 DEF Next

THEOREM AcceptedStaySupported == Spec => []AcceptedInv
  <1>1. Init => AcceptedInv
    BY DEF Init, AcceptedInv
  <1>2. AcceptedInv /\ [Next]_vars => AcceptedInv'
    <2> SUFFICES ASSUME AcceptedInv, [Next]_vars, NEW e \in accepted'
                 PROVE  Supported(e)'
      BY DEF AcceptedInv
    <2>1. signatures \subseteq signatures'
      BY SignaturesGrow
    <2>2. Supported(e)
      <3>1. CASE e \in accepted
        BY <3>1 DEF AcceptedInv
      <3>2. CASE e \notin accepted
        <4>1. ValidateHost(e)
          BY <3>2, AcceptedGrowByValid
        <4>2. QED
          BY <4>1 DEF ValidateHost, Supported
      <3>3. QED
        BY <3>1, <3>2
    <2>3. QED
      BY <2>1, <2>2, StillSupported
  <1>3. QED
    BY <1>1, <1>2, PTL DEF Spec

(* Whatever was signed by whom and however envelopes were assembled, an    *)
(* accepted spend is the one the VTXO's owner signed for that VTXO.        *)
THEOREM SpendsAuthorized == Spec => []OwnerAuthorized
  <1>1. AcceptedInv => OwnerAuthorized
    <2> SUFFICES ASSUME AcceptedInv, NEW e \in accepted
                 PROVE  /\ \E s \in signatures :
                             /\ s.key = e.vtxo.owner
                             /\ s.message.spend = e.spend
                             /\ s.message.prevout = Prevout(e.vtxo)
                        /\ e.spend.outpoint = e.vtxo.point
      BY DEF OwnerAuthorized
    <2>1. /\ Verifies(e.witness.signature, e.vtxo.owner,
                      Sighash(e.spend, Prevout(e.vtxo)))
          /\ e.spend.outpoint = e.vtxo.point
      BY DEF AcceptedInv, Supported, OwnerScriptPath, ShapeValid
    <2> DEFINE s == Sign(e.vtxo.owner, Sighash(e.spend, Prevout(e.vtxo)))
    <2>2. s \in signatures
      BY <2>1 DEF Verifies
    <2>3. /\ s.key = e.vtxo.owner
          /\ s.message.spend = e.spend
          /\ s.message.prevout = Prevout(e.vtxo)
      BY DEF Sign, Sighash
    <2>4. QED
      BY <2>1, <2>2, <2>3
  <1>2. QED
    BY <1>1, AcceptedStaySupported, PTL

(* An accepted virtual CET pays a table the pinned oracle announced and    *)
(* attested, for every number of oracles, outcomes and tables.             *)
THEOREM CetsPayAsAttested == Spec => []PaysAsAttested
  <1>1. AcceptedInv => PaysAsAttested
    <2> SUFFICES ASSUME AcceptedInv, NEW e \in accepted,
                        e.evidence.kind = "virtual cet"
                 PROVE  /\ Sign(Oracle, AnnouncementDigest(Event, e.spend.outputs))
                             \in signatures
                        /\ Sign(Oracle, AttestationDigest(Event, e.evidence.outcome,
                                                          e.spend.outputs))
                             \in signatures
                        /\ e.evidence.payouts = e.spend.outputs
      BY DEF PaysAsAttested
    <2>1. CetEvidence(e)
      BY DEF AcceptedInv, Supported, OwnerEvidence
    <2>2. QED
      BY <2>1 DEF CetEvidence, Verifies
  <1>2. QED
    BY <1>1, AcceptedStaySupported, PTL

-----------------------------------------------------------------------------
(* Sums of amounts *)

(* A table is a sequence of payments, of amounts that fit a u64.           *)
LEMMA TableAmounts ==
  ASSUME NEW t, IsTable(t)
  PROVE  /\ Len(t) \in Nat /\ DOMAIN t = 1..Len(t)
         /\ \A i \in 1..Len(t) : /\ "amount" \in DOMAIN t[i]
                                 /\ t[i].amount \in Nat /\ t[i].amount <= U64Max
         /\ t # << >> => 1 \in 1..Len(t)
<1> DEFINE Payments == [amount : U64, script : Scripts]
<1>1. t \in Seq(Payments)
  BY DEF IsTable
<1>2. \A p \in Payments : "amount" \in DOMAIN p /\ p.amount \in Nat /\ p.amount <= U64Max
  BY WidthAssumption DEF U64
<1> HIDE DEF Payments
<1>3. Len(t) \in Nat /\ DOMAIN t = 1..Len(t) /\ \A i \in 1..Len(t) : t[i] \in Payments
  BY <1>1
<1>4. t # << >> => Len(t) # 0
  BY <1>1, EmptySeq
<1> QED
  BY <1>2, <1>3, <1>4

(* RealSum is the last of the partial sums.                                *)
LEMMA RealSums ==
  ASSUME NEW t, IsTable(t)
  PROVE  \E f \in [0..Len(t) -> Nat] :
           /\ RealSum(t) = f[Len(t)]
           /\ f[0] = 0
           /\ \A i \in 1..Len(t) : f[i] = f[i - 1] + t[i].amount
<1> DEFINE n == Len(t)
           step == [p \in (1..n) \X Nat |-> p[2] + t[p[1]].amount]
           Obeys(f) == f = [i \in 0..n |-> IF i = 0 THEN 0
                                           ELSE f[i - 1] + t[i].amount]
<1>1. n \in Nat /\ \A i \in 1..n : t[i].amount \in Nat
  BY TableAmounts
<1> HIDE DEF n
<1>2. step \in [(1..n) \X Nat -> Nat]
  BY <1>1
<1> HIDE DEF step
<1>3. PICK g \in [0..n -> Nat] : Computes(g, n, 0, step)
  <2>1. n \in Nat /\ 0 \in Nat
    BY <1>1
  <2> QED
    BY <1>2, <2>1, Recursive
<1>4. /\ g[0] = 0
      /\ \A i \in 1..n : g[i] = g[i - 1] + t[i].amount
  <2>1. \A i \in 1..n : i - 1 \in 0..n
    BY <1>1
  <2> QED
    BY <1>1, <1>3, <2>1 DEF step, Computes
<1>5. Obeys(g)
  BY <1>1, <1>4
<1> DEFINE f == CHOOSE f : Obeys(f)
<1>6. Obeys(f)
  BY <1>5
<1>7. RealSum(t) = f[n]
  BY DEF RealSum, n
<1> HIDE DEF f
<1>8. /\ f[0] = 0
      /\ \A i \in 1..n : f[i] = f[i - 1] + t[i].amount
  BY <1>1, <1>6
<1>9. \A i \in 0..n : f[i] \in Nat
  <2> DEFINE T == {j \in 0..n : f[j] \in Nat}
  <2>1. 0 \in T
    BY <1>1, <1>8
  <2>2. ASSUME NEW i \in 1..n, i - 1 \in T PROVE i \in T
    <3>1. f[i - 1] \in Nat /\ f[i] = f[i - 1] + t[i].amount /\ t[i].amount \in Nat
      BY <1>1, <1>8, <2>2
    <3> QED
      BY <1>1, <3>1
  <2> HIDE DEF T
  <2>3. \A i \in 0..n : i \in T
    BY <1>1, <2>1, <2>2, InductiveUpTo
  <2> QED
    BY <2>3 DEF T
<1>10. f \in [0..n -> Nat]
  BY <1>6, <1>9
<1> QED
  BY <1>7, <1>8, <1>10 DEF n

(* OutputSum is the last of the partial sums that fit a u64.               *)
LEMMA CheckedSums ==
  ASSUME NEW t, IsTable(t)
  PROVE  \E f \in [0..Len(t) -> Nat \cup {None}] :
           /\ OutputSum(t) = f[Len(t)]
           /\ f[0] = 0
           /\ \A i \in 1..Len(t) : f[i] = CheckedAdd(f[i - 1], t[i].amount, U64Max)
<1> DEFINE n == Len(t)
           S == Nat \cup {None}
           step == [p \in (1..n) \X S |-> CheckedAdd(p[2], t[p[1]].amount, U64Max)]
           Obeys(f) == f = [i \in 0..n |-> IF i = 0 THEN 0
                               ELSE CheckedAdd(f[i - 1], t[i].amount, U64Max)]
<1>1. n \in Nat /\ 0 \in S /\ \A i \in 1..n : t[i].amount \in Nat
  BY TableAmounts
<1>2. ASSUME NEW x \in S, NEW y \in Nat PROVE CheckedAdd(x, y, U64Max) \in S
  BY DEF CheckedAdd, None
<1> HIDE DEF n, S
<1>3. step \in [(1..n) \X S -> S]
  BY <1>1, <1>2
<1> HIDE DEF step
<1>4. PICK g \in [0..n -> S] : Computes(g, n, 0, step)
  BY <1>1, <1>3, Recursive
<1>5. /\ g[0] = 0
      /\ \A i \in 1..n : g[i] = CheckedAdd(g[i - 1], t[i].amount, U64Max)
  <2>1. \A i \in 1..n : i - 1 \in 0..n
    BY <1>1
  <2> QED
    BY <1>1, <1>4, <2>1 DEF step, Computes
<1>6. Obeys(g)
  BY <1>1, <1>5
<1> DEFINE f == CHOOSE f : Obeys(f)
<1>7. Obeys(f)
  BY <1>6
<1>8. OutputSum(t) = f[n]
  BY DEF OutputSum, n
<1> HIDE DEF f
<1>9. /\ f[0] = 0
      /\ \A i \in 1..n : f[i] = CheckedAdd(f[i - 1], t[i].amount, U64Max)
  BY <1>1, <1>7
<1>10. \A i \in 0..n : f[i] \in S
  <2> DEFINE T == {j \in 0..n : f[j] \in S}
  <2>1. 0 \in T
    BY <1>1, <1>9
  <2>2. ASSUME NEW i \in 1..n, i - 1 \in T PROVE i \in T
    <3>1. /\ i \in 0..n /\ f[i - 1] \in S /\ t[i].amount \in Nat
          /\ f[i] = CheckedAdd(f[i - 1], t[i].amount, U64Max)
      BY <1>1, <1>9, <2>2
    <3> QED
      BY <1>2, <3>1
  <2> HIDE DEF T
  <2>3. \A i \in 0..n : i \in T
    BY <1>1, <2>1, <2>2, InductiveUpTo
  <2> QED
    BY <2>3 DEF T
<1>11. f \in [0..n -> S]
  BY <1>7, <1>10
<1> QED
  BY <1>8, <1>9, <1>11 DEF n, S

(* The checked sum is the real one when that fits a u64, and fails when it *)
(* does not, however long the table is: a sum that failed stays failed.    *)
LEMMA OutputSumIsReal ==
  ASSUME NEW t, IsTable(t)
  PROVE  /\ RealSum(t) \in Nat
         /\ OutputSum(t) = IF RealSum(t) <= U64Max THEN RealSum(t) ELSE None
<1> DEFINE n == Len(t)
<1>1. n \in Nat /\ U64Max \in Nat /\ \A i \in 1..n : t[i].amount \in Nat
  BY TableAmounts, WidthAssumption
<1>2. PICK f \in [0..n -> Nat] :
        /\ RealSum(t) = f[n]
        /\ f[0] = 0
        /\ \A i \in 1..n : f[i] = f[i - 1] + t[i].amount
  BY RealSums
<1>3. PICK g \in [0..n -> Nat \cup {None}] :
        /\ OutputSum(t) = g[n]
        /\ g[0] = 0
        /\ \A i \in 1..n : g[i] = CheckedAdd(g[i - 1], t[i].amount, U64Max)
  BY CheckedSums
<1> HIDE DEF n
<1> DEFINE T == {i \in 0..n : g[i] = IF f[i] <= U64Max THEN f[i] ELSE None}
<1>4. 0 \in T
  BY <1>1, <1>2, <1>3
<1>5. ASSUME NEW i \in 1..n, i - 1 \in T PROVE i \in T
  <2>1. /\ i - 1 \in 0..n /\ i \in 0..n /\ t[i].amount \in Nat
        /\ f[i - 1] \in Nat
        /\ f[i] = f[i - 1] + t[i].amount
        /\ g[i] = CheckedAdd(g[i - 1], t[i].amount, U64Max)
    BY <1>1, <1>2, <1>3
  <2>2. g[i - 1] = IF f[i - 1] <= U64Max THEN f[i - 1] ELSE None
    BY <1>5
  <2>3. g[i] = IF f[i] <= U64Max THEN f[i] ELSE None
    BY <1>1, <2>1, <2>2 DEF CheckedAdd, None
  <2> QED
    BY <2>1, <2>3
<1> HIDE DEF T
<1>6. \A i \in 0..n : i \in T
  BY <1>1, <1>4, <1>5, InductiveUpTo
<1> QED
  BY <1>1, <1>2, <1>3, <1>6 DEF T

-----------------------------------------------------------------------------
(* Amounts, delays and verdicts *)

(* Every spend signed has payable outputs and spends a VTXO there is.      *)
SpendsKnown ==
  \A s \in signatures : s.message.tag = "spend" =>
    /\ IsTable(s.message.spend.outputs)
    /\ \E vtxo \in Vtxos : s.message.prevout = Prevout(vtxo)

(* An envelope assembled around a signed spend is for a VTXO there is.     *)
LEMMA AssembledForVtxo ==
  ASSUME SpendsKnown, NEW a \in Assembled
  PROVE  \E vtxo \in Vtxos : \E spend, evidence : a = Envelope(vtxo, spend, evidence)
<1>1. PICK m \in SignedSpends :
        LET vtxo == CHOOSE v \in Vtxos : Prevout(v) = m.prevout IN
        a \in {Envelope(vtxo, m.spend, OwnerExit(vtxo))}
                \cup {Envelope(vtxo, m.spend, VirtualCet(b.outcome, b.payouts)) :
                        b \in Attestations}
  BY DEF Assembled
<1> DEFINE vtxo == CHOOSE v \in Vtxos : Prevout(v) = m.prevout
<1>2. \E v \in Vtxos : Prevout(v) = m.prevout
  BY DEF SignedSpends, SpendsKnown
<1>3. vtxo \in Vtxos
  BY <1>2
<1> QED
  BY <1>1, <1>3

(* Whatever part is replaced, the VTXO is one there is unless it does not  *)
(* decode, and the heights are integers.                                   *)
LEMMA OverriddenParts ==
  ASSUME SpendsKnown, NEW a \in Assembled, NEW e \in WithOverride(a),
         e.vtxo # Malformed
  PROVE  e.vtxo \in Vtxos /\ e.height \in Int /\ e.confirmed \in Int
<1>1. PICK vtxo \in Vtxos : \E spend, evidence : a = Envelope(vtxo, spend, evidence)
  BY AssembledForVtxo
<1>2. PICK part \in DOMAIN a : \E v \in Alternatives(a)[part] : e = [a EXCEPT ![part] = v]
  BY DEF WithOverride
<1>3. PICK v \in Alternatives(a)[part] : e = [a EXCEPT ![part] = v]
  BY <1>2
<1>4. /\ a.vtxo = vtxo /\ a.height = vtxo.delta /\ a.confirmed = 0
      /\ {"vtxo", "height", "confirmed"} \subseteq DOMAIN a
  BY <1>1 DEF Envelope
<1>5. /\ vtxo.delta \in Int /\ U32Max \in Int
  BY PreflightAssumption, WidthAssumption DEF U32
<1>6. e.vtxo \in Vtxos
  <2>1. CASE part = "vtxo"
    <3>1. v \in Vtxos \cup {Malformed}
      BY <2>1, <1>3 DEF Alternatives
    <3>2. e.vtxo = v
      BY <2>1, <1>3, <1>4
    <3> QED
      BY <3>1, <3>2
  <2>2. CASE part # "vtxo"
    <3>1. e.vtxo = a.vtxo
      BY <2>2, <1>3, <1>4
    <3> QED
      BY <3>1, <1>4
  <2> QED
    BY <2>1, <2>2
<1>7. e.height \in Int
  <2>1. CASE part = "height"
    <3>1. v \in {a.vtxo.delta - 1, U32Max}
      BY <2>1, <1>3 DEF Alternatives
    <3>2. e.height = v
      BY <2>1, <1>3, <1>4
    <3> QED
      BY <3>1, <3>2, <1>4, <1>5
  <2>2. CASE part # "height"
    <3>1. e.height = a.height
      BY <2>2, <1>3, <1>4
    <3> QED
      BY <3>1, <1>4, <1>5
  <2> QED
    BY <2>1, <2>2
<1>8. e.confirmed \in Int
  <2>1. CASE part = "confirmed"
    <3>1. v \in {1, U32Max}
      BY <2>1, <1>3 DEF Alternatives
    <3>2. e.confirmed = v
      BY <2>1, <1>3, <1>4
    <3> QED
      BY <3>1, <3>2, <1>5
  <2>2. CASE part # "confirmed"
    <3>1. e.confirmed = a.confirmed
      BY <2>2, <1>3, <1>4
    <3> QED
      BY <3>1, <1>4
  <2> QED
    BY <2>1, <2>2
<1> QED
  BY <1>6, <1>7, <1>8

(* What is accepted is within its VTXO's amount and delay, on integers.    *)
AcceptedChecked ==
  \A e \in accepted :
    /\ e.vtxo \in Vtxos /\ e.height \in Int /\ e.confirmed \in Int
    /\ IsTable(e.spend.outputs)
    /\ Mature(e) /\ WithinAmount(e)

(* The signatures of a demo that ran are there.                            *)
DemosSigned ==
  \A case \in emitted : case \in DemoCases /\ DemoSignatures(case) \subseteq signatures

PreflightInv == SpendsKnown /\ AcceptedChecked /\ DemosSigned

(* What the demos sign is known.                                           *)
LEMMA DemoSignaturesKnown ==
  ASSUME NEW case \in DemoCases, NEW s \in DemoSignatures(case),
         s.message.tag = "spend"
  PROVE  /\ IsTable(s.message.spend.outputs)
         /\ \E vtxo \in Vtxos : s.message.prevout = Prevout(vtxo)
<1>1. /\ Sign(Oracle, AnnouncementDigest(Event, DemoPayouts)).message.tag # "spend"
      /\ Sign(Oracle, AttestationDigest(Event, DemoOutcome, DemoPayouts)).message.tag
           # "spend"
  BY DEF Sign, AnnouncementDigest, AttestationDigest
<1>2. s = Sign(DemoVtxo.owner, Sighash(DemoSpend(case), Prevout(DemoVtxo)))
  BY <1>1 DEF DemoSignatures
<1>3. /\ s.message.prevout = Prevout(DemoVtxo)
      /\ s.message.spend.outputs \in {DemoExit, DemoPayouts}
  BY <1>2 DEF Sign, Sighash, DemoSpend, OwnerSpend
<1> QED
  BY <1>3, PreflightAssumption

(* validate_host accepts only a spend that is known.                       *)
LEMMA AcceptedTable ==
  ASSUME SpendsKnown, NEW e, ValidateHost(e)
  PROVE  IsTable(e.spend.outputs)
<1> DEFINE s == Sign(e.vtxo.owner, Sighash(e.spend, Prevout(e.vtxo)))
<1>1. s \in signatures
  BY DEF ValidateHost, OwnerScriptPath, Verifies
<1>2. s.message.tag = "spend" /\ s.message.spend = e.spend
  BY DEF Sign, Sighash
<1> QED
  BY <1>1, <1>2 DEF SpendsKnown

LEMMA PreflightInvariant == Spec => []PreflightInv
<1>1. Init => PreflightInv
  BY DEF Init, PreflightInv, SpendsKnown, AcceptedChecked, DemosSigned
<1>2. PreflightInv /\ [Next]_vars => PreflightInv'
  <2> SUFFICES ASSUME PreflightInv, [Next]_vars PROVE PreflightInv'
    OBVIOUS
  <2> USE DEF PreflightInv
  <2>1. ASSUME NEW case \in DemoCases, BuildReceipt(case) PROVE PreflightInv'
    <3>1. SpendsKnown'
      BY <2>1, DemoSignaturesKnown DEF BuildReceipt, SpendsKnown
    <3>2. AcceptedChecked'
      BY <2>1 DEF BuildReceipt, AcceptedChecked, Mature, WithinAmount
    <3>3. DemosSigned'
      BY <2>1 DEF BuildReceipt, DemosSigned, DemoSignatures
    <3> QED
      BY <3>1, <3>2, <3>3
  <2>2. ASSUME NEW key \in Owners, NEW vtxo \in Vtxos, NEW spend \in Spends,
               OwnerSigns(key, vtxo, spend)
        PROVE  PreflightInv'
    <3> DEFINE s == Sign(key, Sighash(spend, Prevout(vtxo)))
    <3>1. s.message.spend = spend /\ s.message.prevout = Prevout(vtxo)
      BY DEF Sign, Sighash
    <3>2. signatures' = signatures \cup {s} /\ UNCHANGED <<emitted, accepted>>
      BY <2>2 DEF OwnerSigns
    <3> HIDE DEF s
    <3>3. SpendsKnown'
      BY <3>1, <3>2, PreflightAssumption DEF SpendsKnown
    <3> QED
      BY <3>2, <3>3 DEF AcceptedChecked, Mature, WithinAmount, DemosSigned, DemoSignatures
  <2>3. ASSUME NEW key, NEW message, message.tag # "spend", OracleSigns(key, message)
        PROVE  PreflightInv'
    <3> DEFINE s == Sign(key, message)
    <3>1. s.message.tag # "spend"
      BY <2>3 DEF Sign
    <3>2. signatures' = signatures \cup {s} /\ UNCHANGED <<emitted, accepted>>
      BY <2>3 DEF OracleSigns
    <3> HIDE DEF s
    <3>3. SpendsKnown'
      BY <3>1, <3>2 DEF SpendsKnown
    <3> QED
      BY <3>2, <3>3 DEF AcceptedChecked, Mature, WithinAmount, DemosSigned, DemoSignatures
  <2>4. ASSUME NEW a \in Assembled, NEW e \in WithOverride(a), Validate(e)
        PROVE  PreflightInv'
    <3>1. /\ ValidateHost(e) /\ accepted' = accepted \cup {e}
          /\ UNCHANGED <<signatures, emitted>>
      BY <2>4 DEF Validate
    <3>2. e.vtxo # Malformed /\ Mature(e) /\ WithinAmount(e)
      BY <3>1 DEF ValidateHost, VtxoValid
    <3>3. IsTable(e.spend.outputs)
      BY <3>1, AcceptedTable
    <3>4. e.vtxo \in Vtxos /\ e.height \in Int /\ e.confirmed \in Int
      BY <3>2, OverriddenParts
    <3> QED
      BY <3>1, <3>2, <3>3, <3>4
         DEF SpendsKnown, AcceptedChecked, Mature, WithinAmount, DemosSigned, DemoSignatures
  <2>5. CASE UNCHANGED vars
    BY <2>5 DEF vars, SpendsKnown, AcceptedChecked, Mature, WithinAmount, DemosSigned,
                DemoSignatures
  <2>6. ASSUME NEW event, NEW outcome, NEW table
        PROVE  /\ AnnouncementDigest(event, table).tag # "spend"
               /\ AttestationDigest(event, outcome, table).tag # "spend"
    BY DEF AnnouncementDigest, AttestationDigest
  <2> QED
    BY <2>1, <2>2, <2>3, <2>4, <2>5, <2>6 DEF Next
<1> QED
  BY <1>1, <1>2, PTL DEF Spec

(* No sum or height wraps in what is accepted.                             *)
THEOREM WithinValueAndDelay == Spec => []ValueAndDelay
<1>1. ASSUME PreflightInv PROVE ValueAndDelay
  <2> SUFFICES ASSUME NEW e \in accepted
               PROVE  /\ RealSum(e.spend.outputs) <= e.vtxo.amount
                      /\ e.height - e.confirmed >= e.vtxo.delta
    BY DEF ValueAndDelay
  <2>1. /\ e.vtxo \in Vtxos /\ e.height \in Int /\ e.confirmed \in Int
        /\ IsTable(e.spend.outputs) /\ Mature(e) /\ WithinAmount(e)
    BY <1>1 DEF PreflightInv, AcceptedChecked
  <2>2. RealSum(e.spend.outputs) <= e.vtxo.amount
    BY <2>1, OutputSumIsReal DEF WithinAmount
  <2>3. e.vtxo.delta \in Int
    BY <2>1, PreflightAssumption DEF U32
  <2>4. e.height >= e.confirmed + e.vtxo.delta
    BY <2>1 DEF Mature, Maturity, CheckedAdd
  <2> QED
    BY <2>1, <2>2, <2>3, <2>4
<1> QED
  BY <1>1, PreflightInvariant, PTL

(* The envelope of a plain spend that its owner signed is accepted: each   *)
(* check of validate_host in turn.                                         *)
LEMMA PlainSpendAccepted ==
  ASSUME NEW vtxo \in Vtxos, NEW table, IsTable(table), table # << >>,
         RealSum(table) <= vtxo.amount,
         OwnerSpend(vtxo, table) # Malformed,
         Sign(vtxo.owner, Sighash(OwnerSpend(vtxo, table), Prevout(vtxo))) \in signatures,
         NEW evidence,
         LET e == Envelope(vtxo, OwnerSpend(vtxo, table), evidence) IN
         OwnerEvidence(e) \/ CetEvidence(e)
  PROVE  ValidateHost(Envelope(vtxo, OwnerSpend(vtxo, table), evidence))
<1> DEFINE spend == OwnerSpend(vtxo, table)
           e == Envelope(vtxo, spend, evidence)
<1>1. /\ e.vtxo = vtxo /\ e.vtxoId = vtxo.id /\ e.anchor = vtxo.anchor /\ e.nonce = 1
      /\ e.genesis = Regtests[1] /\ e.flags = "required"
      /\ e.prevouts = <<Prevout(vtxo)>> /\ e.spend = spend /\ e.inputIndex = 0
      /\ e.height = vtxo.delta /\ e.confirmed = 0
      /\ e.witness.leaf = vtxo.id
      /\ e.witness.signature = Sign(vtxo.owner, Sighash(spend, Prevout(vtxo)))
      /\ e.evidence = evidence
  BY DEF Envelope
<1>2. /\ spend.inputs = 1 /\ ~spend.scriptSig /\ spend.outpoint = vtxo.point
      /\ spend.version = 2 /\ spend.sequence = Blocks(vtxo.delta)
      /\ spend.outputs = table /\ ~spend.overweight
  BY DEF OwnerSpend
<1>3. /\ vtxo.amount \in Nat /\ vtxo.amount <= U64Max
      /\ vtxo.delta \in Nat /\ vtxo.delta <= U32Max
      /\ vtxo # Malformed /\ vtxo.anchor # Malformed
      /\ U64Max \in Nat /\ U32Max \in Nat
  BY PreflightAssumption, WidthAssumption DEF U64, U32
<1>4. spend # Malformed
  OBVIOUS
<1>5. OwnerEvidence(e) \/ CetEvidence(e)
  OBVIOUS
<1>6. spend.outputs # << >>
  BY <1>2
<1>7. e.witness.signature \in signatures
  BY <1>1
<1> HIDE DEF spend, e
<1>8. VtxoValid(e)
  BY <1>1, <1>3 DEF VtxoValid
<1>9. ContextValid(e)
  BY <1>1 DEF ContextValid
<1>10. ShapeValid(e)
  BY <1>1, <1>2, <1>4, <1>6 DEF ShapeValid
<1>11. Mature(e)
  BY <1>1, <1>2, <1>3 DEF Mature, SatisfiesCsv, Blocks, Maturity, CheckedAdd, None
<1>12. WithinAmount(e)
  <2>1. OutputSum(table) = RealSum(table) /\ RealSum(table) \in Nat
    BY <1>3, OutputSumIsReal
  <2> QED
    BY <1>1, <1>2, <1>3, <2>1 DEF WithinAmount, None
<1>13. OwnerScriptPath(e)
  BY <1>1, <1>7 DEF OwnerScriptPath, Verifies
<1>14. ValidateHost(e)
  BY <1>5, <1>8, <1>9, <1>10, <1>11, <1>12, <1>13 DEF ValidateHost
<1> QED
  BY <1>14 DEF spend, e

(* An exit that the owner signed is accepted in every state, reachable or  *)
(* not: nothing that others signed and no counter enters into it.          *)
THEOREM ExitsAccepted == Spec => []OwnerExitNeverRefused
<1>1. OwnerExitNeverRefused
  <2> SUFFICES ASSUME NEW vtxo \in Vtxos, NEW table \in Tables,
                      Sign(vtxo.owner, Sighash(OwnerSpend(vtxo, table), Prevout(vtxo)))
                        \in signatures,
                      RealSum(table) <= vtxo.amount
               PROVE  ValidateHost(Envelope(vtxo, OwnerSpend(vtxo, table), OwnerExit(vtxo)))
    BY DEF OwnerExitNeverRefused
  <2> DEFINE e == Envelope(vtxo, OwnerSpend(vtxo, table), OwnerExit(vtxo))
  <2>1. OwnerEvidence(e)
    BY DEF OwnerEvidence, Envelope, OwnerExit
  <2>2. IsTable(table) /\ table # << >> /\ OwnerSpend(vtxo, table) # Malformed
    BY PreflightAssumption
  <2> QED
    BY <2>1, <2>2, PlainSpendAccepted
<1> QED
  BY <1>1, PTL

(* The envelope a demo signs, before the challenge changes it.             *)
DemoSigned(case) ==
  Envelope(DemoVtxo, DemoSpend(case),
           IF case = "virtual_cet_guard"
           THEN VirtualCet(DemoOutcome, DemoPayouts) ELSE OwnerExit(DemoVtxo))

LEMMA DemoSignedAccepted ==
  ASSUME NEW case \in DemoCases, DemoSignatures(case) \subseteq signatures
  PROVE  ValidateHost(DemoSigned(case))
<1> DEFINE table == IF case = "virtual_cet_guard" THEN DemoPayouts ELSE DemoExit
           evidence == IF case = "virtual_cet_guard"
                       THEN VirtualCet(DemoOutcome, DemoPayouts) ELSE OwnerExit(DemoVtxo)
           e == Envelope(DemoVtxo, OwnerSpend(DemoVtxo, table), evidence)
<1>1. /\ IsTable(table) /\ table # << >> /\ RealSum(table) <= DemoVtxo.amount
      /\ OwnerSpend(DemoVtxo, table) # Malformed /\ DemoVtxo \in Vtxos
  BY PreflightAssumption
<1>2. DemoSpend(case) = OwnerSpend(DemoVtxo, table)
  BY DEF DemoSpend
<1>3. Sign(DemoVtxo.owner, Sighash(OwnerSpend(DemoVtxo, table), Prevout(DemoVtxo)))
        \in signatures
  BY <1>2 DEF DemoSignatures
<1>4. e.evidence = evidence /\ e.vtxo = DemoVtxo /\ e.spend.outputs = table
  BY DEF Envelope, OwnerSpend
<1> HIDE DEF e
<1>5. CASE case = "virtual_cet_guard"
  <2>1. /\ evidence.kind = "virtual cet" /\ evidence.event = Event
        /\ evidence.oracle = Oracle /\ evidence.payouts = table
        /\ evidence.outcome = DemoOutcome
        /\ evidence.announcement = Sign(Oracle, AnnouncementDigest(Event, table))
        /\ evidence.attestation = Sign(Oracle, AttestationDigest(Event, DemoOutcome, table))
    BY <1>5 DEF VirtualCet
  <2>2. /\ Sign(Oracle, AnnouncementDigest(Event, table)) \in signatures
        /\ Sign(Oracle, AttestationDigest(Event, DemoOutcome, table)) \in signatures
    BY <1>5 DEF DemoSignatures
  <2>3. CetEvidence(e)
    BY <1>4, <2>1, <2>2 DEF CetEvidence, Verifies
  <2> QED
    BY <1>1, <1>2, <1>3, <2>3, PlainSpendAccepted DEF e, DemoSigned
<1>6. CASE case # "virtual_cet_guard"
  <2>1. /\ evidence.kind = "owner exit" /\ evidence.owner = DemoVtxo.owner
        /\ evidence.delay = DemoVtxo.delta
    BY <1>6 DEF OwnerExit
  <2>2. OwnerEvidence(e)
    BY <1>4, <2>1 DEF OwnerEvidence
  <2> QED
    BY <1>1, <1>2, <1>3, <2>2, PlainSpendAccepted DEF e, DemoSigned
<1> QED
  BY <1>5, <1>6

(* The challenge's spend is not the one that was signed.                   *)
LEMMA ChallengeRefused ==
  ASSUME NEW case \in DemoCases, case = "owner_exit_challenge"
  PROVE  VtxoValid(DemoEnvelope(case)) /\ ~ValidateHost(DemoEnvelope(case))
<1> DEFINE signed == DemoSigned(case)
           e == [signed EXCEPT !.spend.outputs[1].amount = @ - 1]
<1>1. DemoEnvelope(case) = e
  BY DEF DemoEnvelope, DemoSigned
<1>2. /\ signed.vtxo = DemoVtxo /\ signed.anchor = DemoVtxo.anchor
      /\ signed.spend = OwnerSpend(DemoVtxo, DemoExit)
      /\ signed.witness.signature
           = Sign(DemoVtxo.owner, Sighash(signed.spend, Prevout(DemoVtxo)))
  BY DEF DemoSigned, Envelope, DemoSpend
<1>3. DemoExit[1].amount \in Int /\ DemoExit[1].amount - 1 # DemoExit[1].amount
  <2>1. IsTable(DemoExit) /\ DemoExit # << >>
    BY PreflightAssumption
  <2>2. DemoExit[1].amount \in Nat
    BY <2>1, TableAmounts
  <2> QED
    BY <2>2
<1>4. e.vtxo = DemoVtxo /\ e.anchor = DemoVtxo.anchor /\ e.witness = signed.witness
  BY <1>2 DEF DemoSigned, Envelope
<1>5. e.spend.outputs[1].amount = DemoExit[1].amount - 1
  <2>1. signed.spend.outputs = DemoExit
    BY <1>2 DEF OwnerSpend
  <2>2. 1 \in DOMAIN DemoExit /\ "amount" \in DOMAIN DemoExit[1]
    <3>1. IsTable(DemoExit) /\ DemoExit # << >>
      BY PreflightAssumption
    <3> QED
      BY <3>1, TableAmounts
  <2>3. "outputs" \in DOMAIN signed.spend /\ "spend" \in DOMAIN signed
    BY <1>2 DEF OwnerSpend, DemoSigned, Envelope
  <2> HIDE DEF signed
  <2> QED
    BY <2>1, <2>2, <2>3
<1> HIDE DEF e, signed
<1>6. VtxoValid(e)
  BY <1>4, PreflightAssumption DEF VtxoValid
<1>7. ~ValidateHost(e)
  <2> SUFFICES ASSUME ValidateHost(e) PROVE FALSE
    OBVIOUS
  <2>1. e.witness.signature = Sign(e.vtxo.owner, Sighash(e.spend, Prevout(e.vtxo)))
    BY DEF ValidateHost, OwnerScriptPath, Verifies
  <2>2. Sighash(signed.spend, Prevout(DemoVtxo)) = Sighash(e.spend, Prevout(DemoVtxo))
    BY <1>2, <1>4, <2>1 DEF Sign
  <2>3. signed.spend = e.spend
    BY <2>2 DEF Sighash
  <2>4. e.spend.outputs = DemoExit
    BY <1>2, <2>3 DEF OwnerSpend
  <2> QED
    BY <1>3, <1>5, <2>4
<1> QED
  BY <1>1, <1>6, <1>7

(* The verdict every demo asserts is the one it gets, whatever was signed  *)
(* in the meantime.                                                        *)
THEOREM DemosPass == Spec => []DemosAsExpected
<1>1. ASSUME PreflightInv PROVE DemosAsExpected
  <2> SUFFICES ASSUME NEW case \in emitted
               PROVE  HostValidation(DemoEnvelope(case)) =
                        [bark_vtxo_valid |-> TRUE,
                         exact_spend_valid |-> case # "owner_exit_challenge",
                         oracle_evidence_valid |->
                           IF case = "virtual_cet_guard" THEN {TRUE} ELSE {}]
    BY DEF DemosAsExpected
  <2> DEFINE e == DemoEnvelope(case)
  <2>1. case \in DemoCases /\ DemoSignatures(case) \subseteq signatures
    BY <1>1 DEF PreflightInv, DemosSigned
  <2>2. VtxoValid(e) \in BOOLEAN /\ ValidateHost(e) \in BOOLEAN
    BY DEF VtxoValid, ValidateHost
  <2>3. CASE case = "owner_exit_challenge"
    <3>1. VtxoValid(e) /\ ~ValidateHost(e)
      BY <2>1, <2>3, ChallengeRefused
    <3>2. /\ VtxoValid(e) = TRUE
          /\ ValidateHost(e) = (case # "owner_exit_challenge")
          /\ (IF ValidateHost(e) /\ e.evidence.kind = "virtual cet" THEN {TRUE} ELSE {})
               = (IF case = "virtual_cet_guard" THEN {TRUE} ELSE {})
      <4>1. (VtxoValid(e) = TRUE) /\ (ValidateHost(e) = FALSE)
        BY <2>2, <3>1
      <4> QED
        BY <2>3, <3>1, <4>1, Zenon
    <3> HIDE DEF e
    <3> QED
      BY <3>2, Zenon DEF HostValidation, e
  <2>4. CASE case # "owner_exit_challenge"
    <3>1. e = DemoSigned(case)
      BY <2>4 DEF DemoEnvelope, DemoSigned
    <3>2. ValidateHost(e) /\ VtxoValid(e)
      BY <2>1, <3>1, DemoSignedAccepted DEF ValidateHost
    <3>3. e.evidence = IF case = "virtual_cet_guard"
                       THEN VirtualCet(DemoOutcome, DemoPayouts) ELSE OwnerExit(DemoVtxo)
      BY <3>1 DEF DemoSigned, Envelope
    <3>4. e.evidence.kind = "virtual cet" <=> case = "virtual_cet_guard"
      <4>1. VirtualCet(DemoOutcome, DemoPayouts).kind = "virtual cet"
        BY DEF VirtualCet
      <4>2. OwnerExit(DemoVtxo).kind = "owner exit"
        BY DEF OwnerExit
      <4> QED
        BY <3>3, <4>1, <4>2
    <3>5. /\ VtxoValid(e) = TRUE
          /\ ValidateHost(e) = (case # "owner_exit_challenge")
          /\ (IF ValidateHost(e) /\ e.evidence.kind = "virtual cet" THEN {TRUE} ELSE {})
               = (IF case = "virtual_cet_guard" THEN {TRUE} ELSE {})
      BY <2>4, <2>2, <3>2, <3>4
    <3> HIDE DEF e
    <3> QED
      BY <3>5, Zenon DEF HostValidation, e
  <2> QED
    BY <2>3, <2>4
<1> QED
  BY <1>1, PreflightInvariant, PTL
=============================================================================
