--------------------------- MODULE LegacyRelation ---------------------------
(***************************************************************************)
(* The legacy Cairo relation (cairo/src/lib.cairo) that the STWO proofs of *)
(* the demo attest, the JavaScript copy of its binding in the trusted      *)
(* cosigner gate, and the two probes of red-team-attacks.js against it.    *)
(*                                                                         *)
(* A claim is the record of its 25 fields.  It changes one field at a time *)
(* and is sealed again after each change, the way sample_claim of the      *)
(* Cairo tests fills in the fold and the binding last.                     *)
(*                                                                         *)
(* Abstractions: the field has a small prime order, and limbs, amounts and *)
(* delays a small range below it, as 128, 64 and 32 bits are below the     *)
(* Cairo prime of 252 bits.                                                *)
(***************************************************************************)
EXTENDS Integers, Sequences, FiniteSets

CONSTANTS
  Prime,        \* order of the field
  LimbMax,      \* largest u128
  AmountMax,    \* largest u64
  DelayMax,     \* largest u32
  Sample,       \* the first claim, not yet sealed
  Choices       \* bound: field -> the values it takes

(* The multipliers of mix and the roles are below the prime, too. *)
ASSUME PrimeAssumption ==
  /\ Prime \in Nat /\ Prime > 31
  /\ \A d \in 2..(Prime - 1) : Prime % d # 0
  /\ {LimbMax, AmountMax, DelayMax} \subseteq 0..(Prime - 1)

VARIABLE claim

(* The fields in the order of the serialised claim. *)
FieldOrder ==
  <<"manifest_id_hi", "manifest_id_lo", "taproot_root_hi", "taproot_root_lo",
    "selected_leaf_hash_hi", "selected_leaf_hash_lo", "selected_leaf_role",
    "taproot_path_commitment_hi", "taproot_path_commitment_lo",
    "taproot_path_fold", "taproot_path_depth",
    "path_sibling_0_hi", "path_sibling_0_lo", "path_sibling_0_is_left",
    "path_sibling_1_hi", "path_sibling_1_lo", "path_sibling_1_is_left",
    "path_sibling_2_hi", "path_sibling_2_lo", "path_sibling_2_is_left",
    "settlement_hash_hi", "settlement_hash_lo", "amount_sats", "exit_delay",
    "binding_commitment">>

Fields == {FieldOrder[i] : i \in 1..25}

(* Claims are made of elements of the field. *)
ASSUME SampleAssumption ==
  /\ Sample \in [Fields -> 0..(Prime - 1)]
  /\ DOMAIN Choices \subseteq Fields
  /\ \A field \in DOMAIN Choices : Choices[field] \subseteq 0..(Prime - 1)

SupportedRoles == 1..5

-----------------------------------------------------------------------------
(* The Cairo relation *)

Mix(left, right) == (left * 31 + right * 17 + 7) % Prime

MixPathBranch(current, sibling, isLeft) ==
  IF isLeft = 1 THEN Mix(sibling, current) ELSE Mix(current, sibling)

(* The siblings of a claim's path: level l is the element l + 1. *)
Siblings(c) ==
  <<[hi |-> c.path_sibling_0_hi, lo |-> c.path_sibling_0_lo,
     isLeft |-> c.path_sibling_0_is_left],
    [hi |-> c.path_sibling_1_hi, lo |-> c.path_sibling_1_lo,
     isLeft |-> c.path_sibling_1_is_left],
    [hi |-> c.path_sibling_2_hi, lo |-> c.path_sibling_2_lo,
     isLeft |-> c.path_sibling_2_is_left]>>

PathSidesOk(c) ==
  \A level \in 1..3 :
    c.taproot_path_depth >= level => Siblings(c)[level].isLeft \in {0, 1}

(* Mutant of ComputeTaprootPathFold: the depth bounds are off by one. *)
FoldOneDeeper(c) ==
  LET Up(level, node) ==
        LET s == Siblings(c)[level] IN
        IF c.taproot_path_depth >= level - 1
        THEN MixPathBranch(node, Mix(s.hi, s.lo), s.isLeft) ELSE node IN
  Up(3, Up(2, Up(1, Mix(c.selected_leaf_hash_hi, c.selected_leaf_hash_lo))))

ComputeTaprootPathFold(c) ==
  LET Up(level, node) ==
        LET s == Siblings(c)[level] IN
        IF c.taproot_path_depth >= level
        THEN MixPathBranch(node, Mix(s.hi, s.lo), s.isLeft) ELSE node IN
  Up(3, Up(2, Up(1, Mix(c.selected_leaf_hash_hi, c.selected_leaf_hash_lo))))

PolicyLeaf(c) ==
  LET policyPair == Mix(Mix(c.manifest_id_hi, c.manifest_id_lo),
                        Mix(c.taproot_root_hi, c.taproot_root_lo))
      pathPair == Mix(Mix(c.taproot_path_commitment_hi,
                          c.taproot_path_commitment_lo), c.taproot_path_fold)
      leafPair == Mix(Mix(c.selected_leaf_hash_hi, c.selected_leaf_hash_lo),
                      c.selected_leaf_role) IN
  Mix(Mix(policyPair, pathPair), leafPair)

SettlementAmount(c) ==
  Mix(Mix(c.settlement_hash_hi, c.settlement_hash_lo), c.amount_sats)

(* Mutant of ComputeBinding: amount and delay change places. *)
BindingDelayFirst(c) ==
  Mix(PolicyLeaf(c),
      Mix(Mix(Mix(c.settlement_hash_hi, c.settlement_hash_lo), c.exit_delay),
          c.amount_sats))

ComputeBinding(c) ==
  Mix(PolicyLeaf(c), Mix(SettlementAmount(c), c.exit_delay))

(* The claim passes every assertion of verify_claim. *)
VerifyClaim(c) ==
  /\ c.selected_leaf_role \in SupportedRoles
  /\ c.amount_sats > 0
  /\ c.exit_delay > 0
  /\ c.taproot_path_depth <= 3
  /\ PathSidesOk(c)
  /\ c.taproot_path_fold = ComputeTaprootPathFold(c)
  /\ c.binding_commitment = ComputeBinding(c)

(* The public output of a verified claim, which the proofs commit to. *)
Output(c) == <<1, c.selected_leaf_role, c.binding_commitment>>

-----------------------------------------------------------------------------
(* The JavaScript copy, over the serialised fields *)

(* Mutant of ComputeLinearBinding: one index is off by one. *)
LinearBindingShifted(c) ==
  LET value(i) == c[FieldOrder[i + 1]]
      hash(i) == Mix(value(i), value(i + 1))
      policyPair == Mix(hash(0), hash(2))
      pathPair == Mix(hash(8), value(9))
      leafPair == Mix(hash(4), value(6)) IN
  Mix(Mix(Mix(policyPair, pathPair), leafPair),
      Mix(Mix(hash(20), value(22)), value(23)))

ComputeLinearBinding(c) ==
  LET value(i) == c[FieldOrder[i + 1]]
      hash(i) == Mix(value(i), value(i + 1))
      policyPair == Mix(hash(0), hash(2))
      pathPair == Mix(hash(7), value(9))
      leafPair == Mix(hash(4), value(6)) IN
  Mix(Mix(Mix(policyPair, pathPair), leafPair),
      Mix(Mix(hash(20), value(22)), value(23)))

-----------------------------------------------------------------------------
(* The red team's probes: the changed claim, when it is in range *)

AmountDelayCollision(c) ==
  {d \in {[c EXCEPT !.amount_sats = @ + 1, !.exit_delay = @ - 31]} :
     d.amount_sats \in 1..AmountMax /\ d.exit_delay \in 1..DelayMax}

SettlementLimbCollision(c) ==
  {d \in {[c EXCEPT !.settlement_hash_hi = @ + 17, !.settlement_hash_lo = @ - 31]} :
     d.settlement_hash_hi \in 0..LimbMax /\ d.settlement_hash_lo \in 0..LimbMax}

-----------------------------------------------------------------------------
(* Building claims *)

Seal(c) ==
  LET folded == [c EXCEPT !.taproot_path_fold = ComputeTaprootPathFold(c)] IN
  [folded EXCEPT !.binding_commitment = ComputeBinding(folded)]

Init == claim = Seal(Sample)

Change(field, value) == claim' = Seal([claim EXCEPT ![field] = value])

Next == \E field \in DOMAIN Choices : \E v \in Choices[field] : Change(field, v)

Spec == Init /\ [][Next]_claim
-----------------------------------------------------------------------------
(* Properties *)

(* Both probes of the red team work on every verified claim they apply to, *)
(* not only on the two fixtures: the changed claim verifies with the same  *)
(* public output (RED_BLUE_REPORT.md, exact collisions).                   *)
CollisionsVerify ==
  VerifyClaim(claim) =>
    \A c \in AmountDelayCollision(claim) \cup SettlementLimbCollision(claim) :
      c # claim /\ VerifyClaim(c) /\ Output(c) = Output(claim)

(* The gate's copy of the binding, which works on indices into 25 strings, *)
(* agrees with the Cairo relation on every claim.                          *)
CopiesAgree == ComputeLinearBinding(claim) = ComputeBinding(claim)

(* The siblings that the depth leaves unused. *)
UnusedPath(c) ==
  {FieldOrder[i] : i \in (12 + 3 * c.taproot_path_depth)..20}

Ranges(field) ==
  CASE field = "amount_sats" -> 1..AmountMax
    [] field = "exit_delay" -> 1..DelayMax
    [] field = "selected_leaf_role" -> SupportedRoles
    [] field \in {"taproot_path_fold", "binding_commitment"} -> 0..(Prime - 1)
    [] OTHER -> 0..LimbMax

(* The sides and the depth: changing them may give the same fold. *)
Turns == {"taproot_path_depth", "path_sibling_0_is_left",
          "path_sibling_1_is_left", "path_sibling_2_is_left"}

(* Weak as it is, the relation notices every change of a single field of a *)
(* verified claim except in siblings beyond the path's depth, which it     *)
(* reads nowhere: any other collision moves two fields, or the path turns. *)
SingleChangeNoticed ==
  VerifyClaim(claim) =>
    \A field \in Fields \ Turns : \A v \in Ranges(field) \ {claim[field]} :
      VerifyClaim([claim EXCEPT ![field] = v]) <=> field \in UnusedPath(claim)
=============================================================================
