------------------------- MODULE LegacyRelationProofs -------------------------
(***************************************************************************)
(* What the legacy relation cannot tell apart and what it can, for every   *)
(* prime above 31, all ranges and all claims: the probes of the red team   *)
(* verify because mix is linear, and a single changed field is noticed     *)
(* because the prime divides neither multiplier of mix.                    *)
(***************************************************************************)
EXTENDS LegacyRelation, Recursion

-----------------------------------------------------------------------------
(* Arithmetic in the field *)

(* A number is a multiple of the prime and its remainder.                  *)
LEMMA Remainder ==
  ASSUME NEW a \in Int
  PROVE  /\ a % Prime \in 0..(Prime - 1)
         /\ a = (a \div Prime) * Prime + (a % Prime)
         /\ a \div Prime \in Int
  BY PrimeAssumption

(* The same for any divisor.                                               *)
LEMMA RemainderOf ==
  ASSUME NEW n \in Nat, NEW d \in Nat \ {0}
  PROVE  /\ n % d \in 0..(d - 1)
         /\ n = (n \div d) * d + (n % d)
         /\ n \div d \in Int
  OBVIOUS

(* Less than the prime apart and a multiple of it apart: equal.            *)
LEMMA NoMultiple ==
  ASSUME NEW x \in Int, NEW k \in Int, x = k * Prime, -Prime < x, x < Prime
  PROVE  x = 0
<1>1. Prime \in Int /\ Prime > 0
  BY PrimeAssumption
<1>2. CASE k >= 1
  <2>1. k * Prime >= Prime
    BY <1>1, <1>2
  <2> QED
    BY <2>1, <1>1
<1>3. CASE k <= -1
  <2>1. k * Prime <= -Prime
    BY <1>1, <1>3
  <2> QED
    BY <2>1, <1>1
<1>4. CASE k = 0
  BY <1>1, <1>4
<1> QED
  BY <1>2, <1>3, <1>4

(* The prime divides no product of two smaller numbers.                    *)
LEMMA NoZeroDivisors ==
  ASSUME NEW a \in 1..(Prime - 1), NEW b \in 1..(Prime - 1), NEW k \in Int
  PROVE  a * b # k * Prime
<1> DEFINE T == {t \in Nat : /\ t \in 1..(Prime - 1)
                            /\ \E j \in Int : t * b = j * Prime}
<1>1. Prime \in Nat /\ Prime > 31 /\ \A d \in 2..(Prime - 1) : Prime % d # 0
  BY PrimeAssumption
<1>2. SUFFICES ASSUME a * b = k * Prime PROVE FALSE
  OBVIOUS
<1>3. a \in T
  BY <1>1, <1>2
<1>4. PICK t \in T : \A m \in T : t <= m
  <2>1. T \in SUBSET Nat /\ T # {}
    BY <1>3
  <2> HIDE DEF T
  <2> QED
    BY <2>1, Least
<1>5. PICK j \in Int : t * b = j * Prime
  BY <1>4
<1>6. t \in 1..(Prime - 1) /\ t \in Nat
  BY <1>4
<1>7. t # 1
  <2>1. SUFFICES ASSUME t = 1 PROVE FALSE
    OBVIOUS
  <2>2. b = j * Prime
    BY <2>1, <1>5, <1>1
  <2>3. b = 0
    BY <2>2, NoMultiple, <1>1
  <2> QED
    BY <2>3
<1> DEFINE r == Prime % t
           q == Prime \div t
<1>8. r \in 1..(t - 1) /\ Prime = q * t + r /\ q \in Int
  <2>1. r \in 0..(t - 1) /\ Prime = q * t + r /\ q \in Int
    BY <1>1, <1>6, RemainderOf
  <2>2. t \in 2..(Prime - 1)
    BY <1>1, <1>6, <1>7
  <2>3. r # 0
    BY <1>1, <2>2
  <2> HIDE DEF r, q
  <2> QED
    BY <2>1, <2>3, <1>6
<1> HIDE DEF r, q
<1>9. r * b = (b - q * j) * Prime
  <2>1. r = Prime - q * t
    BY <1>8, <1>6, <1>1
  <2>2. r * b = Prime * b - q * (t * b)
    BY <2>1, <1>8, <1>6, <1>1
  <2>3. q * (t * b) = q * (j * Prime)
    BY <1>5
  <2> QED
    BY <2>2, <2>3, <1>8, <1>1
<1>10. r \in T
  <2>1. b - q * j \in Int /\ r \in Nat /\ r \in 1..(Prime - 1)
    BY <1>8, <1>6, <1>1
  <2> QED
    BY <2>1, <1>9
<1> HIDE DEF T
<1> QED
  BY <1>4, <1>8, <1>10, <1>6

(* Times a number that the prime does not divide, different elements of    *)
(* the field stay different.                                               *)
LEMMA Cancels ==
  ASSUME NEW c \in {17, 31}, NEW x \in 0..(Prime - 1), NEW y \in 0..(Prime - 1),
         NEW e \in Int, (c * x + e) % Prime = (c * y + e) % Prime
  PROVE  x = y
<1> DEFINE u == c * x + e
           v == c * y + e
           k == (u \div Prime) - (v \div Prime)
<1>1. Prime \in Nat /\ Prime > 31
  BY PrimeAssumption
<1>2. u \in Int /\ v \in Int
  BY <1>1
<1>3. /\ u = (u \div Prime) * Prime + (u % Prime) /\ u \div Prime \in Int
      /\ v = (v \div Prime) * Prime + (v % Prime) /\ v \div Prime \in Int
      /\ u % Prime \in Int /\ u % Prime = v % Prime
  BY <1>2, Remainder
<1>4. u - v = k * Prime /\ k \in Int
  <2> HIDE DEF u, v
  <2> QED
    BY <1>1, <1>2, <1>3
<1>5. c * (x - y) = k * Prime
  <2>1. u - v = c * (x - y)
    BY <1>1
  <2> QED
    BY <2>1, <1>4
<1> HIDE DEF u, v, k
<1>6. c \in 1..(Prime - 1)
  BY <1>1
<1>7. CASE x > y
  <2>1. x - y \in 1..(Prime - 1)
    BY <1>1, <1>7
  <2> QED
    BY <2>1, <1>4, <1>5, <1>6, NoZeroDivisors
<1>8. CASE x < y
  <2>1. y - x \in 1..(Prime - 1) /\ -k \in Int
    BY <1>1, <1>8, <1>4
  <2>2. c * (y - x) = (-k) * Prime
    BY <1>5, <1>4, <1>6, <1>1
  <2> QED
    BY <2>1, <2>2, <1>6, NoZeroDivisors
<1> QED
  BY <1>7, <1>8, <1>1

-----------------------------------------------------------------------------
(* The field and mix *)

Felt == 0..(Prime - 1)

Claims == [Fields -> Felt]

(* The fields of a claim.                                                  *)
LEMMA FieldNames ==
  Fields =
    {"manifest_id_hi", "manifest_id_lo", "taproot_root_hi", "taproot_root_lo",
     "selected_leaf_hash_hi", "selected_leaf_hash_lo", "selected_leaf_role",
     "taproot_path_commitment_hi", "taproot_path_commitment_lo",
     "taproot_path_fold", "taproot_path_depth",
     "path_sibling_0_hi", "path_sibling_0_lo", "path_sibling_0_is_left",
     "path_sibling_1_hi", "path_sibling_1_lo", "path_sibling_1_is_left",
     "path_sibling_2_hi", "path_sibling_2_lo", "path_sibling_2_is_left",
     "settlement_hash_hi", "settlement_hash_lo", "amount_sats", "exit_delay",
     "binding_commitment"}
  BY DEF Fields, FieldOrder

(* What the proofs need to know of the field.                              *)
LEMMA FeltFacts == /\ Prime \in Nat /\ Prime > 31 /\ Felt \subseteq Int
                   /\ \A i \in 0..31 : i \in Felt
  BY PrimeAssumption DEF Felt

(* mix stays in the field.                                                 *)
LEMMA MixTyped == \A x \in Felt, y \in Felt : Mix(x, y) \in Felt
<1> SUFFICES ASSUME NEW x \in Felt, NEW y \in Felt PROVE Mix(x, y) \in Felt
  OBVIOUS
<1>1. x * 31 + y * 17 + 7 \in Int
  BY FeltFacts
<1> QED
  BY <1>1, Remainder DEF Mix, Felt

(* Each argument of mix is determined by the other and the result: the     *)
(* left one,                                                               *)
LEMMA MixLeft ==
  \A x \in Felt, y \in Felt, z \in Felt : Mix(x, z) = Mix(y, z) => x = y
<1> SUFFICES ASSUME NEW x \in Felt, NEW y \in Felt, NEW z \in Felt,
                    Mix(x, z) = Mix(y, z)
             PROVE  x = y
  OBVIOUS
<1>1. z * 17 + 7 \in Int /\ x \in Int /\ y \in Int
  BY FeltFacts
<1>2. /\ x * 31 + z * 17 + 7 = 31 * x + (z * 17 + 7)
      /\ y * 31 + z * 17 + 7 = 31 * y + (z * 17 + 7)
  BY FeltFacts
<1>3. (31 * x + (z * 17 + 7)) % Prime = (31 * y + (z * 17 + 7)) % Prime
  BY <1>2 DEF Mix
<1> QED
  BY <1>1, <1>3, Cancels DEF Felt

(* and the right one.                                                      *)
LEMMA MixRight ==
  \A x \in Felt, y \in Felt, z \in Felt : Mix(z, x) = Mix(z, y) => x = y
<1> SUFFICES ASSUME NEW x \in Felt, NEW y \in Felt, NEW z \in Felt,
                    Mix(z, x) = Mix(z, y)
             PROVE  x = y
  OBVIOUS
<1>1. z * 31 + 7 \in Int /\ x \in Int /\ y \in Int
  BY FeltFacts
<1>2. /\ z * 31 + x * 17 + 7 = 17 * x + (z * 31 + 7)
      /\ z * 31 + y * 17 + 7 = 17 * y + (z * 31 + 7)
  BY FeltFacts
<1>3. (17 * x + (z * 31 + 7)) % Prime = (17 * y + (z * 31 + 7)) % Prime
  BY <1>2 DEF Mix
<1> QED
  BY <1>1, <1>3, Cancels DEF Felt

(* So does a branch of the path, which is determined by each child.        *)
LEMMA Branches ==
  \A n \in Felt, s \in Felt, left \in Felt :
    /\ MixPathBranch(n, s, left) \in Felt
    /\ \A m \in Felt :
         /\ MixPathBranch(n, s, left) = MixPathBranch(m, s, left) => n = m
         /\ MixPathBranch(n, s, left) = MixPathBranch(n, m, left) => s = m
  BY MixTyped, MixLeft, MixRight DEF MixPathBranch

-----------------------------------------------------------------------------
(* The fold, level by level *)

Node0(c) == Mix(c.selected_leaf_hash_hi, c.selected_leaf_hash_lo)

Node1(c) ==
  IF c.taproot_path_depth >= 1
  THEN MixPathBranch(Node0(c), Mix(c.path_sibling_0_hi, c.path_sibling_0_lo),
                     c.path_sibling_0_is_left)
  ELSE Node0(c)

Node2(c) ==
  IF c.taproot_path_depth >= 2
  THEN MixPathBranch(Node1(c), Mix(c.path_sibling_1_hi, c.path_sibling_1_lo),
                     c.path_sibling_1_is_left)
  ELSE Node1(c)

Node3(c) ==
  IF c.taproot_path_depth >= 3
  THEN MixPathBranch(Node2(c), Mix(c.path_sibling_2_hi, c.path_sibling_2_lo),
                     c.path_sibling_2_is_left)
  ELSE Node2(c)

(* The fold is the node at the top.                                        *)
LEMMA FoldIsNode3 == \A c : ComputeTaprootPathFold(c) = Node3(c)
  BY DEF ComputeTaprootPathFold, Siblings, Node0, Node1, Node2, Node3

(* Every node is an element of the field,                                  *)
LEMMA NodesTyped ==
  ASSUME NEW c \in Claims
  PROVE  Node0(c) \in Felt /\ Node1(c) \in Felt /\ Node2(c) \in Felt /\ Node3(c) \in Felt
<1>1. Node0(c) \in Felt
  BY FieldNames, MixTyped DEF Claims, Node0
<1>2. Node1(c) \in Felt
  BY <1>1, FieldNames, MixTyped, Branches DEF Claims, Node1
<1>3. Node2(c) \in Felt
  BY <1>2, FieldNames, MixTyped, Branches DEF Claims, Node2
<1>4. Node3(c) \in Felt
  BY <1>3, FieldNames, MixTyped, Branches DEF Claims, Node3
<1> QED
  BY <1>1, <1>2, <1>3, <1>4

(* so is the binding,                                                      *)
LEMMA BindingTyped == \A c \in Claims : ComputeBinding(c) \in Felt
  BY FieldNames, MixTyped DEF Claims, ComputeBinding, PolicyLeaf, SettlementAmount

(* and so is every field of a sealed claim.                                *)
LEMMA SealTyped == \A c \in Claims : Seal(c) \in Claims
<1> SUFFICES ASSUME NEW c \in Claims PROVE Seal(c) \in Claims
  OBVIOUS
<1> DEFINE folded == [c EXCEPT !.taproot_path_fold = ComputeTaprootPathFold(c)]
<1>1. folded \in Claims
  BY NodesTyped, FoldIsNode3 DEF Claims
<1>2. ComputeBinding(folded) \in Felt
  BY <1>1, BindingTyped
<1> HIDE DEF folded
<1>3. [folded EXCEPT !.binding_commitment = ComputeBinding(folded)] \in Claims
  BY <1>1, <1>2 DEF Claims
<1> QED
  BY <1>3 DEF Seal, folded

InField == claim \in Claims

(* The claim is made of elements of the field, whatever is chosen for it.  *)
LEMMA ClaimTyped == Spec => []InField
<1>1. Init => InField
  BY SampleAssumption, SealTyped DEF Init, InField, Claims, Felt
<1>2. InField /\ [Next]_claim => InField'
  <2> SUFFICES ASSUME InField, [Next]_claim PROVE InField'
    OBVIOUS
  <2>1. CASE UNCHANGED claim
    BY <2>1 DEF InField
  <2>2. ASSUME NEW field \in DOMAIN Choices, NEW v \in Choices[field],
               Change(field, v)
        PROVE  InField'
    <3>1. v \in Felt
      BY SampleAssumption DEF Felt
    <3>2. [claim EXCEPT ![field] = v] \in Claims
      BY <3>1 DEF Claims, InField
    <3> QED
      BY <2>2, <3>2, SealTyped DEF Change, InField
  <2> QED
    BY <2>1, <2>2 DEF Next
<1> QED
  BY <1>1, <1>2, PTL DEF Spec

(* The JavaScript copy reads the fields the Cairo relation reads.          *)
LEMMA Indices ==
  /\ FieldOrder[1] = "manifest_id_hi" /\ FieldOrder[2] = "manifest_id_lo"
  /\ FieldOrder[3] = "taproot_root_hi" /\ FieldOrder[4] = "taproot_root_lo"
  /\ FieldOrder[5] = "selected_leaf_hash_hi"
  /\ FieldOrder[6] = "selected_leaf_hash_lo"
  /\ FieldOrder[7] = "selected_leaf_role"
  /\ FieldOrder[8] = "taproot_path_commitment_hi"
  /\ FieldOrder[9] = "taproot_path_commitment_lo"
  /\ FieldOrder[10] = "taproot_path_fold"
  /\ FieldOrder[12] = "path_sibling_0_hi" /\ FieldOrder[13] = "path_sibling_0_lo"
  /\ FieldOrder[14] = "path_sibling_0_is_left"
  /\ FieldOrder[15] = "path_sibling_1_hi" /\ FieldOrder[16] = "path_sibling_1_lo"
  /\ FieldOrder[17] = "path_sibling_1_is_left"
  /\ FieldOrder[18] = "path_sibling_2_hi" /\ FieldOrder[19] = "path_sibling_2_lo"
  /\ FieldOrder[20] = "path_sibling_2_is_left"
  /\ FieldOrder[21] = "settlement_hash_hi" /\ FieldOrder[22] = "settlement_hash_lo"
  /\ FieldOrder[23] = "amount_sats" /\ FieldOrder[24] = "exit_delay"
  BY DEF FieldOrder

(* Its indices are those fields.                                           *)
LEMMA CopiesSame == \A c : ComputeLinearBinding(c) = ComputeBinding(c)
<1> SUFFICES ASSUME NEW c PROVE ComputeLinearBinding(c) = ComputeBinding(c)
  OBVIOUS
<1> DEFINE value(i) == c[FieldOrder[i + 1]]
<1>1. /\ value(0) = c.manifest_id_hi /\ value(1) = c.manifest_id_lo
      /\ value(2) = c.taproot_root_hi /\ value(3) = c.taproot_root_lo
      /\ value(4) = c.selected_leaf_hash_hi /\ value(5) = c.selected_leaf_hash_lo
      /\ value(6) = c.selected_leaf_role
      /\ value(7) = c.taproot_path_commitment_hi
      /\ value(8) = c.taproot_path_commitment_lo
      /\ value(9) = c.taproot_path_fold
      /\ value(20) = c.settlement_hash_hi /\ value(21) = c.settlement_hash_lo
      /\ value(22) = c.amount_sats /\ value(23) = c.exit_delay
  BY Indices
<1> QED
  BY <1>1
     DEF ComputeLinearBinding, ComputeBinding, PolicyLeaf, SettlementAmount

(* The gate's copy of the binding, over indices into the serialised claim  *)
(* (computeLinearBinding), is the Cairo compute_binding on every claim.    *)
THEOREM CopiesNeverDiffer == Spec => []CopiesAgree
<1>1. CopiesAgree
  BY CopiesSame DEF CopiesAgree
<1> QED
  BY <1>1, PTL

(* Seventeen more on the left and thirty-one less on the right: the same.  *)
LEMMA Shifted ==
  ASSUME NEW x \in Int, NEW y \in Int
  PROVE  Mix(x + 17, y - 31) = Mix(x, y)
  BY FeltFacts DEF Mix

(* A multiple of the prime more leaves the remainder.                      *)
LEMMA SameRemainder ==
  ASSUME NEW a \in Int, NEW k \in Int
  PROVE  (a + k * Prime) % Prime = a % Prime
<1> DEFINE b == a + k * Prime
           j == (b \div Prime) - (a \div Prime) - k
           x == (a % Prime) - (b % Prime)
<1>1. Prime \in Int /\ Prime > 0
  BY PrimeAssumption
<1>2. b \in Int
  BY <1>1
<1>3. /\ a % Prime \in 0..(Prime - 1) /\ b % Prime \in 0..(Prime - 1)
      /\ a = (a \div Prime) * Prime + (a % Prime) /\ a \div Prime \in Int
      /\ b = (b \div Prime) * Prime + (b % Prime) /\ b \div Prime \in Int
  BY <1>2, Remainder
<1>4. x \in Int /\ j \in Int /\ -Prime < x /\ x < Prime
  <2> HIDE DEF b
  <2> QED
    BY <1>1, <1>3
<1>5. x = j * Prime
  <2>1. b = a + k * Prime
    OBVIOUS
  <2> HIDE DEF b
  <2> QED
    BY <2>1, <1>1, <1>2, <1>3
<1> HIDE DEF x, j
<1>6. x = 0
  BY <1>4, <1>5, NoMultiple
<1> QED
  BY <1>3, <1>6 DEF x

(* mix of a mix may be reduced at the end.                                 *)
LEMMA Reduced ==
  ASSUME NEW x \in Int, NEW y \in Int, NEW z \in Int
  PROVE  Mix(Mix(x, y), z) = Mix(x * 31 + y * 17 + 7, z)
<1> DEFINE u == x * 31 + y * 17 + 7
           q == u \div Prime
           w == u % Prime
           v == w * 31 + z * 17 + 7
<1>1. u \in Int
  OBVIOUS
<1>2. u = q * Prime + w /\ q \in Int /\ w \in Int
  BY <1>1, Remainder, FeltFacts
<1> HIDE DEF u, q, w
<1>3. u * 31 + z * 17 + 7 = v + (31 * q) * Prime
  BY <1>2, FeltFacts
<1>4. v \in Int
  BY <1>2
<1> HIDE DEF v
<1>5. (v + (31 * q) * Prime) % Prime = v % Prime
  BY <1>4, <1>2, SameRemainder
<1> QED
  BY <1>3, <1>5 DEF Mix, u, v, w

(* One satoshi more makes up for thirty-one blocks less.                   *)
LEMMA AmountForDelay ==
  ASSUME NEW s \in Felt, NEW a \in Int, NEW d \in Int
  PROVE  Mix(Mix(s, a + 1), d - 31) = Mix(Mix(s, a), d)
<1>1. s \in Int /\ a + 1 \in Int /\ d - 31 \in Int
  BY FeltFacts
<1>2. Mix(Mix(s, a + 1), d - 31) = Mix(s * 31 + (a + 1) * 17 + 7, d - 31)
  BY <1>1, Reduced
<1>3. Mix(Mix(s, a), d) = Mix(s * 31 + a * 17 + 7, d)
  BY <1>1, Reduced
<1>4. (s * 31 + (a + 1) * 17 + 7) = (s * 31 + a * 17 + 7) + 17
  BY <1>1
<1>5. s * 31 + a * 17 + 7 \in Int
  BY <1>1
<1> QED
  BY <1>2, <1>3, <1>4, <1>5, Shifted

(* The probe that trades delay for amount leaves the fold and the binding. *)
LEMMA AmountProbe ==
  ASSUME NEW c \in Claims, VerifyClaim(c), NEW d \in AmountDelayCollision(c)
  PROVE  d # c /\ VerifyClaim(d) /\ Output(d) = Output(c)
<1>1. /\ d = [c EXCEPT !.amount_sats = @ + 1, !.exit_delay = @ - 31]
      /\ d.amount_sats \in 1..AmountMax /\ d.exit_delay \in 1..DelayMax
  BY DEF AmountDelayCollision
<1>2. /\ d.amount_sats = c.amount_sats + 1 /\ d.exit_delay = c.exit_delay - 31
      /\ \A f \in Fields \ {"amount_sats", "exit_delay"} : d[f] = c[f]
  BY <1>1, FieldNames DEF Claims
<1>3. c.amount_sats \in Int /\ c.exit_delay \in Int
  BY FieldNames, FeltFacts DEF Claims
<1>4. d # c
  BY <1>2, <1>3
<1>5. Node3(d) = Node3(c)
  BY <1>2, FieldNames DEF Node3, Node2, Node1, Node0
<1>6. PolicyLeaf(d) = PolicyLeaf(c)
  BY <1>2, FieldNames DEF PolicyLeaf
<1>7. ComputeBinding(d) = ComputeBinding(c)
  <2> DEFINE s == Mix(c.settlement_hash_hi, c.settlement_hash_lo)
  <2>1. s \in Felt
    BY FieldNames, MixTyped DEF Claims
  <2>2. /\ SettlementAmount(c) = Mix(s, c.amount_sats)
        /\ SettlementAmount(d) = Mix(s, c.amount_sats + 1)
    BY <1>2, FieldNames DEF SettlementAmount
  <2> HIDE DEF s
  <2>3. Mix(SettlementAmount(d), d.exit_delay) = Mix(SettlementAmount(c), c.exit_delay)
    BY <1>2, <1>3, <2>1, <2>2, AmountForDelay
  <2> QED
    BY <1>6, <2>3 DEF ComputeBinding
<1>8. PathSidesOk(d)
  <2>1. Siblings(d) = Siblings(c) /\ d.taproot_path_depth = c.taproot_path_depth
    BY <1>2, FieldNames DEF Siblings
  <2> QED
    BY <2>1 DEF PathSidesOk, VerifyClaim
<1>9. VerifyClaim(d)
  <2>1. d.amount_sats > 0 /\ d.exit_delay > 0
    <3>1. AmountMax \in Int /\ DelayMax \in Int
      BY PrimeAssumption
    <3> QED
      BY <1>1, <3>1
  <2>2. /\ d.selected_leaf_role = c.selected_leaf_role
        /\ d.taproot_path_depth = c.taproot_path_depth
        /\ d.taproot_path_fold = c.taproot_path_fold
        /\ d.binding_commitment = c.binding_commitment
    BY <1>2, FieldNames
  <2> QED
    BY <2>1, <2>2, <1>5, <1>7, <1>8, FoldIsNode3 DEF VerifyClaim
<1>10. Output(d) = Output(c)
  BY <1>2, FieldNames DEF Output
<1> QED
  BY <1>4, <1>9, <1>10

(* The probe that moves the limbs of the settlement hash.                  *)
LEMMA SettlementProbe ==
  ASSUME NEW c \in Claims, VerifyClaim(c), NEW d \in SettlementLimbCollision(c)
  PROVE  d # c /\ VerifyClaim(d) /\ Output(d) = Output(c)
<1>1. d = [c EXCEPT !.settlement_hash_hi = @ + 17, !.settlement_hash_lo = @ - 31]
  BY DEF SettlementLimbCollision
<1>2. /\ d.settlement_hash_hi = c.settlement_hash_hi + 17
      /\ d.settlement_hash_lo = c.settlement_hash_lo - 31
      /\ \A f \in Fields \ {"settlement_hash_hi", "settlement_hash_lo"} : d[f] = c[f]
  BY <1>1, FieldNames DEF Claims
<1>3. c.settlement_hash_hi \in Int /\ c.settlement_hash_lo \in Int
  BY FieldNames, FeltFacts DEF Claims
<1>4. d # c
  BY <1>2, <1>3
<1>5. Node3(d) = Node3(c)
  BY <1>2, FieldNames DEF Node3, Node2, Node1, Node0
<1>6. PolicyLeaf(d) = PolicyLeaf(c)
  BY <1>2, FieldNames DEF PolicyLeaf
<1>7. ComputeBinding(d) = ComputeBinding(c)
  <2>1. SettlementAmount(d) = SettlementAmount(c)
    BY <1>2, <1>3, FieldNames, Shifted DEF SettlementAmount
  <2> QED
    BY <1>2, <1>6, <2>1, FieldNames DEF ComputeBinding
<1>8. PathSidesOk(d)
  <2>1. Siblings(d) = Siblings(c) /\ d.taproot_path_depth = c.taproot_path_depth
    BY <1>2, FieldNames DEF Siblings
  <2> QED
    BY <2>1 DEF PathSidesOk, VerifyClaim
<1>9. VerifyClaim(d)
  <2>1. /\ d.selected_leaf_role = c.selected_leaf_role
        /\ d.amount_sats = c.amount_sats /\ d.exit_delay = c.exit_delay
        /\ d.taproot_path_depth = c.taproot_path_depth
        /\ d.taproot_path_fold = c.taproot_path_fold
        /\ d.binding_commitment = c.binding_commitment
    BY <1>2, FieldNames
  <2> QED
    BY <2>1, <1>5, <1>7, <1>8, FoldIsNode3 DEF VerifyClaim
<1>10. Output(d) = Output(c)
  BY <1>2, FieldNames DEF Output
<1> QED
  BY <1>4, <1>9, <1>10

(* Both probes of red-team-attacks.js produce, from any verified claim     *)
(* they apply to, another one with the same public output.                 *)
THEOREM ProbesVerify == Spec => []CollisionsVerify
<1>1. InField => CollisionsVerify
  BY AmountProbe, SettlementProbe DEF InField, CollisionsVerify
<1> QED
  BY <1>1, ClaimTyped, PTL

(* The positions of the siblings decide which of them a path leaves out.   *)
LEMMA Unused ==
  ASSUME NEW c, c.taproot_path_depth \in 0..3, NEW field \in Fields \ Turns
  PROVE  field \in UnusedPath(c) <=>
           \/ /\ field \in {"path_sibling_0_hi", "path_sibling_0_lo"}
              /\ c.taproot_path_depth < 1
           \/ /\ field \in {"path_sibling_1_hi", "path_sibling_1_lo"}
              /\ c.taproot_path_depth < 2
           \/ /\ field \in {"path_sibling_2_hi", "path_sibling_2_lo"}
              /\ c.taproot_path_depth < 3
<1> DEFINE d == c.taproot_path_depth
           At(i) == FieldOrder[i]
<1>1. UnusedPath(c) = {At(i) : i \in (12 + 3 * d)..20}
  BY DEF UnusedPath
<1>2. field \notin {At(14), At(17), At(20)}
  BY Indices DEF Turns
<1>3. ASSUME d = 0
      PROVE  field \in UnusedPath(c) <=>
               field \in {At(12), At(13), At(15), At(16), At(18), At(19)}
  <2>1. UnusedPath(c) = {At(i) : i \in 12..20}
    BY <1>1, <1>3
  <2> QED
    BY <2>1, <1>2
<1>4. ASSUME d = 1
      PROVE  field \in UnusedPath(c) <=> field \in {At(15), At(16), At(18), At(19)}
  <2>1. UnusedPath(c) = {At(i) : i \in 15..20}
    BY <1>1, <1>4
  <2> QED
    BY <2>1, <1>2
<1>5. ASSUME d = 2
      PROVE  field \in UnusedPath(c) <=> field \in {At(18), At(19)}
  <2>1. UnusedPath(c) = {At(i) : i \in 18..20}
    BY <1>1, <1>5
  <2> QED
    BY <2>1, <1>2
<1>6. ASSUME d = 3 PROVE field \notin UnusedPath(c)
  <2>1. UnusedPath(c) = {At(i) : i \in 21..20}
    BY <1>1, <1>6
  <2> QED
    BY <2>1
<1>7. /\ At(12) = "path_sibling_0_hi" /\ At(13) = "path_sibling_0_lo"
      /\ At(15) = "path_sibling_1_hi" /\ At(16) = "path_sibling_1_lo"
      /\ At(18) = "path_sibling_2_hi" /\ At(19) = "path_sibling_2_lo"
  BY Indices
<1> HIDE DEF At
<1>8. d \in {0, 1, 2, 3}
  OBVIOUS
<1>9. CASE d = 0
  BY <1>3, <1>7, <1>9
<1>10. CASE d = 1
  BY <1>4, <1>7, <1>10
<1>11. CASE d = 2
  BY <1>5, <1>7, <1>11
<1>12. CASE d = 3
  BY <1>6, <1>7, <1>12
<1> QED
  BY <1>8, <1>9, <1>10, <1>11, <1>12

(* The field that is changed, and the others that are not.                 *)
Changed(c, d, field) ==
  /\ c \in Claims /\ d \in Claims
  /\ c[field] # d[field]
  /\ \A f \in Fields \ {field} : d[f] = c[f]

BindingFields ==
  {"manifest_id_hi", "manifest_id_lo", "taproot_root_hi", "taproot_root_lo",
   "selected_leaf_role", "taproot_path_commitment_hi",
   "taproot_path_commitment_lo", "settlement_hash_hi", "settlement_hash_lo",
   "amount_sats", "exit_delay"}

SiblingFields ==
  {"path_sibling_0_hi", "path_sibling_0_lo", "path_sibling_1_hi",
   "path_sibling_1_lo", "path_sibling_2_hi", "path_sibling_2_lo"}

(* One argument changes: the result does.                                  *)
LEMMA MixMoves ==
  \A x, y, z, w :
    /\ x \in Felt /\ y \in Felt /\ z \in Felt /\ w \in Felt
    /\ (x # z /\ y = w) \/ (x = z /\ y # w)
    => Mix(x, y) # Mix(z, w)
  BY MixLeft, MixRight

(* The binding reads neither siblings nor itself,                          *)
LEMMA BindingReads ==
  ASSUME NEW c, NEW d, NEW field, Changed(c, d, field), 
         field \in SiblingFields \cup {"binding_commitment"}
  PROVE  ComputeBinding(d) = ComputeBinding(c)
  BY FieldNames
     DEF Changed, SiblingFields, ComputeBinding, PolicyLeaf, SettlementAmount

(* and moves with every other field it reads.                              *)
LEMMA BindingMoves ==
  ASSUME NEW c, NEW d, NEW field \in BindingFields, Changed(c, d, field)
  PROVE  ComputeBinding(d) # ComputeBinding(c)
<1>1. \A f \in Fields : c[f] \in Felt /\ d[f] \in Felt
  BY DEF Changed, Claims
<1>2. \A x \in {c, d} :
        /\ PolicyLeaf(x) \in Felt /\ SettlementAmount(x) \in Felt
        /\ Mix(SettlementAmount(x), x.exit_delay) \in Felt
  BY <1>1, FieldNames, MixTyped DEF PolicyLeaf, SettlementAmount
<1>3. CASE field = "exit_delay"
  <2>1. PolicyLeaf(d) = PolicyLeaf(c) /\ SettlementAmount(d) = SettlementAmount(c)
    BY <1>3, FieldNames DEF Changed, PolicyLeaf, SettlementAmount
  <2>2. Mix(SettlementAmount(c), c.exit_delay) # Mix(SettlementAmount(c), d.exit_delay)
    BY <1>1, <1>2, <1>3, FieldNames, MixRight DEF Changed
  <2> QED
    BY <1>2, <2>1, <2>2, MixRight DEF ComputeBinding
<1>4. CASE field \in {"settlement_hash_hi", "settlement_hash_lo", "amount_sats"}
  <2>1. PolicyLeaf(d) = PolicyLeaf(c) /\ d.exit_delay = c.exit_delay
    BY <1>4, FieldNames DEF Changed, PolicyLeaf
  <2>2. SettlementAmount(d) # SettlementAmount(c)
    <3> DEFINE Hash(x) == Mix(x.settlement_hash_hi, x.settlement_hash_lo)
    <3>1. Hash(c) \in Felt /\ Hash(d) \in Felt
      BY <1>1, FieldNames, MixTyped
    <3>2. CASE field = "amount_sats"
      <4>1. Hash(d) = Hash(c) /\ d.amount_sats # c.amount_sats
        BY <3>2, FieldNames DEF Changed
      <4>2. d.amount_sats \in Felt /\ c.amount_sats \in Felt
        BY <1>1, FieldNames
      <4>3. /\ SettlementAmount(c) = Mix(Hash(c), c.amount_sats)
            /\ SettlementAmount(d) = Mix(Hash(d), d.amount_sats)
        BY DEF SettlementAmount
      <4> HIDE DEF Hash
      <4> QED
        BY <3>1, <4>1, <4>2, <4>3, MixMoves
    <3>3. CASE field \in {"settlement_hash_hi", "settlement_hash_lo"}
      <4>1. Hash(d) # Hash(c)
        BY <1>1, <3>3, FieldNames, MixMoves DEF Changed
      <4>2. d.amount_sats = c.amount_sats /\ c.amount_sats \in Felt
        BY <1>1, <3>3, FieldNames DEF Changed
      <4>3. /\ SettlementAmount(c) = Mix(Hash(c), c.amount_sats)
            /\ SettlementAmount(d) = Mix(Hash(d), d.amount_sats)
        BY DEF SettlementAmount
      <4> HIDE DEF Hash
      <4> QED
        BY <3>1, <4>1, <4>2, <4>3, MixMoves
    <3> QED
      BY <1>4, <3>2, <3>3
  <2>3. Mix(SettlementAmount(c), c.exit_delay) # Mix(SettlementAmount(d), c.exit_delay)
    BY <1>1, <1>2, <2>2, FieldNames, MixLeft
  <2> QED
    BY <1>2, <2>1, <2>3, MixRight DEF ComputeBinding
<1>5. CASE field \in BindingFields
              \ {"settlement_hash_hi", "settlement_hash_lo", "amount_sats", "exit_delay"}
  <2>1. /\ SettlementAmount(d) = SettlementAmount(c) /\ d.exit_delay = c.exit_delay
    BY <1>5, FieldNames DEF Changed, SettlementAmount, BindingFields
  <2>2. PolicyLeaf(d) # PolicyLeaf(c)
    <3> DEFINE Pair(x) == Mix(Mix(x.manifest_id_hi, x.manifest_id_lo),
                              Mix(x.taproot_root_hi, x.taproot_root_lo))
               Path(x) == Mix(Mix(x.taproot_path_commitment_hi,
                                  x.taproot_path_commitment_lo), x.taproot_path_fold)
               Leaf(x) == Mix(Mix(x.selected_leaf_hash_hi, x.selected_leaf_hash_lo),
                              x.selected_leaf_role)
    <3>1. /\ Pair(c) \in Felt /\ Path(c) \in Felt /\ Leaf(c) \in Felt
          /\ Pair(d) \in Felt /\ Path(d) \in Felt /\ Leaf(d) \in Felt
      BY <1>1, FieldNames, MixTyped
    <3>2. /\ PolicyLeaf(c) = Mix(Mix(Pair(c), Path(c)), Leaf(c))
          /\ PolicyLeaf(d) = Mix(Mix(Pair(d), Path(d)), Leaf(d))
      BY DEF PolicyLeaf
    <3>3. CASE field = "selected_leaf_role"
      <4>1. Pair(d) = Pair(c) /\ Path(d) = Path(c)
        BY <3>3, FieldNames DEF Changed
      <4>2. Leaf(d) # Leaf(c)
        BY <1>1, <3>3, FieldNames, MixTyped, MixRight DEF Changed
      <4> HIDE DEF Pair, Path, Leaf
      <4> QED
        BY <3>1, <3>2, <4>1, <4>2, MixTyped, MixRight
    <3>4. CASE field \in {"taproot_path_commitment_hi", "taproot_path_commitment_lo"}
      <4>1. Pair(d) = Pair(c) /\ Leaf(d) = Leaf(c)
        BY <3>4, FieldNames DEF Changed
      <4>2. Path(d) # Path(c)
        <5> DEFINE Limbs(x) == Mix(x.taproot_path_commitment_hi,
                                   x.taproot_path_commitment_lo)
        <5>1. Limbs(d) # Limbs(c)
          BY <1>1, <3>4, FieldNames, MixMoves DEF Changed
        <5>2. Limbs(c) \in Felt /\ Limbs(d) \in Felt
          BY <1>1, FieldNames, MixTyped
        <5>3. d.taproot_path_fold = c.taproot_path_fold /\ c.taproot_path_fold \in Felt
          BY <1>1, <3>4, FieldNames DEF Changed
        <5>4. /\ Path(c) = Mix(Limbs(c), c.taproot_path_fold)
              /\ Path(d) = Mix(Limbs(d), d.taproot_path_fold)
          OBVIOUS
        <5> HIDE DEF Limbs, Path
        <5> QED
          BY <5>1, <5>2, <5>3, <5>4, MixMoves
      <4> HIDE DEF Pair, Path, Leaf
      <4> QED
        BY <3>1, <3>2, <4>1, <4>2, MixTyped, MixLeft, MixRight
    <3>5. CASE field \in {"manifest_id_hi", "manifest_id_lo",
                          "taproot_root_hi", "taproot_root_lo"}
      <4>1. Path(d) = Path(c) /\ Leaf(d) = Leaf(c)
        BY <3>5, FieldNames DEF Changed
      <4>2. Pair(d) # Pair(c)
        <5> DEFINE Id(x) == Mix(x.manifest_id_hi, x.manifest_id_lo)
                   Root(x) == Mix(x.taproot_root_hi, x.taproot_root_lo)
        <5>1. \/ Id(d) # Id(c) /\ Root(d) = Root(c)
              \/ Id(d) = Id(c) /\ Root(d) # Root(c)
          <6>1. CASE field \in {"manifest_id_hi", "manifest_id_lo"}
            BY <1>1, <6>1, FieldNames, MixMoves DEF Changed
          <6>2. CASE field \in {"taproot_root_hi", "taproot_root_lo"}
            BY <1>1, <6>2, FieldNames, MixMoves DEF Changed
          <6> QED
            BY <3>5, <6>1, <6>2
        <5>2. Id(c) \in Felt /\ Id(d) \in Felt /\ Root(c) \in Felt /\ Root(d) \in Felt
          BY <1>1, FieldNames, MixTyped
        <5>3. Pair(c) = Mix(Id(c), Root(c)) /\ Pair(d) = Mix(Id(d), Root(d))
          OBVIOUS
        <5> HIDE DEF Id, Root, Pair
        <5> QED
          BY <5>1, <5>2, <5>3, MixMoves
      <4> HIDE DEF Pair, Path, Leaf
      <4> QED
        BY <3>1, <3>2, <4>1, <4>2, MixTyped, MixLeft
    <3> QED
      BY <1>5, <3>3, <3>4, <3>5 DEF BindingFields
  <2>3. Mix(SettlementAmount(c), c.exit_delay) \in Felt
    BY <1>2
  <2> QED
    BY <1>2, <2>1, <2>2, <2>3, MixLeft DEF ComputeBinding
<1> QED
  BY <1>3, <1>4, <1>5

(* The fold reads no binding field and no sibling the path leaves out,     *)
LEMMA FoldReads ==
  ASSUME NEW c, NEW d, NEW field, Changed(c, d, field),
         \/ field \in {"binding_commitment", "taproot_path_fold"}
         \/ field \in BindingFields
         \/ field \in UnusedPath(c) /\ field \notin Turns
            /\ c.taproot_path_depth \in 0..3
  PROVE  Node3(d) = Node3(c)
<1>1. CASE field \in BindingFields \cup {"binding_commitment", "taproot_path_fold"}
  BY <1>1, FieldNames DEF Changed, BindingFields, Node3, Node2, Node1, Node0
<1>2. CASE field \in UnusedPath(c) /\ field \notin Turns /\ c.taproot_path_depth \in 0..3
  <2>1. field \in Fields
    BY <1>2 DEF UnusedPath, Fields
  <2>2. \/ /\ field \in {"path_sibling_0_hi", "path_sibling_0_lo"}
           /\ c.taproot_path_depth < 1
        \/ /\ field \in {"path_sibling_1_hi", "path_sibling_1_lo"}
           /\ c.taproot_path_depth < 2
        \/ /\ field \in {"path_sibling_2_hi", "path_sibling_2_lo"}
           /\ c.taproot_path_depth < 3
    BY <1>2, <2>1, Unused
  <2>3. d.taproot_path_depth = c.taproot_path_depth /\ Node0(d) = Node0(c)
    BY <2>2, FieldNames DEF Changed, Node0
  <2>4. Node1(d) = Node1(c)
    BY <1>2, <2>2, <2>3, FieldNames DEF Changed, Node1
  <2>5. Node2(d) = Node2(c)
    BY <1>2, <2>2, <2>3, <2>4, FieldNames DEF Changed, Node2
  <2> QED
    BY <1>2, <2>2, <2>3, <2>5, FieldNames DEF Changed, Node3
<1> QED
  BY <1>1, <1>2

(* One child changes: the branch does.                                     *)
LEMMA BranchMoves ==
  \A n, s, m, t, left :
    /\ n \in Felt /\ s \in Felt /\ m \in Felt /\ t \in Felt /\ left \in Felt
    /\ (n # m /\ s = t) \/ (n = m /\ s # t)
    => MixPathBranch(n, s, left) # MixPathBranch(m, t, left)
  BY MixMoves DEF MixPathBranch

(* and moves with the leaf and with every sibling on the path.             *)
LEMMA FoldMoves ==
  ASSUME NEW c, NEW d, NEW field, Changed(c, d, field),
         c.taproot_path_depth \in 0..3,
         \/ field \in {"selected_leaf_hash_hi", "selected_leaf_hash_lo"}
         \/ field \in SiblingFields /\ field \notin UnusedPath(c)
  PROVE  Node3(d) # Node3(c)
<1> DEFINE S0(x) == Mix(x.path_sibling_0_hi, x.path_sibling_0_lo)
           S1(x) == Mix(x.path_sibling_1_hi, x.path_sibling_1_lo)
           S2(x) == Mix(x.path_sibling_2_hi, x.path_sibling_2_lo)
           depth == c.taproot_path_depth
<1>1. \A f \in Fields : c[f] \in Felt /\ d[f] \in Felt
  BY DEF Changed, Claims
<1>2. /\ d.taproot_path_depth = depth
      /\ d.path_sibling_0_is_left = c.path_sibling_0_is_left
      /\ d.path_sibling_1_is_left = c.path_sibling_1_is_left
      /\ d.path_sibling_2_is_left = c.path_sibling_2_is_left
  BY FieldNames DEF Changed, SiblingFields
<1>3. /\ c.path_sibling_0_is_left \in Felt /\ c.path_sibling_1_is_left \in Felt
      /\ c.path_sibling_2_is_left \in Felt
  BY <1>1, FieldNames
<1>4. /\ S0(c) \in Felt /\ S1(c) \in Felt /\ S2(c) \in Felt
      /\ S0(d) \in Felt /\ S1(d) \in Felt /\ S2(d) \in Felt
  BY <1>1, FieldNames, MixTyped
<1>5. /\ Node0(c) \in Felt /\ Node1(c) \in Felt /\ Node2(c) \in Felt
      /\ Node0(d) \in Felt /\ Node1(d) \in Felt /\ Node2(d) \in Felt
  BY NodesTyped DEF Changed
<1>6. \A x \in {c, d} :
        /\ Node1(x) = IF depth >= 1
                      THEN MixPathBranch(Node0(x), S0(x), c.path_sibling_0_is_left)
                      ELSE Node0(x)
        /\ Node2(x) = IF depth >= 2
                      THEN MixPathBranch(Node1(x), S1(x), c.path_sibling_1_is_left)
                      ELSE Node1(x)
        /\ Node3(x) = IF depth >= 3
                      THEN MixPathBranch(Node2(x), S2(x), c.path_sibling_2_is_left)
                      ELSE Node2(x)
  BY <1>2 DEF Node1, Node2, Node3
<1>7. CASE field \in {"selected_leaf_hash_hi", "selected_leaf_hash_lo"}
  <2>1. Node0(d) # Node0(c)
    BY <1>1, <1>7, FieldNames, MixMoves DEF Changed, Node0
  <2>2. S0(d) = S0(c) /\ S1(d) = S1(c) /\ S2(d) = S2(c)
    BY <1>7, FieldNames DEF Changed
  <2> HIDE DEF S0, S1, S2, depth
  <2>3. Node1(d) # Node1(c)
    BY <2>1, <2>2, <1>3, <1>4, <1>5, <1>6, BranchMoves
  <2>4. Node2(d) # Node2(c)
    BY <2>3, <2>2, <1>3, <1>4, <1>5, <1>6, BranchMoves
  <2> QED
    BY <2>4, <2>2, <1>3, <1>4, <1>5, <1>6, BranchMoves
<1>8. ASSUME field \in SiblingFields, field \notin UnusedPath(c)
      PROVE  \/ /\ field \in {"path_sibling_0_hi", "path_sibling_0_lo"}
                /\ depth >= 1
             \/ /\ field \in {"path_sibling_1_hi", "path_sibling_1_lo"}
                /\ depth >= 2
             \/ /\ field \in {"path_sibling_2_hi", "path_sibling_2_lo"}
                /\ depth >= 3
  <2>1. field \in Fields \ Turns
    BY <1>8, FieldNames DEF SiblingFields, Turns
  <2>2. ~(\/ /\ field \in {"path_sibling_0_hi", "path_sibling_0_lo"}
             /\ depth < 1
          \/ /\ field \in {"path_sibling_1_hi", "path_sibling_1_lo"}
             /\ depth < 2
          \/ /\ field \in {"path_sibling_2_hi", "path_sibling_2_lo"}
             /\ depth < 3)
    BY <1>8, <2>1, Unused
  <2> QED
    BY <1>8, <2>2 DEF SiblingFields
<1>9. CASE field \in {"path_sibling_0_hi", "path_sibling_0_lo"} /\ depth >= 1
  <2>1. Node0(d) = Node0(c) /\ S1(d) = S1(c) /\ S2(d) = S2(c)
    BY <1>9, FieldNames DEF Changed, Node0
  <2>2. S0(d) # S0(c)
    BY <1>1, <1>9, FieldNames, MixMoves DEF Changed
  <2>3. depth >= 1
    BY <1>9
  <2> HIDE DEF S0, S1, S2, depth
  <2>4. Node1(d) # Node1(c)
    BY <2>1, <2>2, <2>3, <1>3, <1>4, <1>5, <1>6, BranchMoves
  <2>5. Node2(d) # Node2(c)
    BY <2>1, <2>4, <1>3, <1>4, <1>5, <1>6, BranchMoves
  <2> QED
    BY <2>1, <2>5, <1>3, <1>4, <1>5, <1>6, BranchMoves
<1>10. CASE field \in {"path_sibling_1_hi", "path_sibling_1_lo"} /\ depth >= 2
  <2>1. Node0(d) = Node0(c) /\ S0(d) = S0(c) /\ S2(d) = S2(c)
    BY <1>10, FieldNames DEF Changed, Node0
  <2>2. S1(d) # S1(c)
    BY <1>1, <1>10, FieldNames, MixMoves DEF Changed
  <2>3. depth >= 2
    BY <1>10
  <2> HIDE DEF S0, S1, S2, depth
  <2>4. Node1(d) = Node1(c)
    BY <2>1, <1>6
  <2>5. Node2(d) # Node2(c)
    BY <2>2, <2>3, <2>4, <1>3, <1>4, <1>5, <1>6, BranchMoves
  <2> QED
    BY <2>1, <2>5, <1>3, <1>4, <1>5, <1>6, BranchMoves
<1>11. CASE field \in {"path_sibling_2_hi", "path_sibling_2_lo"} /\ depth >= 3
  <2>1. Node0(d) = Node0(c) /\ S0(d) = S0(c) /\ S1(d) = S1(c)
    BY <1>11, FieldNames DEF Changed, Node0
  <2>2. S2(d) # S2(c)
    BY <1>1, <1>11, FieldNames, MixMoves DEF Changed
  <2>3. depth >= 3
    BY <1>11
  <2> HIDE DEF S0, S1, S2, depth
  <2>4. Node2(d) = Node2(c)
    BY <2>1, <1>6
  <2> QED
    BY <2>2, <2>3, <2>4, <1>3, <1>4, <1>5, <1>6, BranchMoves
<1> QED
  BY <1>7, <1>8, <1>9, <1>10, <1>11

(* The values a field may take are elements of the field.                  *)
LEMMA RangesTyped ==
  ASSUME NEW field \in Fields \ Turns, NEW v \in Ranges(field)
  PROVE  v \in Felt
<1>1. Prime \in Nat /\ Prime > 31 /\ LimbMax \in 0..(Prime - 1)
      /\ AmountMax \in 0..(Prime - 1) /\ DelayMax \in 0..(Prime - 1)
  BY PrimeAssumption
<1>2. CASE field = "amount_sats"
  BY <1>1, <1>2 DEF Ranges, Felt
<1>3. CASE field = "exit_delay"
  BY <1>1, <1>3 DEF Ranges, Felt
<1>4. CASE field = "selected_leaf_role"
  BY <1>1, <1>4 DEF Ranges, Felt, SupportedRoles
<1>5. CASE field \in {"taproot_path_fold", "binding_commitment"}
  BY <1>1, <1>5 DEF Ranges, Felt
<1>6. CASE field \notin {"amount_sats", "exit_delay", "selected_leaf_role",
                         "taproot_path_fold", "binding_commitment"}
  <2>1. Ranges(field) = 0..LimbMax
    BY <1>6 DEF Ranges
  <2> QED
    BY <2>1, <1>1 DEF Felt
<1> QED
  BY <1>2, <1>3, <1>4, <1>5, <1>6

(* One field of a verified claim changes.                                  *)
LEMMA OneFieldChanged ==
  ASSUME NEW c \in Claims, VerifyClaim(c), NEW field \in Fields \ Turns,
         NEW v \in Ranges(field) \ {c[field]}
  PROVE  VerifyClaim([c EXCEPT ![field] = v]) <=> field \in UnusedPath(c)
<1> DEFINE d == [c EXCEPT ![field] = v]
<1>1. Changed(c, d, field) /\ d[field] = v
  <2>1. v \in Felt
    BY RangesTyped
  <2> QED
    BY <2>1 DEF Changed, Claims
<1> HIDE DEF d
<1>2. /\ c.taproot_path_depth \in 0..3
      /\ c.taproot_path_fold = Node3(c)
      /\ c.binding_commitment = ComputeBinding(c)
  <2>1. c.taproot_path_depth \in Felt
    BY FieldNames DEF Claims
  <2> QED
    BY <2>1, FoldIsNode3 DEF VerifyClaim, Felt
<1>3. VerifyClaim(d) => /\ d.taproot_path_fold = Node3(d)
                        /\ d.binding_commitment = ComputeBinding(d)
  BY FoldIsNode3 DEF VerifyClaim
<1>4. field \in BindingFields \cup SiblingFields
        \cup {"selected_leaf_hash_hi", "selected_leaf_hash_lo",
              "taproot_path_fold", "binding_commitment"}
  BY FieldNames DEF BindingFields, SiblingFields, Turns
<1>5. field \in UnusedPath(c) => field \in SiblingFields
  BY <1>2, Unused DEF SiblingFields
<1>6. CASE field \in UnusedPath(c)
  <2>1. field \in SiblingFields
    BY <1>5, <1>6
  <2>2. Node3(d) = Node3(c) /\ ComputeBinding(d) = ComputeBinding(c)
    BY <1>1, <1>2, <1>6, <2>1, FoldReads, BindingReads
  <2>3. \A f \in {"selected_leaf_role", "amount_sats", "exit_delay",
                  "taproot_path_depth", "taproot_path_fold", "binding_commitment",
                  "path_sibling_0_is_left", "path_sibling_1_is_left",
                  "path_sibling_2_is_left"} : d[f] = c[f]
    BY <1>1, <2>1, FieldNames DEF Changed, SiblingFields
  <2>4. PathSidesOk(d)
    <3>1. \A level \in 1..3 : Siblings(d)[level].isLeft = Siblings(c)[level].isLeft
      BY <2>3 DEF Siblings
    <3> QED
      BY <2>3, <3>1 DEF PathSidesOk, VerifyClaim
  <2> QED
    BY <1>2, <1>6, <2>2, <2>3, <2>4, FoldIsNode3 DEF VerifyClaim, d
<1>7. CASE field \in BindingFields
  <2>1. ComputeBinding(d) # ComputeBinding(c)
    BY <1>1, <1>7, BindingMoves
  <2>2. d.binding_commitment = c.binding_commitment
    BY <1>1, <1>7, FieldNames DEF Changed, BindingFields
  <2>3. field \notin SiblingFields
    BY <1>7 DEF BindingFields, SiblingFields
  <2> QED
    BY <1>2, <1>3, <1>5, <2>1, <2>2, <2>3 DEF d
<1>8. CASE field = "binding_commitment"
  <2>1. ComputeBinding(d) = ComputeBinding(c)
    BY <1>1, <1>8, BindingReads
  <2>2. d.binding_commitment # c.binding_commitment
    BY <1>1, <1>8 DEF Changed
  <2>3. field \notin SiblingFields
    BY <1>8 DEF SiblingFields
  <2> QED
    BY <1>2, <1>3, <1>5, <2>1, <2>2, <2>3 DEF d
<1>9. CASE field = "taproot_path_fold"
  <2>1. Node3(d) = Node3(c)
    BY <1>1, <1>9, FoldReads
  <2>2. d.taproot_path_fold # c.taproot_path_fold
    BY <1>1, <1>9 DEF Changed
  <2>3. field \notin SiblingFields
    BY <1>9 DEF SiblingFields
  <2> QED
    BY <1>2, <1>3, <1>5, <2>1, <2>2, <2>3 DEF d
<1>10. CASE /\ field \in SiblingFields
               \cup {"selected_leaf_hash_hi", "selected_leaf_hash_lo"}
            /\ field \notin UnusedPath(c)
  <2>1. Node3(d) # Node3(c)
    BY <1>1, <1>2, <1>10, FoldMoves
  <2>2. d.taproot_path_fold = c.taproot_path_fold
    BY <1>1, <1>10, FieldNames DEF Changed, SiblingFields
  <2> QED
    BY <1>2, <1>3, <1>10, <2>1, <2>2 DEF d
<1> QED
  BY <1>4, <1>6, <1>7, <1>8, <1>9, <1>10

(* verify_claim refuses every change of a single field of a verified claim *)
(* except in siblings beyond the depth, which it accepts.                  *)
THEOREM ChangesNoticed == Spec => []SingleChangeNoticed
<1>1. InField => SingleChangeNoticed
  BY OneFieldChanged DEF InField, SingleChangeNoticed
<1> QED
  BY <1>1, ClaimTyped, PTL
=============================================================================
