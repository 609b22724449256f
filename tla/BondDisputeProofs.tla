-------------------------- MODULE BondDisputeProofs --------------------------
(***************************************************************************)
(* The arithmetic of enforcement.rs for every width and every policy, and  *)
(* the timing argument of a dispute for every policy that validates.       *)
(***************************************************************************)
EXTENDS BondDispute, TLAPS

(* A checked sum or product that is not None is the exact one. *)
LEMMA CheckedExact ==
  ASSUME NEW x \in Int, NEW y \in Int, NEW max \in Nat
  PROVE  /\ CheckedMul(x, y, max) # None =>
              CheckedMul(x, y, max) = x * y /\ x # None /\ y # None
         /\ CheckedAdd(x, y, max) # None =>
              CheckedAdd(x, y, max) = x + y /\ x # None /\ y # None
  BY DEF CheckedMul, CheckedAdd

LEMMA CheckedInt ==
  ASSUME NEW x \in Int, NEW y \in Int, NEW max \in Nat
  PROVE  CheckedMul(x, y, max) \in Int /\ CheckedAdd(x, y, max) \in Int
  <1>1. x * y \in Int /\ x + y \in Int
    OBVIOUS
  <1>2. QED
    BY <1>1 DEF CheckedMul, CheckedAdd, None

(* A valid timing policy leaves room for the challenge, every response and *)
(* the reorg margin, with no wraparound (TimingPolicy::validate).          *)
THEOREM ValidTimingCovers ==
  ASSUME NEW t \in TimingPolicy, ValidateTiming(t)
  PROVE  /\ t.take >= t.challenge + t.rounds * t.window + t.margin
         /\ t.recovery > t.take
  <1> DEFINE responses == CheckedMul(t.window, t.rounds, U32Max)
             answered == CheckedAdd(t.challenge, responses, U32Max)
  <1>1. /\ t.challenge \in Nat /\ t.window \in Nat /\ t.rounds \in Nat
        /\ t.margin \in Nat /\ t.take \in Nat /\ t.recovery \in Nat
        /\ U32Max \in Nat
    BY WidthAssumption DEF TimingPolicy, U32
  <1>2. responses \in Int /\ answered \in Int
    <2>1. t.challenge \in Int /\ t.window \in Int /\ t.rounds \in Int
      BY <1>1
    <2>2. responses \in Int
      BY <1>1, <2>1, CheckedInt, Zenon
    <2>3. QED
      BY <1>1, <2>1, <2>2, CheckedInt, Zenon
  <1>3. /\ DisputeBlocks(t) = CheckedAdd(answered, t.margin, U32Max)
        /\ DisputeBlocks(t) # None
        /\ t.take >= DisputeBlocks(t)
        /\ t.recovery > t.take
    BY DEF ValidateTiming, DisputeBlocks
  <1> HIDE DEF responses, answered
  <1>4. DisputeBlocks(t) = answered + t.margin /\ answered # None
    BY <1>1, <1>2, <1>3, CheckedExact
  <1>5. answered = t.challenge + responses /\ responses # None
    BY <1>1, <1>2, <1>4, CheckedExact DEF answered
  <1>6. responses = t.window * t.rounds
    BY <1>1, <1>5, CheckedExact DEF responses
  <1>7. t.window * t.rounds = t.rounds * t.window
    BY <1>1
  <1>8. QED
    BY <1>1, <1>2, <1>3, <1>4, <1>5, <1>6, <1>7

(* A bond that required_bond_sats asks for is worth its parts exactly.     *)
THEOREM RequiredBondExact ==
  ASSUME NEW b \in BondPolicy, RequiredBond(b) # None
  PROVE  RequiredBond(b) = b.vbytes * b.feeRate + b.value + b.reward
  <1> DEFINE fees == CheckedMul(b.vbytes, b.feeRate, U64Max)
             total == CheckedAdd(fees, b.value, U64Max)
  <1>1. /\ b.vbytes \in Nat /\ b.feeRate \in Nat /\ b.value \in Nat
        /\ b.reward \in Nat /\ U64Max \in Nat
    BY WidthAssumption DEF BondPolicy, U64
  <1>2. fees \in Int /\ total \in Int
    <2>1. b.vbytes \in Int /\ b.feeRate \in Int /\ b.value \in Int
      BY <1>1
    <2>2. fees \in Int
      BY <1>1, <2>1, CheckedInt, Zenon
    <2>3. QED
      BY <1>1, <2>1, <2>2, CheckedInt, Zenon
  <1>3. RequiredBond(b) = CheckedAdd(total, b.reward, U64Max)
    BY DEF RequiredBond
  <1> HIDE DEF fees, total
  <1>4. RequiredBond(b) = total + b.reward /\ total # None
    BY <1>1, <1>2, <1>3, CheckedExact
  <1>5. total = fees + b.value /\ fees # None
    BY <1>1, <1>2, <1>4, CheckedExact DEF total
  <1>6. fees = b.vbytes * b.feeRate
    BY <1>1, <1>5, CheckedExact DEF fees
  <1>7. QED
    BY <1>4, <1>5, <1>6

-----------------------------------------------------------------------------
(* The dispute on time: how far the chain can be at each stage of it, as   *)
(* long as no watcher's deadline passed unattended.                        *)

Setting ==
  /\ timing \in TimingPolicy /\ ValidateTiming(timing)
  /\ bond \in BondPolicy /\ RequiredBond(bond) # None
  /\ posted = RequiredBond(bond)

Counters ==
  /\ height \in Nat /\ since \in Nat /\ round \in Nat
  /\ stage \in {"open", "challenged", "disproved", "confirmed"}
  /\ missed \in BOOLEAN
  /\ statementValid \in BOOLEAN

OnTime ==
  (~statementValid /\ ~missed) =>
    /\ stage = "open" => height <= timing.challenge
    /\ stage = "challenged" =>
         /\ round <= timing.rounds
         /\ since <= timing.challenge + round * timing.window
         /\ height <= since + timing.window
         /\ round = timing.rounds => height = since
    /\ stage = "disproved" =>
         /\ since <= timing.challenge + timing.rounds * timing.window
         /\ height <= since + timing.margin

DInv == Setting /\ Counters /\ OnTime

(* One more response window still fits while responses are left. *)
LEMMA NextRoundFits ==
  ASSUME NEW w \in Nat, NEW r \in Nat, NEW n \in Nat, r < n
  PROVE  r * w + w = (r + 1) * w /\ (r + 1) * w <= n * w
  <1>1. r * w + w = (r + 1) * w
    OBVIOUS
  <1>2. PICK d \in Nat : n = (r + 1) + d
    <2>1. n - (r + 1) \in Nat /\ n = (r + 1) + (n - (r + 1))
      OBVIOUS
    <2>2. QED
      BY <2>1
  <1>3. n * w = (r + 1) * w + d * w
    BY <1>2
  <1>4. d * w \in Nat /\ (r + 1) * w \in Nat
    OBVIOUS
  <1>5. QED
    BY <1>1, <1>3, <1>4

(* A response window that began in time ends in time: `spent` is what the  *)
(* responses so far may have taken, `all` what they may take in total.     *)
LEMMA WindowEndsInTime ==
  ASSUME NEW h \in Nat, NEW begun \in Nat, NEW c \in Nat, NEW w \in Nat,
         NEW spent \in Nat, NEW all \in Nat,
         begun <= c + spent, h <= begun + w, spent + w <= all
  PROVE  h <= c + all
  OBVIOUS

LEMMA TimingNat ==
  ASSUME Setting
  PROVE  /\ timing.challenge \in Nat /\ timing.window \in Nat
         /\ timing.rounds \in Nat /\ timing.margin \in Nat
         /\ timing.take \in Nat /\ timing.recovery \in Nat
  BY WidthAssumption DEF Setting, TimingPolicy, U32

LEMMA InitDInv ==
  ASSUME Init
  PROVE  DInv
  <1>1. Setting
    BY PolicyAssumption DEF Init, Setting
  <1>2. /\ height = 0 /\ since = 0 /\ round = 0 /\ stage = "open"
        /\ missed = FALSE /\ statementValid \in BOOLEAN
    BY DEF Init
  <1>3. Counters
    BY <1>2 DEF Counters
  <1>4. OnTime
    BY <1>1, <1>2, TimingNat DEF OnTime
  <1>5. QED
    BY <1>1, <1>3, <1>4 DEF DInv

LEMMA StepDInv ==
  ASSUME DInv, [Next]_vars
  PROVE  DInv'
  <1> DEFINE C == timing.challenge
             W == timing.window
             R == timing.rounds
             M == timing.margin
  <1>1. /\ C \in Nat /\ W \in Nat /\ R \in Nat /\ M \in Nat
        /\ Counters /\ OnTime /\ Setting
    BY TimingNat DEF DInv
  <1>2. CASE Mine
    <2>1. /\ height' = height + 1 /\ missed' = (missed \/ WatcherDue)
          /\ stage = "disproved" => height < since + M
          /\ UNCHANGED <<setup, dispute>>
      BY <1>2 DEF Mine
    <2>2. Setting' /\ Counters'
      BY <1>1, <2>1 DEF Setting, Counters, setup, dispute
    <2>3. OnTime'
      <3> SUFFICES ASSUME ~statementValid, ~missed, ~WatcherDue
                   PROVE  OnTime'
        BY <1>1, <2>1 DEF OnTime, Counters, setup
      <3>1. stage = "open" => height < C
        BY <1>1 DEF WatcherDue, Counters
      <3>2. stage = "challenged" => round # R /\ height < since + W
        BY <1>1 DEF WatcherDue, DisproveReady, Counters
      <3>3. QED
        BY <1>1, <2>1, <3>1, <3>2 DEF OnTime, Counters, setup, dispute
    <2>4. QED
      BY <2>2, <2>3 DEF DInv
  <1>3. CASE Challenge
    <2>1. /\ stage = "open" /\ stage' = "challenged" /\ since' = height /\ round' = 0
          /\ height' = height /\ missed' = missed /\ UNCHANGED setup
      BY <1>3 DEF Challenge
    <2>2. 0 * W = 0
      BY <1>1
    <2>3. QED
      BY <1>1, <2>1, <2>2 DEF DInv, Setting, Counters, OnTime, setup
  <1>4. CASE Respond
    <2>1. /\ stage = "challenged" /\ stage' = stage /\ round < R
          /\ round' = round + 1 /\ since' = height
          /\ height' = height /\ missed' = missed /\ UNCHANGED setup
      BY <1>4 DEF Respond
    <2>2. round * W + W = (round + 1) * W /\ round * W \in Nat /\ (round + 1) * W \in Nat
      BY <1>1, <2>1, NextRoundFits DEF Counters
    <2>3. Setting' /\ Counters'
      BY <1>1, <2>1 DEF Setting, Counters, setup
    <2>4. OnTime'
      <3> SUFFICES ASSUME ~statementValid, ~missed
                   PROVE  OnTime'
        BY <2>1 DEF OnTime, setup
      <3>1. height <= C + (round + 1) * W
        BY <1>1, <2>1, <2>2 DEF OnTime, Counters
      <3>2. QED
        BY <1>1, <2>1, <3>1 DEF OnTime, Counters, setup
    <2>5. QED
      BY <2>3, <2>4 DEF DInv
  <1>5. CASE Disprove
    <2>1. /\ stage = "challenged" /\ stage' = "disproved" /\ since' = height
          /\ DisproveReady
          /\ round' = round /\ height' = height /\ missed' = missed /\ UNCHANGED setup
      BY <1>5 DEF Disprove, DisproveReady
    <2>2. Setting' /\ Counters'
      BY <1>1, <2>1 DEF Setting, Counters, setup
    <2>3. OnTime'
      <3> SUFFICES ASSUME ~statementValid, ~missed
                   PROVE  OnTime'
        BY <2>1 DEF OnTime, setup
      <3>1. height <= C + R * W
        <4>1. CASE round = R
          BY <1>1, <2>1, <4>1 DEF OnTime, Counters
        <4>2. CASE round < R
          <5>1. round * W + W <= R * W /\ round * W \in Nat /\ R * W \in Nat
            BY <1>1, <4>2, NextRoundFits DEF Counters
          <5>2. since <= C + round * W /\ height <= since + W
            BY <1>1, <2>1 DEF OnTime
          <5>3. height \in Nat /\ since \in Nat
            BY <1>1 DEF Counters
          <5> HIDE DEF C, W, R, M
          <5>4. QED
            BY <1>1, <5>1, <5>2, <5>3, WindowEndsInTime
        <4>3. round \in Nat /\ round <= R
          BY <1>1, <2>1 DEF OnTime, Counters
        <4> HIDE DEF C, W, R, M
        <4>4. round = R \/ round < R
          BY <1>1, <4>3
        <4>5. QED
          BY <4>1, <4>2, <4>4
      <3>2. QED
        BY <1>1, <2>1, <3>1 DEF OnTime, Counters, setup
    <2>4. QED
      BY <2>2, <2>3 DEF DInv
  <1>6. CASE Confirm
    BY <1>1, <1>6 DEF Confirm, DInv, Setting, Counters, OnTime, setup
  <1>7. CASE UNCHANGED <<setup, height, dispute, missed>>
    BY <1>1, <1>7 DEF DInv, Setting, Counters, OnTime, setup, dispute
  <1>8. QED
    BY <1>2, <1>3, <1>4, <1>5, <1>6, <1>7 DEF Next, Obtain, ComeOrGo, vars

THEOREM DisputeInvariant == Spec => []DInv
  <1>1. Init => DInv
    BY InitDInv
  <1>2. DInv /\ [Next]_vars => DInv'
    BY StepDInv
  <1>3. QED
    BY <1>1, <1>2, PTL DEF Spec

(* Whatever the policy, an invalid claim whose watchers met their          *)
(* deadlines is disproved before the chain passes the take height.         *)
THEOREM DisputesFinishInTime == Spec => []SlashedInTime
  <1>1. DInv => SlashedInTime
    <2> SUFFICES ASSUME DInv, ~statementValid, ~missed, height > timing.take
                 PROVE  Decision = IF online = {}
                                   THEN "OfflineWatcherAssumptionFailure"
                                   ELSE "OperatorSlashed"
      BY DEF SlashedInTime
    <2>1. timing.take >= timing.challenge + timing.rounds * timing.window + timing.margin
      BY ValidTimingCovers DEF DInv, Setting
    <2>2. /\ timing.challenge \in Nat /\ timing.window \in Nat
          /\ timing.rounds \in Nat /\ timing.margin \in Nat /\ timing.take \in Nat
          /\ height \in Nat /\ since \in Nat /\ round \in Nat
      BY TimingNat DEF DInv, Counters
    <2>3. height > timing.take
      OBVIOUS
    <2>4. stage # "open"
      <3>1. timing.rounds * timing.window \in Nat
        BY <2>2
      <3>2. QED
        BY <2>1, <2>2, <3>1 DEF DInv, OnTime
    <2>5. stage # "disproved"
      <3>1. timing.rounds * timing.window \in Nat
        BY <2>2
      <3>2. QED
        BY <2>1, <2>2, <3>1 DEF DInv, OnTime
    <2>6. stage # "challenged"
      <3> SUFFICES ASSUME stage = "challenged"
                   PROVE  FALSE
        OBVIOUS
      <3>1. /\ round <= timing.rounds
            /\ since <= timing.challenge + round * timing.window
            /\ height <= since + timing.window
            /\ round = timing.rounds => height = since
        BY DEF DInv, OnTime
      <3>2. CASE round = timing.rounds
        BY <2>1, <2>2, <3>1, <3>2
      <3>3. CASE round < timing.rounds
        <4>1. /\ round * timing.window + timing.window <= timing.rounds * timing.window
              /\ round * timing.window \in Nat /\ timing.rounds * timing.window \in Nat
          BY <2>2, <3>3, NextRoundFits
        <4>2. height <= timing.challenge + timing.rounds * timing.window
          BY <2>2, <3>1, <4>1, WindowEndsInTime
        <4>3. QED
          BY <2>1, <2>2, <2>3, <4>1, <4>2
      <3>4. round <= timing.rounds
        BY <3>1
      <3>5. round = timing.rounds \/ round < timing.rounds
        BY <2>2, <3>4
      <3>6. QED
        BY <3>2, <3>3, <3>5
    <2>7. stage = "confirmed"
      BY <2>4, <2>5, <2>6 DEF DInv, Counters
    <2>8. height >= timing.take
      BY <2>2, <2>3
    <2>9. /\ Evidence.statementValid = statementValid
          /\ Evidence.windowElapsed = (height >= timing.take)
          /\ Evidence.challenged = (~statementValid /\ stage # "open")
          /\ Evidence.disproveConfirmed = (stage = "confirmed")
          /\ Evidence.allOffline = (online = {})
      BY Zenon DEF Evidence
    <2>10. /\ Slash(Evidence)
           /\ OfflineFailure(Evidence) <=> online = {}
      BY <2>4, <2>7, <2>8, <2>9, Zenon DEF OfflineFailure, Slash
    <2>11. QED
      BY <2>10, Zenon DEF Decision, Decide
  <1>2. QED
    BY <1>1, DisputeInvariant, PTL

(* The posted bond is worth its parts, whatever the amounts. *)
THEOREM BondAlwaysCovers == Spec => []BondCovers
  <1>1. DInv => BondCovers
    <2> SUFFICES ASSUME DInv
                 PROVE  BondCovers
      OBVIOUS
    <2>1. posted = bond.vbytes * bond.feeRate + bond.value + bond.reward
      BY RequiredBondExact DEF DInv, Setting
    <2>2. /\ bond.value \in Nat /\ bond.reward \in Nat
          /\ bond.vbytes \in Nat /\ bond.feeRate \in Nat
      BY WidthAssumption DEF DInv, Setting, BondPolicy, U64
    <2>3. bond.vbytes * bond.feeRate \in Nat
      BY <2>2
    <2>4. QED
      BY <2>1, <2>2, <2>3 DEF BondCovers
  <1>2. QED
    BY <1>1, DisputeInvariant, PTL

-----------------------------------------------------------------------------
(* Decisions: what takes and slashes rest on is never taken back. *)

(* The statement and its timing stay, blocks and gates only accumulate,    *)
(* and a confirmed disprove stays confirmed.                               *)
LEMMA EvidenceAccumulates ==
  ASSUME DInv, [Next]_vars
  PROVE  /\ statementValid' = statementValid
         /\ height >= timing.take => height' >= timing'.take
         /\ stage = "confirmed" => stage' = "confirmed"
         /\ gates = TakeGates => gates' = TakeGates
  <1>1. height \in Nat /\ timing.take \in Nat
    BY TimingNat DEF DInv, Counters
  <1>2. CASE UNCHANGED vars
    BY <1>2 DEF vars, setup, dispute
  <1>3. CASE Mine
    BY <1>1, <1>3 DEF Mine, setup, dispute
  <1>4. CASE Challenge \/ Respond \/ Disprove \/ Confirm
    BY <1>4 DEF Challenge, Respond, Disprove, DisproveReady, Confirm, setup
  <1>5. CASE \E gate \in TakeGates : Obtain(gate)
    BY <1>5 DEF Obtain, setup, dispute
  <1>6. CASE \E watcher \in Watchers : ComeOrGo(watcher)
    BY <1>6 DEF ComeOrGo, setup, dispute
  <1>7. QED
    BY <1>2, <1>3, <1>4, <1>5, <1>6 DEF Next

(* A take: everything but an online watcher stays in hand. *)
LEMMA TakeStable ==
  ASSUME DInv, [Next]_vars, Decision = "OperatorTake", Decision' # Decision
  PROVE  online' = {} /\ Decision' = "FailClosed"
  <1>1. Take(Evidence) /\ ~OfflineFailure(Evidence) /\ ~Slash(Evidence)
    BY Zenon DEF Decision, Decide
  <1>2. statementValid /\ gates = TakeGates /\ height >= timing.take
    BY <1>1, Zenon DEF Take, Evidence
  <1>3. statementValid' /\ gates' = TakeGates /\ height' >= timing'.take
    BY <1>2, EvidenceAccumulates
  <1>4. ~OfflineFailure(Evidence)' /\ ~Slash(Evidence)'
    BY <1>3, Zenon DEF OfflineFailure, Slash, Evidence
  <1>5. online' # {} => Take(Evidence)'
    BY <1>3, Zenon DEF Take, Evidence
  <1>6. QED
    BY <1>4, <1>5, Zenon DEF Decision, Decide

(* A slash: the confirmed disprove stays, only the offline control is      *)
(* asked before it.                                                        *)
LEMMA SlashStable ==
  ASSUME DInv, [Next]_vars, Decision = "OperatorSlashed", Decision' # Decision
  PROVE  online' = {} /\ Decision' = "OfflineWatcherAssumptionFailure"
  <1>1. Slash(Evidence)
    BY Zenon DEF Decision, Decide
  <1>2. ~statementValid /\ stage = "confirmed"
    BY <1>1, Zenon DEF Slash, Evidence
  <1>3. ~statementValid' /\ stage' = "confirmed"
    BY <1>2, EvidenceAccumulates
  <1>4. Slash(Evidence)'
    BY <1>3, Zenon DEF Slash, Evidence
  <1>5. OfflineFailure(Evidence)' => online' = {}
    BY Zenon DEF OfflineFailure, Evidence
  <1>6. QED
    BY <1>4, <1>5, Zenon DEF Decision, Decide

(* For every policy that validates, a decided take or slash gives way only *)
(* while all watchers are offline, and never to the other.                 *)
THEOREM DecisionsFinal == Spec => DecisionsStable
  <1>1. DInv /\ [Next]_vars =>
          [(/\ Decision \in {"OperatorTake", "OperatorSlashed"}
            /\ Decision' # Decision)
           => (/\ online' = {}
               /\ Decision' \notin {"OperatorTake", "OperatorSlashed"})]_vars
    BY TakeStable, SlashStable
  <1>2. QED
    BY <1>1, DisputeInvariant, PTL DEF Spec, DecisionsStable

=============================================================================
