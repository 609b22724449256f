----------------------------- MODULE Enforcement -----------------------------
(***************************************************************************)
(* src/enforcement.rs: the timing and bond policies and the decision about *)
(* an operator's bond.  Pure functions over u32 block counts and u64 sats. *)
(***************************************************************************)
EXTENDS Integers

CONSTANTS U32Max, U64Max

ASSUME WidthAssumption == U32Max \in Nat /\ U64Max \in Nat

U32 == 0..U32Max
U64 == 0..U64Max

(* The None of a checked operation; it is absorbed by the next one. *)
None == -1

CheckedMul(x, y, max) ==
  IF x # None /\ y # None /\ x * y <= max THEN x * y ELSE None

CheckedAdd(x, y, max) ==
  IF x # None /\ y # None /\ x + y <= max THEN x + y ELSE None

-----------------------------------------------------------------------------
TimingPolicy ==
  [challenge : U32, window : U32, rounds : U32, margin : U32,
   take : U32, recovery : U32]

Regtest ==
  [challenge |-> 6, window |-> 2, rounds |-> 4, margin |-> 2,
   take |-> 16, recovery |-> 24]

Signet ==
  [challenge |-> 144, window |-> 24, rounds |-> 4, margin |-> 12,
   take |-> 252, recovery |-> 432]

(* Blocks a dispute can take from the claim to a confirmed disprove. *)
DisputeBlocks(t) ==
  CheckedAdd(CheckedAdd(t.challenge, CheckedMul(t.window, t.rounds, U32Max),
                        U32Max),
             t.margin, U32Max)

(* Mutant of ValidateTiming: the reorg margin is forgotten. *)
ValidateWithoutMargin(t) ==
  /\ t.take >= t.challenge + t.window * t.rounds
  /\ t.recovery > t.take

ValidateTiming(t) ==
  /\ DisputeBlocks(t) # None
  /\ t.take >= DisputeBlocks(t)
  /\ t.recovery > t.take

-----------------------------------------------------------------------------
BondPolicy == [value : U64, reward : U64, vbytes : U64, feeRate : U64]

(* Mutant of RequiredBond: the arithmetic wraps instead of failing. *)
RequiredBondWrapping(b) ==
  (b.vbytes * b.feeRate + b.value + b.reward) % (U64Max + 1)

RequiredBond(b) ==
  CheckedAdd(CheckedAdd(CheckedMul(b.vbytes, b.feeRate, U64Max),
                        b.value, U64Max),
             b.reward, U64Max)

-----------------------------------------------------------------------------
(* The evidence about proof, relay and watcher gates, by field name. *)
TakeGates ==
  {"real_boundless_receipt_verified", "bitvm_verifier_trace_verified",
   "all_transactions_core_accepted", "all_transactions_standard",
   "fresh_permissionless_watcher_exercised"}

(* An evidence record has the gates in hand as a set and a field for each  *)
(* other flag of EnforcementEvidence.                                      *)
OfflineFailure(e) == ~e.statementValid /\ e.allOffline /\ e.windowElapsed

Slash(e) == ~e.statementValid /\ e.challenged /\ e.disproveConfirmed

Take(e) ==
  /\ e.statementValid
  /\ e.gates = TakeGates
  /\ e.windowElapsed
  /\ ~e.allOffline

(* Mutant of Decide: the window test is the wrong way round. *)
DecideBeforeWindow(e) ==
  IF OfflineFailure(e) THEN "OfflineWatcherAssumptionFailure"
  ELSE IF Slash(e) /\ ~e.windowElapsed THEN "OperatorSlashed"
  ELSE IF e.statementValid /\ e.gates = TakeGates /\ ~e.windowElapsed
  THEN "OperatorTake" ELSE "FailClosed"

(* The offline control comes before the slash. *)
Decide(e) ==
  IF OfflineFailure(e) THEN "OfflineWatcherAssumptionFailure"
  ELSE IF Slash(e) THEN "OperatorSlashed"
  ELSE IF Take(e) THEN "OperatorTake"
  ELSE "FailClosed"

=============================================================================
