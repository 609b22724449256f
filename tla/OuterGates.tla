----------------------------- MODULE OuterGates -----------------------------
(***************************************************************************)
(* src/bitvmx_outer_feasibility.rs: the gates a BitVMX verifier of the     *)
(* outer proof has to pass.  assess is a pure function of a measurement.   *)
(*                                                                         *)
(* Abstractions: a dynamic input is its kind and the length of its bytes;  *)
(* a count is zero or not; the limits are CONSTANTS, of which only the     *)
(* order matters.                                                          *)
(***************************************************************************)
EXTENDS Integers, Sequences

CONSTANTS
  ProofLen,               \* BOUNDLESS_GROTH16_PROOF_BYTES
  Selector,               \* BLAKE3_GROTH16_SELECTOR
  Zero,                   \* 32 zero bytes: a pin that was not filled in
  SignetSteps, SignetMemory, RegtestSteps, RegtestMemory

ASSUME LimitsAssumption ==
  {ProofLen, SignetSteps, SignetMemory, RegtestSteps, RegtestMemory} \subseteq Nat

-----------------------------------------------------------------------------
Targets == {"regtest", "signet"}

StepLimit(target) == IF target = "regtest" THEN RegtestSteps ELSE SignetSteps

MemoryLimit(target) == IF target = "regtest" THEN RegtestMemory ELSE SignetMemory

(* An Option is the set of its value, or of nothing. *)
Missing == {}

Observations ==
  {"executed_steps", "peak_memory_bytes", "unsupported_syscalls",
   "reachable_panic_paths", "all_dispute_transactions_standard",
   "challenger_key_fingerprint", "challenge_requires_setup_authorization",
   "fresh_watcher_challenge_exercised"}

-----------------------------------------------------------------------------
(* The failures of assess, one set per part of the measurement *)

InputFailures(inputs) ==
  {f \in {"input_count"} : Len(inputs) # 1}
    \cup {f \in {"input_kind"} :
            \E i \in DOMAIN inputs : inputs[i].kind # "proof"}
    \cup {f \in {"proof_size"} :
            \E i \in DOMAIN inputs : /\ inputs[i].kind = "proof"
                                     /\ inputs[i].len # ProofLen}

BindingFailures(b) ==
  {f \in {"selector"} : b.selector # Selector}
    \cup {f \in {"risc0_image_id", "verifying_key_digest",
                 "expected_public_scalar"} : b[f] = Zero}

(* An observation that was made passes its gate. *)
Passes(m, name, value) ==
  /\ name = "executed_steps" => value <= StepLimit(m.target)
  /\ name = "peak_memory_bytes" => value <= MemoryLimit(m.target)
  /\ name \in {"unsupported_syscalls", "reachable_panic_paths"} => value = 0
  /\ name = "challenger_key_fingerprint" => value \notin m.setupKeys
  /\ name = "challenge_requires_setup_authorization" => value = FALSE
  /\ name \in {"all_dispute_transactions_standard",
               "fresh_watcher_challenge_exercised"} => value = TRUE

HardFailures(m) ==
  InputFailures(m.inputs) \cup BindingFailures(m.bindings)
    \cup {name \in Observations :
            \E value \in m.observed[name] : ~Passes(m, name, value)}

MissingObservations(m) == {name \in Observations : m.observed[name] = Missing}

(* Mutant of Failures: what was not observed passes its gate. *)
FailuresOfObserved(m) == HardFailures(m)

(* Mutant of Failures: assess returns at one failure, a measured one if    *)
(* there is any.                                                           *)
FailuresOneOnly(m) ==
  IF HardFailures(m) # {} THEN {CHOOSE f \in HardFailures(m) : TRUE}
  ELSE MissingObservations(m)

Failures(m) == HardFailures(m) \cup MissingObservations(m)

IsCandidate(m) == Failures(m) = {}
=============================================================================
