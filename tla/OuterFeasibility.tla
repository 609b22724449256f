-------------------------- MODULE OuterFeasibility --------------------------
(***************************************************************************)
(* An experiment with a BitVMX verifier: the observations of the           *)
(* measurement that assess judges (src/bitvmx_outer_feasibility.rs) are    *)
(* Options that arrive one by one, in any order, from outside this code.   *)
(***************************************************************************)
EXTENDS OuterGates

CONSTANTS
  Keys, SetupKeys,        \* watchers' keys; those committed during setup
  Verifiers,              \* [inputs, bindings] of the verifiers measured
  StepCounts, MemorySizes \* what an experiment can measure

ASSUME CountsAssumption == StepCounts \subseteq Nat /\ MemorySizes \subseteq Nat

VARIABLE measurement      \* FeasibilityMeasurement

outerVars == <<measurement>>

(* What each observation can turn out to be. *)
Observable ==
  [executed_steps |-> StepCounts,
   peak_memory_bytes |-> MemorySizes,
   unsupported_syscalls |-> {0, 1},
   reachable_panic_paths |-> {0, 1},
   all_dispute_transactions_standard |-> BOOLEAN,
   challenger_key_fingerprint |-> Keys,
   challenge_requires_setup_authorization |-> BOOLEAN,
   fresh_watcher_challenge_exercised |-> BOOLEAN]

-----------------------------------------------------------------------------
(* The experiment: a verifier is measured, one observation at a time. *)

OuterInit ==
  \E target \in Targets, v \in Verifiers :
    measurement = [target |-> target, inputs |-> v.inputs,
                   bindings |-> v.bindings, setupKeys |-> SetupKeys,
                   observed |-> [name \in Observations |-> Missing]]

Observe(name, value) ==
  /\ measurement.observed[name] = Missing
  /\ measurement' = [measurement EXCEPT !.observed[name] = {value}]

OuterNext ==
  \E name \in Observations : \E value \in Observable[name] : Observe(name, value)

OuterSpec == OuterInit /\ [][OuterNext]_outerVars

-----------------------------------------------------------------------------
(* Properties *)

(* A candidate verdict is final: no observation still to come can turn it  *)
(* into a rejection.  This is what failing closed on every absent          *)
(* observation buys (every_missing_resource_observation_fails_closed).     *)
CandidateFinal == [][IsCandidate(measurement) => IsCandidate(measurement')]_outerVars

(* What was once measured to fail stays reported: a report names every     *)
(* independent failure (independent_failures_accumulate_in_one_report),    *)
(* so an observation adds to the measured failures and removes none.       *)
FailuresPersist ==
  [][Failures(measurement) \ MissingObservations(measurement)
       \subseteq Failures(measurement')]_outerVars
=============================================================================
