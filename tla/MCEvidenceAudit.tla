--------------------------- MODULE MCEvidenceAudit ---------------------------
(***************************************************************************)
(* One registered claim, two gates, two nonces and two attestations, so    *)
(* that evidence differs in the policy, in the nonce or in both; artifacts *)
(* that verify or do not; and policies that others composed.               *)
(***************************************************************************)
EXTENDS EvidenceAudit, TLC

CONSTANTS n1, n2

MCHonestProof == "generic" :> "proof of generic"

MCPinnedClaim == "honest_true" :> "generic"

OtherPins == "honest_true" :> "unregistered"

MCMaterial(claim, proof) ==
  [claim |-> claim, proof |-> proof, check |-> "csv mature"]

MCMaterials ==
  {MCMaterial("generic", "proof of generic"), MCMaterial("unregistered", "invalid")}

(* A policy with its own state signer that keeps the verifier, one that    *)
(* has a verifier and a pin of its own as well, and one that names the     *)
(* keys of gate 1 under other terms and another pin.                       *)
RoguePolicy ==
  [PolicyCore(1) EXCEPT !.challenger = ForeignKey, !.stateSigner = ForeignKey]

MCForeignCores ==
  {RoguePolicy,
   [RoguePolicy EXCEPT !.factProvider = ForeignVerifier, !.claimInputs = OtherPins],
   [PolicyCore(1) EXCEPT !.terms = "altered", !.claimInputs = OtherPins]}

NonceSymmetry == Permutations(Nonces)
=============================================================================
