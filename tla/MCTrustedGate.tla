---------------------------- MODULE MCTrustedGate ----------------------------
(***************************************************************************)
(* Two gates (a restart, or two cosigners side by side), two nonces and    *)
(* artifacts that are honest, false in one part, or honest for the other   *)
(* claim, and a rogue policy besides the gates' own.  MCTrustedGate.cfg    *)
(* takes two case labels and two attestations, MCGateChecks.cfg all labels *)
(* with an unknown one and one attestation.                                *)
(***************************************************************************)
EXTENDS TrustedGate, TLC

CONSTANTS n1, n2

MCHonestProof == "generic" :> "proof of generic" @@ "bark" :> "proof of bark"

MCPinnedClaim == "honest_true" :> "generic" @@ "bark_true" :> "bark"

AllPinnedClaims ==
  "honest_true" :> "generic" @@ "false_stwo" :> "generic" @@ "bark_true" :> "bark"

MCMaterial(claim, proof, check) ==
  [claim |-> claim, proof |-> proof, check |-> check]

MCMaterials ==
  {MCMaterial("generic", "proof of generic", "csv mature"),
   MCMaterial("generic", "proof of bark", "csv mature"),
   MCMaterial("bark", "proof of bark", "csv mature"),
   MCMaterial("bark", "proof of bark", "csv immature"),
   MCMaterial("unregistered", "proof of generic", "csv mature")}

(* A rogue policy: gate 1's with another challenger and state signer.      *)
MCForeignCores ==
  {[PolicyCore(1) EXCEPT !.challenger = ForeignKey, !.stateSigner = ForeignKey]}

NonceSymmetry == Permutations(Nonces)
=============================================================================
