------------------------- MODULE MCOuterFeasibility -------------------------
(***************************************************************************)
(* The verifier the gates are meant for, and verifiers that are off in one *)
(* part; measurements at, between and above the two profiles' limits.      *)
(***************************************************************************)
EXTENDS OuterFeasibility

MCInput(kind, len) == [kind |-> kind, len |-> len]

MCBinding ==
  [selector |-> Selector, risc0_image_id |-> 1, verifying_key_digest |-> 2,
   expected_public_scalar |-> 3]

MCInputs == <<MCInput("proof", ProofLen)>>

MCVerifier(inputs, binding) == [inputs |-> inputs, bindings |-> binding]

MCVerifiers ==
  {MCVerifier(inputs, MCBinding) :
     inputs \in {MCInputs, << >>, <<MCInput("proof", ProofLen - 1)>>,
                 MCInputs \o <<MCInput("verifying_key", 2)>>}}
    \cup {MCVerifier(MCInputs, binding) :
            binding \in {[MCBinding EXCEPT !.selector = 0],
                         [MCBinding EXCEPT !.expected_public_scalar = Zero]}}
=============================================================================
