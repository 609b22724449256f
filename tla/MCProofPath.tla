---------------------------- MODULE MCProofPath ----------------------------
(***************************************************************************)
(* The bytes of MCClaimManifest; the second statement's claim digest is    *)
(* the modulus itself and cannot be published.                             *)
(***************************************************************************)
EXTENDS ProofPath, TLC

MCSelector == <<2>>
MCZero == <<0, 0>>
MCModulus == <<1, 2>>

J1 == <<1, 1>>
J2 == <<2, 2>>
MCJournals == {J1, J2}
MCClaimDigest == J1 :> <<1, 1>> @@ J2 :> MCModulus

MCRawProofs == {<<2, 0>>}
MCNames == {}

MCRepository == <<"https://github.com/", "o", "/", "r">>
MCRepositories == {<<"https://gitlab.com/", "o", "/", "r">>}
=============================================================================
