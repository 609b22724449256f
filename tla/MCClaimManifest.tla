-------------------------- MODULE MCClaimManifest --------------------------
(***************************************************************************)
(* Ternary bytes, two-byte digests and a modulus of 5, so that four of the *)
(* nine digests alias another; one claim digest is the largest scalar.     *)
(***************************************************************************)
EXTENDS ClaimManifest, TLC

MCSelector == <<2>>
MCZero == <<0, 0>>
MCModulus == <<1, 2>>

J1 == <<1, 1>>
J2 == <<2, 2>>
MCJournals == {J1, J2}
MCClaimDigest == J1 :> <<1, 1>> @@ J2 :> <<0, 1>>

MCRawProofs == {<<0, 1>>, <<2, 0>>}

MCNames == {<<"a">>, <<"a", "/", "a">>, <<"a", "%">>, <<".", ".">>, << >>}

MCRepository == <<"https://github.com/", "o", "/", "r">>

MCRepositories ==
  {MCRepository,
   <<"https://github.com/", "o", "/", "r", ".git">>,
   <<"https://github.com/", "o", "/", "..">>,
   <<"https://github.com/", "o", "/", "r", "/", "r">>,
   <<"https://github.com/", "o">>,
   <<"https://gitlab.com/", "o", "/", "r">>}
=============================================================================
