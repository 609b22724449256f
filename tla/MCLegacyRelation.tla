-------------------------- MODULE MCLegacyRelation --------------------------
(***************************************************************************)
(* The sample claim of the Cairo tests, scaled: limbs up to 47, a prime of *)
(* 101, every path depth and side, and amounts and delays on both sides of *)
(* the room the probes need.                                               *)
(***************************************************************************)
EXTENDS LegacyRelation

MCSample ==
  [field \in Fields |->
     CASE field = "selected_leaf_role" -> 4
       [] field \in {"manifest_id_lo", "taproot_root_lo"} -> 3
       [] field \in {"selected_leaf_hash_lo", "settlement_hash_lo"} -> 5
       [] field = "taproot_path_commitment_lo" -> 6
       [] field = "amount_sats" -> 10
       [] field = "exit_delay" -> 40
       [] OTHER -> 0]

MCChoices ==
  [field \in {"selected_leaf_role", "selected_leaf_hash_hi",
              "taproot_path_depth", "path_sibling_0_hi",
              "path_sibling_0_is_left", "path_sibling_1_lo",
              "path_sibling_1_is_left", "settlement_hash_lo",
              "amount_sats", "exit_delay"} |->
     CASE field = "selected_leaf_role" -> {2, 4}
       [] field = "taproot_path_depth" -> 0..3
       [] field = "settlement_hash_lo" -> {5, 31}
       [] field = "amount_sats" -> {10, 47}
       [] field = "exit_delay" -> {31, 40}
       [] field \in {"path_sibling_0_is_left", "path_sibling_1_is_left"} -> {0, 1}
       [] OTHER -> {0, 9}]
=============================================================================
