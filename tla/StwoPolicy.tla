----------------------------- MODULE StwoPolicy -----------------------------
(***************************************************************************)
(* src/stwo_policy.rs: the parameters an STWO proof must have been made    *)
(* with, their canonical bytes and the digest that a statement pins.  No   *)
(* code outside the tests of the crate calls enforce.                      *)
(* SHA-256 is injective.                                                   *)
(***************************************************************************)
EXTENDS Integers, Sequences

U8Max == 255
U8 == 0..U8Max

(* The None of lifting_log_size. *)
NoLifting == -1

StwoPolicyV1 ==
  [pow_bits : U8, interaction_pow_bits : U8, log_blowup_factor : U8,
   n_queries : U8, log_last_layer_degree_bound : U8, fold_step : U8,
   lifting_log_size : U8 \cup {NoLifting},
   channel : {"blake2s", "poseidon252"},
   preprocessed_variant : {"canonical", "legacy"}]

Required ==
  [pow_bits |-> 26, interaction_pow_bits |-> 24, log_blowup_factor |-> 1,
   n_queries |-> 70, log_last_layer_degree_bound |-> 0, fold_step |-> 1,
   lifting_log_size |-> NoLifting, channel |-> "blake2s",
   preprocessed_variant |-> "canonical"]

UnwrapOr(option, default) == IF option = NoLifting THEN default ELSE option

CanonicalBytes(p) ==
  <<1, p.pow_bits, p.interaction_pow_bits, p.log_blowup_factor, p.n_queries,
    p.log_last_layer_degree_bound, p.fold_step,
    UnwrapOr(p.lifting_log_size, U8Max),
    IF p.channel = "blake2s" THEN 1 ELSE 2,
    IF p.preprocessed_variant = "canonical" THEN 1 ELSE 2,
    0>>

Digest(p) == [tag |-> "StwoPolicyV1", message |-> CanonicalBytes(p)]

(* StwoPolicyV1::enforce accepts: the whole record is compared. *)
Enforce(p) == p = Required
=============================================================================
