----------------------------- MODULE HelperOps -----------------------------
(***************************************************************************)
(* The requests of the helper protocol, on both sides of the pipe: the     *)
(* methods of helperclient.Client, each with the fields it fills in, and   *)
(* the cases of the daemon's run, each with the bridge function it calls,  *)
(* the fields it refuses to be without and the argument each field        *)
(* becomes.  Base64 and JSON are not modelled: a field is there or empty.  *)
(***************************************************************************)
EXTENDS Naturals

(***************************************************************************)
(* The daemon (cmd/openfhe-contract-helper).  decodeB64 refuses an empty   *)
(* field; decodeB64Slice lets an empty list pass.                          *)
(***************************************************************************)
NoFields == [f \in {} |-> "none"]
Op(fn, fields)             == [fn |-> fn, required |-> DOMAIN fields, arg |-> fields]
Lists(op, fields)          == [op EXCEPT !.arg = [f \in DOMAIN op.arg \cup DOMAIN fields |->
                                 IF f \in DOMAIN fields THEN fields[f] ELSE op.arg[f]]]
Required(op, fields)       == [op EXCEPT !.required = @ \cup fields]

keygen_next_fields == [prev_public_key |-> "prevPublicKey"]
keygen_first     == Op("DistributedKeyGenFirst", NoFields)
keygen_next      == Op("DistributedKeyGenNext", keygen_next_fields)
bfv_keygen_first == Op("BFVDistributedKeyGenFirst", NoFields)
bfv_keygen_next  == Op("BFVDistributedKeyGenNext", keygen_next_fields)

encrypt_profile ==
  Lists(Op("EncryptCKKSForContract", [joint_public_key |-> "jointPublicKey"]), [values |-> "values"])
bfv_encrypt_int_vector ==
  Lists(Op("EncryptBFVForContract", [joint_public_key |-> "jointPublicKey"]), [int_values |-> "values"])

secret == [secret_key_share |-> "secretKeyShare"]
evalkey_round1_lead     == Op("EvalKeyRound1Lead", secret)
bfv_evalkey_round1_lead == Op("BFVEvalKeyRound1Lead", secret)

round1 == [secret_key_share |-> "secretKeyShare", eval_mult_base |-> "evalMultBase",
           eval_sum_base |-> "evalSumBase", own_public_key |-> "ownPublicKey"]
evalkey_round1_participant     == Op("EvalKeyRound1Participant", round1)
bfv_evalkey_round1_participant == Op("BFVEvalKeyRound1Participant", round1)

round2 == [secret_key_share |-> "secretKeyShare", eval_mult_joined |-> "evalMultJoined",
           final_public_key |-> "finalPublicKey"]
evalkey_round2_participant     == Op("EvalKeyRound2Participant", round2)
bfv_evalkey_round2_participant == Op("BFVEvalKeyRound2Participant", round2)

partial == [ciphertext |-> "ciphertext", secret_key_share |-> "secretKeyShare"]
partial_decrypt     == Op("PartialDecryptCKKSForContract", partial)
bfv_partial_decrypt == Op("PartialDecryptBFVForContract", partial)

round1_shares == [public_keys |-> "publicKeys", eval_mult_round1_shares |-> "evalMultShares",
                  eval_sum_round1_shares |-> "evalSumShares"]
combine_evalkey_round1     == Lists(Op("CombineEvalKeyRound1", NoFields), round1_shares)
bfv_combine_evalkey_round1 == Lists(Op("BFVCombineEvalKeyRound1", NoFields), round1_shares)

round2_keys   == [final_public_key |-> "finalPublicKey", eval_sum_final_key |-> "evalSumFinal"]
round2_shares == [eval_mult_final_shares |-> "evalMultFinalShares"]
combine_evalkey_round2     == Lists(Op("CombineEvalKeyRound2", round2_keys), round2_shares)
bfv_combine_evalkey_round2 == Lists(Op("BFVCombineEvalKeyRound2", round2_keys), round2_shares)

split_rot_share       == Op("SplitRotShareAB", [eval_sum_share |-> "fullShare"])
reconstruct_rot_share == Op("ReconstructRotShareAB", [eval_sum_share_a |-> "a", eval_sum_share_b |-> "b"])

partials == [partials |-> "partials", n_slots |-> "nSlots"]
fuse_partials         == Lists(Op("FuseCKKSPartialsForContract", NoFields), partials)
bfv_fuse_partials_int == Lists(Op("FuseBFVPartialsForContract", NoFields), partials)

bfv_eval_product_sum ==
  Lists(Op("EvalProductSumBFVForContract",
           [eval_keys |-> "evalMultFinal", eval_sum_final_key |-> "evalSumFinal",
            ciphertext_a |-> "leftCiphertext", ciphertext_b |-> "rightCiphertext"]),
        [n_slots |-> "nSlots"])

eval_poly ==
  Required(Lists(Op("EvalPolyCKKSForContract", [eval_keys |-> "evalMultKey", ciphertext |-> "ciphertext"]),
                 [coefficients |-> "coefficients"]), {"coefficients"})

runEvalBinary(fn) == Op(fn, [ciphertext_a |-> "ctA", ciphertext_b |-> "ctB"])
eval_add  == runEvalBinary("EvalAddCKKSForContract")
eval_sub  == runEvalBinary("EvalSubCKKSForContract")
eval_mult == Op("EvalMultCKKSForContract",
                [ciphertext_a |-> "ctA", ciphertext_b |-> "ctB", eval_keys |-> "evalMultKey"])
eval_const_mult == Op("EvalConstMultCKKSForContract", [ciphertext |-> "ct"])
argmax ==
  Required(Lists(Op("EvalArgmaxCKKSForContract", [eval_keys |-> "evalMultKey"]),
                 [ciphertexts |-> "ciphertexts", coefficients |-> "sharpCoeffs"]),
           {"ciphertexts", "coefficients"})

run ==
  [version |-> Op("none", NoFields),
   keygen_first |-> keygen_first, keygen_next |-> keygen_next,
   bfv_keygen_first |-> bfv_keygen_first, bfv_keygen_next |-> bfv_keygen_next,
   encrypt_profile |-> encrypt_profile, bfv_encrypt_int_vector |-> bfv_encrypt_int_vector,
   evalkey_round1_lead |-> evalkey_round1_lead, bfv_evalkey_round1_lead |-> bfv_evalkey_round1_lead,
   evalkey_round1_participant |-> evalkey_round1_participant,
   bfv_evalkey_round1_participant |-> bfv_evalkey_round1_participant,
   evalkey_round2_participant |-> evalkey_round2_participant,
   bfv_evalkey_round2_participant |-> bfv_evalkey_round2_participant,
   partial_decrypt |-> partial_decrypt, bfv_partial_decrypt |-> bfv_partial_decrypt,
   combine_evalkey_round1 |-> combine_evalkey_round1,
   bfv_combine_evalkey_round1 |-> bfv_combine_evalkey_round1,
   combine_evalkey_round2 |-> combine_evalkey_round2,
   bfv_combine_evalkey_round2 |-> bfv_combine_evalkey_round2,
   split_rot_share |-> split_rot_share, reconstruct_rot_share |-> reconstruct_rot_share,
   fuse_partials |-> fuse_partials, bfv_fuse_partials_int |-> bfv_fuse_partials_int,
   bfv_eval_product_sum |-> bfv_eval_product_sum, eval_poly |-> eval_poly,
   eval_add |-> eval_add, eval_sub |-> eval_sub, eval_mult |-> eval_mult,
   eval_const_mult |-> eval_const_mult, argmax |-> argmax]
=============================================================================
