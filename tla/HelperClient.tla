---------------------------- MODULE HelperClient ----------------------------
(***************************************************************************)
(* The methods of helperclient.Client.  A method fills in the fields of    *)
(* one request and decodes one response; KeygenChain and BFVKeygenChain    *)
(* are many requests, each made from the answers to earlier ones.          *)
(***************************************************************************)
EXTENDS Naturals, Sequences, FiniteSets

Method(op, fields) == [op |-> op, fields |-> fields]

KeygenFirst    == Method("keygen_first", {})
BFVKeygenFirst == Method("bfv_keygen_first", {})
KeygenNext     == Method("keygen_next", {"prev_public_key"})
BFVKeygenNext  == Method("bfv_keygen_next", {"prev_public_key"})

EncryptProfile      == Method("encrypt_profile", {"joint_public_key", "values"})
BFVEncryptIntVector == Method("bfv_encrypt_int_vector", {"joint_public_key", "int_values"})

EvalKeyRound1Lead    == Method("evalkey_round1_lead", {"secret_key_share"})
BFVEvalKeyRound1Lead == Method("bfv_evalkey_round1_lead", {"secret_key_share"})
EvalKeyRound1Participant ==
  Method("evalkey_round1_participant",
         {"secret_key_share", "eval_mult_base", "eval_sum_base", "own_public_key"})
BFVEvalKeyRound1Participant ==
  Method("bfv_evalkey_round1_participant",
         {"secret_key_share", "eval_mult_base", "eval_sum_base", "own_public_key"})
EvalKeyRound2Participant ==
  Method("evalkey_round2_participant", {"secret_key_share", "eval_mult_joined", "final_public_key"})
BFVEvalKeyRound2Participant ==
  Method("bfv_evalkey_round2_participant", {"secret_key_share", "eval_mult_joined", "final_public_key"})
CombineEvalKeyRound1 ==
  Method("combine_evalkey_round1", {"public_keys", "eval_mult_round1_shares", "eval_sum_round1_shares"})
BFVCombineEvalKeyRound1 ==
  Method("bfv_combine_evalkey_round1", {"public_keys", "eval_mult_round1_shares", "eval_sum_round1_shares"})
CombineEvalKeyRound2 ==
  Method("combine_evalkey_round2", {"final_public_key", "eval_mult_final_shares", "eval_sum_final_key"})
BFVCombineEvalKeyRound2NoSum ==
  Method("bfv_combine_evalkey_round2", {"final_public_key", "eval_mult_final_shares"})
BFVCombineEvalKeyRound2 ==
  Method("bfv_combine_evalkey_round2", {"final_public_key", "eval_mult_final_shares", "eval_sum_final_key"})

PartialDecrypt    == Method("partial_decrypt", {"ciphertext", "secret_key_share"})
BFVPartialDecrypt == Method("bfv_partial_decrypt", {"ciphertext", "secret_key_share"})
FusePartials      == Method("fuse_partials", {"partials", "n_slots"})
BFVFusePartials   == Method("bfv_fuse_partials_int", {"partials", "n_slots"})

EvalAdd       == Method("eval_add", {"eval_keys", "ciphertext_a", "ciphertext_b"})
EvalSub       == Method("eval_sub", {"eval_keys", "ciphertext_a", "ciphertext_b"})
EvalMult      == Method("eval_mult", {"eval_keys", "ciphertext_a", "ciphertext_b"})
EvalConstMult == Method("eval_const_mult", {"ciphertext"})
EvalPoly      == Method("eval_poly", {"eval_keys", "ciphertext", "coefficients"})
Argmax        == Method("argmax", {"eval_keys", "ciphertexts", "coefficients"})
BFVEvalProductSum ==
  Method("bfv_eval_product_sum",
         {"eval_keys", "eval_sum_final_key", "ciphertext_a", "ciphertext_b", "n_slots"})
Version == Method("version", {})

Methods ==
  {KeygenFirst, BFVKeygenFirst, KeygenNext, BFVKeygenNext, EncryptProfile, BFVEncryptIntVector,
   EvalKeyRound1Lead, BFVEvalKeyRound1Lead, EvalKeyRound1Participant, BFVEvalKeyRound1Participant,
   EvalKeyRound2Participant, BFVEvalKeyRound2Participant, CombineEvalKeyRound1,
   BFVCombineEvalKeyRound1, CombineEvalKeyRound2, BFVCombineEvalKeyRound2, PartialDecrypt,
   BFVPartialDecrypt, FusePartials, BFVFusePartials, EvalAdd, EvalSub, EvalMult, EvalConstMult,
   EvalPoly, Argmax, BFVEvalProductSum, Version}

(***************************************************************************)
(* The key ceremony of n slots, slot 1 being the lead.  A link is a method *)
(* and the slot it is made for.  got is the answers so far, one for each   *)
(* link made: links 1..n are the key shares, n + 1 the lead's round-one    *)
(* base, n + 2..2n the participants' shares, 2n + 1 the joined key,        *)
(* 2n + 2..3n + 1 the final shares and 3n + 2 the evaluation key.  The     *)
(* answer of the helper names the secrets that went into it.               *)
(***************************************************************************)
Link(m, slot) == [method |-> m, slot |-> slot]
Slots(m, from, n) == [i \in 1..(n - from + 1) |-> Link(m, from + i - 1)]
Chain(first, next, lead, part, comb1, second, comb2, n) ==
  << Link(first, 1) >> \o Slots(next, 2, n) \o << Link(lead, 1) >> \o Slots(part, 2, n)
  \o << Link(comb1, 1) >> \o Slots(second, 1, n) \o << Link(comb2, 1) >>

KeygenChain(n) ==
  Chain(KeygenFirst, KeygenNext, EvalKeyRound1Lead, EvalKeyRound1Participant,
        CombineEvalKeyRound1, EvalKeyRound2Participant, CombineEvalKeyRound2, n)
BFVKeygenChain(n) ==
  Chain(BFVKeygenFirst, BFVKeygenNext, BFVEvalKeyRound1Lead, BFVEvalKeyRound1Participant,
        BFVCombineEvalKeyRound1, BFVEvalKeyRound2Participant, BFVCombineEvalKeyRound2, n)

(* decodeKeyShare *)
KeyShare(pk, sk) == [pk |-> pk, sk |-> sk]

AnswerFromLead(got, n) ==
  LET k      == Len(got) + 1
      secretOf(slot) == got[slot].sk
      final  == got[n].pk
      joined == got[2*n + 1]
  IN  CASE k = 1         -> KeyShare({1}, 1)
        [] k \in 2..n    -> KeyShare(got[1].pk \cup {k}, k)
        [] k = n + 1     -> {secretOf(1)}
        [] k \in (n + 2)..(2*n) -> {secretOf(k - n)} \cup got[n + 1]
        [] k = 2*n + 1   -> UNION {got[i] : i \in (n + 1)..(2*n)}
        [] k \in (2*n + 2)..(3*n + 1) ->
             [sk |-> secretOf(k - 2*n - 1), joined |-> joined, pk |-> final, lead |-> k = 2*n + 2]
        [] k = 3*n + 2   -> {got[i] : i \in (2*n + 2)..(3*n + 1)}

(* What the link that follows got asks of the helper, and the answer. *)
Answer(got, n) ==
  LET k      == Len(got) + 1
      secretOf(slot) == got[slot].sk
      final  == got[n].pk
      joined == got[2*n + 1]
  IN  CASE k = 1         -> KeyShare({1}, 1)
        [] k \in 2..n    -> KeyShare(got[k - 1].pk \cup {k}, k)
        [] k = n + 1     -> {secretOf(1)}
        [] k \in (n + 2)..(2*n) -> {secretOf(k - n)} \cup got[n + 1]
        [] k = 2*n + 1   -> UNION {got[i] : i \in (n + 1)..(2*n)}
        [] k \in (2*n + 2)..(3*n + 1) ->
             [sk |-> secretOf(k - 2*n - 1), joined |-> joined, pk |-> final, lead |-> k = 2*n + 2]
        [] k = 3*n + 2   -> {got[i] : i \in (2*n + 2)..(3*n + 1)}

(* The bundle a finished chain returns: the last public key, the key that  *)
(* round two made of the shares, the sum key of round one.                 *)
EvalKeyBundle(got, n) == [publicKey |-> got[n].pk, evalKeys |-> got[3*n + 2], evalSum |-> got[2*n + 1]]
=============================================================================
