----------------------------- MODULE BridgeEval -----------------------------
(***************************************************************************)
(* Encryption, evaluation, decryption, fusion and the single-key auction   *)
(* of the cgo bridge (bridge.go).  One definition per Go function, named   *)
(* after it.  needMult and needSum mark the native calls that look up the  *)
(* evaluation keys inserted before.                                        *)
(***************************************************************************)
EXTENDS BridgeKeys

needMult(p) == Keys(p, {"needMult"})
needSum(p)  == Keys(p, {"needSum"})

Emit(from, h) == Get(from, {h}) \o serialize(h)
CString(n)    == << [Step EXCEPT !.out = {Mem(n)}, !.defer = {Mem(n)}, !.sure = TRUE] >>

(* A native buffer that comes back with a result code: freed by hand when  *)
(* the result is refused, deferred otherwise.                              *)
out == Mem("out")
Buffer(p) == p \o OrFree(Native({}), {out}) \o Defer({out})

(***************************************************************************)
(* Products and sums.                                                      *)
(***************************************************************************)
evalProductSumInContext ==
  Load(Ct("left"), "leftCiphertext") \o Load(Ct("right"), "rightCiphertext")
  \o needMult(Get({ctx, Ct("left"), Ct("right")}, {Ct("product")}))
  \o needSum(Get({ctx, Ct("product")}, {Ct("sum")})) \o serialize(Ct("sum"))

ProductSum(new) ==
  Check({"evalMultFinal", "evalSumFinal", "nSlots"}) \o new
  \o LoadEvalMult("evalMultFinal") \o LoadEvalSum("evalSumFinal") \o evalProductSumInContext
EvalProductSumForContract    == ProductSum(createContractContext)
EvalProductSumBFVForContract == ProductSum(createBFVContractContext)
EvalProductSumForContractWithEvalSumRefs ==
  Check({"evalMultFinal", "nSlots", "resolve"}) \o createContractContext
  \o LoadEvalMult("evalMultFinal") \o insertEvalSumPerIndexLazy("a/b") \o evalProductSumInContext

(* The key is loaded only when one is passed: an addition passes none. *)
evalBinaryCKKS(key, needs) ==
  Check({"ctA", "ctB"}) \o createContractContext \o key
  \o Load(Ct("a"), "ctA") \o Load(Ct("b"), "ctB")
  \o Keys(Get({ctx, Ct("a"), Ct("b")}, {Ct("out")}), needs) \o serialize(Ct("out"))
EvalAddCKKSForContract  == evalBinaryCKKS(<< >>, {})
EvalSubCKKSForContract  == evalBinaryCKKS(<< >>, {})
EvalMultCKKSForContract ==
  Check({"evalMultKey"}) \o evalBinaryCKKS(LoadEvalMult("evalMultKey"), {"needMult"})

OneCiphertext(p) == Check({"ct"}) \o createContractContext \o Load(Ct("ctH"), "ct") \o p
EvalConstMultCKKSForContract == OneCiphertext(Emit({ctx, Ct("ctH")}, Ct("out")))
RoundTripCiphertext          == OneCiphertext(serialize(Ct("ctH")))

(* hasNonConstantTerm: without it the key may be left out. *)
EvalPolyCKKSForContract ==
  Check({"ciphertext", "coefficients", "evalMultKey"}) \o createContractContext
  \o LoadEvalMult("evalMultKey") \o Load(Ct("ct"), "ciphertext")
  \o needMult(With(Get({ctx, Ct("ct")}, {Ct("out")}), {"coefficients"})) \o serialize(Ct("out"))
EvalPolyConstantTerm ==
  Check({"ciphertext", "coefficients"}) \o createContractContext \o Load(Ct("ct"), "ciphertext")
  \o With(Get({ctx, Ct("ct")}, {Ct("out")}), {"coefficients"}) \o serialize(Ct("out"))

(* freeAll is deferred before the loop that fills the handles, so a        *)
(* failure in the loop frees what is there; the masks only after success.  *)
masks == {At(Ct("masks"), i) : i \in 1..Parties}
Argmax(cts, args) ==
  needMult(With(Get({ctx} \cup cts, masks), args))
  \o Loop([i \in 1..Parties |-> serialize(At(Ct("masks"), i))])
EvalArgmaxCKKSForContract ==
  Check({"ciphertexts", "evalMultKey", "sharpCoeffs"}) \o createContractContext
  \o LoadEvalMult("evalMultKey")
  \o Loop([i \in 1..Parties |-> Get({ctx}, {At(Ct("handles"), i)})])
  \o Argmax(All(Ct("handles")), {"ciphertexts", "sharpCoeffs"})

(***************************************************************************)
(* Encryption and threshold decryption.                                    *)
(***************************************************************************)
EncryptingUnchecked(new) ==
  Check({"jointPublicKey"}) \o new \o Load(Pk("pk"), "jointPublicKey")
  \o With(Get({ctx, Pk("pk")}, {Ct("ct")}), {"values"}) \o serialize(Ct("ct"))
Encrypting(new) ==
  Check({"jointPublicKey", "values"}) \o new \o Load(Pk("pk"), "jointPublicKey")
  \o With(Get({ctx, Pk("pk")}, {Ct("ct")}), {"values"}) \o serialize(Ct("ct"))
EncryptCKKSForContract == Encrypting(createContractContext)
EncryptBFVForContract  == Encrypting(createBFVContractContext)

RepeatedScalar(new) ==
  requireNonEmptyBytes("jointPublicKey") \o new \o Load(Pk("pk"), "jointPublicKey")
  \o Buffer(Hold({ctx, Pk("pk")}, {out}))
EncryptRepeatedScalarCKKSForContract == RepeatedScalar(createContractContext)
EncryptRepeatedScalarBFVForContract  == RepeatedScalar(createBFVContractContext)

SquaredDistance(new) ==
  requireNonEmptyBytes("evalMultKey") \o requireNonEmptyBytes("originFirst")
  \o requireNonEmptyBytes("originSecond") \o new \o LoadEvalMult("evalMultKey")
  \o Buffer(needMult(With(Hold({ctx}, {out}), {"originFirst", "originSecond"})))
EncryptedSquaredDistanceCKKSForContract == SquaredDistance(createContractContext)
EncryptedSquaredDistanceBFVForContract  == SquaredDistance(createBFVContractContext)

PartialDecrypt(new) ==
  Check({"ciphertext"}) \o Check({"secretKeyShare"}) \o new
  \o Load(Ct("ct"), "ciphertext") \o Load(Sk("sk"), "secretKeyShare")
  \o Emit({ctx, Ct("ct"), Sk("sk")}, Ct("partial"))
PartialDecryptCKKSForContract == PartialDecrypt(createContractContext)
PartialDecryptBFVForContract  == PartialDecrypt(createBFVContractContext)

FusePartials(new) ==
  Check({"partials", "nSlots"}) \o new \o deserializeAll(Ct("handles"), "partials")
  \o With(Native({ctx} \cup All(Ct("handles"))), {"partials", "nSlots"})
FuseCKKSPartialsForContract == FusePartials(createContractContext)
FuseBFVPartialsForContract  == FusePartials(createBFVContractContext)

(***************************************************************************)
(* Fusion.  The native call inserts the keys it is given and evaluates     *)
(* with them; the full and the BFV form do not clear the table first, and  *)
(* none of them clears it afterwards.                                      *)
(***************************************************************************)
insertKeys(use)      == Keys(Native(use), {"addMult", "addSum"})
clearInsertKeys(use) == Keys(Native(use), {"clearMult", "clearSum", "addMult", "addSum"})
fuseOut(use, args)   == needMult(needSum(With(Hold(use, {out}), args)))

finalKeys == {"evalMultFinal", "evalSumFinal"}
addressed == {"initiatorCiphertext", "candidateCiphertexts"}
comparing == CString("comparator") \o CString("schedule")

(* requirePlainPayloadMode, the counts, flattenCandidatePackages. *)
plainPayload(keys) ==
  Check({"plainMode"}) \o Check(addressed \cup {"metadata"} \cup keys \cup {"packageBytes", "payloadSlotCount"})
  \o Check({"candidatePackages"})

(* Only this form looks at every candidate before it addresses the blob    *)
(* they are joined in (concatCandidateCiphertexts).                        *)
blob == "candidateBytes"
FullFusePayloadCKKS ==
  plainPayload(finalKeys) \o Check({blob}) \o comparing \o insertKeys({})
  \o fuseOut({}, addressed \cup {blob} \cup finalKeys) \o Free({out})
FullFusePayloadCKKSWithContext ==
  plainPayload({"ctx", "evalMultFinal"}) \o comparing
  \o insertKeys({ctx}) \o fuseOut({ctx}, addressed \cup {blob}) \o Free({out})
FullFusePayloadCKKSWithEvalSumRefs ==
  Check({"evalMultFinal"}) \o createContractContext \o insertEvalSumPerIndexLazy("a/b")
  \o Scope(plainPayload({}) \o comparing \o Keys(Native({ctx}), {"addMult"})
           \o fuseOut({ctx}, addressed \cup {blob}) \o Free({out}))

(* More chunks than the cap is an error that frees the buffer by hand. *)
ChunkedFuse(insert, use, keys) ==
  comparing \o insert \o fuseOut(use, addressed \cup {blob} \cup keys)
  \o OrFree(Native({}), {out}) \o Free({out})
ChunkedFusePayloadCKKS ==
  plainPayload(finalKeys) \o ChunkedFuse(clearInsertKeys({}), {}, finalKeys)
ChunkedFusePayloadCKKSWithContext ==
  plainPayload({"ctx", "evalMultFinal"}) \o ChunkedFuse(clearInsertKeys({ctx}), {ctx}, {})
ChunkedFusePreinserted ==
  plainPayload({"ctx"}) \o ChunkedFuse(<< >>, {ctx}, {})

(* The encrypted columns, each entry present, and the checks on the chunks *)
(* that come back.                                                         *)
flattenEncryptedPayloadCiphertexts == Check({"payloadCiphertexts"})
flattenEncryptedDistanceCiphertexts == Check({"distanceCiphertexts"})
chunkedFuseEncrypted(insert, use, args) ==
  Check(addressed \cup args \cup {"metadata", "payloadSlotCount"}) \o flattenEncryptedPayloadCiphertexts
  \o (IF "distanceCiphertexts" \in args THEN flattenEncryptedDistanceCiphertexts ELSE << >>)
  \o Check({blob}) \o comparing \o insert
  \o fuseOut(use, addressed \cup {blob, "payloadCiphertexts"} \cup (args \ finalKeys)) \o Defer({out})
  \o Native({}) \o Native({})
chunkedFuseEncryptedPayloadCKKS(insert, use, args) ==
  Check({"plainDistances"}) \o chunkedFuseEncrypted(insert, use, args)
chunkedFuseEncryptedInputsCKKS(insert, use, args) ==
  chunkedFuseEncrypted(insert, use, args \cup {"distanceCiphertexts"})
ChunkedFuseEncryptedPayloadCKKS ==
  chunkedFuseEncryptedPayloadCKKS(clearInsertKeys({}), {}, finalKeys)
ChunkedFuseEncryptedPayloadCKKSWithContext ==
  Check({"ctx"}) \o chunkedFuseEncryptedPayloadCKKS(clearInsertKeys({ctx}), {ctx}, finalKeys)
ChunkedFuseEncryptedInputsCKKS ==
  chunkedFuseEncryptedInputsCKKS(clearInsertKeys({}), {}, finalKeys)
ChunkedFuseEncryptedInputsCKKSWithContext ==
  Check({"ctx"}) \o chunkedFuseEncryptedInputsCKKS(clearInsertKeys({ctx}), {ctx}, finalKeys)

(* Three pointer tables and the pinned ciphertexts they point to. *)
BlindFusePayloadBFVForContract ==
  requireNonEmptyBytes("initiatorCiphertext")
  \o Check({"candidates", "metadata", "profileDim", "stepCoefficients"} \cup finalKeys)
  \o Get({}, {Mem("profileTable")}) \o Get({}, {Mem("distanceTable")}) \o Get({}, {Mem("payloadTable")})
  \o CString("pinner") \o Check({"candidateBytes"})
  \o insertKeys({Mem("profileTable"), Mem("distanceTable"), Mem("payloadTable")})
  \o Buffer(fuseOut({Mem("profileTable"), Mem("distanceTable"), Mem("payloadTable")},
                    {"initiatorCiphertext", "candidates", "stepCoefficients"} \cup finalKeys))

ScoreCandidatesCKKS ==
  Check({"initiatorProfile", "candidates", "metadata", "candidatePackages", "payloadSlotCount"})
  \o CString("comparator") \o CString("pairComparator") \o CString("maskMode") \o CString("schedule")
  \o With(Native({}), {"initiatorProfile", "candidates", "candidatePackages"})

(***************************************************************************)
(* The threshold self-test: every handle is deferred as it is made.        *)
(***************************************************************************)
ThresholdSmokeCKKS ==
  LET pk(i) == At(Pk("pks"), i)
      sk(i) == At(Sk("sks"), i)
      keys  == Loop([i \in 1..Parties |->
                 Get({ctx} \cup (IF i = 1 THEN {} ELSE {pk(i - 1)}), {pk(i), sk(i)})])
      share == Loop([i \in 1..Parties |->
                 Keys(Get({ctx, sk(i)}, {At(Mult("multShare"), i)}), {"addMult"})
                 \o Keys(Get({ctx, sk(i)}, {At(Rot("rotShare"), i)}), {"addSum"})])
      trip  == Get({pk(Parties)}, {Mem("pkData")}) \o Get({ctx, Mem("pkData")}, {Pk("pkRoundTrip")})
               \o Get({ctx, Pk("pkRoundTrip")}, {Ct("ct")}) \o Get({Ct("ct")}, {Mem("ctData")})
               \o Get({ctx, Mem("ctData")}, {Ct("ctRoundTrip")})
      eval  == Get({ctx, Ct("ctRoundTrip")}, {Ct("doubled")}) \o Get({ctx, Ct("doubled")}, {Ct("restored")})
               \o needMult(Get({ctx, Ct("restored")}, {Ct("squared")}))
               \o needSum(Get({ctx, Ct("squared")}, {Ct("summed")}))
      open  == Loop([i \in 1..Parties |-> Get({ctx, Ct("summed"), sk(i)}, {At(Ct("partials"), i)})])
               \o Native({ctx} \cup All(Ct("partials"))) \o Native({})
  IN  Check({"parties"}) \o createContractContext \o keys \o share \o trip \o eval \o open

(***************************************************************************)
(* The single-key auction.                                                 *)
(***************************************************************************)
singleKeyPair == createContractContext \o Get({ctx}, {Pk("cPk"), Sk("cSk")})
SingleKeyGen  == singleKeyPair \o serialize(Pk("cPk")) \o serialize(Sk("cSk"))
SingleKeyGenWithEvalKey ==
  singleKeyPair \o Keys(Get({ctx, Sk("cSk")}, {Mult("cEvalMultKey")}), {"addMult"})
  \o serialize(Pk("cPk")) \o serialize(Sk("cSk")) \o serialize(Mult("cEvalMultKey"))
SingleKeyEncrypt ==
  Check({"pk"}) \o createContractContext \o Load(Pk("cPk"), "pk") \o Emit({ctx, Pk("cPk")}, Ct("ct"))
(* nSlots is not checked before the first slot of the result is addressed. *)
SingleKeyDecrypt ==
  createContractContext \o Load(Sk("cSk"), "sk") \o Load(Ct("cCt"), "ct")
  \o With(Native({ctx, Ct("cCt"), Sk("cSk")}), {"nSlots"})

(* The ciphertexts are deferred only after the loop that makes them. *)
SingleKeySoftArgmin ==
  Check({"scores"}) \o singleKeyPair \o Keys(Native({ctx, Sk("cSk")}), {"addMult"})
  \o Loop([i \in 1..Parties |-> Hold({ctx, Pk("cPk")}, {At(Ct("cts"), i)})]) \o Defer(All(Ct("cts")))
  \o needMult(Get({ctx} \cup All(Ct("cts")), masks))
  \o Loop([i \in 1..Parties |-> Native({ctx, At(Ct("masks"), i), Sk("cSk")})])

(* The bid's price is encrypted here or comes encrypted from the bidder;   *)
(* the scaled price is freed before the result of the addition is looked   *)
(* at.                                                                     *)
AuctionServer(priceKey) ==
  LET bid(i) ==
        Get({ctx, Pk("cPk")}, {At(Ct("offCt"), i)}) \o Get({ctx} \cup priceKey, {At(Ct("pCt"), i)})
        \o Hold({ctx, At(Ct("pCt"), i)}, {Ct("scaledPrice")})
        \o Consume(Hold({ctx, Ct("scaledPrice"), At(Ct("offCt"), i)}, {At(Ct("score"), i)}),
                   {Ct("scaledPrice")})
        \o Defer({At(Ct("score"), i)})
  IN  Check({"evalMultKey"}) \o Check({"bids"}) \o Check({"metadata"}) \o Check({"pk"})
      \o createContractContext \o Load(Pk("cPk"), "pk") \o LoadEvalMult("evalMultKey")
      \o Loop([i \in 1..Parties |-> bid(i)]) \o Argmax(All(Ct("score")), {"bids"})
singleKeyAuctionServer    == AuctionServer({Pk("cPk")})
singleKeyAuctionServerEnc == AuctionServer({})

SingleKeyAuctionDecrypt ==
  Check({"encryptedMasks"}) \o Check({"sk"}) \o createContractContext \o Load(Sk("cSk"), "sk")
  \o Loop([i \in 1..Parties |-> Hold({ctx}, {Ct("cCt")})
                    \o Consume(Native({ctx, Ct("cCt"), Sk("cSk")}), {Ct("cCt")})])

(***************************************************************************)
(* A context of the caller's own, and the union scorer on one: with one    *)
(* lane each comparator passes the keys again; with more, or with refs,    *)
(* they are inserted once.  The interleaving of lanes is module Union.     *)
(***************************************************************************)
NewCryptoContext == Hold({}, {ctx})
Close            == Free({ctx})

insertUnionEvalKeys ==
  Scope(Check(finalKeys) \o LoadEvalMult("evalMultFinal") \o LoadEvalSum("evalSumFinal"))
UnionScore(fuse) == Check({"comparators"}) \o createContractContext \o Loop([i \in 1..Parties |-> Scope(fuse)])
ChunkedUnionScoreCKKS                 == UnionScore(ChunkedFusePayloadCKKSWithContext)
ChunkedUnionScoreEncryptedPayloadCKKS == UnionScore(ChunkedFuseEncryptedPayloadCKKSWithContext)
ChunkedUnionScoreEncryptedInputsCKKS  == UnionScore(ChunkedFuseEncryptedInputsCKKSWithContext)
UnionScoreConcurrent(fuse) ==
  Check({"comparators"}) \o createContractContext \o insertUnionEvalKeys \o Loop([i \in 1..Parties |-> Scope(fuse)])
ChunkedUnionScoreCKKSWithConcurrency == UnionScoreConcurrent(ChunkedFusePreinserted)
ChunkedUnionScoreEncryptedPayloadCKKSWithConcurrency ==
  UnionScoreConcurrent(chunkedFuseEncryptedPayloadCKKS(<< >>, {ctx}, {}))
ChunkedUnionScoreEncryptedInputsCKKSWithConcurrency ==
  UnionScoreConcurrent(chunkedFuseEncryptedInputsCKKS(<< >>, {ctx}, {}))
UnionScoreRefs(fuse) ==
  Check({"comparators", "evalMultFinal"}) \o createContractContext
  \o LoadEvalMult("evalMultFinal") \o insertEvalSumPerIndexLazy("a/b")
  \o Loop([i \in 1..Parties |-> Scope(fuse)])
ChunkedUnionScoreCKKSWithEvalSumRefs == UnionScoreRefs(ChunkedFusePreinserted)
ChunkedUnionScoreEncryptedPayloadCKKSWithEvalSumRefs ==
  UnionScoreRefs(chunkedFuseEncryptedPayloadCKKS(<< >>, {ctx}, {}))
ChunkedUnionScoreEncryptedInputsCKKSWithEvalSumRefs ==
  UnionScoreRefs(chunkedFuseEncryptedInputsCKKS(<< >>, {ctx}, {}))
=============================================================================
