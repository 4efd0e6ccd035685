--------------------------- MODULE BridgeProgram ---------------------------
(* The functions of pkg/ares/crypto/cgo, by name. *)
EXTENDS BridgeEval

(* Key generation and the evaluation-key rounds. *)
KeyProgram ==
  [DistributedKeyGenFirst |-> DistributedKeyGenFirst,
   BFVDistributedKeyGenFirst |-> BFVDistributedKeyGenFirst,
   DistributedKeyGenNext |-> DistributedKeyGenNext,
   BFVDistributedKeyGenNext |-> BFVDistributedKeyGenNext,
   EvalKeyRound1Lead |-> EvalKeyRound1Lead,
   BFVEvalKeyRound1Lead |-> BFVEvalKeyRound1Lead,
   EvalKeyRound1LeadWithContext |-> EvalKeyRound1LeadWithContext,
   EvalMultKeyGenLeadWithContext |-> EvalMultKeyGenLeadWithContext,
   EvalKeyRound1Participant |-> EvalKeyRound1Participant,
   BFVEvalKeyRound1Participant |-> BFVEvalKeyRound1Participant,
   EvalKeyRound1ParticipantWithContext |-> EvalKeyRound1ParticipantWithContext,
   EvalMultKeySwitchShareWithContext |-> EvalMultKeySwitchShareWithContext,
   CombineEvalKeyRound1 |-> CombineEvalKeyRound1,
   BFVCombineEvalKeyRound1 |-> BFVCombineEvalKeyRound1,
   BFVCombineEvalKeyRound1Lazy |-> BFVCombineEvalKeyRound1Lazy,
   CombineEvalMultSwitchShares |-> CombineEvalMultSwitchShares,
   CombineEvalMultSwitchSharesWithContext |-> CombineEvalMultSwitchSharesWithContext,
   CombineEvalSumSharesIncremental |-> CombineEvalSumSharesIncremental,
   CombineEvalKeyRound1PerIndexWithContext |-> CombineEvalKeyRound1PerIndexWithContext,
   CombineEvalKeyRound1PerIndexLazy |-> CombineEvalKeyRound1PerIndexLazy,
   BFVCombineEvalKeyRound1PerIndexLazy |-> BFVCombineEvalKeyRound1PerIndexLazy,
   InsertEvalSumKeysPerIndexLazyWithContext |-> InsertEvalSumKeysPerIndexLazyWithContext,
   EvalKeyRound2Participant |-> EvalKeyRound2Participant,
   BFVEvalKeyRound2Participant |-> BFVEvalKeyRound2Participant,
   EvalKeyRound2ParticipantWithContext |-> EvalKeyRound2ParticipantWithContext,
   CombineEvalKeyRound2 |-> CombineEvalKeyRound2,
   BFVCombineEvalKeyRound2 |-> BFVCombineEvalKeyRound2,
   CombineEvalKeyRound2WithContext |-> CombineEvalKeyRound2WithContext,
   StreamedEvalSumKeyGenLeadWithContext |-> StreamedEvalSumKeyGenLeadWithContext,
   StreamedEvalSumKeyShareWithContext |-> StreamedEvalSumKeyShareWithContext,
   MinimalRotationIndicesWithContext |-> MinimalRotationIndicesWithContext,
   GeneratePerIndexEvalSumKeyWithContext |-> GeneratePerIndexEvalSumKeyWithContext,
   GeneratePerIndexEvalSumKeysWithContext |-> GeneratePerIndexEvalSumKeysWithContext,
   GeneratePerIndexEvalSumShareWithContext |-> GeneratePerIndexEvalSumShareWithContext,
   GeneratePerIndexEvalSumSharesWithContext |-> GeneratePerIndexEvalSumSharesWithContext,
   NewEvalSumIncrementalFold |-> NewEvalSumIncrementalFold,
   NewEvalSumIncrementalFoldWithContext |-> NewEvalSumIncrementalFoldWithContext,
   Fold |-> Fold(foldCtx), FoldWithContext |-> Fold(ctx),
   Finalize |-> Finalize({foldCtx}), FinalizeWithContext |-> Finalize({}),
   SplitRotShareAB |-> SplitRotShareAB, ReconstructRotShareAB |-> ReconstructRotShareAB,
   runBOnlyRotReconstruction |-> runBOnlyRotReconstruction,
   benchRotShareGen |-> benchRotShareGen(FALSE), benchRotShareGenStreamed |-> benchRotShareGen(TRUE),
   benchStreamedFullRot |-> benchStreamedFullRot, benchBOnlyRotShare |-> benchBOnlyRotShare,
   benchResidentCombineRound1 |-> benchResidentCombineRound1,
   runIncrementalCombineCheck |-> runIncrementalCombineCheck]

(* Encryption, evaluation, decryption, fusion. *)
EvalProgram ==
  [EvalProductSumForContract |-> EvalProductSumForContract,
   EvalProductSumBFVForContract |-> EvalProductSumBFVForContract,
   EvalProductSumForContractWithEvalSumRefs |-> EvalProductSumForContractWithEvalSumRefs,
   EvalAddCKKSForContract |-> EvalAddCKKSForContract,
   EvalSubCKKSForContract |-> EvalSubCKKSForContract,
   EvalMultCKKSForContract |-> EvalMultCKKSForContract,
   EvalConstMultCKKSForContract |-> EvalConstMultCKKSForContract,
   RoundTripCiphertext |-> RoundTripCiphertext,
   EvalPolyCKKSForContract |-> EvalPolyCKKSForContract, EvalPolyConstantTerm |-> EvalPolyConstantTerm,
   EvalArgmaxCKKSForContract |-> EvalArgmaxCKKSForContract,
   EncryptCKKSForContract |-> EncryptCKKSForContract, EncryptBFVForContract |-> EncryptBFVForContract,
   EncryptRepeatedScalarCKKSForContract |-> EncryptRepeatedScalarCKKSForContract,
   EncryptRepeatedScalarBFVForContract |-> EncryptRepeatedScalarBFVForContract,
   EncryptedSquaredDistanceCKKSForContract |-> EncryptedSquaredDistanceCKKSForContract,
   EncryptedSquaredDistanceBFVForContract |-> EncryptedSquaredDistanceBFVForContract,
   PartialDecryptCKKSForContract |-> PartialDecryptCKKSForContract,
   PartialDecryptBFVForContract |-> PartialDecryptBFVForContract,
   FuseCKKSPartialsForContract |-> FuseCKKSPartialsForContract,
   FuseBFVPartialsForContract |-> FuseBFVPartialsForContract,
   FullFusePayloadCKKS |-> FullFusePayloadCKKS,
   FullFusePayloadCKKSWithContext |-> FullFusePayloadCKKSWithContext,
   FullFusePayloadCKKSWithEvalSumRefs |-> FullFusePayloadCKKSWithEvalSumRefs,
   ChunkedFusePayloadCKKS |-> ChunkedFusePayloadCKKS,
   ChunkedFusePayloadCKKSWithContext |-> ChunkedFusePayloadCKKSWithContext,
   ChunkedFuseEncryptedPayloadCKKS |-> ChunkedFuseEncryptedPayloadCKKS,
   ChunkedFuseEncryptedPayloadCKKSWithContext |-> ChunkedFuseEncryptedPayloadCKKSWithContext,
   ChunkedFuseEncryptedInputsCKKS |-> ChunkedFuseEncryptedInputsCKKS,
   ChunkedFuseEncryptedInputsCKKSWithContext |-> ChunkedFuseEncryptedInputsCKKSWithContext,
   BlindFusePayloadBFVForContract |-> BlindFusePayloadBFVForContract,
   ScoreCandidatesCKKS |-> ScoreCandidatesCKKS, ThresholdSmokeCKKS |-> ThresholdSmokeCKKS,
   SingleKeyGen |-> SingleKeyGen, SingleKeyGenWithEvalKey |-> SingleKeyGenWithEvalKey,
   SingleKeyEncrypt |-> SingleKeyEncrypt, SingleKeyDecrypt |-> SingleKeyDecrypt,
   SingleKeySoftArgmin |-> SingleKeySoftArgmin,
   SingleKeyAuctionServer |-> singleKeyAuctionServer,
   SingleKeyAuctionServerEnc |-> singleKeyAuctionServerEnc,
   SingleKeyAuctionDecrypt |-> SingleKeyAuctionDecrypt,
   NewCryptoContext |-> NewCryptoContext, Close |-> Close,
   ChunkedUnionScoreCKKS |-> ChunkedUnionScoreCKKS,
   ChunkedUnionScoreEncryptedPayloadCKKS |-> ChunkedUnionScoreEncryptedPayloadCKKS,
   ChunkedUnionScoreEncryptedInputsCKKS |-> ChunkedUnionScoreEncryptedInputsCKKS,
   ChunkedUnionScoreCKKSWithConcurrency |-> ChunkedUnionScoreCKKSWithConcurrency,
   ChunkedUnionScoreEncryptedPayloadCKKSWithConcurrency |->
     ChunkedUnionScoreEncryptedPayloadCKKSWithConcurrency,
   ChunkedUnionScoreEncryptedInputsCKKSWithConcurrency |->
     ChunkedUnionScoreEncryptedInputsCKKSWithConcurrency,
   ChunkedUnionScoreCKKSWithEvalSumRefs |-> ChunkedUnionScoreCKKSWithEvalSumRefs,
   ChunkedUnionScoreEncryptedPayloadCKKSWithEvalSumRefs |->
     ChunkedUnionScoreEncryptedPayloadCKKSWithEvalSumRefs,
   ChunkedUnionScoreEncryptedInputsCKKSWithEvalSumRefs |->
     ChunkedUnionScoreEncryptedInputsCKKSWithEvalSumRefs]

Program == [f \in DOMAIN KeyProgram \cup DOMAIN EvalProgram |->
              IF f \in DOMAIN KeyProgram THEN KeyProgram[f] ELSE EvalProgram[f]]
=============================================================================
