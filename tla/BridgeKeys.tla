----------------------------- MODULE BridgeKeys -----------------------------
(***************************************************************************)
(* Threshold key generation and the evaluation-key rounds of the cgo       *)
(* bridge: bridge.go, incremental_combine.go, bonly_keygen.go,             *)
(* streamed_keygen.go and resident_combine.go.  One definition per Go      *)
(* function, named after it; a CKKS function and its BFV twin differ in    *)
(* the context they create, a WithContext one borrows its caller's.        *)
(***************************************************************************)
EXTENDS BridgeSteps

borrow == << >>                     \* a WithContext function: no new context

(* Distributed key generation. *)
KeyGenFirst(new) ==
  new \o Get({ctx}, {Pk("pk"), Sk("sk")}) \o serialize(Pk("pk")) \o serialize(Sk("sk"))
DistributedKeyGenFirst    == KeyGenFirst(createContractContext)
BFVDistributedKeyGenFirst == KeyGenFirst(createBFVContractContext)

KeyGenNext(new) ==
  Check({"prevPublicKey"}) \o new \o Load(Pk("prev"), "prevPublicKey")
  \o Get({ctx, Pk("prev")}, {Pk("pk"), Sk("sk")}) \o serialize(Pk("pk")) \o serialize(Sk("sk"))
DistributedKeyGenNext    == KeyGenNext(createContractContext)
BFVDistributedKeyGenNext == KeyGenNext(createBFVContractContext)

(* Round one, lead: the eval-mult base, then the eval-sum base. *)
Generate(h, from) == Get(from, {h}) \o serialize(h)
MultLead == Load(Sk("sk"), "secretKeyShare") \o Generate(Mult("mult"), {ctx, Sk("sk")})
Round1Lead(new) == new \o MultLead \o Generate(Rot("sum"), {ctx, Sk("sk")})
EvalKeyRound1Lead             == Round1Lead(createContractContext)
BFVEvalKeyRound1Lead          == Round1Lead(createBFVContractContext)
EvalKeyRound1LeadWithContext  == Round1Lead(borrow)
EvalMultKeyGenLeadWithContext == MultLead

(* Round one, participant. *)
Round1Participant(new) ==
  new \o Load(Sk("sk"), "secretKeyShare") \o Load(Mult("multBase"), "evalMultBase")
  \o Load(Rot("sumBase"), "evalSumBase") \o Load(Pk("ownPK"), "ownPublicKey")
  \o Generate(Mult("multShare"), {ctx, Sk("sk"), Mult("multBase")})
  \o Generate(Rot("sumShare"), {ctx, Sk("sk"), Rot("sumBase"), Pk("ownPK")})
EvalKeyRound1Participant            == Round1Participant(createContractContext)
BFVEvalKeyRound1Participant         == Round1Participant(createBFVContractContext)
EvalKeyRound1ParticipantWithContext == Round1Participant(borrow)
EvalMultKeySwitchShareWithContext ==
  Load(Sk("sk"), "secretKeyShare") \o Load(Mult("multBase"), "evalMultBase")
  \o Generate(Mult("multShare"), {ctx, Sk("sk"), Mult("multBase")})

(***************************************************************************)
(* Combining the eval-sum shares.  start turns the lead's key into the     *)
(* accumulator and frees the key whether or not that worked; fold frees    *)
(* the share and the public key before it looks at the result, so that     *)
(* only the accumulator and one share are resident.                        *)
(***************************************************************************)
start(accum) == Consume(Hold({Rot("seed")}, {accum}), {Rot("seed")})
fold(accum)  == Consume(Native({ctx, accum, Pk("pk"), Rot("share")}), {Pk("pk"), Rot("share")})

foldSharesLoadedFirst(args) ==
  Scope(With(Hold({ctx}, {Rot("seed")}), args)
        \o start(Rot("accum")) \o Defer({Rot("accum")})
        \o Loop([i \in 1..(Parties - 1) |-> Get({ctx}, {At(Rot("share"), i)}) \o Get({ctx}, {At(Pk("pk"), i)})])
        \o Loop([i \in 1..(Parties - 1) |-> Native({ctx, Rot("accum"), At(Pk("pk"), i), At(Rot("share"), i)})])
        \o serialize(Rot("accum")))
foldShares(args) ==
  Scope(With(Hold({ctx}, {Rot("seed")}), args)
        \o start(Rot("accum")) \o Defer({Rot("accum")})
        \o Loop([i \in 1..(Parties - 1) |-> Hold({ctx}, {Pk("pk")})
             \o OrFree(Hold({ctx}, {Rot("share")}), {Pk("pk")}) \o fold(Rot("accum"))])
        \o serialize(Rot("accum")))
combineEvalSumIncremental == foldShares({"evalSumShares"})

(* Each share is fetched through resolve just before it is folded. *)
resolve == Native({})
combineEvalSumIncrementalLazy ==
  Scope(Check({"publicKeys", "evalSumShares", "resolve"})
        \o resolve \o Hold({ctx}, {Rot("seed")})
        \o start(Rot("accum")) \o Defer({Rot("accum")})
        \o Loop([i \in 1..(Parties - 1) |-> Hold({ctx}, {Pk("pk")})
             \o OrFree(resolve \o Hold({ctx}, {Rot("share")}), {Pk("pk")}) \o fold(Rot("accum"))])
        \o serialize(Rot("accum")))

(* resolveKeyRefCached: a full reference is resolved and deserialized; of  *)
(* an a/b pair the a-vectors are loaded once per index, for the first      *)
(* party, and freed when the function returns.                             *)
resolveKeyRefCached(ref, h, i, party) ==
  IF ref = "full" THEN resolve \o Hold({ctx}, {h})
  ELSE (IF party = 1 THEN resolve \o Get({}, {At(AVec("a"), i)}) ELSE << >>)
       \o resolve \o Hold({ctx, At(AVec("a"), i)}, {h})

(* A party's share: its bytes, or a reference to a full key or an a/b pair. *)
loadShare(ref, h, i, party) ==
  IF ref = "bytes" THEN Hold({ctx}, {h}) ELSE resolveKeyRefCached(ref, h, i, party)

(* One rotation index.  The accumulator is freed by hand on every way out  *)
(* of the inner loop.                                                      *)
CombineIndex(ref, accum, i) ==
  loadShare(ref, Rot("seed"), i, 1) \o start(accum)
  \o OrFree(Loop([p \in 1..(Parties - 1) |-> Hold({ctx}, {Pk("pk")})
               \o OrFree(loadShare(ref, Rot("share"), i, p + 1), {Pk("pk")}) \o fold(accum)]), {accum})

(* The first index's accumulator becomes the result, whose free is         *)
(* deferred; the others are merged into it and freed.                      *)
MergeIndices(ref) ==
  Loop([i \in 1..Indices |->
    CombineIndex(ref, At(Rot("accum"), i), i)
    \o IF i = 1 THEN Defer({At(Rot("accum"), 1)})
       ELSE Consume(Native({At(Rot("accum"), 1), At(Rot("accum"), i)}), {At(Rot("accum"), i)})])
  \o serialize(At(Rot("accum"), 1))

(* Every party has a key for each of the lead's indices, and no other; a   *)
(* failure of the check leaves nothing to free.                            *)
validateIndexedEvalSumShares    == Check({"evalSumShares"})
validateIndexedEvalSumShareRefs == Check({"evalSumShares"})
combineEvalSumPerIndex == Scope(validateIndexedEvalSumShares \o MergeIndices("bytes"))

combineEvalSumPerIndexLazy(ref) ==
  Scope(validateIndexedEvalSumShareRefs \o MergeIndices(ref))

(* Each combined index goes straight into the context's key table. *)
insertEvalSumPerIndexLazy(ref) ==
  Scope(Check({"evalSumShares", "publicKeys", "resolve"}) \o ClearEvalSumKeys
        \o Loop([i \in 1..Indices |-> CombineIndex(ref, Rot("accum"), i)
             \o Consume(InsertEvalSumKeyAppend(Rot("accum")), {Rot("accum")})]))
InsertEvalSumKeysPerIndexLazyWithContext == Check({"ctx"}) \o insertEvalSumPerIndexLazy("a/b")

(* resolveIndexedEvalSumKeyRef, reconstructRotKeyFromAB: both halves are   *)
(* needed, and the whole key is rebuilt without a cache.                   *)
reconstructRotKeyFromAB(h) ==
  With(<< [Step EXCEPT !.use = {ctx}, !.out = {h}, !.chk = {"a", "b"}] >>, {"a", "b"})

(***************************************************************************)
(* Combining round one and round two.                                      *)
(***************************************************************************)
joinMult ==
  deserializeAll(Pk("pks"), "publicKeys") \o deserializeAll(Mult("multShares"), "evalMultShares")
  \o With(Get({ctx}, {Mult("joined")}), {"publicKeys", "evalMultShares"}) \o serialize(Mult("joined"))
counts == Check({"publicKeys", "evalMultShares", "evalSumShares"})

CombineEvalKeyRound1    == counts \o createContractContext \o joinMult \o combineEvalSumIncremental
BFVCombineEvalKeyRound1 == counts \o createBFVContractContext \o joinMult \o combineEvalSumIncremental
BFVCombineEvalKeyRound1Lazy ==
  counts \o Check({"resolve"}) \o createBFVContractContext \o joinMult \o combineEvalSumIncrementalLazy
CombineEvalMultSwitchShares ==
  Check({"publicKeys", "evalMultShares"}) \o createContractContext \o joinMult
CombineEvalMultSwitchSharesWithContext == joinMult
CombineEvalSumSharesIncremental ==
  Check({"publicKeys", "evalSumShares"}) \o createContractContext \o combineEvalSumIncremental

combineEvalKeyRound1PerIndex == Scope(counts \o joinMult \o combineEvalSumPerIndex)
combineEvalKeyRound1PerIndexLazy(ref) ==
  Scope(counts \o joinMult \o combineEvalSumPerIndexLazy(ref))
CombineEvalKeyRound1PerIndexWithContext == combineEvalKeyRound1PerIndex
CombineEvalKeyRound1PerIndexLazy ==
  counts \o Check({"resolve"}) \o createContractContext \o combineEvalKeyRound1PerIndexLazy("a/b")
BFVCombineEvalKeyRound1PerIndexLazy ==
  counts \o Check({"resolve"}) \o createBFVContractContext \o combineEvalKeyRound1PerIndexLazy("full")

Round2Participant(new) ==
  new \o Load(Sk("sk"), "secretKeyShare") \o Load(Mult("joined"), "evalMultJoined")
  \o Load(Pk("finalPK"), "finalPublicKey")
  \o Generate(Mult("finalShare"), {ctx, Sk("sk"), Mult("joined"), Pk("finalPK")})
EvalKeyRound2Participant            == Round2Participant(createContractContext)
BFVEvalKeyRound2Participant         == Round2Participant(createBFVContractContext)
EvalKeyRound2ParticipantWithContext == Round2Participant(borrow)

finalShares == deserializeAll(Mult("finalShares"), "evalMultFinalShares")
Round2(new) ==
  Check({"evalMultFinalShares"}) \o new \o Load(Pk("finalPK"), "finalPublicKey") \o finalShares
  \o With(Get({ctx, Pk("finalPK")}, {Mult("final")}), {"evalMultFinalShares"})
  \o serialize(Mult("final"))
CombineEvalKeyRound2    == Round2(createContractContext)
BFVCombineEvalKeyRound2 == Round2(createBFVContractContext)
CombineEvalKeyRound2WithContextDefers ==
  Load(Pk("finalPK"), "finalPublicKey") \o finalShares \o Load(Rot("sumFinal"), "evalSumFinal")
  \o With(Get({ctx, Pk("finalPK")}, {Mult("final")}), {"evalMultFinalShares"})
  \o OrFree(Hold({Mult("final")}, {Mem("data")}), {Mult("final")})
  \o Free({Mem("data"), Mult("final")})
(* Nothing checks the shares here before the first one is addressed, and   *)
(* the result is freed by hand right after it is serialized.               *)
CombineEvalKeyRound2WithContext ==
  Load(Pk("finalPK"), "finalPublicKey") \o finalShares \o Load(Rot("sumFinal"), "evalSumFinal")
  \o With(Hold({ctx, Pk("finalPK")}, {Mult("final")}), {"evalMultFinalShares"})
  \o OrFree(Hold({Mult("final")}, {Mem("data")}), {Mult("final")})
  \o Free({Mem("data"), Mult("final")})

(***************************************************************************)
(* Streamed and per-index generation with a borrowed context.              *)
(***************************************************************************)
StreamedEvalSumKeyGenLeadWithContext ==
  Load(Sk("sk"), "secretKeyShare") \o Generate(Rot("sum"), {ctx, Sk("sk")})
StreamedEvalSumKeyShareWithContext ==
  Load(Sk("sk"), "secretKeyShare") \o Load(Rot("sumBase"), "evalSumBase")
  \o Load(Pk("ownPK"), "ownPublicKey")
  \o Generate(Rot("sumShare"), {ctx, Sk("sk"), Rot("sumBase"), Pk("ownPK")})
MinimalRotationIndicesWithContext == Native({ctx}) \o Native({ctx})
GeneratePerIndexEvalSumKeyWithContext ==
  Load(Sk("sk"), "secretKeyShare") \o Generate(Rot("key"), {ctx, Sk("sk")})
GeneratePerIndexEvalSumKeysWithContext ==
  MinimalRotationIndicesWithContext
  \o Loop([i \in 1..Indices |-> Scope(GeneratePerIndexEvalSumKeyWithContext)])
GeneratePerIndexEvalSumShareWithContext ==
  Load(Sk("sk"), "secretKeyShare") \o Load(Rot("base"), "singleIndexBase")
  \o Load(Pk("ownPK"), "ownPublicKey")
  \o Generate(Rot("share"), {ctx, Sk("sk"), Rot("base"), Pk("ownPK")})
GeneratePerIndexEvalSumSharesWithContext ==
  Check({"baseKeys"}) \o Loop([i \in 1..Indices |-> Scope(GeneratePerIndexEvalSumShareWithContext)])

(***************************************************************************)
(* The fold as an object: New hands the accumulator (and, in the first     *)
(* form, a context of its own) to the caller, Finalize frees both.         *)
(***************************************************************************)
NewEvalSumIncrementalFold ==
  Hold({}, {foldCtx}) \o OrFree(deserializeIn(foldCtx, Rot("seed"), "leadBase") \o start(Rot("folded")), {foldCtx})
NewEvalSumIncrementalFoldWithContext == deserialize(Rot("seed"), "leadBase") \o start(Rot("folded"))
Fold(c) ==
  Hold({c}, {Pk("pk")}) \o OrFree(Hold({c}, {Rot("share")}), {Pk("pk")})
  \o Consume(Native({c, Rot("folded"), Pk("pk"), Rot("share")}), {Pk("pk"), Rot("share")})
Finalize(cs) == Defer({Rot("folded")} \cup cs) \o serialize(Rot("folded"))

(***************************************************************************)
(* b-only shares and the measurement helpers.                              *)
(***************************************************************************)
SplitRotShareAB ==
  createContractContext \o Load(Rot("share"), "fullShare")
  \o serialize(Rot("share")) \o serialize(Rot("share"))
ReconstructRotShareAB ==
  createContractContext \o reconstructRotKeyFromAB(Rot("share")) \o Defer({Rot("share")})
  \o serialize(Rot("share"))
TwoParties ==
  createContractContext \o Get({ctx}, {Pk("pk0"), Sk("sk0")})
  \o Get({ctx, Pk("pk0")}, {Pk("pk1"), Sk("sk1")})
LeadBase == Get({ctx, Sk("sk0")}, {Rot("base")})
ShareOf(s, k, p) == Get({ctx, Sk(k), Rot("base"), Pk(p)}, {Rot(s)})
runBOnlyRotReconstruction ==
  TwoParties \o LeadBase \o ShareOf("share", "sk1", "pk1")
  \o serialize(Rot("share")) \o serialize(Rot("base")) \o serialize(Rot("share")) \o serialize(Rot("share"))
  \o Get({ctx}, {Rot("recon")}) \o serialize(Rot("recon")) \o serialize(Rot("recon"))
benchRotShareGen(streamed) ==
  TwoParties \o LeadBase
  \o IF streamed THEN Native({ctx, Sk("sk1"), Rot("base"), Pk("pk1")})
     ELSE ShareOf("share", "sk1", "pk1") \o Hold({Rot("share")}, {Mem("data")}) \o Free({Mem("data")})
benchStreamedFullRot == TwoParties \o Native({ctx, Sk("sk0"), Sk("sk1"), Pk("pk1")})
benchBOnlyRotShare   == TwoParties \o Native({ctx, Sk("sk0"), Sk("sk1"), Pk("pk1")})
benchResidentCombineRound1 ==
  createContractContext \o deserializeAll(Pk("pks"), "publicKeys")
  \o deserializeAll(Mult("multH"), "evalMultShares") \o deserializeAll(Rot("sumH"), "evalSumShares")
  \o With(Get({ctx}, {Mult("joined")}), {"publicKeys", "evalMultShares"})
  \o With(Get({ctx}, {Rot("sumFinal")}), {"publicKeys", "evalSumShares"})

combineEvalSumAllAtOnce ==
  Scope(Loop([i \in 1..Parties |-> Get({ctx}, {At(Pk("pks"), i)}) \o Get({ctx}, {At(Rot("shares"), i)})])
        \o Get({ctx}, {Rot("out")}) \o serialize(Rot("out")))
runIncrementalCombineCheck ==
  TwoParties \o Get({ctx, Pk("pk1")}, {Pk("pk2"), Sk("sk2")})
  \o LeadBase \o ShareOf("s1", "sk1", "pk1") \o ShareOf("s2", "sk2", "pk2")
  \o serialize(Rot("base")) \o serialize(Rot("s1")) \o serialize(Rot("s2"))
  \o serialize(Pk("pk0")) \o serialize(Pk("pk1")) \o serialize(Pk("pk2"))
  \o combineEvalSumAllAtOnce \o foldShares({})
=============================================================================
