------------------------------- MODULE Bridge -------------------------------
(***************************************************************************)
(* Calls into the cgo bridge.  A caller (a goroutine, or the worker a      *)
(* helper process runs) calls one function at a time; the function runs    *)
(* step by step, any step that is not sure may fail, and another caller's  *)
(* step may come between two of them.  The callers use the same contract   *)
(* parameters, so OpenFHE gives their contexts one tag and they share the  *)
(* process-wide table of evaluation keys.                                  *)
(***************************************************************************)
EXTENDS BridgeProgram, FiniteSets

CONSTANTS Callers,       \* goroutines that call the bridge
          Functions,     \* the functions they call
          EvalKeyOf      \* the evaluation-key bundle each of them passes

ASSUME CalledFunctions == Functions \subseteq DOMAIN Program

Gather(f, F(_)) == UNION {F(Program[f][i]) : i \in DOMAIN Program[f]}
Outs   == [f \in DOMAIN Program |-> Gather(f, LAMBDA s : s.out)]
(* Handles a function takes from its caller, and arguments that may be     *)
(* empty.                                                                  *)
Taken  == [f \in DOMAIN Program |-> Gather(f, LAMBDA s : s.use \cup s.defer \cup s.free) \ Outs[f]]
Inputs == [f \in DOMAIN Program |-> Gather(f, LAMBDA s : s.chk \cup s.addr \cup s.list)]

(* What a call hands to its caller, and what it takes back for good. *)
folded == Rot("folded")
Keeps(fn) == CASE fn = "NewCryptoContext"                     -> {ctx}
               [] fn = "NewEvalSumIncrementalFold"            -> {foldCtx, folded}
               [] fn = "NewEvalSumIncrementalFoldWithContext" -> {folded}
               [] OTHER -> {}
Releases(fn) == CASE fn = "Close"               -> {ctx}
                 [] fn = "Finalize"            -> {foldCtx, folded}
                 [] fn = "FinalizeWithContext" -> {folded}
                 [] OTHER -> {}

VARIABLES call,        \* per caller: the function, the steps left, its deferred frees
          live,        \* per caller: the native handles not yet freed
          keyTable     \* evaluation keys: <<kind, the bundle it belongs to>>

vars == <<call, live, keyTable>>

Entry(fn, missing, base) == [fn |-> fn, steps |-> Program[fn], missing |-> missing,
                             deferred |-> {}, base |-> base, status |-> "running",
                             ownCtx |-> ctx \in Outs[fn] \ Keeps(fn)]
Idle == [fn |-> "none", steps |-> << >>, missing |-> "nothing", deferred |-> {}, base |-> {},
         status |-> "idle", ownCtx |-> FALSE]

Init == /\ call = [c \in Callers |-> Idle]
        /\ live = [c \in Callers |-> {}]
        /\ keyTable = {}

Running(c) == call[c].status = "running"
Next1(c)   == Head(call[c].steps)

(* A caller passes on what it was handed and nothing else; it keeps a      *)
(* context open while a fold that borrows it is unfinished.                *)
Callable(f, hs) ==
  /\ Taken[f] \subseteq hs
  /\ Outs[f] \cap hs = {}
  /\ f \in {"FoldWithContext", "FinalizeWithContext"} => foldCtx \notin hs
  /\ f = "Close" => (folded \in hs => foldCtx \in hs)

Call(c) ==
  /\ call[c].status = "idle"
  /\ \E f \in Functions : \E m \in {"nothing"} \cup Inputs[f] :
       /\ Callable(f, live[c])
       /\ call' = [call EXCEPT ![c] = Entry(f, m, live[c])]
  /\ UNCHANGED <<live, keyTable>>

FreeAllKeysStay(c, hs) == live' = [live EXCEPT ![c] = @ \ hs] /\ UNCHANGED keyTable

(* FreeCryptoContext clears the keys of the context's tag. *)
FreeAll(c, hs) ==
  /\ live' = [live EXCEPT ![c] = @ \ hs]
  /\ keyTable' = IF \E h \in hs : h[1] = "ctx" THEN {} ELSE keyTable

(* The deferred frees run on every way out. *)
Return(c, status, extra) ==
  /\ call' = [call EXCEPT ![c].status = status, ![c].steps = << >>, ![c].deferred = {}]
  /\ FreeAll(c, call[c].deferred \cup extra)

Clear(t, ks) == {k \in t : /\ k[1] = "mult" => "clearMult" \notin ks
                          /\ k[1] = "sum"  => "clearSum" \notin ks}
Added(c, ks) == {<<k, EvalKeyOf[c]>> : k \in {x \in {"mult", "sum"} :
                   (x = "mult" /\ "addMult" \in ks) \/ (x = "sum" /\ "addSum" \in ks)}}
KeysFound(c, ks) == /\ "needMult" \in ks => <<"mult", EvalKeyOf[c]>> \in keyTable
                    /\ "needSum"  \in ks => <<"sum", EvalKeyOf[c]>> \in keyTable

(* Only the slice that is passed empty decides: the loop over it makes no  *)
(* round, its check refuses it, or its first element is addressed.         *)
Skips(c)   == call[c].missing \in Next1(c).list
Refuses(c) == ~Skips(c) /\ call[c].missing \in Next1(c).chk
Faults(c)  == ~Skips(c) /\ ~Refuses(c) /\ call[c].missing \in Next1(c).addr

Advance(c, deferred) ==
  [call[c] EXCEPT !.steps = Tail(@), !.deferred = deferred,
                  !.status = IF Len(call[c].steps) = 1 THEN "returning" ELSE @]

Succeed(c) ==
  LET s == Next1(c) IN
  /\ Running(c) /\ ~Skips(c) /\ ~Refuses(c) /\ ~Faults(c) /\ KeysFound(c, s.keys)
  /\ call' = [call EXCEPT ![c] = Advance(c, (call[c].deferred \cup s.defer) \ s.ret)]
  /\ live' = [live EXCEPT ![c] = (@ \cup s.out) \ (s.free \cup s.ret)]
  /\ keyTable' = IF \E h \in s.free \cup s.ret : h[1] = "ctx" THEN {}
                 ELSE Clear(keyTable, s.keys) \cup Added(c, s.keys)

(* clear-and-insert may fail between the two. *)
Fail(c) ==
  LET s == Next1(c) IN
  /\ Running(c) /\ ~Skips(c) /\ ~Faults(c)
  /\ Refuses(c) \/ ~s.sure
  /\ call' = [call EXCEPT ![c].status = "err", ![c].steps = << >>, ![c].deferred = {}]
  /\ LET freed == call[c].deferred \cup s.orfree
     IN  /\ live' = [live EXCEPT ![c] = @ \ freed]
         /\ keyTable' = IF \E h \in freed : h[1] = "ctx" THEN {} ELSE Clear(keyTable, s.keys)

Skip(c) == /\ Running(c) /\ Skips(c)
           /\ call' = [call EXCEPT ![c] = Advance(c, call[c].deferred)]
           /\ UNCHANGED <<live, keyTable>>

Panic(c) == Running(c) /\ Faults(c) /\ Return(c, "panic", {})

Finish(c) == call[c].status = "returning" /\ Return(c, "ok", {})

Resume(c) == /\ call[c].status \in {"ok", "err"}
             /\ call' = [call EXCEPT ![c] = Idle]
             /\ UNCHANGED <<live, keyTable>>

(* An index out of range is not recovered: the process ends, and the next  *)
(* one starts with nothing.                                                *)
Restart(c) == /\ call[c].status = "panic"
              /\ call' = [d \in Callers |-> Idle]
              /\ live' = [d \in Callers |-> {}]
              /\ keyTable' = {}

StepOf(c) == Succeed(c) \/ Fail(c) \/ Skip(c) \/ Panic(c) \/ Finish(c)

NextOf(c) == Call(c) \/ StepOf(c) \/ Resume(c) \/ Restart(c)

Next == \E c \in Callers : NextOf(c)

Spec == Init /\ [][Next]_vars

(***************************************************************************)
(* Properties.                                                             *)
(***************************************************************************)
(* SingleKeySoftArgmin returns from its encryption loop before it defers   *)
(* the frees of what the loop made.                                        *)
Leaks == {"SingleKeySoftArgmin"}

(* Every function returns with exactly the handles it was entered with,    *)
(* less what it takes back and more what it hands over on success: no      *)
(* native object is leaked on any error path, and none is lost because the *)
(* variable that holds it is assigned again.                               *)
HandleBalance ==
  \A c \in Callers :
    /\ Running(c) => Next1(c).out \cap live[c] = {}
    /\ (call[c].fn \notin Leaks \/ call[c].status = "ok") =>
         /\ call[c].status = "ok"  => live[c] = (call[c].base \cup Keeps(call[c].fn)) \ Releases(call[c].fn)
         /\ call[c].status = "err" => live[c] = call[c].base \ Releases(call[c].fn)

(* No step passes a freed handle to native code, and nothing is freed      *)
(* twice: by hand and by a deferred call, or by two of them.               *)
NoUseAfterFree ==
  \A c \in Callers :
    /\ call[c].status \in {"running", "returning"} => call[c].deferred \subseteq live[c]
    /\ (Running(c) /\ ~Skips(c) /\ ~Refuses(c) /\ ~Faults(c)) =>
         LET s == Next1(c) IN
         /\ s.use \subseteq live[c]
         /\ s.free \cup s.defer \subseteq live[c] \cup s.out
         /\ s.orfree \subseteq live[c] /\ s.orfree \cap call[c].deferred = {}
         /\ s.free \cap call[c].deferred = {} /\ s.ret \subseteq call[c].deferred

(* The functions that address the first element of a slice nothing checks. *)
Unguarded == {"CombineEvalMultSwitchSharesWithContext", "CombineEvalKeyRound2WithContext",
              "SingleKeyDecrypt", "ChunkedFusePayloadCKKS", "ChunkedFusePayloadCKKSWithContext",
              "ChunkedUnionScoreCKKS", "ChunkedUnionScoreCKKSWithConcurrency", "ChunkedUnionScoreCKKSWithEvalSumRefs",
              "FullFusePayloadCKKSWithContext", "FullFusePayloadCKKSWithEvalSumRefs",
              "benchResidentCombineRound1"}

(* bridge.go's convention for cgo calls: an empty slice is answered with   *)
(* an error before its first element is addressed, whichever argument of   *)
(* whichever function it is.                                               *)
AddressGuarded == \A c \in Callers : call[c].status = "panic" => call[c].fn \in Unguarded

(* An evaluation finds the keys its own call inserted: nothing clears them *)
(* between the insertion and the native call that looks them up.           *)
KeysPresent ==
  \A c \in Callers : Running(c) /\ ~Skips(c) /\ ~Refuses(c) /\ ~Faults(c)
                     => KeysFound(c, Next1(c).keys)

(* A function that made a context and freed it leaves no evaluation key *)
(* behind in the process-wide table, where the next context with the same  *)
(* parameters would inherit it.                                            *)
KeysReleased ==
  \A c \in Callers : (call[c].status = "ok" /\ call[c].ownCtx)
                     => \A k \in keyTable : k[2] # EvalKeyOf[c]

(* The combiners that fold the eval-sum shares one by one hold the         *)
(* accumulator and one more rotation key, however many parties there are;  *)
(* the per-index ones one more, the result so far.                         *)
Rots(c) == {h \in live[c] : h[1] = "rot"}
Folding   == {"CombineEvalKeyRound1", "BFVCombineEvalKeyRound1", "BFVCombineEvalKeyRound1Lazy",
              "CombineEvalSumSharesIncremental", "Fold", "FoldWithContext",
              "InsertEvalSumKeysPerIndexLazyWithContext"}
PerIndex  == {"CombineEvalKeyRound1PerIndexWithContext", "CombineEvalKeyRound1PerIndexLazy",
              "BFVCombineEvalKeyRound1PerIndexLazy"}
ResidentKeys ==
  \A c \in Callers : /\ call[c].fn \in Folding  => Cardinality(Rots(c) \ call[c].base) <= 2
                     /\ call[c].fn \in PerIndex => Cardinality(Rots(c) \ call[c].base) <= 3
=============================================================================
