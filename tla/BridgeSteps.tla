---------------------------- MODULE BridgeSteps ----------------------------
(***************************************************************************)
(* The steps the cgo bridge is made of.  Every function of                 *)
(* pkg/ares/crypto/cgo takes byte slices, turns them into native OpenFHE   *)
(* objects reached through handles, makes one or two native calls, turns   *)
(* the result back into bytes and must free every handle on every path     *)
(* out: with defer, or by hand where defer would come too late.            *)
(*                                                                         *)
(* A function is a sequence of steps.  A step checks arguments, uses live  *)
(* handles, may fail (the function then returns the error at once) and,    *)
(* when it succeeds, yields new handles.  The control is the code's: which *)
(* frees are deferred and from when on, which are written out, and which   *)
(* are written out on the error path only.  The numbers inside the         *)
(* handles are not modelled.                                               *)
(***************************************************************************)
EXTENDS Naturals, Sequences

CONSTANTS Parties,       \* how many elements a list argument has
          Indices        \* how many rotation indices a per-index key set has

ASSUME BridgeBounds == Parties \in Nat \ {0} /\ Indices \in Nat \ {0}

(* A handle is its C type, the Go variable that holds it and, in a slice,  *)
(* the position.                                                           *)
Pk(n)    == <<"pk", n, 0>>
Sk(n)    == <<"sk", n, 0>>
Mult(n)  == <<"mult", n, 0>>
Rot(n)   == <<"rot", n, 0>>
Ct(n)    == <<"ct", n, 0>>
AVec(n)  == <<"avec", n, 0>>
Mem(n)   == <<"mem", n, 0>>                 \* memory from malloc or C.CString
At(h, i) == <<h[1], h[2], i>>
All(h)   == {At(h, i) : i \in 1..Parties}
ctx      == <<"ctx", "ctx", 0>>
foldCtx  == <<"ctx", "fold", 0>>             \* the context an incremental fold owns

(* use: handles passed to the native call        out: handles it yields    *)
(* defer: handles whose free is deferred here    free: freed on success    *)
(* orfree: freed by hand when the step fails     sure: cannot fail         *)
(* chk: arguments whose absence is an error      addr: arguments whose     *)
(* first element is taken, a panic when absent   list: the slice a loop    *)
(* runs over, so an absent one skips the step    keys: what the step does  *)
(* with the process-wide evaluation keys         ret: handles whose free   *)
(* was deferred and runs now                                               *)
Step == [use |-> {}, out |-> {}, defer |-> {}, free |-> {}, orfree |-> {}, sure |-> FALSE,
         chk |-> {}, addr |-> {}, list |-> {}, keys |-> {}, ret |-> {}]

Check(args)   == << [Step EXCEPT !.chk = args] >>
Get(u, o)     == << [Step EXCEPT !.use = u, !.out = o, !.defer = o] >>
Hold(u, o)    == << [Step EXCEPT !.use = u, !.out = o] >>
Native(u)     == << [Step EXCEPT !.use = u] >>
Free(hs)      == << [Step EXCEPT !.free = hs, !.sure = TRUE] >>
Defer(hs)     == << [Step EXCEPT !.defer = hs, !.sure = TRUE] >>

(* The same steps with something added.                                    *)
With(p, args)   == [i \in DOMAIN p |-> [p[i] EXCEPT !.addr = @ \cup args]]
Keys(p, ks)     == [i \in DOMAIN p |-> [p[i] EXCEPT !.keys = @ \cup ks]]
Consume(p, hs)  == [i \in DOMAIN p |-> [p[i] EXCEPT !.free = @ \cup hs, !.orfree = @ \cup hs]]
OrFree(p, hs)   == [i \in DOMAIN p |-> [p[i] EXCEPT !.orfree = @ \cup hs]]
Over(p, arg)    == [i \in DOMAIN p |-> [p[i] EXCEPT !.list = @ \cup {arg}]]

(* A call of another Go function: its deferred frees run when it returns.  *)
Deferred(p) == (UNION {p[i].defer : i \in DOMAIN p}) \ (UNION {p[i].ret : i \in DOMAIN p})
Scope(p) == p \o << [Step EXCEPT !.ret = UNION {Deferred(q) : q \in {p}}, !.sure = TRUE] >>

(* A loop: its rounds, one after the other. *)
Loop(rounds) == LET upto[k \in 0..Len(rounds)] == IF k = 0 THEN << >> ELSE upto[k - 1] \o rounds[k]
                IN  upto[Len(rounds)]

(***************************************************************************)
(* Helpers of bridge.go.                                                   *)
(***************************************************************************)
requireNonEmptyBytes(arg) == Check({arg})

(* The context is created, adjusted and its free deferred by the caller.   *)
createContractContext    == Get({}, {ctx})
createBFVContractContext == Get({}, {ctx})

(* serializePublicKey ... serializeCiphertext: the native buffer is copied *)
(* to a Go slice and freed when the function returns.                      *)
serialize(h) == Scope(Get({h}, {Mem("data")}))

(* deserializePublicKey ... deserializeRotKey: the empty slice is refused  *)
(* before its first byte is addressed.                                     *)
deserializeIn(c, h, arg) ==
  With(<< [Step EXCEPT !.use = {c}, !.out = {h}, !.chk = {arg}] >>, {arg})
deserialize(h, arg) == deserializeIn(ctx, h, arg)
Load(h, arg)        == deserialize(h, arg) \o Defer({h})

deserializeAllOrLeak(h, arg) ==
  Over(Loop([i \in 1..Parties |-> Hold({ctx}, {At(h, i)})]) \o Defer(All(h)), arg)

(* deserializePublicKeys, ...EvalMultKeys, ...RotKeys: on a failure the    *)
(* handles made so far are freed; otherwise the caller defers free().      *)
deserializeAll(h, arg) ==
  Over(Loop([i \in 1..Parties |-> OrFree(Hold({ctx}, {At(h, i)}), {At(h, j) : j \in 1..(i - 1)})])
       \o Defer(All(h)), arg)

(* InsertEvalMultKey and InsertEvalSumKey clear the context's keys before  *)
(* they insert; InsertEvalSumKeyAppend does not.                           *)
InsertEvalMultKey(h)      == Keys(Native({ctx, h}), {"clearMult", "addMult"})
InsertEvalSumKey(h)       == Keys(Native({ctx, h}), {"clearSum", "addSum"})
ClearEvalSumKeys          == Keys(Native({ctx}), {"clearSum"})
InsertEvalSumKeyAppend(h) == Keys(Native({ctx, h}), {"addSum"})

LoadEvalMultOnly(arg) == Load(Mult("multKey"), arg)
LoadEvalMult(arg) == Load(Mult("multKey"), arg) \o InsertEvalMultKey(Mult("multKey"))
LoadEvalSum(arg)  == Load(Rot("sumKey"), arg) \o InsertEvalSumKey(Rot("sumKey"))
=============================================================================
