------------------------------ MODULE Lineage ------------------------------
(***************************************************************************)
(* Ciphertext lineage (SC-10): the content-addressed store of signed nodes *)
(* of pkg/ares/lineage, and what the runner does with it in                *)
(* pkg/ares/phase/runner_lineage.go.  Inbound messages are verified and    *)
(* their nodes appended before the phase sees them; after Exit the outputs *)
(* of a phase are committed with the nodes of its inputs as parents; and   *)
(* the slot-verification phase of pkg/ares/phase/anon, the one user of     *)
(* CommitArtifact, commits the list it assembles from the messages.        *)
(*                                                                         *)
(* Sessions share one store, as the runners of an application may.  A hash *)
(* is the tuple of what it is computed from (SHA-256 is taken to be        *)
(* injective, and parents are sorted before hashing, so a set stands for   *)
(* them); a signature is the pair of its key and what it signs.            *)
(***************************************************************************)
EXTENDS Integers, Sequences, FiniteSets, Functions

CONSTANTS
  Sessions,       \* session ids
  Threads,        \* goroutines
  Participants,   \* ctx[anon.participants]; each signs with a key of its own
  Self,           \* the runner's signer
  Slots,          \* slot indices a participant may submit
  Values,         \* byte payloads a phase may put under an output key
  Phases,         \* names of the phases whose outputs are auto-committed
  Requires,       \* Requires[p]: context keys phase p declares as inputs
  Provides,       \* Provides[p]: its outputs, those marked NoLineage left out
  MaxNodes        \* bound: nodes in the store

Keys == UNION ({Requires[p] : p \in Phases} \cup {Provides[p] : p \in Phases})

NoValue == {}        \* the key is not set, or its value is not []byte
NoNode == <<>>

ASSUME LineageAssumption ==
  /\ Self \notin Participants
  /\ Slots \subseteq Nat \ {0}
  /\ MaxNodes \in Nat
  /\ NoValue \notin Values
  /\ Requires \in [Phases -> SUBSET Keys] /\ Provides \in [Phases -> SUBSET Keys]

VARIABLES
  byHash,    \* store.byHash: hash -> node
  bySession, \* store.bySession: session -> hashes in the order of Append
  values,    \* session -> context key -> payload or NoValue
  bucket,    \* session -> participant -> slot payload accumulated
  verifying, \* sessions still in the slot-verification phase
  pc,        \* goroutine -> next step
  sid,       \* goroutine -> session of its call
  todo,      \* goroutine -> context keys still to look at
  phase,     \* goroutine -> phase whose outputs it commits
  parents,   \* goroutine -> hashes collected as parents
  node,      \* goroutine -> node to append
  from,      \* goroutine -> sender of the message
  entries,   \* goroutine -> submissions Exit has read from the bucket
  lists      \* history: hash of each assembled list -> payloads it is made of

storeVars == <<byHash, bySession>>
ctxVars == <<values, bucket, verifying>>
frameVars == <<pc, sid, todo, phase, parents, node, from, entries>>
vars == <<storeVars, ctxVars, frameVars, lists>>

Stored == DOMAIN byHash

-----------------------------------------------------------------------------
(* Nodes                                                                   *)

DeriveNodeHash(s, ph, role, payload, ps) ==
  [session |-> s, phase |-> ph, role |-> role, payload |-> payload, parents |-> ps]

SigningMessage(h, s, ph, role) == <<h, s, ph, role>>

\* lineage.Commit: a node with its hash, signed by signer.
Commit(s, ph, role, payload, ps, signer) ==
  LET h == DeriveNodeHash(s, ph, role, payload, ps) IN
  [hash |-> h, session |-> s, phase |-> ph, role |-> role, parents |-> ps,
   payloadHash |-> payload, producer |-> signer, algorithm |-> "ed25519",
   signature |-> [by |-> signer, over |-> SigningMessage(h, s, ph, role)]]

\* Slip: the declared hash is signed and trusted, and not derived again.
Verify_TrustsHash(n, payload) ==
  /\ n.algorithm = "ed25519"
  /\ n.payloadHash = payload
  /\ n.signature.by = n.producer

\* lineage.Verify: algorithm, payload, hash and signature, in that order.
Verify(n, payload) ==
  /\ n.algorithm = "ed25519"
  /\ n.payloadHash = payload
  /\ n.hash = DeriveNodeHash(n.session, n.phase, n.role, payload, n.parents)
  /\ n.signature.by = n.producer
  /\ n.signature.over = SigningMessage(n.hash, n.session, n.phase, n.role)

\* Slip: the store keeps the latest node of a hash.
Append1_Latest(n) ==
  /\ Cardinality(Stored \cup {n.hash}) <= MaxNodes
  /\ byHash' = [h \in Stored \cup {n.hash} |-> IF h = n.hash THEN n ELSE byHash[h]]
  /\ bySession' = [bySession EXCEPT ![n.session] =
                     IF n.hash \in Stored THEN @ ELSE Append(@, n.hash)]

\* Store.Append: nothing happens to a hash that is there already.
Append1(n) ==
  \/ /\ n.hash \in Stored
     /\ UNCHANGED storeVars
  \/ /\ n.hash \notin Stored
     /\ Cardinality(Stored) < MaxNodes
     /\ byHash' = [h \in Stored \cup {n.hash} |-> IF h = n.hash THEN n ELSE byHash[h]]
     /\ bySession' = [bySession EXCEPT ![n.session] = Append(@, n.hash)]

-----------------------------------------------------------------------------

Init ==
  /\ byHash = [h \in {} |-> NoNode]
  /\ bySession = [s \in Sessions |-> <<>>]
  /\ values = [s \in Sessions |-> [k \in Keys |-> NoValue]]
  /\ bucket = [s \in Sessions |-> [p \in Participants |-> NoValue]]
  /\ verifying = Sessions
  /\ pc = [th \in Threads |-> "idle"]
  /\ sid = [th \in Threads |-> CHOOSE s \in Sessions : TRUE]
  /\ todo = [th \in Threads |-> {}]
  /\ phase = [th \in Threads |-> ""]
  /\ parents = [th \in Threads |-> {}]
  /\ node = [th \in Threads |-> NoNode]
  /\ from = [th \in Threads |-> Self]
  /\ entries = [th \in Threads |-> {}]
  /\ lists = [h \in {} |-> {}]

Goto(th, step) == pc' = [pc EXCEPT ![th] = step]

Return(th) ==
  /\ Goto(th, "idle")
  /\ sid' = [sid EXCEPT ![th] = CHOOSE s \in Sessions : TRUE]
  /\ todo' = [todo EXCEPT ![th] = {}]
  /\ phase' = [phase EXCEPT ![th] = ""]
  /\ parents' = [parents EXCEPT ![th] = {}]
  /\ node' = [node EXCEPT ![th] = NoNode]
  /\ from' = [from EXCEPT ![th] = Self]
  /\ entries' = [entries EXCEPT ![th] = {}]

-----------------------------------------------------------------------------
(* HandleLineageMessage                                                    *)

\* Slip: the parents are not looked up.
HandleLineageMessage_AnyParent(th, s, p, n, payload) ==
  /\ pc[th] = "idle"
  /\ Verify(n, payload)
  /\ Goto(th, "append")
  /\ sid' = [sid EXCEPT ![th] = s]
  /\ node' = [node EXCEPT ![th] = n]
  /\ from' = [from EXCEPT ![th] = p]
  /\ UNCHANGED <<todo, phase, parents, entries, storeVars, ctxVars, lists>>

\* Verify, then every parent looked up in the store.  A message that fails
\* either fires the failure hook and goes no further.
HandleLineageMessage(th, s, p, n, payload) ==
  /\ pc[th] = "idle"
  /\ \/ /\ ~(Verify(n, payload) /\ n.parents \subseteq Stored)
        /\ UNCHANGED frameVars
     \/ /\ Verify(n, payload)
        /\ n.parents \subseteq Stored
        /\ Goto(th, "append")
        /\ sid' = [sid EXCEPT ![th] = s]
        /\ node' = [node EXCEPT ![th] = n]
        /\ from' = [from EXCEPT ![th] = p]
        /\ UNCHANGED <<todo, phase, parents, entries>>
  /\ UNCHANGED <<storeVars, ctxVars, lists>>

\* Slip: an Append that fails does not keep the message from the phase.
MessageAppend_BestEffort(th) ==
  /\ pc[th] = "append"
  /\ Append1(node[th]) \/ UNCHANGED storeVars
  /\ Goto(th, "dispatch")
  /\ UNCHANGED <<ctxVars, sid, todo, phase, parents, node, from, entries, lists>>

MessageAppend(th) ==
  /\ pc[th] = "append"
  /\ Append1(node[th])
  /\ Goto(th, "dispatch")
  /\ UNCHANGED <<ctxVars, sid, todo, phase, parents, node, from, entries, lists>>

\* HandleMessage: a phase other than slot verification refuses the message,
\* slot verification keeps the sender's latest payload, and the call that
\* finds the bucket complete goes on to Exit.
MessageDispatch(th) ==
  LET s == sid[th]
      new == [bucket[s] EXCEPT ![from[th]] = node[th].payloadHash] IN
  /\ pc[th] = "dispatch"
  /\ \/ s \notin verifying /\ Return(th) /\ UNCHANGED bucket
     \/ /\ s \in verifying
        /\ bucket' = [bucket EXCEPT ![s] = new]
        /\ \/ /\ \A p \in Participants : new[p] # NoValue
              /\ Goto(th, "assemble")
              /\ UNCHANGED <<sid, todo, phase, parents, node, from, entries>>
           \/ (\E p \in Participants : new[p] = NoValue) /\ Return(th)
  /\ UNCHANGED <<storeVars, values, verifying, lists>>

-----------------------------------------------------------------------------
(* PhaseGVerify.Exit                                                       *)

\* The encoded list: its entries, and 0 to tell it from a submission.
Encode(payloads) == {0} \cup UNION payloads

\* The bucket is read: a slot index taken twice fails Exit, the session
\* stays in the phase.
Assemble(th) ==
  LET raw == bucket[sid[th]]
      payloads == {raw[p] : p \in Participants} IN
  /\ pc[th] = "assemble"
  /\ \/ /\ \E p, q \in Participants : p # q /\ raw[p] = raw[q]
        /\ Return(th)
     \/ /\ \A p, q \in Participants : p # q => raw[p] # raw[q]
        /\ entries' = [entries EXCEPT ![th] = payloads]
        /\ Goto(th, "collect")
        /\ UNCHANGED <<sid, todo, phase, parents, node, from>>
  /\ UNCHANGED <<storeVars, ctxVars, lists>>

\* Slip: the list is committed as the runner would commit it, with the nodes
\* of the required keys for parents, and there are none.
Collect_Orphan(th) ==
  LET s == sid[th]
      n == Commit(s, "anon-g-verify", "slot-list", Encode(entries[th]), {}, Self) IN
  /\ pc[th] = "collect"
  /\ node' = [node EXCEPT ![th] = n]
  /\ lists' = [h \in DOMAIN lists \cup {n.hash} |->
                 IF h = n.hash THEN entries[th] ELSE lists[h]]
  /\ Goto(th, "commitlist")
  /\ UNCHANGED <<storeVars, ctxVars, sid, todo, phase, parents, from, entries>>

\* LineageDAG: every node of the session with the submission role becomes a
\* parent of the list.
Collect(th) ==
  LET s == sid[th]
      ps == {h \in Range(bySession[s]) : h.role = "slot-submission"}
      n == Commit(s, "anon-g-verify", "slot-list", Encode(entries[th]), ps, Self) IN
  /\ pc[th] = "collect"
  /\ node' = [node EXCEPT ![th] = n]
  /\ lists' = [h \in DOMAIN lists \cup {n.hash} |->
                 IF h = n.hash THEN entries[th] ELSE lists[h]]
  /\ Goto(th, "commitlist")
  /\ UNCHANGED <<storeVars, ctxVars, sid, todo, phase, parents, from, entries>>

\* CommitArtifact appends the node; the runner then leaves the phase, whose
\* one output is marked NoLineage.
CommitList(th) ==
  /\ pc[th] = "commitlist"
  /\ Append1(node[th])
  /\ verifying' = verifying \ {sid[th]}
  /\ Return(th)
  /\ UNCHANGED <<values, bucket, lists>>

-----------------------------------------------------------------------------
(* commitPhaseOutputsIfEnabled                                             *)

\* A phase of s has run Exit and set its outputs; its inputs were set
\* before, by an earlier phase or by the application.
PhaseExit(th, s, p, new) ==
  /\ pc[th] = "idle"
  /\ \A k \in Requires[p] : values[s][k] # NoValue
  /\ values' = [values EXCEPT ![s] =
                  [k \in Keys |-> IF k \in Provides[p] THEN new[k] ELSE @[k]]]
  /\ Goto(th, "resolve")
  /\ sid' = [sid EXCEPT ![th] = s]
  /\ phase' = [phase EXCEPT ![th] = p]
  /\ todo' = [todo EXCEPT ![th] = Requires[p]]
  /\ UNCHANGED <<storeVars, bucket, verifying, parents, node, from, entries, lists>>

\* The first node of the session, in the order of Append, that commits to
\* the payload under key k: a set of one, or none.
Matches(s, k) ==
  {i \in DOMAIN bySession[s] : byHash[bySession[s][i]].payloadHash = values[s][k]}
FirstMatch(s, k) ==
  {bySession[s][i] : i \in {m \in Matches(s, k) : \A j \in Matches(s, k) : m <= j}}

\* resolveParents, one required key: no match is no error.
ResolveParent(th, k) ==
  LET s == sid[th] IN
  /\ pc[th] = "resolve"
  /\ k \in todo[th]
  /\ todo' = [todo EXCEPT ![th] = @ \ {k}]
  /\ \/ /\ values[s][k] # NoValue
        /\ parents' = [parents EXCEPT ![th] = @ \cup FirstMatch(s, k)]
     \/ /\ values[s][k] = NoValue
        /\ UNCHANGED parents
  /\ UNCHANGED <<storeVars, ctxVars, pc, sid, phase, node, from, entries, lists>>

ResolveDone(th) ==
  /\ pc[th] = "resolve"
  /\ todo[th] = {}
  /\ todo' = [todo EXCEPT ![th] = Provides[phase[th]]]
  /\ Goto(th, "output")
  /\ UNCHANGED <<storeVars, ctxVars, sid, phase, parents, node, from, entries, lists>>

\* One provided key: its value is read and a node signed for it.
CommitOutput(th, k) ==
  LET s == sid[th] IN
  /\ pc[th] = "output"
  /\ k \in todo[th]
  /\ todo' = [todo EXCEPT ![th] = @ \ {k}]
  /\ \/ /\ values[s][k] # NoValue
        /\ node' = [node EXCEPT ![th] =
                      Commit(s, phase[th], k, values[s][k], parents[th], Self)]
        /\ Goto(th, "appendoutput")
     \/ /\ values[s][k] = NoValue
        /\ UNCHANGED <<node, pc>>
  /\ UNCHANGED <<storeVars, ctxVars, sid, phase, parents, from, entries, lists>>

AppendOutput(th) ==
  /\ pc[th] = "appendoutput"
  /\ Append1(node[th])
  /\ Goto(th, "output")
  /\ UNCHANGED <<ctxVars, sid, todo, phase, parents, node, from, entries, lists>>

OutputsDone(th) ==
  /\ pc[th] = "output"
  /\ todo[th] = {}
  /\ Return(th)
  /\ UNCHANGED <<storeVars, ctxVars, lists>>

\* The application puts a value into the context, such as the keys of an
\* earlier session (attrs of the admin request, set after BeginSession).
SeedContext(s, k, v) ==
  /\ values[s][k] = NoValue
  /\ values' = [values EXCEPT ![s][k] = v]
  /\ UNCHANGED <<storeVars, bucket, verifying, frameVars, lists>>

-----------------------------------------------------------------------------
(* Inputs                                                                  *)

\* The node a participant signs for its slot.
Submission(s, p, slot, ps) ==
  Commit(s, "anon-g-verify", "slot-submission", {slot}, ps, p)

\* A frame arrives as it was signed or damaged in one place.
Damages == {"none", "payload", "hash", "signature", "algorithm"}
Damaged(n, damage) ==
  CASE damage = "hash" -> [n EXCEPT !.hash.role = "other"]
    [] damage = "signature" -> [n EXCEPT !.signature.over = NoNode]
    [] damage = "algorithm" -> [n EXCEPT !.algorithm = "unknown"]
    [] OTHER -> n

\* No parent, one that is stored (chains of messages are bounded to two), or
\* one that never was.
ParentChoices(s) ==
  {{}} \cup {{h} : h \in {g \in Stored : g.parents = {}}}
       \cup {{DeriveNodeHash(s, "elsewhere", "missing", {0}, {})}}

Inbound(th, s, p) ==
  \E slot \in Slots, ps \in ParentChoices(s), damage \in Damages :
     HandleLineageMessage(th, s, p, Damaged(Submission(s, p, slot, ps), damage),
                          IF damage = "payload" THEN {0} ELSE {slot})

Next ==
  \/ \E th \in Threads :
       \/ \E s \in Sessions, p \in Participants : Inbound(th, s, p)
       \/ \E s \in Sessions, p \in Phases :
            \E new \in [Provides[p] -> Values \cup {NoValue}] : PhaseExit(th, s, p, new)
       \/ MessageAppend(th) \/ MessageDispatch(th)
       \/ Assemble(th) \/ Collect(th) \/ CommitList(th)
       \/ \E k \in Keys : ResolveParent(th, k) \/ CommitOutput(th, k)
       \/ ResolveDone(th) \/ AppendOutput(th) \/ OutputsDone(th)
  \/ \E s \in Sessions, v \in Values :
       \E k \in UNION {Requires[p] : p \in Phases} : SeedContext(s, k, v)

Spec == Init /\ [][Next]_vars

-----------------------------------------------------------------------------
(* Properties                                                              *)

\* Only what verifies is stored: a node stands under the hash of its own
\* content and is what Commit yields for that content and its producer, so
\* the producer signed this payload, phase, role and these parents, whatever
\* frames came in and whichever of the three paths appended it.
StoreSound ==
  \A h \in Stored :
     byHash[h] = Commit(h.session, h.phase, h.role, h.payload, h.parents,
                        byHash[h].producer)

\* The DAG is closed and WalkSession lists it in topological order: the
\* parents of a stored node are stored, and those of its own session come
\* before it, whichever goroutines append at the same time.
ParentsFirst ==
  \A s \in Sessions : \A i \in DOMAIN bySession[s] :
     \A h \in byHash[bySession[s][i]].parents :
        /\ h \in Stored
        /\ h.session = s => \E j \in 1 .. i - 1 : bySession[s][j] = h

\* The first commit stands: a stored node is never replaced, not even by one
\* with the same content from another producer, and stays in its session's
\* list at its place.
FirstCommitStands ==
  [][/\ IsRestriction(byHash, byHash')
     /\ \A s \in Sessions : IsRestriction(bySession[s], bySession'[s])]_vars

\* A phase sees no payload before its node is stored: every submission in
\* the bucket is committed to in the session's part of the store.
CommittedBeforeHandled ==
  \A s \in Sessions, p \in Participants : bucket[s][p] # NoValue =>
     \E h \in Range(bySession[s]) : h.payload = bucket[s][p]

\* The committed slot list has a parent for each submission it is made of,
\* although submissions keep arriving while Exit assembles it.
ListCovered ==
  \A h \in Stored \cap DOMAIN lists :
     \A payload \in lists[h] : \E q \in h.parents : q.payload = payload

=============================================================================
