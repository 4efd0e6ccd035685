--------------------------- MODULE Lineage_proofs ---------------------------
(***************************************************************************)
(* The lineage store is sound for every number of sessions, goroutines,    *)
(* participants, phases and nodes: proofs of what module Lineage states.   *)
(* No property of the store is inductive.  LineageInv adds that a session  *)
(* lists every node stored for it, and what a goroutine may rely on        *)
(* between its steps although others append meanwhile: the parents it has  *)
(* collected stay stored, the node it is about to append is one that       *)
(* Commit yields, and every entry Exit read has a node of its session.     *)
(***************************************************************************)
EXTENDS Lineage, TLAPS

(* A node as Commit makes it. *)
Committed(n) ==
  n = Commit(n.session, n.phase, n.role, n.payloadHash, n.parents, n.producer)

(* A node that may be appended: its session and its parents are known. *)
Ready(n) == Committed(n) /\ n.session \in Sessions /\ n.parents \subseteq Stored

(* The session's part of the store has a submission with this payload. *)
Submitted(s, payload) ==
  \E i \in DOMAIN bySession[s] :
     bySession[s][i].role = "slot-submission" /\ bySession[s][i].payload = payload

(* The store: a session lists the stored hashes that name it. *)
Listed ==
  /\ DOMAIN bySession = Sessions
  /\ \A s \in Sessions : bySession[s] \in Seq(Stored)
  /\ \A h \in Stored : /\ h.session \in Sessions
                       /\ \E i \in DOMAIN bySession[h.session] : bySession[h.session][i] = h

StoreInv == Listed /\ StoreSound /\ ParentsFirst

(* The context: what the slot-verification phase accumulates was submitted. *)
BucketInv ==
  /\ DOMAIN bucket = Sessions
  /\ \A s \in Sessions : DOMAIN bucket[s] = Participants
  /\ \A s \in Sessions, p \in Participants :
        bucket[s][p] # NoValue => Submitted(s, bucket[s][p])

(* Every list ever assembled names a parent for each of its entries. *)
ListInv ==
  \A h \in DOMAIN lists : \A payload \in lists[h] : \E q \in h.parents : q.payload = payload

Domains ==
  /\ DOMAIN pc = Threads /\ DOMAIN sid = Threads /\ DOMAIN parents = Threads
  /\ DOMAIN node = Threads /\ DOMAIN entries = Threads

(* What goroutine th relies on between two of its steps. *)
Frame(th) ==
  /\ pc[th] # "idle" => sid[th] \in Sessions
  /\ parents[th] \subseteq Stored
  /\ pc[th] \in {"append", "dispatch", "commitlist", "appendoutput"} =>
        Ready(node[th]) /\ node[th].session = sid[th]
  /\ pc[th] \in {"append", "dispatch"} =>
        node[th].role = "slot-submission" /\ node[th].payloadHash # NoValue
  /\ pc[th] = "dispatch" => node[th].hash \in Stored
  /\ pc[th] = "assemble" => \A p \in Participants : bucket[sid[th]][p] # NoValue
  /\ pc[th] = "collect" => \A payload \in entries[th] : Submitted(sid[th], payload)

LineageInv ==
  StoreInv /\ BucketInv /\ ListInv /\ Domains /\ \A th \in Threads : Frame(th)

-----------------------------------------------------------------------------
(* Nodes                                                                   *)

(* A node Commit made carries its own content in its hash. *)
LEMMA HashOfNode ==
  ASSUME NEW n, Committed(n)
  PROVE  /\ n.hash.session = n.session /\ n.hash.phase = n.phase
         /\ n.hash.role = n.role /\ n.hash.payload = n.payloadHash
         /\ n.hash.parents = n.parents
BY DEF Committed, Commit, DeriveNodeHash

(* What Commit yields is committed, to what it was given. *)
LEMMA CommitCommits ==
  ASSUME NEW s, NEW ph, NEW role, NEW payload, NEW ps, NEW signer, NEW n,
         n = Commit(s, ph, role, payload, ps, signer)
  PROVE  /\ Committed(n)
         /\ n.session = s /\ n.role = role /\ n.payloadHash = payload /\ n.parents = ps
         /\ n.hash = DeriveNodeHash(s, ph, role, payload, ps)
         /\ n.hash.parents = ps
BY DEF Committed, Commit, DeriveNodeHash

(* Verify lets a participant's node through only as it was signed. *)
LEMMA VerifiedIsSubmission ==
  ASSUME NEW s, NEW p, NEW slot, NEW ps, NEW damage \in Damages, NEW payload,
         Verify(Damaged(Submission(s, p, slot, ps), damage), payload)
  PROVE  Damaged(Submission(s, p, slot, ps), damage) = Submission(s, p, slot, ps)
<1> DEFINE n == Submission(s, p, slot, ps)
           m == Damaged(n, damage)
<1>1. CASE damage = "hash"
  <2>1. m = [n EXCEPT !.hash.role = "other"]
    BY <1>1 DEF Damaged
  <2>2. m.hash.role = "other" /\ m.role = "slot-submission"
    BY <2>1 DEF Submission, Commit, DeriveNodeHash
  <2>3. m.hash.role = m.role
    BY DEF Verify, DeriveNodeHash
  <2> QED BY <2>2, <2>3
<1>2. CASE damage = "signature"
  <2>1. m = [n EXCEPT !.signature.over = NoNode]
    BY <1>2 DEF Damaged
  <2>2. m.signature.over = << >>
    BY <2>1 DEF Submission, Commit, NoNode
  <2>3. m.signature.over = <<m.hash, m.session, m.phase, m.role>>
    BY DEF Verify, SigningMessage
  <2>4. \A a, b, c, d : << >> # <<a, b, c, d>>
    OBVIOUS
  <2> QED BY <2>2, <2>3, <2>4
<1>3. CASE damage = "algorithm"
  <2>1. m = [n EXCEPT !.algorithm = "unknown"]
    BY <1>3 DEF Damaged
  <2>2. m.algorithm = "unknown"
    BY <2>1 DEF Submission, Commit
  <2> QED BY <2>2 DEF Verify
<1>4. CASE damage \notin {"hash", "signature", "algorithm"}
  BY <1>4 DEF Damaged
<1> QED BY <1>1, <1>2, <1>3, <1>4

-----------------------------------------------------------------------------
(* The store                                                               *)

(* Nothing is lost from the store, and no place in a session's list moves. *)
Grows ==
  /\ Stored \subseteq Stored'
  /\ \A h \in Stored : byHash'[h] = byHash[h]
  /\ \A s \in Sessions : /\ DOMAIN bySession[s] \subseteq DOMAIN bySession'[s]
                         /\ \A i \in DOMAIN bySession[s] : bySession'[s][i] = bySession[s][i]

(* Append of a node whose parents are stored keeps the store sound, closed *)
(* and in topological order, and the node is there afterwards.             *)
LEMMA AppendKeeps ==
  ASSUME StoreInv, NEW n, Ready(n), Append1(n)
  PROVE  StoreInv' /\ Grows /\ n.hash \in Stored'
<1>1. CASE n.hash \in Stored /\ UNCHANGED storeVars
  BY <1>1 DEF StoreInv, Listed, StoreSound, ParentsFirst, Stored, storeVars, Grows
<1>2. CASE /\ n.hash \notin Stored
           /\ byHash' = [h \in Stored \cup {n.hash} |-> IF h = n.hash THEN n ELSE byHash[h]]
           /\ bySession' = [bySession EXCEPT ![n.session] = Append(@, n.hash)]
  <2> DEFINE s0 == n.session
             q == bySession[s0]
  <2>1. /\ Stored' = Stored \cup {n.hash} /\ byHash'[n.hash] = n
        /\ \A h \in Stored : byHash'[h] = byHash[h]
    BY <1>2 DEF Stored
  <2>2. s0 \in Sessions /\ q \in Seq(Stored) /\ DOMAIN bySession = Sessions
    BY DEF Ready, StoreInv, Listed
  <2>3. /\ DOMAIN bySession' = Sessions /\ bySession'[s0] = Append(q, n.hash)
        /\ \A s \in Sessions \ {s0} : bySession'[s] = bySession[s]
    BY <1>2, <2>2
  <2>4. /\ Len(q) \in Nat /\ DOMAIN q = 1..Len(q)
        /\ DOMAIN bySession'[s0] = 1..(Len(q) + 1)
        /\ bySession'[s0][Len(q) + 1] = n.hash
        /\ \A i \in 1..Len(q) : bySession'[s0][i] = q[i]
    BY <2>2, <2>3
  <2>5. \A s \in Sessions : /\ DOMAIN bySession[s] \subseteq DOMAIN bySession'[s]
                            /\ \A i \in DOMAIN bySession[s] : bySession'[s][i] = bySession[s][i]
    <3> SUFFICES ASSUME NEW s \in Sessions
                 PROVE  /\ DOMAIN bySession[s] \subseteq DOMAIN bySession'[s]
                        /\ \A i \in DOMAIN bySession[s] : bySession'[s][i] = bySession[s][i]
      OBVIOUS
    <3>1. CASE s = s0  BY <3>1, <2>4
    <3>2. CASE s # s0  BY <3>2, <2>3
    <3> QED BY <3>1, <3>2
  <2>6. Grows
    BY <2>1, <2>5 DEF Grows
  <2>7. n.hash.session = s0 /\ n.hash.parents = n.parents
    BY HashOfNode DEF Ready
  <2>8. Listed'
    <3>1. ASSUME NEW s \in Sessions PROVE bySession'[s] \in Seq(Stored')
      <4>1. bySession[s] \in Seq(Stored)
        BY DEF StoreInv, Listed
      <4>2. CASE s = s0
        <5>1. bySession[s] \in Seq(Stored') /\ n.hash \in Stored'
          BY <4>1, <2>1
        <5> QED BY <5>1, <4>2, <2>3
      <4>3. CASE s # s0
        BY <4>1, <4>3, <2>1, <2>3
      <4> QED BY <4>2, <4>3
    <3>2. ASSUME NEW h \in Stored'
          PROVE  /\ h.session \in Sessions
                 /\ \E i \in DOMAIN bySession'[h.session] : bySession'[h.session][i] = h
      <4>1. CASE h = n.hash
        BY <4>1, <2>2, <2>4, <2>7
      <4>2. CASE h \in Stored
        BY <4>2, <2>5, Zenon DEF StoreInv, Listed
      <4> QED BY <4>1, <4>2, <2>1
    <3> QED BY <3>1, <3>2, <2>3 DEF Listed
  <2>9. StoreSound'
    <3> SUFFICES ASSUME NEW h \in Stored'
                 PROVE  byHash'[h] = Commit(h.session, h.phase, h.role, h.payload, h.parents,
                                            byHash'[h].producer)
      BY <2>1 DEF StoreSound, Stored
    <3>1. CASE h = n.hash
      <4>1. n = Commit(h.session, h.phase, h.role, h.payload, h.parents, n.producer)
        BY <3>1, HashOfNode DEF Ready, Committed
      <4> QED BY <4>1, <3>1, <2>1
    <3>2. CASE h \in Stored
      BY <3>2, <2>1 DEF StoreInv, StoreSound
    <3> QED BY <3>1, <3>2, <2>1
  <2>10. ParentsFirst'
    <3> SUFFICES ASSUME NEW s \in Sessions, NEW i \in DOMAIN bySession'[s],
                        NEW h \in byHash'[bySession'[s][i]].parents
                 PROVE  /\ h \in Stored'
                        /\ h.session = s => \E j \in 1 .. i - 1 : bySession'[s][j] = h
      BY DEF ParentsFirst, Stored
    <3>1. CASE i \in DOMAIN bySession[s]
      <4>1. bySession[s] \in Seq(Stored) /\ DOMAIN bySession[s] = 1..Len(bySession[s])
            /\ i \in 1..Len(bySession[s]) /\ Len(bySession[s]) \in Nat
        BY <3>1 DEF StoreInv, Listed
      <4>2. bySession'[s][i] = bySession[s][i] /\ bySession[s][i] \in Stored
        BY <3>1, <4>1, <2>5
      <4>3. h \in byHash[bySession[s][i]].parents
        BY <4>2, <2>1
      <4>4. /\ h \in Stored
            /\ h.session = s => \E j \in 1 .. i - 1 : bySession[s][j] = h
        BY <4>3, <3>1 DEF StoreInv, ParentsFirst
      <4>5. \A j \in 1 .. i - 1 : bySession'[s][j] = bySession[s][j]
        BY <4>1, <2>5
      <4> QED BY <4>4, <4>5, <2>1
    <3>2. CASE i \notin DOMAIN bySession[s]
      <4>1. s = s0 /\ i = Len(q) + 1
        BY <3>2, <2>3, <2>4
      <4>2. h \in n.parents
        BY <4>1, <2>1, <2>4
      <4>3. h \in Stored
        BY <4>2 DEF Ready
      <4>4. ASSUME h.session = s PROVE \E j \in 1 .. i - 1 : bySession'[s][j] = h
        <5>1. PICK j \in DOMAIN q : q[j] = h
          BY <4>1, <4>3, <4>4 DEF StoreInv, Listed
        <5>2. j \in 1 .. i - 1
          BY <5>1, <4>1, <2>4
        <5>3. bySession'[s][j] = h
          BY <5>1, <4>1, <2>4
        <5> QED BY <5>2, <5>3
      <4> QED BY <4>3, <4>4, <2>1
    <3> QED BY <3>1, <3>2
  <2> QED BY <2>1, <2>6, <2>8, <2>9, <2>10 DEF StoreInv
<1> QED BY <1>1, <1>2 DEF Append1

(* The parent resolveParents finds for a key is a stored node. *)
LEMMA FirstMatchStored ==
  ASSUME StoreInv, NEW s \in Sessions, NEW k
  PROVE  FirstMatch(s, k) \subseteq Stored
<1>1. bySession[s] \in Seq(Stored)
  BY DEF StoreInv, Listed
<1> QED BY <1>1 DEF FirstMatch, Matches

(* A step that leaves the store alone keeps what is true of it. *)
LEMMA StoreUnchanged ==
  ASSUME StoreInv, UNCHANGED storeVars
  PROVE  StoreInv' /\ Grows
BY DEF StoreInv, Listed, StoreSound, ParentsFirst, Stored, storeVars, Grows

(* A submission that has a node keeps it. *)
LEMMA SubmittedStays ==
  ASSUME Grows, NEW s \in Sessions, NEW payload, Submitted(s, payload)
  PROVE  Submitted(s, payload)'
BY DEF Grows, Submitted

(* A bucket that is left alone still holds only what was submitted. *)
LEMMA BucketUnchanged ==
  ASSUME BucketInv, Grows, UNCHANGED bucket
  PROVE  BucketInv'
BY SubmittedStays DEF BucketInv

-----------------------------------------------------------------------------
(* Goroutines                                                              *)

(* A step of th leaves the frames of the other goroutines alone. *)
Others(th) ==
  \A t \in Threads \ {th} :
     /\ pc'[t] = pc[t] /\ sid'[t] = sid[t] /\ parents'[t] = parents[t]
     /\ node'[t] = node[t] /\ entries'[t] = entries[t]

(* A bucket entry, once set, may be replaced and is never cleared. *)
Fills ==
  \A s \in Sessions, p \in Participants : bucket[s][p] # NoValue => bucket'[s][p] # NoValue

(* What one goroutine relies on survives the steps of the others. *)
LEMMA FrameSurvives ==
  ASSUME NEW t \in Threads, Frame(t), Grows, Fills,
         pc'[t] = pc[t], sid'[t] = sid[t], parents'[t] = parents[t],
         node'[t] = node[t], entries'[t] = entries[t]
  PROVE  Frame(t)'
<1>1. Stored \subseteq Stored'
  BY DEF Grows
<1>2. pc[t] \in {"append", "dispatch", "commitlist", "appendoutput"} =>
        Ready(node[t])' /\ node'[t].session = sid'[t]
  BY <1>1 DEF Frame, Ready, Committed, Stored
<1>3. pc[t] = "collect" => \A payload \in entries[t] : Submitted(sid[t], payload)'
  BY SubmittedStays DEF Frame
<1>4. pc[t] = "assemble" => \A p \in Participants : bucket'[sid[t]][p] # NoValue
  BY DEF Frame, Fills
<1> QED BY <1>1, <1>2, <1>3, <1>4 DEF Frame, Submitted

(* A step keeps the invariant when it keeps the shared state sound and its *)
(* own goroutine's frame.                                                  *)
LEMMA StepKeeps ==
  ASSUME LineageInv, NEW th \in Threads, StoreInv', Grows, BucketInv', ListInv', Domains',
         Fills, Others(th), Frame(th)'
  PROVE  LineageInv'
<1>1. \A t \in Threads : Frame(t)'
  BY FrameSurvives DEF Others, LineageInv
<1> QED BY <1>1 DEF LineageInv

(* A goroutine that returns relies on nothing. *)
LEMMA ReturnKeeps ==
  ASSUME LineageInv, NEW th \in Threads, Return(th)
  PROVE  Domains' /\ Others(th) /\ Frame(th)'
<1>1. pc'[th] = "idle" /\ parents'[th] = {}
  BY Zenon DEF Return, Goto, LineageInv, Domains
<1>2. Frame(th)'
  BY <1>1 DEF Frame
<1>3. Domains' /\ Others(th)
  BY Zenon DEF Return, Goto, LineageInv, Domains, Others
<1> QED BY <1>2, <1>3

-----------------------------------------------------------------------------
(* Steps                                                                   *)

(* A message that verifies is as its participant signed it. *)
LEMMA InboundKeeps ==
  ASSUME LineageInv, NEW th \in Threads, NEW s \in Sessions, NEW p \in Participants,
         Inbound(th, s, p)
  PROVE  LineageInv'
<1>1. PICK slot \in Slots, ps \in ParentChoices(s), damage \in Damages :
        HandleLineageMessage(th, s, p, Damaged(Submission(s, p, slot, ps), damage),
                             IF damage = "payload" THEN {0} ELSE {slot})
  BY Zenon DEF Inbound
<1> DEFINE n == Damaged(Submission(s, p, slot, ps), damage)
           payload == IF damage = "payload" THEN {0} ELSE {slot}
<1> HIDE DEF n, payload
<1>2. HandleLineageMessage(th, s, p, n, payload)
  BY <1>1 DEF n, payload
<1>3. UNCHANGED <<storeVars, bucket, lists>>
  BY <1>2 DEF HandleLineageMessage, ctxVars
<1>4. StoreInv' /\ Grows /\ BucketInv' /\ ListInv' /\ Fills
  BY <1>3, StoreUnchanged, BucketUnchanged DEF LineageInv, ListInv, Fills
<1>5. CASE UNCHANGED frameVars
  <2>1. UNCHANGED <<pc, sid, parents, node, entries>>
    BY <1>5 DEF frameVars
  <2>2. Domains' /\ Others(th)
    BY <2>1 DEF LineageInv, Domains, Others
  <2>3. Frame(th)'
    BY <2>1, <1>4, FrameSurvives DEF LineageInv
  <2> QED BY <2>2, <2>3, <1>4, StepKeeps
<1>6. CASE /\ Verify(n, payload) /\ n.parents \subseteq Stored
           /\ Goto(th, "append") /\ sid' = [sid EXCEPT ![th] = s]
           /\ node' = [node EXCEPT ![th] = n] /\ UNCHANGED <<parents, entries>>
  <2>1. n = Submission(s, p, slot, ps)
    BY <1>6, VerifiedIsSubmission DEF n
  <2>2. /\ Committed(n) /\ n.session = s /\ n.role = "slot-submission"
        /\ n.payloadHash = {slot}
    BY <2>1, CommitCommits DEF Submission
  <2>3. n.payloadHash # NoValue
    BY <2>2 DEF NoValue
  <2>4. /\ pc'[th] = "append" /\ sid'[th] = s /\ node'[th] = n /\ parents'[th] = parents[th]
        /\ Domains' /\ Others(th)
    BY <1>6, Zenon DEF Goto, LineageInv, Domains, Others
  <2>5. Stored' = Stored /\ parents[th] \subseteq Stored
    BY <1>3 DEF storeVars, Stored, LineageInv, Frame
  <2>6. Ready(node[th])'
    BY <2>2, <2>4, <2>5, <1>6, Zenon DEF Ready, Committed
  <2>7. Frame(th)'
    BY <2>2, <2>3, <2>4, <2>5, <2>6 DEF Frame
  <2> QED BY <2>4, <2>7, <1>4, StepKeeps
<1> QED BY <1>2, <1>5, <1>6 DEF HandleLineageMessage

(* Appending the node of a message. *)
LEMMA MessageAppendKeeps ==
  ASSUME LineageInv, NEW th \in Threads, MessageAppend(th)
  PROVE  LineageInv'
<1> DEFINE n == node[th]
<1>1. /\ Ready(n) /\ n.session = sid[th] /\ n.role = "slot-submission"
      /\ n.payloadHash # NoValue /\ sid[th] \in Sessions /\ parents[th] \subseteq Stored
  BY DEF MessageAppend, LineageInv, Frame
<1>2. StoreInv' /\ Grows /\ n.hash \in Stored'
  BY <1>1, AppendKeeps DEF MessageAppend, LineageInv
<1>3. UNCHANGED <<bucket, lists, sid, parents, node, entries>>
  BY DEF MessageAppend, ctxVars
<1>4. BucketInv' /\ ListInv' /\ Fills
  BY <1>2, <1>3, BucketUnchanged DEF LineageInv, ListInv, Fills
<1>5. pc'[th] = "dispatch" /\ Domains' /\ Others(th)
  BY <1>3 DEF MessageAppend, Goto, LineageInv, Domains, Others
<1>6. Stored \subseteq Stored'
  BY <1>2 DEF Grows
<1>7. Ready(node[th])'
  BY <1>1, <1>3, <1>6, Zenon DEF Ready, Committed
<1>8. Frame(th)'
  BY <1>1, <1>2, <1>3, <1>5, <1>6, <1>7 DEF Frame
<1> QED BY <1>2, <1>4, <1>5, <1>8, StepKeeps

(* The phase takes a payload whose node is stored. *)
LEMMA MessageDispatchKeeps ==
  ASSUME LineageInv, NEW th \in Threads, MessageDispatch(th)
  PROVE  LineageInv'
<1> DEFINE s == sid[th]
           pl == node[th].payloadHash
           new == [bucket[s] EXCEPT ![from[th]] = pl]
<1>1. /\ s \in Sessions /\ Ready(node[th]) /\ node[th].session = s
      /\ node[th].role = "slot-submission" /\ pl # NoValue
      /\ node[th].hash \in Stored /\ parents[th] \subseteq Stored
  BY DEF MessageDispatch, LineageInv, Frame
<1>2. UNCHANGED storeVars /\ UNCHANGED lists
  BY DEF MessageDispatch
<1>3. StoreInv' /\ Grows /\ ListInv'
  BY <1>2, StoreUnchanged DEF LineageInv, ListInv
<1>4. Submitted(s, pl)
  <2>1. /\ node[th].hash.session = s /\ node[th].hash.role = "slot-submission"
        /\ node[th].hash.payload = pl
    BY <1>1, HashOfNode DEF Ready
  <2>2. PICK i \in DOMAIN bySession[s] : bySession[s][i] = node[th].hash
    BY <1>1, <2>1 DEF LineageInv, StoreInv, Listed
  <2> QED BY <2>1, <2>2 DEF Submitted
<1>5. DOMAIN bucket = Sessions /\ DOMAIN bucket[s] = Participants /\ DOMAIN new = Participants
  BY <1>1 DEF LineageInv, BucketInv
<1>6. \A p \in Participants : new[p] = pl \/ new[p] = bucket[s][p]
  BY <1>5
<1> HIDE DEF new
<1>7. ASSUME bucket' = [bucket EXCEPT ![s] = new]
      PROVE  /\ BucketInv' /\ Fills /\ bucket'[s] = new
  <2>1. /\ DOMAIN bucket' = Sessions /\ bucket'[s] = new
        /\ \A r \in Sessions \ {s} : bucket'[r] = bucket[r]
    BY <1>1, <1>5, <1>7
  <2>2. \A r \in Sessions : DOMAIN bucket'[r] = Participants
    BY <2>1, <1>5 DEF LineageInv, BucketInv
  <2>3. ASSUME NEW r \in Sessions, NEW p \in Participants, bucket'[r][p] # NoValue
        PROVE  Submitted(r, bucket'[r][p])
    <3>1. CASE r = s
      <4>1. new[p] = pl \/ new[p] = bucket[s][p]
        BY <1>6
      <4>2. bucket[s][p] # NoValue => Submitted(s, bucket[s][p])
        BY <1>1 DEF LineageInv, BucketInv
      <4> QED BY <4>1, <4>2, <3>1, <2>1, <2>3, <1>4
    <3>2. CASE r # s
      BY <3>2, <2>1, <2>3 DEF LineageInv, BucketInv
    <3> QED BY <3>1, <3>2
  <2>4. \A r \in Sessions, p \in Participants :
           bucket'[r][p] # NoValue => Submitted(r, bucket[r][p])'
    BY <2>3, <1>2 DEF Submitted, storeVars
  <2>5. Fills
    <3> SUFFICES ASSUME NEW r \in Sessions, NEW p \in Participants, bucket[r][p] # NoValue
                 PROVE  bucket'[r][p] # NoValue
      BY DEF Fills
    <3>1. CASE r = s  BY <3>1, <2>1, <1>6, <1>1
    <3>2. CASE r # s  BY <3>2, <2>1
    <3> QED BY <3>1, <3>2
  <2> QED BY <2>1, <2>2, <2>4, <2>5 DEF BucketInv
<1>8. CASE Return(th) /\ UNCHANGED bucket
  <2>1. BucketInv' /\ Fills
    BY <1>8, <1>3, BucketUnchanged DEF LineageInv, Fills
  <2> QED BY <2>1, <1>3, <1>8, ReturnKeeps, StepKeeps
<1>9. CASE /\ bucket' = [bucket EXCEPT ![s] = new]
           /\ \A p \in Participants : new[p] # NoValue
           /\ Goto(th, "assemble") /\ UNCHANGED <<sid, parents, node, entries>>
  <2>1. /\ pc'[th] = "assemble" /\ sid'[th] = s /\ parents'[th] = parents[th]
        /\ Domains' /\ Others(th)
    BY <1>9 DEF Goto, LineageInv, Domains, Others
  <2>2. BucketInv' /\ Fills /\ bucket'[s] = new
    BY <1>7, <1>9
  <2>3. Stored' = Stored
    BY <1>2, Zenon DEF storeVars, Stored
  <2>4. Frame(th)'
    BY <2>1, <2>2, <2>3, <1>1, <1>9 DEF Frame
  <2> QED BY <2>1, <2>2, <2>4, <1>3, StepKeeps
<1>10. CASE bucket' = [bucket EXCEPT ![s] = new] /\ Return(th)
  <2>1. BucketInv' /\ Fills
    BY <1>7, <1>10
  <2> QED BY <2>1, <1>3, <1>10, ReturnKeeps, StepKeeps
<1> QED BY <1>8, <1>9, <1>10 DEF MessageDispatch, new

(* Exit reads a full bucket: every entry has a node of the session. *)
LEMMA AssembleKeeps ==
  ASSUME LineageInv, NEW th \in Threads, Assemble(th)
  PROVE  LineageInv'
<1> DEFINE s == sid[th]
           payloads == {bucket[s][p] : p \in Participants}
<1>1. /\ s \in Sessions /\ parents[th] \subseteq Stored
      /\ \A p \in Participants : bucket[s][p] # NoValue
  BY Zenon DEF Assemble, LineageInv, Frame
<1>2. UNCHANGED storeVars /\ UNCHANGED bucket /\ UNCHANGED lists
  BY DEF Assemble, ctxVars
<1>3. StoreInv' /\ Grows /\ BucketInv' /\ ListInv' /\ Fills
  BY <1>2, StoreUnchanged, BucketUnchanged DEF LineageInv, ListInv, Fills
<1>4. CASE Return(th)
  BY <1>3, <1>4, ReturnKeeps, StepKeeps
<1>5. CASE /\ entries' = [entries EXCEPT ![th] = payloads]
           /\ Goto(th, "collect") /\ UNCHANGED <<sid, parents, node>>
  <2>1. /\ pc'[th] = "collect" /\ sid'[th] = s /\ parents'[th] = parents[th]
        /\ entries'[th] = payloads /\ Domains' /\ Others(th)
    BY <1>5 DEF Goto, LineageInv, Domains, Others
  <2>2. \A payload \in payloads : Submitted(s, payload)
    BY <1>1 DEF LineageInv, BucketInv
  <2>3. \A payload \in entries'[th] : Submitted(s, payload)'
    BY <2>1, <2>2, <1>1, <1>3, SubmittedStays
  <2>4. Stored' = Stored
    BY <1>2 DEF storeVars, Stored
  <2>5. Frame(th)'
    BY <2>1, <2>3, <2>4, <1>1 DEF Frame, Submitted
  <2> QED BY <2>1, <2>5, <1>3, StepKeeps
<1> QED BY <1>4, <1>5, Zenon DEF Assemble

(* The list's parents are the submissions in the store when it is signed, *)
(* and these are at least the ones Exit has read.                          *)
LEMMA CollectKeeps ==
  ASSUME LineageInv, NEW th \in Threads, Collect(th)
  PROVE  LineageInv'
<1> DEFINE s == sid[th]
           ps == {h \in Range(bySession[s]) : h.role = "slot-submission"}
           n == Commit(s, "anon-g-verify", "slot-list", Encode(entries[th]), ps, Self)
<1>1. /\ s \in Sessions /\ parents[th] \subseteq Stored
      /\ \A payload \in entries[th] : Submitted(s, payload)
  BY DEF Collect, LineageInv, Frame
<1>2. ps \subseteq Stored
  <2>1. bySession[s] \in Seq(Stored)
    BY <1>1 DEF LineageInv, StoreInv, Listed
  <2> QED BY <2>1 DEF Range
<1>3. \A payload \in entries[th] : \E q \in ps : q.payload = payload
  BY <1>1 DEF Submitted, Range
<1> HIDE DEF ps
<1>4. Committed(n) /\ n.session = s /\ n.parents = ps /\ n.hash.parents = ps
  <2>1. n = Commit(s, "anon-g-verify", "slot-list", Encode(entries[th]), ps, Self)
    BY Zenon
  <2> HIDE DEF n, s
  <2> QED BY <2>1, CommitCommits
<1>5. /\ node' = [node EXCEPT ![th] = n]
      /\ lists' = [h \in DOMAIN lists \cup {n.hash} |->
                     IF h = n.hash THEN entries[th] ELSE lists[h]]
      /\ Goto(th, "commitlist")
  BY Zenon DEF Collect, ps
<1>6. UNCHANGED storeVars /\ UNCHANGED <<bucket, sid, parents, entries>>
  BY DEF Collect, ctxVars
<1> HIDE DEF n
<1>7. StoreInv' /\ Grows /\ BucketInv' /\ Fills
  BY <1>6, StoreUnchanged, BucketUnchanged DEF LineageInv, Fills
<1>8. ListInv'
  <2> SUFFICES ASSUME NEW h \in DOMAIN lists', NEW payload \in lists'[h]
               PROVE  \E q \in h.parents : q.payload = payload
    BY DEF ListInv
  <2>1. CASE h = n.hash
    <3>1. payload \in entries[th]
      BY <2>1, <1>5
    <3> QED BY <3>1, <2>1, <1>3, <1>4
  <2>2. CASE h # n.hash
    <3>1. h \in DOMAIN lists /\ payload \in lists[h]
      BY <2>2, <1>5
    <3> QED BY <3>1 DEF LineageInv, ListInv
  <2> QED BY <2>1, <2>2
<1>9. /\ pc'[th] = "commitlist" /\ sid'[th] = s /\ parents'[th] = parents[th]
      /\ node'[th] = n /\ Domains' /\ Others(th)
  BY <1>5, <1>6 DEF Goto, LineageInv, Domains, Others
<1>10. Stored' = Stored
  BY <1>6, Zenon DEF storeVars, Stored
<1>11. Ready(node[th])'
  BY <1>1, <1>2, <1>4, <1>9, <1>10, ZenonT(60) DEF Ready, Committed
<1>12. Frame(th)'
  BY <1>1, <1>4, <1>9, <1>10, <1>11, Zenon DEF Frame
<1> QED BY <1>7, <1>8, <1>9, <1>12, StepKeeps, ZenonT(60)

(* CommitArtifact appends the list. *)
LEMMA CommitListKeeps ==
  ASSUME LineageInv, NEW th \in Threads, CommitList(th)
  PROVE  LineageInv'
<1>1. Ready(node[th])
  BY DEF CommitList, LineageInv, Frame
<1>2. StoreInv' /\ Grows
  BY <1>1, AppendKeeps DEF CommitList, LineageInv
<1>3. BucketInv' /\ ListInv' /\ Fills
  BY <1>2, BucketUnchanged DEF CommitList, LineageInv, ListInv, Fills
<1>4. Domains' /\ Others(th) /\ Frame(th)'
  BY ReturnKeeps DEF CommitList
<1> QED BY <1>2, <1>3, <1>4, StepKeeps

(* A phase has set its outputs, and the commit of them begins. *)
LEMMA PhaseExitKeeps ==
  ASSUME LineageInv, NEW th \in Threads, NEW s \in Sessions, NEW p, NEW new,
         PhaseExit(th, s, p, new)
  PROVE  LineageInv'
<1>1. UNCHANGED storeVars /\ UNCHANGED <<bucket, lists, parents, node, entries>>
  BY DEF PhaseExit
<1>2. StoreInv' /\ Grows /\ BucketInv' /\ ListInv' /\ Fills
  BY <1>1, StoreUnchanged, BucketUnchanged DEF LineageInv, ListInv, Fills
<1>3. /\ pc'[th] = "resolve" /\ sid'[th] = s /\ parents'[th] = parents[th]
      /\ Domains' /\ Others(th)
  <2>1. pc' = [pc EXCEPT ![th] = "resolve"] /\ sid' = [sid EXCEPT ![th] = s]
    BY DEF PhaseExit, Goto
  <2>2. Domains
    BY ZenonT(60) DEF LineageInv
  <2> QED BY <2>1, <2>2, <1>1, Zenon DEF Domains, Others
<1>4. Stored' = Stored /\ parents[th] \subseteq Stored
  BY <1>1, Zenon DEF storeVars, Stored, LineageInv, Frame
<1>5. Frame(th)'
  BY <1>3, <1>4 DEF Frame
<1> QED BY <1>2, <1>3, <1>5, StepKeeps

(* A parent that is found is stored, and stays so. *)
LEMMA ResolveParentKeeps ==
  ASSUME LineageInv, NEW th \in Threads, NEW k, ResolveParent(th, k)
  PROVE  LineageInv'
<1>1. UNCHANGED storeVars /\ UNCHANGED <<bucket, lists, pc, sid, node, entries>>
  BY DEF ResolveParent, ctxVars
<1>2. StoreInv' /\ Grows /\ BucketInv' /\ ListInv' /\ Fills
  BY <1>1, StoreUnchanged, BucketUnchanged, Zenon DEF LineageInv, ListInv, Fills
<1>3. pc[th] = "resolve" /\ sid[th] \in Sessions /\ parents[th] \subseteq Stored
  BY DEF ResolveParent, LineageInv, Frame
<1>4. FirstMatch(sid[th], k) \subseteq Stored
  BY <1>3, FirstMatchStored DEF LineageInv
<1>5. parents'[th] \subseteq Stored /\ Domains' /\ Others(th)
  <2>1. CASE UNCHANGED parents
    BY <2>1, <1>1, <1>3 DEF LineageInv, Domains, Others
  <2>2. CASE parents' = [parents EXCEPT ![th] = @ \cup FirstMatch(sid[th], k)]
    BY <2>2, <1>1, <1>3, <1>4 DEF LineageInv, Domains, Others
  <2> QED BY <2>1, <2>2, Zenon DEF ResolveParent
<1>6. Stored' = Stored
  BY <1>1 DEF storeVars, Stored
<1>7. Frame(th)'
  BY <1>1, <1>3, <1>5, <1>6 DEF Frame
<1> QED BY <1>2, <1>5, <1>7, StepKeeps, Zenon

(* All required keys have been looked at. *)
LEMMA ResolveDoneKeeps ==
  ASSUME LineageInv, NEW th \in Threads, ResolveDone(th)
  PROVE  LineageInv'
<1>1. UNCHANGED storeVars /\ UNCHANGED <<bucket, lists, sid, parents, node, entries>>
  BY DEF ResolveDone, ctxVars
<1>2. StoreInv' /\ Grows /\ BucketInv' /\ ListInv' /\ Fills
  BY <1>1, StoreUnchanged, BucketUnchanged, Zenon DEF LineageInv, ListInv, Fills
<1>3. sid[th] \in Sessions /\ parents[th] \subseteq Stored
  BY DEF ResolveDone, LineageInv, Frame
<1>4. pc'[th] = "output" /\ Domains' /\ Others(th)
  BY <1>1 DEF ResolveDone, Goto, LineageInv, Domains, Others
<1>5. Stored' = Stored
  BY <1>1 DEF storeVars, Stored
<1>6. Frame(th)'
  BY <1>1, <1>3, <1>4, <1>5 DEF Frame
<1> QED BY <1>2, <1>4, <1>6, StepKeeps

(* The node signed for an output has the collected parents. *)
LEMMA CommitOutputKeeps ==
  ASSUME LineageInv, NEW th \in Threads, NEW k, CommitOutput(th, k)
  PROVE  LineageInv'
<1> DEFINE payload == values[sid[th]][k]
           n == Commit(sid[th], phase[th], k, payload, parents[th], Self)
<1>1. UNCHANGED storeVars /\ UNCHANGED <<bucket, lists, sid, parents, entries>>
  BY DEF CommitOutput, ctxVars
<1>2. StoreInv' /\ Grows /\ BucketInv' /\ ListInv' /\ Fills
  BY <1>1, StoreUnchanged, BucketUnchanged, ZenonT(60) DEF LineageInv, ListInv, Fills
<1>3. pc[th] = "output" /\ sid[th] \in Sessions /\ parents[th] \subseteq Stored
  BY DEF CommitOutput, LineageInv, Frame
<1>4. Stored' = Stored
  BY <1>1, Zenon DEF storeVars, Stored
<1>5. Committed(n) /\ n.session = sid[th] /\ n.parents = parents[th]
  <2>1. n = Commit(sid[th], phase[th], k, payload, parents[th], Self)
    BY Zenon
  <2> HIDE DEF n, payload
  <2> QED BY <2>1, CommitCommits
<1>6. \/ UNCHANGED <<node, pc>>
      \/ node' = [node EXCEPT ![th] = n] /\ Goto(th, "appendoutput")
  BY DEF CommitOutput
<1> HIDE DEF n
<1>7. CASE UNCHANGED <<node, pc>>
  <2>1. Domains' /\ Others(th)
    BY <1>1, <1>7 DEF LineageInv, Domains, Others
  <2>2. Frame(th)'
    BY <1>1, <1>3, <1>4, <1>7 DEF Frame
  <2> QED BY <2>1, <2>2, <1>2, StepKeeps, Zenon
<1>8. CASE node' = [node EXCEPT ![th] = n] /\ Goto(th, "appendoutput")
  <2>1. pc'[th] = "appendoutput" /\ node'[th] = n /\ Domains' /\ Others(th)
    BY <1>1, <1>8 DEF Goto, LineageInv, Domains, Others
  <2>2. Ready(node[th])'
    BY <2>1, <1>3, <1>4, <1>5, ZenonT(60) DEF Ready, Committed
  <2>3. Frame(th)'
    BY <2>1, <2>2, <1>1, <1>3, <1>4, <1>5 DEF Frame
  <2> QED BY <2>1, <2>3, <1>2, StepKeeps, Zenon
<1> QED BY <1>6, <1>7, <1>8, Zenon

(* Appending the node of an output. *)
LEMMA AppendOutputKeeps ==
  ASSUME LineageInv, NEW th \in Threads, AppendOutput(th)
  PROVE  LineageInv'
<1>1. Ready(node[th]) /\ sid[th] \in Sessions /\ parents[th] \subseteq Stored
  BY DEF AppendOutput, LineageInv, Frame
<1>2. StoreInv' /\ Grows
  BY <1>1, AppendKeeps DEF AppendOutput, LineageInv
<1>3. UNCHANGED <<bucket, lists, sid, parents, node, entries>>
  BY DEF AppendOutput, ctxVars
<1>4. BucketInv' /\ ListInv' /\ Fills
  BY <1>2, <1>3, BucketUnchanged, Zenon DEF LineageInv, ListInv, Fills
<1>5. pc'[th] = "output" /\ Domains' /\ Others(th)
  BY <1>3 DEF AppendOutput, Goto, LineageInv, Domains, Others
<1>6. Stored \subseteq Stored'
  BY <1>2, Zenon DEF Grows
<1>7. Frame(th)'
  BY <1>1, <1>3, <1>5, <1>6 DEF Frame
<1> QED BY <1>2, <1>4, <1>5, <1>7, StepKeeps

(* All provided keys have been looked at. *)
LEMMA OutputsDoneKeeps ==
  ASSUME LineageInv, NEW th \in Threads, OutputsDone(th)
  PROVE  LineageInv'
<1>1. StoreInv' /\ Grows /\ BucketInv' /\ ListInv' /\ Fills
  BY StoreUnchanged, BucketUnchanged DEF OutputsDone, ctxVars, LineageInv, ListInv, Fills
<1>2. Domains' /\ Others(th) /\ Frame(th)'
  BY ReturnKeeps DEF OutputsDone
<1> QED BY <1>1, <1>2, StepKeeps

(* A step outside the lineage layer, and a stuttering one. *)
LEMMA QuietKeeps ==
  ASSUME LineageInv, UNCHANGED storeVars,
         UNCHANGED <<bucket, lists, pc, sid, parents, node, entries>>
  PROVE  LineageInv'
<1>1. StoreInv' /\ Grows /\ BucketInv' /\ ListInv' /\ Fills
  BY StoreUnchanged, BucketUnchanged DEF LineageInv, ListInv, Fills
<1>2. \A t \in Threads : Frame(t)'
  BY <1>1, FrameSurvives DEF LineageInv
<1> QED BY <1>1, <1>2 DEF LineageInv, Domains

-----------------------------------------------------------------------------
(* Theorems                                                                *)

(* The empty store, no message handled, every goroutine idle. *)
LEMMA InitLineage == Init => LineageInv
<1> SUFFICES ASSUME Init PROVE LineageInv
  OBVIOUS
<1>1. StoreInv
  <2>1. Stored = {} /\ DOMAIN bySession = Sessions
    BY Zenon DEF Init, Stored
  <2>2. \A s \in Sessions : bySession[s] = << >>
    BY Zenon DEF Init
  <2>3. << >> \in Seq(Stored) /\ DOMAIN << >> = {}
    OBVIOUS
  <2>4. \A s \in Sessions : bySession[s] \in Seq(Stored) /\ DOMAIN bySession[s] = {}
    BY <2>2, <2>3, ZenonT(60)
  <2> QED BY <2>1, <2>4 DEF StoreInv, Listed, StoreSound, ParentsFirst
<1>2. BucketInv /\ ListInv /\ Domains
  BY Zenon DEF Init, BucketInv, ListInv, Domains
<1>3. \A th \in Threads : pc[th] = "idle" /\ parents[th] = {}
  BY Zenon DEF Init
<1>4. \A th \in Threads : Frame(th)
  BY <1>3 DEF Frame
<1> QED BY <1>1, <1>2, <1>4 DEF LineageInv

(* Every step of every goroutine keeps the invariant. *)
LEMMA NextLineage == LineageInv /\ [Next]_vars => LineageInv'
<1> SUFFICES ASSUME LineageInv, [Next]_vars PROVE LineageInv'
  OBVIOUS
<1>1. CASE UNCHANGED vars
  BY <1>1, QuietKeeps DEF vars, ctxVars, frameVars
<1>2. ASSUME NEW s \in Sessions, NEW v, NEW k, SeedContext(s, k, v) PROVE LineageInv'
  BY <1>2, QuietKeeps DEF SeedContext, frameVars
<1>3. ASSUME NEW th \in Threads, NEW s \in Sessions, NEW p \in Participants, Inbound(th, s, p)
      PROVE  LineageInv'
  BY <1>3, InboundKeeps
<1>4. ASSUME NEW th \in Threads, NEW s \in Sessions, NEW p, NEW new, PhaseExit(th, s, p, new)
      PROVE  LineageInv'
  BY <1>4, PhaseExitKeeps
<1>5. ASSUME NEW th \in Threads,
             MessageAppend(th) \/ MessageDispatch(th) \/ Assemble(th) \/ Collect(th)
               \/ CommitList(th)
      PROVE  LineageInv'
  BY <1>5, MessageAppendKeeps, MessageDispatchKeeps, AssembleKeeps, CollectKeeps,
     CommitListKeeps, Zenon
<1>6. ASSUME NEW th \in Threads, NEW k, ResolveParent(th, k) \/ CommitOutput(th, k)
      PROVE  LineageInv'
  BY <1>6, ResolveParentKeeps, CommitOutputKeeps, Zenon
<1>7. ASSUME NEW th \in Threads, ResolveDone(th) \/ AppendOutput(th) \/ OutputsDone(th)
      PROVE  LineageInv'
  BY <1>7, ResolveDoneKeeps, AppendOutputKeeps, OutputsDoneKeeps, Zenon
<1> QED BY <1>1, <1>2, <1>3, <1>4, <1>5, <1>6, <1>7, ZenonT(30) DEF Next

(* Every step leaves the store alone or appends a node that is ready. *)
LEMMA NextAppends ==
  ASSUME LineageInv, [Next]_vars
  PROVE  UNCHANGED storeVars \/ \E th \in Threads : Ready(node[th]) /\ Append1(node[th])
<1>1. ASSUME NEW th \in Threads, MessageAppend(th) \/ CommitList(th) \/ AppendOutput(th)
      PROVE  Ready(node[th]) /\ Append1(node[th])
  <2>1. Append1(node[th]) /\ pc[th] \in {"append", "commitlist", "appendoutput"}
    BY <1>1, Zenon DEF MessageAppend, CommitList, AppendOutput
  <2> QED BY <2>1 DEF LineageInv, Frame
<1>2. ASSUME NEW th \in Threads, NEW s, NEW p, Inbound(th, s, p)
      PROVE  UNCHANGED storeVars
  <2>1. PICK n, payload : HandleLineageMessage(th, s, p, n, payload)
    BY <1>2, Zenon DEF Inbound
  <2> QED BY <2>1, Zenon DEF HandleLineageMessage
<1>3. ASSUME NEW th \in Threads,
             MessageDispatch(th) \/ Assemble(th) \/ Collect(th) \/ ResolveDone(th)
               \/ OutputsDone(th)
      PROVE  UNCHANGED storeVars
  <2>1. MessageDispatch(th) => UNCHANGED storeVars
    BY Zenon DEF MessageDispatch
  <2>2. Assemble(th) => UNCHANGED storeVars
    BY Zenon DEF Assemble
  <2>3. Collect(th) => UNCHANGED storeVars
    BY Zenon DEF Collect
  <2>4. ResolveDone(th) \/ OutputsDone(th) => UNCHANGED storeVars
    BY Zenon DEF ResolveDone, OutputsDone
  <2> QED BY <1>3, <2>1, <2>2, <2>3, <2>4, Zenon
<1>4. ASSUME NEW th \in Threads, NEW k, ResolveParent(th, k) \/ CommitOutput(th, k)
      PROVE  UNCHANGED storeVars
  <2>1. ResolveParent(th, k) => UNCHANGED storeVars
    BY Zenon DEF ResolveParent
  <2>2. CommitOutput(th, k) => UNCHANGED storeVars
    BY Zenon DEF CommitOutput
  <2> QED BY <1>4, <2>1, <2>2, Zenon
<1>5. ASSUME NEW th \in Threads, NEW s, NEW p, NEW new, PhaseExit(th, s, p, new)
      PROVE  UNCHANGED storeVars
  BY <1>5, Zenon DEF PhaseExit
<1>6. ASSUME NEW s, NEW k, NEW v, SeedContext(s, k, v) PROVE UNCHANGED storeVars
  BY <1>6 DEF SeedContext
<1>7. UNCHANGED vars => UNCHANGED storeVars
  BY DEF vars
<1> QED BY <1>1, <1>2, <1>3, <1>4, <1>5, <1>6, <1>7, ZenonT(30) DEF Next

(* The invariant holds for every number of sessions, goroutines and nodes, *)
(* whatever is received, assembled and committed at the same time.         *)
THEOREM LineageInductive == Spec => []LineageInv
BY InitLineage, NextLineage, PTL DEF Spec

(* Only what verifies is stored: each node under the hash of its content,  *)
(* as lineage.Commit makes it, on all three paths that call Store.Append.  *)
THEOREM StoreSoundSafe == Spec => []StoreSound
<1>1. LineageInv => StoreSound
  BY DEF LineageInv, StoreInv
<1> QED BY <1>1, LineageInductive, PTL

(* WalkSession lists a closed DAG in topological order: a node's parents   *)
(* are stored, those of its session before it.                             *)
THEOREM ParentsFirstSafe == Spec => []ParentsFirst
<1>1. LineageInv => ParentsFirst
  BY Zenon DEF LineageInv, StoreInv
<1> QED BY <1>1, LineageInductive, PTL

(* HandleLineageMessage gives the phase no payload whose node is not       *)
(* stored in the session.                                                  *)
THEOREM CommittedFirst == Spec => []CommittedBeforeHandled
<1>1. LineageInv => CommittedBeforeHandled
  BY DEF LineageInv, BucketInv, Submitted, CommittedBeforeHandled, Range
<1> QED BY <1>1, LineageInductive, PTL

(* The slot list CommitArtifact stores has a parent for each submission    *)
(* PhaseGVerify.Exit made it of.                                           *)
THEOREM ListCoveredSafe == Spec => []ListCovered
<1>1. LineageInv => ListCovered
  BY DEF LineageInv, ListInv, ListCovered
<1> QED BY <1>1, LineageInductive, PTL

(* Store.Append never replaces a node, and WalkSession's order only grows  *)
(* at its end.                                                             *)
THEOREM FirstCommitSafe == Spec => FirstCommitStands
<1> DEFINE Kept == /\ IsRestriction(byHash, byHash')
                   /\ \A s \in Sessions : IsRestriction(bySession[s], bySession'[s])
<1>1. LineageInv /\ [Next]_vars => [Kept]_vars
  <2> SUFFICES ASSUME LineageInv, [Next]_vars PROVE Kept
    OBVIOUS
  <2>1. Grows
    BY NextAppends, AppendKeeps, StoreUnchanged DEF LineageInv
  <2> QED BY <2>1 DEF Grows, Stored, IsRestriction
<1> QED BY <1>1, LineageInductive, PTL DEF Spec, FirstCommitStands

=============================================================================
