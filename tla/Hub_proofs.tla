----------------------------- MODULE Hub_proofs -----------------------------
(***************************************************************************)
(* Proofs about the hub, for any number of pseudonyms, connections, frames *)
(* and senders.                                                            *)
(***************************************************************************)
EXTENDS Hub, TLAPS

-----------------------------------------------------------------------------
(* The replay filter.  AtMostOnce is not inductive: what makes the second  *)
(* copy of a frame stop is that the first one, whether it was handled or   *)
(* is still between the filter and the handler, has its Seq recorded.      *)

ReaderSteps == {"none", "read", "limit", "close", "done"}

\* What the argument needs to know of the variables it is about.
ReplayTypeOK ==
  /\ used \in Nat
  /\ owner \in Seq(Pseudonyms) /\ Len(owner) = used
  /\ reader \in [Conns -> ReaderSteps]
  /\ frame \in [Conns -> Frames \cup {NoFrame}]
  /\ seqHigh \in [Pseudonyms \X Keys -> Nat]
  /\ handled \in [Pseudonyms \X Frames -> 0 .. 2]

\* A readPump belongs to a registered connection, and between the filter and
\* the handler it holds a frame.
ReadersRegistered ==
  \A c \in Conns :
     /\ reader[c] # "none" => c <= used
     /\ reader[c] = "limit" => frame[c] \in Frames

\* A numbered frame between the filter and the handler has its number
\* recorded and has not been handled.
HeldRecorded ==
  \A c \in Conns : reader[c] = "limit" /\ frame[c].seq # 0 =>
     /\ frame[c].seq <= seqHigh[<<owner[c], frame[c].key>>]
     /\ handled[<<owner[c], frame[c]>>] = 0

\* Two connections of one pseudonym never hold the same numbered frame.
HeldApart ==
  \A c, d \in Conns :
     /\ c # d /\ owner[c] = owner[d]
     /\ reader[c] = "limit" /\ reader[d] = "limit"
     /\ frame[c] = frame[d]
     => frame[c].seq = 0

\* The number of a frame that was handled is recorded.
HandledRecorded ==
  \A p \in Pseudonyms, f \in Frames : f.seq # 0 /\ handled[<<p, f>>] > 0 =>
     f.seq <= seqHigh[<<p, f.key>>]

HandledOnce ==
  \A p \in Pseudonyms, f \in Frames : f.seq # 0 => handled[<<p, f>>] <= 1

ReplayInv ==
  /\ ReplayTypeOK
  /\ ReadersRegistered
  /\ HeldRecorded
  /\ HeldApart
  /\ HandledRecorded
  /\ HandledOnce

replayVars == <<used, owner, reader, frame, seqHigh, handled>>

\* What the invariant says of a connection that holds a frame.
LEMMA HolderFacts ==
  ASSUME ReplayInv, NEW c \in Conns, reader[c] # "none"
  PROVE  c \in 1 .. used /\ owner[c] \in Pseudonyms
  BY DEF ReplayInv, ReplayTypeOK, ReadersRegistered, Conns

\* A step that leaves the filter's variables alone keeps the invariant.
LEMMA ReplayUntouched ==
  ASSUME ReplayInv, UNCHANGED replayVars
  PROVE  ReplayInv'
  BY DEF ReplayInv, replayVars, ReplayTypeOK, ReadersRegistered, HeldRecorded,
         HeldApart, HandledRecorded, HandledOnce

\* A connection's readPump ends, or takes a step that gives it no frame.
LEMMA ReplayReader ==
  ASSUME ReplayInv, NEW c \in Conns, NEW step \in ReaderSteps,
         step # "limit", reader[c] # "none",
         reader' = [reader EXCEPT ![c] = step],
         UNCHANGED <<used, owner, frame, seqHigh, handled>>
  PROVE  ReplayInv'
  <1>1. ReplayTypeOK'
    BY DEF ReplayInv, ReplayTypeOK
  <1>2. \A d \in Conns : reader'[d] = "limit" => reader[d] = "limit"
    BY DEF ReplayInv, ReplayTypeOK
  <1>3. \A d \in Conns : reader'[d] # "none" => reader[d] # "none"
    BY DEF ReplayInv, ReplayTypeOK
  <1>4. ReadersRegistered'
    BY <1>2, <1>3 DEF ReplayInv, ReadersRegistered
  <1>5. HeldRecorded' /\ HeldApart'
    BY <1>2 DEF ReplayInv, HeldRecorded, HeldApart
  <1>6. HandledRecorded' /\ HandledOnce'
    BY DEF ReplayInv, HandledRecorded, HandledOnce
  <1> QED BY <1>1, <1>4, <1>5, <1>6 DEF ReplayInv

\* A new connection starts reading and holds no frame.
LEMMA ReplayConnect ==
  ASSUME ReplayInv, NEW p \in Pseudonyms, HandleWS(p)
  PROVE  ReplayInv'
  <1>1. /\ used' = used + 1 /\ used + 1 \in Conns
        /\ owner' = Append(owner, p)
        /\ reader' = [reader EXCEPT ![used + 1] = "read"]
        /\ UNCHANGED <<frame, seqHigh, handled>>
    BY HubAssumption DEF HandleWS, ReplayInv, ReplayTypeOK, Conns
  <1>2. ReplayTypeOK'
    <2>1. owner' \in Seq(Pseudonyms) /\ Len(owner') = used'
      BY <1>1 DEF ReplayInv, ReplayTypeOK
    <2>2. reader' \in [Conns -> ReaderSteps]
      BY <1>1 DEF ReplayInv, ReplayTypeOK, ReaderSteps
    <2> QED BY <1>1, <2>1, <2>2 DEF ReplayInv, ReplayTypeOK
  <1>3. \A d \in Conns : reader'[d] = "limit" =>
          reader[d] = "limit" /\ d \in 1 .. used /\ owner'[d] = owner[d]
    BY <1>1, HolderFacts DEF ReplayInv, ReplayTypeOK
  <1>4. ReadersRegistered'
    BY <1>1, <1>3 DEF ReplayInv, ReplayTypeOK, ReadersRegistered, Conns
  <1>5. HeldRecorded' /\ HeldApart'
    <2>1. HeldRecorded'
      BY <1>1, <1>3, Zenon DEF ReplayInv, HeldRecorded
    <2>2. HeldApart'
      <3> SUFFICES ASSUME NEW a \in Conns, NEW b \in Conns, a # b, owner'[a] = owner'[b],
                          reader'[a] = "limit", reader'[b] = "limit", frame'[a] = frame'[b]
                   PROVE  frame'[a].seq = 0
        BY DEF HeldApart
      <3>1. /\ owner[a] = owner[b] /\ reader[a] = "limit" /\ reader[b] = "limit"
            /\ frame[a] = frame[b] /\ frame'[a] = frame[a]
        BY <1>1, <1>3, Zenon
      <3> QED BY <3>1, Zenon DEF ReplayInv, HeldApart
    <2> QED BY <2>1, <2>2
  <1>6. HandledRecorded' /\ HandledOnce'
    BY <1>1 DEF ReplayInv, HandledRecorded, HandledOnce
  <1> QED BY <1>2, <1>4, <1>5, <1>6 DEF ReplayInv

\* A frame passes the filter: it is the first of its number, or has none.
LEMMA ReplayPass ==
  ASSUME ReplayInv, NEW c \in Conns, NEW f \in Frames,
         reader[c] = "read",
         CheckAndRecordSeq(owner[c], f, TRUE),
         frame' = [frame EXCEPT ![c] = f],
         reader' = [reader EXCEPT ![c] = "limit"],
         UNCHANGED <<used, owner, handled>>
  PROVE  ReplayInv'
  <1> DEFINE k == <<owner[c], f.key>>
  <1>1. owner[c] \in Pseudonyms /\ k \in Pseudonyms \X Keys
    BY HolderFacts DEF Frames
  <1>2. f.seq \in Nat
    BY HubAssumption DEF Frames
  <1>3. /\ f.seq # 0 => f.seq > seqHigh[k]
        /\ seqHigh' = IF f.seq = 0 THEN seqHigh ELSE [seqHigh EXCEPT ![k] = f.seq]
    BY <1>1, <1>2 DEF CheckAndRecordSeq, ReplayInv, ReplayTypeOK
  <1>4. ReplayTypeOK'
    <2>1. reader' \in [Conns -> ReaderSteps] /\ frame' \in [Conns -> Frames \cup {NoFrame}]
      BY DEF ReplayInv, ReplayTypeOK, ReaderSteps
    <2>2. seqHigh' \in [Pseudonyms \X Keys -> Nat]
      BY <1>1, <1>2, <1>3 DEF ReplayInv, ReplayTypeOK
    <2> QED BY <2>1, <2>2 DEF ReplayInv, ReplayTypeOK
  <1>5. \A x \in Pseudonyms \X Keys : seqHigh[x] <= seqHigh'[x]
    <2>1. seqHigh \in [Pseudonyms \X Keys -> Nat]
      BY DEF ReplayInv, ReplayTypeOK
    <2>2. CASE f.seq = 0
      BY <1>3, <2>1, <2>2
    <2>3. CASE f.seq # 0
      <3>1. seqHigh' = [seqHigh EXCEPT ![k] = f.seq] /\ f.seq > seqHigh[k]
        BY <1>3, <2>3
      <3> HIDE DEF k
      <3>2. TAKE x \in Pseudonyms \X Keys
      <3>3. CASE x = k
        BY <1>1, <1>2, <2>1, <3>1, <3>3
      <3>4. CASE x # k
        BY <1>1, <2>1, <3>1, <3>4
      <3> QED BY <3>3, <3>4
    <2> QED BY <2>2, <2>3
  <1>6. f.seq # 0 => f.seq <= seqHigh'[k]
    BY <1>1, <1>2, <1>3 DEF ReplayInv, ReplayTypeOK
  <1>7. f.seq # 0 => handled[<<owner[c], f>>] = 0
    BY <1>1, <1>2, <1>3 DEF ReplayInv, ReplayTypeOK, HandledRecorded
  <1>8. \A d \in Conns : d # c => frame'[d] = frame[d] /\ reader'[d] = reader[d]
    BY DEF ReplayInv, ReplayTypeOK
  <1>9. frame'[c] = f /\ reader'[c] = "limit"
    BY DEF ReplayInv, ReplayTypeOK
  <1>10. ReadersRegistered'
    BY <1>8, <1>9 DEF ReplayInv, ReadersRegistered
  <1>11. HeldRecorded'
    <2> SUFFICES ASSUME NEW d \in Conns, reader'[d] = "limit", frame'[d].seq # 0
                 PROVE  /\ frame'[d].seq <= seqHigh'[<<owner[d], frame'[d].key>>]
                        /\ handled[<<owner[d], frame'[d]>>] = 0
      BY DEF HeldRecorded
    <2>1. CASE d = c
      BY <2>1, <1>6, <1>7, <1>9
    <2>2. CASE d # c
      <3>1. frame[d] \in Frames /\ owner[d] \in Pseudonyms
        BY <1>8, <2>2, HolderFacts DEF ReplayInv, ReadersRegistered
      <3>2. <<owner[d], frame[d].key>> \in Pseudonyms \X Keys /\ frame[d].seq \in Nat
        BY <3>1, HubAssumption DEF Frames
      <3> DEFINE x == <<owner[d], frame[d].key>>
      <3>3. seqHigh[x] <= seqHigh'[x] /\ seqHigh[x] \in Nat /\ seqHigh'[x] \in Nat
        BY <3>2, <1>4, <1>5 DEF ReplayInv, ReplayTypeOK
      <3>4. frame[d].seq <= seqHigh[x] /\ handled[<<owner[d], frame[d]>>] = 0
        BY <1>8, <2>2 DEF ReplayInv, HeldRecorded
      <3> QED BY <1>8, <2>2, <3>2, <3>3, <3>4
    <2> QED BY <2>1, <2>2
  <1>12. HeldApart'
    <2>1. \A d \in Conns : d # c /\ owner[d] = owner[c] /\ reader[d] = "limit"
             /\ frame[d] = f => f.seq = 0
      <3>1. seqHigh[k] \in Nat
        BY <1>1 DEF ReplayInv, ReplayTypeOK
      <3>2. \A d \in Conns : owner[d] = owner[c] /\ reader[d] = "limit"
             /\ frame[d] = f /\ f.seq # 0 => f.seq <= seqHigh[k]
        BY Zenon DEF ReplayInv, HeldRecorded
      <3> QED BY <1>2, <1>3, <3>1, <3>2
    <2> QED BY <1>8, <1>9, <2>1 DEF ReplayInv, HeldApart
  <1>13. HandledRecorded'
    <2> SUFFICES ASSUME NEW p \in Pseudonyms, NEW g \in Frames,
                        g.seq # 0, handled[<<p, g>>] > 0
                 PROVE  g.seq <= seqHigh'[<<p, g.key>>]
      BY DEF HandledRecorded
    <2>1. <<p, g.key>> \in Pseudonyms \X Keys /\ g.seq \in Nat
      BY HubAssumption DEF Frames
    <2>2. g.seq <= seqHigh[<<p, g.key>>]
      BY DEF ReplayInv, HandledRecorded
    <2> QED BY <1>4, <1>5, <2>1, <2>2 DEF ReplayInv, ReplayTypeOK
  <1>14. HandledOnce'
    BY DEF ReplayInv, HandledOnce
  <1> QED BY <1>4, <1>10, <1>11, <1>12, <1>13, <1>14 DEF ReplayInv

\* The frame leaves the filter: it is handled, for the first time if it has a
\* number, or dropped by the limiter.
LEMMA ReplayDispatch ==
  ASSUME ReplayInv, NEW c \in Conns, Dispatch(c)
  PROVE  ReplayInv'
  <1> DEFINE f == frame[c]
             k == <<owner[c], f>>
  <1>1. reader[c] = "limit"
    BY DEF Dispatch
  <1>2. f \in Frames /\ owner[c] \in Pseudonyms
    BY <1>1, HolderFacts DEF ReplayInv, ReadersRegistered
  <1>3. k \in Pseudonyms \X Frames /\ f.key \in Keys /\ f.seq \in Nat
    BY <1>2, HubAssumption DEF Frames
  <1>4. /\ reader' = [reader EXCEPT ![c] = "read"]
        /\ frame' = [frame EXCEPT ![c] = NoFrame]
        /\ UNCHANGED <<used, owner, seqHigh>>
    BY DEF Dispatch, mapVars
  <1>5. handled' = handled \/ handled' = [handled EXCEPT ![k] = Bump(@)]
    BY Zenon DEF Dispatch
  <1>6. handled \in [Pseudonyms \X Frames -> 0 .. 2]
    BY DEF ReplayInv, ReplayTypeOK
  <1>7. handled' \in [Pseudonyms \X Frames -> 0 .. 2]
    <2>1. Bump(handled[k]) \in 0 .. 2
      BY <1>3, <1>6 DEF Bump
    <2> QED BY <1>5, <1>6, <2>1
  <1>8. \A x \in Pseudonyms \X Frames : x # k => handled'[x] = handled[x]
    BY <1>5, <1>6
  <1>9. f.seq # 0 => /\ f.seq <= seqHigh[<<owner[c], f.key>>]
                     /\ handled'[k] <= 1
    <2>1. f.seq # 0 => /\ f.seq <= seqHigh[<<owner[c], f.key>>]
                       /\ handled[k] = 0
      BY <1>1 DEF ReplayInv, HeldRecorded
    <2> QED BY <1>3, <1>5, <1>6, <2>1 DEF Bump
  <1>10. ReplayTypeOK'
    <2>1. reader' \in [Conns -> ReaderSteps]
      BY <1>4 DEF ReplayInv, ReplayTypeOK, ReaderSteps
    <2>2. frame' \in [Conns -> Frames \cup {NoFrame}]
      BY <1>4 DEF ReplayInv, ReplayTypeOK
    <2> QED BY <1>4, <1>7, <2>1, <2>2 DEF ReplayInv, ReplayTypeOK
  <1>11. \A d \in Conns : reader'[d] = "limit" =>
           d # c /\ reader[d] = "limit" /\ frame'[d] = frame[d]
    BY <1>4 DEF ReplayInv, ReplayTypeOK
  <1>12. ReadersRegistered'
    <2>1. \A d \in Conns : reader'[d] # "none" => reader[d] # "none"
      BY <1>1, <1>4 DEF ReplayInv, ReplayTypeOK
    <2> QED BY <1>4, <1>11, <2>1 DEF ReplayInv, ReadersRegistered
  <1>13. HeldRecorded'
    <2> SUFFICES ASSUME NEW d \in Conns, reader'[d] = "limit", frame'[d].seq # 0
                 PROVE  /\ frame'[d].seq <= seqHigh[<<owner[d], frame'[d].key>>]
                        /\ handled'[<<owner[d], frame'[d]>>] = 0
      BY <1>4 DEF HeldRecorded
    <2>1. d # c /\ reader[d] = "limit" /\ frame'[d] = frame[d]
      BY <1>11
    <2>2. frame[d] \in Frames /\ owner[d] \in Pseudonyms
      BY <2>1, HolderFacts DEF ReplayInv, ReadersRegistered
    <2>3. <<owner[d], frame[d]>> # k
      BY <1>1, <2>1 DEF ReplayInv, HeldApart
    <2>4. /\ frame[d].seq <= seqHigh[<<owner[d], frame[d].key>>]
          /\ handled[<<owner[d], frame[d]>>] = 0
      BY <2>1 DEF ReplayInv, HeldRecorded
    <2> QED BY <1>8, <2>1, <2>2, <2>3, <2>4
  <1>14. HeldApart'
    BY <1>4, <1>11 DEF ReplayInv, HeldApart
  <1>15. HandledRecorded'
    <2> SUFFICES ASSUME NEW p \in Pseudonyms, NEW g \in Frames,
                        g.seq # 0, handled'[<<p, g>>] > 0
                 PROVE  g.seq <= seqHigh[<<p, g.key>>]
      BY <1>4 DEF HandledRecorded
    <2>1. CASE <<p, g>> = k
      BY <1>9, <2>1
    <2>2. CASE <<p, g>> # k
      BY <1>8, <2>2 DEF ReplayInv, HandledRecorded
    <2> QED BY <2>1, <2>2
  <1>16. HandledOnce'
    <2> SUFFICES ASSUME NEW p \in Pseudonyms, NEW g \in Frames, g.seq # 0
                 PROVE  handled'[<<p, g>>] <= 1
      BY DEF HandledOnce
    <2>1. CASE <<p, g>> = k
      BY <1>9, <2>1
    <2>2. CASE <<p, g>> # k
      BY <1>8, <2>2 DEF ReplayInv, HandledOnce
    <2> QED BY <2>1, <2>2
  <1> QED BY <1>10, <1>12, <1>13, <1>14, <1>15, <1>16 DEF ReplayInv

\* A frame arrives and is dropped, or passes the filter.
LEMMA ReplayReceive ==
  ASSUME ReplayInv, NEW c \in Conns, Inbound(c)
  PROVE  ReplayInv'
  <1>1. PICK f \in Frames, version \in {"1", "2", "3"}, lineage \in BOOLEAN :
          Receive(c, f, version, lineage)
    BY DEF Inbound
  <1>2. reader[c] = "read" /\ UNCHANGED <<used, owner, handled>>
    BY <1>1 DEF Receive, mapVars
  <1>3. CASE /\ CheckAndRecordSeq(owner[c], f, TRUE)
             /\ frame' = [frame EXCEPT ![c] = f]
             /\ reader' = [reader EXCEPT ![c] = "limit"]
    BY <1>2, <1>3, ReplayPass, Zenon
  <1>4. CASE UNCHANGED <<frame, reader, seqHigh>>
    BY <1>2, <1>4, ReplayUntouched DEF replayVars
  <1>5. CASE /\ CheckAndRecordSeq(owner[c], f, FALSE)
             /\ UNCHANGED <<frame, reader>>
    <2>1. UNCHANGED seqHigh
      BY <1>5 DEF CheckAndRecordSeq
    <2> QED BY <1>2, <1>5, <2>1, ReplayUntouched DEF replayVars
  <1> QED BY <1>1, <1>3, <1>4, <1>5, Zenon DEF Receive

LEMMA ReplayInit == Init => ReplayInv
  <1> SUFFICES ASSUME Init PROVE ReplayInv
    OBVIOUS
  <1>1. ReplayTypeOK
    BY DEF Init, ReplayTypeOK, ReaderSteps
  <1>2. ReadersRegistered /\ HeldRecorded /\ HeldApart
    BY DEF Init, ReadersRegistered, HeldRecorded, HeldApart
  <1>3. HandledRecorded /\ HandledOnce
    BY DEF Init, HandledRecorded, HandledOnce
  <1> QED BY <1>1, <1>2, <1>3 DEF ReplayInv

LEMMA ReplayNext == ReplayInv /\ [Next]_vars => ReplayInv'
  <1> SUFFICES ASSUME ReplayInv, [Next]_vars PROVE ReplayInv'
    OBVIOUS
  <1>1. ASSUME NEW p \in Pseudonyms, HandleWS(p) PROVE ReplayInv'
    BY <1>1, ReplayConnect
  <1>2. ASSUME NEW c \in Conns, Inbound(c) PROVE ReplayInv'
    BY <1>2, ReplayReceive
  <1>3. ASSUME NEW c \in Conns, Dispatch(c) PROVE ReplayInv'
    BY <1>3, ReplayDispatch
  <1>4. ASSUME NEW c \in Conns, ReadFails(c) PROVE ReplayInv'
    <2>1. "close" \in ReaderSteps /\ "close" # "limit" /\ reader[c] # "none"
      BY <1>4 DEF ReadFails, ReaderSteps
    <2> QED BY <1>4, <2>1, ReplayReader, Zenon DEF ReadFails, inVars
  <1>5. ASSUME NEW c \in Conns, ReadCloses(c) PROVE ReplayInv'
    <2>1. "done" \in ReaderSteps /\ "done" # "limit" /\ reader[c] # "none"
      BY <1>5 DEF ReadCloses, ReaderSteps
    <2> QED BY <1>5, <2>1, ReplayReader, Zenon DEF ReadCloses, mapVars, inVars
  <1>6. ASSUME NEW c \in Conns, PeerGone(c) \/ WriteStep(c) \/ PingFails(c)
        PROVE  ReplayInv'
    BY <1>6, ReplayUntouched DEF PeerGone, WriteStep, WriteTake, WriteOk,
       WriteFails, PingFails, replayVars, mapVars, inVars
  <1>7. ASSUME NEW g \in Callers, NEW p \in Pseudonyms,
               SendTo(g, p) \/ BroadcastStep(g, p)
        PROVE  ReplayInv'
    BY <1>7, ReplayUntouched, Zenon DEF SendTo, BroadcastStep, replayVars,
       mapVars, pumpVars, inVars
  <1>8. ASSUME NEW g \in Callers, SendEnqueue(g) \/ BroadcastEnd(g)
        PROVE  ReplayInv'
    BY <1>8, ReplayUntouched DEF SendEnqueue, BroadcastEnd, replayVars,
       mapVars, pumpVars, inVars
  <1>9. ASSUME NEW g \in Callers, NEW to \in SUBSET Pseudonyms, Broadcast(g, to)
        PROVE  ReplayInv'
    BY <1>9, ReplayUntouched DEF Broadcast, replayVars, mapVars, pumpVars, inVars
  <1>10. ASSUME Tick \/ UNCHANGED vars PROVE ReplayInv'
    BY <1>10, ReplayUntouched DEF Tick, vars, replayVars, mapVars, pumpVars, inVars
  <1> QED
    BY <1>1, <1>2, <1>3, <1>4, <1>5, <1>6, <1>7, <1>8, <1>9, <1>10
    DEF Next, ReadStep, CallStep

\* A numbered frame reaches onMsg at most once, whatever the number of
\* connections its pseudonym opens and however readPumps interleave between
\* checkAndRecordSeq and the handler.
THEOREM AtMostOnceSafe == Spec => []AtMostOnce
  <1>1. ReplayInv => AtMostOnce
    BY DEF ReplayInv, HandledOnce, AtMostOnce
  <1> QED BY <1>1, ReplayInit, ReplayNext, PTL DEF Spec

-----------------------------------------------------------------------------
(* The order of one connection's frames.  A frame the filter lets through  *)
(* has a number above those this connection passed before, and the number  *)
(* stays recorded, whatever other connections of the pseudonym record.     *)

Arrivals == [what : Frames, at : Nat]

PassedTypeOK ==
  /\ now \in Nat
  /\ passed \in [Conns -> Seq(Arrivals)]
  /\ \A c \in Conns : reader[c] = "none" => passed[c] = << >>

\* The number of a frame that was passed to the handler is recorded.
PassedRecorded ==
  \A c \in Conns : \A i \in DOMAIN passed[c] : passed[c][i].what.seq # 0 =>
     passed[c][i].what.seq <= seqHigh[<<owner[c], passed[c][i].what.key>>]

\* Frame f may follow what connection c has passed.
Above(c, f) ==
  \A i \in DOMAIN passed[c] :
     passed[c][i].what.key = f.key /\ passed[c][i].what.seq # 0 => passed[c][i].what.seq < f.seq

HeldAbove ==
  \A c \in Conns : reader[c] = "limit" /\ frame[c].seq # 0 => Above(c, frame[c])

OrderInv == PassedTypeOK /\ PassedRecorded /\ HeldAbove /\ OrderPerConnection

\* An entry of a connection's history, and the connection it belongs to.
LEMMA PassedFacts ==
  ASSUME ReplayInv, PassedTypeOK, NEW c \in Conns, NEW i \in DOMAIN passed[c]
  PROVE  /\ passed[c][i].what \in Frames /\ passed[c][i].at \in Nat
         /\ passed[c][i].what.seq \in Nat /\ passed[c][i].what.key \in Keys
         /\ i \in 1 .. Len(passed[c]) /\ Len(passed[c]) \in Nat
         /\ reader[c] # "none" /\ c \in 1 .. used /\ owner[c] \in Pseudonyms
  <1>1. passed[c] \in Seq(Arrivals)
    BY DEF PassedTypeOK
  <1>2. passed[c][i] \in Arrivals /\ i \in 1 .. Len(passed[c]) /\ Len(passed[c]) \in Nat
    BY <1>1
  <1>3. reader[c] # "none"
    BY <1>2 DEF PassedTypeOK
  <1>4. /\ passed[c][i].what \in Frames /\ passed[c][i].at \in Nat
    BY <1>2 DEF Arrivals
  <1> QED BY <1>2, <1>3, <1>4, HolderFacts, HubAssumption DEF Frames

\* Steps that leave the frames and the filter alone.
LEMMA OrderUntouched ==
  ASSUME OrderInv, UNCHANGED <<owner, reader, frame, seqHigh, passed>>, now' \in Nat
  PROVE  OrderInv'
  <1>1. PassedTypeOK' /\ PassedRecorded'
    BY Zenon DEF OrderInv, PassedTypeOK, PassedRecorded
  <1>2. HeldAbove' /\ OrderPerConnection'
    BY DEF OrderInv, HeldAbove, Above, OrderPerConnection
  <1> QED BY <1>1, <1>2 DEF OrderInv

\* A readPump ends.
LEMMA OrderReader ==
  ASSUME ReplayInv, OrderInv, NEW c \in Conns, NEW step \in {"close", "done"},
         reader' = [reader EXCEPT ![c] = step],
         UNCHANGED <<owner, frame, seqHigh, passed, now>>
  PROVE  OrderInv'
  <1>1. \A d \in Conns : /\ reader'[d] = "limit" => reader[d] = "limit"
                         /\ reader'[d] = "none" => reader[d] = "none"
    BY DEF ReplayInv, ReplayTypeOK
  <1>2. PassedTypeOK' /\ PassedRecorded'
    BY <1>1, Zenon DEF OrderInv, PassedTypeOK, PassedRecorded
  <1>3. HeldAbove' /\ OrderPerConnection'
    BY <1>1 DEF OrderInv, HeldAbove, Above, OrderPerConnection
  <1> QED BY <1>2, <1>3 DEF OrderInv

\* A new connection has passed nothing; the older ones keep their owners.
LEMMA OrderConnect ==
  ASSUME ReplayInv, OrderInv, NEW p \in Pseudonyms, HandleWS(p)
  PROVE  OrderInv'
  <1>1. /\ used' = used + 1 /\ used + 1 \in Conns
        /\ owner' = Append(owner, p)
        /\ reader' = [reader EXCEPT ![used + 1] = "read"]
        /\ UNCHANGED <<frame, seqHigh, passed, now>>
    BY HubAssumption DEF HandleWS, ReplayInv, ReplayTypeOK, Conns
  <1>2. \A d \in 1 .. used : owner'[d] = owner[d]
    BY <1>1 DEF ReplayInv, ReplayTypeOK
  <1>3. \A d \in Conns : /\ reader'[d] = "limit" => reader[d] = "limit"
                         /\ reader'[d] = "none" => reader[d] = "none"
    BY <1>1 DEF ReplayInv, ReplayTypeOK
  <1>4. PassedTypeOK'
    BY <1>1, <1>3 DEF OrderInv, PassedTypeOK
  <1>5. PassedRecorded'
    <2> SUFFICES ASSUME NEW c \in Conns, NEW i \in DOMAIN passed[c],
                        passed[c][i].what.seq # 0
                 PROVE  passed[c][i].what.seq
                          <= seqHigh[<<owner'[c], passed[c][i].what.key>>]
      BY <1>1, Zenon DEF PassedRecorded
    <2>1. owner'[c] = owner[c]
      BY <1>2, PassedFacts, Zenon DEF OrderInv
    <2> QED BY <2>1 DEF OrderInv, PassedRecorded
  <1>6. HeldAbove' /\ OrderPerConnection'
    BY <1>1, <1>3, Zenon DEF OrderInv, HeldAbove, Above, OrderPerConnection
  <1> QED BY <1>4, <1>5, <1>6 DEF OrderInv

\* A frame passes the filter: its number is above those passed before, as
\* they are recorded under the same key.
LEMMA OrderPass ==
  ASSUME ReplayInv, ReplayInv', OrderInv, NEW c \in Conns, NEW f \in Frames,
         reader[c] = "read",
         CheckAndRecordSeq(owner[c], f, TRUE),
         frame' = [frame EXCEPT ![c] = f],
         reader' = [reader EXCEPT ![c] = "limit"],
         UNCHANGED <<owner, passed, now>>
  PROVE  OrderInv'
  <1> DEFINE k == <<owner[c], f.key>>
  <1>1. owner[c] \in Pseudonyms /\ k \in Pseudonyms \X Keys /\ f.seq \in Nat
    BY HolderFacts, HubAssumption DEF Frames
  <1>2. /\ f.seq # 0 => f.seq > seqHigh[k]
        /\ seqHigh' = IF f.seq = 0 THEN seqHigh ELSE [seqHigh EXCEPT ![k] = f.seq]
    BY <1>1 DEF CheckAndRecordSeq, ReplayInv, ReplayTypeOK
  <1>3. seqHigh \in [Pseudonyms \X Keys -> Nat] /\ seqHigh' \in [Pseudonyms \X Keys -> Nat]
    BY DEF ReplayInv, ReplayTypeOK
  <1>4. \A x \in Pseudonyms \X Keys : seqHigh[x] <= seqHigh'[x]
    <2>1. CASE f.seq = 0
      BY <1>2, <1>3, <2>1
    <2>2. CASE f.seq # 0
      <3>1. seqHigh' = [seqHigh EXCEPT ![k] = f.seq] /\ f.seq > seqHigh[k]
        BY <1>2, <2>2
      <3> HIDE DEF k
      <3>2. TAKE x \in Pseudonyms \X Keys
      <3>3. CASE x = k
        BY <1>1, <1>3, <3>1, <3>3
      <3>4. CASE x # k
        BY <1>1, <1>3, <3>1, <3>4
      <3> QED BY <3>3, <3>4
    <2> QED BY <2>1, <2>2
  <1>5. /\ frame'[c] = f /\ reader'[c] = "limit"
        /\ \A d \in Conns \ {c} : frame'[d] = frame[d] /\ reader'[d] = reader[d]
    BY DEF ReplayInv, ReplayTypeOK
  <1>6. PassedTypeOK'
    BY <1>5 DEF OrderInv, PassedTypeOK
  <1>7. PassedRecorded'
    <2> SUFFICES ASSUME NEW d \in Conns, NEW i \in DOMAIN passed[d],
                        passed[d][i].what.seq # 0
                 PROVE  passed[d][i].what.seq
                          <= seqHigh'[<<owner[d], passed[d][i].what.key>>]
      BY Zenon DEF PassedRecorded
    <2> DEFINE x == <<owner[d], passed[d][i].what.key>>
    <2>1. x \in Pseudonyms \X Keys /\ passed[d][i].what.seq \in Nat
      BY PassedFacts, Zenon DEF OrderInv
    <2>2. passed[d][i].what.seq <= seqHigh[x]
      BY DEF OrderInv, PassedRecorded
    <2> HIDE DEF x
    <2>3. seqHigh[x] <= seqHigh'[x] /\ seqHigh[x] \in Nat /\ seqHigh'[x] \in Nat
      BY <1>3, <1>4, <2>1
    <2>4. passed[d][i].what.seq <= seqHigh'[x]
      BY <2>1, <2>2, <2>3
    <2> QED BY <2>4 DEF x
  <1>8. f.seq # 0 => Above(c, f)
    <2> SUFFICES ASSUME f.seq # 0, NEW i \in DOMAIN passed[c],
                        passed[c][i].what.key = f.key, passed[c][i].what.seq # 0
                 PROVE  passed[c][i].what.seq < f.seq
      BY ZenonT(60) DEF Above
    <2>1. passed[c][i].what.seq <= seqHigh[k] /\ passed[c][i].what.seq \in Nat
      BY PassedFacts, ZenonT(60) DEF OrderInv, PassedRecorded
    <2> QED BY <1>1, <1>2, <1>3, <2>1
  <1>9. HeldAbove'
    <2>1. \A d \in Conns : \A g : Above(d, g)' <=> Above(d, g)
      BY Zenon DEF Above
    <2>2. f.seq # 0 => Above(c, f)'
      BY <1>8, <2>1
    <2> SUFFICES ASSUME NEW d \in Conns, reader'[d] = "limit", frame'[d].seq # 0
                 PROVE  Above(d, frame[d])'
      BY Zenon DEF HeldAbove
    <2>3. CASE d = c
      BY <1>5, <2>2, <2>3 DEF Above
    <2>4. CASE d # c
      <3>1. Above(d, frame[d]) /\ frame'[d] = frame[d]
        BY <1>5, <2>4, Zenon DEF OrderInv, HeldAbove
      <3> QED BY <3>1, Zenon DEF Above
    <2> QED BY <2>3, <2>4
  <1>10. OrderPerConnection'
    BY DEF OrderInv, OrderPerConnection
  <1> QED BY <1>6, <1>7, <1>9, <1>10 DEF OrderInv

\* The frame held goes to the end of the connection's history, or is dropped.
LEMMA OrderDispatch ==
  ASSUME ReplayInv, OrderInv, NEW c \in Conns, Dispatch(c)
  PROVE  OrderInv'
  <1> DEFINE f == frame[c]
             a == [what |-> frame[c], at |-> now]
             n == Len(passed[c])
  <1>1. /\ reader[c] = "limit"
        /\ reader' = [reader EXCEPT ![c] = "read"]
        /\ frame' = [frame EXCEPT ![c] = NoFrame]
        /\ UNCHANGED <<owner, seqHigh, now>>
        /\ passed' = passed \/ passed' = [passed EXCEPT ![c] = Append(passed[c], a)]
    BY Zenon DEF Dispatch, mapVars
  <1>2. f \in Frames /\ owner[c] \in Pseudonyms
    BY <1>1, HolderFacts DEF ReplayInv, ReadersRegistered
  <1>3. f.key \in Keys /\ f.seq \in Nat
    BY <1>2, HubAssumption DEF Frames
  <1>4. passed \in [Conns -> Seq(Arrivals)] /\ a \in Arrivals /\ a.what = f /\ now \in Nat
    BY <1>2, Zenon DEF OrderInv, PassedTypeOK, Arrivals
  <1>5. f.seq # 0 => Above(c, f) /\ f.seq <= seqHigh[<<owner[c], f.key>>]
    BY <1>1, Zenon DEF OrderInv, HeldAbove, ReplayInv, HeldRecorded
  <1>6. \A d \in Conns : /\ reader'[d] = "limit" =>
                              d # c /\ reader[d] = "limit" /\ frame'[d] = frame[d]
                         /\ reader'[d] = "none" => d # c /\ reader[d] = "none"
    BY <1>1 DEF ReplayInv, ReplayTypeOK
  <1>7. CASE passed' = passed
    <2>1. PassedTypeOK' /\ PassedRecorded'
      BY <1>1, <1>6, <1>7, Zenon DEF OrderInv, PassedTypeOK, PassedRecorded
    <2>2. HeldAbove' /\ OrderPerConnection'
      BY <1>6, <1>7 DEF OrderInv, HeldAbove, Above, OrderPerConnection
    <2> QED BY <2>1, <2>2, Zenon DEF OrderInv
  <1>8. CASE passed' = [passed EXCEPT ![c] = Append(passed[c], a)]
    <2> HIDE DEF a
    <2>1. passed[c] \in Seq(Arrivals) /\ Append(passed[c], a) \in Seq(Arrivals)
      BY <1>4
    <2>2. passed' \in [Conns -> Seq(Arrivals)]
      BY <1>4, <1>8, <2>1
    <2>3. passed'[c] = Append(passed[c], a) /\ \A d \in Conns \ {c} : passed'[d] = passed[d]
      BY <1>4, <1>8
    <2>4. /\ n \in Nat /\ DOMAIN passed[c] = 1 .. n /\ DOMAIN passed'[c] = 1 .. (n + 1)
          /\ passed'[c][n + 1] = a /\ \A i \in 1 .. n : passed'[c][i] = passed[c][i]
      BY <2>1, <2>3
    <2>5. PassedTypeOK'
      BY <1>1, <1>4, <1>6, <2>2, <2>3, Zenon DEF OrderInv, PassedTypeOK
    <2>6. PassedRecorded'
      <3> SUFFICES ASSUME NEW d \in Conns, NEW i \in DOMAIN passed'[d],
                          passed'[d][i].what.seq # 0
                   PROVE  passed'[d][i].what.seq
                            <= seqHigh[<<owner[d], passed'[d][i].what.key>>]
        BY <1>1, ZenonT(60) DEF PassedRecorded
      <3>1. CASE d = c /\ i = n + 1
        BY <1>4, <1>5, <2>4, <3>1, Zenon
      <3>2. CASE ~(d = c /\ i = n + 1)
        <4>1. i \in DOMAIN passed[d] /\ passed'[d][i] = passed[d][i]
          BY <2>3, <2>4, <3>2
        <4> QED BY <4>1 DEF OrderInv, PassedRecorded
      <3> QED BY <3>1, <3>2
    <2>7. HeldAbove'
      <3> SUFFICES ASSUME NEW d \in Conns, reader'[d] = "limit", frame'[d].seq # 0
                   PROVE  Above(d, frame[d])'
        BY Zenon DEF HeldAbove
      <3>1. d # c /\ frame'[d] = frame[d] /\ passed'[d] = passed[d] /\ Above(d, frame[d])
        BY <1>6, <2>3 DEF OrderInv, HeldAbove
      <3> QED BY <3>1, Zenon DEF Above
    <2>8. OrderPerConnection'
      <3> SUFFICES ASSUME NEW d \in Conns, NEW i \in DOMAIN passed'[d],
                          NEW j \in DOMAIN passed'[d], i < j,
                          passed'[d][i].what.key = passed'[d][j].what.key,
                          passed'[d][i].what.seq # 0, passed'[d][j].what.seq # 0
                   PROVE  passed'[d][i].what.seq < passed'[d][j].what.seq
        BY ZenonT(60) DEF OrderPerConnection
      <3>1. CASE d = c /\ j = n + 1
        <4>1. i \in 1 .. n /\ passed'[d][i] = passed[c][i] /\ passed'[d][j] = a
          BY <2>4, <3>1
        <4> QED BY <1>4, <1>5, <2>4, <4>1, ZenonT(60) DEF Above
      <3>2. CASE ~(d = c /\ j = n + 1)
        <4>1. /\ i \in DOMAIN passed[d] /\ passed'[d][i] = passed[d][i]
              /\ j \in DOMAIN passed[d] /\ passed'[d][j] = passed[d][j]
          <5>1. CASE d # c
            BY <2>3, <5>1
          <5>2. CASE d = c
            <6>1. i \in 1 .. (n + 1) /\ j \in 1 .. (n + 1) /\ j # n + 1
              BY <2>4, <3>2, <5>2
            <6>2. i \in 1 .. n /\ j \in 1 .. n
              BY <2>4, <6>1
            <6> QED BY <2>4, <5>2, <6>2
          <5> QED BY <5>1, <5>2
        <4> QED BY <4>1 DEF OrderInv, OrderPerConnection
      <3> QED BY <3>1, <3>2
    <2> QED BY <2>5, <2>6, <2>7, <2>8 DEF OrderInv
  <1> QED BY <1>1, <1>7, <1>8

\* A frame arrives and is dropped, or passes the filter.
LEMMA OrderReceive ==
  ASSUME ReplayInv, ReplayInv', OrderInv, NEW c \in Conns, Inbound(c)
  PROVE  OrderInv'
  <1>1. PICK f \in Frames, version \in {"1", "2", "3"}, lineage \in BOOLEAN :
          Receive(c, f, version, lineage)
    BY Zenon DEF Inbound
  <1>2. reader[c] = "read" /\ UNCHANGED <<owner, passed, now>>
    BY <1>1, Zenon DEF Receive, mapVars
  <1>3. now' \in Nat
    BY <1>2 DEF OrderInv, PassedTypeOK
  <1>4. CASE /\ CheckAndRecordSeq(owner[c], f, TRUE)
             /\ frame' = [frame EXCEPT ![c] = f]
             /\ reader' = [reader EXCEPT ![c] = "limit"]
    BY <1>2, <1>4, OrderPass, Zenon
  <1>5. CASE UNCHANGED <<frame, reader, seqHigh>>
    BY <1>2, <1>3, <1>5, OrderUntouched
  <1>6. CASE /\ CheckAndRecordSeq(owner[c], f, FALSE)
             /\ UNCHANGED <<frame, reader>>
    <2>1. UNCHANGED seqHigh
      BY <1>6, Zenon DEF CheckAndRecordSeq
    <2> QED BY <1>2, <1>3, <1>6, <2>1, OrderUntouched
  <1> QED BY <1>1, <1>4, <1>5, <1>6, Zenon DEF Receive

LEMMA OrderInit == Init => OrderInv
  <1> SUFFICES ASSUME Init PROVE OrderInv
    OBVIOUS
  <1>1. passed = [c \in Conns |-> << >>] /\ now = 0
    BY DEF Init
  <1>2. << >> \in Seq(Arrivals) /\ DOMAIN << >> = {}
    OBVIOUS
  <1>3. passed \in [Conns -> Seq(Arrivals)] /\ \A c \in Conns : DOMAIN passed[c] = {}
    BY <1>1, <1>2
  <1>4. PassedTypeOK
    BY <1>1, <1>3 DEF PassedTypeOK
  <1>5. PassedRecorded /\ HeldAbove /\ OrderPerConnection
    BY <1>3, Zenon DEF PassedRecorded, HeldAbove, Above, OrderPerConnection
  <1> QED BY <1>4, <1>5 DEF OrderInv

LEMMA OrderNext == ReplayInv /\ ReplayInv' /\ OrderInv /\ [Next]_vars => OrderInv'
  <1> SUFFICES ASSUME ReplayInv, ReplayInv', OrderInv, [Next]_vars PROVE OrderInv'
    OBVIOUS
  <1> DEFINE Kept == UNCHANGED <<owner, reader, frame, seqHigh, passed>>
  <1>1. ASSUME NEW p \in Pseudonyms, HandleWS(p) PROVE OrderInv'
    BY <1>1, OrderConnect
  <1>2. ASSUME NEW c \in Conns, Inbound(c) \/ Dispatch(c) PROVE OrderInv'
    BY <1>2, OrderReceive, OrderDispatch
  <1>3. ASSUME NEW c \in Conns, ReadFails(c) \/ ReadCloses(c) PROVE OrderInv'
    <2>1. \E step \in {"close", "done"} : reader' = [reader EXCEPT ![c] = step]
      BY <1>3 DEF ReadFails, ReadCloses
    <2>2. UNCHANGED <<owner, frame, seqHigh, passed, now>>
      BY <1>3, Zenon DEF ReadFails, ReadCloses, mapVars, inVars
    <2> QED BY <2>1, <2>2, OrderReader, Zenon
  <1>4. ASSUME NEW c \in Conns, PeerGone(c) \/ WriteStep(c) \/ PingFails(c)
        PROVE  Kept /\ now' = now
    BY <1>4, Zenon DEF PeerGone, WriteStep, WriteTake, WriteOk, WriteFails, PingFails,
       mapVars, inVars
  <1>5. ASSUME NEW g \in Callers, NEW p \in Pseudonyms, SendTo(g, p) \/ BroadcastStep(g, p)
        PROVE  Kept /\ now' = now
    BY <1>5, Zenon DEF SendTo, BroadcastStep, mapVars, pumpVars, inVars
  <1>6. ASSUME NEW g \in Callers, SendEnqueue(g) \/ BroadcastEnd(g)
        PROVE  Kept /\ now' = now
    BY <1>6, Zenon DEF SendEnqueue, BroadcastEnd, mapVars, pumpVars, inVars
  <1>7. ASSUME NEW g \in Callers, NEW to \in SUBSET Pseudonyms, Broadcast(g, to)
        PROVE  Kept /\ now' = now
    BY <1>7, Zenon DEF Broadcast, mapVars, pumpVars, inVars
  <1>8. ASSUME Tick \/ UNCHANGED vars PROVE Kept /\ (now' = now \/ now' = now + 1)
    BY <1>8, Zenon DEF Tick, vars, mapVars, pumpVars, inVars
  <1>9. ASSUME Kept /\ (now' = now \/ now' = now + 1) PROVE OrderInv'
    <2>1. now' \in Nat
      BY <1>9 DEF OrderInv, PassedTypeOK
    <2> QED BY <1>9, <2>1, OrderUntouched
  <1> HIDE DEF Kept
  <1> QED
    BY <1>1, <1>2, <1>3, <1>4, <1>5, <1>6, <1>7, <1>8, <1>9, Zenon DEF Next, ReadStep, CallStep

\* One connection's frames of one session and type reach onMsg in the order
\* of their Seq, however many connections of the pseudonym feed the filter.
THEOREM OrderPerConnectionSafe == Spec => []OrderPerConnection
  <1>1. OrderInv => OrderPerConnection
    BY DEF OrderInv
  <1> QED BY <1>1, ReplayInit, ReplayNext, OrderInit, OrderNext, PTL DEF Spec

-----------------------------------------------------------------------------
(* The rate limiter.  RateBound speaks of pairs of admitted frames; what a *)
(* step keeps is the account from each of them up to the last refill: what *)
(* was admitted since and what is left in the bucket is paid for by the    *)
(* burst and the refills.                                                  *)

Limited == InboundRate > 0 /\ InboundBurst > 0

LimiterTypeOK ==
  /\ tokens \in [Conns -> 0 .. InboundBurst]
  /\ lastTick \in [Conns -> Nat]
  /\ \A c \in Conns : lastTick[c] <= now

PaidFor ==
  \A c \in Conns : \A i \in DOMAIN passed[c] :
     /\ passed[c][i].at <= lastTick[c]
     /\ Len(passed[c]) - i + 1 + tokens[c]
          <= InboundBurst + InboundRate * (lastTick[c] - passed[c][i].at)

RateInv == Limited => LimiterTypeOK /\ PaidFor /\ RateBound

\* A product of integers is one.
LEMMA ProductInt ==
  ASSUME NEW x \in Int, NEW y \in Int
  PROVE  x * y \in Int
  OBVIOUS

\* A refill for the time from l to n, added to what the time from a to l paid.
LEMMA RefillSum ==
  ASSUME NEW r \in Nat, NEW a \in Nat, NEW l \in Nat, NEW n \in Nat, a <= l, l <= n
  PROVE  /\ r * (n - a) = r * (l - a) + (n - l) * r
         /\ (n - l) * r \in Nat /\ r * (l - a) \in Nat /\ r * (n - a) \in Nat
  OBVIOUS

\* The bucket after the refill.
LEMMA RefilledFacts ==
  ASSUME LimiterTypeOK, now \in Nat, NEW c \in Conns
  PROVE  /\ Refilled(c) \in 0 .. InboundBurst
         /\ Refilled(c) <= tokens[c] + (now - lastTick[c]) * InboundRate
  <1> DEFINE gain == (now - lastTick[c]) * InboundRate
  <1>1. /\ tokens[c] \in 0 .. InboundBurst /\ lastTick[c] \in Nat /\ lastTick[c] <= now
        /\ InboundRate \in Nat /\ InboundBurst \in Nat
    BY HubAssumption DEF LimiterTypeOK
  <1>2. gain \in Nat
    BY <1>1, RefillSum
  <1>3. Refilled(c) = IF now > lastTick[c]
                      THEN IF tokens[c] + gain > InboundBurst THEN InboundBurst
                                                              ELSE tokens[c] + gain
                      ELSE tokens[c]
    BY DEF Refilled, Bounded
  <1> HIDE DEF gain
  <1>4. Refilled(c) \in 0 .. InboundBurst /\ Refilled(c) <= tokens[c] + gain
    BY <1>1, <1>2, <1>3
  <1> QED BY <1>4 DEF gain

\* The account of an admitted frame, carried from the last refill to now.
LEMMA Carried ==
  ASSUME ReplayInv, PassedTypeOK, LimiterTypeOK, PaidFor,
         NEW c \in Conns, NEW i \in DOMAIN passed[c]
  PROVE  /\ passed[c][i].at <= now
         /\ Len(passed[c]) - i + 1 + Refilled(c)
              <= InboundBurst + InboundRate * (now - passed[c][i].at)
  <1> DEFINE n == Len(passed[c])
             at == passed[c][i].at
             last == lastTick[c]
             gain == (now - last) * InboundRate
             paid == InboundRate * (last - at)
             due == InboundRate * (now - at)
             refilled == Refilled(c)
  <1>1. /\ n \in Nat /\ i \in 1 .. n /\ at \in Nat /\ last \in Nat /\ now \in Nat
        /\ at <= last /\ last <= now
    BY PassedFacts, Zenon DEF PassedTypeOK, LimiterTypeOK, PaidFor
  <1>2. /\ tokens[c] \in Nat /\ InboundRate \in Nat /\ InboundBurst \in Nat
    BY HubAssumption DEF LimiterTypeOK
  <1>3. due = paid + gain /\ gain \in Nat /\ paid \in Nat /\ due \in Nat
    <2> HIDE DEF at, last
    <2>1. /\ InboundRate * (now - at) = InboundRate * (last - at) + (now - last) * InboundRate
          /\ (now - last) * InboundRate \in Nat /\ InboundRate * (last - at) \in Nat
          /\ InboundRate * (now - at) \in Nat
      BY <1>1, <1>2
    <2> QED BY <2>1
  <1>4. n - i + 1 + tokens[c] <= InboundBurst + paid
    BY DEF PaidFor
  <1>5. refilled \in 0 .. InboundBurst /\ refilled <= tokens[c] + gain
    BY <1>1, RefilledFacts
  <1> HIDE DEF n, at, last, gain, paid, due, refilled
  <1>6. at <= now /\ n - i + 1 + refilled <= InboundBurst + due
    BY <1>1, <1>2, <1>3, <1>4, <1>5
  <1> QED BY <1>6, Zenon DEF n, at, due, refilled

\* Steps that leave the limiters and what they admitted alone.
LEMMA RateUntouched ==
  ASSUME RateInv, UNCHANGED <<tokens, lastTick, passed>>, now \in Nat,
         now' = now \/ now' = now + 1
  PROVE  RateInv'
  <1> SUFFICES ASSUME Limited PROVE LimiterTypeOK' /\ PaidFor' /\ RateBound'
    BY DEF RateInv
  <1>1. LimiterTypeOK'
    BY DEF RateInv, LimiterTypeOK
  <1>2. PaidFor' /\ RateBound'
    BY Zenon DEF RateInv, PaidFor, RateBound
  <1> QED BY <1>1, <1>2

\* A new connection has a full bucket and has admitted nothing.
LEMMA RateConnect ==
  ASSUME ReplayInv, PassedTypeOK, RateInv, NEW p \in Pseudonyms, HandleWS(p)
  PROVE  RateInv'
  <1> SUFFICES ASSUME Limited PROVE LimiterTypeOK' /\ PaidFor' /\ RateBound'
    BY DEF RateInv
  <1> DEFINE c == used + 1
  <1>1. /\ c \in Conns /\ now' = now /\ passed' = passed
        /\ tokens' = [tokens EXCEPT ![c] = InboundBurst]
        /\ lastTick' = [lastTick EXCEPT ![c] = now]
    BY HubAssumption DEF HandleWS, ReplayInv, ReplayTypeOK, Conns
  <1>2. DOMAIN passed[c] = {}
    <2>1. reader[c] = "none"
      BY <1>1 DEF ReplayInv, ReplayTypeOK, ReadersRegistered
    <2> QED BY <1>1, <2>1 DEF PassedTypeOK
  <1>3. InboundBurst \in 0 .. InboundBurst /\ now \in Nat
    BY HubAssumption DEF PassedTypeOK
  <1>4. LimiterTypeOK'
    <2>1. tokens' \in [Conns -> 0 .. InboundBurst]
      BY <1>1, <1>3 DEF RateInv, LimiterTypeOK
    <2>2. lastTick' \in [Conns -> Nat]
      BY <1>1, <1>3 DEF RateInv, LimiterTypeOK
    <2>3. \A d \in Conns : lastTick'[d] <= now'
      BY <1>1, <1>3 DEF RateInv, LimiterTypeOK
    <2> QED BY <2>1, <2>2, <2>3 DEF LimiterTypeOK
  <1>5. \A d \in Conns : d # c => tokens'[d] = tokens[d] /\ lastTick'[d] = lastTick[d]
    BY <1>1 DEF RateInv, LimiterTypeOK
  <1>6. PaidFor'
    <2> SUFFICES ASSUME NEW d \in Conns, NEW i \in DOMAIN passed[d]
                 PROVE  /\ passed[d][i].at <= lastTick'[d]
                        /\ Len(passed[d]) - i + 1 + tokens'[d]
                             <= InboundBurst + InboundRate * (lastTick'[d] - passed[d][i].at)
      BY <1>1, Zenon DEF PaidFor
    <2>1. d # c
      BY <1>2
    <2>2. tokens'[d] = tokens[d] /\ lastTick'[d] = lastTick[d]
      BY <1>5, <2>1, Zenon
    <2> QED BY <2>2, Zenon DEF RateInv, PaidFor
  <1>7. RateBound'
    BY <1>1 DEF RateInv, RateBound
  <1> QED BY <1>4, <1>6, <1>7

\* The limiter refills its bucket and admits the frame for a token, or
\* refuses it and keeps what it has.
LEMMA RateDispatch ==
  ASSUME ReplayInv, PassedTypeOK, RateInv, NEW c \in Conns, Dispatch(c)
  PROVE  RateInv'
  <1> SUFFICES ASSUME Limited PROVE LimiterTypeOK' /\ PaidFor' /\ RateBound'
    BY Zenon DEF RateInv
  <1> DEFINE a == [what |-> frame[c], at |-> now]
             n == Len(passed[c])
             left == Refilled(c)
  <1>1. LimiterTypeOK /\ PaidFor /\ RateBound /\ now \in Nat /\ now' = now
    BY DEF RateInv, PassedTypeOK, Dispatch
  <1>2. left \in 0 .. InboundBurst /\ InboundBurst \in Nat /\ InboundBurst > 0
    BY <1>1, RefilledFacts, HubAssumption DEF Limited
  <1>3. \E used1 \in {0, 1} :
          /\ tokens' = [tokens EXCEPT ![c] = left - used1]
          /\ lastTick' = [lastTick EXCEPT ![c] = now]
          /\ used1 = 1 => left >= 1 /\ passed' = [passed EXCEPT ![c] = Append(passed[c], a)]
          /\ used1 = 0 => passed' = passed
    <2>1. CASE Allow(c, TRUE) /\ passed' = [passed EXCEPT ![c] = Append(passed[c], a)]
      <3>1. /\ left >= 1 /\ tokens' = [tokens EXCEPT ![c] = left - 1]
            /\ lastTick' = [lastTick EXCEPT ![c] = now]
        BY <2>1, HubAssumption DEF Allow, Limited
      <3> QED BY <2>1, <3>1
    <2>2. CASE Allow(c, FALSE) /\ passed' = passed
      <3>1. /\ tokens' = [tokens EXCEPT ![c] = left]
            /\ lastTick' = [lastTick EXCEPT ![c] = now]
        BY <2>2, HubAssumption DEF Allow, Limited
      <3> HIDE DEF left
      <3>2. left - 0 = left
        BY <1>2
      <3>3. tokens' = [tokens EXCEPT ![c] = left - 0]
        BY <3>1, <3>2, Zenon
      <3>4. 0 # 1 /\ 0 \in {0, 1}
        OBVIOUS
      <3> QED BY <2>2, <3>1, <3>3, <3>4, Zenon
    <2>3. \/ Allow(c, TRUE) /\ passed' = [passed EXCEPT ![c] = Append(passed[c], a)]
          \/ Allow(c, FALSE) /\ passed' = passed
      BY Zenon DEF Dispatch
    <2> QED BY <2>1, <2>2, <2>3, Zenon
  <1>4. PICK used1 \in {0, 1} :
          /\ tokens' = [tokens EXCEPT ![c] = left - used1]
          /\ lastTick' = [lastTick EXCEPT ![c] = now]
          /\ used1 = 1 => left >= 1 /\ passed' = [passed EXCEPT ![c] = Append(passed[c], a)]
          /\ used1 = 0 => passed' = passed
    BY <1>3, Zenon
  <1>5. /\ \A i \in DOMAIN passed[c] :
             /\ passed[c][i].at <= now
             /\ n - i + 1 + left <= InboundBurst + InboundRate * (now - passed[c][i].at)
    BY <1>1, Carried
  <1>6. a.at = now /\ passed[c] \in Seq(Arrivals) /\ DOMAIN passed = Conns
    BY DEF PassedTypeOK
  <1> HIDE DEF a, left
  <1>7. left - used1 \in 0 .. InboundBurst
    BY <1>2, <1>4
  <1>8. LimiterTypeOK'
    <2>1. tokens' \in [Conns -> 0 .. InboundBurst]
      BY <1>1, <1>4, <1>7 DEF LimiterTypeOK
    <2>2. lastTick' \in [Conns -> Nat]
      BY <1>1, <1>4 DEF LimiterTypeOK
    <2>3. \A d \in Conns : lastTick'[d] <= now'
      BY <1>1, <1>4 DEF LimiterTypeOK
    <2> QED BY <2>1, <2>2, <2>3 DEF LimiterTypeOK
  <1>9. /\ tokens'[c] = left - used1 /\ lastTick'[c] = now
        /\ \A d \in Conns \ {c} : /\ tokens'[d] = tokens[d] /\ lastTick'[d] = lastTick[d]
                                  /\ passed'[d] = passed[d]
    BY <1>1, <1>4, <1>6, Zenon DEF LimiterTypeOK
  <1>10. /\ n \in Nat /\ DOMAIN passed[c] = 1 .. n /\ DOMAIN passed'[c] = 1 .. (n + used1)
         /\ Len(passed'[c]) = n + used1
         /\ \A i \in 1 .. n : passed'[c][i] = passed[c][i]
         /\ used1 = 1 => passed'[c][n + 1] = a
    BY <1>4, <1>6
  <1>11. ASSUME NEW i \in DOMAIN passed'[c]
         PROVE  /\ passed'[c][i].at \in Nat /\ passed'[c][i].at <= now
                /\ n + used1 - i + 1 + (left - used1)
                     <= InboundBurst + InboundRate * (now - passed'[c][i].at)
    <2>1. CASE i \in 1 .. n
      <3> DEFINE at == passed[c][i].at
                 due == InboundRate * (now - at)
      <3>1. at \in Nat /\ at <= now /\ n - i + 1 + left <= InboundBurst + due
        BY <1>5, <1>10, <2>1, PassedFacts, Zenon
      <3>2. due \in Int
        <4>1. now - at \in Int /\ InboundRate \in Int
          BY <1>1, <3>1, HubAssumption
        <4> HIDE DEF at
        <4> QED BY <4>1, ProductInt
      <3> HIDE DEF due
      <3>3. n + used1 - i + 1 + (left - used1) <= InboundBurst + due
        BY <1>2, <1>10, <2>1, <3>1, <3>2
      <3> QED BY <1>10, <2>1, <3>1, <3>3, Zenon DEF due
    <2>2. CASE i \notin 1 .. n
      <3>1. used1 = 1 /\ i = n + 1 /\ passed'[c][i].at = now
        BY <1>6, <1>10, <2>2
      <3>2. InboundRate * (now - now) = 0
        BY <1>1, HubAssumption
      <3> QED BY <1>1, <1>2, <1>10, <3>1, <3>2
    <2> QED BY <2>1, <2>2
  <1>12. PaidFor'
    <2> SUFFICES ASSUME NEW d \in Conns, NEW i \in DOMAIN passed'[d]
                 PROVE  /\ passed'[d][i].at <= lastTick'[d]
                        /\ Len(passed'[d]) - i + 1 + tokens'[d]
                             <= InboundBurst + InboundRate * (lastTick'[d] - passed'[d][i].at)
      BY ZenonT(60) DEF PaidFor
    <2>1. CASE d = c
      <3>1. /\ passed'[c][i].at <= now
            /\ n + used1 - i + 1 + (left - used1)
                 <= InboundBurst + InboundRate * (now - passed'[c][i].at)
        BY <1>11, <2>1, Zenon
      <3>2. /\ Len(passed'[d]) = n + used1 /\ tokens'[d] = left - used1
            /\ lastTick'[d] = now /\ passed'[d] = passed'[c]
        BY <1>9, <1>10, <2>1
      <3>3. /\ passed'[d][i].at = passed'[c][i].at
            /\ InboundRate * (lastTick'[d] - passed'[d][i].at)
                 = InboundRate * (now - passed'[c][i].at)
        BY <3>2, Zenon
      <3> HIDE DEF n
      <3>4. Len(passed'[d]) - i + 1 + tokens'[d] = n + used1 - i + 1 + (left - used1)
        <4>1. i \in Nat /\ n \in Nat /\ left \in Nat
          BY <1>2, <1>10, <2>1
        <4> QED BY <3>2, <4>1
      <3>5. passed'[d][i].at <= lastTick'[d]
        BY <3>1, <3>2
      <3>6. Len(passed'[d]) - i + 1 + tokens'[d]
              <= InboundBurst + InboundRate * (lastTick'[d] - passed'[d][i].at)
        BY <3>1, <3>3, <3>4, Zenon
      <3> QED BY <3>5, <3>6
    <2>2. CASE d # c
      <3>1. tokens'[d] = tokens[d] /\ lastTick'[d] = lastTick[d] /\ passed'[d] = passed[d]
        BY <1>9, <2>2, Zenon
      <3> QED BY <1>1, <3>1, ZenonT(60) DEF PaidFor
    <2> QED BY <2>1, <2>2
  <1>13. RateBound'
    <2> SUFFICES ASSUME NEW d \in Conns, NEW i \in DOMAIN passed'[d],
                        NEW j \in DOMAIN passed'[d], i <= j
                 PROVE  j - i + 1 <= InboundBurst
                          + InboundRate * (passed'[d][j].at - passed'[d][i].at)
      BY Zenon DEF RateBound
    <2>1. CASE d = c /\ j \notin 1 .. n
      <3> DEFINE due == InboundRate * (now - passed'[c][i].at)
      <3>1. used1 = 1 /\ j = n + 1 /\ passed'[c][j].at = now
        BY <1>6, <1>10, <2>1
      <3>2. n + used1 - i + 1 + (left - used1) <= InboundBurst + due
        BY <1>11, <2>1
      <3>3. due \in Int /\ i \in Nat
        <4>1. passed'[c][i].at \in Nat /\ i \in Nat
          <5>1. i \in DOMAIN passed'[c]
            BY <2>1
          <5> QED BY <1>10, <1>11, <5>1
        <4> QED BY <1>1, <4>1, HubAssumption
      <3> HIDE DEF due
      <3>4. j - i + 1 <= InboundBurst + due
        BY <1>2, <1>7, <1>10, <3>1, <3>2, <3>3
      <3> QED BY <2>1, <3>1, <3>4, Zenon DEF due
    <2>2. CASE ~(d = c /\ j \notin 1 .. n)
      <3>1. /\ i \in DOMAIN passed[d] /\ passed'[d][i] = passed[d][i]
            /\ j \in DOMAIN passed[d] /\ passed'[d][j] = passed[d][j]
        BY <1>9, <1>10, <2>2
      <3> QED BY <1>1, <3>1, ZenonT(60) DEF RateBound, Limited
    <2> QED BY <2>1, <2>2
  <1> QED BY <1>8, <1>12, <1>13

LEMMA RateInit == Init => RateInv
  <1> SUFFICES ASSUME Init PROVE LimiterTypeOK /\ PaidFor /\ RateBound
    BY DEF RateInv
  <1>1. /\ passed = [c \in Conns |-> << >>] /\ now = 0
        /\ tokens = [c \in Conns |-> 0] /\ lastTick = [c \in Conns |-> 0]
    BY DEF Init
  <1>2. \A c \in Conns : DOMAIN passed[c] = {}
    BY <1>1
  <1>3. LimiterTypeOK
    BY <1>1, HubAssumption DEF LimiterTypeOK
  <1> QED BY <1>2, <1>3, Zenon DEF PaidFor, RateBound

LEMMA RateNext == ReplayInv /\ OrderInv /\ RateInv /\ [Next]_vars => RateInv'
  <1> SUFFICES ASSUME ReplayInv, PassedTypeOK, RateInv, [Next]_vars PROVE RateInv'
    BY DEF OrderInv
  <1> DEFINE Kept == /\ UNCHANGED <<tokens, lastTick, passed>>
                     /\ now' = now \/ now' = now + 1
  <1>1. ASSUME NEW p \in Pseudonyms, HandleWS(p) PROVE RateInv'
    BY <1>1, RateConnect
  <1>2. ASSUME NEW c \in Conns, Dispatch(c) PROVE RateInv'
    BY <1>2, RateDispatch
  <1>3. ASSUME NEW c \in Conns, Inbound(c) PROVE Kept
    <2>1. PICK f \in Frames, version \in {"1", "2", "3"}, lineage \in BOOLEAN : Receive(c, f, version, lineage)
      BY <1>3, Zenon DEF Inbound
    <2> QED BY <2>1, Zenon DEF Receive
  <1>4. ASSUME NEW c \in Conns,
               ReadFails(c) \/ ReadCloses(c) \/ PeerGone(c) \/ WriteStep(c) \/ PingFails(c)
        PROVE  Kept
    BY <1>4, Zenon DEF ReadFails, ReadCloses, PeerGone, WriteStep, WriteTake, WriteOk,
       WriteFails, PingFails, inVars
  <1>5. ASSUME NEW g \in Callers, NEW p \in Pseudonyms, SendTo(g, p) \/ BroadcastStep(g, p)
        PROVE  Kept
    BY <1>5, Zenon DEF SendTo, BroadcastStep, inVars
  <1>6. ASSUME NEW g \in Callers, SendEnqueue(g) \/ BroadcastEnd(g) PROVE Kept
    BY <1>6, Zenon DEF SendEnqueue, BroadcastEnd, inVars
  <1>7. ASSUME NEW g \in Callers, NEW to \in SUBSET Pseudonyms, Broadcast(g, to) PROVE Kept
    BY <1>7, Zenon DEF Broadcast, inVars
  <1>8. ASSUME Tick \/ UNCHANGED vars PROVE Kept
    BY <1>8, Zenon DEF Tick, vars, inVars
  <1>9. ASSUME Kept PROVE RateInv'
    BY <1>9, RateUntouched DEF PassedTypeOK
  <1> HIDE DEF Kept
  <1> QED
    BY <1>1, <1>2, <1>3, <1>4, <1>5, <1>6, <1>7, <1>8, <1>9, Zenon DEF Next, ReadStep, CallStep

\* Over every window of time the limiter of a connection admits at most the
\* burst and the rate times the window, for every rate, burst and history.
THEOREM RateBoundSafe == Spec => []RateBound
  <1>1. RateInv => RateBound
    <2>1. CASE Limited
      BY <2>1 DEF RateInv
    <2>2. CASE ~Limited
      BY <2>2, Zenon DEF RateBound, Limited
    <2> QED BY <2>1, <2>2
  <1> QED
    BY <1>1, ReplayInit, ReplayNext, OrderInit, OrderNext, RateInit, RateNext, PTL DEF Spec

-----------------------------------------------------------------------------
(* The way out: the send queues, the write pumps and the broadcasts.       *)
(* WrittenInOrder needs to know when a write pump is at a message,         *)
(* BroadcastComplete that messages are put on the queue of the connection  *)
(* the map has.                                                            *)

Msgs == Nat \ {0}
SendCalls == [op : {"send"}, msg : Msgs, conn : Conns]
BroadcastCalls == [op : {"broadcast"}, msg : Msgs, to : SUBSET Pseudonyms,
                   left : SUBSET Pseudonyms]

OutTypeOK ==
  /\ used \in 0 .. MaxConns
  /\ clients \in [Pseudonyms -> 0 .. used]
  /\ sent \in Nat
  /\ writer \in [Conns -> {"none", "select", "write", "done"}]
  /\ writing \in [Conns -> Nat]
  /\ queue \in [Conns -> Seq(Msgs)]
  /\ enqueued \in [Conns -> Seq(Msgs)]
  /\ written \in [Conns -> Seq(Msgs)]
  /\ call \in [Callers -> {Idle} \cup SendCalls \cup BroadcastCalls]

(* A write pump belongs to a registered connection; one that selects is at *)
(* no message, one that writes is at one.                                  *)
AtMessage ==
  \A c \in Conns : /\ writer[c] # "none" => c <= used
                   /\ writer[c] \in {"none", "select"} => writing[c] = NoMsg
                   /\ writer[c] = "write" => writing[c] \in Msgs

OutInv == OutTypeOK /\ AtMessage /\ WrittenInOrder /\ BroadcastComplete

-----------------------------------------------------------------------------
(* Sequences                                                               *)

(* The head of the queue becomes the message in flight. *)
LEMMA TakeSeq ==
  ASSUME NEW w \in Seq(Msgs), NEW q \in Seq(Msgs), q # << >>
  PROVE  /\ Head(q) \in Msgs /\ Tail(q) \in Seq(Msgs)
         /\ w \o << >> \o q = w \o <<Head(q)>> \o Tail(q)
  OBVIOUS

(* The message in flight becomes the last one written. *)
LEMMA WroteSeq ==
  ASSUME NEW w \in Seq(Msgs), NEW q \in Seq(Msgs), NEW m \in Msgs
  PROVE  w \o <<m>> \o q = Append(w, m) \o << >> \o q
  OBVIOUS

(* A message is put at the end of the queue. *)
LEMMA PutSeq ==
  ASSUME NEW u \in Seq(Msgs), NEW q \in Seq(Msgs), NEW m \in Msgs
  PROVE  Append(u \o q, m) = u \o Append(q, m)
  OBVIOUS

-----------------------------------------------------------------------------
(* Steps                                                                   *)

(* Message m was put on the queue of connection c, or dropped there. *)
Reached(m, c) ==
  \/ \E i \in DOMAIN enqueued[c] : enqueued[c][i] = m
  \/ <<m, c>> \in dropped

InFlight(c) == IF writing[c] = NoMsg THEN << >> ELSE <<writing[c]>>

LEMMA InFlightSeq ==
  ASSUME OutTypeOK, NEW c \in Conns
  PROVE  InFlight(c) \in Seq(Msgs)
<1>1. writing[c] \in Nat
  BY DEF OutTypeOK
<1>2. CASE writing[c] = NoMsg
  BY <1>2 DEF InFlight
<1>3. CASE writing[c] # NoMsg
  <2>1. writing[c] \in Msgs
    BY <1>1, <1>3 DEF NoMsg, Msgs
  <2> QED BY <1>3, <2>1 DEF InFlight
<1> QED BY <1>2, <1>3

(* A non-blocking send appends to the queue and to the record alike, or    *)
(* drops the message; either way it reached the connection.                *)
LEMMA EnqueueKeeps ==
  ASSUME OutInv, NEW c \in Conns, NEW m \in Msgs, Enqueue(c, m),
         UNCHANGED <<writing, written>>
  PROVE  /\ queue' \in [Conns -> Seq(Msgs)] /\ enqueued' \in [Conns -> Seq(Msgs)]
         /\ WrittenInOrder'
         /\ \A d \in Conns, n \in Msgs : Reached(n, d) => Reached(n, d)'
         /\ Reached(m, c)'
<1>1. /\ queue \in [Conns -> Seq(Msgs)] /\ enqueued \in [Conns -> Seq(Msgs)]
      /\ written \in [Conns -> Seq(Msgs)]
  BY DEF OutInv, OutTypeOK
<1>2. CASE /\ queue' = [queue EXCEPT ![c] = Append(queue[c], m)]
           /\ enqueued' = [enqueued EXCEPT ![c] = Append(enqueued[c], m)]
           /\ dropped' = dropped
  <2>1. Append(queue[c], m) \in Seq(Msgs) /\ Append(enqueued[c], m) \in Seq(Msgs)
    BY <1>1
  <2>2. queue' \in [Conns -> Seq(Msgs)]
    BY <1>1, <1>2, <2>1
  <2>3. enqueued' \in [Conns -> Seq(Msgs)]
    BY <1>1, <1>2, <2>1
  <2>4. ASSUME NEW d \in Conns
        PROVE  enqueued'[d] = written[d] \o InFlight(d) \o queue'[d]
    <3>1. enqueued[d] = written[d] \o InFlight(d) \o queue[d]
      BY Zenon DEF OutInv, WrittenInOrder, InFlight
    <3>2. InFlight(d) \in Seq(Msgs)
      BY InFlightSeq DEF OutInv
    <3>3. CASE d = c
      <4>1. /\ enqueued'[c] = Append(enqueued[c], m)
            /\ queue'[c] = Append(queue[c], m)
        BY <1>1, <1>2
      <4>2. /\ written[c] \in Seq(Msgs) /\ queue[c] \in Seq(Msgs)
            /\ InFlight(c) \in Seq(Msgs)
        BY <1>1, <3>2, <3>3, Zenon
      <4> DEFINE u == written[c] \o InFlight(c)
      <4>3. u \in Seq(Msgs)
        BY <4>2
      <4>4. enqueued[c] = u \o queue[c]
        BY <3>1, <3>3, Zenon
      <4> HIDE DEF u
      <4>5. Append(u \o queue[c], m) = u \o Append(queue[c], m)
        BY <4>2, <4>3, PutSeq, Zenon
      <4>6. enqueued'[c] = u \o queue'[c]
        BY <4>1, <4>4, <4>5, Zenon
      <4> QED BY <3>3, <4>6, Zenon DEF u
    <3>4. CASE d # c
      BY <1>1, <1>2, <3>1, <3>4
    <3> QED BY <3>3, <3>4, Zenon
  <2>5. WrittenInOrder'
    BY <2>4, Zenon DEF WrittenInOrder, InFlight
  <2>6. enqueued'[c] = Append(enqueued[c], m) /\ enqueued[c] \in Seq(Msgs)
    BY <1>1, <1>2, Zenon
  <2>7. /\ DOMAIN enqueued[c] \subseteq DOMAIN enqueued'[c]
        /\ \A i \in DOMAIN enqueued[c] : enqueued'[c][i] = enqueued[c][i]
        /\ Len(enqueued[c]) + 1 \in DOMAIN enqueued'[c]
        /\ enqueued'[c][Len(enqueued[c]) + 1] = m
    BY <2>6
  <2>8. Reached(m, c)'
    BY <2>7, Zenon DEF Reached
  <2>9. \A d \in Conns, n \in Msgs : Reached(n, d) => Reached(n, d)'
    <3>1. \A d \in Conns : d # c => enqueued'[d] = enqueued[d]
      BY <1>1, <1>2
    <3> QED BY <3>1, <2>7, <1>2, Zenon DEF Reached
  <2> QED BY <2>2, <2>3, <2>5, <2>8, <2>9
<1>3. CASE dropped' = dropped \cup {<<m, c>>} /\ UNCHANGED <<queue, enqueued>>
  <2>1. WrittenInOrder'
    BY <1>3, Zenon DEF OutInv, WrittenInOrder
  <2>2. \A d \in Conns, n \in Msgs : Reached(n, d) => Reached(n, d)'
    BY <1>3, Zenon DEF Reached
  <2>3. Reached(m, c)'
    BY <1>3, Zenon DEF Reached
  <2> QED BY <1>1, <1>3, <2>1, <2>2, <2>3
<1> QED BY <1>2, <1>3, Zenon DEF Enqueue

(* The map has connections that were registered. *)
LEMMA MapConns ==
  ASSUME OutTypeOK, NEW p \in Pseudonyms, clients[p] # NoConn
  PROVE  clients[p] \in Conns
<1>1. clients[p] \in 0 .. used /\ used \in 0 .. MaxConns
  BY Zenon DEF OutTypeOK
<1> QED BY <1>1, HubAssumption DEF Conns, NoConn

(* What a sending goroutine is at. *)
LEMMA CallFacts ==
  ASSUME OutTypeOK, NEW g \in Callers
  PROVE  /\ call[g].op = "send" => call[g] \in SendCalls
         /\ call[g].op = "broadcast" => call[g] \in BroadcastCalls
<1>1. call[g] \in {Idle} \cup SendCalls \cup BroadcastCalls
  BY Zenon DEF OutTypeOK
<1> QED BY <1>1 DEF Idle, SendCalls, BroadcastCalls

(* Goroutine g takes a step under the same map, and nothing that reached a *)
(* connection is lost: only its own broadcast has to be looked at.         *)
LEMMA CompleteStep ==
  ASSUME OutInv, NEW g \in Callers, clients' = clients,
         \A h \in Callers \ {g} : call'[h] = call[h],
         \A d \in Conns, n \in Msgs : Reached(n, d) => Reached(n, d)',
         call'[g].op = "broadcast" =>
           \A p \in call'[g].to \ call'[g].left : clients[p] # NoConn =>
              Reached(call[g].msg, clients[p])'
  PROVE  BroadcastComplete'
<1> SUFFICES ASSUME NEW h \in Callers, call'[h].op = "broadcast",
                    NEW p \in call'[h].to \ call'[h].left, clients'[p] # NoConn
             PROVE  Reached(call[h].msg, clients[p])'
  BY Zenon DEF BroadcastComplete, Reached
<1>1. CASE h = g
  BY <1>1, ZenonT(60)
<1>2. CASE h # g
  <2>1. call'[h] = call[h] /\ clients' = clients
    BY <1>2, Zenon
  <2>2. call[h] \in BroadcastCalls
    BY <2>1, CallFacts, Zenon DEF OutInv
  <2>3. call[h].msg \in Msgs /\ p \in Pseudonyms
    BY <2>1, <2>2, Zenon DEF BroadcastCalls
  <2>4. clients[p] \in Conns
    BY <2>1, <2>3, MapConns DEF OutInv
  <2>5. Reached(call[h].msg, clients[p])
    BY <2>1, Zenon DEF OutInv, BroadcastComplete, Reached
  <2> QED BY <2>1, <2>3, <2>4, <2>5, Zenon
<1> QED BY <1>1, <1>2

(* Steps that leave the queues, the messages in flight and the senders. *)
LEMMA OutUntouched ==
  ASSUME OutInv, UNCHANGED <<clients, used, writer, writing, outVars>>
  PROVE  OutInv'
<1>1. OutTypeOK'
  BY DEF OutInv, OutTypeOK, outVars
<1>2. AtMessage' /\ WrittenInOrder'
  BY Zenon DEF OutInv, AtMessage, WrittenInOrder, outVars
<1>3. BroadcastComplete'
  BY ZenonT(60) DEF OutInv, BroadcastComplete, outVars
<1> QED BY <1>1, <1>2, <1>3 DEF OutInv

(* The map changes under the write lock: no broadcast is in progress. *)
LEMMA MapWritten ==
  ASSUME OutInv, Unlocked, UNCHANGED outVars
  PROVE  BroadcastComplete' /\ UNCHANGED <<call, sent, queue, enqueued, written, dropped>>
BY DEF BroadcastComplete, Unlocked, outVars

LEMMA OutConnect ==
  ASSUME OutInv, NEW p \in Pseudonyms, HandleWS(p)
  PROVE  OutInv'
<1> DEFINE c == used + 1
<1>1. /\ used' = c /\ used < MaxConns /\ clients' = [clients EXCEPT ![p] = c]
      /\ writer' = [writer EXCEPT ![c] = "select"]
      /\ writing' = writing /\ Unlocked /\ UNCHANGED outVars
  BY DEF HandleWS
<1>2. BroadcastComplete' /\ UNCHANGED <<call, sent, queue, enqueued, written, dropped>>
  BY <1>1, MapWritten
<1>3. c \in Conns /\ used' \in 0 .. MaxConns /\ used \in Nat
  BY <1>1, HubAssumption DEF OutInv, OutTypeOK, Conns
<1>4. writer[c] = "none"
  BY <1>3 DEF OutInv, OutTypeOK, AtMessage
<1>5. writing[c] = NoMsg
  BY <1>3, <1>4 DEF OutInv, AtMessage
<1>6. clients' \in [Pseudonyms -> 0 .. used']
  <2>1. \A q \in Pseudonyms : clients[q] \in 0 .. used
    BY DEF OutInv, OutTypeOK
  <2>2. \A q \in Pseudonyms : clients[q] \in 0 .. used' /\ c \in 0 .. used'
    BY <1>1, <1>3, <2>1
  <2>3. DOMAIN clients = Pseudonyms
    BY DEF OutInv, OutTypeOK
  <2> QED BY <1>1, <2>2, <2>3, Zenon
<1>7. writer' \in [Conns -> {"none", "select", "write", "done"}]
  BY <1>1, <1>3, Zenon DEF OutInv, OutTypeOK
<1>8. OutTypeOK'
  BY <1>1, <1>2, <1>3, <1>6, <1>7 DEF OutInv, OutTypeOK
<1>9. AtMessage'
  <2> SUFFICES ASSUME NEW d \in Conns
               PROVE  /\ writer'[d] # "none" => d <= used'
                      /\ writer'[d] \in {"none", "select"} => writing'[d] = NoMsg
                      /\ writer'[d] = "write" => writing'[d] \in Msgs
    BY DEF AtMessage
  <2>1. CASE d = c
    BY <1>1, <1>3, <1>5, <2>1 DEF OutInv, OutTypeOK
  <2>2. CASE d # c
    <3>1. writer'[d] = writer[d] /\ writing'[d] = writing[d]
      BY <1>1, <2>2 DEF OutInv, OutTypeOK
    <3>2. d \in Nat
      BY DEF Conns
    <3> QED BY <1>1, <1>3, <3>1, <3>2 DEF OutInv, AtMessage
  <2> QED BY <2>1, <2>2
<1>10. WrittenInOrder'
  BY <1>1, <1>2, Zenon DEF OutInv, WrittenInOrder
<1> QED BY <1>2, <1>8, <1>9, <1>10 DEF OutInv

LEMMA OutReadFails ==
  ASSUME OutInv, NEW c \in Conns, ReadFails(c)
  PROVE  OutInv'
<1>1. /\ clients' = [clients EXCEPT ![owner[c]] = NoConn] /\ Unlocked
      /\ UNCHANGED <<used, writer, writing>> /\ UNCHANGED outVars
  BY DEF ReadFails
<1>2. BroadcastComplete' /\ UNCHANGED <<call, sent, queue, enqueued, written, dropped>>
  BY <1>1, MapWritten
<1>3. clients' \in [Pseudonyms -> 0 .. used]
  <2>1. NoConn \in 0 .. used
    BY DEF OutInv, OutTypeOK, NoConn
  <2> QED BY <1>1, <2>1, Zenon DEF OutInv, OutTypeOK
<1>4. OutTypeOK'
  BY <1>1, <1>2, <1>3 DEF OutInv, OutTypeOK
<1>5. AtMessage' /\ WrittenInOrder'
  BY <1>1, <1>2, Zenon DEF OutInv, AtMessage, WrittenInOrder
<1> QED BY <1>2, <1>4, <1>5 DEF OutInv

(* The write pump of c takes the head of its queue. *)
LEMMA OutTake ==
  ASSUME OutInv, NEW c \in Conns, WriteTake(c)
  PROVE  OutInv'
<1>1. /\ writer[c] = "select" /\ queue[c] # << >>
      /\ writing' = [writing EXCEPT ![c] = Head(queue[c])]
      /\ queue' = [queue EXCEPT ![c] = Tail(queue[c])]
      /\ writer' = [writer EXCEPT ![c] = "write"]
      /\ UNCHANGED <<clients, used, call, sent, enqueued, written, dropped>>
  BY DEF WriteTake, mapVars
<1>2. /\ queue \in [Conns -> Seq(Msgs)] /\ written \in [Conns -> Seq(Msgs)]
      /\ writing \in [Conns -> Nat] /\ writer \in [Conns -> {"none", "select", "write", "done"}]
  BY DEF OutInv, OutTypeOK
<1>3. /\ Head(queue[c]) \in Msgs /\ Tail(queue[c]) \in Seq(Msgs)
      /\ written[c] \o << >> \o queue[c]
           = written[c] \o <<Head(queue[c])>> \o Tail(queue[c])
  BY <1>1, <1>2, TakeSeq
<1>4. Head(queue[c]) \in Nat /\ Head(queue[c]) # NoMsg
  BY <1>3 DEF Msgs, NoMsg
<1>5. queue' \in [Conns -> Seq(Msgs)]
  BY <1>1, <1>2, <1>3
<1>6. writing' \in [Conns -> Nat] /\ writer' \in [Conns -> {"none", "select", "write", "done"}]
  BY <1>1, <1>2, <1>4
<1>7. OutTypeOK'
  BY <1>1, <1>5, <1>6 DEF OutInv, OutTypeOK
<1>8. /\ writing'[c] = Head(queue[c]) /\ queue'[c] = Tail(queue[c]) /\ writer'[c] = "write"
      /\ \A d \in Conns \ {c} : /\ writing'[d] = writing[d] /\ queue'[d] = queue[d]
                                /\ writer'[d] = writer[d]
  BY <1>1, <1>2, Zenon
<1>9. AtMessage'
  BY <1>1, <1>3, <1>8 DEF OutInv, AtMessage
<1>10. WrittenInOrder'
  <2> SUFFICES ASSUME NEW d \in Conns
               PROVE  enqueued[d] = written[d] \o InFlight(d)' \o queue'[d]
    BY <1>1, Zenon DEF WrittenInOrder, InFlight
  <2>1. enqueued[d] = written[d] \o InFlight(d) \o queue[d]
    BY Zenon DEF OutInv, WrittenInOrder, InFlight
  <2>2. CASE d = c
    <3>1. InFlight(c) = << >>
      BY <1>1 DEF OutInv, AtMessage, InFlight
    <3>2. InFlight(c)' = <<Head(queue[c])>>
      BY <1>4, <1>8, Zenon DEF InFlight
    <3> QED BY <2>1, <2>2, <3>1, <3>2, <1>3, <1>8, ZenonT(60)
  <2>3. CASE d # c
    <3>1. InFlight(d)' = InFlight(d) /\ queue'[d] = queue[d]
      BY <1>8, <2>3, Zenon DEF InFlight
    <3> QED BY <2>1, <3>1, Zenon
  <2> QED BY <2>2, <2>3, Zenon
<1>11. BroadcastComplete'
  BY <1>1, Zenon DEF OutInv, BroadcastComplete
<1> QED BY <1>7, <1>9, <1>10, <1>11 DEF OutInv

(* The message in flight is written. *)
LEMMA OutWrote ==
  ASSUME OutInv, NEW c \in Conns, WriteOk(c)
  PROVE  OutInv'
<1>1. /\ writer[c] = "write"
      /\ written' = [written EXCEPT ![c] = Append(written[c], writing[c])]
      /\ writing' = [writing EXCEPT ![c] = NoMsg]
      /\ writer' = [writer EXCEPT ![c] = "select"]
      /\ UNCHANGED <<clients, used, queue, call, sent, enqueued, dropped>>
  BY DEF WriteOk, mapVars
<1>2. /\ queue \in [Conns -> Seq(Msgs)] /\ written \in [Conns -> Seq(Msgs)]
      /\ writing \in [Conns -> Nat] /\ writer \in [Conns -> {"none", "select", "write", "done"}]
  BY DEF OutInv, OutTypeOK
<1>3. writing[c] \in Msgs /\ writing[c] # NoMsg
  BY <1>1 DEF OutInv, AtMessage, Msgs, NoMsg
<1>4. written[c] \o <<writing[c]>> \o queue[c]
        = Append(written[c], writing[c]) \o << >> \o queue[c]
  BY <1>2, <1>3, WroteSeq
<1>5. Append(written[c], writing[c]) \in Seq(Msgs) /\ NoMsg \in Nat
  BY <1>2, <1>3 DEF NoMsg
<1>6. written' \in [Conns -> Seq(Msgs)]
  BY <1>1, <1>2, <1>5
<1>7. writing' \in [Conns -> Nat] /\ writer' \in [Conns -> {"none", "select", "write", "done"}]
  BY <1>1, <1>2, <1>5, Zenon
<1>8. OutTypeOK'
  BY <1>1, <1>6, <1>7 DEF OutInv, OutTypeOK
<1>9. /\ writing'[c] = NoMsg /\ written'[c] = Append(written[c], writing[c])
      /\ writer'[c] = "select"
      /\ \A d \in Conns \ {c} : /\ writing'[d] = writing[d] /\ written'[d] = written[d]
                                /\ writer'[d] = writer[d]
  BY <1>1, <1>2
<1>10. AtMessage'
  BY <1>1, <1>9 DEF OutInv, AtMessage
<1>11. WrittenInOrder'
  <2> SUFFICES ASSUME NEW d \in Conns
               PROVE  enqueued[d] = written'[d] \o InFlight(d)' \o queue[d]
    BY <1>1, Zenon DEF WrittenInOrder, InFlight
  <2>1. enqueued[d] = written[d] \o InFlight(d) \o queue[d]
    BY Zenon DEF OutInv, WrittenInOrder, InFlight
  <2>2. CASE d = c
    <3>1. InFlight(c) = <<writing[c]>> /\ InFlight(c)' = << >>
      BY <1>3, <1>9 DEF InFlight
    <3> QED BY <2>1, <2>2, <3>1, <1>4, <1>9, Zenon
  <2>3. CASE d # c
    <3>1. InFlight(d)' = InFlight(d) /\ written'[d] = written[d]
      BY <1>9, <2>3, Zenon DEF InFlight
    <3> QED BY <2>1, <3>1, Zenon
  <2> QED BY <2>2, <2>3, Zenon
<1>12. BroadcastComplete'
  BY <1>1, Zenon DEF OutInv, BroadcastComplete
<1> QED BY <1>8, <1>10, <1>11, <1>12 DEF OutInv

(* An attempt fails: the pump stays at its message, or gives up with it. *)
LEMMA OutWriterEnds ==
  ASSUME OutInv, NEW c \in Conns, WriteFails(c) \/ PingFails(c)
  PROVE  OutInv'
<1>1. /\ writer' = writer \/ writer' = [writer EXCEPT ![c] = "done"]
      /\ writer[c] # "none"
      /\ UNCHANGED <<clients, used, writing>> /\ UNCHANGED outVars
  BY DEF WriteFails, PingFails, mapVars
<1>2. writer \in [Conns -> {"none", "select", "write", "done"}]
  BY DEF OutInv, OutTypeOK
<1>3. writer' \in [Conns -> {"none", "select", "write", "done"}]
  BY <1>1, <1>2
<1>4. OutTypeOK'
  BY <1>1, <1>3 DEF OutInv, OutTypeOK, outVars
<1>5. \A d \in Conns : writer'[d] = writer[d] \/ (writer'[d] = "done" /\ writer[d] # "none")
  BY <1>1, <1>2, Zenon
<1>6. AtMessage'
  BY <1>1, <1>5, ZenonT(60) DEF OutInv, AtMessage
<1>7. WrittenInOrder' /\ BroadcastComplete'
  BY <1>1, ZenonT(60) DEF OutInv, WrittenInOrder, BroadcastComplete, outVars
<1> QED BY <1>4, <1>6, <1>7 DEF OutInv

(* A goroutine starts or ends a call and touches no queue. *)
LEMMA OutCall ==
  ASSUME OutInv, NEW g \in Callers, NEW r \in {Idle} \cup SendCalls \cup BroadcastCalls,
         call' = [call EXCEPT ![g] = r], r.op = "broadcast" => r.to = r.left,
         sent' \in Nat,
         UNCHANGED <<clients, used, writer, writing, queue, enqueued, written, dropped>>
  PROVE  OutInv'
<1>1. call' \in [Callers -> {Idle} \cup SendCalls \cup BroadcastCalls]
  BY Zenon DEF OutInv, OutTypeOK
<1>2. OutTypeOK'
  BY <1>1, ZenonT(60) DEF OutInv, OutTypeOK
<1>3. AtMessage' /\ WrittenInOrder'
  BY ZenonT(60) DEF OutInv, AtMessage, WrittenInOrder
<1>4. call'[g] = r /\ \A h \in Callers \ {g} : call'[h] = call[h]
  BY DEF OutInv, OutTypeOK
<1>5. \A d \in Conns, n \in Msgs : Reached(n, d) => Reached(n, d)'
  BY Zenon DEF Reached
<1>6. BroadcastComplete'
  BY <1>4, <1>5, CompleteStep, Zenon
<1> QED BY <1>2, <1>3, <1>6, Zenon DEF OutInv

LEMMA OutSendTo ==
  ASSUME OutInv, NEW g \in Callers, NEW p \in Pseudonyms, SendTo(g, p)
  PROVE  OutInv'
<1>1. /\ sent' = sent + 1
      /\ UNCHANGED <<clients, used, writer, writing, queue, enqueued, written, dropped>>
  BY DEF SendTo, mapVars, pumpVars
<1>2. sent \in Nat /\ sent' \in Nat /\ sent + 1 \in Msgs
  BY <1>1 DEF OutInv, OutTypeOK, Msgs
<1>3. CASE call' = call
  <2>1. OutTypeOK'
    BY <1>1, <1>2, <1>3, ZenonT(60) DEF OutInv, OutTypeOK
  <2>2. AtMessage' /\ WrittenInOrder' /\ BroadcastComplete'
    BY <1>1, <1>3, Zenon DEF OutInv, AtMessage, WrittenInOrder, BroadcastComplete
  <2> QED BY <2>1, <2>2, Zenon DEF OutInv
<1>4. CASE /\ clients[p] # NoConn
           /\ call' = [call EXCEPT ![g] =
                         [op |-> "send", msg |-> sent + 1, conn |-> clients[p]]]
  <2> DEFINE r == [op |-> "send", msg |-> sent + 1, conn |-> clients[p]]
  <2>1. clients[p] \in Conns
    BY <1>4, MapConns DEF OutInv
  <2>2. r \in SendCalls /\ r.op # "broadcast"
    BY <1>2, <2>1 DEF SendCalls
  <2>3. call' = [call EXCEPT ![g] = r]
    BY <1>4
  <2> HIDE DEF r
  <2> QED BY <1>1, <1>2, <2>2, <2>3, OutCall, Zenon
<1> QED BY <1>3, <1>4 DEF SendTo

LEMMA OutBroadcast ==
  ASSUME OutInv, NEW g \in Callers, NEW to \in SUBSET Pseudonyms, Broadcast(g, to)
  PROVE  OutInv'
<1> DEFINE r == [op |-> "broadcast", msg |-> sent + 1, to |-> to, left |-> to]
<1>1. /\ sent' = sent + 1 /\ call' = [call EXCEPT ![g] = r]
      /\ UNCHANGED <<clients, used, writer, writing, queue, enqueued, written, dropped>>
  BY Zenon DEF Broadcast, mapVars, pumpVars
<1>2. sent \in Nat /\ sent' \in Nat /\ sent + 1 \in Msgs
  BY <1>1 DEF OutInv, OutTypeOK, Msgs
<1>3. r \in BroadcastCalls /\ r.to = r.left
  BY <1>2 DEF BroadcastCalls
<1> HIDE DEF r
<1> QED BY <1>1, <1>2, <1>3, OutCall, ZenonT(60)

LEMMA OutBroadcastEnd ==
  ASSUME OutInv, NEW g \in Callers, BroadcastEnd(g)
  PROVE  OutInv'
<1>1. /\ sent' = sent /\ call' = [call EXCEPT ![g] = Idle]
      /\ UNCHANGED <<clients, used, writer, writing, queue, enqueued, written, dropped>>
  BY DEF BroadcastEnd, mapVars, pumpVars
<1>2. sent' \in Nat /\ Idle.op # "broadcast"
  BY <1>1 DEF OutInv, OutTypeOK, Idle
<1> QED BY <1>1, <1>2, OutCall, ZenonT(60)

(* SendTo puts its message on the queue of the connection it found. *)
LEMMA OutSendEnqueue ==
  ASSUME OutInv, NEW g \in Callers, SendEnqueue(g)
  PROVE  OutInv'
<1>1. /\ call[g].op = "send" /\ Enqueue(call[g].conn, call[g].msg)
      /\ call' = [call EXCEPT ![g] = Idle]
      /\ UNCHANGED <<clients, used, writer, writing, written, sent>>
  BY DEF SendEnqueue, mapVars, pumpVars
<1>2. call[g].conn \in Conns /\ call[g].msg \in Msgs
  BY <1>1, CallFacts DEF OutInv, SendCalls
<1>3. /\ queue' \in [Conns -> Seq(Msgs)] /\ enqueued' \in [Conns -> Seq(Msgs)]
      /\ WrittenInOrder'
      /\ \A d \in Conns, n \in Msgs : Reached(n, d) => Reached(n, d)'
  BY <1>1, <1>2, EnqueueKeeps
<1>4. /\ call' \in [Callers -> {Idle} \cup SendCalls \cup BroadcastCalls]
      /\ call'[g] = Idle /\ \A h \in Callers \ {g} : call'[h] = call[h]
  BY <1>1, Zenon DEF OutInv, OutTypeOK
<1>5. OutTypeOK' /\ AtMessage'
  BY <1>1, <1>3, <1>4 DEF OutInv, OutTypeOK, AtMessage
<1>6. Idle.op # "broadcast"
  BY ZenonT(60) DEF Idle
<1>7. BroadcastComplete'
  BY <1>1, <1>3, <1>4, <1>6, CompleteStep, ZenonT(60)
<1> QED BY <1>3, <1>5, <1>7 DEF OutInv

(* A broadcast passes client p: the connection of the map has its message. *)
LEMMA OutBroadcastStep ==
  ASSUME OutInv, NEW g \in Callers, NEW p \in Pseudonyms, BroadcastStep(g, p)
  PROVE  OutInv'
<1> DEFINE r == [call[g] EXCEPT !.left = @ \ {p}]
<1>1. /\ call[g].op = "broadcast" /\ call' = [call EXCEPT ![g] = r]
      /\ UNCHANGED <<clients, used, writer, writing, written, sent>>
  BY DEF BroadcastStep, mapVars, pumpVars
<1>2. call[g] \in BroadcastCalls
  BY <1>1, CallFacts DEF OutInv
<1>3. /\ r \in BroadcastCalls /\ r.msg = call[g].msg /\ r.to = call[g].to
      /\ r.left = call[g].left \ {p} /\ call[g].msg \in Msgs
      /\ call[g].to \in SUBSET Pseudonyms
  BY <1>2 DEF BroadcastCalls
<1>4. /\ queue' \in [Conns -> Seq(Msgs)] /\ enqueued' \in [Conns -> Seq(Msgs)]
      /\ WrittenInOrder'
      /\ \A d \in Conns, n \in Msgs : Reached(n, d) => Reached(n, d)'
      /\ clients[p] # NoConn =>
           (\E i \in DOMAIN enqueued'[clients[p]] : enqueued'[clients[p]][i] = call[g].msg)
             \/ <<call[g].msg, clients[p]>> \in dropped'
  <2>1. CASE clients[p] = NoConn /\ UNCHANGED <<queue, enqueued, dropped>>
    <3>1. WrittenInOrder'
      BY <1>1, <2>1, ZenonT(60) DEF OutInv, WrittenInOrder
    <3>2. \A d \in Conns, n \in Msgs : Reached(n, d) => Reached(n, d)'
      BY <2>1, Zenon DEF Reached
    <3> QED BY <2>1, <3>1, <3>2, Zenon DEF OutInv, OutTypeOK
  <2>2. CASE clients[p] # NoConn /\ Enqueue(clients[p], call[g].msg)
    <3> DEFINE c == clients[p]
               m == call[g].msg
    <3>1. c \in Conns /\ m \in Msgs /\ Enqueue(c, m) /\ UNCHANGED <<writing, written>>
      BY <1>1, <1>3, <2>2, MapConns DEF OutInv
    <3> HIDE DEF c, m
    <3>2. PICK cc \in Conns, mm \in Msgs : cc = c /\ mm = m
      BY <3>1, Zenon
    <3>3. /\ queue' \in [Conns -> Seq(Msgs)] /\ enqueued' \in [Conns -> Seq(Msgs)]
          /\ WrittenInOrder'
          /\ \A d \in Conns, n \in Msgs : Reached(n, d) => Reached(n, d)'
          /\ Reached(mm, cc)'
      BY <3>1, <3>2, EnqueueKeeps
    <3>4. (\E i \in DOMAIN enqueued'[cc] : enqueued'[cc][i] = mm) \/ <<mm, cc>> \in dropped'
      BY <3>3, Zenon DEF Reached
    <3> QED BY <3>2, <3>3, <3>4, Zenon DEF c, m
  <2> QED BY <2>1, <2>2, ZenonT(60) DEF BroadcastStep
<1> HIDE DEF r
<1>5. /\ call' \in [Callers -> {Idle} \cup SendCalls \cup BroadcastCalls]
      /\ call'[g] = r /\ \A h \in Callers \ {g} : call'[h] = call[h]
  BY <1>1, <1>3, Zenon DEF OutInv, OutTypeOK
<1>6. OutTypeOK' /\ AtMessage'
  BY <1>1, <1>4, <1>5, ZenonT(60) DEF OutInv, OutTypeOK, AtMessage
<1>7. ASSUME NEW q \in call'[g].to \ call'[g].left, clients[q] # NoConn
      PROVE  Reached(call[g].msg, clients[q])'
  <2>1. call'[g].msg = call[g].msg /\ clients' = clients
    BY <1>1, <1>3, <1>5
  <2>2. CASE q = p
    BY <2>1, <2>2, <1>4, <1>7, ZenonT(60) DEF Reached
  <2>3. CASE q # p
    <3>1. q \in call[g].to \ call[g].left
      BY <1>3, <1>5, <1>7, <2>3
    <3>2. Reached(call[g].msg, clients[q])
      BY <1>1, <1>7, <3>1, ZenonT(60) DEF OutInv, BroadcastComplete, Reached
    <3>3. clients[q] \in Conns
      BY <1>3, <1>7, <3>1, MapConns, ZenonT(60) DEF OutInv
    <3> QED BY <2>1, <1>3, <1>4, <3>2, <3>3, ZenonT(60)
  <2> QED BY <2>2, <2>3, ZenonT(60)
<1>8. BroadcastComplete'
  BY <1>1, <1>4, <1>5, <1>7, CompleteStep, Zenon
<1> QED BY <1>4, <1>6, <1>8, Zenon DEF OutInv

-----------------------------------------------------------------------------
(* Theorems                                                                *)

LEMMA OutInit == Init => OutInv
<1> SUFFICES ASSUME Init PROVE OutInv
  OBVIOUS
<1>1. /\ used = 0 /\ sent = 0 /\ clients = [p \in Pseudonyms |-> 0]
      /\ writer = [c \in Conns |-> "none"] /\ writing = [c \in Conns |-> 0]
      /\ call = [g \in Callers |-> Idle]
  BY DEF Init, NoConn, NoMsg
<1>2. /\ queue = [c \in Conns |-> << >>] /\ enqueued = [c \in Conns |-> << >>]
      /\ written = [c \in Conns |-> << >>]
  BY DEF Init
<1>3. << >> \in Seq(Msgs) /\ << >> = << >> \o << >> \o << >>
  OBVIOUS
<1>4. /\ queue \in [Conns -> Seq(Msgs)] /\ enqueued \in [Conns -> Seq(Msgs)]
      /\ written \in [Conns -> Seq(Msgs)]
  BY <1>2, <1>3, Zenon
<1>5. OutTypeOK
  BY <1>1, <1>4, HubAssumption DEF OutTypeOK
<1>6. AtMessage
  BY <1>1 DEF AtMessage, NoMsg
<1>7. WrittenInOrder
  BY <1>1, <1>2, <1>3, Zenon DEF WrittenInOrder, NoMsg
<1>8. BroadcastComplete
  BY <1>1 DEF BroadcastComplete, Idle
<1> QED BY <1>5, <1>6, <1>7, <1>8 DEF OutInv

LEMMA OutNext == OutInv /\ [Next]_vars => OutInv'
<1> SUFFICES ASSUME OutInv, [Next]_vars PROVE OutInv'
  OBVIOUS
<1>1. ASSUME NEW p \in Pseudonyms, HandleWS(p) PROVE OutInv'
  BY <1>1, OutConnect
<1>2. ASSUME NEW c \in Conns, PeerGone(c) \/ Dispatch(c) \/ ReadCloses(c) PROVE OutInv'
  <2>1. UNCHANGED <<clients, used, writer, writing, outVars>>
    BY <1>2, Zenon DEF PeerGone, Dispatch, ReadCloses, mapVars
  <2> QED BY <2>1, OutUntouched
<1>3. ASSUME NEW c \in Conns, Inbound(c) PROVE OutInv'
  <2>1. PICK f \in Frames, version \in {"1", "2", "3"}, lineage \in BOOLEAN : Receive(c, f, version, lineage)
    BY <1>3, Zenon DEF Inbound
  <2>2. UNCHANGED <<clients, used, writer, writing, outVars>>
    BY <2>1, Zenon DEF Receive, mapVars
  <2> QED BY <2>2, OutUntouched
<1>4. ASSUME NEW c \in Conns, ReadFails(c) PROVE OutInv'
  BY <1>4, OutReadFails
<1>5. ASSUME NEW c \in Conns, WriteStep(c) \/ PingFails(c) PROVE OutInv'
  BY <1>5, OutTake, OutWrote, OutWriterEnds, Zenon DEF WriteStep
<1>6. ASSUME NEW g \in Callers, NEW p \in Pseudonyms, SendTo(g, p) \/ BroadcastStep(g, p)
      PROVE  OutInv'
  BY <1>6, OutSendTo, OutBroadcastStep, Zenon
<1>7. ASSUME NEW g \in Callers, NEW to \in SUBSET Pseudonyms, Broadcast(g, to)
      PROVE  OutInv'
  BY <1>7, OutBroadcast
<1>8. ASSUME NEW g \in Callers, SendEnqueue(g) \/ BroadcastEnd(g) PROVE OutInv'
  BY <1>8, OutSendEnqueue, OutBroadcastEnd, Zenon
<1>9. ASSUME Tick \/ UNCHANGED vars PROVE OutInv'
  <2>1. UNCHANGED <<clients, used, writer, writing, outVars>>
    BY <1>9, Zenon DEF Tick, vars, mapVars, pumpVars
  <2> QED BY <2>1, OutUntouched
<1> QED
  BY <1>1, <1>2, <1>3, <1>4, <1>5, <1>6, <1>7, <1>8, <1>9, ZenonT(60) DEF Next, ReadStep, CallStep

(* Client.Send and writePump keep the order: what is written, in flight    *)
(* and queued is at all times what SendTo and the broadcasts enqueued,     *)
(* whatever write attempts fail and however deep the queue is.             *)
THEOREM WrittenInOrderSafe == Spec => []WrittenInOrder
<1>1. OutInv => WrittenInOrder
  BY DEF OutInv
<1> QED BY <1>1, OutInit, OutNext, PTL DEF Spec

(* Broadcast and BroadcastToSession miss no client they have passed that   *)
(* is in the map, however clients connect and leave meanwhile.             *)
THEOREM BroadcastCompleteSafe == Spec => []BroadcastComplete
<1>1. OutInv => BroadcastComplete
  BY DEF OutInv
<1> QED BY <1>1, OutInit, OutNext, PTL DEF Spec

=============================================================================
