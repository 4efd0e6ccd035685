-------------------------------- MODULE Hub --------------------------------
(***************************************************************************)
(* The WebSocket hub of pkg/ares/transport: the map of connected clients,  *)
(* the read and write pumps of every connection, the replay filter and the *)
(* rate limiter in front of the message handler, and the goroutines that   *)
(* send to one client or broadcast to many.                                *)
(*                                                                         *)
(* Connections are numbered in the order HandleWS registers them.  What a  *)
(* frame says is abstracted to what the filter looks at: a key (session id *)
(* and message type; with the pseudonym it is the key of seqHigh) and the  *)
(* sequence number.                                                        *)
(***************************************************************************)
EXTENDS Integers, Sequences, FiniteSets

CONSTANTS
  Pseudonyms,      \* authenticated client identities
  Callers,         \* goroutines that call SendTo and the broadcasts
  Keys,            \* (session_id, type) pairs of inbound frames
  MaxSeq,          \* bound: largest Seq of a frame; 0 is "no Seq"
  MaxConns,        \* bound: connections ever upgraded
  MaxSends,        \* bound: outbound messages
  MaxPassed,       \* bound: frames handed to the handler per connection
  MaxTime,         \* bound: ticks of the clock
  SendBufferSize,  \* depth of Client.Send
  InboundRate,     \* tokens per tick, 0: no limiter
  InboundBurst     \* capacity of the token bucket, 0: no limiter

Conns == 1 .. MaxConns
NoConn == 0
NoFrame == <<>>
NoMsg == 0
MaxAttempts == 3

ASSUME HubAssumption ==
  /\ MaxConns \in Nat /\ MaxSends \in Nat /\ MaxSeq \in Nat
  /\ MaxPassed \in Nat /\ MaxTime \in Nat
  /\ SendBufferSize \in Nat \ {0}
  /\ InboundRate \in Nat /\ InboundBurst \in Nat

VARIABLES
  clients,   \* h.clients: pseudonym -> connection, or NoConn
  used,      \* connections registered so far
  owner,     \* connection -> its pseudonym (a sequence over 1..used)
  link,      \* connection -> "open", "gone" (peer lost) or "closed"
  reader,    \* connection -> step of its readPump
  frame,     \* connection -> the frame readPump has passed the filter with
  writer,    \* connection -> step of its writePump
  writing,   \* connection -> message writeWithRetry is at, or NoMsg
  attempt,   \* connection -> failed attempts at that message
  queue,     \* connection -> Client.Send
  seqHigh,   \* h.seqHigh, 0 where there is no entry
  now,       \* h.clock
  tokens,    \* connection -> limiter.tokens
  lastTick,  \* connection -> limiter.lastTick
  call,      \* caller -> the SendTo or broadcast it is in
  sent,      \* messages handed to SendTo and the broadcasts so far
  handled,   \* history: frames onMsg was called with, as a function to 0..2
  passed,    \* history: connection -> frames it handed to onMsg, and when
  born,      \* history: connection -> time of its upgrade
  enqueued,  \* history: connection -> all messages put on its queue
  written,   \* history: connection -> all messages written to the peer
  dropped    \* history: <<message, connection>> dropped at a full queue

mapVars == <<clients, used, owner, born>>
pumpVars == <<link, reader, frame, writer, writing, attempt>>
inVars == <<seqHigh, tokens, lastTick, handled, passed>>
outVars == <<queue, call, sent, enqueued, written, dropped>>
vars == <<mapVars, pumpVars, inVars, outVars, now>>

Idle == [op |-> "idle"]
Frames == [key : Keys, seq : 0 .. MaxSeq]

Init ==
  /\ clients = [p \in Pseudonyms |-> NoConn]
  /\ used = 0
  /\ owner = <<>>
  /\ link = [c \in Conns |-> "none"]
  /\ reader = [c \in Conns |-> "none"]
  /\ frame = [c \in Conns |-> NoFrame]
  /\ writer = [c \in Conns |-> "none"]
  /\ writing = [c \in Conns |-> NoMsg]
  /\ attempt = [c \in Conns |-> 0]
  /\ queue = [c \in Conns |-> <<>>]
  /\ seqHigh = [k \in Pseudonyms \X Keys |-> 0]
  /\ now = 0
  /\ tokens = [c \in Conns |-> 0]
  /\ lastTick = [c \in Conns |-> 0]
  /\ call = [g \in Callers |-> Idle]
  /\ sent = 0
  /\ handled = [k \in Pseudonyms \X Frames |-> 0]
  /\ passed = [c \in Conns |-> <<>>]
  /\ born = [c \in Conns |-> 0]
  /\ enqueued = [c \in Conns |-> <<>>]
  /\ written = [c \in Conns |-> <<>>]
  /\ dropped = {}

\* h.mu: a broadcast holds the read lock from its first client to its last,
\* and the map is written under the write lock.
Unlocked == \A g \in Callers : call[g].op # "broadcast"

-----------------------------------------------------------------------------
(* Connections                                                             *)

\* Slip: the map is written without waiting for the lock.
HandleWS_Unlocked(p) ==
  /\ used < MaxConns
  /\ LET c == used + 1 IN
     /\ used' = c
     /\ owner' = Append(owner, p)
     /\ clients' = [clients EXCEPT ![p] = c]
     /\ born' = [born EXCEPT ![c] = now]
     /\ link' = [link EXCEPT ![c] = "open"]
     /\ reader' = [reader EXCEPT ![c] = "read"]
     /\ writer' = [writer EXCEPT ![c] = "select"]
     /\ tokens' = [tokens EXCEPT ![c] = InboundBurst]
     /\ lastTick' = [lastTick EXCEPT ![c] = now]
  /\ UNCHANGED <<frame, writing, attempt, seqHigh, handled, passed, outVars, now>>

\* An authenticated upgrade.  The client replaces whatever connection the
\* pseudonym had in the map; that one is not closed.  A request without a
\* pseudonym or with a wrong token changes nothing.
HandleWS(p) ==
  /\ used < MaxConns
  /\ Unlocked
  /\ LET c == used + 1 IN
     /\ used' = c
     /\ owner' = Append(owner, p)
     /\ clients' = [clients EXCEPT ![p] = c]
     /\ born' = [born EXCEPT ![c] = now]
     /\ link' = [link EXCEPT ![c] = "open"]
     /\ reader' = [reader EXCEPT ![c] = "read"]
     /\ writer' = [writer EXCEPT ![c] = "select"]
     /\ tokens' = [tokens EXCEPT ![c] = InboundBurst]
     /\ lastTick' = [lastTick EXCEPT ![c] = now]
  /\ UNCHANGED <<frame, writing, attempt, seqHigh, handled, passed, outVars, now>>

\* The peer closes, or is silent past the pong deadline; what it sent before
\* has been read.
PeerGone(c) ==
  /\ link[c] = "open"
  /\ link' = [link EXCEPT ![c] = "gone"]
  /\ UNCHANGED <<mapVars, reader, frame, writer, writing, attempt, inVars, outVars, now>>

Tick ==
  /\ now < MaxTime
  /\ now' = now + 1
  /\ UNCHANGED <<mapVars, pumpVars, inVars, outVars>>

-----------------------------------------------------------------------------
(* readPump                                                                *)

\* Versions "" and "1" pass, "2" only with a lineage node.
ValidateInboundMessage(version, lineage) ==
  version = "1" \/ (version = "2" /\ lineage)

\* Slip: a frame with the highest Seq seen passes again.
CheckAndRecordSeq_Again(p, f, ok) ==
  LET k == <<p, f.key>> IN
  \/ f.seq = 0 /\ ok = TRUE /\ UNCHANGED seqHigh
  \/ /\ f.seq # 0
     /\ f.seq >= seqHigh[k]
     /\ ok = TRUE
     /\ seqHigh' = [seqHigh EXCEPT ![k] = f.seq]
  \/ /\ f.seq < seqHigh[k]
     /\ ok = FALSE
     /\ UNCHANGED seqHigh

\* Slip: only a repetition of the last Seq is taken for a replay.
CheckAndRecordSeq_Last(p, f, ok) ==
  LET k == <<p, f.key>> IN
  \/ f.seq = 0 /\ ok = TRUE /\ UNCHANGED seqHigh
  \/ /\ f.seq # 0
     /\ ok = (f.seq # seqHigh[k])
     /\ seqHigh' = [seqHigh EXCEPT ![k] = f.seq]

\* Under seqMu: a frame without Seq passes, one with a Seq above the highest
\* seen for its session, pseudonym and type passes and is recorded.
CheckAndRecordSeq(p, f, ok) ==
  LET k == <<p, f.key>> IN
  \/ f.seq = 0 /\ ok = TRUE /\ UNCHANGED seqHigh
  \/ /\ f.seq > seqHigh[k]
     /\ ok = TRUE
     /\ seqHigh' = [seqHigh EXCEPT ![k] = f.seq]
  \/ /\ f.seq # 0
     /\ f.seq <= seqHigh[k]
     /\ ok = FALSE
     /\ UNCHANGED seqHigh

\* ReadMessage returns a frame: it is validated and passed through the
\* replay filter, and dropped by either.
Receive(c, f, version, lineage) ==
  /\ reader[c] = "read"
  /\ link[c] = "open"
  /\ Len(passed[c]) < MaxPassed
  /\ \/ /\ ValidateInboundMessage(version, lineage)
        /\ CheckAndRecordSeq(owner[c], f, TRUE)
        /\ frame' = [frame EXCEPT ![c] = f]
        /\ reader' = [reader EXCEPT ![c] = "limit"]
     \/ /\ ~ValidateInboundMessage(version, lineage)
        /\ UNCHANGED <<frame, reader, seqHigh>>
     \/ /\ ValidateInboundMessage(version, lineage)
        /\ CheckAndRecordSeq(owner[c], f, FALSE)
        /\ UNCHANGED <<frame, reader>>
  /\ UNCHANGED <<mapVars, link, writer, writing, attempt, tokens, lastTick,
                 handled, passed, outVars, now>>

Bounded(n, cap) == IF n > cap THEN cap ELSE n

\* Slip: the refill is not capped, a quiet client saves tokens up.
Refilled_Uncapped(c) ==
  IF now > lastTick[c]
  THEN tokens[c] + (now - lastTick[c]) * InboundRate
  ELSE tokens[c]

\* The bucket after the refill that Allow starts with.
Refilled(c) ==
  IF now > lastTick[c]
  THEN Bounded(tokens[c] + (now - lastTick[c]) * InboundRate, InboundBurst)
  ELSE tokens[c]

\* A limiter without rate or burst is nil and admits every frame.
Allow(c, ok) ==
  \/ /\ InboundRate = 0 \/ InboundBurst = 0
     /\ ok = TRUE
     /\ UNCHANGED <<tokens, lastTick>>
  \/ /\ InboundRate > 0 /\ InboundBurst > 0
     /\ ok = (Refilled(c) >= 1)
     /\ tokens' = [tokens EXCEPT ![c] = IF ok THEN Refilled(c) - 1 ELSE Refilled(c)]
     /\ lastTick' = [lastTick EXCEPT ![c] = now]

Bump(n) == IF n < 2 THEN n + 1 ELSE n

\* The limiter and, when it admits the frame, onMsg.  The limiter belongs to
\* this connection alone, so the two are one step.
Dispatch(c) ==
  /\ reader[c] = "limit"
  /\ \/ /\ Allow(c, TRUE)
        /\ handled' = [handled EXCEPT ![<<owner[c], frame[c]>>] = Bump(@)]
        /\ passed' = [passed EXCEPT ![c] = Append(@, [what |-> frame[c], at |-> now])]
     \/ Allow(c, FALSE) /\ UNCHANGED <<handled, passed>>
  /\ reader' = [reader EXCEPT ![c] = "read"]
  /\ frame' = [frame EXCEPT ![c] = NoFrame]
  /\ UNCHANGED <<mapVars, link, writer, writing, attempt, seqHigh, outVars, now>>

\* ReadMessage fails; the deferred function removes the pseudonym from the
\* map, whichever connection it has there by now.
ReadFails(c) ==
  /\ reader[c] = "read"
  /\ link[c] # "open"
  /\ Unlocked
  /\ clients' = [clients EXCEPT ![owner[c]] = NoConn]
  /\ reader' = [reader EXCEPT ![c] = "close"]
  /\ UNCHANGED <<used, owner, born, link, frame, writer, writing, attempt,
                 inVars, outVars, now>>

\* Slip: the connection is not closed.
ReadCloses_Open(c) ==
  /\ reader[c] = "close"
  /\ reader' = [reader EXCEPT ![c] = "done"]
  /\ UNCHANGED <<mapVars, link, frame, writer, writing, attempt, inVars, outVars, now>>

\* The rest of the deferred function: Conn.Close and onClose.
ReadCloses(c) ==
  /\ reader[c] = "close"
  /\ reader' = [reader EXCEPT ![c] = "done"]
  /\ link' = [link EXCEPT ![c] = "closed"]
  /\ UNCHANGED <<mapVars, frame, writer, writing, attempt, inVars, outVars, now>>

-----------------------------------------------------------------------------
(* writePump                                                               *)

\* The next message of Send.
WriteTake(c) ==
  /\ writer[c] = "select"
  /\ queue[c] # <<>>
  /\ writing' = [writing EXCEPT ![c] = Head(queue[c])]
  /\ queue' = [queue EXCEPT ![c] = Tail(@)]
  /\ writer' = [writer EXCEPT ![c] = "write"]
  /\ UNCHANGED <<mapVars, link, reader, frame, attempt, inVars, call, sent,
                 enqueued, written, dropped, now>>

WriteOk(c) ==
  /\ writer[c] = "write"
  /\ link[c] # "closed"
  /\ written' = [written EXCEPT ![c] = Append(@, writing[c])]
  /\ writing' = [writing EXCEPT ![c] = NoMsg]
  /\ attempt' = [attempt EXCEPT ![c] = 0]
  /\ writer' = [writer EXCEPT ![c] = "select"]
  /\ UNCHANGED <<mapVars, link, reader, frame, inVars, queue, call, sent,
                 enqueued, dropped, now>>

\* Slip: when the attempts are used up the message is skipped.
WriteFails_Skips(c) ==
  /\ writer[c] = "write"
  /\ \/ /\ attempt[c] + 1 < MaxAttempts
        /\ attempt' = [attempt EXCEPT ![c] = @ + 1]
        /\ UNCHANGED <<writer, writing>>
     \/ /\ attempt[c] + 1 = MaxAttempts
        /\ attempt' = [attempt EXCEPT ![c] = 0]
        /\ writer' = [writer EXCEPT ![c] = "select"]
        /\ writing' = [writing EXCEPT ![c] = NoMsg]
  /\ UNCHANGED <<mapVars, link, reader, frame, inVars, outVars, now>>

\* An attempt of writeWithRetry fails: it is retried, the last one makes
\* writePump return, its deferred function closing the connection.
WriteFails(c) ==
  /\ writer[c] = "write"
  /\ attempt' = [attempt EXCEPT ![c] = @ + 1]
  /\ \/ /\ attempt[c] + 1 < MaxAttempts
        /\ UNCHANGED <<link, writer>>
     \/ /\ attempt[c] + 1 = MaxAttempts
        /\ writer' = [writer EXCEPT ![c] = "done"]
        /\ link' = [link EXCEPT ![c] = "closed"]
  /\ UNCHANGED <<mapVars, reader, frame, writing, inVars, outVars, now>>

\* A ping that fails ends writePump; one that succeeds changes nothing.
PingFails(c) ==
  /\ writer[c] = "select"
  /\ writer' = [writer EXCEPT ![c] = "done"]
  /\ link' = [link EXCEPT ![c] = "closed"]
  /\ UNCHANGED <<mapVars, reader, frame, writing, attempt, inVars, outVars, now>>

-----------------------------------------------------------------------------
(* Sending                                                                 *)

\* A non-blocking send on Client.Send.
Enqueue(c, m) ==
  \/ /\ Len(queue[c]) < SendBufferSize
     /\ queue' = [queue EXCEPT ![c] = Append(@, m)]
     /\ enqueued' = [enqueued EXCEPT ![c] = Append(@, m)]
     /\ UNCHANGED dropped
  \/ /\ Len(queue[c]) = SendBufferSize
     /\ dropped' = dropped \cup {<<m, c>>}
     /\ UNCHANGED <<queue, enqueued>>

\* The lookup of SendTo under the read lock; a pseudonym without a client is
\* skipped without error.
SendTo(g, p) ==
  /\ call[g] = Idle
  /\ sent < MaxSends
  /\ sent' = sent + 1
  /\ \/ clients[p] = NoConn /\ UNCHANGED call
     \/ /\ clients[p] # NoConn
        /\ call' = [call EXCEPT ![g] =
                      [op |-> "send", msg |-> sent + 1, conn |-> clients[p]]]
  /\ UNCHANGED <<mapVars, pumpVars, inVars, queue, enqueued, written, dropped, now>>

\* The enqueue of SendTo, after the lock is released.
SendEnqueue(g) ==
  /\ call[g].op = "send"
  /\ Enqueue(call[g].conn, call[g].msg)
  /\ call' = [call EXCEPT ![g] = Idle]
  /\ UNCHANGED <<mapVars, pumpVars, inVars, sent, written, now>>

\* Broadcast (to every pseudonym) and BroadcastToSession (to its list) take
\* the read lock and keep it.
Broadcast(g, to) ==
  /\ call[g] = Idle
  /\ sent < MaxSends
  /\ sent' = sent + 1
  /\ call' = [call EXCEPT ![g] =
                [op |-> "broadcast", msg |-> sent + 1, to |-> to, left |-> to]]
  /\ UNCHANGED <<mapVars, pumpVars, inVars, queue, enqueued, written, dropped, now>>

BroadcastStep(g, p) ==
  /\ call[g].op = "broadcast"
  /\ p \in call[g].left
  /\ call' = [call EXCEPT ![g].left = @ \ {p}]
  /\ \/ clients[p] = NoConn /\ UNCHANGED <<queue, enqueued, dropped>>
     \/ clients[p] # NoConn /\ Enqueue(clients[p], call[g].msg)
  /\ UNCHANGED <<mapVars, pumpVars, inVars, sent, written, now>>

BroadcastEnd(g) ==
  /\ call[g].op = "broadcast"
  /\ call[g].left = {}
  /\ call' = [call EXCEPT ![g] = Idle]
  /\ UNCHANGED <<mapVars, pumpVars, inVars, queue, sent, enqueued, written,
                 dropped, now>>

-----------------------------------------------------------------------------

Inbound(c) ==
  \E f \in Frames, version \in {"1", "2", "3"}, lineage \in BOOLEAN :
     Receive(c, f, version, lineage)

ReadStep(c) == Dispatch(c) \/ ReadFails(c) \/ ReadCloses(c)
WriteStep(c) == WriteTake(c) \/ WriteOk(c) \/ WriteFails(c)
CallStep(g) ==
  SendEnqueue(g) \/ (\E p \in Pseudonyms : BroadcastStep(g, p)) \/ BroadcastEnd(g)

Next ==
  \/ \E p \in Pseudonyms : HandleWS(p)
  \/ \E c \in Conns : PeerGone(c) \/ Inbound(c) \/
       ReadStep(c) \/ WriteStep(c) \/ PingFails(c)
  \/ \E g \in Callers :
       \/ \E p \in Pseudonyms : SendTo(g, p)
       \/ \E to \in SUBSET Pseudonyms : Broadcast(g, to)
       \/ CallStep(g)
  \/ Tick

\* The pumps and the sending goroutines keep running; the ping ticker keeps
\* firing, and a ping on a closed connection fails.  Nothing makes a client
\* connect, send a frame or go away, nor anyone send.  WF is enough for the
\* lock: sync.RWMutex lets no new reader pass a waiting writer.
Fairness ==
  /\ \A c \in Conns :
       /\ WF_vars(ReadStep(c))
       /\ WF_vars(WriteStep(c))
       /\ WF_vars(link[c] = "closed" /\ PingFails(c))
  /\ \A g \in Callers : WF_vars(CallStep(g))

Spec == Init /\ [][Next]_vars /\ Fairness

-----------------------------------------------------------------------------
(* Properties                                                              *)

\* A frame with a Seq reaches the message handler at most once, however often
\* the client repeats it and over however many connections of the same
\* pseudonym, open at the same time or one after the other
\* (checkAndRecordSeq is keyed by pseudonym, not by connection).
AtMostOnce ==
  \A k \in Pseudonyms \X Frames : k[2].seq # 0 => handled[k] <= 1

\* On one connection the frames of one session and type reach the handler in
\* the order of their Seq.  Two connections of one pseudonym give no such
\* order: the number is recorded before the handler is called.
OrderPerConnection ==
  \A c \in Conns : \A i, j \in DOMAIN passed[c] :
     LET f == passed[c][i].what  g == passed[c][j].what IN
     i < j /\ f.key = g.key /\ f.seq # 0 /\ g.seq # 0 => f.seq < g.seq

\* The limiter's promise over every window of time: from any frame it admits
\* to any later one there are at most burst + rate * elapsed.
RateBound ==
  InboundRate > 0 /\ InboundBurst > 0 =>
  \A c \in Conns : \A i, j \in DOMAIN passed[c] :
     i <= j => j - i + 1 <=
       InboundBurst + InboundRate * (passed[c][j].at - passed[c][i].at)

\* The messages accepted for a connection are written in the order they were
\* accepted, none twice and none left out between two others, failed write
\* attempts included: what is written, being written and queued is what was
\* enqueued.
WrittenInOrder ==
  \A c \in Conns :
     enqueued[c] = written[c]
                     \o (IF writing[c] = NoMsg THEN <<>> ELSE <<writing[c]>>)
                     \o queue[c]

\* A broadcast misses nobody who is in the map: of the clients it has passed,
\* each has the message on its queue or its queue was full, although clients
\* connect and leave at any time.
BroadcastComplete ==
  \A g \in Callers : call[g].op = "broadcast" =>
     \A p \in call[g].to \ call[g].left : clients[p] # NoConn =>
        \/ \E i \in DOMAIN enqueued[clients[p]] :
              enqueued[clients[p]][i] = call[g].msg
        \/ <<call[g].msg, clients[p]>> \in dropped

\* No goroutine outlives its connection: once the peer is lost or either pump
\* has returned, both pumps return.
PumpsEndTogether ==
  \A c \in Conns :
     (reader[c] = "done" \/ writer[c] = "done" \/ link[c] = "gone")
        ~> (reader[c] = "done" /\ writer[c] = "done")

-----------------------------------------------------------------------------
(* What a comment of the code says and the hub does not keep.              *)

\* hub.go:450: "IsConnected reports whether pseudonym currently has a live
\* WebSocket": a pseudonym with an open connection whose pumps both run is
\* in the map.
IsConnected(p) == clients[p] # NoConn
LiveIsConnected ==
  \A c \in 1 .. used :
     link[c] = "open" /\ reader[c] \in {"read", "limit"} => IsConnected(owner[c])

=============================================================================
