--------------------------- MODULE Helper_proofs ---------------------------
(***************************************************************************)
(* Proofs about the helper process and its client, for any number of       *)
(* goroutines that share the client and any bridge functions behind the    *)
(* daemon, the process killed at any time included.                        *)
(***************************************************************************)
EXTENDS Helper, TLAPS

(* Where a round trip is.  The mutex has at most one request in it: the    *)
(* holder waits in Decode, and its request is on its way, its answer is on *)
(* its way, or the process has ended and there is nothing more to read.    *)
Waiting(u) ==
  /\ user[u].at = "decode"
  /\ \/ stdin = <<user[u].ask[1]>> /\ stdout = << >>
     \/ stdin = << >> /\ \E ok \in BOOLEAN : stdout = <<Envelope(user[u].ask[1], ok)>>
     \/ stdin = << >> /\ stdout = << >> /\ proc = "gone"

Frame(r) == r = [at |-> r.at, ask |-> r.ask, got |-> r.got]

ClientTypeOK ==
  /\ DOMAIN user = Users /\ user = [u \in Users |-> user[u]]
  /\ \A u \in Users : Frame(user[u])
  /\ mu \in Users \cup {"nobody"}
  /\ DOMAIN call = Callers /\ call = [c \in Callers |-> call[c]]

(* What is said of one goroutine: nothing has been read while it has not   *)
(* decoded, and what it has read answers what it asked.                    *)
Own(r) ==
  /\ r.at \in {"call", "decode"} => r.got = << >>
  /\ r.got # << >> => r.got[1].to = r.ask[1]

(* AnswerToOwnQuestion made inductive: only the holder of the mutex is in  *)
(* a round trip, a process that has ended left no request behind, and the  *)
(* daemon runs a function only for the request that is still in the pipe.  *)
PipeInv ==
  /\ ClientTypeOK
  /\ \A u \in Users : Own(user[u])
  /\ \A u \in Users : user[u].at = "decode" => mu = u
  /\ mu \in Users => Waiting(mu)
  /\ mu = "nobody" => stdin = << >> /\ stdout = << >>
  /\ proc = "gone" => stdin = << >>
  /\ Serving => stdin # << >>

LEMMA PipeInit == HelperInit => PipeInv
BY HelperBounds DEF HelperInit, Init, PipeInv, ClientTypeOK, Own, Frame, AtRest, Serving, Idle

(* A goroutine that is not in a round trip changes only its own record.    *)
LEMMA UserKeeps ==
  ASSUME PipeInv, NEW u \in Users, mu # u, NEW r, user' = [user EXCEPT ![u] = r],
         Frame(r), r.at # "decode", Own(r),
         UNCHANGED <<mu, stdin, stdout, proc, call>>
  PROVE  PipeInv'
<1>1. /\ user'[u] = r /\ DOMAIN user' = Users /\ user' = [v \in Users |-> user'[v]]
      /\ \A v \in Users \ {u} : user'[v] = user[v]
  BY DEF PipeInv, ClientTypeOK
<1>2. ClientTypeOK'
  BY <1>1 DEF PipeInv, ClientTypeOK
<1>3. \A v \in Users : Own(user'[v])
  BY <1>1 DEF PipeInv
<1>4. \A v \in Users : user'[v].at = "decode" => mu' = v
  BY <1>1 DEF PipeInv
<1>5. (mu \in Users => Waiting(mu))'
  <2>1. mu \in Users => Waiting(mu) /\ user'[mu] = user[mu]
    BY <1>1 DEF PipeInv
  <2> QED BY <2>1 DEF Waiting
<1>6. Serving' => stdin' # << >>
  BY DEF PipeInv, Serving
<1> QED BY <1>2, <1>3, <1>4, <1>5, <1>6 DEF PipeInv

(* A goroutine that is not in Decode does not hold the mutex.              *)
LEMMA NotHolder ==
  ASSUME PipeInv, NEW u \in Users, user[u].at # "decode"
  PROVE  mu # u
BY DEF PipeInv, Waiting

LEMMA StayKeeps ==
  ASSUME PipeInv, NEW u \in Users, user[u].at # "decode", NEW at, at \notin {"call", "decode"},
         Stay(u, at), UNCHANGED <<mu, stdin, stdout, proc, call>>
  PROVE  PipeInv'
<1> DEFINE r == [user[u] EXCEPT !.at = at]
<1>1. Frame(user[u]) /\ Own(user[u])
  BY DEF PipeInv, ClientTypeOK
<1>2. r.at = at /\ r.ask = user[u].ask /\ r.got = user[u].got /\ Frame(r)
  BY <1>1 DEF Frame
<1>3. Own(r)
  BY <1>1, <1>2 DEF Own
<1>4. user' = [user EXCEPT ![u] = r]
  BY DEF Stay
<1> HIDE DEF r
<1> QED BY <1>2, <1>3, <1>4, NotHolder, UserKeeps, Zenon

LEMMA AskKeeps ==
  ASSUME PipeInv, NEW u \in Users, Ask(u)
  PROVE  PipeInv'
<1>1. PICK at \in {"call", "close"} : user' = [user EXCEPT ![u] = [AtRest EXCEPT !.at = at]]
  BY DEF Ask
<1>2. user[u].at = "idle" /\ UNCHANGED <<mu, stdin, stdout, proc, call>>
  BY DEF Ask, vars
<1> DEFINE r == [AtRest EXCEPT !.at = at]
<1>3. r.at = at /\ Frame(r) /\ Own(r)
  BY DEF AtRest, Frame, Own
<1> HIDE DEF r
<1>4. user' = [user EXCEPT ![u] = r] /\ r.at # "decode"
  BY <1>1, <1>3 DEF r
<1> QED BY <1>2, <1>3, <1>4, NotHolder, UserKeeps, Zenon

LEMMA BackKeeps ==
  ASSUME PipeInv, NEW u \in Users, Back(u)
  PROVE  PipeInv'
<1> DEFINE r == IF InChain(u) /\ Answered(u) /\ Len(chain.got) + 1 < Len(chain.links)
                THEN [AtRest EXCEPT !.at = "call"] ELSE AtRest
<1>1. user' = [user EXCEPT ![u] = r]
  BY Zenon DEF Back
<1>2. user[u].at = "returned" /\ UNCHANGED <<mu, stdin, stdout, proc, call>>
  BY DEF Back, vars
<1>3. r = [AtRest EXCEPT !.at = "call"] \/ r = AtRest
  OBVIOUS
<1> HIDE DEF r
<1>4. r.at # "decode" /\ Frame(r) /\ Own(r)
  BY <1>3 DEF AtRest, Frame, Own
<1> QED BY <1>1, <1>2, <1>4, NotHolder, UserKeeps, Zenon

LEMMA EncodeKeeps ==
  ASSUME PipeInv, NEW u \in Users, Encode(u)
  PROVE  PipeInv'
<1>1. user[u].at = "call" /\ mu = "nobody" /\ UNCHANGED <<stdout, proc, call>>
  BY DEF Encode, Locked, vars
<1>2. CASE Stay(u, "returned") /\ UNCHANGED <<mu, stdin>>
  BY <1>1, <1>2, StayKeeps
<1>3. CASE proc # "gone" /\ mu' = u /\ \E q \in Questions(u) :
              /\ user' = [user EXCEPT ![u].at = "decode", ![u].ask = <<q>>]
              /\ stdin' = Append(stdin, q)
  <2>1. PICK q \in Questions(u) :
              /\ user' = [user EXCEPT ![u].at = "decode", ![u].ask = <<q>>]
              /\ stdin' = Append(stdin, q)
    BY <1>3, Zenon
  <2>2. Frame(user[u]) /\ user[u].got = << >>
    BY <1>1 DEF PipeInv, ClientTypeOK, Own
  <2>3. /\ user'[u] = [at |-> "decode", ask |-> <<q>>, got |-> << >>]
        /\ DOMAIN user' = Users /\ user' = [v \in Users |-> user'[v]]
        /\ \A v \in Users \ {u} : user'[v] = user[v]
    BY <2>1, <2>2, Zenon DEF PipeInv, ClientTypeOK, Frame
  <2>4. stdin' = <<q>> /\ stdout' = << >>
    BY <1>1, <2>1 DEF PipeInv
  <2>5. user'[u].at = "decode" /\ user'[u].ask = <<q>> /\ user'[u].got = << >> /\ Frame(user'[u])
    BY <2>3 DEF Frame
  <2>6. ClientTypeOK'
    BY <1>1, <1>3, <2>3, <2>5 DEF PipeInv, ClientTypeOK
  <2>7. \A v \in Users : Own(user'[v])
    BY <2>3, <2>5 DEF PipeInv, Own
  <2>8. \A v \in Users : user'[v].at = "decode" => mu' = v
    BY <1>1, <1>3, <2>3, HelperBounds DEF PipeInv
  <2>9. Waiting(u)'
    BY <2>4, <2>5 DEF Waiting
  <2>10. stdin' # << >>
    BY <2>4
  <2> QED BY <1>1, <1>3, <2>6, <2>7, <2>8, <2>9, <2>10, HelperBounds, Zenon DEF PipeInv
<1> QED BY <1>2, <1>3 DEF Encode

\* The record of a call f that has returned with the answer g.
Returned(f, g) == [f EXCEPT !.at = "returned", !.got = g]

LEMMA FrameGot ==
  ASSUME NEW f, Frame(f), NEW g
  PROVE  /\ Returned(f, g).at = "returned" /\ Returned(f, g).ask = f.ask
         /\ Returned(f, g).got = g /\ Frame(Returned(f, g))
<1>1. PICK r : r = Returned(f, g)
  BY Zenon
<1>2. r.at = "returned" /\ r.ask = f.ask /\ r.got = g
  BY <1>1 DEF Frame, Returned
<1>3. DOMAIN f = {"at", "ask", "got"}
  BY DEF Frame
<1>4. r = [i \in {"at", "ask", "got"} |-> r[i]]
  BY <1>1, <1>3, Zenon DEF Returned
<1>5. Frame(r)
  BY <1>4 DEF Frame
<1> QED BY <1>1, <1>2, <1>5

LEMMA DecodeKeeps ==
  ASSUME PipeInv, NEW u \in Users, Decode(u)
  PROVE  PipeInv'
<1>1. user[u].at = "decode" /\ mu = u /\ mu' = "nobody" /\ UNCHANGED <<stdin, proc, call>>
  BY DEF Decode, PipeInv, vars
<1>2. Waiting(u) /\ Frame(user[u]) /\ user[u].got = << >>
  BY <1>1 DEF PipeInv, ClientTypeOK, Own
<1>3. ASSUME NEW r, user' = [user EXCEPT ![u] = r], Frame(r), r.at = "returned", Own(r),
             stdin' = << >>, stdout' = << >>
      PROVE  PipeInv'
  <2>1. /\ user'[u] = r /\ DOMAIN user' = Users /\ user' = [v \in Users |-> user'[v]]
        /\ \A v \in Users \ {u} : user'[v] = user[v]
    BY <1>3 DEF PipeInv, ClientTypeOK
  <2>2. ClientTypeOK'
    BY <1>1, <1>3, <2>1 DEF PipeInv, ClientTypeOK
  <2>3. \A v \in Users : Own(user'[v])
    BY <1>3, <2>1 DEF PipeInv
  <2>4. \A v \in Users : user'[v].at # "decode"
    BY <1>1, <1>3, <2>1 DEF PipeInv
  <2>5. ~Serving'
    BY <1>1, <1>3 DEF PipeInv, Serving
  <2> QED BY <1>1, <1>3, <2>2, <2>3, <2>4, <2>5, HelperBounds, Zenon DEF PipeInv
<1>4. CASE stdout # << >>
  <2>1. stdin = << >> /\ \E ok \in BOOLEAN : stdout = <<Envelope(user[u].ask[1], ok)>>
    BY <1>2, <1>4 DEF Waiting
  <2>2. PICK ok \in BOOLEAN : stdout = <<Envelope(user[u].ask[1], ok)>>
    BY <2>1
  <2> DEFINE e == Envelope(user[u].ask[1], ok)
  <2>3. Head(stdout) = e /\ Tail(stdout) = << >>
    BY <2>2
  <2>4. e.to = user[u].ask[1]
    BY DEF Envelope
  <2> HIDE DEF e
  <2> DEFINE r == Returned(user[u], <<e>>)
  <2>5. r.at = "returned" /\ r.ask = user[u].ask /\ r.got = <<e>> /\ Frame(r)
    BY <1>2, FrameGot
  <2>6. Own(r)
    BY <2>4, <2>5 DEF Own
  <2>7. user' = [user EXCEPT ![u] = r]
    BY <1>4, <2>3, Zenon DEF Decode, Returned
  <2>8. stdin' = << >> /\ stdout' = << >>
    BY <1>1, <1>4, <2>1, <2>3 DEF Decode
  <2> HIDE DEF r
  <2> QED BY <1>3, <2>5, <2>6, <2>7, <2>8, Zenon
<1>5. CASE stdout = << >>
  <2>1. proc = "gone" /\ Stay(u, "returned") /\ stdout' = << >>
    BY <1>5 DEF Decode
  <2> DEFINE r == [user[u] EXCEPT !.at = "returned"]
  <2>2. r.at = "returned" /\ r.got = << >> /\ Frame(r)
    BY <1>2 DEF Frame
  <2>3. Own(r)
    BY <2>2 DEF Own
  <2>4. user' = [user EXCEPT ![u] = r]
    BY <2>1 DEF Stay
  <2>5. stdin' = << >>
    BY <1>1, <2>1 DEF PipeInv
  <2> HIDE DEF r
  <2> QED BY <1>3, <2>1, <2>2, <2>3, <2>4, <2>5, Zenon
<1> QED BY <1>4, <1>5

LEMMA CloseKeeps ==
  ASSUME PipeInv, NEW u \in Users, CloseClient(u) \/ Wait(u)
  PROVE  PipeInv'
<1>1. user[u].at # "decode" /\ UNCHANGED <<mu, stdin, stdout, proc, call>>
  BY DEF CloseClient, Wait, vars
<1>2. Stay(u, "idle") \/ Stay(u, "wait")
  BY DEF CloseClient, Wait
<1> QED BY <1>1, <1>2, StayKeeps

(* A step of the daemon leaves the goroutines alone; it may answer the     *)
(* request that is in the pipe, and only that one.                         *)
LEMMA DaemonKeeps ==
  ASSUME PipeInv, UNCHANGED <<user, mu>>, DOMAIN call' = Callers, call' = [c \in Callers |-> call'[c]],
         Serving' => stdin' # << >>,
         proc' = "gone" => stdin' = << >>,
         \/ UNCHANGED <<stdin, stdout, proc>>
         \/ /\ stdin # << >> /\ stdin' = Tail(stdin) /\ proc' = proc
            /\ \E ok \in BOOLEAN : stdout' = Append(stdout, Envelope(Head(stdin), ok))
         \/ stdin' = << >> /\ stdout' = stdout /\ proc' = "gone"
  PROVE  PipeInv'
<1>1. ClientTypeOK'
  BY DEF PipeInv, ClientTypeOK
<1>2. /\ \A u \in Users : Own(user'[u])
      /\ \A u \in Users : user'[u].at = "decode" => mu' = u
  BY DEF PipeInv
<1>3. (mu = "nobody" => stdin = << >> /\ stdout = << >>)'
  BY DEF PipeInv
<1>4. ASSUME mu \in Users PROVE Waiting(mu)'
  <2>1. Waiting(mu)
    BY <1>4 DEF PipeInv
  <2>2. CASE UNCHANGED <<stdin, stdout, proc>>
    BY <2>1, <2>2 DEF Waiting
  <2>3. CASE stdin' = << >> /\ stdout' = stdout /\ proc' = "gone"
    BY <2>1, <2>3 DEF Waiting
  <2>4. ASSUME stdin # << >>, stdin' = Tail(stdin), NEW ok \in BOOLEAN,
               stdout' = Append(stdout, Envelope(Head(stdin), ok))
        PROVE  Waiting(mu)'
    <3> DEFINE q == user[mu].ask[1]
    <3>1. stdin = <<q>> /\ stdout = << >> /\ user[mu].at = "decode"
      BY <2>1, <2>4 DEF Waiting
    <3> HIDE DEF q
    <3>2. stdin' = << >> /\ stdout' = <<Envelope(q, ok)>>
      BY <2>4, <3>1
    <3> QED BY <3>1, <3>2 DEF Waiting, q
  <2> QED BY <2>2, <2>3, <2>4
<1>5. (mu \in Users => Waiting(mu))'
  BY <1>4
<1> QED BY <1>1, <1>2, <1>3, <1>5 DEF PipeInv

LEMMA DaemonStepKeeps ==
  ASSUME PipeInv, DaemonStep \/ Killed
  PROVE  PipeInv'
<1>0. DOMAIN call = Callers /\ call = [c \in Callers |-> call[c]] /\ Daemon \in Callers
  BY HelperBounds DEF PipeInv, ClientTypeOK
<1>1. UNCHANGED <<user, mu>>
  BY DEF DaemonStep, runDaemon, RunFunction, Respond, ExitAlone, Killed, Exit, clientVars
<1>2. CASE runDaemon
  <2> DEFINE q == Head(stdin)
             refused == Refused(q) \/ q.method.op = "version"
  <2>1. proc = "up" /\ ~Serving /\ stdin # << >> /\ proc' = proc
    BY <1>2 DEF runDaemon
  <2>2. CASE refused
    <3>1. /\ stdout' = Append(stdout, Envelope(q, ~Refused(q))) /\ stdin' = Tail(stdin)
          /\ call' = call
      BY <1>2, <2>2, Zenon DEF runDaemon
    <3>2. (~Refused(q)) = TRUE \/ (~Refused(q)) = FALSE
      BY Zenon
    <3>3. \E ok \in BOOLEAN : stdout' = Append(stdout, Envelope(Head(stdin), ok))
      BY <3>1, <3>2, Zenon
    <3>4. ~Serving'
      BY <2>1, <3>1, ZenonT(60) DEF Serving
    <3> QED BY <1>0, <1>1, <2>1, <3>1, <3>3, <3>4, DaemonKeeps
  <2>3. CASE ~refused
    <3>1. /\ call' = [call EXCEPT ![Daemon] = Entry(run[q.method.op].fn, EmptyArg(q), {})]
          /\ UNCHANGED <<stdin, stdout>>
      BY <1>2, <2>3, ZenonT(60) DEF runDaemon
    <3>2. DOMAIN call' = Callers /\ call' = [c \in Callers |-> call'[c]]
      BY <1>0, <3>1
    <3> QED BY <1>1, <2>1, <3>1, <3>2, DaemonKeeps
  <2> QED BY <2>2, <2>3
<1>3. CASE RunFunction
  <2>1. UNCHANGED <<stdin, stdout, proc>> /\ proc = "up" /\ StepOf(Daemon)
    BY <1>3 DEF RunFunction
  <2>2. call[Daemon].status \in {"running", "returning"}
    BY <2>1 DEF StepOf, Succeed, Fail, Skip, Panic, Finish, Running
  <2>3. Serving
    BY <2>2 DEF Serving
  <2>4. \E r : call' = [call EXCEPT ![Daemon] = r]
    <3>1. CASE Succeed(Daemon)
      BY <3>1, Zenon DEF Succeed
    <3>2. CASE Fail(Daemon)
      BY <3>2, Zenon DEF Fail
    <3>3. CASE Skip(Daemon)
      BY <3>3, Zenon DEF Skip
    <3>4. CASE Panic(Daemon)
      BY <3>4, Zenon DEF Panic, Return
    <3>5. CASE Finish(Daemon)
      BY <3>5, Zenon DEF Finish, Return
    <3> QED BY <2>1, <3>1, <3>2, <3>3, <3>4, <3>5 DEF StepOf
  <2>5. DOMAIN call' = Callers /\ call' = [c \in Callers |-> call'[c]]
    BY <1>0, <2>4
  <2> QED BY <1>1, <2>1, <2>3, <2>5, DaemonKeeps DEF PipeInv
<1>4. CASE Respond
  <2>1. /\ proc = "up" /\ proc' = proc /\ call' = [call EXCEPT ![Daemon] = Idle]
        /\ stdin' = Tail(stdin) /\ call[Daemon].status \in {"ok", "err"}
        /\ stdout' = Append(stdout, Envelope(Head(stdin), call[Daemon].status = "ok"))
    BY <1>4 DEF Respond
  <2>2. stdin # << >>
    BY <2>1 DEF PipeInv, Serving
  <2>3. DOMAIN call' = Callers /\ call' = [c \in Callers |-> call'[c]] /\ call'[Daemon] = Idle
    BY <1>0, <2>1, ZenonT(60)
  <2>4. ~Serving'
    BY <2>3 DEF Serving, Idle
  <2>5. (call[Daemon].status = "ok") \in BOOLEAN
    OBVIOUS
  <2>6. \E ok \in BOOLEAN : stdout' = Append(stdout, Envelope(Head(stdin), ok))
    BY <2>1, <2>5, Zenon
  <2> QED BY <1>1, <2>1, <2>2, <2>3, <2>4, <2>6, DaemonKeeps
<1>5. CASE Exit
  <2>1. /\ call' = [call EXCEPT ![Daemon] = Idle] /\ proc' = "gone"
        /\ stdin' = << >> /\ stdout' = stdout
    BY <1>5 DEF Exit
  <2>2. DOMAIN call' = Callers /\ call' = [c \in Callers |-> call'[c]] /\ call'[Daemon] = Idle
    BY <1>0, <2>1
  <2>3. ~Serving'
    BY <2>2 DEF Serving, Idle
  <2> QED BY <1>1, <2>1, <2>2, <2>3, DaemonKeeps
<1> QED BY <1>2, <1>3, <1>4, <1>5 DEF DaemonStep, ExitAlone, Killed

LEMMA PipeNext == PipeInv /\ [HelperNext]_helperVars => PipeInv'
<1> SUFFICES ASSUME PipeInv, [HelperNext]_helperVars PROVE PipeInv'
  OBVIOUS
<1>1. CASE DaemonStep \/ Killed
  BY <1>1, DaemonStepKeeps
<1>2. ASSUME NEW u \in Users, Ask(u) \/ UserStep(u) PROVE PipeInv'
  BY <1>2, AskKeeps, EncodeKeeps, DecodeKeeps, BackKeeps, CloseKeeps, Zenon DEF UserStep
<1>3. CASE UNCHANGED helperVars
  <2>1. UNCHANGED <<user, mu, stdin, stdout, proc, call>>
    BY <1>3 DEF helperVars, vars
  <2> QED BY <2>1 DEF PipeInv, ClientTypeOK, Waiting, Serving
<1> QED BY <1>1, <1>2, <1>3 DEF HelperNext

(* An answer reaches the goroutine that asked, however many of them share  *)
(* the client and wherever a call, a Close or the end of the process falls *)
(* in a round trip: the mutex pairs requests and envelopes although        *)
(* neither carries a number.                                               *)
THEOREM AnswerSafe == HelperSpec => []AnswerToOwnQuestion
<1>1. PipeInv => AnswerToOwnQuestion
  BY DEF PipeInv, Own, AnswerToOwnQuestion
<1> QED BY <1>1, PipeInit, PipeNext, PTL DEF HelperSpec

-----------------------------------------------------------------------------
(* The key ceremony.                                                       *)

(* The answer to the i-th link, in full: public keys that join one more    *)
(* slot each, round-one shares over the lead's base, the joined key, the   *)
(* final shares and the evaluation key made of them.                       *)
KeyOf(i)   == [pk |-> 1 .. i, sk |-> i]
FinalOf(i) == [sk |-> i, joined |-> AllSlots, pk |-> AllSlots, lead |-> i = 1]
Share(i) ==
  IF i <= Parties THEN KeyOf(i)
  ELSE IF i <= 2 * Parties THEN {1, i - Parties}
  ELSE IF i = 2 * Parties + 1 THEN AllSlots
  ELSE IF i <= 3 * Parties + 1 THEN FinalOf(i - 2 * Parties - 1)
  ELSE {FinalOf(j) : j \in AllSlots}
Got(k) == [i \in 1 .. k |-> Share(i)]

Links == [method : Client!Methods, slot : Nat]

(* What the link after the answers in got asks for, by its place in the    *)
(* ceremony.                                                               *)
AnswerAt(l, got, n, a) ==
  /\ l = 1 => a = Client!KeyShare({1}, 1)
  /\ l \in 2 .. n => a = Client!KeyShare(got[l - 1].pk \cup {l}, l)
  /\ l = n + 1 => a = {got[1].sk}
  /\ l \in (n + 2) .. (2 * n) => a = {got[l - n].sk} \cup got[n + 1]
  /\ l = 2 * n + 1 => a = UNION {got[i] : i \in (n + 1) .. (2 * n)}
  /\ l \in (2 * n + 2) .. (3 * n + 1) =>
       a = [sk |-> got[l - 2 * n - 1].sk, joined |-> got[2 * n + 1],
            pk |-> got[n].pk, lead |-> l = 2 * n + 2]
  /\ l = 3 * n + 2 => a = {got[i] : i \in (2 * n + 2) .. (3 * n + 1)}

LEMMA AnswerParts ==
  ASSUME NEW n \in Nat \ {0}, NEW got, Len(got) \in Nat
  PROVE  AnswerAt(Len(got) + 1, got, n, Client!Answer(got, n))
<1> DEFINE l == Len(got) + 1
           a == Client!Answer(got, n)
<1>1. ASSUME l = 1 PROVE a = Client!KeyShare({1}, 1)
  <2>1. ~(l \in 2 .. n) /\ ~(l = n + 1) /\ ~(l \in (n + 2) .. (2 * n))
        /\ ~(l = 2 * n + 1) /\ ~(l \in (2 * n + 2) .. (3 * n + 1)) /\ ~(l = 3 * n + 2)
    BY <1>1
  <2> QED BY <1>1, <2>1, Zenon DEF Client!Answer
<1>2. ASSUME l \in 2 .. n PROVE a = Client!KeyShare(got[l - 1].pk \cup {l}, l)
  <2>1. ~(l = 1) /\ ~(l = n + 1) /\ ~(l \in (n + 2) .. (2 * n))
        /\ ~(l = 2 * n + 1) /\ ~(l \in (2 * n + 2) .. (3 * n + 1)) /\ ~(l = 3 * n + 2)
    BY <1>2
  <2> QED BY <1>2, <2>1, Zenon DEF Client!Answer
<1>3. ASSUME l = n + 1 PROVE a = {got[1].sk}
  <2>1. ~(l = 1) /\ ~(l \in 2 .. n) /\ ~(l \in (n + 2) .. (2 * n))
        /\ ~(l = 2 * n + 1) /\ ~(l \in (2 * n + 2) .. (3 * n + 1)) /\ ~(l = 3 * n + 2)
    BY <1>3
  <2> QED BY <1>3, <2>1, Zenon DEF Client!Answer
<1>4. ASSUME l \in (n + 2) .. (2 * n) PROVE a = {got[l - n].sk} \cup got[n + 1]
  <2>1. ~(l = 1) /\ ~(l \in 2 .. n) /\ ~(l = n + 1)
        /\ ~(l = 2 * n + 1) /\ ~(l \in (2 * n + 2) .. (3 * n + 1)) /\ ~(l = 3 * n + 2)
    BY <1>4
  <2> QED BY <1>4, <2>1, Zenon DEF Client!Answer
<1>5. ASSUME l = 2 * n + 1 PROVE a = UNION {got[i] : i \in (n + 1) .. (2 * n)}
  <2>1. ~(l = 1) /\ ~(l \in 2 .. n) /\ ~(l = n + 1) /\ ~(l \in (n + 2) .. (2 * n))
        /\ ~(l \in (2 * n + 2) .. (3 * n + 1)) /\ ~(l = 3 * n + 2)
    BY <1>5
  <2> QED BY <1>5, <2>1, Zenon DEF Client!Answer
<1>6. ASSUME l \in (2 * n + 2) .. (3 * n + 1)
      PROVE  a = [sk |-> got[l - 2 * n - 1].sk, joined |-> got[2 * n + 1],
                  pk |-> got[n].pk, lead |-> l = 2 * n + 2]
  <2>1. ~(l = 1) /\ ~(l \in 2 .. n) /\ ~(l = n + 1) /\ ~(l \in (n + 2) .. (2 * n))
        /\ ~(l = 2 * n + 1) /\ ~(l = 3 * n + 2)
    BY <1>6
  <2> QED BY <1>6, <2>1, Zenon DEF Client!Answer
<1>7. ASSUME l = 3 * n + 2 PROVE a = {got[i] : i \in (2 * n + 2) .. (3 * n + 1)}
  <2>1. ~(l = 1) /\ ~(l \in 2 .. n) /\ ~(l = n + 1) /\ ~(l \in (n + 2) .. (2 * n))
        /\ ~(l = 2 * n + 1) /\ ~(l \in (2 * n + 2) .. (3 * n + 1))
    BY <1>7
  <2> QED BY <1>7, <2>1, Zenon DEF Client!Answer
<1> QED BY <1>1, <1>2, <1>3, <1>4, <1>5, <1>6, <1>7, Zenon DEF AnswerAt

\* Every link of a ceremony is made from the answers before it.
LEMMA NextAnswer ==
  ASSUME NEW k \in 0 .. 3 * Parties + 1
  PROVE  Client!Answer(Got(k), Parties) = Share(k + 1)
<1> DEFINE n == Parties
<1>0. n \in Nat \ {0} /\ k \in Nat
  BY BridgeBounds
<1>1. PICK got : got = Got(k)
  OBVIOUS
<1>2. Len(got) = k /\ \A i \in 1 .. k : got[i] = Share(i)
  BY <1>1 DEF Got
<1> SUFFICES Client!Answer(got, n) = Share(k + 1)
  BY <1>1
<1> HIDE DEF n
<1>a. n = Parties
  BY DEF n
<1>3. \A i \in 1 .. n : i <= k => got[i].sk = i /\ got[i].pk = 1 .. i
  BY <1>0, <1>2, <1>a DEF Share, KeyOf
<1>4. k >= n + 1 => got[n + 1] = {1}
  BY <1>0, <1>2, <1>a DEF Share
<1>5. k >= 2 * n + 1 => got[2 * n + 1] = AllSlots
  BY <1>0, <1>2, <1>a DEF Share
<1>b. AnswerAt(k + 1, got, n, Client!Answer(got, n))
  <2>1. AnswerAt(Len(got) + 1, got, n, Client!Answer(got, n))
    BY <1>0, <1>2, AnswerParts
  <2> QED BY <1>2, <2>1, Zenon
<1>6. CASE k + 1 = 1
  <2>1. Client!Answer(got, n) = Client!KeyShare({1}, 1)
    BY <1>b, <1>6, Zenon DEF AnswerAt
  <2>2. Share(k + 1) = KeyOf(1)
    BY <1>0, <1>6, <1>a DEF Share
  <2> QED BY <2>1, <2>2 DEF Client!KeyShare, KeyOf
<1>7. CASE k + 1 \in 2 .. n
  <2>1. got[(k + 1) - 1].pk \cup {k + 1} = 1 .. (k + 1)
    BY <1>0, <1>3, <1>7
  <2>2. Client!Answer(got, n) = Client!KeyShare(got[(k + 1) - 1].pk \cup {k + 1}, k + 1)
    BY <1>b, <1>7, Zenon DEF AnswerAt
  <2>3. Share(k + 1) = KeyOf(k + 1)
    BY <1>0, <1>7, <1>a DEF Share
  <2> QED BY <2>1, <2>2, <2>3, Zenon DEF Client!KeyShare, KeyOf
<1>8. CASE k + 1 = n + 1
  <2>1. Client!Answer(got, n) = {got[1].sk}
    BY <1>b, <1>8, Zenon DEF AnswerAt
  <2>2. Share(k + 1) = {1} /\ got[1].sk = 1
    BY <1>0, <1>3, <1>8, <1>a DEF Share
  <2> QED BY <2>1, <2>2
<1>9. CASE k + 1 \in (n + 2) .. (2 * n)
  <2>1. Client!Answer(got, n) = {got[(k + 1) - n].sk} \cup got[n + 1]
    BY <1>b, <1>9, Zenon DEF AnswerAt
  <2>2. got[(k + 1) - n].sk = (k + 1) - n /\ got[n + 1] = {1}
    BY <1>0, <1>3, <1>4, <1>9
  <2>3. Share(k + 1) = {1, (k + 1) - n}
    BY <1>0, <1>9, <1>a DEF Share
  <2> QED BY <2>1, <2>2, <2>3
<1>10. CASE k + 1 = 2 * n + 1
  <2>1. Client!Answer(got, n) = UNION {got[i] : i \in (n + 1) .. (2 * n)}
    BY <1>b, <1>10, Zenon DEF AnswerAt
  <2>2. \A i \in (n + 1) .. (2 * n) : got[i] = {1, i - n}
    BY <1>0, <1>2, <1>10, <1>a DEF Share
  <2>3. UNION {got[i] : i \in (n + 1) .. (2 * n)} \subseteq AllSlots
    BY <1>0, <1>a, <2>2 DEF AllSlots
  <2>4. ASSUME NEW j \in AllSlots PROVE j \in UNION {got[i] : i \in (n + 1) .. (2 * n)}
    <3>1. j + n \in (n + 1) .. (2 * n) /\ j \in {1, (j + n) - n}
      BY <1>0, <1>a DEF AllSlots
    <3> QED BY <2>2, <3>1
  <2>5. Share(k + 1) = AllSlots
    BY <1>0, <1>10, <1>a DEF Share
  <2> QED BY <2>1, <2>3, <2>4, <2>5
<1>11. CASE k + 1 \in (2 * n + 2) .. (3 * n + 1)
  <2>1. Client!Answer(got, n) = [sk |-> got[(k + 1) - 2 * n - 1].sk, joined |-> got[2 * n + 1],
                                 pk |-> got[n].pk, lead |-> k + 1 = 2 * n + 2]
    BY <1>b, <1>11, Zenon DEF AnswerAt
  <2>2. got[(k + 1) - 2 * n - 1].sk = k - 2 * n
    BY <1>0, <1>3, <1>11
  <2>3. got[n].pk = AllSlots /\ got[2 * n + 1] = AllSlots
    BY <1>0, <1>3, <1>5, <1>11, <1>a DEF AllSlots
  <2>4. (k + 1 = 2 * n + 2) = (k - 2 * n = 1)
    BY <1>0
  <2>5. Share(k + 1) = FinalOf(k - 2 * n)
    BY <1>0, <1>11, <1>a DEF Share
  <2> QED BY <2>1, <2>2, <2>3, <2>4, <2>5, Zenon DEF FinalOf
<1>12. CASE k + 1 = 3 * n + 2
  <2>1. Client!Answer(got, n) = {got[i] : i \in (2 * n + 2) .. (3 * n + 1)}
    BY <1>b, <1>12, Zenon DEF AnswerAt
  <2>2. \A i \in (2 * n + 2) .. (3 * n + 1) : got[i] = FinalOf(i - 2 * n - 1)
    BY <1>0, <1>2, <1>12, <1>a DEF Share
  <2>3. ASSUME NEW j \in AllSlots
        PROVE  FinalOf(j) \in {got[i] : i \in (2 * n + 2) .. (3 * n + 1)}
    <3>1. j + 2 * n + 1 \in (2 * n + 2) .. (3 * n + 1) /\ (j + 2 * n + 1) - 2 * n - 1 = j
      BY <1>0, <1>a DEF AllSlots
    <3> QED BY <2>2, <3>1
  <2>4. ASSUME NEW i \in (2 * n + 2) .. (3 * n + 1)
        PROVE  got[i] \in {FinalOf(j) : j \in AllSlots}
    <3>1. i - 2 * n - 1 \in AllSlots
      BY <1>0, <1>a DEF AllSlots
    <3> QED BY <2>2, <3>1
  <2>5. Share(k + 1) = {FinalOf(j) : j \in AllSlots}
    BY <1>0, <1>12, <1>a DEF Share
  <2> QED BY <2>1, <2>3, <2>4, <2>5
<1> QED BY <1>0, <1>6, <1>7, <1>8, <1>9, <1>10, <1>11, <1>12, <1>a

(* The ceremony in progress: k answers so far, and they are the first k.   *)
CeremonyInv ==
  \/ chain = NoChain
  \/ \E k \in 0 .. 3 * Parties + 1, c \in Seq(Links) :
        Len(c) = 3 * Parties + 2 /\ chain = [links |-> c, got |-> Got(k)]

LEMMA SlotsTyped ==
  ASSUME NEW m \in Client!Methods, NEW from \in {1, 2}, NEW n \in Nat \ {0}
  PROVE  /\ Client!Slots(m, from, n) \in Seq(Links)
         /\ Len(Client!Slots(m, from, n)) = (n + 1) - from
<1>1. \A i \in 1 .. (n - from + 1) : Client!Link(m, from + i - 1) \in Links
  BY DEF Client!Link, Links
<1>2. n - from + 1 \in Nat /\ n - from + 1 = (n + 1) - from
  OBVIOUS
<1>3. PICK s : s = Client!Slots(m, from, n)
  OBVIOUS
<1>4. s = [i \in 1 .. (n - from + 1) |-> Client!Link(m, from + i - 1)]
  BY <1>3 DEF Client!Slots
<1>5. s \in [1 .. (n - from + 1) -> Links]
  BY <1>1, <1>4, Zenon
<1>6. s \in Seq(Links) /\ Len(s) = n - from + 1
  BY <1>2, <1>5
<1> QED BY <1>2, <1>3, <1>6

LEMMA ChainTyped ==
  ASSUME NEW n \in Nat \ {0},
         NEW m1 \in Client!Methods, NEW m2 \in Client!Methods, NEW m3 \in Client!Methods,
         NEW m4 \in Client!Methods, NEW m5 \in Client!Methods, NEW m6 \in Client!Methods,
         NEW m7 \in Client!Methods
  PROVE  /\ Client!Chain(m1, m2, m3, m4, m5, m6, m7, n) \in Seq(Links)
         /\ Len(Client!Chain(m1, m2, m3, m4, m5, m6, m7, n)) = 3 * n + 2
<1>1. \A m \in Client!Methods : Client!Link(m, 1) \in Links
  BY DEF Client!Link, Links
<1>2. PICK l1, l2, l3, l4 :
        l1 = Client!Link(m1, 1) /\ l2 = Client!Link(m3, 1) /\ l3 = Client!Link(m5, 1) /\ l4 = Client!Link(m7, 1)
  OBVIOUS
<1>3. PICK s1, s2, s3 :
        s1 = Client!Slots(m2, 2, n) /\ s2 = Client!Slots(m4, 2, n) /\ s3 = Client!Slots(m6, 1, n)
  OBVIOUS
<1>4. l1 \in Links /\ l2 \in Links /\ l3 \in Links /\ l4 \in Links
  BY <1>1, <1>2
<1>5. /\ s1 \in Seq(Links) /\ Len(s1) = n - 1
      /\ s2 \in Seq(Links) /\ Len(s2) = n - 1
      /\ s3 \in Seq(Links) /\ Len(s3) = n
  <2>1. /\ s1 \in Seq(Links) /\ Len(s1) = (n + 1) - 2
        /\ s2 \in Seq(Links) /\ Len(s2) = (n + 1) - 2
        /\ s3 \in Seq(Links) /\ Len(s3) = (n + 1) - 1
    BY <1>3, SlotsTyped, Zenon
  <2> QED BY <2>1
<1>6. ASSUME NEW a \in Seq(Links), NEW l \in Links, NEW t \in Seq(Links)
      PROVE  a \o <<l>> \o t \in Seq(Links) /\ Len(a \o <<l>> \o t) = Len(a) + 1 + Len(t)
  <2>1. PICK b : b = a \o <<l>>
    BY Zenon
  <2>2. b \in Seq(Links) /\ Len(b) = Len(a) + 1
    BY <2>1
  <2>3. b \o t \in Seq(Links) /\ Len(b \o t) = Len(b) + Len(t)
    BY <2>2
  <2> QED BY <2>1, <2>2, <2>3
<1>7. PICK a : a = <<l1>> \o s1
  BY Zenon
<1>8. a \in Seq(Links) /\ Len(a) = n
  BY <1>4, <1>5, <1>7
<1>9. PICK b : b = a \o <<l2>> \o s2
  BY Zenon
<1>10. b \in Seq(Links) /\ Len(b) = 2 * n
  <2>1. b \in Seq(Links) /\ Len(b) = Len(a) + 1 + Len(s2)
    BY <1>4, <1>5, <1>6, <1>8, <1>9, Zenon
  <2> QED BY <1>5, <1>8, <2>1
<1>11. PICK d : d = b \o <<l3>> \o s3
  BY Zenon
<1>12. d \in Seq(Links) /\ Len(d) = 3 * n + 1
  <2>1. d \in Seq(Links) /\ Len(d) = Len(b) + 1 + Len(s3)
    BY <1>4, <1>5, <1>6, <1>10, <1>11, Zenon
  <2> QED BY <1>5, <1>10, <2>1
<1>13. d \o <<l4>> \in Seq(Links) /\ Len(d \o <<l4>>) = 3 * n + 2
  BY <1>4, <1>12
<1>14. Client!Chain(m1, m2, m3, m4, m5, m6, m7, n) = d \o <<l4>>
  BY <1>2, <1>3, <1>7, <1>9, <1>11, Zenon DEF Client!Chain
<1> QED BY <1>13, <1>14, Zenon

LEMMA ChainsTyped ==
  \A c \in {Client!KeygenChain(Parties), Client!BFVKeygenChain(Parties)} :
     c \in Seq(Links) /\ Len(c) = 3 * Parties + 2
<1>1. Parties \in Nat \ {0}
  BY BridgeBounds
<1>2. /\ Client!KeygenFirst \in Client!Methods /\ Client!KeygenNext \in Client!Methods
      /\ Client!EvalKeyRound1Lead \in Client!Methods
      /\ Client!EvalKeyRound1Participant \in Client!Methods
      /\ Client!CombineEvalKeyRound1 \in Client!Methods
      /\ Client!EvalKeyRound2Participant \in Client!Methods
      /\ Client!CombineEvalKeyRound2 \in Client!Methods
  BY DEF Client!Methods
<1>3. /\ Client!BFVKeygenFirst \in Client!Methods /\ Client!BFVKeygenNext \in Client!Methods
      /\ Client!BFVEvalKeyRound1Lead \in Client!Methods
      /\ Client!BFVEvalKeyRound1Participant \in Client!Methods
      /\ Client!BFVCombineEvalKeyRound1 \in Client!Methods
      /\ Client!BFVEvalKeyRound2Participant \in Client!Methods
      /\ Client!BFVCombineEvalKeyRound2 \in Client!Methods
  BY DEF Client!Methods
<1>4. \A m1, m2, m3, m4, m5, m6, m7 \in Client!Methods :
         /\ Client!Chain(m1, m2, m3, m4, m5, m6, m7, Parties) \in Seq(Links)
         /\ Len(Client!Chain(m1, m2, m3, m4, m5, m6, m7, Parties)) = 3 * Parties + 2
  BY <1>1, ChainTyped, Zenon
<1>5. Client!KeygenChain(Parties) \in Seq(Links) /\ Len(Client!KeygenChain(Parties)) = 3 * Parties + 2
  <2>1. PICK m1, m2, m3, m4, m5, m6, m7 \in Client!Methods :
          /\ m1 = Client!KeygenFirst /\ m2 = Client!KeygenNext /\ m3 = Client!EvalKeyRound1Lead
          /\ m4 = Client!EvalKeyRound1Participant /\ m5 = Client!CombineEvalKeyRound1
          /\ m6 = Client!EvalKeyRound2Participant /\ m7 = Client!CombineEvalKeyRound2
    BY <1>2
  <2>2. /\ Client!Chain(m1, m2, m3, m4, m5, m6, m7, Parties) \in Seq(Links)
        /\ Len(Client!Chain(m1, m2, m3, m4, m5, m6, m7, Parties)) = 3 * Parties + 2
    BY <1>4, Zenon
  <2>3. Client!KeygenChain(Parties) = Client!Chain(m1, m2, m3, m4, m5, m6, m7, Parties)
    BY <2>1, Zenon DEF Client!KeygenChain
  <2> QED BY <2>2, <2>3, Zenon
<1>6. Client!BFVKeygenChain(Parties) \in Seq(Links) /\ Len(Client!BFVKeygenChain(Parties)) = 3 * Parties + 2
  <2>1. PICK m1, m2, m3, m4, m5, m6, m7 \in Client!Methods :
          /\ m1 = Client!BFVKeygenFirst /\ m2 = Client!BFVKeygenNext /\ m3 = Client!BFVEvalKeyRound1Lead
          /\ m4 = Client!BFVEvalKeyRound1Participant /\ m5 = Client!BFVCombineEvalKeyRound1
          /\ m6 = Client!BFVEvalKeyRound2Participant /\ m7 = Client!BFVCombineEvalKeyRound2
    BY <1>3
  <2>2. /\ Client!Chain(m1, m2, m3, m4, m5, m6, m7, Parties) \in Seq(Links)
        /\ Len(Client!Chain(m1, m2, m3, m4, m5, m6, m7, Parties)) = 3 * Parties + 2
    BY <1>4, Zenon
  <2>3. Client!BFVKeygenChain(Parties) = Client!Chain(m1, m2, m3, m4, m5, m6, m7, Parties)
    BY <2>1, Zenon DEF Client!BFVKeygenChain
  <2> QED BY <2>2, <2>3, Zenon
<1> QED BY <1>5, <1>6, Zenon

LEMMA GotNext ==
  ASSUME NEW k \in Nat
  PROVE  Len(Got(k)) = k /\ Append(Got(k), Share(k + 1)) = Got(k + 1)
<1>1. PICK g, h, s : g = Got(k) /\ h = Got(k + 1) /\ s = Share(k + 1)
  OBVIOUS
<1>2. g = [i \in 1 .. k |-> Share(i)] /\ h = [i \in 1 .. (k + 1) |-> Share(i)] /\ s = Share(k + 1)
  BY <1>1 DEF Got
<1>3. Len(g) = k /\ Append(g, s) = h
  <2>1. Len(g) = k
    BY <1>2
  <2>2. Append(g, s) = [i \in 1 .. (k + 1) |-> IF i <= k THEN g[i] ELSE s]
    BY <1>2, <2>1
  <2> QED BY <1>2, <2>1, <2>2
<1> QED BY <1>1, <1>3, Zenon

LEMMA SingletonCardinality == ASSUME NEW a PROVE Cardinality({a}) = 1
<1> DEFINE step(f) == [T \in SUBSET {a} |-> IF T = {} THEN 0 ELSE 1 + f[T \ {CHOOSE x : x \in T}]]
           CS == CHOOSE f : f = step(f)
           one == [T \in SUBSET {a} |-> IF T = {} THEN 0 ELSE 1]
<1>1. \A T \in SUBSET {a} : T # {} => (CHOOSE x : x \in T) = a /\ T \ {a} = {}
  OBVIOUS
<1>2. one = step(one)
  BY <1>1
<1>3. \E f : f = step(f)
  BY <1>2, Zenon
<1>4. CS = step(CS)
  BY <1>3, Zenon
<1>5. CS[{a}] = 1
  <2> HIDE DEF CS
  <2>1. CS[{}] = 0
    BY <1>4
  <2> QED BY <1>1, <1>4, <2>1
<1>6. Cardinality({a}) = CS[{a}]
  BY DEF Cardinality
<1> QED BY <1>5, <1>6

LEMMA CeremonyInit == HelperInit => CeremonyInv
BY DEF HelperInit, CeremonyInv

LEMMA CeremonyAsk ==
  ASSUME CeremonyInv, NEW u \in Users, Ask(u)
  PROVE  CeremonyInv'
<1>1. CASE chain' = chain
  BY <1>1 DEF CeremonyInv
<1>2. ASSUME NEW c \in {Client!KeygenChain(Parties), Client!BFVKeygenChain(Parties)},
             chain' = [NoChain EXCEPT !.links = c]
      PROVE  CeremonyInv'
  <2>1. c \in Seq(Links) /\ Len(c) = 3 * Parties + 2 /\ Parties \in Nat
    BY ChainsTyped, BridgeBounds
  <2>2. chain' = [links |-> c, got |-> << >>]
    BY <1>2 DEF NoChain
  <2>3. Got(0) = << >>
    BY DEF Got
  <2>4. 0 \in 0 .. 3 * Parties + 1 /\ chain' = [links |-> c, got |-> Got(0)]
    BY <2>1, <2>2, <2>3
  <2> QED BY <2>1, <2>4, Zenon DEF CeremonyInv
<1> QED BY <1>1, <1>2 DEF Ask

LEMMA CeremonyBack ==
  ASSUME CeremonyInv, NEW u \in Users, Back(u)
  PROVE  CeremonyInv'
<1>1. CASE chain' = chain \/ chain' = NoChain
  BY <1>1 DEF CeremonyInv
<1>2. CASE /\ InChain(u) /\ Len(chain.got) + 1 < Len(chain.links)
           /\ chain' = [chain EXCEPT !.got = Append(@, Client!Answer(@, Parties))]
  <2>1. chain # NoChain
    BY <1>2 DEF InChain, NoChain
  <2>2. PICK k \in 0 .. 3 * Parties + 1, c \in Seq(Links) :
          Len(c) = 3 * Parties + 2 /\ chain = [links |-> c, got |-> Got(k)]
    BY <2>1 DEF CeremonyInv
  <2>3. k \in Nat /\ Parties \in Nat
    BY BridgeBounds
  <2>4. Client!Answer(Got(k), Parties) = Share(k + 1)
    BY NextAnswer
  <2>5. Len(Got(k)) = k /\ Append(Got(k), Share(k + 1)) = Got(k + 1)
    BY <2>3, GotNext, Zenon
  <2>6. chain.got = Got(k) /\ chain.links = c
    BY <2>2
  <2>7. k + 1 \in 0 .. 3 * Parties + 1
    BY <1>2, <2>2, <2>3, <2>5, <2>6
  <2>8. Append(chain.got, Client!Answer(chain.got, Parties)) = Got(k + 1)
    BY <2>4, <2>5, <2>6, Zenon
  <2>9. chain' = [chain EXCEPT !.got = Got(k + 1)]
    BY <1>2, <2>8, Zenon
  <2>10. chain' = [links |-> c, got |-> Got(k + 1)]
    BY <2>2, <2>9
  <2> QED BY <2>2, <2>7, <2>10, Zenon DEF CeremonyInv
<1> QED BY <1>1, <1>2, Zenon DEF Back

LEMMA CeremonyNext == CeremonyInv /\ [HelperNext]_helperVars => CeremonyInv'
<1> SUFFICES ASSUME CeremonyInv, [HelperNext]_helperVars PROVE CeremonyInv'
  OBVIOUS
<1>1. CASE DaemonStep \/ Killed \/ UNCHANGED helperVars
  <2>1. chain' = chain
    BY <1>1 DEF DaemonStep, runDaemon, RunFunction, Respond, ExitAlone, Killed, Exit, clientVars, helperVars
  <2> QED BY <2>1, Zenon DEF CeremonyInv
<1>2. ASSUME NEW u \in Users, Ask(u) \/ UserStep(u) PROVE CeremonyInv'
  <2>1. CASE Encode(u) \/ Decode(u) \/ CloseClient(u) \/ Wait(u)
    <3>1. chain' = chain
      BY <2>1 DEF Encode, Decode, CloseClient, Wait
    <3> QED BY <3>1 DEF CeremonyInv
  <2> QED BY <1>2, <2>1, CeremonyAsk, CeremonyBack, ZenonT(60) DEF UserStep
<1> QED BY <1>1, <1>2, Zenon DEF HelperNext

LEMMA CeremonyBundle == CeremonyInv => BundleComplete
<1> SUFFICES ASSUME CeremonyInv, chain # NoChain, Len(chain.got) + 1 = Len(chain.links)
             PROVE  LET b == Client!EvalKeyBundle(Append(chain.got, Client!Answer(chain.got, Parties)), Parties)
                    IN  /\ b.publicKey = AllSlots /\ b.evalSum = AllSlots
                        /\ {s.sk : s \in b.evalKeys} = AllSlots
                        /\ Cardinality({s \in b.evalKeys : s.lead}) = 1
                        /\ \A s \in b.evalKeys : s.joined = AllSlots /\ s.pk = AllSlots
  BY ZenonT(60) DEF BundleComplete
<1>1. PICK k \in 0 .. 3 * Parties + 1, c \in Seq(Links) :
        Len(c) = 3 * Parties + 2 /\ chain = [links |-> c, got |-> Got(k)]
  BY DEF CeremonyInv
<1>2. k \in Nat /\ Parties \in Nat \ {0}
  BY BridgeBounds
<1>3. chain.got = Got(k) /\ chain.links = c
  BY <1>1
<1>4. Len(Got(k)) = k /\ Append(Got(k), Share(k + 1)) = Got(k + 1)
  BY <1>2, GotNext, Zenon
<1>5. k + 1 = 3 * Parties + 2
  BY <1>1, <1>3, <1>4
<1>6. Append(chain.got, Client!Answer(chain.got, Parties)) = Got(3 * Parties + 2)
  <2>1. Client!Answer(Got(k), Parties) = Share(k + 1)
    BY NextAnswer
  <2> QED BY <1>3, <1>4, <1>5, <2>1, Zenon
<1>7. PICK g : g = Got(3 * Parties + 2)
  OBVIOUS
<1>8. \A i \in 1 .. 3 * Parties + 2 : g[i] = Share(i)
  BY <1>2, <1>7 DEF Got
<1>9. PICK F : F = {FinalOf(j) : j \in AllSlots}
  BY Zenon
<1>a. PICK n : n = Parties
  OBVIOUS
<1>b. /\ n \in 1 .. 3 * n + 2 /\ 2 * n + 1 \in 1 .. 3 * n + 2 /\ 3 * n + 2 \in 1 .. 3 * n + 2
      /\ n <= n /\ ~(2 * n + 1 <= n) /\ ~(2 * n + 1 <= 2 * n) /\ ~(3 * n + 2 <= n)
      /\ ~(3 * n + 2 <= 2 * n) /\ ~(3 * n + 2 = 2 * n + 1) /\ ~(3 * n + 2 <= 3 * n + 1)
  BY <1>2, <1>a
<1>c. /\ g[Parties] = Share(Parties) /\ g[2 * Parties + 1] = Share(2 * Parties + 1)
      /\ g[3 * Parties + 2] = Share(3 * Parties + 2)
  BY <1>8, <1>a, <1>b, Zenon
<1>10. g[Parties].pk = AllSlots
  <2>1. g[Parties] = KeyOf(Parties)
    BY <1>a, <1>b, <1>c, Zenon DEF Share
  <2> QED BY <2>1 DEF KeyOf, AllSlots
<1>11. g[2 * Parties + 1] = AllSlots
  BY <1>a, <1>b, <1>c, Zenon DEF Share
<1>12. g[3 * Parties + 2] = F
  BY <1>9, <1>a, <1>b, <1>c, ZenonT(60) DEF Share
<1>13. \A j \in AllSlots : /\ FinalOf(j) \in F /\ FinalOf(j).sk = j /\ (FinalOf(j).lead <=> j = 1)
                           /\ FinalOf(j).joined = AllSlots /\ FinalOf(j).pk = AllSlots
  BY <1>9, Zenon DEF FinalOf
<1>14. \A s \in F : \E j \in AllSlots : s = FinalOf(j)
  BY <1>9
<1>15. {s.sk : s \in F} = AllSlots
  BY <1>13, <1>14
<1>16. {s \in F : s.lead} = {FinalOf(1)}
  <2>1. 1 \in AllSlots
    BY <1>2 DEF AllSlots
  <2> QED BY <1>13, <1>14, <2>1
<1>17. Cardinality({s \in F : s.lead}) = 1
  BY <1>16, SingletonCardinality, Zenon
<1>18. \A s \in F : s.joined = AllSlots /\ s.pk = AllSlots
  BY <1>13, <1>14
<1>19. PICK b : b = Client!EvalKeyBundle(Append(chain.got, Client!Answer(chain.got, Parties)), Parties)
  OBVIOUS
<1>20. b = [publicKey |-> g[Parties].pk, evalKeys |-> g[3 * Parties + 2], evalSum |-> g[2 * Parties + 1]]
  BY <1>6, <1>7, <1>19, Zenon DEF Client!EvalKeyBundle
<1>21. b.publicKey = AllSlots /\ b.evalSum = AllSlots /\ b.evalKeys = F
  BY <1>10, <1>11, <1>12, <1>20
<1> QED BY <1>15, <1>17, <1>18, <1>19, <1>21, Zenon

(* A key ceremony returns a bundle only when every slot took part, for any *)
(* number of slots, whatever other goroutines ask in between and wherever  *)
(* a request fails, the client is closed or the process ends.              *)
THEOREM BundleCompleteSafe == HelperSpec => []BundleComplete
BY CeremonyInit, CeremonyNext, CeremonyBundle, PTL DEF HelperSpec

-----------------------------------------------------------------------------
(* The requests.  A method of the client that fills in every field asks    *)
(* for an operation the daemon knows and gives it all it needs.            *)
Fits(m) ==
  /\ m.op \in DOMAIN run /\ "nothing" \notin m.fields
  /\ run[m.op].required \subseteq m.fields /\ DOMAIN run[m.op].arg \subseteq m.fields

LEMMA OpParts ==
  ASSUME NEW fn, NEW fields
  PROVE  LET o == Op(fn, fields) IN
         /\ o = [fn |-> o.fn, required |-> o.required, arg |-> o.arg]
         /\ o.required = DOMAIN fields /\ DOMAIN o.arg = DOMAIN fields
BY DEF Op

LEMMA ListsParts ==
  ASSUME NEW o, NEW fields, o = [fn |-> o.fn, required |-> o.required, arg |-> o.arg]
  PROVE  LET l == Lists(o, fields) IN
         /\ l = [fn |-> l.fn, required |-> l.required, arg |-> l.arg]
         /\ l.required = o.required /\ DOMAIN l.arg = DOMAIN o.arg \cup DOMAIN fields
<1> DEFINE a == [f \in DOMAIN o.arg \cup DOMAIN fields |-> IF f \in DOMAIN fields THEN fields[f] ELSE o.arg[f]]
<1>1. DOMAIN a = DOMAIN o.arg \cup DOMAIN fields
  OBVIOUS
<1>2. Lists(o, fields) = [o EXCEPT !.arg = a]
  BY Zenon DEF Lists
<1> HIDE DEF a
<1>3. PICK l : l = Lists(o, fields)
  OBVIOUS
<1>4. l = [fn |-> o.fn, required |-> o.required, arg |-> a]
  BY <1>2, <1>3
<1>5. /\ l = [fn |-> l.fn, required |-> l.required, arg |-> l.arg]
      /\ l.required = o.required /\ l.arg = a
  BY <1>4
<1> QED BY <1>1, <1>3, <1>5, Zenon

LEMMA RequiredParts ==
  ASSUME NEW o, NEW fields, o = [fn |-> o.fn, required |-> o.required, arg |-> o.arg]
  PROVE  LET r == Required(o, fields) IN
         r.required = o.required \cup fields /\ r.arg = o.arg
BY DEF Required

LEMMA OpLists ==
  ASSUME NEW fn, NEW fields, NEW lists
  PROVE  LET l == Lists(Op(fn, fields), lists) IN
         /\ l = [fn |-> l.fn, required |-> l.required, arg |-> l.arg]
         /\ l.required = DOMAIN fields /\ DOMAIN l.arg = DOMAIN fields \cup DOMAIN lists
<1>1. PICK o : o = Op(fn, fields)
  OBVIOUS
<1>2. /\ o = [fn |-> o.fn, required |-> o.required, arg |-> o.arg]
      /\ o.required = DOMAIN fields /\ DOMAIN o.arg = DOMAIN fields
  BY <1>1, OpParts, Zenon
<1>3. PICK l : l = Lists(o, lists)
  OBVIOUS
<1>4. /\ l = [fn |-> l.fn, required |-> l.required, arg |-> l.arg]
      /\ l.required = o.required /\ DOMAIN l.arg = DOMAIN o.arg \cup DOMAIN lists
  BY <1>2, <1>3, ListsParts, Zenon
<1> QED BY <1>1, <1>2, <1>3, <1>4, Zenon

LEMMA OpRequired ==
  ASSUME NEW fn, NEW fields, NEW lists, NEW more
  PROVE  LET r == Required(Lists(Op(fn, fields), lists), more) IN
         /\ r.required = DOMAIN fields \cup more /\ DOMAIN r.arg = DOMAIN fields \cup DOMAIN lists
<1>1. PICK l : l = Lists(Op(fn, fields), lists)
  OBVIOUS
<1>2. /\ l = [fn |-> l.fn, required |-> l.required, arg |-> l.arg]
      /\ l.required = DOMAIN fields /\ DOMAIN l.arg = DOMAIN fields \cup DOMAIN lists
  BY <1>1, OpLists
<1>3. PICK r : r = Required(l, more)
  OBVIOUS
<1>4. r.required = l.required \cup more /\ r.arg = l.arg
  BY <1>2, <1>3, RequiredParts, ZenonT(60)
<1> QED BY <1>1, <1>2, <1>3, <1>4, Zenon

(* The daemon's case o for the operation x, what the case needs, and what  *)
(* a method of the client asks.                                            *)
Known(x, o)       == x \in DOMAIN run /\ run[x] = o
Needs(o, req, fs) == o.required = req /\ DOMAIN o.arg = fs
Asks(m, x, fs)    == m.op = x /\ m.fields = fs

LEMMA KnownOps ==
  /\ Known("argmax", argmax)
  /\ Known("bfv_combine_evalkey_round1", bfv_combine_evalkey_round1)
  /\ Known("bfv_combine_evalkey_round2", bfv_combine_evalkey_round2)
  /\ Known("bfv_encrypt_int_vector", bfv_encrypt_int_vector)
  /\ Known("bfv_eval_product_sum", bfv_eval_product_sum)
  /\ Known("bfv_evalkey_round1_lead", bfv_evalkey_round1_lead)
  /\ Known("bfv_evalkey_round1_participant", bfv_evalkey_round1_participant)
  /\ Known("bfv_evalkey_round2_participant", bfv_evalkey_round2_participant)
  /\ Known("bfv_fuse_partials_int", bfv_fuse_partials_int)
  /\ Known("bfv_keygen_first", bfv_keygen_first)
  /\ Known("bfv_keygen_next", bfv_keygen_next)
  /\ Known("bfv_partial_decrypt", bfv_partial_decrypt)
  /\ Known("combine_evalkey_round1", combine_evalkey_round1)
  /\ Known("combine_evalkey_round2", combine_evalkey_round2)
  /\ Known("encrypt_profile", encrypt_profile)
  /\ Known("eval_add", eval_add)
  /\ Known("eval_const_mult", eval_const_mult)
  /\ Known("eval_mult", eval_mult)
  /\ Known("eval_poly", eval_poly)
  /\ Known("eval_sub", eval_sub)
  /\ Known("evalkey_round1_lead", evalkey_round1_lead)
  /\ Known("evalkey_round1_participant", evalkey_round1_participant)
  /\ Known("evalkey_round2_participant", evalkey_round2_participant)
  /\ Known("fuse_partials", fuse_partials)
  /\ Known("keygen_first", keygen_first)
  /\ Known("keygen_next", keygen_next)
  /\ Known("partial_decrypt", partial_decrypt)
BY ZenonT(60) DEF Known, run

LEMMA MethodsFit == \A m \in Client!Methods : Fits(m)
<1>1. Fits(Client!KeygenFirst) /\ Fits(Client!BFVKeygenFirst)
  <2>1. /\ Needs(keygen_first, {}, {})
        /\ Needs(bfv_keygen_first, {}, {})
    BY OpParts DEF Needs, keygen_first, bfv_keygen_first, NoFields
  <2>2. /\ Asks(Client!KeygenFirst, "keygen_first", {})
        /\ Asks(Client!BFVKeygenFirst, "bfv_keygen_first", {})
    BY Zenon DEF Asks, Client!Method, Client!KeygenFirst, Client!BFVKeygenFirst
  <2> QED BY <2>1, <2>2, KnownOps DEF Fits, Known, Needs, Asks
<1>2. Fits(Client!KeygenNext) /\ Fits(Client!BFVKeygenNext)
  <2>1. /\ Needs(keygen_next, {"prev_public_key"}, {"prev_public_key"})
        /\ Needs(bfv_keygen_next, {"prev_public_key"}, {"prev_public_key"})
    BY OpParts DEF Needs, keygen_next, bfv_keygen_next, keygen_next_fields
  <2>2. /\ Asks(Client!KeygenNext, "keygen_next", {"prev_public_key"})
        /\ Asks(Client!BFVKeygenNext, "bfv_keygen_next", {"prev_public_key"})
    BY DEF Asks, Client!Method, Client!KeygenNext, Client!BFVKeygenNext
  <2> QED BY <2>1, <2>2, KnownOps DEF Fits, Known, Needs, Asks
<1>3. Fits(Client!EncryptProfile) /\ Fits(Client!BFVEncryptIntVector)
  <2>1. /\ Needs(encrypt_profile, {"joint_public_key"}, {"joint_public_key", "values"})
        /\ Needs(bfv_encrypt_int_vector, {"joint_public_key"}, {"joint_public_key", "int_values"})
    BY OpLists DEF Needs, encrypt_profile, bfv_encrypt_int_vector
  <2>2. /\ Asks(Client!EncryptProfile, "encrypt_profile", {"joint_public_key", "values"})
        /\ Asks(Client!BFVEncryptIntVector, "bfv_encrypt_int_vector", {"joint_public_key", "int_values"})
    BY DEF Asks, Client!Method, Client!EncryptProfile, Client!BFVEncryptIntVector
  <2> QED BY <2>1, <2>2, KnownOps DEF Fits, Known, Needs, Asks
<1>4. Fits(Client!EvalKeyRound1Lead) /\ Fits(Client!BFVEvalKeyRound1Lead)
  <2>1. /\ Needs(evalkey_round1_lead, {"secret_key_share"}, {"secret_key_share"})
        /\ Needs(bfv_evalkey_round1_lead, {"secret_key_share"}, {"secret_key_share"})
    BY OpParts DEF Needs, evalkey_round1_lead, bfv_evalkey_round1_lead, secret
  <2>2. /\ Asks(Client!EvalKeyRound1Lead, "evalkey_round1_lead", {"secret_key_share"})
        /\ Asks(Client!BFVEvalKeyRound1Lead, "bfv_evalkey_round1_lead", {"secret_key_share"})
    BY DEF Asks, Client!Method, Client!EvalKeyRound1Lead, Client!BFVEvalKeyRound1Lead
  <2> QED BY <2>1, <2>2, KnownOps DEF Fits, Known, Needs, Asks
<1>5. Fits(Client!EvalKeyRound1Participant) /\ Fits(Client!BFVEvalKeyRound1Participant)
  <2> DEFINE F == {"secret_key_share", "eval_mult_base", "eval_sum_base", "own_public_key"}
  <2>1. /\ Needs(evalkey_round1_participant, F, F)
        /\ Needs(bfv_evalkey_round1_participant, F, F)
    BY OpParts DEF Needs, evalkey_round1_participant, bfv_evalkey_round1_participant, round1
  <2>2. /\ Asks(Client!EvalKeyRound1Participant, "evalkey_round1_participant", F)
        /\ Asks(Client!BFVEvalKeyRound1Participant, "bfv_evalkey_round1_participant", F)
    BY Zenon DEF Asks, Client!Method, Client!EvalKeyRound1Participant, Client!BFVEvalKeyRound1Participant
  <2> QED BY <2>1, <2>2, KnownOps DEF Fits, Known, Needs, Asks
<1>6. Fits(Client!EvalKeyRound2Participant) /\ Fits(Client!BFVEvalKeyRound2Participant)
  <2> DEFINE F == {"secret_key_share", "eval_mult_joined", "final_public_key"}
  <2>1. /\ Needs(evalkey_round2_participant, F, F)
        /\ Needs(bfv_evalkey_round2_participant, F, F)
    BY OpParts DEF Needs, evalkey_round2_participant, bfv_evalkey_round2_participant, round2
  <2>2. /\ Asks(Client!EvalKeyRound2Participant, "evalkey_round2_participant", F)
        /\ Asks(Client!BFVEvalKeyRound2Participant, "bfv_evalkey_round2_participant", F)
    BY DEF Asks, Client!Method, Client!EvalKeyRound2Participant, Client!BFVEvalKeyRound2Participant
  <2> QED BY <2>1, <2>2, KnownOps DEF Fits, Known, Needs, Asks
<1>7. Fits(Client!CombineEvalKeyRound1) /\ Fits(Client!BFVCombineEvalKeyRound1)
  <2> DEFINE F == {"public_keys", "eval_mult_round1_shares", "eval_sum_round1_shares"}
  <2>1. /\ Needs(combine_evalkey_round1, {}, F)
        /\ Needs(bfv_combine_evalkey_round1, {}, F)
    BY OpLists DEF Needs, combine_evalkey_round1, bfv_combine_evalkey_round1, NoFields, round1_shares
  <2>2. /\ Asks(Client!CombineEvalKeyRound1, "combine_evalkey_round1", F)
        /\ Asks(Client!BFVCombineEvalKeyRound1, "bfv_combine_evalkey_round1", F)
    BY DEF Asks, Client!Method, Client!CombineEvalKeyRound1, Client!BFVCombineEvalKeyRound1
  <2> QED BY <2>1, <2>2, KnownOps DEF Fits, Known, Needs, Asks
<1>8. Fits(Client!CombineEvalKeyRound2) /\ Fits(Client!BFVCombineEvalKeyRound2)
  <2> DEFINE F == {"final_public_key", "eval_mult_final_shares", "eval_sum_final_key"}
  <2>1. /\ Needs(combine_evalkey_round2, {"final_public_key", "eval_sum_final_key"}, F)
        /\ Needs(bfv_combine_evalkey_round2, {"final_public_key", "eval_sum_final_key"}, F)
    BY OpLists DEF Needs, combine_evalkey_round2, bfv_combine_evalkey_round2, round2_keys, round2_shares
  <2>2. /\ Asks(Client!CombineEvalKeyRound2, "combine_evalkey_round2", F)
        /\ Asks(Client!BFVCombineEvalKeyRound2, "bfv_combine_evalkey_round2", F)
    BY Zenon DEF Asks, Client!Method, Client!CombineEvalKeyRound2, Client!BFVCombineEvalKeyRound2
  <2> QED BY <2>1, <2>2, KnownOps DEF Fits, Known, Needs, Asks
<1>9. Fits(Client!PartialDecrypt) /\ Fits(Client!BFVPartialDecrypt)
  <2> DEFINE F == {"ciphertext", "secret_key_share"}
  <2>1. /\ Needs(partial_decrypt, F, F)
        /\ Needs(bfv_partial_decrypt, F, F)
    BY OpParts DEF Needs, partial_decrypt, bfv_partial_decrypt, partial
  <2>2. /\ Asks(Client!PartialDecrypt, "partial_decrypt", F)
        /\ Asks(Client!BFVPartialDecrypt, "bfv_partial_decrypt", F)
    BY Zenon DEF Asks, Client!Method, Client!PartialDecrypt, Client!BFVPartialDecrypt
  <2> QED BY <2>1, <2>2, KnownOps DEF Fits, Known, Needs, Asks
<1>10. Fits(Client!FusePartials) /\ Fits(Client!BFVFusePartials)
  <2> DEFINE F == {"partials", "n_slots"}
  <2>1. /\ Needs(fuse_partials, {}, F)
        /\ Needs(bfv_fuse_partials_int, {}, F)
    BY OpLists DEF Needs, fuse_partials, bfv_fuse_partials_int, NoFields, partials
  <2>2. /\ Asks(Client!FusePartials, "fuse_partials", F)
        /\ Asks(Client!BFVFusePartials, "bfv_fuse_partials_int", F)
    BY DEF Asks, Client!Method, Client!FusePartials, Client!BFVFusePartials
  <2> QED BY <2>1, <2>2, KnownOps, Zenon DEF Fits, Known, Needs, Asks
<1>11. Fits(Client!EvalAdd) /\ Fits(Client!EvalSub)
  <2> DEFINE F == {"eval_keys", "ciphertext_a", "ciphertext_b"}
  <2>1. /\ Needs(eval_add, {"ciphertext_a", "ciphertext_b"}, {"ciphertext_a", "ciphertext_b"})
        /\ Needs(eval_sub, {"ciphertext_a", "ciphertext_b"}, {"ciphertext_a", "ciphertext_b"})
    BY OpParts DEF Needs, eval_add, eval_sub, runEvalBinary
  <2>2. /\ Asks(Client!EvalAdd, "eval_add", F)
        /\ Asks(Client!EvalSub, "eval_sub", F)
    BY Zenon DEF Asks, Client!Method, Client!EvalAdd, Client!EvalSub
  <2> QED BY <2>1, <2>2, KnownOps DEF Fits, Known, Needs, Asks
<1>12. Fits(Client!EvalMult)
  <2> DEFINE F == {"eval_keys", "ciphertext_a", "ciphertext_b"}
  <2>1. /\ Needs(eval_mult, F, F)
    BY OpParts DEF Needs, eval_mult
  <2>2. /\ Asks(Client!EvalMult, "eval_mult", F)
    BY Zenon DEF Asks, Client!Method, Client!EvalMult
  <2> QED BY <2>1, <2>2, KnownOps DEF Fits, Known, Needs, Asks
<1>13. Fits(Client!EvalConstMult)
  <2>1. /\ Needs(eval_const_mult, {"ciphertext"}, {"ciphertext"})
    BY OpParts DEF Needs, eval_const_mult
  <2>2. /\ Asks(Client!EvalConstMult, "eval_const_mult", {"ciphertext"})
    BY DEF Asks, Client!Method, Client!EvalConstMult
  <2> QED BY <2>1, <2>2, KnownOps DEF Fits, Known, Needs, Asks
<1>14. Fits(Client!EvalPoly)
  <2> DEFINE F == {"eval_keys", "ciphertext", "coefficients"}
  <2>1. /\ Needs(eval_poly, F, F)
    BY OpRequired DEF Needs, eval_poly
  <2>2. /\ Asks(Client!EvalPoly, "eval_poly", F)
    BY DEF Asks, Client!Method, Client!EvalPoly
  <2> QED BY <2>1, <2>2, KnownOps, Zenon DEF Fits, Known, Needs, Asks
<1>15. Fits(Client!Argmax)
  <2> DEFINE F == {"eval_keys", "ciphertexts", "coefficients"}
  <2>1. /\ Needs(argmax, F, F)
    BY OpRequired DEF Needs, argmax
  <2>2. /\ Asks(Client!Argmax, "argmax", F)
    BY DEF Asks, Client!Method, Client!Argmax
  <2> QED BY <2>1, <2>2, KnownOps, Zenon DEF Fits, Known, Needs, Asks
<1>16. Fits(Client!BFVEvalProductSum)
  <2> DEFINE F == {"eval_keys", "eval_sum_final_key", "ciphertext_a", "ciphertext_b", "n_slots"}
  <2>1. /\ Needs(bfv_eval_product_sum, {"eval_keys", "eval_sum_final_key", "ciphertext_a", "ciphertext_b"}, F)
    BY OpLists DEF Needs, bfv_eval_product_sum
  <2>2. /\ Asks(Client!BFVEvalProductSum, "bfv_eval_product_sum", F)
    BY DEF Asks, Client!Method, Client!BFVEvalProductSum
  <2> QED BY <2>1, <2>2, KnownOps DEF Fits, Known, Needs, Asks
<1>17. Fits(Client!Version)
  <2>1. run["version"] = Op("none", NoFields) /\ "version" \in DOMAIN run
    BY DEF run
  <2>2. run["version"].required = {} /\ DOMAIN run["version"].arg = {}
    BY <2>1, OpParts DEF NoFields
  <2>3. Client!Version.op = "version" /\ Client!Version.fields = {}
    BY DEF Client!Method, Client!Version
  <2> QED BY <2>1, <2>2, <2>3, ZenonT(60) DEF Fits
<1> QED BY <1>1, <1>2, <1>3, <1>4, <1>5, <1>6, <1>7, <1>8, <1>9,
           <1>10, <1>11, <1>12, <1>13, <1>14, <1>15, <1>16, <1>17, Zenon DEF Client!Methods

RequestInv == \A u \in Users : user[u].at = "decode" => user[u].ask[1].method \in Client!Methods

LEMMA AskedMethods ==
  ASSUME CeremonyInv, NEW u \in Users, NEW q \in Questions(u)
  PROVE  q.method \in Client!Methods
<1>1. CASE InChain(u)
  <2>1. q = [method |-> NextLink.method, empty |-> "nothing"]
    BY <1>1, Zenon DEF Questions
  <2>2. chain # NoChain
    BY <1>1 DEF InChain, NoChain
  <2>3. PICK k \in 0 .. 3 * Parties + 1, c \in Seq(Links) :
          Len(c) = 3 * Parties + 2 /\ chain = [links |-> c, got |-> Got(k)]
    BY <2>2 DEF CeremonyInv
  <2>4. k \in Nat /\ Parties \in Nat
    BY BridgeBounds
  <2>5. chain.links = c /\ Len(chain.got) = k
    BY <2>3, <2>4, GotNext
  <2>6. c[k + 1] \in Links
    BY <2>3, <2>4
  <2>7. NextLink = c[k + 1]
    BY <2>5, Zenon DEF NextLink
  <2>8. NextLink.method \in Client!Methods
    BY <2>6, <2>7 DEF Links
  <2> QED BY <2>1, <2>8
<1>2. CASE ~InChain(u)
  <2>1. Asked(u) \subseteq Client!Methods
    BY Zenon DEF Asked
  <2>2. Questions(u) = UNION {{[method |-> m, empty |-> f] : f \in m.fields \cup {"nothing"}} : m \in Asked(u)}
    BY <1>2, Zenon DEF Questions
  <2>3. PICK m \in Asked(u) : q \in {[method |-> m, empty |-> f] : f \in m.fields \cup {"nothing"}}
    BY <2>2, Zenon
  <2>4. PICK f : q = [method |-> m, empty |-> f]
    BY <2>3, Zenon
  <2>5. q.method = m
    BY <2>4
  <2> QED BY <2>1, <2>3, <2>5
<1> QED BY <1>1, <1>2

\* A goroutine that is in Decode after a step was there before, with the same
\* request, or has just encoded it.
LEMMA RequestNext ==
  PipeInv /\ CeremonyInv /\ RequestInv /\ [HelperNext]_helperVars => RequestInv'
<1> SUFFICES ASSUME PipeInv, CeremonyInv, RequestInv, [HelperNext]_helperVars PROVE RequestInv'
  OBVIOUS
<1>0. DOMAIN user = Users /\ \A u \in Users : Frame(user[u])
  BY DEF PipeInv, ClientTypeOK
<1>1. CASE user' = user
  BY <1>1 DEF RequestInv
<1>2. ASSUME NEW u \in Users, NEW r, user' = [user EXCEPT ![u] = r],
             r.at = "decode" => r.ask[1].method \in Client!Methods
      PROVE  RequestInv'
  <2>1. user'[u] = r /\ \A v \in Users \ {u} : user'[v] = user[v]
    BY <1>0, <1>2
  <2> QED BY <1>2, <2>1 DEF RequestInv
<1>3. CASE DaemonStep \/ Killed \/ UNCHANGED helperVars
  <2>1. user' = user
    BY <1>3 DEF DaemonStep, runDaemon, RunFunction, Respond, ExitAlone, Killed, Exit, clientVars, helperVars
  <2> QED BY <1>1, <2>1, ZenonT(60)
<1>4. ASSUME NEW u \in Users, NEW at, Stay(u, at), at # "decode" PROVE RequestInv'
  <2>1. user' = [user EXCEPT ![u] = [user[u] EXCEPT !.at = at]]
    BY <1>4 DEF Stay
  <2>2. [user[u] EXCEPT !.at = at].at = at
    BY <1>0 DEF Frame
  <2> QED BY <1>2, <1>4, <2>1, <2>2, Zenon
<1>5. ASSUME NEW u \in Users, Ask(u) PROVE RequestInv'
  <2>1. PICK at \in {"call", "close"} : user' = [user EXCEPT ![u] = [AtRest EXCEPT !.at = at]]
    BY <1>5 DEF Ask
  <2>2. [AtRest EXCEPT !.at = at].at = at
    BY DEF AtRest
  <2> QED BY <1>2, <2>1, <2>2, Zenon
<1>6. ASSUME NEW u \in Users, Back(u) PROVE RequestInv'
  <2>1. PICK r \in {[AtRest EXCEPT !.at = "call"], AtRest} : user' = [user EXCEPT ![u] = r]
    BY <1>6, Zenon DEF Back
  <2>2. r.at # "decode"
    BY <2>1 DEF AtRest
  <2> QED BY <1>2, <2>1, <2>2, Zenon
<1>7. ASSUME NEW u \in Users, Encode(u) PROVE RequestInv'
  <2>1. CASE Stay(u, "returned")
    BY <1>4, <2>1
  <2>2. ASSUME NEW q \in Questions(u), user' = [user EXCEPT ![u].at = "decode", ![u].ask = <<q>>]
        PROVE  RequestInv'
    <3> DEFINE r == [user[u] EXCEPT !.at = "decode", !.ask = <<q>>]
    <3>1. user' = [user EXCEPT ![u] = r]
      BY <1>0, <2>2, Zenon
    <3>2. r.ask = <<q>>
      BY <1>0 DEF Frame
    <3>3. r.ask[1] = q
      BY <3>2
    <3> HIDE DEF r
    <3>4. q.method \in Client!Methods
      BY AskedMethods
    <3> QED BY <1>2, <3>1, <3>3, <3>4, Zenon
  <2> QED BY <1>7, <2>1, <2>2 DEF Encode
<1>8. ASSUME NEW u \in Users, Decode(u) PROVE RequestInv'
  <2>1. CASE Stay(u, "returned")
    BY <1>4, <2>1
  <2>2. CASE user' = [user EXCEPT ![u].at = "returned", ![u].got = <<Head(stdout)>>]
    <3>1. PICK g : g = <<Head(stdout)>>
      BY Zenon
    <3>2. user' = [user EXCEPT ![u] = Returned(user[u], g)]
      BY <1>0, <2>2, <3>1, ZenonT(60) DEF Returned
    <3>3. Returned(user[u], g).at = "returned"
      BY <1>0, FrameGot
    <3> QED BY <1>2, <3>2, <3>3, Zenon
  <2> QED BY <1>8, <2>1, <2>2 DEF Decode
<1>9. ASSUME NEW u \in Users, CloseClient(u) \/ Wait(u) PROVE RequestInv'
  <2>1. Stay(u, "idle") \/ Stay(u, "wait")
    BY <1>9 DEF CloseClient, Wait
  <2> QED BY <1>4, <2>1, Zenon
<1> QED BY <1>3, <1>5, <1>6, <1>7, <1>8, <1>9, ZenonT(60) DEF HelperNext, UserStep

LEMMA RequestFits == PipeInv /\ RequestInv => RequestsUnderstood
<1> SUFFICES ASSUME PipeInv, RequestInv, NEW i \in DOMAIN stdin, stdin[i].empty = "nothing"
             PROVE  ~Refused(stdin[i]) /\ EmptyArg(stdin[i]) = "nothing"
  BY Zenon DEF RequestsUnderstood
<1>1. stdin # << >>
  OBVIOUS
<1>2. mu \in Users /\ user[mu].at = "decode" /\ stdin = <<user[mu].ask[1]>>
  BY <1>1 DEF PipeInv, ClientTypeOK, Waiting
<1>3. PICK q : q = user[mu].ask[1]
  OBVIOUS
<1>4. stdin[i] = q /\ q.method \in Client!Methods
  BY <1>2, <1>3 DEF RequestInv
<1>5. Fits(q.method) /\ q.empty = "nothing"
  BY <1>4, MethodsFit
<1>6. q.method.fields \ {q.empty} = q.method.fields
  BY <1>5 DEF Fits
<1>7. ~Refused(q)
  BY <1>5, <1>6, ZenonT(60) DEF Refused, Fits
<1>8. DOMAIN run[q.method.op].arg \ (q.method.fields \ {q.empty}) = {}
  BY <1>5, <1>6, Zenon DEF Fits
<1>9. {run[q.method.op].arg[f] : f \in DOMAIN run[q.method.op].arg \ (q.method.fields \ {q.empty})} = {}
  BY <1>8
<1>10. EmptyArg(q) = "nothing"
  BY <1>9, Zenon DEF EmptyArg
<1> QED BY <1>4, <1>7, <1>10

(* Client and daemon agree on the protocol: whatever a goroutine or a key  *)
(* ceremony of any number of slots asks with every argument filled in, the *)
(* daemon knows the operation, finds the fields it requires and passes no  *)
(* empty argument to the bridge.                                           *)
THEOREM RequestsSafe == HelperSpec => []RequestsUnderstood
<1>1. HelperInit => RequestInv
  BY DEF HelperInit, RequestInv, AtRest
<1> QED BY <1>1, PipeInit, PipeNext, CeremonyInit, CeremonyNext, RequestNext, RequestFits, PTL DEF HelperSpec

=============================================================================
