------------------------------- MODULE Helper -------------------------------
(***************************************************************************)
(* The helper process and its client: goroutines share one                 *)
(* helperclient.Client, whose mutex is held over a whole round trip; the   *)
(* daemon reads a request, runs its bridge function step by step (module   *)
(* Bridge) and writes one envelope.  Requests carry no number, so it is    *)
(* the mutex alone that pairs an answer with its question.  The process    *)
(* may be killed at any time (CommandContext), or end in a panic.          *)
(***************************************************************************)
EXTENDS Bridge, HelperOps

CONSTANTS Users,       \* goroutines that share the client
          Chainer,     \* the one that may run a key ceremony
          Daemon       \* the daemon, as a caller of the bridge

(* "nobody" stands for the mutex being free. *)
ASSUME HelperBounds == Chainer \in Users /\ Daemon \in Callers /\ "nobody" \notin Users

Client == INSTANCE HelperClient

VARIABLES user,        \* per goroutine: where it is, what it asks, what it got
          mu,          \* the goroutine that holds the client's mutex
          done,        \* the client is closed
          stdin,       \* requests on their way to the daemon
          stdout,      \* envelopes on their way back
          eof,         \* the client has closed stdin
          proc,        \* "up" or "gone"
          chain        \* the key ceremony: its links and the answers so far

clientVars == <<user, mu, done, chain>>
helperVars == <<user, mu, done, chain, stdin, stdout, eof, proc, vars>>

NoChain == [links |-> << >>, got |-> << >>]
AtRest  == [at |-> "idle", ask |-> << >>, got |-> << >>]

HelperInit ==
  /\ Init
  /\ user = [u \in Users |-> AtRest]
  /\ mu = "nobody" /\ done = FALSE
  /\ stdin = << >> /\ stdout = << >> /\ eof = FALSE /\ proc = "up"
  /\ chain = NoChain

InChain(u) == u = Chainer /\ chain.links # << >>
NextLink   == chain.links[Len(chain.got) + 1]

(* A goroutine starts a call, a ceremony of Parties slots, or Close. *)
Ask(u) ==
  /\ user[u].at = "idle"
  /\ \/ ~InChain(u) /\ user' = [user EXCEPT ![u] = [AtRest EXCEPT !.at = "call"]] /\ UNCHANGED chain
     \/ ~InChain(u) /\ user' = [user EXCEPT ![u] = [AtRest EXCEPT !.at = "close"]] /\ UNCHANGED chain
     \/ /\ u = Chainer /\ chain = NoChain
        /\ \E c \in {Client!KeygenChain(Parties), Client!BFVKeygenChain(Parties)} :
              chain' = [NoChain EXCEPT !.links = c]
        /\ user' = [user EXCEPT ![u] = [AtRest EXCEPT !.at = "call"]]
  /\ UNCHANGED <<mu, done, stdin, stdout, eof, proc, vars>>

(* Bound: the others only ask for the version or a sum, and only for the   *)
(* version beside a ceremony.                                              *)
Asked(u) == IF u = Chainer THEN Client!Methods
            ELSE {m \in Client!Methods : m.op \in {"version"} \cup IF chain = NoChain THEN {"eval_add"} ELSE {}}
Questions(u) ==
  IF InChain(u) THEN {[method |-> NextLink.method, empty |-> "nothing"]}
  ELSE UNION {{[method |-> m, empty |-> f] : f \in m.fields \cup {"nothing"}} : m \in Asked(u)}

Unlocked(u) == TRUE
Locked(u) == mu = "nobody"

Stay(u, at) == user' = [user EXCEPT ![u].at = at]

(* call, up to Encode: the mutex, the check, the request. *)
Encode(u) ==
  /\ user[u].at = "call" /\ Locked(u)
  /\ IF done \/ proc = "gone" THEN Stay(u, "returned") /\ UNCHANGED <<mu, stdin>>
     ELSE /\ \E q \in Questions(u) : /\ user' = [user EXCEPT ![u].at = "decode", ![u].ask = <<q>>]
                                     /\ stdin' = Append(stdin, q)
          /\ mu' = u
  /\ UNCHANGED <<done, stdout, eof, proc, chain, vars>>

DecodeKeepsMutex(u) ==
  /\ user[u].at = "decode"
  /\ IF stdout # << >>
     THEN /\ user' = [user EXCEPT ![u].at = "returned", ![u].got = <<Head(stdout)>>]
          /\ stdout' = Tail(stdout) /\ mu' = "nobody"
     ELSE proc = "gone" /\ Stay(u, "returned") /\ UNCHANGED <<stdout, mu>>
  /\ UNCHANGED <<done, stdin, eof, proc, chain, vars>>

(* call, from Decode on: the next envelope, or the end of the stream. *)
Decode(u) ==
  /\ user[u].at = "decode"
  /\ IF stdout # << >>
     THEN user' = [user EXCEPT ![u].at = "returned", ![u].got = <<Head(stdout)>>] /\ stdout' = Tail(stdout)
     ELSE proc = "gone" /\ Stay(u, "returned") /\ UNCHANGED stdout
  /\ mu' = "nobody"
  /\ UNCHANGED <<done, stdin, eof, proc, chain, vars>>

Answered(u) == user[u].got # << >> /\ user[u].got[1].ok

(* The call returns; a ceremony goes on with its next link, ends with the  *)
(* first error, or returns its bundle.                                     *)
Back(u) ==
  /\ user[u].at = "returned"
  /\ user' = [user EXCEPT ![u] = IF InChain(u) /\ Answered(u) /\ Len(chain.got) + 1 < Len(chain.links)
                                 THEN [AtRest EXCEPT !.at = "call"] ELSE AtRest]
  /\ chain' = IF ~InChain(u) THEN chain
              ELSE IF Answered(u) /\ Len(chain.got) + 1 < Len(chain.links)
              THEN [chain EXCEPT !.got = Append(@, Client!Answer(@, Parties))] ELSE NoChain
  /\ UNCHANGED <<mu, done, stdin, stdout, eof, proc, vars>>

(* Close: the first closes stdin and waits for the process; a later one    *)
(* returns at once.                                                        *)
CloseClient(u) ==
  /\ user[u].at = "close" /\ Locked(u)
  /\ done' = TRUE /\ eof' = TRUE
  /\ Stay(u, IF done THEN "idle" ELSE "wait")
  /\ UNCHANGED <<mu, stdin, stdout, proc, chain, vars>>

Wait(u) ==
  /\ user[u].at = "wait" /\ proc = "gone" /\ Stay(u, "idle")
  /\ UNCHANGED <<mu, done, stdin, stdout, eof, proc, chain, vars>>

(***************************************************************************)
(* The daemon.                                                             *)
(***************************************************************************)
Serving == call[Daemon].status # "idle"
Envelope(q, ok) == [to |-> q, ok |-> ok]

(* decodeB64 of every required field. *)
Refused(q) == \/ q.method.op \notin DOMAIN run
              \/ ~(run[q.method.op].required \subseteq q.method.fields \ {q.empty})

(* The bridge argument that is empty: the field the caller left empty, or  *)
(* one its method does not fill in.                                        *)
EmptyArg(q) == LET arg == run[q.method.op].arg
                   absent == {arg[f] : f \in DOMAIN arg \ (q.method.fields \ {q.empty})}
               IN  IF absent = {} THEN "nothing" ELSE CHOOSE a \in absent : TRUE

(* runDaemon: the next request is refused, answered, or runs its function. *)
runDaemon ==
  /\ proc = "up" /\ ~Serving /\ stdin # << >>
  /\ LET q == Head(stdin) IN
     IF Refused(q) \/ q.method.op = "version"
     THEN stdout' = Append(stdout, Envelope(q, ~Refused(q))) /\ stdin' = Tail(stdin) /\ UNCHANGED call
     ELSE /\ call' = [call EXCEPT ![Daemon] = Entry(run[q.method.op].fn, EmptyArg(q), {})]
          /\ UNCHANGED <<stdin, stdout>>
  /\ UNCHANGED <<live, keyTable, eof, proc, clientVars>>

RunFunction == /\ proc = "up"
               /\ StepOf(Daemon)
               /\ UNCHANGED <<stdin, stdout, eof, proc, clientVars>>

(* The function has returned: its result or its error is one envelope. *)
Respond ==
  /\ proc = "up" /\ call[Daemon].status \in {"ok", "err"}
  /\ stdout' = Append(stdout, Envelope(Head(stdin), call[Daemon].status = "ok"))
  /\ stdin' = Tail(stdin)
  /\ call' = [call EXCEPT ![Daemon] = Idle]
  /\ UNCHANGED <<live, keyTable, eof, proc, clientVars>>

(* The process ends: at the end of stdin, in a panic, or killed.  What it  *)
(* wrote before can still be read.                                         *)
Exit ==
  /\ proc = "up" /\ proc' = "gone"
  /\ call' = [call EXCEPT ![Daemon] = Idle] /\ live' = [live EXCEPT ![Daemon] = {}] /\ keyTable' = {}
  /\ stdin' = << >>
  /\ UNCHANGED <<stdout, eof, clientVars>>

ExitAlone == ((~Serving /\ stdin = << >> /\ eof) \/ call[Daemon].status = "panic") /\ Exit
Killed    == Exit

UserStep(u) == Encode(u) \/ Decode(u) \/ Back(u) \/ CloseClient(u) \/ Wait(u)
DaemonStep  == runDaemon \/ RunFunction \/ Respond \/ ExitAlone

HelperNext == DaemonStep \/ Killed \/ \E u \in Users : Ask(u) \/ UserStep(u)

(* Native calls return, the daemon is scheduled, and sync.Mutex lets no    *)
(* waiting goroutine starve.                                               *)
HelperFairness == /\ WF_helperVars(DaemonStep)
                  /\ \A u \in Users : SF_helperVars(Encode(u) \/ CloseClient(u)) /\ WF_helperVars(UserStep(u))

HelperSpec == HelperInit /\ [][HelperNext]_helperVars /\ HelperFairness

(***************************************************************************)
(* Properties.                                                             *)
(***************************************************************************)
(* An answer reaches the goroutine that asked: what Decode returns is the  *)
(* envelope for the request the same call encoded, and no answer is left   *)
(* in the pipe for the next call to take.                                  *)
AnswerToOwnQuestion ==
  \A u \in Users : /\ user[u].got # << >> => user[u].got[1].to = user[u].ask[1]
                   /\ mu = "nobody" => stdout = << >> /\ stdin = << >>

(* Client and daemon agree on the protocol: a request with every argument  *)
(* filled in is known to the daemon, carries every field it requires and   *)
(* leaves no argument of the bridge function empty.                        *)
RequestsUnderstood ==
  \A i \in DOMAIN stdin : stdin[i].empty = "nothing" => ~Refused(stdin[i]) /\ EmptyArg(stdin[i]) = "nothing"

(* A key ceremony returns a bundle only when every slot took part: the     *)
(* public key joins all secrets, and the evaluation key is made of one     *)
(* final share per slot, exactly one of them the lead's, each over the     *)
(* fully joined key and the final public key, however other calls,         *)
(* failures and a Close come between its requests.                         *)
AllSlots == 1..Parties
BundleComplete ==
  (chain # NoChain /\ Len(chain.got) + 1 = Len(chain.links) /\ user[Chainer].at = "returned" /\ Answered(Chainer))
  => LET b == Client!EvalKeyBundle(Append(chain.got, Client!Answer(chain.got, Parties)), Parties)
     IN  /\ b.publicKey = AllSlots /\ b.evalSum = AllSlots
         /\ {s.sk : s \in b.evalKeys} = AllSlots
         /\ Cardinality({s \in b.evalKeys : s.lead}) = 1
         /\ \A s \in b.evalKeys : s.joined = AllSlots /\ s.pk = AllSlots

(* Every call and every Close returns, also when the process is killed in  *)
(* the middle of a round trip.                                             *)
CallsReturn == \A u \in Users : user[u].at \in {"call", "decode", "close", "wait"}
                                ~> user[u].at \in {"idle", "returned"}
=============================================================================
