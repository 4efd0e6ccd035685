--------------------------- MODULE SessionRunner ---------------------------
(***************************************************************************)
(* The session runner of pkg/ares/phase: the map of session trackers, and  *)
(* the goroutines that call BeginSession, HandleMessage, AdvanceToState    *)
(* and EndSession on it.  Every client connection has a goroutine of its   *)
(* own (the hub's readPump) and the admin handlers have theirs, so calls   *)
(* on one session overlap; only the map and the tracker's fields are       *)
(* written under the runner's lock, and tracker.current is read without.   *)
(*                                                                         *)
(* Inline phases are numbered in pipeline order, and a phase's number also *)
(* stands for its entry state: Compose has checked that the entry states   *)
(* are distinct and that phase k exits to the entry state of phase k+1.    *)
(* tracker.state and tracker.current are written together under the lock,  *)
(* so one variable, current, stands for both.                              *)
(***************************************************************************)
EXTENDS Integers, FiniteSets

CONSTANTS
  Sessions,        \* session ids, the keys of the runner's map
  Threads,         \* goroutines calling into the runner
  Senders,         \* pseudonyms that messages come from
  MsgTypes,        \* WebSocket message types
  N,               \* number of inline phases
  TerminalExits,   \* what the last inline phase may have as ExitState
  Consumes,        \* Consumes[p]: ConsumedMessageTypes of phase p
  Need,            \* Need[p]: distinct senders CheckComplete of p waits for
  InternalStates,  \* InternalStates[p]: sub-states of phase p
  Targets,         \* states AdvanceToState is called with
  EnterFails,      \* phases whose Enter may return an error
  ExitFails,       \* phases whose Exit (or lineage commit) may return one
  MsgFails,        \* phases whose OnMessage may return one
  HopCap,          \* len(r.phases)+1, non-inline phases included
  MaxTrackers      \* bound: BeginSession creates at most this many trackers

Phases == 1 .. N
Trackers == 1 .. MaxTrackers

\* StateNone, and the nil phase, session and tracker.
StateNone == 0
NoTracker == 0
NoSession == "nosession"
NoArg == <<>>

ASSUME PipelineAssumption ==
  /\ N \in Nat \ {0}
  /\ TerminalExits \subseteq 0 .. N + 1
  /\ HopCap \in Nat /\ HopCap > N
  /\ MaxTrackers \in Nat
  /\ NoSession \notin Sessions

ASSUME PhaseAssumption ==
  /\ Consumes \in [Phases -> SUBSET MsgTypes]
  /\ Need \in [Phases -> Nat]
  /\ InternalStates \in [Phases -> SUBSET Nat]
  /\ Targets \subseteq Nat

VARIABLES
  terminal,   \* ExitState of the last phase, fixed by Compose
  sessions,   \* r.sessions: session id -> tracker
  used,       \* number of trackers ever created
  owner,      \* tracker -> the id its context was created with
  current,    \* tracker.current and tracker.state
  entered,    \* tracker.entered
  bucket,     \* tracker -> phase -> senders accumulated in its context
  exits,      \* tracker -> phase -> calls of Exit (0, 1 or "2 and more")
  exited,     \* tracker -> phases whose Exit has returned without error
  crashed,    \* a nil phase was dereferenced and the process is gone
  pc,         \* goroutine -> next step of its call
  sid,        \* goroutine -> sessionID argument
  tk,         \* goroutine -> local tracker
  cu,         \* goroutine -> local current (or nextPhase)
  hop,        \* goroutine -> loop counter
  arg         \* goroutine -> message, or target of AdvanceToState

trackerVars == <<owner, current, entered, bucket, exits, exited>>
frameVars == <<pc, sid, tk, cu, hop, arg>>
vars == <<terminal, sessions, used, trackerVars, crashed, frameVars>>

Steps == {"idle", "bsEnter", "bsFail", "bsEntered",
          "hmRead", "hmMsg", "hmCheck",
          "advRead", "advExit", "advMove", "advEnter", "advEntered",
          "walkState", "walkSub", "walkIntern", "walkLoop", "walkRead",
          "walkExit", "walkMove", "walkEnter", "walkEntered"}

\* Steps at which the local current (or nextPhase) is a phase.
HoldsPhase == {"hmMsg", "hmCheck",
               "advRead", "advExit", "advMove", "advEnter", "advEntered",
               "walkExit", "walkMove", "walkEnter", "walkEntered"}

-----------------------------------------------------------------------------
(* The phases as the runner sees them.                                     *)

ExitState(p) == IF p < N THEN p + 1 ELSE terminal

\* byEntryState has an entry for s.
Claimed(s) == s \in Phases

\* QuorumReached over the accumulated senders; Need 0 is a phase that is
\* complete as soon as it is asked.
CheckComplete(t, p) == Cardinality(bucket[t][p]) >= Need[p]

\* Histories count to two: once, and more than once.
Bump(n) == IF n < 2 THEN n + 1 ELSE n

Init ==
  /\ terminal \in TerminalExits
  /\ sessions = [s \in Sessions |-> NoTracker]
  /\ used = 0
  /\ owner = [t \in Trackers |-> NoSession]
  /\ current = [t \in Trackers |-> StateNone]
  /\ entered = [t \in Trackers |-> FALSE]
  /\ bucket = [t \in Trackers |-> [p \in Phases |-> {}]]
  /\ exits = [t \in Trackers |-> [p \in Phases |-> 0]]
  /\ exited = [t \in Trackers |-> {}]
  /\ crashed = FALSE
  /\ pc = [th \in Threads |-> "idle"]
  /\ sid = [th \in Threads |-> NoSession]
  /\ tk = [th \in Threads |-> NoTracker]
  /\ cu = [th \in Threads |-> StateNone]
  /\ hop = [th \in Threads |-> 0]
  /\ arg = [th \in Threads |-> NoArg]

-----------------------------------------------------------------------------
(* Control of one goroutine.                                               *)

\* The goroutine is at step and the process is alive.
At(th, step) == pc[th] = step /\ ~crashed /\ UNCHANGED terminal

\* The call returns, with or without an error: its locals are gone.
Return(th) ==
  /\ pc' = [pc EXCEPT ![th] = "idle"]
  /\ sid' = [sid EXCEPT ![th] = NoSession]
  /\ tk' = [tk EXCEPT ![th] = NoTracker]
  /\ cu' = [cu EXCEPT ![th] = StateNone]
  /\ hop' = [hop EXCEPT ![th] = 0]
  /\ arg' = [arg EXCEPT ![th] = NoArg]

Goto(th, step) ==
  /\ pc' = [pc EXCEPT ![th] = step]
  /\ UNCHANGED <<sid, tk, hop, arg>>

\* A call to s that has looked up tracker t continues at step.
Enters(th, s, t, step, a) ==
  /\ pc' = [pc EXCEPT ![th] = step]
  /\ sid' = [sid EXCEPT ![th] = s]
  /\ tk' = [tk EXCEPT ![th] = t]
  /\ arg' = [arg EXCEPT ![th] = a]
  /\ UNCHANGED <<cu, hop>>

\* A method call on a nil Phase panics; nothing recovers it in the
\* goroutine, so the process dies.
Panic ==
  /\ crashed' = TRUE
  /\ UNCHANGED <<sessions, used, trackerVars, frameVars>>

-----------------------------------------------------------------------------
(* BeginSession                                                            *)

\* Slip: trackers are pooled, and one that is used again keeps its context.
BeginSession_Pooled(th, s) ==
  /\ At(th, "idle")
  /\ sessions[s] = NoTracker
  /\ used < MaxTrackers
  /\ used' = used + 1
  /\ sessions' = [sessions EXCEPT ![s] = used + 1]
  /\ current' = [current EXCEPT ![used + 1] = 1]
  /\ Enters(th, s, used + 1, "bsEnter", NoArg)
  /\ UNCHANGED <<owner, entered, bucket, exits, exited, crashed>>

\* Slip: the test for an active session is missing.
BeginSession_Replaces(th, s) ==
  /\ At(th, "idle")
  /\ used < MaxTrackers
  /\ used' = used + 1
  /\ sessions' = [sessions EXCEPT ![s] = used + 1]
  /\ owner' = [owner EXCEPT ![used + 1] = s]
  /\ current' = [current EXCEPT ![used + 1] = 1]
  /\ Enters(th, s, used + 1, "bsEnter", NoArg)
  /\ UNCHANGED <<entered, bucket, exits, exited, crashed>>

\* Under the lock: refuse an id that is tracked, else create a tracker on
\* the first phase and publish it in the map before Enter has run.
BeginSession(th, s) ==
  /\ At(th, "idle")
  /\ \/ /\ sessions[s] # NoTracker
        /\ UNCHANGED <<sessions, used, trackerVars, crashed, frameVars>>
     \/ /\ sessions[s] = NoTracker
        /\ used < MaxTrackers
        /\ used' = used + 1
        /\ sessions' = [sessions EXCEPT ![s] = used + 1]
        /\ owner' = [owner EXCEPT ![used + 1] = s]
        /\ current' = [current EXCEPT ![used + 1] = 1]
        /\ Enters(th, s, used + 1, "bsEnter", NoArg)
        /\ UNCHANGED <<entered, bucket, exits, exited, crashed>>

\* first.Enter(ctx), outside the lock.
BeginEnter(th) ==
  /\ At(th, "bsEnter")
  /\ \/ Goto(th, "bsEntered")
     \/ 1 \in EnterFails /\ Goto(th, "bsFail")
  /\ UNCHANGED <<sessions, used, trackerVars, crashed, cu>>

\* Enter failed: whatever tracker the id has now is deleted.
BeginFail(th) ==
  /\ At(th, "bsFail")
  /\ sessions' = [sessions EXCEPT ![sid[th]] = NoTracker]
  /\ Return(th)
  /\ UNCHANGED <<used, trackerVars, crashed>>

BeginEntered(th) ==
  /\ At(th, "bsEntered")
  /\ entered' = [entered EXCEPT ![tk[th]] = TRUE]
  /\ Return(th)
  /\ UNCHANGED <<sessions, used, owner, current, bucket, exits, exited, crashed>>

-----------------------------------------------------------------------------
(* HandleMessage                                                           *)

\* The lookup, under the read lock.
HandleMessage(th, s, m, from) ==
  /\ At(th, "idle")
  /\ \/ sessions[s] = NoTracker /\ UNCHANGED frameVars
     \/ /\ sessions[s] # NoTracker
        /\ Enters(th, s, sessions[s], "hmRead", [type |-> m, from |-> from])
  /\ UNCHANGED <<sessions, used, trackerVars, crashed>>

\* current := tracker.current without the lock, then phaseConsumes on it.
HandleRead(th) ==
  /\ At(th, "hmRead")
  /\ LET p == current[tk[th]] IN
     \/ p = StateNone /\ Panic
     \/ /\ p # StateNone
        /\ arg[th].type \notin Consumes[p]
        /\ Return(th)
        /\ UNCHANGED <<sessions, used, trackerVars, crashed>>
     \/ /\ p # StateNone
        /\ arg[th].type \in Consumes[p]
        /\ cu' = [cu EXCEPT ![th] = p]
        /\ Goto(th, "hmMsg")
        /\ UNCHANGED <<sessions, used, trackerVars, crashed>>

\* current.OnMessage: the sender's payload is accumulated in the context of
\* the local tracker, in the bucket of the phase that was read.
HandleOnMessage(th) ==
  /\ At(th, "hmMsg")
  /\ \/ /\ cu[th] \in MsgFails
        /\ Return(th)
        /\ UNCHANGED bucket
     \/ /\ bucket' = [bucket EXCEPT ![tk[th]][cu[th]] = @ \cup {arg[th].from}]
        /\ Goto(th, "hmCheck")
        /\ UNCHANGED cu
  /\ UNCHANGED <<sessions, used, owner, current, entered, exits, exited, crashed>>

\* Slip: the quorum test is > where it should be >=.
HandleCheck_OffByOne(th) ==
  /\ At(th, "hmCheck")
  /\ \/ /\ Cardinality(bucket[tk[th]][cu[th]]) > Need[cu[th]]
        /\ Goto(th, "advRead")
        /\ UNCHANGED cu
     \/ /\ Cardinality(bucket[tk[th]][cu[th]]) <= Need[cu[th]]
        /\ Return(th)
  /\ UNCHANGED <<sessions, used, trackerVars, crashed>>

HandleCheck(th) ==
  /\ At(th, "hmCheck")
  /\ \/ /\ CheckComplete(tk[th], cu[th])
        /\ Goto(th, "advRead")
        /\ UNCHANGED cu
     \/ /\ ~CheckComplete(tk[th], cu[th])
        /\ Return(th)
  /\ UNCHANGED <<sessions, used, trackerVars, crashed>>

-----------------------------------------------------------------------------
(* The three effects advance and AdvanceToState share.                     *)

\* current.Exit and the lineage commit of its outputs; continues at step.
RunExit(th, step) ==
  /\ exits' = [exits EXCEPT ![tk[th]][cu[th]] = Bump(@)]
  /\ \/ /\ cu[th] \in ExitFails
        /\ Return(th)
        /\ UNCHANGED exited
     \/ /\ exited' = [exited EXCEPT ![tk[th]] = @ \cup {cu[th]}]
        /\ Goto(th, step)
        /\ UNCHANGED cu
  /\ UNCHANGED <<sessions, used, owner, current, entered, bucket, crashed>>

\* Slip: tracker.current is read again for ExitState after Exit has run.
MoveOn_Reread(th, step) ==
  LET next == ExitState(current[tk[th]]) IN
  /\ Claimed(next)
  /\ current' = [current EXCEPT ![tk[th]] = next]
  /\ entered' = [entered EXCEPT ![tk[th]] = FALSE]
  /\ cu' = [cu EXCEPT ![th] = next]
  /\ Goto(th, step)
  /\ UNCHANGED <<sessions, used, owner, bucket, exits, exited, crashed>>

\* Slip: tracker.state is written and tracker.current is forgotten.
MoveOn_Forgets(th, step) ==
  LET next == ExitState(cu[th]) IN
  /\ Claimed(next)
  /\ entered' = [entered EXCEPT ![tk[th]] = FALSE]
  /\ cu' = [cu EXCEPT ![th] = next]
  /\ Goto(th, step)
  /\ UNCHANGED <<sessions, used, owner, current, bucket, exits, exited, crashed>>

\* Under the lock: the tracker moves to the phase claiming ExitState.
MoveOn(th, step) ==
  LET next == ExitState(cu[th]) IN
  /\ Claimed(next)
  /\ current' = [current EXCEPT ![tk[th]] = next]
  /\ entered' = [entered EXCEPT ![tk[th]] = FALSE]
  /\ cu' = [cu EXCEPT ![th] = next]
  /\ Goto(th, step)
  /\ UNCHANGED <<sessions, used, owner, bucket, exits, exited, crashed>>

\* No phase claims ExitState: the call fails and the tracker stays.
Unclaimed(th) ==
  LET next == ExitState(cu[th]) IN
  /\ next # StateNone
  /\ ~Claimed(next)
  /\ Return(th)
  /\ UNCHANGED <<sessions, used, trackerVars, crashed>>

\* nextPhase.Enter; on error the call returns and the tracker stays on the
\* phase that was not entered.
RunEnter(th, step) ==
  /\ \/ /\ cu[th] \in EnterFails
        /\ Return(th)
     \/ Goto(th, step) /\ UNCHANGED cu
  /\ UNCHANGED <<sessions, used, trackerVars, crashed>>

-----------------------------------------------------------------------------
(* advance                                                                 *)

\* current := tracker.current at the head of the loop, without the lock.
AdvRead(th) ==
  /\ At(th, "advRead")
  /\ \/ current[tk[th]] = StateNone /\ Panic
     \/ /\ current[tk[th]] # StateNone
        /\ cu' = [cu EXCEPT ![th] = current[tk[th]]]
        /\ Goto(th, "advExit")
        /\ UNCHANGED <<sessions, used, trackerVars, crashed>>

AdvExit(th) == At(th, "advExit") /\ RunExit(th, "advMove")

\* Slip: a finished session starts over instead of resting.
AdvFinish_Restarts(th) ==
  /\ At(th, "advMove")
  /\ ExitState(cu[th]) = StateNone
  /\ current' = [current EXCEPT ![tk[th]] = 1]
  /\ Return(th)
  /\ UNCHANGED <<sessions, used, owner, entered, bucket, exits, exited, crashed>>

\* Terminal phase: the tracker loses its phase and stays in the map.
AdvFinish(th) ==
  /\ At(th, "advMove")
  /\ ExitState(cu[th]) = StateNone
  /\ current' = [current EXCEPT ![tk[th]] = StateNone]
  /\ Return(th)
  /\ UNCHANGED <<sessions, used, owner, entered, bucket, exits, exited, crashed>>

AdvMove(th) ==
  /\ At(th, "advMove")
  /\ MoveOn(th, "advEnter") \/ Unclaimed(th)

AdvEnter(th) == At(th, "advEnter") /\ RunEnter(th, "advEntered")

\* Slip: the loop counter is not incremented.
AdvEntered_NoCount(th) ==
  /\ At(th, "advEntered")
  /\ entered' = [entered EXCEPT ![tk[th]] = TRUE]
  /\ LET stop == Consumes[cu[th]] # {} \/ ~CheckComplete(tk[th], cu[th]) IN
     \/ stop /\ Return(th)
     \/ /\ ~stop
        /\ Goto(th, "advRead")
        /\ UNCHANGED cu
  /\ UNCHANGED <<sessions, used, owner, current, bucket, exits, exited, crashed>>

\* Slip: one transition per message, no cascade.
AdvEntered_NoCascade(th) ==
  /\ At(th, "advEntered")
  /\ entered' = [entered EXCEPT ![tk[th]] = TRUE]
  /\ Return(th)
  /\ UNCHANGED <<sessions, used, owner, current, bucket, exits, exited, crashed>>

\* entered = true, then the cascade: a phase that consumes no messages and
\* is complete is walked past on the same call, up to the hop limit.
AdvEntered(th) ==
  /\ At(th, "advEntered")
  /\ entered' = [entered EXCEPT ![tk[th]] = TRUE]
  /\ LET stop == Consumes[cu[th]] # {} \/ ~CheckComplete(tk[th], cu[th]) IN
     \/ /\ stop \/ hop[th] + 1 >= HopCap
        /\ Return(th)
     \/ /\ ~stop
        /\ hop[th] + 1 < HopCap
        /\ pc' = [pc EXCEPT ![th] = "advRead"]
        /\ hop' = [hop EXCEPT ![th] = @ + 1]
        /\ UNCHANGED <<sid, tk, cu, arg>>
  /\ UNCHANGED <<sessions, used, owner, current, bucket, exits, exited, crashed>>

-----------------------------------------------------------------------------
(* AdvanceToState                                                          *)

AdvanceToState(th, s, target) ==
  /\ At(th, "idle")
  /\ \/ sessions[s] = NoTracker /\ UNCHANGED frameVars
     \/ /\ sessions[s] # NoTracker
        /\ Enters(th, s, sessions[s], "walkState", target)
  /\ UNCHANGED <<sessions, used, trackerVars, crashed>>

\* tracker.state == target, at the top and at the head of each hop.
WalkState(th) ==
  /\ At(th, "walkState") \/ At(th, "walkLoop")
  /\ \/ /\ current[tk[th]] = arg[th]
        /\ Return(th)
     \/ /\ current[tk[th]] # arg[th]
        /\ Goto(th, IF pc[th] = "walkState" THEN "walkSub" ELSE "walkRead")
        /\ UNCHANGED cu
  /\ UNCHANGED <<sessions, used, trackerVars, crashed>>

\* The target may be a sub-state of the phase the session is in; current is
\* read once for the nil test and once more for the call.
WalkSub(th) ==
  /\ At(th, "walkSub")
  /\ Goto(th, IF current[tk[th]] = StateNone THEN "walkLoop" ELSE "walkIntern")
  /\ UNCHANGED <<sessions, used, trackerVars, crashed, cu>>

WalkIntern(th) ==
  /\ At(th, "walkIntern")
  /\ LET p == current[tk[th]] IN
     \/ p = StateNone /\ Panic
     \/ /\ p # StateNone
        /\ \/ arg[th] \in InternalStates[p] /\ Return(th)
           \/ /\ arg[th] \notin InternalStates[p]
              /\ Goto(th, "walkLoop")
              /\ UNCHANGED cu
        /\ UNCHANGED <<sessions, used, trackerVars, crashed>>

WalkRead(th) ==
  /\ At(th, "walkRead")
  /\ \/ /\ current[tk[th]] = StateNone
        /\ Return(th)
     \/ /\ current[tk[th]] # StateNone
        /\ cu' = [cu EXCEPT ![th] = current[tk[th]]]
        /\ Goto(th, "walkExit")
  /\ UNCHANGED <<sessions, used, trackerVars, crashed>>

WalkExit(th) == At(th, "walkExit") /\ RunExit(th, "walkMove")

\* Past the terminal phase the walk fails, its Exit done, the tracker kept.
WalkMove(th) ==
  /\ At(th, "walkMove")
  /\ \/ MoveOn(th, "walkEnter")
     \/ Unclaimed(th)
     \/ /\ ExitState(cu[th]) = StateNone
        /\ Return(th)
        /\ UNCHANGED <<sessions, used, trackerVars, crashed>>

WalkEnter(th) == At(th, "walkEnter") /\ RunEnter(th, "walkEntered")

\* Slip: the loop runs one hop too many.
WalkEntered_OffByOne(th) ==
  /\ At(th, "walkEntered")
  /\ entered' = [entered EXCEPT ![tk[th]] = TRUE]
  /\ \/ hop[th] >= HopCap /\ Return(th)
     \/ /\ hop[th] < HopCap
        /\ pc' = [pc EXCEPT ![th] = "walkLoop"]
        /\ hop' = [hop EXCEPT ![th] = @ + 1]
        /\ UNCHANGED <<sid, tk, cu, arg>>
  /\ UNCHANGED <<sessions, used, owner, current, bucket, exits, exited, crashed>>

WalkEntered(th) ==
  /\ At(th, "walkEntered")
  /\ entered' = [entered EXCEPT ![tk[th]] = TRUE]
  /\ \/ /\ hop[th] + 1 >= HopCap
        /\ Return(th)
     \/ /\ hop[th] + 1 < HopCap
        /\ pc' = [pc EXCEPT ![th] = "walkLoop"]
        /\ hop' = [hop EXCEPT ![th] = @ + 1]
        /\ UNCHANGED <<sid, tk, cu, arg>>
  /\ UNCHANGED <<sessions, used, owner, current, bucket, exits, exited, crashed>>

-----------------------------------------------------------------------------

EndSession(th, s) ==
  /\ At(th, "idle")
  /\ sessions' = [sessions EXCEPT ![s] = NoTracker]
  /\ UNCHANGED <<used, trackerVars, crashed, frameVars>>

Call(th, s) ==
  \/ BeginSession(th, s)
  \/ \E m \in MsgTypes, from \in Senders : HandleMessage(th, s, m, from)
  \/ \E target \in Targets : AdvanceToState(th, s, target)
  \/ EndSession(th, s)

Step(th) ==
  \/ BeginEnter(th) \/ BeginFail(th) \/ BeginEntered(th)
  \/ HandleRead(th) \/ HandleOnMessage(th) \/ HandleCheck(th)
  \/ AdvRead(th) \/ AdvExit(th) \/ AdvMove(th) \/ AdvFinish(th)
  \/ AdvEnter(th) \/ AdvEntered(th)
  \/ WalkState(th) \/ WalkSub(th) \/ WalkIntern(th) \/ WalkRead(th)
  \/ WalkExit(th) \/ WalkMove(th) \/ WalkEnter(th) \/ WalkEntered(th)

Next ==
  \E th \in Threads : (\E s \in Sessions : Call(th, s)) \/ Step(th)

\* A goroutine inside a call keeps running: the scheduler is fair and the
\* phase callbacks are taken to return.  No call has to be made.
Fairness == \A th \in Threads : WF_vars(Step(th))

Spec == Init /\ [][Next]_vars /\ Fairness

\* The calling discipline context.go:21-25 relies on ("the runner itself
\* drives one phase at a time for a given session"): no call on a session
\* starts while another is in progress on it.
Free(s) == \A th \in Threads : sid[th] # s

SerialNext ==
  \E th \in Threads :
        (\E s \in Sessions : Free(s) /\ Call(th, s)) \/ Step(th)

SerialSpec == Init /\ [][SerialNext]_vars /\ Fairness

-----------------------------------------------------------------------------
(* Properties of the runner however its callers overlap.                   *)

RunnerTypeOK ==
  /\ terminal \in TerminalExits
  /\ used \in 0 .. MaxTrackers
  /\ sessions \in [Sessions -> 0 .. used]
  /\ crashed \in BOOLEAN

TrackerTypeOK ==
  /\ owner \in [Trackers -> Sessions \cup {NoSession}]
  /\ current \in [Trackers -> 0 .. N]
  /\ entered \in [Trackers -> BOOLEAN]
  /\ bucket \in [Trackers -> [Phases -> SUBSET Senders]]
  /\ exits \in [Trackers -> [Phases -> 0 .. 2]]
  /\ exited \in [Trackers -> SUBSET Phases]

FrameTypeOK ==
  /\ pc \in [Threads -> Steps]
  /\ sid \in [Threads -> Sessions \cup {NoSession}]
  /\ tk \in [Threads -> 0 .. used]
  /\ cu \in [Threads -> 0 .. N]
  /\ hop \in [Threads -> 0 .. HopCap - 1]
  /\ DOMAIN arg = Threads

\* The locals a step of a call uses are set when it is reached.
LocalsSet(th) ==
  /\ pc[th] # "idle" => sid[th] \in Sessions /\ tk[th] # NoTracker
  /\ pc[th] = "idle" => cu[th] = StateNone
  /\ pc[th] \in {"hmRead", "hmMsg"} =>
       arg[th] \in [type : MsgTypes, from : Senders]
  /\ pc[th] \in HoldsPhase => cu[th] # StateNone

\* The variables have their types, the locals of every call are set before
\* they are used, and neither loop counts beyond the hop limit.
TypeOK ==
  /\ RunnerTypeOK
  /\ TrackerTypeOK
  /\ FrameTypeOK
  /\ \A th \in Threads : LocalsSet(th)

\* No phase is reached around its predecessors: the phase a tracker is on,
\* and the phase a call is about to run a callback of, has had the Exit of
\* every earlier phase return without error on that same tracker, whatever
\* stale phases overlapping HandleMessage and AdvanceToState calls hold.
PredecessorsExited ==
  /\ \A t \in Trackers : \A q \in Phases : q < current[t] => q \in exited[t]
  /\ \A th \in Threads : \A q \in Phases :
       q < cu[th] => q \in exited[tk[th]]

\* A call that is about to leave a phase has seen its Exit succeed.
LeavesExited ==
  \A th \in Threads :
     pc[th] \in {"advMove", "walkMove"} => cu[th] \in exited[tk[th]]

\* A call works on a context of the session it names, and the map holds a
\* tracker under the id it was created for only: a message in flight while
\* its session is ended and begun again under the same id never lands in
\* another session's context.
SessionsIsolated ==
  /\ \A s \in Sessions : sessions[s] # NoTracker => owner[sessions[s]] = s
  /\ \A th \in Threads : pc[th] # "idle" => owner[tk[th]] = sid[th]

\* BeginSession never replaces a tracked session, and a tracker that EndSession
\* or a failed Enter removed never comes back into the map.
TrackersNeverReturn ==
  [][\A s \in Sessions : sessions'[s] # sessions[s] =>
        \/ sessions'[s] = NoTracker
        \/ sessions[s] = NoTracker /\ sessions'[s] > used]_vars

\* Every call returns, unless a nil phase has brought the process down: the
\* hop limit bounds both loops even when the last phase exits to an earlier
\* one and all phases of the cycle are complete.
EveryCallReturns ==
  \A th \in Threads : pc[th] # "idle" ~> (pc[th] = "idle" \/ crashed)

-----------------------------------------------------------------------------
(* Properties that need one call at a time per session.                    *)

\* Exit runs at most once per phase of a session, retries of a failing Exit
\* aside.  The last phase is left out: an AdvanceToState whose target lies
\* behind runs its Exit and leaves the session on it (runner.go:533-538).
ExitOnceSerial ==
  \A t \in Trackers, p \in Phases \ ExitFails :
     p < N => exits[t][p] <= 1

\* The message that completes a quorum moves the session: no session rests,
\* with no call in progress, on a phase whose quorum is complete, unless the
\* phase's Exit has failed.
QuorumNeverStrands ==
  \A s \in Sessions : \A p \in Phases \ ExitFails :
     /\ sessions[s] # NoTracker
     /\ Free(s)
     /\ current[sessions[s]] = p
     /\ Need[p] > 0
     => ~CheckComplete(sessions[s], p)

\* The cascade walks past every phase that consumes nothing and is complete:
\* a transition ends where a message can be consumed or work is outstanding.
CascadeReachesInput ==
  [][\A th \in Threads : pc[th] = "advEntered" /\ pc'[th] = "idle" =>
        LET p == current[tk[th]] IN
        Consumes[p] # {} \/ ~CheckComplete(tk[th], p)]_vars

\* What the runner promises of each session, and how it keeps it: the phase
\* the map shows for an id moves along the pipeline one phase at a time.
Pipe == INSTANCE Pipeline WITH
  pos <- [s \in Sessions |->
            IF sessions[s] = NoTracker THEN -1 ELSE current[sessions[s]]]
PipelineRefined == Pipe!Spec

-----------------------------------------------------------------------------
(* What the comments of the code say and the runner does not keep.         *)

\* service.go:255-259 calls a message that arrives after its phase completed
\* a benign no-op: it never stops the process.
LateMessageBenign == ~crashed

\* accumulator.go:11-12: accumulation is "Safe for concurrent use across
\* messages from different participants in the same session".  Exit iterates
\* over the bucket of its phase after the lock of the context is released
\* (AccumulatedMessages), so no other goroutine may be storing into that
\* bucket: Go ends the process on a map written during an iteration.
BucketsRaceFree ==
  \A th, other \in Threads :
     /\ th # other
     /\ pc[th] \in {"advExit", "walkExit"}
     /\ pc[other] = "hmMsg"
     => tk[th] # tk[other] \/ cu[th] # cu[other]

=============================================================================
