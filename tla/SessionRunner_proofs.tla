------------------------ MODULE SessionRunner_proofs ------------------------
(***************************************************************************)
(* Proofs about the session runner, for any number of goroutines, sessions *)
(* and phases and however the calls overlap.                               *)
(***************************************************************************)
EXTENDS SessionRunner, TLAPS

\* The inductive invariant.  PredecessorsExited is not inductive alone: that
\* a move to the next phase is sound needs LeavesExited, and that a stale
\* local phase speaks of the right tracker needs the typing of the frames.
IInv ==
  /\ TypeOK
  /\ PredecessorsExited
  /\ LeavesExited
  /\ SessionsIsolated

-----------------------------------------------------------------------------
(* The invariant read one goroutine at a time.                             *)

FrameInv(th) ==
  /\ LocalsSet(th)
  /\ \A q \in Phases : q < cu[th] => q \in exited[tk[th]]
  /\ pc[th] \in {"advMove", "walkMove"} => cu[th] \in exited[tk[th]]
  /\ pc[th] # "idle" => owner[tk[th]] = sid[th]

TrackerInv ==
  /\ \A t \in Trackers : \A q \in Phases : q < current[t] => q \in exited[t]
  /\ \A s \in Sessions : sessions[s] # NoTracker => owner[sessions[s]] = s

\* What no step undoes: successful Exits stay recorded and a tracker that
\* exists keeps its session.
Monotone ==
  /\ used <= used'
  /\ \A t \in Trackers : exited[t] \subseteq exited'[t]
  /\ \A t \in 1 .. used : owner'[t] = owner[t]

\* The invariant is its typing, what it says of the trackers, and what it
\* says of each call in progress.
LEMMA IInvByFrames ==
  IInv <=> /\ RunnerTypeOK /\ TrackerTypeOK /\ FrameTypeOK /\ TrackerInv
           /\ \A th \in Threads : FrameInv(th)
  BY DEF IInv, TypeOK, PredecessorsExited, LeavesExited, SessionsIsolated,
         FrameInv, TrackerInv

\* A call whose locals a step leaves alone keeps its part of the invariant.
LEMMA OthersKept ==
  ASSUME RunnerTypeOK, TrackerTypeOK, FrameTypeOK,
         RunnerTypeOK', TrackerTypeOK',
         NEW o \in Threads, FrameInv(o), Monotone,
         pc'[o] = pc[o], sid'[o] = sid[o], tk'[o] = tk[o],
         cu'[o] = cu[o], arg'[o] = arg[o]
  PROVE  FrameInv(o)'
  <1> USE DEF NoTracker, StateNone
  <1>1. LocalsSet(o)'
    BY DEF FrameInv, LocalsSet
  <1>2. tk[o] \in 0 .. used /\ cu[o] \in 0 .. N /\ used \in 0 .. MaxTrackers
    BY DEF FrameTypeOK, RunnerTypeOK
  <1>3. CASE pc[o] = "idle"
    <2>1. cu[o] = 0
      BY <1>3 DEF FrameInv, LocalsSet
    <2> QED BY <1>1, <1>3, <2>1 DEF FrameInv, Phases
  <1>4. CASE pc[o] # "idle"
    <2>1. tk[o] \in 1 .. used /\ tk[o] \in Trackers
      BY <1>2, <1>4, PipelineAssumption DEF FrameInv, LocalsSet, Trackers
    <2> QED BY <1>1, <2>1 DEF FrameInv, Monotone
  <1> QED BY <1>3, <1>4

\* A call that returns, whatever it did to the trackers, leaves a frame that
\* satisfies the invariant.
LEMMA ReturnKeeps ==
  ASSUME RunnerTypeOK, TrackerTypeOK, FrameTypeOK,
         RunnerTypeOK', TrackerTypeOK',
         \A o \in Threads : FrameInv(o),
         NEW th \in Threads, Return(th), Monotone
  PROVE  FrameTypeOK' /\ \A o \in Threads : FrameInv(o)'
  <1> USE DEF NoTracker, StateNone
  <1>1. used \in Nat /\ used' \in Nat /\ used <= used' /\ N \in Nat /\ HopCap \in Nat \ {0}
    BY PipelineAssumption DEF Monotone, RunnerTypeOK
  <1>2. FrameTypeOK'
    <2>1. pc' \in [Threads -> Steps]
      BY DEF Return, FrameTypeOK, Steps
    <2>2. sid' \in [Threads -> Sessions \cup {NoSession}]
      BY DEF Return, FrameTypeOK
    <2>3. tk' \in [Threads -> 0 .. used']
      BY <1>1 DEF Return, FrameTypeOK
    <2>4. cu' \in [Threads -> 0 .. N]
      BY <1>1 DEF Return, FrameTypeOK
    <2>5. hop' \in [Threads -> 0 .. HopCap - 1]
      BY <1>1 DEF Return, FrameTypeOK
    <2>6. DOMAIN arg' = Threads
      BY DEF Return, FrameTypeOK
    <2> QED BY <2>1, <2>2, <2>3, <2>4, <2>5, <2>6 DEF FrameTypeOK
  <1>3. FrameInv(th)'
    <2>1. pc'[th] = "idle" /\ cu'[th] = 0
      BY DEF Return, FrameTypeOK
    <2> QED BY <2>1 DEF FrameInv, LocalsSet, HoldsPhase, Phases
  <1>4. ASSUME NEW o \in Threads, o # th PROVE FrameInv(o)'
    <2>1. /\ pc'[o] = pc[o] /\ sid'[o] = sid[o] /\ tk'[o] = tk[o]
          /\ cu'[o] = cu[o] /\ arg'[o] = arg[o]
      BY <1>4 DEF Return, FrameTypeOK
    <2> QED BY <2>1, OthersKept
  <1> QED BY <1>2, <1>3, <1>4

\* A call that moves on to another step keeps the invariant when the phase it
\* then holds has had its predecessors exited, and it has itself been exited
\* if it is about to be left.
LEMMA StepKeeps ==
  ASSUME RunnerTypeOK, TrackerTypeOK, FrameTypeOK,
         RunnerTypeOK', TrackerTypeOK',
         \A o \in Threads : FrameInv(o),
         NEW th \in Threads, Monotone, pc[th] # "idle",
         NEW step \in Steps \ {"idle", "hmRead"},
         pc' = [pc EXCEPT ![th] = step],
         UNCHANGED <<sid, tk, arg>>,
         hop' \in [Threads -> 0 .. HopCap - 1],
         cu' \in [Threads -> 0 .. N],
         \A o \in Threads \ {th} : cu'[o] = cu[o],
         step \in HoldsPhase => cu'[th] # StateNone,
         step = "hmMsg" => arg[th] \in [type : MsgTypes, from : Senders],
         \A q \in Phases : q < cu'[th] => q \in exited'[tk[th]],
         step \in {"advMove", "walkMove"} => cu'[th] \in exited'[tk[th]]
  PROVE  FrameTypeOK' /\ \A o \in Threads : FrameInv(o)'
  <1> USE DEF NoTracker, StateNone
  <1>1. FrameTypeOK'
    <2>1. pc' \in [Threads -> Steps]
      BY DEF FrameTypeOK
    <2>2. tk' \in [Threads -> 0 .. used']
      BY DEF FrameTypeOK, Monotone, RunnerTypeOK
    <2> QED BY <2>1, <2>2 DEF FrameTypeOK
  <1>2. pc'[th] = step
    BY DEF FrameTypeOK
  <1>3. tk[th] \in 1 .. used
    BY DEF FrameInv, LocalsSet, FrameTypeOK, RunnerTypeOK
  <1>4. LocalsSet(th)'
    BY <1>2 DEF FrameInv, LocalsSet
  <1>5. owner'[tk[th]] = sid[th]
    BY <1>3 DEF FrameInv, Monotone
  <1>6. FrameInv(th)'
    BY <1>2, <1>4, <1>5 DEF FrameInv
  <1>7. ASSUME NEW o \in Threads, o # th PROVE FrameInv(o)'
    <2>1. pc'[o] = pc[o] /\ cu'[o] = cu[o]
      BY <1>7 DEF FrameTypeOK
    <2> QED BY <2>1, OthersKept
  <1> QED BY <1>1, <1>6, <1>7

-----------------------------------------------------------------------------
(* The steps of the calls.                                                 *)

Parts ==
  /\ RunnerTypeOK
  /\ TrackerTypeOK
  /\ FrameTypeOK
  /\ TrackerInv
  /\ \A th \in Threads : FrameInv(th)

\* A step that only changes the frame of a call keeps everything said of the
\* map and the trackers.
LEMMA TrackersUntouched ==
  ASSUME Parts, UNCHANGED <<terminal, sessions, used, trackerVars>>,
         crashed' \in BOOLEAN
  PROVE  RunnerTypeOK' /\ TrackerTypeOK' /\ TrackerInv' /\ Monotone
  <1>1. RunnerTypeOK'
    BY DEF Parts, RunnerTypeOK
  <1>2. TrackerTypeOK'
    BY DEF Parts, TrackerTypeOK, trackerVars
  <1>3. TrackerInv'
    BY DEF Parts, TrackerInv, trackerVars
  <1>4. Monotone
    BY DEF Parts, Monotone, trackerVars, RunnerTypeOK
  <1> QED BY <1>1, <1>2, <1>3, <1>4

\* What a call in progress may rely on: its tracker exists, and the phase it
\* holds has had its predecessors exited.
LEMMA FrameFacts ==
  ASSUME Parts, NEW th \in Threads, pc[th] # "idle"
  PROVE  /\ used \in Nat /\ used <= MaxTrackers /\ N \in Nat \ {0}
         /\ tk[th] \in 1 .. used /\ tk[th] \in Trackers
         /\ cu[th] \in 0 .. N /\ current[tk[th]] \in 0 .. N
         /\ sid[th] \in Sessions /\ owner[tk[th]] = sid[th]
         /\ \A q \in Phases : q < cu[th] => q \in exited[tk[th]]
         /\ \A q \in Phases : q < current[tk[th]] => q \in exited[tk[th]]
  <1>1. used \in Nat /\ used <= MaxTrackers /\ N \in Nat \ {0} /\ MaxTrackers \in Nat
    BY PipelineAssumption DEF Parts, RunnerTypeOK
  <1>2. tk[th] \in 1 .. used /\ tk[th] \in Trackers
    BY <1>1 DEF Parts, FrameInv, LocalsSet, FrameTypeOK, NoTracker, Trackers
  <1>3. cu[th] \in 0 .. N /\ current[tk[th]] \in 0 .. N
    BY <1>2 DEF Parts, FrameTypeOK, TrackerTypeOK
  <1>4. sid[th] \in Sessions /\ owner[tk[th]] = sid[th]
    BY DEF Parts, FrameInv, LocalsSet
  <1>5. \A q \in Phases : q < cu[th] => q \in exited[tk[th]]
    BY DEF Parts, FrameInv
  <1>6. \A q \in Phases : q < current[tk[th]] => q \in exited[tk[th]]
    BY <1>2 DEF Parts, TrackerInv
  <1> QED BY <1>1, <1>2, <1>3, <1>4, <1>5, <1>6

\* A call returns and nothing else happens.
LEMMA PlainReturn ==
  ASSUME Parts, NEW th \in Threads, Return(th),
         UNCHANGED <<terminal, sessions, used, trackerVars, crashed>>
  PROVE  Parts'
  <1>1. crashed' \in BOOLEAN
    BY DEF Parts, RunnerTypeOK
  <1>2. RunnerTypeOK' /\ TrackerTypeOK' /\ TrackerInv' /\ Monotone
    BY <1>1, TrackersUntouched
  <1>3. FrameTypeOK' /\ \A o \in Threads : FrameInv(o)'
    BY <1>2, ReturnKeeps DEF Parts
  <1> QED BY <1>2, <1>3 DEF Parts

\* A call goes to another step with the phase it already holds.
LEMMA PlainGoto ==
  ASSUME Parts, NEW th \in Threads, pc[th] # "idle",
         NEW step \in Steps \ {"idle", "hmRead", "hmMsg", "advMove", "walkMove"},
         step \in HoldsPhase => cu[th] # StateNone,
         Goto(th, step), UNCHANGED <<cu, terminal, sessions, used, trackerVars, crashed>>
  PROVE  Parts'
  <1>1. crashed' \in BOOLEAN
    BY DEF Parts, RunnerTypeOK
  <1>2. RunnerTypeOK' /\ TrackerTypeOK' /\ TrackerInv' /\ Monotone
    BY <1>1, TrackersUntouched
  <1>3. cu' \in [Threads -> 0 .. N] /\ hop' \in [Threads -> 0 .. HopCap - 1]
    BY DEF Parts, FrameTypeOK, Goto
  <1>4. \A q \in Phases : q < cu'[th] => q \in exited'[tk[th]]
    BY FrameFacts DEF trackerVars
  <1>5. FrameTypeOK' /\ \A o \in Threads : FrameInv(o)'
    BY <1>2, <1>3, <1>4, StepKeeps, ZenonT(60) DEF Parts, Goto
  <1> QED BY <1>2, <1>5 DEF Parts

\* A call reads tracker.current, finds a phase, and goes on holding it.
LEMMA ReadGoto ==
  ASSUME Parts, NEW th \in Threads, pc[th] # "idle",
         NEW step \in Steps \ {"idle", "hmRead", "advMove", "walkMove"},
         step = "hmMsg" => arg[th] \in [type : MsgTypes, from : Senders],
         current[tk[th]] # StateNone,
         cu' = [cu EXCEPT ![th] = current[tk[th]]],
         Goto(th, step), UNCHANGED <<terminal, sessions, used, trackerVars, crashed>>
  PROVE  Parts'
  <1>1. crashed' \in BOOLEAN
    BY DEF Parts, RunnerTypeOK
  <1>2. RunnerTypeOK' /\ TrackerTypeOK' /\ TrackerInv' /\ Monotone
    BY <1>1, TrackersUntouched
  <1>3. hop' \in [Threads -> 0 .. HopCap - 1]
    BY DEF Parts, FrameTypeOK, Goto
  <1>4. /\ cu' \in [Threads -> 0 .. N]
        /\ cu'[th] = current[tk[th]]
        /\ \A o \in Threads \ {th} : cu'[o] = cu[o]
    BY FrameFacts DEF Parts, FrameTypeOK
  <1>5. \A q \in Phases : q < cu'[th] => q \in exited'[tk[th]]
    BY <1>4, FrameFacts DEF trackerVars
  <1>6. FrameTypeOK' /\ \A o \in Threads : FrameInv(o)'
    BY <1>2, <1>3, <1>4, <1>5, StepKeeps, Zenon DEF Parts, Goto
  <1> QED BY <1>2, <1>6 DEF Parts

\* A call starts on tracker t, which has the session it names.
LEMMA StartKeeps ==
  ASSUME RunnerTypeOK, TrackerTypeOK, FrameTypeOK,
         RunnerTypeOK', TrackerTypeOK',
         \A o \in Threads : FrameInv(o),
         NEW th \in Threads, Monotone, pc[th] = "idle",
         NEW s \in Sessions, NEW t \in 1 .. used', owner'[t] = s,
         NEW step \in {"bsEnter", "hmRead", "walkState"}, NEW a,
         step = "hmRead" => a \in [type : MsgTypes, from : Senders],
         Enters(th, s, t, step, a)
  PROVE  FrameTypeOK' /\ \A o \in Threads : FrameInv(o)'
  <1> USE DEF NoTracker, StateNone
  <1>0. used' \in Nat /\ used \in Nat /\ used <= used'
    BY PipelineAssumption DEF RunnerTypeOK, Monotone
  <1>1. FrameTypeOK'
    <2>1. pc' \in [Threads -> Steps]
      BY DEF FrameTypeOK, Enters, Steps
    <2>2. tk' \in [Threads -> 0 .. used']
      BY <1>0 DEF FrameTypeOK, Enters
    <2>3. sid' \in [Threads -> Sessions \cup {NoSession}]
      BY DEF FrameTypeOK, Enters
    <2>4. DOMAIN arg' = Threads
      BY Zenon DEF FrameTypeOK, Enters
    <2> QED BY <2>1, <2>2, <2>3, <2>4 DEF FrameTypeOK, Enters
  <1>2. FrameInv(th)'
    <2>1. pc'[th] = step /\ tk'[th] = t /\ sid'[th] = s /\ arg'[th] = a
      BY DEF FrameTypeOK, Enters
    <2>2. cu'[th] = 0
      BY Zenon DEF FrameInv, LocalsSet, Enters
    <2> QED BY <1>0, <2>1, <2>2 DEF FrameInv, LocalsSet, HoldsPhase, Phases
  <1>3. ASSUME NEW o \in Threads, o # th PROVE FrameInv(o)'
    <2>1. /\ pc'[o] = pc[o] /\ sid'[o] = sid[o] /\ tk'[o] = tk[o]
          /\ cu'[o] = cu[o] /\ arg'[o] = arg[o]
      BY <1>3 DEF Enters, FrameTypeOK
    <2> QED BY <2>1, OthersKept
  <1> QED BY <1>1, <1>2, <1>3

\* BeginSession publishes a tracker that no call and no id refers to yet.
LEMMA BeginSessionKeeps ==
  ASSUME Parts, NEW th \in Threads, NEW s \in Sessions, BeginSession(th, s)
  PROVE  Parts'
  <1> USE PipelineAssumption DEF NoTracker, StateNone
  <1>1. CASE UNCHANGED <<terminal, sessions, used, trackerVars, crashed, frameVars>>
    BY <1>1 DEF Parts, RunnerTypeOK, TrackerTypeOK, FrameTypeOK, TrackerInv, FrameInv,
                LocalsSet, trackerVars, frameVars
  <1>2. CASE ~ UNCHANGED <<terminal, sessions, used, trackerVars, crashed, frameVars>>
    <2>1. /\ pc[th] = "idle" /\ terminal' = terminal
          /\ sessions[s] = NoTracker
          /\ used < MaxTrackers
          /\ used' = used + 1
          /\ sessions' = [sessions EXCEPT ![s] = used + 1]
          /\ owner' = [owner EXCEPT ![used + 1] = s]
          /\ current' = [current EXCEPT ![used + 1] = 1]
          /\ Enters(th, s, used + 1, "bsEnter", NoArg)
          /\ UNCHANGED <<entered, bucket, exits, exited, crashed>>
      BY <1>2 DEF BeginSession, At
    <2>2. used \in Nat /\ used + 1 \in Trackers /\ used + 1 \in 1 .. used'
      BY <2>1 DEF Parts, RunnerTypeOK, Trackers
    <2>3. RunnerTypeOK'
      <3>1. sessions' \in [Sessions -> 0 .. used']
        BY <2>1, <2>2 DEF Parts, RunnerTypeOK
      <3> QED BY <2>1, <2>2, <3>1 DEF Parts, RunnerTypeOK
    <2>4. TrackerTypeOK'
      <3>1. owner' \in [Trackers -> Sessions \cup {NoSession}]
        BY <2>1, <2>2 DEF Parts, TrackerTypeOK
      <3>2. current' \in [Trackers -> 0 .. N]
        BY <2>1, <2>2 DEF Parts, TrackerTypeOK
      <3> QED BY <2>1, <3>1, <3>2 DEF Parts, TrackerTypeOK
    <2>5. Monotone
      BY <2>1, <2>2 DEF Parts, Monotone, TrackerTypeOK, Trackers
    <2>6. owner'[used + 1] = s
      BY <2>1, <2>2 DEF Parts, TrackerTypeOK
    <2>7. TrackerInv'
      <3>1. ASSUME NEW t \in Trackers, NEW q \in Phases, q < current'[t]
            PROVE  q \in exited'[t]
        <4>1. CASE t = used + 1
          <5>1. current'[t] = 1
            BY <2>1, <2>2, <4>1 DEF Parts, TrackerTypeOK
          <5> QED BY <3>1, <5>1 DEF Phases
        <4>2. CASE t # used + 1
          BY <2>1, <3>1, <4>2 DEF Parts, TrackerTypeOK, TrackerInv
        <4> QED BY <4>1, <4>2
      <3>2. ASSUME NEW r \in Sessions, sessions'[r] # NoTracker
            PROVE  owner'[sessions'[r]] = r
        <4>1. CASE r = s
          BY <2>1, <2>6, <4>1 DEF Parts, RunnerTypeOK
        <4>2. CASE r # s
          <5>1. sessions'[r] = sessions[r] /\ sessions[r] \in 1 .. used
            BY <2>1, <2>2, <3>2, <4>2 DEF Parts, RunnerTypeOK
          <5>2. owner[sessions[r]] = r
            BY <5>1 DEF Parts, TrackerInv
          <5> QED BY <2>5, <5>1, <5>2 DEF Monotone
        <4> QED BY <4>1, <4>2
      <3> QED BY <3>1, <3>2 DEF TrackerInv
    <2>8. FrameTypeOK' /\ \A o \in Threads : FrameInv(o)'
      BY <2>1, <2>2, <2>3, <2>4, <2>5, <2>6, StartKeeps DEF Parts
    <2> QED BY <2>3, <2>4, <2>7, <2>8 DEF Parts
  <1> QED BY <1>1, <1>2, Zenon

\* The lookups of HandleMessage and AdvanceToState, and EndSession.
LEMMA LookupKeeps ==
  ASSUME Parts, NEW th \in Threads, NEW s \in Sessions, pc[th] = "idle",
         UNCHANGED <<terminal, sessions, used, trackerVars, crashed>>,
         sessions[s] # NoTracker,
         NEW step \in {"hmRead", "walkState"}, NEW a,
         step = "hmRead" => a \in [type : MsgTypes, from : Senders],
         Enters(th, s, sessions[s], step, a)
  PROVE  Parts'
  <1>1. RunnerTypeOK' /\ TrackerTypeOK' /\ TrackerInv' /\ Monotone
    BY TrackersUntouched DEF Parts, RunnerTypeOK
  <1>2. sessions[s] \in 1 .. used' /\ owner'[sessions[s]] = s
    BY DEF Parts, RunnerTypeOK, TrackerInv, NoTracker, trackerVars
  <1>3. FrameTypeOK' /\ \A o \in Threads : FrameInv(o)'
    BY <1>1, <1>2, StartKeeps DEF Parts
  <1> QED BY <1>1, <1>3 DEF Parts

\* Removing an id from the map, by EndSession or after a failed Enter, keeps
\* what is said of the trackers.
LEMMA RemovalKeeps ==
  ASSUME Parts, NEW s \in Sessions, sessions' = [sessions EXCEPT ![s] = NoTracker],
         UNCHANGED <<terminal, used, trackerVars, crashed>>
  PROVE  RunnerTypeOK' /\ TrackerTypeOK' /\ TrackerInv' /\ Monotone
  <1> USE DEF NoTracker
  <1>1. RunnerTypeOK'
    BY PipelineAssumption DEF Parts, RunnerTypeOK
  <1>2. TrackerTypeOK'
    BY DEF Parts, TrackerTypeOK, trackerVars
  <1>3. TrackerInv'
    BY DEF Parts, RunnerTypeOK, TrackerInv, trackerVars
  <1>4. Monotone
    BY DEF Parts, Monotone, trackerVars, RunnerTypeOK
  <1> QED BY <1>1, <1>2, <1>3, <1>4

\* The phase held at a step of HoldsPhase is one of the pipeline.
LEMMA HeldPhase ==
  ASSUME Parts, NEW th \in Threads, pc[th] \in HoldsPhase
  PROVE  cu[th] \in Phases /\ pc[th] # "idle"
  BY FrameFacts DEF Parts, FrameInv, LocalsSet, HoldsPhase, StateNone, Phases

\* OnMessage adds a sender to one bucket and nothing else.
LEMMA OnMessageKeeps ==
  ASSUME Parts, NEW th \in Threads, HandleOnMessage(th), terminal' = terminal
  PROVE  Parts'
  <1>1. pc[th] = "hmMsg" /\ pc[th] # "idle" /\ pc[th] \in HoldsPhase
    BY DEF HandleOnMessage, At, HoldsPhase
  <1>2. cu[th] \in Phases
    BY <1>1, HeldPhase
  <1>3. CASE Return(th) /\ UNCHANGED bucket
    BY <1>3, PlainReturn DEF HandleOnMessage, trackerVars
  <1>4. CASE /\ bucket' = [bucket EXCEPT ![tk[th]][cu[th]] = @ \cup {arg[th].from}]
             /\ Goto(th, "hmCheck")
             /\ UNCHANGED cu
    <2>1. UNCHANGED <<terminal, sessions, used, owner, current, entered, exits, exited, crashed>>
      BY DEF HandleOnMessage
    <2>2. bucket' \in [Trackers -> [Phases -> SUBSET Senders]]
      <3>1. arg[th].from \in Senders
        BY <1>1 DEF Parts, FrameInv, LocalsSet
      <3>2. bucket \in [Trackers -> [Phases -> SUBSET Senders]] /\ tk[th] \in Trackers
        BY <1>1, FrameFacts DEF Parts, TrackerTypeOK
      <3> QED BY <1>2, <1>4, <3>1, <3>2, Zenon
    <2>3. RunnerTypeOK' /\ TrackerTypeOK'
      BY <2>1, <2>2, Zenon DEF Parts, RunnerTypeOK, TrackerTypeOK
    <2>4. TrackerInv' /\ Monotone
      BY <2>1 DEF Parts, TrackerInv, Monotone, RunnerTypeOK
    <2>5. cu' \in [Threads -> 0 .. N] /\ hop' \in [Threads -> 0 .. HopCap - 1]
      BY <1>4 DEF Parts, FrameTypeOK, Goto
    <2>6. \A q \in Phases : q < cu'[th] => q \in exited'[tk[th]]
      BY <1>1, <1>4, <2>1, FrameFacts
    <2>7. "hmCheck" \in Steps \ {"idle", "hmRead"} /\ cu'[th] # StateNone
      BY <1>2, <1>4, PipelineAssumption DEF Steps, Phases, StateNone
    <2>8. FrameTypeOK' /\ \A o \in Threads : FrameInv(o)'
      BY <1>1, <1>4, <2>3, <2>4, <2>5, <2>6, <2>7, StepKeeps, ZenonT(60) DEF Parts, Goto
    <2> QED BY <2>3, <2>4, <2>8 DEF Parts
  <1> QED BY <1>3, <1>4 DEF HandleOnMessage

\* Exit, by advance or by AdvanceToState: when it succeeds the phase is
\* recorded before the call may move on.
LEMMA RunExitKeeps ==
  ASSUME Parts, NEW th \in Threads, pc[th] \in HoldsPhase,
         NEW step \in {"advMove", "walkMove"},
         RunExit(th, step), terminal' = terminal
  PROVE  Parts'
  <1>1. pc[th] # "idle" /\ cu[th] \in Phases /\ tk[th] \in Trackers
    BY HeldPhase, FrameFacts
  <1>2. UNCHANGED <<terminal, sessions, used, owner, current, entered, bucket, crashed>>
    BY DEF RunExit
  <1>3. exits' \in [Trackers -> [Phases -> 0 .. 2]]
    <2>1. exits \in [Trackers -> [Phases -> 0 .. 2]]
      BY DEF Parts, TrackerTypeOK
    <2>2. Bump(exits[tk[th]][cu[th]]) \in 0 .. 2
      BY <1>1, <2>1 DEF Bump
    <2> QED BY <1>1, <2>1, <2>2, Zenon DEF RunExit
  <1>4. CASE Return(th) /\ UNCHANGED exited
    <2>1. RunnerTypeOK' /\ TrackerTypeOK'
      BY <1>2, <1>3, <1>4, ZenonT(60) DEF Parts, RunnerTypeOK, TrackerTypeOK
    <2>2. TrackerInv' /\ Monotone
      BY <1>2, <1>4 DEF Parts, TrackerInv, Monotone, RunnerTypeOK
    <2>3. FrameTypeOK' /\ \A o \in Threads : FrameInv(o)'
      BY <1>4, <2>1, <2>2, ReturnKeeps, ZenonT(60) DEF Parts
    <2> QED BY <2>1, <2>2, <2>3 DEF Parts
  <1>5. CASE /\ exited' = [exited EXCEPT ![tk[th]] = @ \cup {cu[th]}]
             /\ Goto(th, step)
             /\ UNCHANGED cu
    <2>1. exited \in [Trackers -> SUBSET Phases] /\ exited' \in [Trackers -> SUBSET Phases]
      BY <1>1, <1>5 DEF Parts, TrackerTypeOK
    <2>2. RunnerTypeOK' /\ TrackerTypeOK'
      BY <1>2, <1>3, <2>1, Zenon DEF Parts, RunnerTypeOK, TrackerTypeOK
    <2>3. \A t \in Trackers : exited[t] \subseteq exited'[t]
      BY <1>1, <1>5, <2>1
    <2>4. cu[th] \in exited'[tk[th]]
      BY <1>1, <1>5, <2>1
    <2>5. TrackerInv' /\ Monotone
      BY <1>2, <2>3 DEF Parts, TrackerInv, Monotone, RunnerTypeOK
    <2>6. cu' \in [Threads -> 0 .. N] /\ hop' \in [Threads -> 0 .. HopCap - 1]
      BY <1>5, Zenon DEF Parts, FrameTypeOK, Goto
    <2>7. \A q \in Phases : q < cu'[th] => q \in exited'[tk[th]]
      BY <1>1, <1>5, <2>3, FrameFacts
    <2>8. step \in Steps \ {"idle", "hmRead"} /\ cu'[th] # StateNone /\ step # "hmMsg"
      BY <1>1, <1>5, PipelineAssumption DEF Steps, Phases, StateNone
    <2>9. FrameTypeOK' /\ \A o \in Threads : FrameInv(o)'
      BY <1>1, <1>5, <2>2, <2>4, <2>5, <2>6, <2>7, <2>8, StepKeeps, Zenon DEF Parts, Goto
    <2> QED BY <2>2, <2>5, <2>9 DEF Parts
  <1> QED BY <1>4, <1>5, Zenon DEF RunExit

\* The move to the next phase: by LeavesExited and PredecessorsExited of the
\* stale local phase, every predecessor of the phase moved to has exited,
\* wherever overlapping calls have taken the tracker in the meantime.
LEMMA MoveOnKeeps ==
  ASSUME Parts, NEW th \in Threads, pc[th] \in {"advMove", "walkMove"},
         NEW step \in {"advEnter", "walkEnter"},
         MoveOn(th, step), terminal' = terminal
  PROVE  Parts'
  <1> DEFINE next == ExitState(cu[th])
  <1>1. pc[th] # "idle" /\ cu[th] \in Phases /\ tk[th] \in Trackers /\ N \in Nat \ {0}
    BY HeldPhase, FrameFacts, Zenon DEF HoldsPhase
  <1>2. next \in Phases
    BY DEF MoveOn, Claimed
  <1>3. UNCHANGED <<terminal, sessions, used, owner, bucket, exits, exited, crashed>>
    BY DEF MoveOn
  <1>4. \A q \in Phases : q < next => q \in exited[tk[th]]
    <2>1. cu[th] \in exited[tk[th]]
      BY DEF Parts, FrameInv
    <2>2. \A q \in Phases : q < next => q <= cu[th]
      BY <1>1, <1>2 DEF ExitState, Phases
    <2> QED BY <1>1, <2>1, <2>2, FrameFacts DEF Phases
  <1>5. /\ current' = [current EXCEPT ![tk[th]] = next]
        /\ entered' = [entered EXCEPT ![tk[th]] = FALSE]
        /\ cu' = [cu EXCEPT ![th] = next]
        /\ Goto(th, step)
    BY DEF MoveOn
  <1> HIDE DEF next
  <1>6. RunnerTypeOK' /\ TrackerTypeOK'
    <2>1. current' \in [Trackers -> 0 .. N]
      BY <1>1, <1>2, <1>5 DEF Parts, TrackerTypeOK, Phases
    <2>2. entered' \in [Trackers -> BOOLEAN]
      BY <1>1, <1>5 DEF Parts, TrackerTypeOK
    <2> QED BY <1>3, <2>1, <2>2 DEF Parts, RunnerTypeOK, TrackerTypeOK
  <1>7. TrackerInv'
    <2>1. ASSUME NEW t \in Trackers, NEW q \in Phases, q < current'[t]
          PROVE  q \in exited'[t]
      <3>1. CASE t = tk[th]
        BY <1>1, <1>3, <1>4, <1>5, <2>1, <3>1, Zenon DEF Parts, TrackerTypeOK
      <3>2. CASE t # tk[th]
        BY <1>3, <1>5, <2>1, <3>2 DEF Parts, TrackerTypeOK, TrackerInv
      <3> QED BY <3>1, <3>2
    <2> QED BY <1>3, <2>1 DEF Parts, TrackerInv
  <1>8. Monotone
    BY <1>3 DEF Parts, Monotone, RunnerTypeOK
  <1>9. /\ cu' \in [Threads -> 0 .. N] /\ cu'[th] = next
        /\ \A o \in Threads \ {th} : cu'[o] = cu[o]
    BY <1>1, <1>2, <1>5 DEF Parts, FrameTypeOK, Phases
  <1>10. /\ step \in Steps \ {"idle", "hmRead"} /\ cu'[th] # StateNone
         /\ step \notin {"hmMsg", "advMove", "walkMove"}
         /\ hop' \in [Threads -> 0 .. HopCap - 1]
    BY <1>1, <1>2, <1>5, <1>9 DEF Steps, Phases, StateNone, Goto, Parts, FrameTypeOK
  <1>11. \A q \in Phases : q < cu'[th] => q \in exited'[tk[th]]
    BY <1>3, <1>4, <1>9
  <1>12. FrameTypeOK' /\ \A o \in Threads : FrameInv(o)'
    BY <1>1, <1>5, <1>6, <1>8, <1>9, <1>10, <1>11, StepKeeps, ZenonT(60) DEF Parts, Goto
  <1> QED BY <1>6, <1>7, <1>8, <1>12, Zenon DEF Parts

\* A nil phase brings the process down and changes nothing else.
LEMMA PanicKeeps ==
  ASSUME Parts, Panic, terminal' = terminal
  PROVE  Parts'
  <1>1. crashed' \in BOOLEAN
    BY DEF Panic
  <1>2. RunnerTypeOK' /\ TrackerTypeOK' /\ TrackerInv' /\ Monotone
    BY <1>1, TrackersUntouched DEF Panic
  <1>3. FrameTypeOK'
    BY Zenon DEF Panic, Parts, FrameTypeOK, frameVars
  <1>4. \A o \in Threads : FrameInv(o)'
    BY Zenon DEF Panic, Parts, FrameInv, LocalsSet, frameVars, trackerVars
  <1> QED BY <1>2, <1>3, <1>4 DEF Parts

\* Setting tracker.entered, with the call returning or going around its loop.
LEMMA EnteredKeeps ==
  ASSUME Parts, NEW th \in Threads, pc[th] # "idle",
         entered' = [entered EXCEPT ![tk[th]] = TRUE],
         UNCHANGED <<terminal, sessions, used, owner, current, bucket, exits, exited, crashed>>,
         \/ Return(th)
         \/ /\ pc[th] \in HoldsPhase
            /\ hop[th] + 1 < HopCap
            /\ \E step \in {"advRead", "walkLoop"} : pc' = [pc EXCEPT ![th] = step]
            /\ hop' = [hop EXCEPT ![th] = @ + 1]
            /\ UNCHANGED <<sid, tk, cu, arg>>
  PROVE  Parts'
  <1>1. tk[th] \in Trackers
    BY FrameFacts
  <1>2. entered' \in [Trackers -> BOOLEAN]
    BY <1>1 DEF Parts, TrackerTypeOK
  <1>3. RunnerTypeOK' /\ TrackerTypeOK'
    BY <1>2 DEF Parts, RunnerTypeOK, TrackerTypeOK
  <1>4. TrackerInv' /\ Monotone
    BY DEF Parts, TrackerInv, Monotone, RunnerTypeOK
  <1>5. CASE Return(th)
    BY <1>3, <1>4, <1>5, ReturnKeeps DEF Parts
  <1>6. CASE ~Return(th)
    <2>1. PICK step \in {"advRead", "walkLoop"} : pc' = [pc EXCEPT ![th] = step]
      BY <1>6
    <2>2. hop' \in [Threads -> 0 .. HopCap - 1]
      BY <1>6, PipelineAssumption, SMTT(30) DEF Parts, FrameTypeOK
    <2>3. cu' \in [Threads -> 0 .. N] /\ \A q \in Phases : q < cu'[th] => q \in exited'[tk[th]]
      BY <1>6, FrameFacts, Zenon DEF Parts, FrameTypeOK
    <2>4. cu[th] # StateNone
      BY <1>6, HeldPhase, PipelineAssumption DEF Phases, StateNone
    <2>5. step \in Steps \ {"idle", "hmRead"} /\ step \notin {"hmMsg", "advMove", "walkMove"}
      BY DEF Steps
    <2>6. FrameTypeOK' /\ \A o \in Threads : FrameInv(o)'
      BY <1>3, <1>4, <1>6, <2>1, <2>2, <2>3, <2>4, <2>5, StepKeeps, Zenon DEF Parts
    <2> QED BY <1>3, <1>4, <2>6 DEF Parts
  <1> QED BY <1>5, <1>6

\* The end of the pipeline: the tracker loses its phase.
LEMMA FinishKeeps ==
  ASSUME Parts, NEW th \in Threads, AdvFinish(th)
  PROVE  Parts'
  <1>1. pc[th] # "idle" /\ terminal' = terminal
    BY DEF AdvFinish, At
  <1>2. tk[th] \in Trackers /\ N \in Nat
    BY <1>1, FrameFacts
  <1>3. current' \in [Trackers -> 0 .. N]
    <2>1. current' = [current EXCEPT ![tk[th]] = 0]
      BY DEF AdvFinish, StateNone
    <2>2. current \in [Trackers -> 0 .. N] /\ 0 \in 0 .. N
      BY <1>2 DEF Parts, TrackerTypeOK
    <2> QED BY <1>2, <2>1, <2>2
  <1>4. RunnerTypeOK' /\ TrackerTypeOK'
    BY <1>1, <1>3 DEF AdvFinish, Parts, RunnerTypeOK, TrackerTypeOK
  <1>5. TrackerInv'
    BY <1>2 DEF AdvFinish, Parts, TrackerInv, TrackerTypeOK, StateNone, Phases
  <1>6. Monotone
    <2>1. used' = used /\ exited' = exited /\ owner' = owner
      BY Zenon DEF AdvFinish
    <2>2. used \in Nat
      BY FrameFacts, SMTT(30) DEF Parts, RunnerTypeOK
    <2> QED BY <2>1, <2>2 DEF Monotone
  <1>7. FrameTypeOK' /\ \A o \in Threads : FrameInv(o)'
    BY <1>4, <1>6, ReturnKeeps, Zenon DEF AdvFinish, Parts
  <1> QED BY <1>4, <1>5, <1>6, <1>7 DEF Parts

\* Starting a call, or ending a session, keeps the invariant.
LEMMA CallKeeps ==
  ASSUME Parts, NEW th \in Threads, NEW s \in Sessions, Call(th, s)
  PROVE  Parts'
  <1>1. CASE BeginSession(th, s)
    BY <1>1, BeginSessionKeeps
  <1>2. ASSUME NEW m \in MsgTypes, NEW from \in Senders, HandleMessage(th, s, m, from)
        PROVE  Parts'
    <2>1. UNCHANGED <<terminal, sessions, used, trackerVars, crashed>> /\ pc[th] = "idle"
      BY <1>2, ZenonT(60) DEF HandleMessage, At
    <2>2. CASE UNCHANGED frameVars
      BY <2>1, <2>2, ZenonT(60) DEF Parts, RunnerTypeOK, TrackerTypeOK, FrameTypeOK, TrackerInv,
                        FrameInv, LocalsSet, trackerVars, frameVars
    <2>3. CASE /\ sessions[s] # NoTracker
               /\ Enters(th, s, sessions[s], "hmRead", [type |-> m, from |-> from])
      BY <2>1, <2>3, LookupKeeps
    <2> QED BY <1>2, <2>2, <2>3 DEF HandleMessage
  <1>3. ASSUME NEW target \in Targets, AdvanceToState(th, s, target)
        PROVE  Parts'
    <2>1. UNCHANGED <<terminal, sessions, used, trackerVars, crashed>> /\ pc[th] = "idle"
      BY <1>3, ZenonT(60) DEF AdvanceToState, At
    <2>2. CASE UNCHANGED frameVars
      BY <2>1, <2>2, Zenon DEF Parts, RunnerTypeOK, TrackerTypeOK, FrameTypeOK, TrackerInv,
                        FrameInv, LocalsSet, trackerVars, frameVars
    <2>3. CASE sessions[s] # NoTracker /\ Enters(th, s, sessions[s], "walkState", target)
      BY <2>1, <2>3, LookupKeeps
    <2> QED BY <1>3, <2>2, <2>3 DEF AdvanceToState
  <1>4. CASE EndSession(th, s)
    <2>1. RunnerTypeOK' /\ TrackerTypeOK' /\ TrackerInv' /\ Monotone
      BY <1>4, RemovalKeeps, Zenon DEF EndSession, At
    <2>2. FrameTypeOK' /\ \A o \in Threads : FrameInv(o)'
      BY <1>4, ZenonT(60) DEF EndSession, Parts, FrameTypeOK, FrameInv, LocalsSet, trackerVars, frameVars
    <2> QED BY <2>1, <2>2 DEF Parts
  <1> QED BY <1>1, <1>2, <1>3, <1>4 DEF Call

\* Every step of a call in progress keeps the invariant.
LEMMA StepActionKeeps ==
  ASSUME Parts, NEW th \in Threads, Step(th)
  PROVE  Parts'
  <1>1. CASE BeginEnter(th)
    <2>1. /\ pc[th] # "idle"
          /\ UNCHANGED <<cu, terminal, sessions, used, trackerVars, crashed>>
          /\ Goto(th, "bsEntered") \/ Goto(th, "bsFail")
      BY <1>1 DEF BeginEnter, At
    <2> QED BY <2>1, PlainGoto, Zenon DEF Steps, HoldsPhase
  <1>2. CASE BeginFail(th)
    <2>1. pc[th] # "idle" /\ terminal' = terminal
      BY <1>2 DEF BeginFail, At
    <2>2. RunnerTypeOK' /\ TrackerTypeOK' /\ TrackerInv' /\ Monotone
      BY <1>2, <2>1, FrameFacts, RemovalKeeps, Zenon DEF BeginFail
    <2>3. FrameTypeOK' /\ \A o \in Threads : FrameInv(o)'
      BY <1>2, <2>2, ReturnKeeps DEF BeginFail, Parts
    <2> QED BY <2>2, <2>3 DEF Parts
  <1>3. CASE BeginEntered(th)
    BY <1>3, EnteredKeeps, ZenonT(60) DEF BeginEntered, At
  <1>4. CASE HandleRead(th)
    <2>1. pc[th] = "hmRead" /\ pc[th] # "idle" /\ terminal' = terminal
      BY <1>4, ZenonT(60) DEF HandleRead, At
    <2>2. arg[th] \in [type : MsgTypes, from : Senders]
      BY <2>1, Zenon DEF Parts, FrameInv, LocalsSet
    <2>3. CASE Panic
      BY <2>1, <2>3, PanicKeeps
    <2>4. CASE Return(th) /\ UNCHANGED <<sessions, used, trackerVars, crashed>>
      BY <2>1, <2>4, PlainReturn
    <2>5. CASE /\ current[tk[th]] # StateNone
               /\ cu' = [cu EXCEPT ![th] = current[tk[th]]]
               /\ Goto(th, "hmMsg")
               /\ UNCHANGED <<sessions, used, trackerVars, crashed>>
      BY <2>1, <2>2, <2>5, ReadGoto, ZenonT(60) DEF Steps
    <2> QED BY <1>4, <2>3, <2>4, <2>5 DEF HandleRead
  <1>5. CASE HandleOnMessage(th)
    BY <1>5, OnMessageKeeps, Zenon DEF HandleOnMessage, At
  <1>6. CASE HandleCheck(th)
    <2>1. /\ pc[th] # "idle" /\ pc[th] \in HoldsPhase
          /\ UNCHANGED <<terminal, sessions, used, trackerVars, crashed>>
      BY <1>6 DEF HandleCheck, At, HoldsPhase
    <2>2. cu[th] # StateNone
      BY <2>1, HeldPhase, PipelineAssumption DEF Phases, StateNone
    <2>3. CASE Return(th)
      BY <2>1, <2>3, PlainReturn, Zenon
    <2>4. CASE Goto(th, "advRead") /\ UNCHANGED cu
      BY <2>1, <2>2, <2>4, PlainGoto DEF Steps
    <2> QED BY <1>6, <2>3, <2>4, Zenon DEF HandleCheck
  <1>7. CASE AdvRead(th)
    <2>1. pc[th] # "idle" /\ terminal' = terminal
      BY <1>7 DEF AdvRead, At
    <2>2. CASE Panic
      BY <2>1, <2>2, PanicKeeps, Zenon
    <2>3. CASE ~Panic
      BY <1>7, <2>1, <2>3, ReadGoto DEF AdvRead, Steps
    <2> QED BY <2>2, <2>3
  <1>8. CASE AdvExit(th) \/ WalkExit(th)
    BY <1>8, RunExitKeeps DEF AdvExit, WalkExit, At, HoldsPhase
  <1>9. CASE AdvMove(th) \/ WalkMove(th)
    <2>1. pc[th] \in {"advMove", "walkMove"} /\ terminal' = terminal
      BY <1>9 DEF AdvMove, WalkMove, At
    <2>2. CASE MoveOn(th, "advEnter") \/ MoveOn(th, "walkEnter")
      BY <2>1, <2>2, MoveOnKeeps
    <2>3. CASE Return(th) /\ UNCHANGED <<sessions, used, trackerVars, crashed>>
      BY <2>1, <2>3, PlainReturn
    <2> QED BY <1>9, <2>2, <2>3, Zenon DEF AdvMove, WalkMove, Unclaimed
  <1>10. CASE AdvFinish(th)
    BY <1>10, FinishKeeps
  <1>11. CASE AdvEnter(th) \/ WalkEnter(th)
    <2>1. /\ pc[th] # "idle" /\ pc[th] \in HoldsPhase
          /\ UNCHANGED <<terminal, sessions, used, trackerVars, crashed>>
      BY <1>11 DEF AdvEnter, WalkEnter, RunEnter, At, HoldsPhase
    <2>2. cu[th] # StateNone
      BY <2>1, HeldPhase, PipelineAssumption DEF Phases, StateNone
    <2>3. CASE Return(th)
      BY <2>1, <2>3, PlainReturn
    <2>4. CASE (Goto(th, "advEntered") \/ Goto(th, "walkEntered")) /\ UNCHANGED cu
      BY <2>1, <2>2, <2>4, PlainGoto, ZenonT(60) DEF Steps
    <2> QED BY <1>11, <2>3, <2>4 DEF AdvEnter, WalkEnter, RunEnter
  <1>12. CASE AdvEntered(th)
    <2>1. /\ pc[th] # "idle" /\ pc[th] \in HoldsPhase /\ terminal' = terminal
      BY <1>12 DEF AdvEntered, At, HoldsPhase
    <2> QED BY <1>12, <2>1, EnteredKeeps, ZenonT(60) DEF AdvEntered
  <1>13. CASE WalkEntered(th)
    <2>1. /\ pc[th] # "idle" /\ pc[th] \in HoldsPhase /\ terminal' = terminal
      BY <1>13 DEF WalkEntered, At, HoldsPhase
    <2> QED BY <1>13, <2>1, EnteredKeeps, Zenon DEF WalkEntered
  <1>14. CASE WalkState(th)
    <2>1. /\ pc[th] # "idle"
          /\ UNCHANGED <<terminal, sessions, used, trackerVars, crashed>>
      BY <1>14 DEF WalkState, At
    <2>2. CASE Return(th)
      BY <2>1, <2>2, PlainReturn
    <2>3. CASE (Goto(th, "walkSub") \/ Goto(th, "walkRead")) /\ UNCHANGED cu
      BY <2>1, <2>3, PlainGoto DEF Steps, HoldsPhase
    <2> QED BY <1>14, <2>2, <2>3, ZenonT(60) DEF WalkState
  <1>15. CASE WalkSub(th)
    <2>1. /\ pc[th] # "idle"
          /\ UNCHANGED <<cu, terminal, sessions, used, trackerVars, crashed>>
          /\ Goto(th, "walkLoop") \/ Goto(th, "walkIntern")
      BY <1>15 DEF WalkSub, At
    <2> QED BY <2>1, PlainGoto DEF Steps, HoldsPhase
  <1>16. CASE WalkIntern(th)
    <2>1. pc[th] # "idle" /\ terminal' = terminal
      BY <1>16 DEF WalkIntern, At
    <2>2. CASE Panic
      BY <2>1, <2>2, PanicKeeps
    <2>3. CASE Return(th) /\ UNCHANGED <<sessions, used, trackerVars, crashed>>
      BY <2>1, <2>3, PlainReturn
    <2>4. CASE Goto(th, "walkLoop") /\ UNCHANGED <<cu, sessions, used, trackerVars, crashed>>
      BY <2>1, <2>4, PlainGoto DEF Steps, HoldsPhase
    <2> QED BY <1>16, <2>2, <2>3, <2>4 DEF WalkIntern
  <1>17. CASE WalkRead(th)
    <2>1. /\ pc[th] # "idle"
          /\ UNCHANGED <<terminal, sessions, used, trackerVars, crashed>>
      BY <1>17, Zenon DEF WalkRead, At
    <2>2. CASE Return(th)
      BY <2>1, <2>2, PlainReturn
    <2>3. CASE ~Return(th)
      BY <1>17, <2>1, <2>3, ReadGoto DEF WalkRead, Steps
    <2> QED BY <2>2, <2>3
  <1> QED BY <1>1, <1>2, <1>3, <1>4, <1>5, <1>6, <1>7, <1>8, <1>9, <1>10, <1>11,
             <1>12, <1>13, <1>14, <1>15, <1>16, <1>17, ZenonT(60) DEF Step

\* In the initial state no session is tracked and no call is in progress.
LEMMA InitParts == Init => Parts
  <1> SUFFICES ASSUME Init PROVE Parts
    OBVIOUS
  <1> USE PipelineAssumption DEF Init, NoTracker, StateNone
  <1>1. RunnerTypeOK
    <2>1. sessions \in [Sessions -> 0 .. used] /\ used \in 0 .. MaxTrackers
      OBVIOUS
    <2>2. terminal \in TerminalExits /\ crashed \in BOOLEAN
      BY Zenon
    <2> QED BY <2>1, <2>2 DEF RunnerTypeOK
  <1>2. TrackerTypeOK
    <2>1. /\ owner \in [Trackers -> Sessions \cup {NoSession}]
          /\ entered \in [Trackers -> BOOLEAN]
      OBVIOUS
    <2>2. current \in [Trackers -> 0 .. N] /\ exited \in [Trackers -> SUBSET Phases]
      OBVIOUS
    <2>3. bucket \in [Trackers -> [Phases -> SUBSET Senders]]
      OBVIOUS
    <2>4. exits \in [Trackers -> [Phases -> 0 .. 2]]
      OBVIOUS
    <2> QED BY <2>1, <2>2, <2>3, <2>4 DEF TrackerTypeOK
  <1>3. FrameTypeOK
    <2>1. pc \in [Threads -> Steps] /\ DOMAIN arg = Threads
      BY DEF Steps
    <2>2. sid \in [Threads -> Sessions \cup {NoSession}] /\ tk \in [Threads -> 0 .. used]
      OBVIOUS
    <2>3. cu \in [Threads -> 0 .. N]
      OBVIOUS
    <2>4. hop \in [Threads -> 0 .. HopCap - 1]
      OBVIOUS
    <2> QED BY <2>1, <2>2, <2>3, <2>4 DEF FrameTypeOK
  <1>4. TrackerInv
    BY DEF TrackerInv, Phases
  <1>5. \A th \in Threads : FrameInv(th)
    BY DEF FrameInv, LocalsSet, HoldsPhase, Phases
  <1> QED BY <1>1, <1>2, <1>3, <1>4, <1>5 DEF Parts

\* The invariant holds of every behaviour of the runner.
THEOREM Invariance == Spec => []IInv
  <1>1. Init => IInv
    BY InitParts, IInvByFrames DEF Parts
  <1>2. IInv /\ [Next]_vars => IInv'
    <2> SUFFICES ASSUME Parts, [Next]_vars PROVE Parts'
      BY IInvByFrames, Zenon DEF IInv, TypeOK, PredecessorsExited, LeavesExited,
                          SessionsIsolated, Parts, FrameInv, TrackerInv
    <2>1. CASE Next
      BY <2>1, CallKeeps, StepActionKeeps, ZenonT(60) DEF Next
    <2>2. CASE UNCHANGED vars
      BY <2>2, Zenon DEF vars, trackerVars, frameVars, Parts, RunnerTypeOK, TrackerTypeOK,
                  FrameTypeOK, TrackerInv, FrameInv, LocalsSet
    <2> QED BY <2>1, <2>2, ZenonT(60)
  <1> QED BY <1>1, <1>2, PTL DEF Spec

\* Type correctness: the typing of the map, the trackers and the calls, the
\* locals set before use, and the hop limit of both loops.
THEOREM TypeCorrect == Spec => []TypeOK
  BY Invariance, PTL DEF IInv

\* However calls overlap, no phase is reached or run around a predecessor
\* whose Exit has not succeeded on that session.
THEOREM OrderSafe == Spec => []PredecessorsExited
  BY Invariance, PTL DEF IInv

\* However calls overlap, a call works on the session it names only.
THEOREM IsolationSafe == Spec => []SessionsIsolated
  BY Invariance, PTL DEF IInv

\* The map only gains trackers created in that very step, under an id that
\* has none: a removed tracker never comes back.
THEOREM NoReturnSafe == Spec => TrackersNeverReturn
  <1> DEFINE Gain == \A s \in Sessions : sessions'[s] # sessions[s] =>
        \/ sessions'[s] = NoTracker
        \/ sessions[s] = NoTracker /\ sessions'[s] > used
  <1>1. ASSUME IInv, [Next]_vars PROVE [Gain]_vars
    <2>1. sessions \in [Sessions -> 0 .. used] /\ used \in Nat
      BY <1>1, PipelineAssumption DEF IInv, TypeOK, RunnerTypeOK
    <2>2. ASSUME NEW th \in Threads, NEW s \in Sessions, Call(th, s) PROVE Gain
      <3>1. CASE BeginSession(th, s)
        BY <2>1, <3>1 DEF BeginSession
      <3>2. CASE EndSession(th, s)
        BY <2>1, <3>2 DEF EndSession
      <3>3. CASE UNCHANGED sessions
        BY <3>3
      <3> QED BY <2>2, <3>1, <3>2, <3>3, Zenon DEF Call, HandleMessage, AdvanceToState
    <2>3. ASSUME NEW th \in Threads, Step(th) PROVE Gain
      <3>1. CASE BeginFail(th)
        BY <2>1, <3>1, Zenon DEF BeginFail
      <3>2. CASE BeginEnter(th) \/ BeginEntered(th) \/ HandleRead(th)
                   \/ HandleOnMessage(th) \/ HandleCheck(th)
        BY <3>2 DEF BeginEnter, BeginEntered, HandleRead, HandleOnMessage, HandleCheck, Panic
      <3>3. CASE AdvRead(th) \/ AdvExit(th) \/ AdvMove(th) \/ AdvFinish(th)
                   \/ AdvEnter(th) \/ AdvEntered(th)
        BY <3>3, ZenonT(60) DEF AdvRead, AdvExit, AdvMove, AdvFinish, AdvEnter, AdvEntered,
                    RunExit, MoveOn, Unclaimed, RunEnter, Panic
      <3>4. CASE WalkState(th) \/ WalkSub(th) \/ WalkIntern(th) \/ WalkRead(th)
        BY <3>4, ZenonT(60) DEF WalkState, WalkSub, WalkIntern, WalkRead, Panic
      <3>5. CASE WalkExit(th) \/ WalkMove(th) \/ WalkEnter(th) \/ WalkEntered(th)
        BY <3>5 DEF WalkExit, WalkMove, WalkEnter, WalkEntered,
                    RunExit, MoveOn, Unclaimed, RunEnter
      <3> QED BY <2>3, <3>1, <3>2, <3>3, <3>4, <3>5, Zenon DEF Step
    <2> QED BY <1>1, <2>2, <2>3, Zenon DEF Next
  <1> QED BY <1>1, Invariance, PTL DEF Spec, TrackersNeverReturn

-----------------------------------------------------------------------------
(* What the discipline gives a call: the map keeps its tracker, no other   *)
(* call works on its session, and the phase it holds is the tracker's.     *)

InCall(th) == pc[th] # "idle"

SerialFrame(th) ==
  InCall(th) => /\ tk[th] = sessions[sid[th]]
                /\ pc[th] \in HoldsPhase => cu[th] = current[tk[th]]
                /\ \A o \in Threads \ {th} : InCall(o) => sid[o] # sid[th]

SerialInv == Parts /\ \A th \in Threads : SerialFrame(th)

\* Calls on different sessions work on different trackers.
LEMMA TrackersApart ==
  ASSUME SerialInv, NEW th \in Threads, NEW o \in Threads, o # th, InCall(th), InCall(o)
  PROVE  tk[o] # tk[th]
<1>1. owner[tk[o]] = sid[o] /\ owner[tk[th]] = sid[th]
  BY FrameFacts DEF SerialInv, InCall
<1>2. sid[o] # sid[th]
  BY DEF SerialInv, SerialFrame
<1> QED BY <1>1, <1>2, Zenon

-----------------------------------------------------------------------------
(* The effects a step of a call can have, by the variables it changes.     *)

Others(th) ==
  \A o \in Threads \ {th} : /\ pc'[o] = pc[o] /\ sid'[o] = sid[o] /\ tk'[o] = tk[o]
                            /\ cu'[o] = cu[o] /\ hop'[o] = hop[o]

\* The call returns, or goes on for the same session on the same tracker.
Ends(th) == pc'[th] = "idle" /\ hop'[th] = 0
Goes(th, step) == pc'[th] = step /\ sid'[th] = sid[th] /\ tk'[th] = tk[th]

\* A call returns and has changed nothing.
QuietEnd(th) ==
  /\ Ends(th)
  /\ pc[th] \notin {"idle", "advRead", "advExit", "walkExit"}
  /\ pc[th] = "hmCheck" => ~CheckComplete(tk[th], cu[th])
  /\ pc[th] \in {"advMove", "walkMove"} => ExitState(cu[th]) \notin Phases
  /\ pc[th] = "advMove" => ExitState(cu[th]) # StateNone
  /\ pc[th] = "advEntered" => \/ Consumes[cu[th]] # {}
                              \/ ~CheckComplete(tk[th], cu[th])
                              \/ hop[th] + 1 >= HopCap

\* A call goes on and has changed nothing.
QuietGo(th) ==
  /\ InCall(th)
  /\ Goes(th, pc'[th]) /\ pc'[th] # "idle"
  /\ pc'[th] \in HoldsPhase => cu'[th] = current[tk[th]]
  /\ pc[th] \notin {"advExit", "walkExit", "advMove", "walkMove"}
  /\ pc'[th] \notin {"hmCheck", "advMove", "walkMove", "advEnter"}
  /\ pc[th] = "hmCheck" => pc'[th] = "advRead"
  /\ pc[th] = "advRead" => pc'[th] \in {"advRead", "advExit"}
  /\ pc'[th] \in {"hmRead", "hmMsg"} => pc[th] = "hmRead" /\ hop'[th] = hop[th]
  /\ pc'[th] \in {"advRead", "advExit"} =>
       \/ pc[th] \in {"hmCheck", "advRead"} /\ hop'[th] = hop[th]
       \/ pc[th] = "advEntered" /\ hop'[th] = hop[th] + 1
  /\ pc'[th] = "advEntered" => pc[th] = "advEnter" /\ hop'[th] = hop[th]

Quiet(th) ==
  /\ UNCHANGED <<terminal, sessions, used, owner, current, bucket, exits>>
  /\ QuietEnd(th) \/ QuietGo(th)

\* OnMessage adds a sender to the bucket of the phase.
Stores(th) ==
  /\ pc[th] = "hmMsg" /\ Goes(th, "hmCheck") /\ cu'[th] = cu[th] /\ hop'[th] = hop[th]
  /\ bucket' = [bucket EXCEPT ![tk[th]][cu[th]] = @ \cup {arg[th].from}]
  /\ UNCHANGED <<terminal, sessions, used, owner, current, exits>>

\* Exit runs, and fails or has the call move on.
Exits(th) ==
  /\ \/ cu[th] \in ExitFails /\ Ends(th) /\ pc[th] \in {"advExit", "walkExit"}
     \/ pc[th] = "advExit" /\ Goes(th, "advMove") /\ cu'[th] = cu[th] /\ hop'[th] = hop[th]
     \/ pc[th] = "walkExit" /\ Goes(th, "walkMove") /\ cu'[th] = cu[th]
  /\ exits' = [exits EXCEPT ![tk[th]][cu[th]] = Bump(@)]
  /\ UNCHANGED <<terminal, sessions, used, owner, current, bucket>>

\* The tracker moves to the phase that claims ExitState.
Moves(th) ==
  /\ \/ pc[th] = "advMove" /\ Goes(th, "advEnter") /\ hop'[th] = hop[th]
     \/ pc[th] = "walkMove" /\ Goes(th, "walkEnter")
  /\ ExitState(cu[th]) \in Phases /\ cu'[th] = ExitState(cu[th])
  /\ current' = [current EXCEPT ![tk[th]] = ExitState(cu[th])]
  /\ UNCHANGED <<terminal, sessions, used, owner, bucket, exits>>

\* The session is done.
Finishes(th) ==
  /\ pc[th] = "advMove" /\ Ends(th) /\ ExitState(cu[th]) = StateNone
  /\ current' = [current EXCEPT ![tk[th]] = StateNone]
  /\ UNCHANGED <<terminal, sessions, used, owner, bucket, exits>>

\* The first Enter failed and the session is removed.
Fails(th) ==
  /\ pc[th] = "bsFail" /\ Ends(th)
  /\ sessions' = [sessions EXCEPT ![sid[th]] = NoTracker]
  /\ UNCHANGED <<terminal, used, owner, current, bucket, exits>>

Effect(th) ==
  /\ Others(th)
  /\ Quiet(th) \/ Stores(th) \/ Exits(th) \/ Moves(th) \/ Finishes(th) \/ Fails(th)

LEMMA ReturnShape ==
  ASSUME FrameTypeOK, NEW th \in Threads, Return(th)
  PROVE  Others(th) /\ Ends(th)
BY DEF FrameTypeOK, Return, Others, Ends

LEMMA GotoShape ==
  ASSUME FrameTypeOK, NEW th \in Threads, NEW step, Goto(th, step), cu' = cu
  PROVE  Others(th) /\ Goes(th, step) /\ cu'[th] = cu[th] /\ hop'[th] = hop[th]
BY DEF FrameTypeOK, Goto, Others, Goes

LEMMA GotoWithShape ==
  ASSUME FrameTypeOK, NEW th \in Threads, NEW step, Goto(th, step), NEW p,
         cu' = [cu EXCEPT ![th] = p]
  PROVE  Others(th) /\ Goes(th, step) /\ cu'[th] = p /\ hop'[th] = hop[th]
BY Zenon DEF FrameTypeOK, Goto, Others, Goes

LEMMA QuietReturn ==
  ASSUME SerialInv, NEW th \in Threads, Return(th),
         UNCHANGED <<terminal, sessions, used, owner, current, bucket, exits>>,
         pc[th] \notin {"idle", "advRead", "advExit", "walkExit", "hmCheck",
                       "advMove", "walkMove", "advEntered"}
  PROVE  Effect(th)
BY ReturnShape DEF SerialInv, Parts, Effect, Quiet, QuietEnd

\* Every step of a call has one of the effects.
LEMMA StepEffect ==
  ASSUME SerialInv, NEW th \in Threads, Step(th)
  PROVE  Effect(th)
<1> USE DEF SerialInv
<1>0. FrameTypeOK /\ N \in Nat \ {0} /\ current \in [Trackers -> 0 .. N]
  BY PipelineAssumption DEF Parts, TrackerTypeOK
<1>1. ASSUME BeginEnter(th) PROVE Effect(th)
  <2>1. PICK step \in {"bsEntered", "bsFail"} : Goto(th, step)
    BY <1>1, Zenon DEF BeginEnter
  <2>2. pc[th] = "bsEnter" /\ cu' = cu
    BY <1>1 DEF BeginEnter, At
  <2>3. UNCHANGED <<terminal, sessions, used, owner, current, bucket, exits>>
    BY <1>1 DEF BeginEnter, At, trackerVars
  <2>4. Others(th) /\ Goes(th, step)
    BY <1>0, <2>1, <2>2, GotoShape, Zenon
  <2>5. QuietGo(th)
    BY <2>2, <2>4 DEF QuietGo, Goes, InCall, HoldsPhase
  <2> QED BY <2>3, <2>4, <2>5 DEF Effect, Quiet
<1>2. ASSUME BeginFail(th) PROVE Effect(th)
  <2>1. Others(th) /\ Ends(th)
    BY <1>0, <1>2, ReturnShape, Zenon DEF BeginFail
  <2>2. Fails(th)
    BY <1>2, <2>1, Zenon DEF BeginFail, At, Fails, trackerVars
  <2> QED BY <2>1, <2>2 DEF Effect
<1>3. ASSUME BeginEntered(th) PROVE Effect(th)
  BY <1>3, QuietReturn, Zenon DEF BeginEntered, At
<1>4. ASSUME HandleRead(th) PROVE Effect(th)
  <2>1. pc[th] = "hmRead"
    BY <1>4, ZenonT(60) DEF HandleRead, At
  <2>2. UNCHANGED <<terminal, sessions, used, owner, current, bucket, exits>>
    BY <1>4, ZenonT(60) DEF HandleRead, At, Panic, trackerVars
  <2>3. CASE Panic
    BY <2>1, <2>2, <2>3, Zenon DEF Panic, frameVars, Effect, Others, Quiet, QuietGo, Goes, InCall, HoldsPhase
  <2>4. CASE Return(th)
    BY <2>1, <2>2, <2>4, QuietReturn, ZenonT(60)
  <2>5. CASE Goto(th, "hmMsg") /\ cu' = [cu EXCEPT ![th] = current[tk[th]]]
    <3>1. Others(th) /\ Goes(th, "hmMsg") /\ cu'[th] = current[tk[th]] /\ hop'[th] = hop[th]
      BY <1>0, <2>5, GotoWithShape, ZenonT(60)
    <3> QED BY <2>1, <2>2, <3>1, Zenon DEF Effect, Quiet, QuietGo, Goes, InCall, HoldsPhase
  <2> QED BY <1>4, <2>3, <2>4, <2>5 DEF HandleRead
<1>5. ASSUME HandleOnMessage(th) PROVE Effect(th)
  <2>1. pc[th] = "hmMsg" /\ UNCHANGED <<terminal, sessions, used, owner, current, exits>>
    BY <1>5 DEF HandleOnMessage, At
  <2>2. CASE Return(th) /\ UNCHANGED bucket
    BY <2>1, <2>2, QuietReturn, Zenon
  <2>3. CASE /\ bucket' = [bucket EXCEPT ![tk[th]][cu[th]] = @ \cup {arg[th].from}]
             /\ Goto(th, "hmCheck") /\ UNCHANGED cu
    <3>1. Others(th) /\ Goes(th, "hmCheck") /\ cu'[th] = cu[th] /\ hop'[th] = hop[th]
      BY <1>0, <2>3, GotoShape
    <3>2. Stores(th)
      BY <2>1, <2>3, <3>1, ZenonT(60) DEF Stores
    <3> QED BY <3>1, <3>2 DEF Effect
  <2> QED BY <1>5, <2>2, <2>3 DEF HandleOnMessage
<1>6. ASSUME HandleCheck(th) PROVE Effect(th)
  <2>1. pc[th] = "hmCheck"
    BY <1>6 DEF HandleCheck, At
  <2>2. UNCHANGED <<terminal, sessions, used, owner, current, bucket, exits>>
    BY <1>6, ZenonT(60) DEF HandleCheck, At, trackerVars
  <2>3. CASE Goto(th, "advRead") /\ UNCHANGED cu
    <3>1. Others(th) /\ Goes(th, "advRead") /\ cu'[th] = cu[th] /\ hop'[th] = hop[th]
      BY <1>0, <2>3, GotoShape, Zenon
    <3>2. cu[th] = current[tk[th]]
      BY <2>1, Zenon DEF SerialFrame, InCall, HoldsPhase
    <3>3. QuietGo(th)
      BY <2>1, <3>1, <3>2 DEF QuietGo, Goes, InCall
    <3> QED BY <2>2, <3>1, <3>3, ZenonT(60) DEF Effect, Quiet
  <2>4. CASE ~CheckComplete(tk[th], cu[th]) /\ Return(th)
    <3>1. Others(th) /\ Ends(th)
      BY <1>0, <2>4, ReturnShape, ZenonT(60)
    <3>2. QuietEnd(th)
      BY <2>1, <2>4, <3>1, ZenonT(60) DEF QuietEnd
    <3> QED BY <2>2, <3>1, <3>2, ZenonT(60) DEF Effect, Quiet
  <2> QED BY <1>6, <2>3, <2>4, Zenon DEF HandleCheck
<1>7. ASSUME AdvRead(th) PROVE Effect(th)
  <2>1. pc[th] = "advRead"
    BY <1>7 DEF AdvRead, At
  <2>2. UNCHANGED <<terminal, sessions, used, owner, current, bucket, exits>>
    BY <1>7, ZenonT(60) DEF AdvRead, At, Panic, trackerVars
  <2>3. CASE Panic
    <3>1. cu[th] = current[tk[th]]
      BY <2>1, ZenonT(60) DEF SerialFrame, InCall, HoldsPhase
    <3> QED BY <2>1, <2>2, <2>3, <3>1, ZenonT(60) DEF Panic, frameVars, Effect, Others, Quiet, QuietGo, Goes, InCall
  <2>4. CASE Goto(th, "advExit") /\ cu' = [cu EXCEPT ![th] = current[tk[th]]]
    <3>1. Others(th) /\ Goes(th, "advExit") /\ cu'[th] = current[tk[th]] /\ hop'[th] = hop[th]
      BY <1>0, <2>4, GotoWithShape, ZenonT(60)
    <3> QED BY <2>1, <2>2, <3>1 DEF Effect, Quiet, QuietGo, Goes, InCall
  <2> QED BY <1>7, <2>3, <2>4, Zenon DEF AdvRead
<1>8. ASSUME \/ RunExit(th, "advMove") /\ At(th, "advExit")
             \/ RunExit(th, "walkMove") /\ At(th, "walkExit")
      PROVE  Effect(th)
  <2> DEFINE next == IF pc[th] = "advExit" THEN "advMove" ELSE "walkMove"
  <2>1. pc[th] \in {"advExit", "walkExit"} /\ RunExit(th, next)
    BY <1>8, Zenon DEF At
  <2>2. /\ exits' = [exits EXCEPT ![tk[th]][cu[th]] = Bump(@)]
        /\ UNCHANGED <<terminal, sessions, used, owner, current, bucket>>
    BY <1>8 DEF RunExit, At
  <2>3. CASE cu[th] \in ExitFails /\ Return(th)
    BY <1>0, <2>1, <2>2, <2>3, ReturnShape DEF Effect, Exits
  <2>4. CASE Goto(th, next) /\ UNCHANGED cu
    <3>1. Others(th) /\ Goes(th, next) /\ cu'[th] = cu[th] /\ hop'[th] = hop[th]
      BY <1>0, <2>4, GotoShape, ZenonT(60)
    <3> QED BY <2>1, <2>2, <3>1, ZenonT(60) DEF Effect, Exits
  <2> QED BY <2>1, <2>3, <2>4 DEF RunExit
<1>9. ASSUME \/ MoveOn(th, "advEnter") /\ At(th, "advMove")
             \/ MoveOn(th, "walkEnter") /\ At(th, "walkMove")
      PROVE  Effect(th)
  <2> DEFINE step == IF pc[th] = "advMove" THEN "advEnter" ELSE "walkEnter"
  <2>1. pc[th] \in {"advMove", "walkMove"} /\ MoveOn(th, step)
    BY <1>9, Zenon DEF At
  <2>2. /\ current' = [current EXCEPT ![tk[th]] = ExitState(cu[th])]
        /\ ExitState(cu[th]) \in Phases
        /\ UNCHANGED <<terminal, sessions, used, owner, bucket, exits>>
    BY <1>9 DEF MoveOn, At, Claimed
  <2>3. Others(th) /\ Goes(th, step) /\ cu'[th] = ExitState(cu[th]) /\ hop'[th] = hop[th]
    BY <1>0, <2>1, GotoWithShape, Zenon DEF MoveOn
  <2> QED BY <2>1, <2>2, <2>3, Zenon DEF Effect, Moves
<1>10. ASSUME Unclaimed(th), At(th, "advMove") \/ At(th, "walkMove") PROVE Effect(th)
  <2>1. Others(th) /\ Ends(th)
    BY <1>0, <1>10, ReturnShape DEF Unclaimed
  <2>2. UNCHANGED <<terminal, sessions, used, owner, current, bucket, exits>>
    BY <1>10, Zenon DEF Unclaimed, At, trackerVars
  <2>3. QuietEnd(th)
    BY <1>10, <2>1 DEF Unclaimed, At, QuietEnd, Claimed
  <2> QED BY <2>1, <2>2, <2>3 DEF Effect, Quiet
<1>11. ASSUME AdvFinish(th) PROVE Effect(th)
  <2>1. Others(th) /\ Ends(th)
    BY <1>0, <1>11, ReturnShape, ZenonT(60) DEF AdvFinish
  <2>2. Finishes(th)
    BY <1>11, <2>1, ZenonT(60) DEF AdvFinish, At, Finishes
  <2> QED BY <2>1, <2>2, ZenonT(60) DEF Effect
<1>12. ASSUME \/ RunEnter(th, "advEntered") /\ At(th, "advEnter")
              \/ RunEnter(th, "walkEntered") /\ At(th, "walkEnter")
       PROVE  Effect(th)
  <2> DEFINE step == IF pc[th] = "advEnter" THEN "advEntered" ELSE "walkEntered"
  <2>1. pc[th] \in {"advEnter", "walkEnter"} /\ RunEnter(th, step)
    BY <1>12, Zenon DEF At
  <2>2. UNCHANGED <<terminal, sessions, used, owner, current, bucket, exits>>
    BY <1>12 DEF RunEnter, At, trackerVars
  <2>3. CASE Return(th)
    BY <2>1, <2>2, <2>3, QuietReturn, ZenonT(60)
  <2>4. CASE Goto(th, step) /\ UNCHANGED cu
    <3>1. Others(th) /\ Goes(th, step) /\ cu'[th] = cu[th] /\ hop'[th] = hop[th]
      BY <1>0, <2>4, GotoShape, ZenonT(60)
    <3>2. cu[th] = current[tk[th]]
      BY <2>1, ZenonT(60) DEF SerialFrame, InCall, HoldsPhase
    <3>3. QuietGo(th)
      BY <2>1, <3>1, <3>2, ZenonT(60) DEF QuietGo, Goes, InCall
    <3> QED BY <2>2, <3>1, <3>3, ZenonT(60) DEF Effect, Quiet
  <2> QED BY <2>1, <2>3, <2>4, Zenon DEF RunEnter
<1>13. ASSUME AdvEntered(th) PROVE Effect(th)
  <2>1. pc[th] = "advEntered"
    BY <1>13, Zenon DEF AdvEntered, At
  <2>2. UNCHANGED <<terminal, sessions, used, owner, current, bucket, exits>>
    BY <1>13, ZenonT(60) DEF AdvEntered, At
  <2>3. CASE /\ Return(th)
             /\ \/ Consumes[cu[th]] # {} \/ ~CheckComplete(tk[th], cu[th])
                \/ hop[th] + 1 >= HopCap
    <3>1. Others(th) /\ Ends(th)
      BY <1>0, <2>3, ReturnShape, ZenonT(60)
    <3>2. QuietEnd(th)
      BY <2>1, <2>3, <3>1, ZenonT(60) DEF QuietEnd
    <3> QED BY <2>2, <3>1, <3>2 DEF Effect, Quiet
  <2>4. CASE /\ pc' = [pc EXCEPT ![th] = "advRead"]
             /\ hop' = [hop EXCEPT ![th] = @ + 1]
             /\ UNCHANGED <<sid, tk, cu, arg>>
    <3>1. cu[th] = current[tk[th]]
      BY <2>1 DEF SerialFrame, InCall, HoldsPhase
    <3>2. Others(th) /\ Goes(th, "advRead") /\ cu'[th] = cu[th] /\ hop'[th] = hop[th] + 1
      BY <1>0, <2>4 DEF FrameTypeOK, Others, Goes
    <3>3. QuietGo(th)
      BY <2>1, <3>1, <3>2, ZenonT(60) DEF QuietGo, Goes, InCall
    <3> QED BY <2>2, <3>2, <3>3, ZenonT(60) DEF Effect, Quiet
  <2> QED BY <1>13, <2>3, <2>4, ZenonT(60) DEF AdvEntered
<1>14. ASSUME WalkState(th) \/ WalkSub(th) PROVE Effect(th)
  <2>1. pc[th] \in {"walkState", "walkLoop", "walkSub"}
    BY <1>14, ZenonT(60) DEF WalkState, WalkSub, At
  <2>2. UNCHANGED <<terminal, sessions, used, owner, current, bucket, exits>>
    BY <1>14, Zenon DEF WalkState, WalkSub, At, trackerVars
  <2>3. CASE Return(th)
    BY <2>1, <2>2, <2>3, QuietReturn
  <2>4. ASSUME NEW step \in {"walkSub", "walkRead", "walkLoop", "walkIntern"},
               Goto(th, step), UNCHANGED cu
        PROVE  Effect(th)
    <3>1. Others(th) /\ Goes(th, step)
      BY <1>0, <2>4, GotoShape
    <3>2. QuietGo(th)
      BY <2>1, <2>4, <3>1, ZenonT(60) DEF QuietGo, Goes, InCall, HoldsPhase
    <3> QED BY <2>2, <3>1, <3>2 DEF Effect, Quiet
  <2> QED BY <1>14, <2>3, <2>4, ZenonT(60) DEF WalkState, WalkSub
<1>15. ASSUME WalkIntern(th) PROVE Effect(th)
  <2>1. pc[th] = "walkIntern"
    BY <1>15, ZenonT(60) DEF WalkIntern, At
  <2>2. UNCHANGED <<terminal, sessions, used, owner, current, bucket, exits>>
    BY <1>15, ZenonT(60) DEF WalkIntern, At, Panic, trackerVars
  <2>3. CASE Panic
    BY <2>1, <2>2, <2>3, Zenon DEF Panic, frameVars, Effect, Others, Quiet, QuietGo, Goes, InCall, HoldsPhase
  <2>4. CASE Return(th)
    BY <2>1, <2>2, <2>4, QuietReturn
  <2>5. CASE Goto(th, "walkLoop") /\ UNCHANGED cu
    <3>1. Others(th) /\ Goes(th, "walkLoop")
      BY <1>0, <2>5, GotoShape
    <3>2. QuietGo(th)
      BY <2>1, <3>1, ZenonT(60) DEF QuietGo, Goes, InCall, HoldsPhase
    <3> QED BY <2>2, <3>1, <3>2, Zenon DEF Effect, Quiet
  <2> QED BY <1>15, <2>3, <2>4, <2>5, ZenonT(60) DEF WalkIntern
<1>16. ASSUME WalkRead(th) PROVE Effect(th)
  <2>1. pc[th] = "walkRead"
    BY <1>16, Zenon DEF WalkRead, At
  <2>2. UNCHANGED <<terminal, sessions, used, owner, current, bucket, exits>>
    BY <1>16 DEF WalkRead, At, trackerVars
  <2>3. CASE Return(th)
    BY <2>1, <2>2, <2>3, QuietReturn, ZenonT(60)
  <2>4. CASE Goto(th, "walkExit") /\ cu' = [cu EXCEPT ![th] = current[tk[th]]]
    <3>1. Others(th) /\ Goes(th, "walkExit") /\ cu'[th] = current[tk[th]]
      BY <1>0, <2>4, GotoWithShape, Zenon
    <3> QED BY <2>1, <2>2, <3>1, Zenon DEF Effect, Quiet, QuietGo, Goes, InCall
  <2> QED BY <1>16, <2>3, <2>4, ZenonT(60) DEF WalkRead
<1>17. ASSUME WalkMove(th) PROVE Effect(th)
  <2>1. pc[th] = "walkMove" /\ At(th, "walkMove")
    BY <1>17 DEF WalkMove, At
  <2>2. CASE MoveOn(th, "walkEnter") \/ Unclaimed(th)
    BY <1>9, <1>10, <2>1, <2>2
  <2>3. CASE /\ ExitState(cu[th]) = StateNone
             /\ Return(th) /\ UNCHANGED <<sessions, used, trackerVars, crashed>>
    <3>1. Others(th) /\ Ends(th)
      BY <1>0, <2>3, ReturnShape
    <3>2. UNCHANGED <<terminal, sessions, used, owner, current, bucket, exits>>
      BY <2>1, <2>3, ZenonT(60) DEF At, trackerVars
    <3>3. QuietEnd(th)
      BY <2>1, <2>3, <3>1 DEF QuietEnd, StateNone, Phases
    <3> QED BY <3>1, <3>2, <3>3 DEF Effect, Quiet
  <2> QED BY <1>17, <2>2, <2>3, Zenon DEF WalkMove
<1>18. ASSUME WalkEntered(th) PROVE Effect(th)
  <2>1. pc[th] = "walkEntered"
    BY <1>18 DEF WalkEntered, At
  <2>2. UNCHANGED <<terminal, sessions, used, owner, current, bucket, exits>>
    BY <1>18 DEF WalkEntered, At
  <2>3. CASE Return(th)
    BY <2>1, <2>2, <2>3, QuietReturn, Zenon
  <2>4. CASE /\ pc' = [pc EXCEPT ![th] = "walkLoop"]
             /\ hop' = [hop EXCEPT ![th] = @ + 1]
             /\ UNCHANGED <<sid, tk, cu, arg>>
    <3>1. Others(th) /\ Goes(th, "walkLoop")
      BY <1>0, <2>4, Zenon DEF FrameTypeOK, Others, Goes
    <3>2. QuietGo(th)
      BY <2>1, <3>1 DEF QuietGo, Goes, InCall, HoldsPhase
    <3> QED BY <2>2, <3>1, <3>2 DEF Effect, Quiet
  <2> QED BY <1>18, <2>3, <2>4 DEF WalkEntered
<1>19. AdvExit(th) => Effect(th)
  BY <1>8 DEF AdvExit
<1>20. WalkExit(th) => Effect(th)
  BY <1>8 DEF WalkExit
<1>21. AdvMove(th) => Effect(th)
  BY <1>9, <1>10 DEF AdvMove
<1>22. AdvEnter(th) => Effect(th)
  BY <1>12 DEF AdvEnter
<1>23. WalkEnter(th) => Effect(th)
  BY <1>12 DEF WalkEnter
<1> QED BY <1>1, <1>2, <1>3, <1>4, <1>5, <1>6, <1>7, <1>11, <1>13, <1>14, <1>15, <1>16,
          <1>17, <1>18, <1>19, <1>20, <1>21, <1>22, <1>23, Zenon DEF Step

-----------------------------------------------------------------------------
(* The effects of the step a call starts with.                             *)

\* HandleMessage and AdvanceToState find the tracker.
Looks(th, s) ==
  /\ sessions[s] # NoTracker
  /\ pc'[th] \in {"hmRead", "walkState"} /\ sid'[th] = s /\ tk'[th] = sessions[s]
  /\ hop'[th] = hop[th]
  /\ UNCHANGED <<terminal, sessions, used, owner, current, bucket, exits>>

\* BeginSession publishes a tracker on the first phase.
Begins(th, s) ==
  /\ sessions[s] = NoTracker /\ used < MaxTrackers
  /\ pc'[th] = "bsEnter" /\ sid'[th] = s /\ tk'[th] = used + 1
  /\ used' = used + 1
  /\ sessions' = [sessions EXCEPT ![s] = used + 1]
  /\ owner' = [owner EXCEPT ![used + 1] = s]
  /\ current' = [current EXCEPT ![used + 1] = 1]
  /\ UNCHANGED <<terminal, bucket, exits>>

\* EndSession deletes the session, or the call is refused.
Removes(th, s) ==
  /\ UNCHANGED <<pc, sid, tk, cu, hop>>
  /\ sessions' = sessions \/ sessions' = [sessions EXCEPT ![s] = NoTracker]
  /\ UNCHANGED <<terminal, used, owner, current, bucket, exits>>

CallEffect(th, s) ==
  /\ pc[th] = "idle"
  /\ Others(th)
  /\ Looks(th, s) \/ Begins(th, s) \/ Removes(th, s)

LEMMA EntersShape ==
  ASSUME FrameTypeOK, NEW th \in Threads, NEW s, NEW t, NEW step, NEW a,
         Enters(th, s, t, step, a)
  PROVE  /\ Others(th)
         /\ pc'[th] = step /\ sid'[th] = s /\ tk'[th] = t /\ hop'[th] = hop[th]
BY DEF FrameTypeOK, Enters, Others

LEMMA CallHasEffect ==
  ASSUME SerialInv, NEW th \in Threads, NEW s \in Sessions, Call(th, s)
  PROVE  CallEffect(th, s)
<1>0. FrameTypeOK
  BY DEF SerialInv, Parts
<1>1. pc[th] = "idle" /\ terminal' = terminal
  <2>1. BeginSession(th, s) => pc[th] = "idle" /\ terminal' = terminal
    BY DEF BeginSession, At
  <2>2. EndSession(th, s) => pc[th] = "idle" /\ terminal' = terminal
    BY DEF EndSession, At
  <2>3. \A m, from : HandleMessage(th, s, m, from) => pc[th] = "idle" /\ terminal' = terminal
    BY Zenon DEF HandleMessage, At
  <2>4. \A target : AdvanceToState(th, s, target) => pc[th] = "idle" /\ terminal' = terminal
    BY Zenon DEF AdvanceToState, At
  <2> QED BY <2>1, <2>2, <2>3, <2>4, ZenonT(60) DEF Call
<1>2. ASSUME UNCHANGED frameVars, UNCHANGED <<used, trackerVars>>,
             sessions' = sessions \/ sessions' = [sessions EXCEPT ![s] = NoTracker]
      PROVE  CallEffect(th, s)
  <2>1. UNCHANGED <<pc, sid, tk, cu, hop, used, owner, current, bucket, exits>>
    BY <1>2 DEF frameVars, trackerVars
  <2>2. Others(th)
    BY <2>1 DEF Others
  <2>3. Removes(th, s)
    BY <1>1, <1>2, <2>1, Zenon DEF Removes
  <2> QED BY <1>1, <2>2, <2>3 DEF CallEffect
<1>3. ASSUME sessions[s] # NoTracker, NEW step \in {"hmRead", "walkState"}, NEW a,
             Enters(th, s, sessions[s], step, a), UNCHANGED <<sessions, used, trackerVars>>
      PROVE  CallEffect(th, s)
  <2>1. /\ Others(th)
        /\ pc'[th] = step /\ sid'[th] = s /\ tk'[th] = sessions[s] /\ hop'[th] = hop[th]
    BY <1>0, <1>3, EntersShape, Zenon
  <2>2. Looks(th, s)
    BY <1>1, <1>3, <2>1, Zenon DEF Looks, trackerVars
  <2> QED BY <1>1, <2>1, <2>2, Zenon DEF CallEffect
<1>4. CASE BeginSession(th, s)
  <2>1. CASE UNCHANGED <<sessions, used, trackerVars, crashed, frameVars>>
    BY <1>2, <2>1, ZenonT(60)
  <2>2. CASE /\ sessions[s] = NoTracker
             /\ used < MaxTrackers
             /\ used' = used + 1
             /\ sessions' = [sessions EXCEPT ![s] = used + 1]
             /\ owner' = [owner EXCEPT ![used + 1] = s]
             /\ current' = [current EXCEPT ![used + 1] = 1]
             /\ Enters(th, s, used + 1, "bsEnter", NoArg)
             /\ UNCHANGED <<entered, bucket, exits, exited, crashed>>
    <3>1. Others(th) /\ pc'[th] = "bsEnter" /\ sid'[th] = s /\ tk'[th] = used + 1
      BY <1>0, <2>2, EntersShape, Zenon
    <3>2. Begins(th, s)
      BY <1>1, <2>2, <3>1, Zenon DEF Begins
    <3> QED BY <1>1, <3>1, <3>2, ZenonT(60) DEF CallEffect
  <2> QED BY <1>4, <2>1, <2>2 DEF BeginSession
<1>5. CASE \E m \in MsgTypes, from \in Senders : HandleMessage(th, s, m, from)
  <2>1. PICK m \in MsgTypes, from \in Senders : HandleMessage(th, s, m, from)
    BY <1>5, Zenon
  <2>2. CASE UNCHANGED frameVars
    BY <1>2, <2>1, <2>2, Zenon DEF HandleMessage
  <2>3. CASE sessions[s] # NoTracker /\ Enters(th, s, sessions[s], "hmRead", [type |-> m, from |-> from])
    BY <1>3, <2>1, <2>3 DEF HandleMessage
  <2> QED BY <2>1, <2>2, <2>3 DEF HandleMessage
<1>6. CASE \E target \in Targets : AdvanceToState(th, s, target)
  <2>1. PICK target \in Targets : AdvanceToState(th, s, target)
    BY <1>6
  <2>2. CASE UNCHANGED frameVars
    BY <1>2, <2>1, <2>2 DEF AdvanceToState
  <2>3. CASE sessions[s] # NoTracker /\ Enters(th, s, sessions[s], "walkState", target)
    BY <1>3, <2>1, <2>3 DEF AdvanceToState
  <2> QED BY <2>1, <2>2, <2>3 DEF AdvanceToState
<1>7. CASE EndSession(th, s)
  BY <1>2, <1>7 DEF EndSession
<1> QED BY <1>4, <1>5, <1>6, <1>7 DEF Call

=============================================================================
