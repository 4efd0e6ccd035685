------------------------ MODULE RunnerSerial_proofs ------------------------
(***************************************************************************)
(* Proofs about the session runner under the calling discipline its phases *)
(* rely on, one call at a time per session: SerialSpec.  They hold for any *)
(* number of goroutines, sessions, trackers and phases.                    *)
(***************************************************************************)
EXTENDS SessionRunner_proofs

-----------------------------------------------------------------------------
(* The discipline is kept by every step.                                   *)

\* A step of th on session r, on which no other call works, keeps what is
\* said of every call when it leaves the other sessions alone.
LEMMA SerialStep ==
  ASSUME SerialInv, Parts', NEW th \in Threads, NEW r \in Sessions, Others(th),
         \A o \in Threads \ {th} : InCall(o) => sid[o] # r,
         \A s \in Sessions \ {r} : sessions'[s] = sessions[s],
         \A t \in 1 .. used : owner[t] # r => current'[t] = current[t],
         \/ pc'[th] = "idle"
         \/ /\ sid'[th] = r /\ tk'[th] = sessions'[r]
            /\ pc'[th] \in HoldsPhase => cu'[th] = current'[tk'[th]]
  PROVE  SerialInv'
<1>1. ASSUME NEW o \in Threads, o # th, InCall(o)
      PROVE  /\ sid[o] \in Sessions \ {r} /\ tk[o] \in 1 .. used
             /\ tk[o] = sessions[sid[o]] /\ owner[tk[o]] # r
  <2>1. sid[o] \in Sessions /\ owner[tk[o]] = sid[o] /\ tk[o] \in 1 .. used
    BY <1>1, FrameFacts, ZenonT(60) DEF SerialInv, InCall
  <2>2. sid[o] # r
    BY <1>1, ZenonT(60)
  <2> QED BY <1>1, <2>1, <2>2, ZenonT(60) DEF SerialInv, SerialFrame
<1>2. ASSUME NEW o \in Threads, o # th
      PROVE  SerialFrame(o)'
  <2>1. pc'[o] = pc[o] /\ sid'[o] = sid[o] /\ tk'[o] = tk[o] /\ cu'[o] = cu[o]
    BY <1>2, ZenonT(60) DEF Others
  <2> SUFFICES ASSUME InCall(o)
               PROVE  /\ tk'[o] = sessions'[sid'[o]]
                      /\ pc'[o] \in HoldsPhase => cu'[o] = current'[tk'[o]]
                      /\ \A q \in Threads \ {o} : InCall(q)' => sid'[q] # sid'[o]
    BY <2>1, ZenonT(60) DEF SerialFrame, InCall
  <2>2. /\ sid[o] \in Sessions \ {r} /\ tk[o] \in 1 .. used
        /\ tk[o] = sessions[sid[o]] /\ owner[tk[o]] # r
    BY <1>1, <1>2, ZenonT(60)
  <2>3. tk'[o] = sessions'[sid'[o]]
    BY <2>1, <2>2
  <2>4. pc'[o] \in HoldsPhase => cu'[o] = current'[tk'[o]]
    BY <2>1, <2>2 DEF SerialInv, SerialFrame
  <2>5. ASSUME NEW q \in Threads \ {o}, InCall(q)'
        PROVE  sid'[q] # sid'[o]
    <3>1. CASE q = th
      BY <2>1, <2>2, <2>5, <3>1 DEF InCall
    <3>2. CASE q # th
      BY <2>1, <2>5, <3>2 DEF InCall, Others, SerialInv, SerialFrame
    <3> QED BY <3>1, <3>2
  <2> QED BY <2>3, <2>4, <2>5
<1>3. SerialFrame(th)'
  <2> SUFFICES ASSUME pc'[th] # "idle"
               PROVE  \A o \in Threads \ {th} : InCall(o)' => sid'[o] # sid'[th]
    BY DEF SerialFrame, InCall
  <2> QED BY <1>1 DEF Others, InCall
<1> QED BY <1>2, <1>3, ZenonT(60) DEF SerialInv

\* A call in progress: the session it works on and the tracker it holds.
LEMMA InCallFacts ==
  ASSUME SerialInv, NEW th \in Threads, InCall(th)
  PROVE  /\ sid[th] \in Sessions /\ tk[th] \in 1 .. used /\ tk[th] \in Trackers
         /\ tk[th] = sessions[sid[th]] /\ owner[tk[th]] = sid[th]
         /\ \A o \in Threads \ {th} : InCall(o) => sid[o] # sid[th]
         /\ pc[th] \in HoldsPhase => cu[th] = current[tk[th]] /\ cu[th] \in Phases
<1>1. /\ sid[th] \in Sessions /\ tk[th] \in 1 .. used /\ tk[th] \in Trackers
      /\ owner[tk[th]] = sid[th]
  BY FrameFacts DEF SerialInv, InCall
<1>2. pc[th] \in HoldsPhase => cu[th] \in Phases
  BY HeldPhase DEF SerialInv, InCall
<1> QED BY <1>1, <1>2 DEF SerialInv, SerialFrame

LEMMA SerialEffect ==
  ASSUME SerialInv, Parts', NEW th \in Threads, Effect(th)
  PROVE  InCall(th) /\ SerialInv'
<1> USE DEF Goes, Ends
<1>1. InCall(th)
  BY ZenonT(60) DEF Effect, Quiet, QuietEnd, QuietGo, Stores, Exits, Moves, Finishes, Fails, InCall
<1>2. /\ sid[th] \in Sessions /\ tk[th] \in 1 .. used /\ tk[th] \in Trackers
      /\ tk[th] = sessions[sid[th]] /\ owner[tk[th]] = sid[th]
      /\ \A o \in Threads \ {th} : InCall(o) => sid[o] # sid[th]
      /\ pc[th] \in HoldsPhase => cu[th] = current[tk[th]] /\ cu[th] \in Phases
  BY <1>1, InCallFacts, Zenon
<1>3. current \in [Trackers -> 0 .. N] /\ sessions \in [Sessions -> 0 .. used]
  BY DEF SerialInv, Parts, TrackerTypeOK, RunnerTypeOK
<1>4. 1 .. used \subseteq Trackers
  BY PipelineAssumption, SMTT(30) DEF SerialInv, Parts, RunnerTypeOK, Trackers
<1> DEFINE Kept == /\ \A s \in Sessions \ {sid[th]} : sessions'[s] = sessions[s]
                   /\ \A t \in Trackers \ {tk[th]} : current'[t] = current[t]
           Held == \/ pc'[th] = "idle"
                   \/ /\ sid'[th] = sid[th] /\ tk'[th] = sessions'[sid[th]]
                      /\ pc'[th] \in HoldsPhase => cu'[th] = current'[tk'[th]]
<1>5. Kept /\ Held
  <2>1. CASE Quiet(th)
    BY <1>2, <2>1, ZenonT(60) DEF Quiet, QuietEnd, QuietGo
  <2>2. CASE Stores(th)
    BY <1>2, <2>2 DEF Stores, HoldsPhase
  <2>3. CASE Exits(th)
    BY <1>2, <2>3 DEF Exits, HoldsPhase
  <2>4. CASE Moves(th)
    BY <1>2, <1>3, <2>4, ZenonT(60) DEF Moves, HoldsPhase
  <2>5. CASE Finishes(th)
    BY <1>2, <1>3, <2>5, ZenonT(60) DEF Finishes
  <2>6. CASE Fails(th)
    BY <1>2, <1>3, <2>6, ZenonT(60) DEF Fails
  <2> QED BY <2>1, <2>2, <2>3, <2>4, <2>5, <2>6, ZenonT(60) DEF Effect
<1>6. \A t \in 1 .. used : owner[t] # sid[th] => current'[t] = current[t]
  BY <1>2, <1>4, <1>5, Zenon
<1>7. Others(th)
  BY DEF Effect
<1> QED BY <1>1, <1>2, <1>5, <1>6, <1>7, SerialStep, ZenonT(60)

LEMMA SerialCall ==
  ASSUME SerialInv, Parts', NEW th \in Threads, NEW s \in Sessions, Free(s), CallEffect(th, s)
  PROVE  SerialInv'
<1>1. current \in [Trackers -> 0 .. N] /\ sessions \in [Sessions -> 0 .. used]
      /\ used \in 0 .. MaxTrackers
  BY DEF SerialInv, Parts, TrackerTypeOK, RunnerTypeOK
<1>2. Others(th) /\ pc[th] = "idle" /\ \A o \in Threads \ {th} : InCall(o) => sid[o] # s
  BY DEF CallEffect, Free
<1>3. CASE Looks(th, s)
  BY <1>2, <1>3, SerialStep DEF Looks, HoldsPhase
<1>4. CASE Begins(th, s)
  <2>1. used + 1 \in Trackers
    BY <1>1, <1>4, PipelineAssumption DEF Begins, Trackers
  <2>2. \A t \in 1 .. used : current'[t] = current[t]
    <3>1. \A t \in 1 .. used : t \in Trackers /\ t # used + 1
      BY <1>1, PipelineAssumption DEF Trackers
    <3> QED BY <1>1, <1>4, <3>1 DEF Begins
  <2>3. sessions'[s] = used + 1 /\ \A r \in Sessions \ {s} : sessions'[r] = sessions[r]
    BY <1>1, <1>4 DEF Begins
  <2>4. sid'[th] = s /\ tk'[th] = sessions'[s] /\ pc'[th] \notin HoldsPhase
    BY <1>4, <2>3 DEF Begins, HoldsPhase
  <2> QED BY <1>2, <2>2, <2>3, <2>4, SerialStep
<1>5. CASE Removes(th, s)
  <2>1. \A r \in Sessions \ {s} : sessions'[r] = sessions[r]
    BY <1>1, <1>5 DEF Removes
  <2>2. pc'[th] = "idle" /\ current' = current
    BY <1>2, <1>5 DEF Removes
  <2> QED BY <1>2, <2>1, <2>2, SerialStep
<1> QED BY <1>3, <1>4, <1>5 DEF CallEffect

\* A step under the discipline: a call starts on a session no call works
\* on, a call in progress has one of the effects, or nothing changes.
SerialMove ==
  \/ \E th \in Threads : Effect(th)
  \/ \E th \in Threads, s \in Sessions : Free(s) /\ CallEffect(th, s)
  \/ UNCHANGED vars

LEMMA SerialKept ==
  ASSUME SerialInv, [SerialNext]_vars
  PROVE  SerialInv' /\ SerialMove
<1>1. CASE UNCHANGED vars
  <2>1. UNCHANGED <<terminal, sessions, used, owner, current, entered, bucket, exits, exited,
                    crashed, pc, sid, tk, cu, hop, arg>>
    BY <1>1 DEF vars, trackerVars, frameVars
  <2>2. Parts'
    <3>1. RunnerTypeOK' /\ TrackerTypeOK' /\ TrackerInv'
      BY <2>1 DEF SerialInv, Parts, RunnerTypeOK, TrackerTypeOK, TrackerInv
    <3>2. FrameTypeOK' /\ \A th \in Threads : FrameInv(th)'
      BY <2>1, ZenonT(60) DEF SerialInv, Parts, FrameTypeOK, FrameInv, LocalsSet
    <3> QED BY <3>1, <3>2 DEF Parts
  <2>3. \A th \in Threads : SerialFrame(th)'
    BY <2>1, Zenon DEF SerialInv, SerialFrame, InCall
  <2> QED BY <1>1, <2>2, <2>3 DEF SerialInv, SerialMove
<1>2. ASSUME NEW th \in Threads, NEW s \in Sessions, Free(s), Call(th, s)
      PROVE  SerialInv' /\ SerialMove
  <2>1. CallEffect(th, s)
    BY <1>2, CallHasEffect
  <2>2. Parts'
    BY <1>2, CallKeeps DEF SerialInv
  <2> QED BY <1>2, <2>1, <2>2, SerialCall DEF SerialMove
<1>3. ASSUME NEW th \in Threads, Step(th)
      PROVE  SerialInv' /\ SerialMove
  <2>1. Effect(th)
    BY <1>3, StepEffect
  <2>2. Parts'
    BY <1>3, StepActionKeeps DEF SerialInv
  <2> QED BY <2>1, <2>2, SerialEffect DEF SerialMove
<1> QED BY <1>1, <1>2, <1>3 DEF SerialNext

LEMMA SerialInit == Init => SerialInv
<1> SUFFICES ASSUME Init PROVE SerialInv
  OBVIOUS
<1>1. \A th \in Threads : ~InCall(th)
  BY DEF Init, InCall
<1> QED BY <1>1, InitParts DEF SerialInv, SerialFrame

\* Under the calling discipline a call in progress works on a session of
\* its own, on the tracker the map has for it, and the phase it has read is
\* the phase the session is on.
THEOREM SerialDiscipline == SerialSpec => []SerialInv
<1>1. SerialInv /\ [SerialNext]_vars => SerialInv'
  BY SerialKept
<1> QED BY <1>1, SerialInit, PTL DEF SerialSpec

-----------------------------------------------------------------------------
(* The runner implements the pipeline.                                     *)

Pos == [s \in Sessions |->
          IF sessions[s] = NoTracker THEN -1 ELSE current[sessions[s]]]

\* Different sessions have different trackers.
LEMMA SessionsApart ==
  ASSUME SerialInv, NEW s \in Sessions, NEW r \in Sessions, r # s,
         sessions[s] # NoTracker, sessions[r] # NoTracker
  PROVE  sessions[r] # sessions[s]
BY DEF SerialInv, Parts, TrackerInv

\* A step that touches one session and one tracker touches one position.
LEMMA PosChanges ==
  ASSUME SerialInv, NEW s \in Sessions, NEW v,
         \A r \in Sessions \ {s} : sessions'[r] = sessions[r],
         \A r \in Sessions \ {s} : sessions[r] # NoTracker =>
            current'[sessions[r]] = current[sessions[r]],
         IF sessions'[s] = NoTracker THEN v = -1 ELSE v = current'[sessions'[s]]
  PROVE  Pos' = [Pos EXCEPT ![s] = v]
<1>1. \A r \in Sessions : Pos'[r] = IF r = s THEN v ELSE Pos[r]
  BY DEF Pos
<1>2. Pos' = [r \in Sessions |-> Pos'[r]]
  BY DEF Pos
<1>3. [Pos EXCEPT ![s] = v] = [r \in Sessions |-> IF r = s THEN v ELSE Pos[r]]
  BY ZenonT(60) DEF Pos
<1> QED BY <1>1, <1>2, <1>3

\* The step of the pipeline that a step of the runner is.
LEMMA PosStep ==
  ASSUME SerialInv, [SerialNext]_vars
  PROVE  \/ UNCHANGED <<Pos, terminal>>
         \/ /\ UNCHANGED terminal
            /\ \E s \in Sessions :
                 \/ Pos[s] = -1 /\ Pos' = [Pos EXCEPT ![s] = 1]
                 \/ /\ Pos[s] \in 1 .. N
                    /\ ExitState(Pos[s]) \in 0 .. N
                    /\ Pos' = [Pos EXCEPT ![s] = ExitState(Pos[s])]
                 \/ Pos' = [Pos EXCEPT ![s] = -1]
<1> USE DEF NoTracker, StateNone
<1>0. /\ current \in [Trackers -> 0 .. N] /\ sessions \in [Sessions -> 0 .. used]
      /\ used \in 0 .. MaxTrackers /\ MaxTrackers \in Nat /\ N \in Nat \ {0}
  BY PipelineAssumption DEF SerialInv, Parts, TrackerTypeOK, RunnerTypeOK
<1>1. SerialMove
  BY SerialKept
<1>2. CASE UNCHANGED vars
  BY <1>2 DEF vars, trackerVars, Pos
<1>3. ASSUME NEW th \in Threads, NEW s \in Sessions, CallEffect(th, s)
      PROVE  \/ UNCHANGED <<Pos, terminal>>
             \/ /\ UNCHANGED terminal
                /\ \/ Pos[s] = -1 /\ Pos' = [Pos EXCEPT ![s] = 1]
                   \/ Pos' = [Pos EXCEPT ![s] = -1]
  <2>1. CASE Looks(th, s)
    BY <2>1 DEF Looks, Pos
  <2>2. CASE Begins(th, s)
    <3>1. sessions'[s] = used + 1 /\ \A r \in Sessions \ {s} : sessions'[r] = sessions[r]
      BY <1>0, <2>2 DEF Begins
    <3>2. used + 1 \in Trackers /\ current'[used + 1] = 1
      BY <1>0, <2>2 DEF Begins, Trackers
    <3>3. \A r \in Sessions : sessions[r] # 0 => sessions[r] \in Trackers /\ sessions[r] # used + 1
      BY <1>0 DEF Trackers
    <3>4. \A r \in Sessions : sessions[r] # 0 => current'[sessions[r]] = current[sessions[r]]
      BY <1>0, <2>2, <3>3 DEF Begins
    <3>5. Pos' = [Pos EXCEPT ![s] = 1]
      BY <1>0, <3>1, <3>2, <3>4, PosChanges
    <3> QED BY <2>2, <3>5 DEF Begins, Pos
  <2>3. CASE Removes(th, s)
    <3>1. CASE sessions' = sessions
      BY <2>3, <3>1 DEF Removes, Pos
    <3>2. CASE sessions' = [sessions EXCEPT ![s] = NoTracker]
      <4>1. sessions'[s] = 0 /\ \A r \in Sessions \ {s} : sessions'[r] = sessions[r]
        BY <1>0, <3>2
      <4>2. Pos' = [Pos EXCEPT ![s] = -1]
        BY <2>3, <4>1, PosChanges DEF Removes
      <4> QED BY <2>3, <4>2 DEF Removes
    <3> QED BY <2>3, <3>1, <3>2 DEF Removes
  <2> QED BY <1>3, <2>1, <2>2, <2>3, ZenonT(60) DEF CallEffect
<1>4. ASSUME NEW th \in Threads, Effect(th)
      PROVE  \/ UNCHANGED <<Pos, terminal>>
             \/ /\ UNCHANGED terminal
                /\ sid[th] \in Sessions
                /\ \/ /\ Pos[sid[th]] \in 1 .. N
                      /\ ExitState(Pos[sid[th]]) \in 0 .. N
                      /\ Pos' = [Pos EXCEPT ![sid[th]] = ExitState(Pos[sid[th]])]
                   \/ Pos' = [Pos EXCEPT ![sid[th]] = -1]
  <2>1. InCall(th)
    BY <1>4, ZenonT(60) DEF Effect, Quiet, QuietEnd, QuietGo, Stores, Exits, Moves, Finishes, Fails, InCall
  <2>2. /\ sid[th] \in Sessions /\ tk[th] \in Trackers
        /\ tk[th] = sessions[sid[th]]
        /\ pc[th] \in HoldsPhase => cu[th] = current[tk[th]] /\ cu[th] \in Phases
    BY <2>1, InCallFacts, ZenonT(60)
  <2>3. CASE Quiet(th) \/ Stores(th) \/ Exits(th)
    <3>1. UNCHANGED <<terminal, sessions, current>>
      BY <2>3 DEF Quiet, Stores, Exits
    <3> QED BY <3>1, ZenonT(60) DEF Pos
  <2>4. CASE Moves(th) \/ Finishes(th)
    <3>1. /\ pc[th] \in HoldsPhase /\ UNCHANGED <<terminal, sessions>>
          /\ current' = [current EXCEPT ![tk[th]] = ExitState(cu[th])]
          /\ ExitState(cu[th]) \in 0 .. N
      <4>1. CASE Moves(th)
        <5>1. ExitState(cu[th]) \in 0 .. N
          BY <1>0, <4>1 DEF Moves, Phases
        <5> QED BY <4>1, <5>1 DEF Moves, HoldsPhase
      <4>2. CASE Finishes(th)
        <5>1. ExitState(cu[th]) = 0 /\ 0 \in 0 .. N
          BY <1>0, <4>2 DEF Finishes
        <5> QED BY <4>2, <5>1 DEF Finishes, HoldsPhase
      <4> QED BY <2>4, <4>1, <4>2
    <3>2. tk[th] # 0 /\ Pos[sid[th]] = cu[th] /\ cu[th] \in 1 .. N
      BY <1>0, <2>2, <3>1 DEF Pos, Trackers, Phases
    <3>3. \A r \in Sessions \ {sid[th]} : sessions[r] # 0 =>
             sessions[r] # tk[th] /\ sessions[r] \in Trackers
      <4>1. \A r \in Sessions : sessions[r] # 0 => sessions[r] \in Trackers
        BY <1>0 DEF Trackers
      <4> QED BY <2>2, <3>2, <4>1, SessionsApart
    <3>4. \A r \in Sessions \ {sid[th]} : sessions[r] # 0 =>
             current'[sessions[r]] = current[sessions[r]]
      BY <1>0, <3>1, <3>3, ZenonT(60)
    <3>5. sessions'[sid[th]] # 0 /\ current'[sessions'[sid[th]]] = ExitState(cu[th])
      BY <1>0, <2>2, <3>1, <3>2
    <3>6. Pos' = [Pos EXCEPT ![sid[th]] = ExitState(cu[th])]
      BY <2>2, <3>1, <3>4, <3>5, PosChanges, ZenonT(60)
    <3> QED BY <2>2, <3>1, <3>2, <3>6, ZenonT(60)
  <2>5. CASE Fails(th)
    <3>1. sessions'[sid[th]] = 0 /\ \A r \in Sessions \ {sid[th]} : sessions'[r] = sessions[r]
      BY <1>0, <2>2, <2>5, ZenonT(60) DEF Fails
    <3>2. Pos' = [Pos EXCEPT ![sid[th]] = -1]
      BY <2>2, <2>5, <3>1, PosChanges, ZenonT(60) DEF Fails
    <3> QED BY <2>2, <2>5, <3>2, ZenonT(60) DEF Fails
  <2> QED BY <1>4, <2>3, <2>4, <2>5, ZenonT(60) DEF Effect
<1>5. CASE \E th \in Threads : Effect(th)
  BY <1>4, <1>5
<1>6. CASE \E th \in Threads, s \in Sessions : Free(s) /\ CallEffect(th, s)
  BY <1>3, <1>6
<1> QED BY <1>1, <1>2, <1>5, <1>6 DEF SerialMove

\* While each session has one call at a time the runner implements the
\* pipeline: whatever the callbacks do and wherever they fail, a session
\* starts on the first phase, moves only along the ExitState of the phase
\* it is on, and leaves the runner only by being ended.
THEOREM PipelineSafe == SerialSpec => PipelineRefined
<1>1. Init => Pipe!Init
  BY DEF Init, Pipe!Init, Pipe!Untracked, NoTracker
<1>2. SerialInv /\ [SerialNext]_vars => [Pipe!Next]_<<Pos, terminal>>
  <2> SUFFICES ASSUME SerialInv, [SerialNext]_vars, ~UNCHANGED <<Pos, terminal>>
               PROVE  Pipe!Next
    BY Zenon
  <2>1. UNCHANGED terminal
    BY PosStep
  <2>2. PICK s \in Sessions :
          \/ Pos[s] = -1 /\ Pos' = [Pos EXCEPT ![s] = 1]
          \/ /\ Pos[s] \in 1 .. N
             /\ ExitState(Pos[s]) \in 0 .. N
             /\ Pos' = [Pos EXCEPT ![s] = ExitState(Pos[s])]
          \/ Pos' = [Pos EXCEPT ![s] = -1]
    BY PosStep, ZenonT(60)
  <2>3. Pipe!Begin(s) \/ Pipe!Transition(s) \/ Pipe!End(s)
    BY <2>2, Zenon DEF Pipe!Begin, Pipe!Transition, Pipe!End, Pipe!Untracked, ExitState, Pos
  <2> QED BY <2>1, <2>3 DEF Pipe!Next
<1> QED BY <1>1, <1>2, SerialDiscipline, PTL DEF SerialSpec, PipelineRefined, Pipe!Spec, Pos

-----------------------------------------------------------------------------
(* Exit runs once per phase, when no phase exits to an earlier one.        *)

\* The last phase ends the session or exits to a state no phase claims.
Linear == TerminalExits \subseteq {StateNone, N + 1}

Leaves(th, t, p) == pc[th] \in {"advMove", "walkMove"} /\ tk[th] = t /\ cu[th] = p

Leaving(t, p) == \E th \in Threads : Leaves(th, t, p)

\* ExitOnceSerial made inductive: a phase whose Exit has run is behind the
\* session, or a call is about to leave it.
ExitInv ==
  \A t \in Trackers, p \in Phases \ ExitFails :
     p < N => /\ t > used => exits[t][p] = 0
              /\ exits[t][p] <= 1
              /\ exits[t][p] > 0 => \/ p < current[t]
                                    \/ current[t] = StateNone
                                    \/ Leaving(t, p)

LEMMA LeavingKept ==
  ASSUME NEW th \in Threads, Others(th), NEW t, NEW p, Leaving(t, p), ~Leaves(th, t, p)
  PROVE  Leaving(t, p)'
<1>1. PICK o \in Threads : Leaves(o, t, p)
  BY ZenonT(60) DEF Leaving
<1>2. Leaves(o, t, p)'
  BY <1>1, ZenonT(60) DEF Others, Leaves
<1> QED BY <1>2 DEF Leaving

LEMMA LinearExit ==
  ASSUME Linear, RunnerTypeOK, NEW p \in Phases
  PROVE  /\ p < N => ExitState(p) = p + 1 /\ ExitState(p) \in Phases
         /\ p = N => ExitState(p) \in {StateNone, N + 1} /\ ExitState(p) \notin Phases
BY PipelineAssumption DEF Linear, RunnerTypeOK, ExitState, Phases, StateNone

LEMMA LinearMove ==
  ASSUME Linear, SerialInv, NEW p \in Phases, ExitState(p) \in Phases
  PROVE  ExitState(p) = p + 1
<1>1. RunnerTypeOK
  BY DEF SerialInv, Parts
<1>2. p < N \/ p = N
  BY PipelineAssumption DEF Phases
<1> QED BY <1>1, <1>2, LinearExit

LEMMA ExitEffect ==
  ASSUME Linear, SerialInv, ExitInv, NEW th \in Threads, Effect(th)
  PROVE  ExitInv'
<1> USE DEF StateNone
<1>0. /\ current \in [Trackers -> 0 .. N] /\ exits \in [Trackers -> [Phases -> 0 .. 2]]
      /\ used \in Nat /\ N \in Nat \ {0} /\ Phases = 1 .. N /\ RunnerTypeOK
  BY PipelineAssumption DEF SerialInv, Parts, TrackerTypeOK, RunnerTypeOK, Phases
<1>1. Others(th) /\ UNCHANGED used
  BY DEF Effect, Quiet, Stores, Exits, Moves, Finishes, Fails
<1>2. InCall(th)
  BY ZenonT(60) DEF Effect, Quiet, QuietEnd, QuietGo, Stores, Exits, Moves, Finishes, Fails, InCall
<1>3. /\ tk[th] \in 1 .. used /\ tk[th] \in Trackers
      /\ pc[th] \in HoldsPhase => cu[th] = current[tk[th]] /\ cu[th] \in Phases
  BY <1>2, InCallFacts, ZenonT(60)
<1> SUFFICES ASSUME NEW t \in Trackers, NEW p \in Phases \ ExitFails, p < N
             PROVE  /\ t > used => exits'[t][p] = 0
                    /\ exits'[t][p] <= 1
                    /\ exits'[t][p] > 0 => \/ p < current'[t]
                                           \/ current'[t] = 0
                                           \/ Leaving(t, p)'
  BY <1>1, Zenon DEF ExitInv
<1>4. /\ t > used => exits[t][p] = 0
      /\ exits[t][p] <= 1
      /\ exits[t][p] > 0 => p < current[t] \/ current[t] = 0 \/ Leaving(t, p)
  BY DEF ExitInv
<1>5. ExitState(p) = p + 1 /\ ExitState(p) \in Phases
  BY <1>0, LinearExit
<1>6. CASE Quiet(th) \/ Stores(th) \/ Fails(th)
  <2>1. ~Leaves(th, t, p)
    BY <1>5, <1>6 DEF Leaves, Quiet, QuietEnd, QuietGo, Stores, Fails
  <2>2. UNCHANGED <<current, exits>>
    BY <1>6, Zenon DEF Quiet, Stores, Fails
  <2> QED BY <1>1, <1>4, <2>1, <2>2, LeavingKept, ZenonT(60)
<1>7. CASE Exits(th)
  <2>1. ~Leaves(th, t, p) /\ UNCHANGED current
    BY <1>7 DEF Leaves, Exits
  <2>2. exits' = [exits EXCEPT ![tk[th]][cu[th]] = Bump(@)]
    BY <1>7 DEF Exits
  <2>3. CASE tk[th] = t /\ cu[th] = p
    <3>1. current[t] = p
      BY <1>3, <1>7, <2>3 DEF Exits, HoldsPhase
    <3>2. ~Leaving(t, p)
      <4>1. ASSUME NEW o \in Threads, Leaves(o, t, p) PROVE FALSE
        <5>1. o # th /\ InCall(o)
          BY <2>1, <4>1 DEF Leaves, InCall
        <5> QED BY <1>2, <2>3, <4>1, <5>1, TrackersApart DEF Leaves
      <4> QED BY <4>1 DEF Leaving
    <3>3. exits[t][p] \in 0 .. 2 /\ exits[t][p] = 0
      BY <1>0, <1>4, <3>1, <3>2
    <3>4. exits'[t][p] = 1
      BY <1>0, <2>2, <2>3, <3>3 DEF Bump
    <3>5. Leaves(th, t, p)'
      BY <1>7, <2>3, ZenonT(60) DEF Exits, Leaves, Goes
    <3> QED BY <1>0, <1>3, <2>3, <3>4, <3>5 DEF Leaving
  <2>4. CASE ~(tk[th] = t /\ cu[th] = p)
    <3>1. exits'[t][p] = exits[t][p]
      BY <1>0, <2>2, <2>4, ZenonT(60)
    <3> QED BY <1>1, <1>4, <2>1, <3>1, LeavingKept
  <2> QED BY <2>3, <2>4
<1>8. CASE Moves(th) \/ Finishes(th)
  <2>1. /\ exits' = exits /\ current' = [current EXCEPT ![tk[th]] = ExitState(cu[th])]
        /\ pc[th] \in HoldsPhase
    BY <1>8, ZenonT(60) DEF Moves, Finishes, HoldsPhase
  <2>2. CASE tk[th] # t
    BY <1>0, <1>1, <1>4, <2>1, <2>2, LeavingKept, ZenonT(60) DEF Leaves
  <2>3. CASE tk[th] = t
    <3>1. current[t] = cu[th] /\ cu[th] \in Phases /\ current'[t] = ExitState(cu[th])
      BY <1>0, <1>3, <2>1, <2>3, ZenonT(60)
    <3>2. CASE Finishes(th)
      BY <1>4, <2>1, <3>1, <3>2, ZenonT(60) DEF Finishes
    <3>3. CASE Moves(th)
      <4>1. current'[t] = cu[th] + 1
        <5>1. ExitState(cu[th]) \in Phases
          BY <3>3 DEF Moves
        <5>2. cu[th] \in Phases
          BY <3>1
        <5>3. ExitState(cu[th]) = cu[th] + 1
          BY <5>1, <5>2, LinearMove
        <5> QED BY <3>1, <5>3
      <4>2. Leaving(t, p) => cu[th] = p
        <5>1. ASSUME NEW o \in Threads, Leaves(o, t, p) PROVE cu[th] = p
          BY <1>2, <2>3, <5>1, TrackersApart DEF Leaves, InCall
        <5> QED BY <5>1 DEF Leaving
      <4>3. cu[th] \in Nat /\ p \in Nat /\ cu[th] # 0
        BY <1>0, <3>1
      <4>4. exits[t][p] > 0 => p < cu[th] \/ p = cu[th]
        BY <1>4, <3>1, <4>2, <4>3
      <4>5. exits[t][p] > 0 => p < cu[th] + 1
        BY <4>3, <4>4, SMTT(30)
      <4> QED BY <1>4, <2>1, <4>1, <4>5, ZenonT(60)
    <3> QED BY <1>8, <3>2, <3>3, ZenonT(60)
  <2> QED BY <2>2, <2>3, ZenonT(60)
<1> QED BY <1>6, <1>7, <1>8 DEF Effect

LEMMA ExitCall ==
  ASSUME SerialInv, ExitInv, NEW th \in Threads, NEW s \in Sessions, CallEffect(th, s)
  PROVE  ExitInv'
<1>0. /\ current \in [Trackers -> 0 .. N] /\ exits \in [Trackers -> [Phases -> 0 .. 2]]
      /\ used \in Nat
  BY SMTT(30) DEF SerialInv, Parts, TrackerTypeOK, RunnerTypeOK
<1>1. Others(th) /\ \A t, p : ~Leaves(th, t, p)
  BY ZenonT(60) DEF CallEffect, Leaves
<1>2. exits' = exits
  BY DEF CallEffect, Looks, Begins, Removes
<1> SUFFICES ASSUME NEW t \in Trackers, NEW p \in Phases \ ExitFails, p < N
             PROVE  /\ t > used' => exits[t][p] = 0
                    /\ exits[t][p] <= 1
                    /\ exits[t][p] > 0 => \/ p < current'[t]
                                          \/ current'[t] = StateNone
                                          \/ Leaving(t, p)'
  BY <1>2 DEF ExitInv
<1>3. /\ t > used => exits[t][p] = 0
      /\ exits[t][p] <= 1
      /\ exits[t][p] > 0 => p < current[t] \/ current[t] = StateNone \/ Leaving(t, p)
  BY DEF ExitInv
<1>4. t \in Nat
  BY PipelineAssumption DEF Trackers
<1>5. CASE Begins(th, s)
  <2>1. used' = used + 1 /\ current' = [current EXCEPT ![used + 1] = 1]
    BY <1>5 DEF Begins
  <2>2. CASE t = used + 1
    BY <1>0, <1>3, <2>1, <2>2, SMTT(30)
  <2>3. CASE t # used + 1
    <3>1. current'[t] = current[t] /\ (t > used' => t > used)
      BY <1>0, <1>4, <2>1, <2>3, SMTT(30)
    <3> QED BY <1>1, <1>3, <3>1, LeavingKept
  <2> QED BY <2>2, <2>3, ZenonT(60)
<1>6. CASE Looks(th, s) \/ Removes(th, s)
  <2>1. UNCHANGED <<used, current>>
    BY <1>6 DEF Looks, Removes
  <2> QED BY <1>1, <1>3, <2>1, LeavingKept, ZenonT(60)
<1> QED BY <1>5, <1>6, ZenonT(60) DEF CallEffect

\* In a pipeline whose last phase does not exit to another, Exit runs at
\* most once per phase of a session, retries of a failing Exit aside,
\* however messages, AdvanceToState calls and session ends follow each other.
THEOREM ExitOnceSafe ==
  ASSUME Linear
  PROVE  SerialSpec => []ExitOnceSerial
<1>1. Init => ExitInv
  BY PipelineAssumption DEF Init, ExitInv, Trackers
<1>2. SerialInv /\ ExitInv /\ [SerialNext]_vars => ExitInv'
  <2> SUFFICES ASSUME SerialInv, ExitInv, [SerialNext]_vars PROVE ExitInv'
    BY ZenonT(60)
  <2>1. CASE UNCHANGED vars
    <3>1. UNCHANGED <<used, current, exits, pc, tk, cu>>
      BY <2>1 DEF vars, trackerVars, frameVars
    <3>2. \A t, p : Leaving(t, p)' <=> Leaving(t, p)
      BY <3>1 DEF Leaving, Leaves
    <3> QED BY <3>1, <3>2 DEF ExitInv
  <2> QED BY <2>1, SerialKept, ExitEffect, ExitCall DEF SerialMove
<1>3. ExitInv => ExitOnceSerial
  BY DEF ExitInv, ExitOnceSerial
<1> QED BY <1>1, <1>2, <1>3, SerialDiscipline, PTL DEF SerialSpec

-----------------------------------------------------------------------------
(* The cascade is not cut short by the hop limit.                          *)

\* Phases are numbered from one, StateNone is zero.
LEMMA PhaseNumbers == \A p \in Phases : p \in Nat /\ p > 0 /\ p # StateNone
BY PipelineAssumption, SMTT(30) DEF Phases, StateNone

\* In a linear pipeline a call has made fewer hops than the phase it is on.
HopBound(th) ==
  /\ pc[th] \in {"idle", "hmRead", "hmMsg", "hmCheck"} => hop[th] = 0
  /\ pc[th] \in {"advRead", "advExit", "advMove"} => hop[th] < cu[th]
  /\ pc[th] \in {"advEnter", "advEntered"} => hop[th] + 1 < cu[th]

LEMMA HopEffect ==
  ASSUME Linear, SerialInv, NEW th \in Threads, HopBound(th), Effect(th)
  PROVE  HopBound(th)'
<1> USE DEF Goes, Ends
<1>0. hop[th] \in Nat /\ N \in Nat \ {0} /\ Phases = 1 .. N /\ RunnerTypeOK
  BY PipelineAssumption, SMTT(30) DEF SerialInv, Parts, FrameTypeOK, Phases
<1>1. InCall(th)
  BY ZenonT(60) DEF Effect, Quiet, QuietEnd, QuietGo, Stores, Exits, Moves, Finishes, Fails, InCall
<1>2. pc[th] \in HoldsPhase => cu[th] = current[tk[th]] /\ cu[th] \in Phases
  BY <1>1, InCallFacts, ZenonT(60)
<1>3. CASE Ends(th)
  BY <1>3, ZenonT(60) DEF HopBound
<1>4. CASE QuietGo(th)
  <2>1. CASE pc'[th] \in {"advRead", "advExit"}
    <3>1. pc[th] \in {"hmCheck", "advRead", "advEntered"} /\ cu'[th] = cu[th] /\ cu[th] \in Phases
      BY <1>2, <1>4, <2>1, Zenon DEF QuietGo, HoldsPhase
    <3>2. cu[th] \in Nat /\ cu[th] > 0
      <4>1. cu[th] \in Phases
        BY <3>1, ZenonT(60)
      <4> QED BY <4>1, PhaseNumbers, ZenonT(60)
    <3>3. \/ pc[th] \in {"hmCheck", "advRead"} /\ hop'[th] = hop[th]
          \/ pc[th] = "advEntered" /\ hop'[th] = hop[th] + 1
      BY <1>4, <2>1 DEF QuietGo
    <3>4. /\ pc[th] = "hmCheck" => hop[th] = 0
          /\ pc[th] = "advRead" => hop[th] < cu[th]
          /\ pc[th] = "advEntered" => hop[th] + 1 < cu[th]
      BY ZenonT(60) DEF HopBound
    <3>5. hop'[th] < cu'[th]
      BY <3>1, <3>2, <3>3, <3>4, ZenonT(60)
    <3> QED BY <2>1, <3>5, ZenonT(60) DEF HopBound
  <2>2. CASE pc'[th] = "advEntered"
    <3>1. pc[th] = "advEnter" /\ cu'[th] = cu[th]
      BY <1>2, <1>4, <2>2, Zenon DEF QuietGo, HoldsPhase
    <3> QED BY <1>4, <2>2, <3>1, ZenonT(60) DEF QuietGo, HopBound
  <2>3. CASE pc'[th] \in {"hmRead", "hmMsg"}
    BY <1>4, <2>3 DEF QuietGo, HopBound
  <2> QED BY <1>4, <2>1, <2>2, <2>3, ZenonT(60) DEF QuietGo, HopBound
<1>5. CASE Stores(th)
  BY <1>5 DEF Stores, HopBound
<1>6. CASE Exits(th)
  BY <1>3, <1>6, ZenonT(60) DEF Exits, HopBound
<1>7. CASE Moves(th)
  <2>1. cu[th] \in Phases /\ ExitState(cu[th]) \in Phases /\ cu'[th] = ExitState(cu[th])
    BY <1>2, <1>7, Zenon DEF Moves, HoldsPhase
  <2>2. cu'[th] = cu[th] + 1 /\ cu[th] \in Nat
    BY <1>0, <2>1, LinearMove
  <2>3. CASE pc[th] = "advMove" /\ pc'[th] = "advEnter" /\ hop'[th] = hop[th]
    <3>1. hop[th] < cu[th]
      BY <2>3 DEF HopBound
    <3>2. hop'[th] + 1 < cu'[th]
      BY <1>0, <2>2, <2>3, <3>1
    <3> QED BY <2>3, <3>2 DEF HopBound
  <2>4. CASE pc'[th] = "walkEnter"
    BY <2>4 DEF HopBound
  <2> QED BY <1>7, <2>3, <2>4, ZenonT(60) DEF Moves
<1> QED BY <1>3, <1>4, <1>5, <1>6, <1>7 DEF Effect, Quiet, QuietEnd, Finishes, Fails

LEMMA HopKept ==
  ASSUME Linear, SerialInv, \A th \in Threads : HopBound(th), [SerialNext]_vars
  PROVE  \A th \in Threads : HopBound(th)'
<1>1. ASSUME NEW th \in Threads, NEW o \in Threads, Others(o), o # th
      PROVE  HopBound(th)'
  BY <1>1 DEF Others, HopBound
<1>2. ASSUME NEW o \in Threads, Effect(o)
      PROVE  \A th \in Threads : HopBound(th)'
  BY <1>1, <1>2, HopEffect DEF Effect
<1>3. ASSUME NEW o \in Threads, NEW s \in Sessions, CallEffect(o, s)
      PROVE  \A th \in Threads : HopBound(th)'
  <2>1. HopBound(o)'
    BY <1>3, ZenonT(60) DEF CallEffect, Looks, Begins, Removes, HopBound
  <2> QED BY <1>1, <1>3, <2>1 DEF CallEffect
<1>4. CASE UNCHANGED vars
  BY <1>4, Zenon DEF vars, frameVars, HopBound
<1> QED BY <1>2, <1>3, <1>4, SerialKept, ZenonT(60) DEF SerialMove

\* In a pipeline whose last phase does not exit to another, a cascade ends
\* only where a message can be consumed or work is outstanding, however many
\* phases in a row are complete on entry: the hop limit never ends it.
THEOREM CascadeSafe ==
  ASSUME Linear
  PROVE  SerialSpec => CascadeReachesInput
<1> DEFINE HopInv == \A th \in Threads : HopBound(th)
<1>1. Init => HopInv
  BY DEF Init, HopBound
<1>2. SerialInv /\ HopInv /\ [SerialNext]_vars => HopInv'
  BY HopKept
<1>3. SerialInv /\ HopInv /\ [SerialNext]_vars =>
        [\A th \in Threads : pc[th] = "advEntered" /\ pc'[th] = "idle" =>
           LET p == current[tk[th]] IN
           Consumes[p] # {} \/ ~CheckComplete(tk[th], p)]_vars
  <2> SUFFICES ASSUME SerialInv, HopInv, [SerialNext]_vars, NEW th \in Threads,
                      pc[th] = "advEntered", pc'[th] = "idle"
               PROVE  Consumes[current[tk[th]]] # {} \/ ~CheckComplete(tk[th], current[tk[th]])
    BY ZenonT(60)
  <2>1. Effect(th)
    <3>1. ASSUME NEW o \in Threads, o # th PROVE ~Others(o)
      BY <3>1 DEF Others
    <3>2. ~UNCHANGED vars
      BY DEF vars, frameVars
    <3>3. ASSUME NEW o \in Threads, NEW s \in Sessions, CallEffect(o, s) PROVE FALSE
      BY <3>1, <3>3, ZenonT(60) DEF CallEffect
    <3> QED BY <3>1, <3>2, <3>3, SerialKept, ZenonT(60) DEF SerialMove, Effect
  <2>2. QuietEnd(th)
    BY <2>1 DEF Effect, Quiet, QuietGo, Stores, Exits, Moves, Finishes, Fails
  <2>3. cu[th] = current[tk[th]] /\ cu[th] \in Phases
    BY InCallFacts, ZenonT(60) DEF InCall, HoldsPhase
  <2>4. hop[th] + 1 < cu[th] /\ hop[th] \in Nat
    BY SMTT(30) DEF HopBound, SerialInv, Parts, FrameTypeOK
  <2>5. ~(hop[th] + 1 >= HopCap)
    BY <2>3, <2>4, PipelineAssumption, SMTT(30) DEF Phases
  <2> QED BY <2>2, <2>3, <2>5 DEF QuietEnd
<1> QED BY <1>1, <1>2, <1>3, SerialDiscipline, PTL DEF SerialSpec, CascadeReachesInput

-----------------------------------------------------------------------------
(* A complete quorum moves its session.                                    *)

\* A call is on its way from the message that completed the phase to the
\* transition.
Completes(th, t) ==
  pc[th] \in {"hmCheck", "advRead", "advExit", "advMove"} /\ tk[th] = t

Completing(t) == \E th \in Threads : Completes(th, t)

\* QuorumNeverStrands made inductive: phases a session has not reached have
\* no senders, and a complete phase has a call completing it.
QuorumInv ==
  /\ \A t \in Trackers, p \in Phases :
       t > used \/ (current[t] # StateNone /\ p > current[t]) => bucket[t][p] = {}
  /\ \A t \in Trackers : \A p \in Phases \ ExitFails :
       current[t] = p /\ Need[p] > 0 /\ CheckComplete(t, p) => Completing(t)

\* The recursive function Cardinality is made of, at its base case.
LEMMA EmptyCardinality == Cardinality({}) = 0
<1> DEFINE step(f) == [T \in SUBSET {} |-> IF T = {} THEN 0 ELSE 1 + f[T \ {CHOOSE x : x \in T}]]
           CS == CHOOSE f : f = step(f)
           zero == [T \in SUBSET {} |-> 0]
<1>1. zero = step(zero)
  OBVIOUS
<1>2. \E f : f = step(f)
  BY <1>1, Zenon
<1>3. CS = step(CS)
  BY <1>2, Zenon
<1>4. CS[{}] = 0
  <2> HIDE DEF CS
  <2> QED BY <1>3
<1>5. Cardinality({}) = CS[{}]
  BY DEF Cardinality
<1> QED BY <1>4, <1>5

LEMMA NoQuorum ==
  ASSUME NEW t \in Trackers, NEW p \in Phases, bucket[t][p] = {}, Need[p] > 0
  PROVE  ~CheckComplete(t, p)
<1>1. Cardinality({}) = 0
  BY EmptyCardinality
<1>2. Need[p] \in Nat
  BY PhaseAssumption
<1> QED BY <1>1, <1>2 DEF CheckComplete

LEMMA CompletingKept ==
  ASSUME NEW th \in Threads, Others(th), NEW t, Completing(t),
         Completes(th, t) => Completes(th, t)'
  PROVE  Completing(t)'
<1>1. PICK o \in Threads : Completes(o, t)
  BY DEF Completing
<1>2. Completes(o, t)'
  BY <1>1, ZenonT(60) DEF Others, Completes
<1> QED BY <1>2 DEF Completing

LEMMA QuorumEffect ==
  ASSUME TerminalExits \subseteq {StateNone}, SerialInv, QuorumInv,
         NEW th \in Threads, Effect(th)
  PROVE  QuorumInv'
<1> USE DEF StateNone
<1>0. /\ current \in [Trackers -> 0 .. N]
      /\ bucket \in [Trackers -> [Phases -> SUBSET Senders]]
      /\ used \in Nat /\ N \in Nat \ {0} /\ Phases = 1 .. N
      /\ RunnerTypeOK /\ Linear /\ Need \in [Phases -> Nat]
  BY PipelineAssumption, PhaseAssumption
     DEF SerialInv, Parts, TrackerTypeOK, RunnerTypeOK, Phases, Linear
<1>1. Others(th) /\ UNCHANGED used
  BY ZenonT(60) DEF Effect, Quiet, Stores, Exits, Moves, Finishes, Fails
<1>2. InCall(th)
  BY ZenonT(60) DEF Effect, Quiet, QuietEnd, QuietGo, Stores, Exits, Moves, Finishes, Fails, InCall
<1>3. /\ tk[th] \in 1 .. used /\ tk[th] \in Trackers
      /\ pc[th] \in HoldsPhase => cu[th] = current[tk[th]] /\ cu[th] \in Phases
  BY <1>2, InCallFacts, ZenonT(60)
<1> DEFINE Fresh(t, p) ==
             t > used \/ (current[t] # 0 /\ p > current[t]) => bucket[t][p] = {}
           Done(t, p) ==
             current[t] = p /\ Need[p] > 0 /\ CheckComplete(t, p) => Completing(t)
<1>4. \A t \in Trackers : \A p \in Phases : Fresh(t, p)
  BY DEF QuorumInv
<1>5. \A t \in Trackers : \A p \in Phases \ ExitFails : Done(t, p)
  BY DEF QuorumInv
<1> SUFFICES ASSUME NEW t \in Trackers
             PROVE  /\ \A p \in Phases : Fresh(t, p)'
                    /\ \A p \in Phases \ ExitFails : Done(t, p)'
  BY DEF QuorumInv
<1>6. ASSUME current'[t] = current[t], bucket'[t] = bucket[t],
             \A p \in Phases \ ExitFails :
                current[t] = p /\ CheckComplete(t, p) /\ Completes(th, t) => Completes(th, t)'
      PROVE  /\ \A p \in Phases : Fresh(t, p)'
             /\ \A p \in Phases \ ExitFails : Done(t, p)'
  <2>1. \A p \in Phases : Fresh(t, p)'
    BY <1>1, <1>4, <1>6
  <2>2. ASSUME NEW p \in Phases \ ExitFails PROVE Done(t, p)'
    <3> SUFFICES ASSUME current'[t] = p, Need[p] > 0, CheckComplete(t, p)'
                 PROVE  Completing(t)'
      BY ZenonT(60)
    <3>1. current[t] = p /\ CheckComplete(t, p)
      BY <1>6, ZenonT(60) DEF CheckComplete
    <3>2. Completing(t)
      BY <1>5, <3>1, ZenonT(60)
    <3>3. Completes(th, t) => Completes(th, t)'
      BY <1>6, <3>1, ZenonT(60)
    <3> QED BY <1>1, <3>2, <3>3, CompletingKept
  <2> QED BY <2>1, <2>2
<1>7. CASE Quiet(th)
  <2>1. current' = current /\ bucket' = bucket
    BY <1>7 DEF Quiet
  <2>2. ASSUME NEW p \in Phases \ ExitFails, current[t] = p, CheckComplete(t, p), Completes(th, t)
        PROVE  Completes(th, t)'
    <3>1. cu[th] = p /\ tk[th] = t
      BY <1>3, <2>2, ZenonT(60) DEF Completes, HoldsPhase
    <3>2. CASE QuietEnd(th)
      <4>1. pc[th] = "advMove"
        BY <2>2, <3>1, <3>2, ZenonT(60) DEF QuietEnd, Completes
      <4> QED BY <1>0, <3>1, <3>2, <4>1, LinearExit, PipelineAssumption, ZenonT(60)
              DEF QuietEnd, ExitState, RunnerTypeOK
    <3>3. CASE QuietGo(th)
      BY <2>2, <3>3, ZenonT(60) DEF QuietGo, Goes, Completes
    <3> QED BY <1>7, <3>2, <3>3 DEF Quiet
  <2> QED BY <1>6, <2>1, <2>2, ZenonT(60)
<1>8. CASE Stores(th)
  <2>1. current' = current /\ bucket' = [bucket EXCEPT ![tk[th]][cu[th]] = @ \cup {arg[th].from}]
    BY <1>8 DEF Stores
  <2>2. cu[th] = current[tk[th]] /\ cu[th] \in Phases
    BY <1>3, <1>8, ZenonT(60) DEF Stores, HoldsPhase
  <2>3. CASE t # tk[th]
    <3>1. current'[t] = current[t] /\ bucket'[t] = bucket[t]
      BY <1>0, <2>1, <2>3
    <3>2. ~Completes(th, t)
      BY <2>3, Zenon DEF Completes
    <3> QED BY <1>6, <3>1, <3>2, Zenon
  <2>4. CASE t = tk[th]
    <3>1. \A p \in Phases : p # cu[th] => bucket'[t][p] = bucket[t][p]
      BY <1>0, <2>1, <2>4
    <3>2. \A p \in Phases : Fresh(t, p)'
      <4> SUFFICES ASSUME NEW p \in Phases PROVE Fresh(t, p)'
        OBVIOUS
      <4>1. CASE p # cu[th]
        BY <1>1, <1>4, <2>1, <3>1, <4>1
      <4>2. CASE p = cu[th]
        <5>1. ~(t > used) /\ ~(p > current[t])
          BY <1>0, <1>3, <2>2, <2>4, <4>2
        <5> QED BY <1>1, <2>1, <5>1
      <4> QED BY <4>1, <4>2, Zenon
    <3>3. Completes(th, t)'
      BY <1>8, <2>4, ZenonT(60) DEF Stores, Goes, Completes
    <3> QED BY <3>2, <3>3 DEF Completing
  <2> QED BY <2>3, <2>4, ZenonT(60)
<1>9. CASE Exits(th)
  <2>1. current' = current /\ bucket' = bucket
    BY <1>9 DEF Exits
  <2>2. ASSUME NEW p \in Phases \ ExitFails, current[t] = p, Completes(th, t)
        PROVE  Completes(th, t)'
    <3>1. cu[th] = p
      BY <1>3, <2>2, ZenonT(60) DEF Completes, HoldsPhase
    <3> QED BY <1>9, <2>2, <3>1 DEF Exits, Goes, Completes
  <2> QED BY <1>6, <2>1, <2>2, ZenonT(60)
<1>10. CASE Moves(th) \/ Finishes(th)
  <2>1. /\ bucket' = bucket /\ current' = [current EXCEPT ![tk[th]] = ExitState(cu[th])]
        /\ pc[th] \in HoldsPhase
    BY <1>10, ZenonT(60) DEF Moves, Finishes, HoldsPhase
  <2>2. CASE t # tk[th]
    <3>1. current'[t] = current[t] /\ bucket'[t] = bucket[t]
      BY <1>0, <2>1, <2>2
    <3>2. ~Completes(th, t)
      BY <2>2, Zenon DEF Completes
    <3> QED BY <1>6, <3>1, <3>2, Zenon
  <2>3. CASE t = tk[th]
    <3>1. current[t] = cu[th] /\ cu[th] \in Phases /\ current'[t] = ExitState(cu[th])
      BY <1>0, <1>3, <2>1, <2>3, ZenonT(60)
    <3>2. CASE Finishes(th)
      <4>1. current'[t] = 0
        BY <3>1, <3>2 DEF Finishes
      <4>2. ~(t > used')
        BY <1>0, <1>1, <1>3, <2>3
      <4>3. \A p \in Phases : current'[t] # p
        BY <1>0, <4>1
      <4> QED BY <4>1, <4>2, <4>3
    <3>3. CASE Moves(th)
      <4>1. current'[t] = cu[th] + 1
        <5>1. ExitState(cu[th]) \in Phases
          BY <3>3, Zenon DEF Moves
        <5>2. Linear /\ cu[th] \in Phases
          BY <1>0, <3>1
        <5>3. ExitState(cu[th]) = cu[th] + 1
          BY <5>1, <5>2, LinearMove
        <5> QED BY <3>1, <5>3, ZenonT(60)
      <4>2. ASSUME NEW p \in Phases PROVE Fresh(t, p)'
        <5>1. current[t] \in Nat \ {0} /\ p \in Nat
          BY <1>0, <3>1
        <5>2. p > current[t] => bucket[t][p] = {}
          BY <1>4, <5>1, ZenonT(60)
        <5>3. p > current'[t] => p > current[t]
          BY <3>1, <4>1, <5>1
        <5>4. ~(t > used')
          BY <1>0, <1>1, <1>3, <2>3
        <5> QED BY <2>1, <5>2, <5>3, <5>4
      <4>3. ASSUME NEW p \in Phases, current'[t] = p, Need[p] > 0
            PROVE  ~CheckComplete(t, p)'
        <5>1. bucket[t][p] = {}
          BY <1>0, <1>4, <3>1, <4>1, <4>3, SMTT(30)
        <5>2. ~CheckComplete(t, p)
          BY <4>3, <5>1, NoQuorum, ZenonT(60)
        <5> QED BY <2>1, <5>2 DEF CheckComplete
      <4> QED BY <4>2, <4>3
    <3> QED BY <1>10, <3>2, <3>3, ZenonT(60)
  <2> QED BY <2>2, <2>3, ZenonT(60)
<1>11. CASE Fails(th)
  BY <1>6, <1>11 DEF Fails, Completes
<1> QED BY <1>7, <1>8, <1>9, <1>10, <1>11, ZenonT(60) DEF Effect

LEMMA QuorumCall ==
  ASSUME SerialInv, QuorumInv, NEW th \in Threads, NEW s \in Sessions, CallEffect(th, s)
  PROVE  QuorumInv'
<1> USE DEF StateNone
<1>0. /\ current \in [Trackers -> 0 .. N] /\ used \in Nat
      /\ bucket \in [Trackers -> [Phases -> SUBSET Senders]]
      /\ Trackers \subseteq Nat /\ Phases \subseteq Nat
  BY PipelineAssumption, SMTT(30) DEF SerialInv, Parts, TrackerTypeOK, RunnerTypeOK, Trackers, Phases
<1>1. Others(th) /\ bucket' = bucket /\ \A t : ~Completes(th, t)
  BY ZenonT(60) DEF CallEffect, Looks, Begins, Removes, Completes
<1>2. CASE Begins(th, s)
  <2>1. used' = used + 1 /\ current' = [current EXCEPT ![used + 1] = 1]
    BY <1>2, ZenonT(60) DEF Begins
  <2>2. ASSUME NEW t \in Trackers, NEW p \in Phases,
               t > used' \/ (current'[t] # 0 /\ p > current'[t])
        PROVE  bucket'[t][p] = {}
    BY <1>0, <1>1, <2>1, <2>2, SMTT(30) DEF QuorumInv
  <2>3. ASSUME NEW t \in Trackers, NEW p \in Phases \ ExitFails,
               current'[t] = p, Need[p] > 0, CheckComplete(t, p)'
        PROVE  Completing(t)'
    <3>1. CheckComplete(t, p)
      BY <1>1, <2>3, ZenonT(60) DEF CheckComplete
    <3>2. t # used + 1
      <4>1. t = used + 1 => bucket[t][p] = {}
        BY <1>0 DEF QuorumInv
      <4> QED BY <2>3, <3>1, <4>1, NoQuorum, ZenonT(60)
    <3>3. current[t] = p
      BY <1>0, <2>1, <2>3, <3>2, ZenonT(60)
    <3> QED BY <1>1, <2>3, <3>1, <3>3, CompletingKept, ZenonT(60) DEF QuorumInv
  <2> QED BY <2>2, <2>3, ZenonT(60) DEF QuorumInv
<1>3. CASE Looks(th, s) \/ Removes(th, s)
  <2>1. UNCHANGED <<used, current>>
    BY <1>3, ZenonT(60) DEF Looks, Removes
  <2>2. \A t \in Trackers, p \in Phases : CheckComplete(t, p)' <=> CheckComplete(t, p)
    BY <1>1 DEF CheckComplete
  <2>3. \A t \in Trackers : Completing(t) => Completing(t)'
    BY <1>1, CompletingKept
  <2>4. ASSUME NEW t \in Trackers, NEW p \in Phases,
               t > used' \/ (current'[t] # 0 /\ p > current'[t])
        PROVE  bucket'[t][p] = {}
    BY <1>1, <2>1, <2>4, Zenon DEF QuorumInv
  <2>5. ASSUME NEW t \in Trackers, NEW p \in Phases \ ExitFails,
               current'[t] = p, Need[p] > 0, CheckComplete(t, p)'
        PROVE  Completing(t)'
    <3>1. CheckComplete(t, p) /\ current[t] = p
      BY <2>1, <2>2, <2>5, Zenon
    <3> QED BY <2>3, <2>5, <3>1, Zenon DEF QuorumInv
  <2> QED BY <2>4, <2>5, Zenon DEF QuorumInv
<1> QED BY <1>2, <1>3 DEF CallEffect

\* In a pipeline whose last phase ends the session, no session rests, with
\* no call in progress on it, on a phase whose quorum is complete, unless the
\* phase's Exit has failed: the message that completes a quorum moves it.
THEOREM QuorumSafe ==
  ASSUME TerminalExits \subseteq {StateNone}
  PROVE  SerialSpec => []QuorumNeverStrands
<1>1. Init => QuorumInv
  <2> SUFFICES ASSUME Init PROVE QuorumInv
    OBVIOUS
  <2>1. \A t \in Trackers, p \in Phases : bucket[t][p] = {} /\ current[t] = StateNone
    BY DEF Init
  <2>2. \A p \in Phases : p # StateNone
    BY PhaseNumbers
  <2> QED BY <2>1, <2>2, Zenon DEF QuorumInv
<1>2. SerialInv /\ QuorumInv /\ [SerialNext]_vars => QuorumInv'
  <2> SUFFICES ASSUME SerialInv, QuorumInv, [SerialNext]_vars PROVE QuorumInv'
    BY Zenon
  <2>1. CASE UNCHANGED vars
    BY <2>1, Zenon DEF vars, trackerVars, frameVars, QuorumInv, Completing, Completes, CheckComplete
  <2> QED BY <2>1, SerialKept, QuorumEffect, QuorumCall DEF SerialMove
<1>3. SerialInv /\ QuorumInv => QuorumNeverStrands
  <2> SUFFICES ASSUME SerialInv, QuorumInv, NEW s \in Sessions, NEW p \in Phases \ ExitFails,
                      sessions[s] # NoTracker, Free(s), current[sessions[s]] = p, Need[p] > 0,
                      CheckComplete(sessions[s], p)
               PROVE  FALSE
    BY DEF QuorumNeverStrands
  <2>1. sessions[s] \in Trackers /\ owner[sessions[s]] = s
    <3>1. sessions[s] \in 0 .. used /\ used \in 0 .. MaxTrackers
      BY DEF SerialInv, Parts, RunnerTypeOK
    <3>2. sessions[s] \in Trackers
      BY <3>1, PipelineAssumption, SMTT(30) DEF Trackers, NoTracker
    <3> QED BY <3>2 DEF SerialInv, Parts, TrackerInv
  <2>2. PICK th \in Threads : Completes(th, sessions[s])
    BY <2>1, ZenonT(60) DEF QuorumInv, Completing
  <2>3. InCall(th) /\ tk[th] = sessions[s]
    BY <2>2, Zenon DEF Completes, InCall
  <2>4. sid[th] = s
    BY <2>1, <2>3, InCallFacts
  <2> QED BY <2>4 DEF Free
<1> QED BY <1>1, <1>2, <1>3, SerialDiscipline, PTL DEF SerialSpec

=============================================================================
