------------------------------ MODULE Pipeline ------------------------------
(***************************************************************************)
(* What the session runner promises of every session: it is untracked, on  *)
(* one phase of the pipeline, or done; it starts on the first phase, each  *)
(* transition follows the ExitState of the phase it is on, and it leaves   *)
(* the runner only by being ended.                                         *)
(***************************************************************************)
EXTENDS Integers

CONSTANTS Sessions, N, TerminalExits

VARIABLES
  pos,        \* pos[s]: -1 untracked, 0 done, else the current phase
  terminal    \* ExitState of the last phase, fixed when it is composed

Untracked == -1

Init ==
  /\ terminal \in TerminalExits
  /\ pos = [s \in Sessions |-> Untracked]

Begin(s) ==
  /\ pos[s] = Untracked
  /\ pos' = [pos EXCEPT ![s] = 1]

Transition(s) ==
  /\ pos[s] \in 1 .. N
  /\ LET next == IF pos[s] < N THEN pos[s] + 1 ELSE terminal IN
     /\ next \in 0 .. N
     /\ pos' = [pos EXCEPT ![s] = next]

End(s) == pos' = [pos EXCEPT ![s] = Untracked]

Next ==
  /\ UNCHANGED terminal
  /\ \E s \in Sessions : Begin(s) \/ Transition(s) \/ End(s)

Spec == Init /\ [][Next]_<<pos, terminal>>

=============================================================================
