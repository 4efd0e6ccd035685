------------------------------ MODULE MCCrypto ------------------------------
(***************************************************************************)
(* A process that links the bridge, in one of the three ways it is used:   *)
(* an application that calls its functions one after the other, the helper *)
(* daemon behind a client, or the concurrent union scorer.                 *)
(***************************************************************************)
EXTENDS Helper, Union

VARIABLE role

AllFunctions == DOMAIN Program
OwnBundle    == [c \in Callers |-> c]
AnyWidth     == (-1)..(N + 1)

onlyHelper == <<user, mu, done, chain, stdin, stdout, eof, proc>>
mcVars     == <<role, helperVars, unionVars>>

MCInit == /\ HelperInit /\ UnionInit
          /\ role \in {"application", "helper", "union"}
          /\ role # "union" => width = 1 /\ ~preinserted

Application == /\ role = "application"
               /\ \E c \in Callers \ {Daemon} : NextOf(c)
               /\ UNCHANGED <<role, onlyHelper, unionVars>>
HelperSide  == role = "helper" /\ HelperNext /\ UNCHANGED <<role, unionVars>>
UnionSide   == role = "union" /\ UnionNext /\ UNCHANGED <<role, helperVars>>

MCNext == Application \/ HelperSide \/ UnionSide

MCSpec == MCInit /\ [][MCNext]_mcVars /\ HelperFairness /\ UnionFairness
=============================================================================
