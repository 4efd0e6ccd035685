-------------------------- MODULE MCSessionRunner --------------------------
(***************************************************************************)
(* Instances of the session runner for TLC.  The pipeline has a keygen     *)
(* phase that waits for two senders, a compute phase that consumes nothing *)
(* and is complete on Enter, and a last phase any one message completes.   *)
(***************************************************************************)
EXTENDS SessionRunner, TLC

\* Message types: "a" for phase 1, "c" for phase 3.
MCConsumes == 1 :> {"a"} @@ 2 :> {} @@ 3 :> {"c"}
MCNeed == 1 :> 2 @@ 2 :> 0 @@ 3 :> 1
\* State 7 is a sub-state of phase 1, as KEYGEN is of LOCKED.
MCInternal == 1 :> {7} @@ 2 :> {} @@ 3 :> {}

\* The same with nothing consumed after the first phase: with a terminal exit of 2
\* the cascade runs around a cycle until the hop limit.
MCConsumesCycle == 1 :> {"a"} @@ 2 :> {} @@ 3 :> {}
MCNeedCycle == 1 :> 1 @@ 2 :> 0 @@ 3 :> 0

MCNeedOne == 1 :> 1 @@ 2 :> 0 @@ 3 :> 1
ThreadSymmetry == Permutations(Threads)
=============================================================================
