----------------------------- MODULE MCLineage -----------------------------
(* Instances of the lineage layer for TLC.                                 *)
EXTENDS Lineage, TLC

\* One phase whose input is what a participant submitted for slot 1.
MCOnePhase == {"ranking"}
MCOneRequires == [p \in MCOnePhase |-> {"evalkeys"}]
MCOneProvides == [p \in MCOnePhase |-> {"winner"}]
MCOneValue == {{1}}

ThreadSymmetry == Permutations(Threads) \cup Permutations(Participants)

=============================================================================
