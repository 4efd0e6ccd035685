------------------------------ MODULE MCBridge ------------------------------
(* Two goroutines that evaluate with one bundle of keys. *)
EXTENDS Bridge
OneBundle == [c \in Callers |-> "bundle"]
=============================================================================
