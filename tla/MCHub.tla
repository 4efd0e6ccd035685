------------------------------- MODULE MCHub -------------------------------
(***************************************************************************)
(* The hub for TLC, in instances that differ in their constants alone: one *)
(* pseudonym whose frames come in, or two that messages are sent to.       *)
(***************************************************************************)
EXTENDS Hub

=============================================================================
