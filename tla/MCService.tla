----------------------------- MODULE MCService -----------------------------
(***************************************************************************)
(* The session services for TLC.                                           *)
(***************************************************************************)
EXTENDS Service

\* Not a number, soft, in the noise floor, in the bound, soft and hard.
MCValues == {-1, 935, 945, 1000, 1065, 2400}
=============================================================================
