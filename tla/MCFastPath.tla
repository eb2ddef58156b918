----------------------------- MODULE MCFastPath -----------------------------
(***************************************************************************)
(* Instances of FastPath for TLC: two requests of one tenant, one provider *)
(* and any two faults.                                                     *)
(***************************************************************************)
EXTENDS FastPath

CONSTANTS q1, q2, p1
=============================================================================
