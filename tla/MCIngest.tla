------------------------------ MODULE MCIngest ------------------------------
(***************************************************************************)
(* An instance of Ingest for TLC: a call, its retry on the other process   *)
(* while the first is still running, and a call with another key, all for  *)
(* one destination, in every combination of the forms of input.            *)
(***************************************************************************)
EXTENDS Ingest

CONSTANTS c1, c2, c3, k1, k2, p1, p2

KeyOfCall == [c \in Calls |-> IF c = c3 THEN k2 ELSE k1]
ProcessOfCall == [c \in Calls |-> IF c = c2 THEN p2 ELSE p1]
=============================================================================
