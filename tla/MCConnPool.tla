------------------------------ MODULE MCConnPool ------------------------------
(***************************************************************************)
(* Four requests at once and a pool of three connections, so that it can be  *)
(* used up by scans alone, by a transaction and those that wait for it, and  *)
(* by both together.                                                         *)
(***************************************************************************)
EXTENDS ConnPool

CONSTANTS a, b, c, d
==============================================================================
