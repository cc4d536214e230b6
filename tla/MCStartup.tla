------------------------------ MODULE MCStartup ------------------------------
(***************************************************************************)
(* Two servers and a diagnosis on one directory, two keys of each kind, so   *)
(* that each server can generate its own and a lost key be replaced.         *)
(***************************************************************************)
EXTENDS Startup

CONSTANTS s1, s2, d, k1, k2, i1, i2
==============================================================================
