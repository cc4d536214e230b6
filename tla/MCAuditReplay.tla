---------------------------- MODULE MCAuditReplay ----------------------------
(***************************************************************************)
(* One poll, two members with a blinded message each, two choices: up to     *)
(* two ballots between the first and the last event of the log, in the first *)
(* life of the database and in the one after a restore.                      *)
(***************************************************************************)
EXTENDS Backups, TLC

CONSTANTS p1, m1, m2, x, y, r1, b1, b2, c1, c2

MCRoster == p1 :> {m1, m2}
MCChoicesOf == p1 :> {x, y}
MCClosesAt == p1 :> 1
MCUnblind == b1 :> c1 @@ b2 :> c2
==============================================================================
