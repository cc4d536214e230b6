----------------------------- MODULE MCSequencer -----------------------------
(***************************************************************************)
(* Two polls over one clock, of which one can expire: the first in depth,   *)
(* with two members who share two request identifiers and three blinded     *)
(* messages, so that a claim can meet its own retry, the same request with  *)
(* another message, another request and the other member's message; the     *)
(* second with one of these members only, where everything obtained in the  *)
(* first is offered again.  A third member is on neither roster.            *)
(***************************************************************************)
EXTENDS Sequencer, TLC

CONSTANTS p1, p2, m1, m2, m3, x, y, z, r1, r2, b1, b2, b3, c1, c2, c3

MCRoster == p1 :> {m1, m2} @@ p2 :> {m2}
MCChoicesOf == p1 :> {x, y} @@ p2 :> {z}
MCClosesAt == p1 :> 1 @@ p2 :> 2
MCUnblind == b1 :> c1 @@ b2 :> c2 @@ b3 :> c3
==============================================================================
