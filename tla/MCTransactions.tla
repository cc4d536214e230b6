---------------------------- MODULE MCTransactions ----------------------------
(***************************************************************************)
(* Two requests at once: for a poll with two members, a blinded message     *)
(* each and two choices, and for one asked for with labels of which two get  *)
(* the same identifier.                                                      *)
(***************************************************************************)
EXTENDS Transactions, TLC

CONSTANTS p1, p2, m1, m2, x, y, r1, b1, b2, c1, c2, h1, h2

MCRoster == p1 :> {m1, m2} @@ p2 :> {m1}
MCIdentifiersOf == p1 :> <<x, y>> @@ p2 :> <<x, y, x>>
MCClosesAt == p1 :> 1 @@ p2 :> 1
MCUnblind == b1 :> c1 @@ b2 :> c2

\* The handlers are alike.
MCHandlers == Permutations({h1, h2})
==============================================================================
