----------------------------- MODULE MCVoteClient -----------------------------
(***************************************************************************)
(* One voter of one poll, who may pick another choice in every run.  The cfg *)
(* files choose how many runs there can be at once, and how often a run may  *)
(* be killed or cut off.  A blinded message to spare lets the voter start    *)
(* afresh after a finished vote.                                             *)
(***************************************************************************)
EXTENDS VoteClient, TLC

CONSTANTS p1, m1, m2, u1, u2, x, y, r1, r2, r3, b1, b2, b3, c1, c2, c3

MCRoster == p1 :> Members
MCChoicesOf == p1 :> {x, y}
MCClosesAt == p1 :> 1
MCUnblind == [b \in Blindings |-> CASE b = b1 -> c1 [] b = b2 -> c2 [] OTHER -> c3]
MCRequestFor == [b \in Blindings |-> CASE b = b1 -> r1 [] b = b2 -> r2 [] OTHER -> r3]

\* One voter, in one run of the command at a time or in two at once; the other stays away.
MCOneVoter == [u \in Runs |-> m1]
MCFickle == m1 :> {x, y} @@ m2 :> {}
==============================================================================
