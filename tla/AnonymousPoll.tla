---------------------------- MODULE AnonymousPoll ----------------------------
(***************************************************************************)
(* What the vota sequencer promises, without logs, tables or retries: each  *)
(* eligible member obtains at most one blind signature per poll, each       *)
(* credential obtained from such a signature is worth one ballot, and the   *)
(* close fixes the result, which counts exactly the ballots cast.           *)
(*                                                                         *)
(* A credential does not name its member.  The only link the sequencer can  *)
(* check is that some signature it issued for the poll unblinds to it.      *)
(***************************************************************************)
EXTENDS Naturals, FiniteSets

CONSTANTS
  Polls,        \* polls an administrator may create
  Members,      \* SSH fingerprints
  Credentials,  \* unblinded credentials
  Choices,      \* choice identifiers
  Blindings,    \* blinded messages
  Roster,       \* Roster[p]: the members eligible in poll p
  ChoicesOf,    \* ChoicesOf[p]: the choices of poll p
  Unblind,      \* Unblind[b]: the credential a client makes of the signature on b
  None          \* the value of what has not been set

VARIABLES
  phase,    \* phase[p] \in {"absent", "open", "closed"}
  holder,   \* holder[p][m]: the blinded message signed for member m, or None
  votes,    \* votes[p][c]: the choice redeemed with credential c, or None
  outcome   \* outcome[p]: the totals per choice once p is closed, or None

pollVars == <<phase, holder, votes, outcome>>

PollInit ==
  /\ phase = [p \in Polls |-> "absent"]
  /\ holder = [p \in Polls |-> [m \in Members |-> None]]
  /\ votes = [p \in Polls |-> [c \in Credentials |-> None]]
  /\ outcome = [p \in Polls |-> None]

\* The credential can be redeemed: a signature issued in p unblinds to it.
Redeemable(p, c) ==
  \E m \in Members : holder[p][m] # None /\ Unblind[holder[p][m]] = c

VotesFor(p, ch) == Cardinality({c \in Credentials : votes[p][c] = ch})

\* What the result says of the ballots cast so far: one total per choice.
Outcome(p) == {[choice |-> ch, total |-> VotesFor(p, ch)] : ch \in ChoicesOf[p]}

Create(p) ==
  /\ phase[p] = "absent"
  /\ phase' = [phase EXCEPT ![p] = "open"]
  /\ UNCHANGED <<holder, votes, outcome>>

Issue(p, m, b) ==
  /\ phase[p] = "open"
  /\ m \in Roster[p]
  /\ holder[p][m] = None
  /\ holder' = [holder EXCEPT ![p][m] = b]
  /\ UNCHANGED <<phase, votes, outcome>>

Cast(p, c, ch) ==
  /\ phase[p] = "open"
  /\ Redeemable(p, c)
  /\ votes[p][c] = None
  /\ votes' = [votes EXCEPT ![p][c] = ch]
  /\ UNCHANGED <<phase, holder, outcome>>

Close(p) ==
  /\ phase[p] = "open"
  /\ phase' = [phase EXCEPT ![p] = "closed"]
  /\ outcome' = [outcome EXCEPT ![p] = Outcome(p)]
  /\ UNCHANGED <<holder, votes>>

PollNext ==
  \E p \in Polls :
    \/ Create(p)
    \/ \E m \in Members, b \in Blindings : Issue(p, m, b)
    \/ \E c \in Credentials, ch \in ChoicesOf[p] : Cast(p, c, ch)
    \/ Close(p)

PollSpec == PollInit /\ [][PollNext]_pollVars
==============================================================================
