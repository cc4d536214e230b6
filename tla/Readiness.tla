------------------------------ MODULE Readiness ------------------------------
(***************************************************************************)
(* Service.Ready, which startup, GET /readyz and `vota diagnose` run: it     *)
(* compares tables it reads with one query after the other, outside any     *)
(* transaction, while other requests may write between its queries.  A      *)
(* query sees the last committed state (SQLite in WAL mode).                *)
(*                                                                         *)
(* The store may also be damaged while the server is down: it loses one row *)
(* of a poll, or an altered one is read, in the ways listed under Damage, or *)
(* it loses the poll's own row.  The next startup checks it before any       *)
(* request is served.  Columns no comparison reads are not modelled.         *)
(***************************************************************************)
EXTENDS Audit

ASSUME ReadinessAssumption == None \notin Times

VARIABLES
  check,       \* the check under way, or the verdict of the last one
  overlapped,  \* history: a table has changed since that check began
  damage       \* history: "none", "inside" a poll, or the "poll row" itself lost

readyVars == <<vars, check, overlapped, damage>>

Unharmed == damage = "none"
Harmed == damage = "inside"

NoCheck ==
  [at |-> "idle", todo |-> {}, rows |-> << >>, poll |-> None, credits |-> << >>,
   ballots |-> << >>, k |-> 0, claimed |-> 0, redeemed |-> 0]

Running == check.at \notin {"idle", "passed", "failed"}

------------------------------------------------------------------------------
(* What the check compares *)

\* A member comes at most once in the credit log.
MembersDiffer(log) ==
  \A i, j \in DOMAIN log : log[i].artifact.member = log[j].artifact.member => i = j

\* The log begins with poll_created, and nothing follows poll_closed.
InOrder(log) ==
  /\ log # << >>
  /\ \A i \in DOMAIN log :
       /\ log[i].artifact.type = "poll_created" => i = 1
       /\ log[i].artifact.type = "ballot_accepted" => i # 1
       /\ log[i].artifact.type = "poll_closed" => i # 1 /\ i = Len(log)

\* The row of the poll, as read at the start, says of the log just read whether it is closed.
RowMatchesLog(row, log) ==
  /\ HasClosed(log) <=> row.state = "closed"
  /\ row.state = "open" => row.closedAt = None
  /\ row.state = "closed" => row.closedAt # None

CreditRowMatches(p, claim) ==
  credits[p][claim.member] = [request |-> claim.request, blinded |-> claim.blinded]

\* A ballot is valid, and its credential leads back to it.
BallotRowMatches(p, event) ==
  LET c == event.artifact.credential
  IN  /\ event.artifact.choice \in ChoicesOf[p]
      /\ ValidCredential(p, c)
      /\ spent[p][c] = event.sequence
      /\ ballotEvents[p][spent[p][c]].hash = event.hash

Claimed(p) == {m \in Members : credits[p][m] # Unclaimed}
Redeemed(p) == {c \in Credentials : IsSpent(p, c)}

\* The audit of a closed poll, whose tables no request changes any more.
AuditPasses(p, row) ==
  /\ state[p] = "closed" /\ tallies[p] # None
  /\ VerifyAudit(p, [events |-> ballotEvents[p], checkpoints |-> checkpoints[p],
                     tally |-> tallies[p]])
  /\ row.closedAt = tallies[p].closedAt

------------------------------------------------------------------------------
(* The check, query by query *)

\* The next step if the comparison holds; the check fails otherwise.
Ensure(holds, next) == check' = IF holds THEN next ELSE [NoCheck EXCEPT !.at = "failed"]

\* Polls: the identifiers first ...
StartCheck ==
  /\ ~Running
  /\ check' = [NoCheck EXCEPT !.at = "rows", !.todo = {p \in Polls : state[p] # "absent"}]
  /\ overlapped' = FALSE

\* ... then each row on its own.
ReadRow(p) ==
  /\ check.at = "rows" /\ p \in check.todo /\ p \notin DOMAIN check.rows
  /\ check' = [check EXCEPT !.rows =
       [q \in DOMAIN @ \cup {p} |->
          IF q = p THEN [state |-> state[p], closedAt |-> closedAt[p]] ELSE @[q]]]

ReadCreditEvents(p) ==
  /\ check.at = "rows" /\ p \in check.todo /\ check.todo \subseteq DOMAIN check.rows
  /\ Ensure(Replays(creditEvents[p]) /\ MembersDiffer(creditEvents[p]),
            [check EXCEPT !.at = "credits", !.poll = p, !.credits = creditEvents[p], !.k = 1])

CompareCredit ==
  /\ check.at = "credits" /\ check.k <= Len(check.credits)
  /\ Ensure(CreditRowMatches(check.poll, check.credits[check.k].artifact),
            [check EXCEPT !.k = @ + 1])

ReadBallotEvents ==
  LET log == ballotEvents[check.poll]
  IN  /\ check.at = "credits" /\ check.k > Len(check.credits)
      /\ Ensure(Replays(log) /\ InOrder(log) /\ RowMatchesLog(check.rows[check.poll], log),
                [check EXCEPT !.at = "claimed", !.ballots = log])

\* Mutant: the roster is counted, claimed or not.
CountClaimed_Roster ==
  /\ check.at = "claimed"
  /\ check' = [check EXCEPT !.at = "redeemed", !.claimed = Cardinality(Roster[check.poll])]

CountClaimed ==
  /\ check.at = "claimed"
  /\ check' = [check EXCEPT !.at = "redeemed", !.claimed = Cardinality(Claimed(check.poll))]

CountRedeemed ==
  /\ check.at = "redeemed"
  /\ check' = [check EXCEPT !.at = "ballots", !.k = 1,
                            !.redeemed = Cardinality(Redeemed(check.poll))]

CompareBallot ==
  LET event == check.ballots[check.k]
  IN  /\ check.at = "ballots" /\ check.k <= Len(check.ballots)
      /\ Ensure(event.artifact.type = "ballot_accepted" =>
                  CredentialsDiffer(check.ballots) /\ BallotRowMatches(check.poll, event),
                [check EXCEPT !.k = @ + 1])

\* Mutant: the rows are not counted against the logs.
ReadStoredCheckpoints_NoCounts ==
  LET stored == checkpoints[check.poll]
  IN  /\ check.at = "ballots" /\ check.k > Len(check.ballots)
      /\ Ensure(/\ Len(stored) = Len(check.ballots)
                /\ \A i \in DOMAIN stored : stored[i].hash = check.ballots[i].hash,
                [check EXCEPT !.at = "tally"])

ReadStoredCheckpoints ==
  LET stored == checkpoints[check.poll]
  IN  /\ check.at = "ballots" /\ check.k > Len(check.ballots)
      /\ Ensure(/\ Len(check.credits) = check.claimed
                /\ Cardinality(Ballots(check.ballots)) = check.redeemed
                /\ Len(stored) = Len(check.ballots)
                /\ \A i \in DOMAIN stored : stored[i].hash = check.ballots[i].hash,
                [check EXCEPT !.at = "tally"])

\* A closed poll is audited, an open one must have no tally; on to the next poll.
ReadTally ==
  LET p == check.poll
      row == check.rows[p]
  IN  /\ check.at = "tally"
      /\ Ensure(IF row.state = "closed" THEN AuditPasses(p, row) ELSE tallies[p] = None,
                [NoCheck EXCEPT !.at = "rows", !.todo = check.todo \ {p}, !.rows = check.rows])

Pass ==
  /\ check.at = "rows" /\ check.todo = {}
  /\ check' = [NoCheck EXCEPT !.at = "passed"]

CheckStep ==
  \/ \E p \in Polls : ReadRow(p) \/ ReadCreditEvents(p)
  \/ CompareCredit \/ ReadBallotEvents
  \/ CountClaimed \/ CountRedeemed \/ CompareBallot
  \/ ReadStoredCheckpoints \/ ReadTally \/ Pass

------------------------------------------------------------------------------
(* Damage to the store while the server is down *)

LoseCreditEvent(p) ==
  /\ \E i \in DOMAIN creditEvents[p] :
       creditEvents' = [creditEvents EXCEPT ![p] = Seqs!RemoveAt(@, i)]
  /\ UNCHANGED <<state, closedAt, credits, ballotEvents, spent, checkpoints, tallies>>

LoseBallotEvent(p) ==
  /\ \E i \in DOMAIN ballotEvents[p] :
       ballotEvents' = [ballotEvents EXCEPT ![p] = Seqs!RemoveAt(@, i)]
  /\ UNCHANGED <<state, closedAt, credits, creditEvents, spent, checkpoints, tallies>>

AlterBallot(p) ==
  /\ \E i \in Ballots(ballotEvents[p]), ch \in Choices :
       /\ ch # ballotEvents[p][i].artifact.choice
       /\ ballotEvents' = [ballotEvents EXCEPT ![p][i].artifact.choice = ch]
  /\ UNCHANGED <<state, closedAt, credits, creditEvents, spent, checkpoints, tallies>>

LoseCheckpoint(p) ==
  /\ \E i \in DOMAIN checkpoints[p] :
       checkpoints' = [checkpoints EXCEPT ![p] = Seqs!RemoveAt(@, i)]
  /\ UNCHANGED <<state, closedAt, credits, creditEvents, ballotEvents, spent, tallies>>

LoseClaim(p) ==
  /\ \E m \in Claimed(p) : credits' = [credits EXCEPT ![p][m] = Unclaimed]
  /\ UNCHANGED <<state, closedAt, creditEvents, ballotEvents, spent, checkpoints, tallies>>

AlterSpent(p) ==
  /\ \E c \in Redeemed(p), i \in 0..Len(ballotEvents[p]) :
       i # spent[p][c] /\ spent' = [spent EXCEPT ![p][c] = i]
  /\ UNCHANGED <<state, closedAt, credits, creditEvents, ballotEvents, checkpoints, tallies>>

Reopen(p) ==
  /\ state[p] = "closed"
  /\ state' = [state EXCEPT ![p] = "open"]
  /\ closedAt' \in {closedAt, [closedAt EXCEPT ![p] = None]}
  /\ UNCHANGED <<credits, creditEvents, ballotEvents, spent, checkpoints, tallies>>

LoseTally(p) ==
  /\ tallies[p] # None
  /\ tallies' = [tallies EXCEPT ![p] = None]
  /\ UNCHANGED <<state, closedAt, credits, creditEvents, ballotEvents, spent, checkpoints>>

\* Something inside a poll is lost or altered, once.
Damage ==
  /\ Unharmed
  /\ damage' = "inside"
  /\ check' = NoCheck /\ overlapped' = FALSE
  /\ \E p \in Polls :
       \/ LoseCreditEvent(p) \/ LoseBallotEvent(p) \/ AlterBallot(p) \/ LoseCheckpoint(p)
       \/ LoseClaim(p) \/ AlterSpent(p) \/ Reopen(p) \/ LoseTally(p)
  /\ UNCHANGED <<now, answers>>

\* The row of a poll is lost, and only that: Polls no longer lists the poll.
LosePoll ==
  /\ Unharmed
  /\ damage' = "poll row"
  /\ check' = NoCheck /\ overlapped' = FALSE
  /\ \E p \in Polls :
       /\ state[p] # "absent"
       /\ state' = [state EXCEPT ![p] = "absent"]
       /\ closedAt' = [closedAt EXCEPT ![p] = None]
  /\ UNCHANGED <<credits, creditEvents, ballotEvents, spent, checkpoints, tallies, now, answers>>

------------------------------------------------------------------------------
ReadyInit == Init /\ check = NoCheck /\ overlapped = FALSE /\ damage = "none"

\* A request served while a check may be under way.  What is served over a damaged store is
\* not followed.
ServeRequest ==
  /\ Unharmed
  /\ Next
  /\ overlapped' = (overlapped \/ (Running /\ tables' # tables))
  /\ UNCHANGED <<check, damage>>

ReadyNext ==
  \/ ServeRequest
  \/ StartCheck /\ UNCHANGED <<vars, damage>>
  \/ CheckStep /\ UNCHANGED <<vars, overlapped, damage>>
  \/ Damage
  \/ LosePoll

ReadySpec == ReadyInit /\ [][ReadyNext]_readyVars

------------------------------------------------------------------------------
(* Properties *)

\* A check that no write overlapped does not fail over what the sequencer itself wrote:
\* after a clean stop the server starts again.
QuietCheckPasses == Unharmed /\ ~overlapped => check.at # "failed"

\* When one event of either log, a checkpoint, the record of a claim or the tally of a poll is
\* lost, or a ballot's choice, a spent credential or the poll's state is altered, the server
\* does not start (docs/prds/002, line 227).  Excepted is the row of the poll itself: a poll
\* whose row is lost is passed over with everything that is left of it.
DamageIsFound == Harmed => check.at # "passed"

\* Readiness fails on a broken log or projection only (docs/prds/002, line 227): with none
\* broken it does not fail.
BusyCheckPasses == Unharmed => check.at # "failed"
==============================================================================
