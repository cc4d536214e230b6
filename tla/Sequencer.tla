------------------------------ MODULE Sequencer ------------------------------
(***************************************************************************)
(* The sequencer of internal/sequencer over the tables of                   *)
(* internal/sequencerstore.  Every operation that writes runs in one        *)
(* IMMEDIATE SQLite transaction, so it is one action here; an operation     *)
(* that is refused rolls back and leaves every table as it was.             *)
(*                                                                         *)
(* The three history variables hold the answers that left the sequencer.    *)
(* A client may have received an answer or lost it: whatever is promised    *)
(* about an answer must hold from the step that sent it.                    *)
(*                                                                         *)
(* Hashes are collision free: the hash of an event is the value hashed.     *)
(* Signatures are those of the sequencer: what it has not signed is never   *)
(* presented as signed.                                                     *)
(***************************************************************************)
EXTENDS Naturals, Sequences, FiniteSets

CONSTANTS
  Polls,        \* poll identifiers: a hash of the signed creation request
  Members,      \* SSH fingerprints
  Credentials,  \* unblinded credentials, by credential hash
  Choices,      \* choice identifiers
  RequestIDs,   \* issuance request identifiers
  Blindings,    \* blinded messages
  Roster,       \* Roster[p]: the members with a row in poll_credits
  ChoicesOf,    \* ChoicesOf[p]: the choices of the signed poll artifact
  Unblind,      \* Unblind[b]: the credential Finalize makes of the signature on b
  ClosesAt,     \* ClosesAt[p]: the announced deadline
  MaxTime,      \* bound on the clock
  None          \* SQL NULL

ASSUME SequencerAssumption ==
  /\ Roster \in [Polls -> SUBSET Members]
  /\ ChoicesOf \in [Polls -> SUBSET Choices]
  /\ Unblind \in [Blindings -> Credentials]
  /\ ClosesAt \in [Polls -> Nat]
  /\ MaxTime \in Nat
  /\ None \notin RequestIDs
  /\ None \notin Blindings
  /\ None \notin Choices

VARIABLES
  state,         \* polls.state, "absent" where there is no row
  closedAt,      \* polls.closed_at
  credits,       \* poll_credits: the request and blinded message claimed
  creditEvents,  \* credit_events, in sequence order
  ballotEvents,  \* ballot_events, in sequence order
  spent,         \* spent_credentials.ballot_sequence, 0 where there is no row
  checkpoints,   \* sequencer_checkpoints, in sequence order
  tallies,       \* poll_tallies.artifact
  now,           \* the wall clock the service reads
  issued,        \* history: claims answered with a blind signature
  receipts,      \* history: receipts answered to votes
  results        \* history: tallies answered to closes and result requests

tables ==
  <<state, closedAt, credits, creditEvents, ballotEvents, spent, checkpoints, tallies>>
answers == <<issued, receipts, results>>
vars == <<tables, now, answers>>

------------------------------------------------------------------------------
(* Types *)

Times == 0..MaxTime

Credit == [request: RequestIDs \cup {None}, blinded: Blindings \cup {None}]

Tally == [count: Nat, totals: SUBSET [choice: Choices, total: Nat], closedAt: Times]

ASSUME NullAssumption == None \notin Tally

CreditRecord == [member: Members, request: RequestIDs, blinded: Blindings]

BallotRecord ==
  [type: {"poll_created"}]
    \cup [type: {"ballot_accepted"}, credential: Credentials, choice: Choices]
    \cup [type: {"poll_closed"}, tally: Tally]

Hash(Record) == Seq(Nat \X Record)

Event(Record) ==
  [sequence: Nat, previous: Hash(Record), hash: Hash(Record), artifact: Record]

Checkpoint == [sequence: Nat, hash: Hash(BallotRecord)]

Claim == [poll: Polls, member: Members, request: RequestIDs, blinded: Blindings]

Receipt == [poll: Polls, sequence: Nat, credential: Credentials, choice: Choices,
            hash: Hash(BallotRecord)]

Result == [poll: Polls, tally: Tally]

TypeOK ==
  /\ state \in [Polls -> {"absent", "open", "closed"}]
  /\ closedAt \in [Polls -> Times \cup {None}]
  /\ credits \in [Polls -> [Members -> Credit]]
  /\ creditEvents \in [Polls -> Seq(Event(CreditRecord))]
  /\ ballotEvents \in [Polls -> Seq(Event(BallotRecord))]
  /\ spent \in [Polls -> [Credentials -> Nat]]
  /\ checkpoints \in [Polls -> Seq(Checkpoint)]
  /\ tallies \in [Polls -> Tally \cup {None}]
  /\ now \in Times
  /\ issued \subseteq Claim
  /\ receipts \subseteq Receipt
  /\ results \subseteq Result

------------------------------------------------------------------------------
(* Hash chains (sequencerstore.EventHash, nextEvent) *)

EmptyHash == << >>

EventHash(sequence, previous, artifact) == Append(previous, <<sequence, artifact>>)

\* Mutant: events are chained to the first event instead of the last.
NextEvent_FirstHash(log, artifact) ==
  LET sequence == Len(log) + 1
      previous == IF log = << >> THEN EmptyHash ELSE log[1].hash
  IN  [sequence |-> sequence, previous |-> previous,
       hash |-> EventHash(sequence, previous, artifact), artifact |-> artifact]

\* The event that NextBallotEvent or NextCreditEvent and EventHash put at the end of a log.
NextEvent(log, artifact) ==
  LET sequence == Len(log) + 1
      previous == IF log = << >> THEN EmptyHash ELSE log[Len(log)].hash
  IN  [sequence |-> sequence, previous |-> previous,
       hash |-> EventHash(sequence, previous, artifact), artifact |-> artifact]

\* The signed checkpoint over an event of the ballot log.
CheckpointOf(event) == [sequence |-> event.sequence, hash |-> event.hash]

ReceiptOf(p, event) ==
  [poll |-> p, sequence |-> event.sequence, credential |-> event.artifact.credential,
   choice |-> event.artifact.choice, hash |-> event.hash]

------------------------------------------------------------------------------
(* What the operations test *)

Unclaimed == [request |-> None, blinded |-> None]

\* Mutant: only the deadline is looked at.
IsOpen_ByDeadline(p) == now < ClosesAt[p]

\* requireOpen: the row says open and the deadline is strictly ahead.
IsOpen(p) == state[p] = "open" /\ now < ClosesAt[p]

\* Mutant: the poll is not part of what is signed.
ValidCredential_AnyPoll(p, c) == \E a \in issued : Unblind[a.blinded] = c

\* verifyWireCredential: a signature the issuer gave out for p unblinds to c.
ValidCredential(p, c) == \E a \in issued : a.poll = p /\ Unblind[a.blinded] = c

\* Mutant: no spent credential is ever found.
IsSpent_Never(p, c) == FALSE

\* BallotByCredential found a row.
IsSpent(p, c) == spent[p][c] # 0

\* The last event of the ballot log exists and does not close the poll.
AcceptsBallots(log) == log # << >> /\ log[Len(log)].artifact.type # "poll_closed"

\* Some event of the log closes the poll.
HasClosed(log) == \E i \in DOMAIN log : log[i].artifact.type = "poll_closed"

\* Mutant: every ballot counts for every choice.
BallotsFor_AnyChoice(log, ch) == {i \in DOMAIN log : log[i].artifact.type = "ballot_accepted"}

\* The positions of the ballots for choice ch in a log.
BallotsFor(log, ch) ==
  {i \in DOMAIN log : log[i].artifact.type = "ballot_accepted" /\ log[i].artifact.choice = ch}

Ballots(log) == {i \in DOMAIN log : log[i].artifact.type = "ballot_accepted"}

\* Mutants: the count includes the creating event; the closing time is not set.
TallyOf_CountsEvents(p) ==
  [count |-> Len(ballotEvents[p]),
   totals |-> {[choice |-> ch, total |-> Cardinality(BallotsFor(ballotEvents[p], ch))] :
                 ch \in ChoicesOf[p]},
   closedAt |-> now]

TallyOf_NoTime(p) ==
  [count |-> Cardinality(Ballots(ballotEvents[p])),
   totals |-> {[choice |-> ch, total |-> Cardinality(BallotsFor(ballotEvents[p], ch))] :
                 ch \in ChoicesOf[p]},
   closedAt |-> None]

\* The tally ClosePoll signs: one pass over the ballot events.
TallyOf(p) ==
  [count |-> Cardinality(Ballots(ballotEvents[p])),
   totals |-> {[choice |-> ch, total |-> Cardinality(BallotsFor(ballotEvents[p], ch))] :
                 ch \in ChoicesOf[p]},
   closedAt |-> now]

------------------------------------------------------------------------------
(* The operations *)

Init ==
  /\ state = [p \in Polls |-> "absent"]
  /\ closedAt = [p \in Polls |-> None]
  /\ credits = [p \in Polls |-> [m \in Members |-> Unclaimed]]
  /\ creditEvents = [p \in Polls |-> << >>]
  /\ ballotEvents = [p \in Polls |-> << >>]
  /\ spent = [p \in Polls |-> [c \in Credentials |-> 0]]
  /\ checkpoints = [p \in Polls |-> << >>]
  /\ tallies = [p \in Polls |-> None]
  /\ now = 0
  /\ issued = {}
  /\ receipts = {}
  /\ results = {}

\* A ballot event and the checkpoint over it go in together.
AppendBallotEvent(p, artifact) ==
  LET event == NextEvent(ballotEvents[p], artifact)
  IN  /\ ballotEvents' = [ballotEvents EXCEPT ![p] = Append(@, event)]
      /\ checkpoints' = [checkpoints EXCEPT ![p] = Append(@, CheckpointOf(event))]

\* POST /v2/polls.  The deadline must be strictly ahead.  The same request sent
\* again finds its row and writes nothing.
CreatePoll(p) ==
  /\ now < ClosesAt[p]
  /\ state[p] = "absent"
  /\ state' = [state EXCEPT ![p] = "open"]
  /\ AppendBallotEvent(p, [type |-> "poll_created"])
  /\ UNCHANGED <<closedAt, credits, creditEvents, spent, tallies, now, answers>>

\* Mutant: the claim is stored and answered but not logged.
ClaimCredit_NotLogged(p, m, r, b) ==
  /\ IsOpen(p)
  /\ m \in Roster[p]
  /\ credits[p][m] = Unclaimed
  /\ credits' = [credits EXCEPT ![p][m] = [request |-> r, blinded |-> b]]
  /\ issued' = issued \cup {[poll |-> p, member |-> m, request |-> r, blinded |-> b]}
  /\ UNCHANGED <<state, closedAt, creditEvents, ballotEvents, spent, checkpoints, tallies,
                 now, receipts, results>>

\* A first claim by member m: sign, store the claim, log it.
ClaimCredit(p, m, r, b) ==
  /\ IsOpen(p)
  /\ m \in Roster[p]
  /\ credits[p][m] = Unclaimed
  /\ credits' = [credits EXCEPT ![p][m] = [request |-> r, blinded |-> b]]
  /\ creditEvents' = [creditEvents EXCEPT ![p] =
       Append(@, NextEvent(@, [member |-> m, request |-> r, blinded |-> b]))]
  /\ issued' = issued \cup {[poll |-> p, member |-> m, request |-> r, blinded |-> b]}
  /\ UNCHANGED <<state, closedAt, ballotEvents, spent, checkpoints, tallies, now,
                 receipts, results>>

\* Mutant: the request identifier alone makes a claim a repetition, and the message sent is
\* signed.
RepeatClaim_AnyMessage(p, m, r, b) ==
  /\ IsOpen(p)
  /\ m \in Roster[p]
  /\ credits[p][m].request = r
  /\ issued' = issued \cup {[poll |-> p, member |-> m, request |-> r, blinded |-> b]}
  /\ UNCHANGED <<tables, now, receipts, results>>

\* The claim on record, sent again while the poll is open: the stored signature.
\* Any other claim of a member whose credit is taken is refused.
RepeatClaim(p, m, r, b) ==
  /\ IsOpen(p)
  /\ m \in Roster[p]
  /\ credits[p][m] = [request |-> r, blinded |-> b]
  /\ issued' = issued \cup {[poll |-> p, member |-> m, request |-> r, blinded |-> b]}
  /\ UNCHANGED <<tables, now, receipts, results>>

\* A first redemption of credential c.
Vote(p, c, ch) ==
  LET event == NextEvent(ballotEvents[p],
                 [type |-> "ballot_accepted", credential |-> c, choice |-> ch])
  IN  /\ ValidCredential(p, c)
      /\ ch \in ChoicesOf[p]
      /\ ~IsSpent(p, c)
      /\ IsOpen(p)
      /\ AcceptsBallots(ballotEvents[p])
      /\ spent' = [spent EXCEPT ![p][c] = event.sequence]
      /\ AppendBallotEvent(p, event.artifact)
      /\ receipts' = receipts \cup {ReceiptOf(p, event)}
      /\ UNCHANGED <<state, closedAt, credits, creditEvents, tallies, now, issued, results>>

\* The ballot on record, sent again, whatever the state of the poll: the stored receipt.
\* Another choice for a spent credential is refused.
RepeatVote(p, c, ch) ==
  /\ ValidCredential(p, c)
  /\ IsSpent(p, c)
  /\ ballotEvents[p][spent[p][c]].artifact.choice = ch
  /\ receipts' = receipts \cup {ReceiptOf(p, ballotEvents[p][spent[p][c]])}
  /\ UNCHANGED <<tables, now, issued, results>>

\* An administrator closes the poll, before or after its deadline.
ClosePoll(p) ==
  LET tally == TallyOf(p)
  IN  /\ state[p] = "open"
      /\ ~HasClosed(ballotEvents[p])
      /\ \A i \in Ballots(ballotEvents[p]) : ballotEvents[p][i].artifact.choice \in ChoicesOf[p]
      /\ AppendBallotEvent(p, [type |-> "poll_closed", tally |-> tally])
      /\ state' = [state EXCEPT ![p] = "closed"]
      /\ closedAt' = [closedAt EXCEPT ![p] = now]
      /\ tallies' = [tallies EXCEPT ![p] = tally]
      /\ results' = results \cup {[poll |-> p, tally |-> tally]}
      /\ UNCHANGED <<credits, creditEvents, spent, now, issued, receipts>>

\* A close of a closed poll, or a request for its result: the stored tally.
ReturnTally(p) ==
  /\ state[p] = "closed"
  /\ results' = results \cup {[poll |-> p, tally |-> tallies[p]]}
  /\ UNCHANGED <<tables, now, issued, receipts>>

\* The wall clock moves, and may be set back.
SetClock ==
  /\ now' \in Times
  /\ UNCHANGED <<tables, answers>>

Next ==
  \/ \E p \in Polls :
       \/ CreatePoll(p)
       \/ \E m \in Members, r \in RequestIDs, b \in Blindings :
            ClaimCredit(p, m, r, b) \/ RepeatClaim(p, m, r, b)
       \/ \E c \in Credentials, ch \in Choices : Vote(p, c, ch) \/ RepeatVote(p, c, ch)
       \/ ClosePoll(p)
       \/ ReturnTally(p)
  \/ SetClock

Spec == Init /\ [][Next]_vars

------------------------------------------------------------------------------
(* Properties *)

\* A credential is worth one ballot: no two accepted ballots of a poll carry the same
\* credential, however votes and their retries interleave (docs/prds/002, line 192).
OneBallotPerCredential ==
  \A p \in Polls : \A i, j \in Ballots(ballotEvents[p]) :
    ballotEvents[p][i].artifact.credential = ballotEvents[p][j].artifact.credential => i = j

\* replay: the events of a log are numbered from 1, each names the hash of the one
\* before, and each hash is that of the event's own content.
Replays(log) ==
  \A i \in DOMAIN log :
    /\ log[i].sequence = i
    /\ log[i].previous = IF i = 1 THEN EmptyHash ELSE log[i - 1].hash
    /\ log[i].hash = EventHash(log[i].sequence, log[i].previous, log[i].artifact)

\* Both chains of every poll replay, and the checkpoints sign the ballot chain event by
\* event: nothing is missing, doubled or out of order (docs/prds/002, line 201).
ChainsIntact ==
  \A p \in Polls :
    /\ Replays(creditEvents[p])
    /\ Replays(ballotEvents[p])
    /\ checkpoints[p] = [i \in DOMAIN ballotEvents[p] |-> CheckpointOf(ballotEvents[p][i])]

\* The projections the operations read say what the logs say: a credit is claimed exactly
\* when one credit event records that claim, a credential is spent exactly when the ballot
\* at its sequence carries it, the poll is closed exactly when its last event closes it.
\* Readiness fails where they disagree (audit.go, Ready).
ProjectionsMatchLogs ==
  \A p \in Polls :
    /\ \A m \in Members :
         Cardinality({i \in DOMAIN creditEvents[p] : creditEvents[p][i].artifact.member = m})
           = IF credits[p][m] = Unclaimed THEN 0 ELSE 1
    /\ \A i \in DOMAIN creditEvents[p] :
         LET claim == creditEvents[p][i].artifact
         IN  credits[p][claim.member] = [request |-> claim.request, blinded |-> claim.blinded]
    /\ \A c \in Credentials : IsSpent(p, c) =>
         /\ spent[p][c] \in Ballots(ballotEvents[p])
         /\ ballotEvents[p][spent[p][c]].artifact.credential = c
    /\ \A i \in Ballots(ballotEvents[p]) : spent[p][ballotEvents[p][i].artifact.credential] = i
    /\ state[p] = "closed" <=> HasClosed(ballotEvents[p])
    /\ \A i \in DOMAIN ballotEvents[p] :
         ballotEvents[p][i].artifact.type = "poll_closed" => i = Len(ballotEvents[p])

TallyCounts(p, tally, log) ==
  /\ tally.totals = {[choice |-> ch, total |-> Cardinality(BallotsFor(log, ch))] :
                        ch \in ChoicesOf[p]}
  /\ tally.count = Cardinality(Ballots(log))
  /\ \A i \in Ballots(log) : log[i].artifact.choice \in ChoicesOf[p]
  /\ log[Len(log)].artifact = [type |-> "poll_closed", tally |-> tally]

\* The tally of a closed poll has one total per choice, counts exactly the ballots in the
\* log, each for one of the choices, and is what the closing event carries
\* (docs/prds/002, line 210).
TallyCountsLog ==
  \A p \in Polls : state[p] = "closed" =>
    TallyCounts(p, tallies[p], ballotEvents[p]) /\ tallies[p].closedAt = closedAt[p]

\* Whatever the sequencer has answered stays true: a member has been given one signature
\* in a poll, the one on record; the receipts given for a credential are one receipt, that
\* of the ballot in the log; every result given is the stored tally.
AnswersStand ==
  /\ \A a \in issued :
       credits[a.poll][a.member] = [request |-> a.request, blinded |-> a.blinded]
  /\ \A r \in receipts :
       /\ r.sequence \in DOMAIN ballotEvents[r.poll]
       /\ r = ReceiptOf(r.poll, ballotEvents[r.poll][r.sequence])
       /\ spent[r.poll][r.credential] = r.sequence
  /\ \A r \in results : r.tally = tallies[r.poll]

\* No poll holds more ballots than members were given signatures, nor signatures than
\* members are eligible.
BallotsWithinRoster ==
  \A p \in Polls :
    LET given == {m \in Members : credits[p][m] # Unclaimed}
    IN  /\ Cardinality(Ballots(ballotEvents[p])) <= Cardinality(given)
        /\ given \subseteq Roster[p]

\* Logs only grow at the end, a claimed credit is never reassigned, and once a poll is
\* closed nothing of it changes any more: no ballot or claim slips in after the tally
\* (docs/prds/002, line 208).
LogGrows(log, longer) == \A i \in DOMAIN log : i \in DOMAIN longer /\ longer[i] = log[i]

ClosedStays(p) ==
  state[p] = "closed" =>
    /\ state'[p] = state[p] /\ closedAt'[p] = closedAt[p] /\ tallies'[p] = tallies[p]
    /\ credits'[p] = credits[p] /\ creditEvents'[p] = creditEvents[p]
    /\ ballotEvents'[p] = ballotEvents[p] /\ spent'[p] = spent[p]

RecordStands(p) ==
  /\ LogGrows(ballotEvents[p], ballotEvents'[p])
  /\ LogGrows(creditEvents[p], creditEvents'[p])
  /\ \A m \in Members : credits[p][m] # Unclaimed => credits'[p][m] = credits[p][m]
  /\ ClosedStays(p)

HistoryStands == [][\A p \in Polls : RecordStands(p)]_vars

\* What the tables say of a credential, a member and a result.
ChoiceOnRecord(p, c) ==
  IF IsSpent(p, c) THEN ballotEvents[p][spent[p][c]].artifact.choice ELSE None

Holders == [p \in Polls |-> [m \in Members |-> credits[p][m].blinded]]

ChoicesOnRecord == [p \in Polls |-> [c \in Credentials |-> ChoiceOnRecord(p, c)]]

TotalsOnRecord == [p \in Polls |-> IF tallies[p] = None THEN None ELSE tallies[p].totals]

Promise == INSTANCE AnonymousPoll WITH
  phase <- state, holder <- Holders, votes <- ChoicesOnRecord, outcome <- TotalsOnRecord

\* The sequencer keeps the promise of AnonymousPoll: a member's signature, a credential's
\* ballot and the result are what the tables say they are.
KeepsPromise == Promise!PollSpec
==============================================================================
