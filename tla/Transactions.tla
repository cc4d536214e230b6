----------------------------- MODULE Transactions -----------------------------
(***************************************************************************)
(* The operations of the sequencer, statement by statement: requests served *)
(* at once, each with its checks before the transaction, the wait for       *)
(* SQLite's write lock (transactions begin IMMEDIATE), the queries, the     *)
(* statements one by one, and commit or rollback.  Any statement may fail,  *)
(* a deadline may pass and the process may be killed.                       *)
(*                                                                         *)
(* Sequencer takes each operation for one step at one instant.  Here the    *)
(* clock goes on between the statements, and Implements says that the       *)
(* committed tables nevertheless behave as Sequencer's do.                  *)
(***************************************************************************)
EXTENDS Naturals, Sequences, FiniteSets

CONSTANTS
  Polls, Members, Credentials, Choices, RequestIDs, Blindings,  \* as in Sequencer
  Roster, Unblind, ClosesAt, MaxTime, None,
  IdentifiersOf,  \* the identifiers made of the labels a poll is asked for with, in their order
  Handlers        \* requests that can be served at once

VARIABLES
  db,       \* the tables as last committed
  given,    \* history: the answers decided by committed transactions
  clock,    \* the wall clock
  job,      \* job[h]: the request handler h serves and how far it is
  writer,   \* the handler whose transaction holds the write lock, or None
  work,     \* the tables as that transaction has written them, or None
  instant   \* history: the time the last transaction to read the clock acted on

txVars == <<db, given, clock, job, writer, work, instant>>

\* The choices in the signed artifact of each poll, which its identifier is a hash over.
ChoicesOf == [p \in Polls |-> {IdentifiersOf[p][i] : i \in DOMAIN IdentifiersOf[p]}]

\* Every label of the poll gets an identifier of its own.
Distinct(p) == Cardinality(ChoicesOf[p]) = Len(IdentifiersOf[p])

\* Sequencer over the committed tables, at the time its transactions acted on ...
Atomic == INSTANCE Sequencer WITH
  state <- db.state, closedAt <- db.closedAt, credits <- db.credits,
  creditEvents <- db.creditEvents, ballotEvents <- db.ballotEvents, spent <- db.spent,
  checkpoints <- db.checkpoints, tallies <- db.tallies, now <- instant,
  issued <- given.issued, receipts <- given.receipts, results <- given.results

\* ... and at the time it is.
Live == INSTANCE Sequencer WITH
  state <- db.state, closedAt <- db.closedAt, credits <- db.credits,
  creditEvents <- db.creditEvents, ballotEvents <- db.ballotEvents, spent <- db.spent,
  checkpoints <- db.checkpoints, tallies <- db.tallies, now <- clock,
  issued <- given.issued, receipts <- given.receipts, results <- given.results

\* What Sequencer assumes of its constants, and that no handler is SQL NULL.
ASSUME TransactionsAssumption ==
  /\ Roster \in [Polls -> SUBSET Members]
  /\ IdentifiersOf \in [Polls -> Seq(Choices)]
  /\ Unblind \in [Blindings -> Credentials]
  /\ ClosesAt \in [Polls -> Nat]
  /\ MaxTime \in Nat
  /\ None \notin RequestIDs \cup Blindings \cup Choices \cup Handlers
  /\ None \notin Live!Tally

------------------------------------------------------------------------------
(* Requests and answers *)

Requests ==
  [is : {"create", "close"}, poll : Polls]
    \cup [is : {"claim"}, poll : Polls, member : Members, request : RequestIDs,
          blinded : Blindings]
    \cup [is : {"vote"}, poll : Polls, credential : Credentials, choice : Choices]

Idle == [at |-> "idle"]

NoAnswer == [issued |-> {}, receipts |-> {}, results |-> {}]

Signature(q) ==
  [NoAnswer EXCEPT !.issued = {[poll |-> q.poll, member |-> q.member,
                                request |-> q.request, blinded |-> q.blinded]}]
ReceiptAnswer(receipt) == [NoAnswer EXCEPT !.receipts = {receipt}]
TallyAnswer(p, tally) == [NoAnswer EXCEPT !.results = {[poll |-> p, tally |-> tally]}]

\* A handler whose transaction has these statements to execute, all about this event.
Writing(q, todo, event, answer) ==
  [at |-> "write", request |-> q, todo |-> todo, event |-> event, answer |-> answer]

\* A handler whose transaction found what was asked for and has nothing to write.
Found(q, answer) == Writing(q, << >>, None, answer)

------------------------------------------------------------------------------
(* Before the transaction *)

\* The checks made before the transaction begins: a request that fails one is refused.
Checked(q) ==
  CASE q.is = "create" -> clock < ClosesAt[q.poll]
    [] q.is = "claim" -> TRUE
    [] q.is = "vote" ->
         /\ db.state[q.poll] # "absent"
         /\ Live!ValidCredential(q.poll, q.credential)
         /\ q.choice \in ChoicesOf[q.poll]
    [] q.is = "close" -> db.state[q.poll] # "absent"

\* The time at which a creation was validated is the one it acts on.
Receive(h, q) ==
  /\ job[h] = Idle
  /\ Checked(q)
  /\ job' = [job EXCEPT ![h] = [at |-> "begin", request |-> q,
                                validated |-> IF q.is = "create" THEN clock ELSE None]]
  /\ UNCHANGED <<db, given, clock, writer, work, instant>>

\* begin: BEGIN IMMEDIATE takes the write lock.
Begin(h) ==
  /\ job[h].at = "begin"
  /\ writer = None
  /\ writer' = h /\ work' = db
  /\ job' = [job EXCEPT ![h].at = "read"]
  /\ UNCHANGED <<db, given, clock, instant>>

\* begin: the attempts are used up or the request's deadline passes.
GiveUp(h) ==
  /\ job[h].at = "begin"
  /\ job' = [job EXCEPT ![h] = Idle]
  /\ UNCHANGED <<db, given, clock, writer, work, instant>>

------------------------------------------------------------------------------
(* The queries of a transaction, which decide what it writes *)

Reading(h, operation) == job[h].at = "read" /\ job[h].request.is = operation

\* What the transaction is about to do; nothing if the operation is refused.
Decide(h, at, decision) ==
  /\ instant' = at
  /\ job' = [job EXCEPT ![h] = decision]
  /\ UNCHANGED <<db, given, clock, writer, work>>

Refused == [at |-> "rollback"]

\* InsertChoices and InsertCredits stand for the loops over the choices and the members.  A
\* poll that exists is returned as it is.
ReadForCreate(h) ==
  LET q == job[h].request
      event == Live!NextEvent(<< >>, [type |-> "poll_created"])
  IN  /\ Reading(h, "create")
      /\ Decide(h, job[h].validated,
                IF db.state[q.poll] = "absent"
                THEN Writing(q, <<"InsertPoll", "InsertChoices", "InsertCredits",
                                  "InsertBallotEvent", "SaveCheckpoint">>, event, NoAnswer)
                ELSE Refused)

ReadForClaim(h) ==
  LET q == job[h].request
      credit == db.credits[q.poll][q.member]
      claim == [request |-> q.request, blinded |-> q.blinded]
      event == Live!NextEvent(db.creditEvents[q.poll],
                 [member |-> q.member, request |-> q.request, blinded |-> q.blinded])
  IN  /\ Reading(h, "claim")
      /\ Decide(h, clock,
                IF ~Live!IsOpen(q.poll) \/ q.member \notin db.enrolled[q.poll]
                     \/ credit \notin {Live!Unclaimed, claim}
                THEN Refused
                ELSE IF credit = claim THEN Found(q, Signature(q))
                ELSE Writing(q, <<"ClaimCredit", "InsertCreditEvent">>, event, Signature(q)))

\* Mutant: the credential is not looked up.
ReadForVote_NoLookup(h) ==
  LET q == job[h].request
      log == db.ballotEvents[q.poll]
      event == Live!NextEvent(log, [type |-> "ballot_accepted", credential |-> q.credential,
                                    choice |-> q.choice])
  IN  /\ Reading(h, "vote")
      /\ Decide(h, clock,
                IF /\ Live!IsOpen(q.poll) /\ Live!AcceptsBallots(log)
                   /\ q.choice \in db.choices[q.poll]
                THEN Writing(q, <<"SpendCredential", "InsertBallotEvent", "SaveCheckpoint">>,
                             event, ReceiptAnswer(Live!ReceiptOf(q.poll, event)))
                ELSE Refused)

\* The choices were those of the artifact before the transaction; now they are the rows.
ReadForVote(h) ==
  LET q == job[h].request
      log == db.ballotEvents[q.poll]
      ballot == log[db.spent[q.poll][q.credential]]
      event == Live!NextEvent(log, [type |-> "ballot_accepted", credential |-> q.credential,
                                    choice |-> q.choice])
  IN  /\ Reading(h, "vote")
      /\ Decide(h, clock,
                IF Live!IsSpent(q.poll, q.credential)
                THEN IF ballot.artifact.choice = q.choice
                     THEN Found(q, ReceiptAnswer(Live!ReceiptOf(q.poll, ballot)))
                     ELSE Refused
                ELSE IF /\ Live!IsOpen(q.poll) /\ Live!AcceptsBallots(log)
                        /\ q.choice \in db.choices[q.poll]
                THEN Writing(q, <<"SpendCredential", "InsertBallotEvent", "SaveCheckpoint">>,
                             event, ReceiptAnswer(Live!ReceiptOf(q.poll, event)))
                ELSE Refused)

\* The tally carries the time read last.  Tables that contradict each other, which are refused
\* too, do not occur: see ProjectionsMatchLogs in Sequencer.
ReadForClose(h) ==
  LET q == job[h].request
      tally == Live!TallyOf(q.poll)
      event == Live!NextEvent(db.ballotEvents[q.poll], [type |-> "poll_closed", tally |-> tally])
  IN  /\ Reading(h, "close")
      /\ Decide(h, clock,
                IF db.state[q.poll] = "closed"
                THEN Found(q, TallyAnswer(q.poll, db.tallies[q.poll]))
                ELSE Writing(q,
                       <<"InsertBallotEvent", "SaveCheckpoint", "ClosePoll", "SaveTally">>,
                       event, TallyAnswer(q.poll, tally)))

------------------------------------------------------------------------------
(* The statements *)

Holds(log, event) == \E i \in DOMAIN log : log[i].sequence = event.sequence

\* The primary key, the unique hash and the CHECK of both logs.  That the hash is unique among
\* all polls comes to this, for it covers the poll.
Fits(log, event) ==
  /\ event.sequence > 0 /\ ~Holds(log, event)
  /\ \A i \in DOMAIN log : log[i].hash # event.hash

\* What the schema asks of a statement, and the UPDATEs of the row they find.  Every row but
\* that of the poll refers to the poll; a ballot has a receipt, and nothing else has one.
\* Left out is what one statement meets by itself: the states and event types it names, the
\* positions counted from zero, the columns of a claim written together, the members' keys
\* (normalizeMembers refuses a key given twice), and the artifact hash, which covers the poll.
Permits(statement, j) ==
  LET p == j.request.poll
      e == j.event
  IN  /\ statement # "InsertPoll" => work.state[p] # "absent"
      /\ CASE statement = "InsertPoll" -> work.state[p] = "absent"
           [] statement = "InsertChoices" ->
                Distinct(p) /\ work.choices[p] \cap ChoicesOf[p] = {}
           [] statement = "InsertCredits" -> work.enrolled[p] \cap Roster[p] = {}
           [] statement = "InsertBallotEvent" ->
                /\ Fits(work.ballotEvents[p], e)
                /\ e.artifact.type = "ballot_accepted" <=> j.answer.receipts # {}
           [] statement = "InsertCreditEvent" -> Fits(work.creditEvents[p], e)
           [] statement = "SaveCheckpoint" ->
                Holds(work.ballotEvents[p], e) /\ ~Holds(work.checkpoints[p], e)
           [] statement = "SpendCredential" ->
                /\ work.spent[p][e.artifact.credential] = 0
                /\ \A c \in Credentials : work.spent[p][c] # e.sequence
           [] statement = "ClaimCredit" ->
                /\ e.artifact.member \in work.enrolled[p]
                /\ work.credits[p][e.artifact.member] = Live!Unclaimed
           [] statement = "ClosePoll" -> work.state[p] = "open"
           [] statement = "SaveTally" -> work.tallies[p] = None

\* What a statement about poll p and event e writes to the tables w.
Written(w, statement, p, e) ==
  CASE statement = "InsertPoll" -> [w EXCEPT !.state[p] = "open"]
    [] statement = "InsertChoices" -> [w EXCEPT !.choices[p] = @ \cup ChoicesOf[p]]
    [] statement = "InsertCredits" -> [w EXCEPT !.enrolled[p] = @ \cup Roster[p]]
    [] statement = "InsertBallotEvent" -> [w EXCEPT !.ballotEvents[p] = Append(@, e)]
    [] statement = "InsertCreditEvent" -> [w EXCEPT !.creditEvents[p] = Append(@, e)]
    [] statement = "SaveCheckpoint" ->
         [w EXCEPT !.checkpoints[p] = Append(@, Live!CheckpointOf(e))]
    [] statement = "SpendCredential" ->
         [w EXCEPT !.spent[p][e.artifact.credential] = e.sequence]
    [] statement = "ClaimCredit" ->
         [w EXCEPT !.credits[p][e.artifact.member] =
            [request |-> e.artifact.request, blinded |-> e.artifact.blinded]]
    [] statement = "ClosePoll" ->
         [w EXCEPT !.state[p] = "closed", !.closedAt[p] = e.artifact.tally.closedAt]
    [] statement = "SaveTally" -> [w EXCEPT !.tallies[p] = e.artifact.tally]

\* A statement a constraint does not permit ends in a rollback.
Execute(h) ==
  LET j == job[h]
  IN  /\ j.at = "write" /\ j.todo # << >>
      /\ IF Permits(Head(j.todo), j)
         THEN /\ work' = Written(work, Head(j.todo), j.request.poll, j.event)
              /\ job' = [job EXCEPT ![h].todo = Tail(@)]
         ELSE /\ job' = [job EXCEPT ![h] = Refused]
              /\ UNCHANGED work
      /\ UNCHANGED <<db, given, clock, writer, instant>>

------------------------------------------------------------------------------
(* The end of a transaction *)

Finish(h) == writer' = None /\ work' = None /\ job' = [job EXCEPT ![h] = Idle]

\* The answer leaves after the commit.
Commit(h) ==
  LET answer == job[h].answer
  IN  /\ job[h].at = "write" /\ job[h].todo = << >>
      /\ db' = work
      /\ given' = [issued |-> given.issued \cup answer.issued,
                   receipts |-> given.receipts \cup answer.receipts,
                   results |-> given.results \cup answer.results]
      /\ Finish(h)
      /\ UNCHANGED <<clock, instant>>

\* A query, a statement or the commit fails, or the request's deadline passes.
Fail(h) ==
  /\ job[h].at \in {"read", "write"}
  /\ job' = [job EXCEPT ![h] = Refused]
  /\ UNCHANGED <<db, given, clock, writer, work, instant>>

\* Mutant: what was written before a failure stays.
Rollback_Keeps(h) ==
  /\ job[h].at = "rollback"
  /\ db' = work
  /\ Finish(h)
  /\ UNCHANGED <<given, clock, instant>>

Rollback(h) ==
  /\ job[h].at = "rollback"
  /\ Finish(h)
  /\ UNCHANGED <<db, given, clock, instant>>

\* The process is killed and started again.
Crash ==
  /\ \E h \in Handlers : job[h] # Idle
  /\ job' = [h \in Handlers |-> Idle]
  /\ writer' = None /\ work' = None
  /\ UNCHANGED <<db, given, clock, instant>>

SetClock ==
  /\ clock' \in Live!Times
  /\ UNCHANGED <<db, given, job, writer, work, instant>>

------------------------------------------------------------------------------
TxInit ==
  /\ db = [state |-> [p \in Polls |-> "absent"],
           closedAt |-> [p \in Polls |-> None],
           choices |-> [p \in Polls |-> {}],
           enrolled |-> [p \in Polls |-> {}],
           credits |-> [p \in Polls |-> [m \in Members |-> Live!Unclaimed]],
           creditEvents |-> [p \in Polls |-> << >>],
           ballotEvents |-> [p \in Polls |-> << >>],
           spent |-> [p \in Polls |-> [c \in Credentials |-> 0]],
           checkpoints |-> [p \in Polls |-> << >>],
           tallies |-> [p \in Polls |-> None]]
  /\ given = NoAnswer
  /\ clock = 0 /\ instant = 0
  /\ job = [h \in Handlers |-> Idle]
  /\ writer = None /\ work = None

ReadStep(h) == ReadForCreate(h) \/ ReadForClaim(h) \/ ReadForVote(h) \/ ReadForClose(h)

HandlerStep(h) == Begin(h) \/ ReadStep(h) \/ Execute(h) \/ Commit(h) \/ Rollback(h)

TxNext ==
  \/ \E h \in Handlers :
       \/ \E q \in Requests : Receive(h, q)
       \/ HandlerStep(h) \/ GiveUp(h) \/ Fail(h)
  \/ Crash
  \/ SetClock

TxSpec == TxInit /\ [][TxNext]_txVars

------------------------------------------------------------------------------
(* Properties *)

\* The committed tables and the answers behave as if every operation were one step at one
\* instant, whatever fails, is killed, or happens to the clock in between: a ballot appends
\* its event and spends its credential, or changes neither (docs/prds/002, line 195).
Implements == Atomic!Spec

\* What a transaction reads is enough to decide: no statement runs into a constraint of the
\* schema or updates no row, and at commit every spent credential has its ballot (the deferred
\* foreign key).  The one exception are the choices of a poll two of whose labels get the same
\* identifier (normalizedChoices): their primary key alone refuses that poll, in the middle of
\* its creation, of which nothing may then be left, by Implements.
ConstraintsHold ==
  writer # None /\ job[writer].at = "write" =>
    LET j == job[writer]
    IN  IF j.todo # << >>
        THEN \/ Permits(Head(j.todo), j)
             \/ Head(j.todo) = "InsertChoices" /\ ~Distinct(j.request.poll)
        ELSE \A p \in Polls, c \in Credentials :
               work.spent[p][c] \in {0} \cup DOMAIN work.ballotEvents[p]
==============================================================================
