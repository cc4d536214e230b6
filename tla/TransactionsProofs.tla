-------------------------- MODULE TransactionsProofs --------------------------
(***************************************************************************)
(* What TLAPS proves of the transactions: no statement runs into a          *)
(* constraint of the schema but the one that refuses a poll whose labels do *)
(* not get identifiers of their own, and the committed tables behave as     *)
(* those of Sequencer do, whose operations are one step each.               *)
(***************************************************************************)
EXTENDS Transactions, TLAPS

\* What is proved of the sequencer, for the committed tables.
Base == INSTANCE SequencerProofs WITH
  state <- db.state, closedAt <- db.closedAt, credits <- db.credits,
  creditEvents <- db.creditEvents, ballotEvents <- db.ballotEvents, spent <- db.spent,
  checkpoints <- db.checkpoints, tallies <- db.tallies, now <- instant,
  issued <- given.issued, receipts <- given.receipts, results <- given.results

------------------------------------------------------------------------------
(* What a statement writes *)

Tables == {"state", "closedAt", "choices", "enrolled", "credits", "creditEvents",
           "ballotEvents", "spent", "checkpoints", "tallies"}

\* The tables of v are those of w, but for these.
ButFor(v, w, written) == DOMAIN v = Tables /\ \A f \in Tables \ written : v[f] = w[f]

\* The tables as this handler's transaction has written them after one more statement.
Then(w, statement, j) == Written(w, statement, j.request.poll, j.event)

\* A statement writes to its own table and leaves the others as they are.
LEMMA InsertPollWrites ==
  ASSUME NEW w, DOMAIN w = Tables, NEW j
  PROVE  /\ ButFor(Then(w, "InsertPoll", j), w, {"state"})
         /\ Then(w, "InsertPoll", j).state = [w.state EXCEPT ![j.request.poll] = "open"]
BY DEF Then, Written, Tables, ButFor

\* The choices of the artifact become rows of the poll.
LEMMA InsertChoicesWrites ==
  ASSUME NEW w, DOMAIN w = Tables, NEW j
  PROVE  /\ ButFor(Then(w, "InsertChoices", j), w, {"choices"})
         /\ Then(w, "InsertChoices", j).choices =
              [w.choices EXCEPT ![j.request.poll] =
                 w.choices[j.request.poll] \cup ChoicesOf[j.request.poll]]
BY DEF Then, Written, Tables, ButFor

\* The members of the roster become rows of the poll.
LEMMA InsertCreditsWrites ==
  ASSUME NEW w, DOMAIN w = Tables, NEW j
  PROVE  /\ ButFor(Then(w, "InsertCredits", j), w, {"enrolled"})
         /\ Then(w, "InsertCredits", j).enrolled =
              [w.enrolled EXCEPT ![j.request.poll] =
                 w.enrolled[j.request.poll] \cup Roster[j.request.poll]]
BY DEF Then, Written, Tables, ButFor

\* The event goes to the end of the ballot log.
LEMMA InsertBallotEventWrites ==
  ASSUME NEW w, DOMAIN w = Tables, NEW j
  PROVE  /\ ButFor(Then(w, "InsertBallotEvent", j), w, {"ballotEvents"})
         /\ Then(w, "InsertBallotEvent", j).ballotEvents =
              [w.ballotEvents EXCEPT ![j.request.poll] =
                 Append(w.ballotEvents[j.request.poll], j.event)]
BY DEF Then, Written, Tables, ButFor

\* The event goes to the end of the credit log.
LEMMA InsertCreditEventWrites ==
  ASSUME NEW w, DOMAIN w = Tables, NEW j
  PROVE  /\ ButFor(Then(w, "InsertCreditEvent", j), w, {"creditEvents"})
         /\ Then(w, "InsertCreditEvent", j).creditEvents =
              [w.creditEvents EXCEPT ![j.request.poll] =
                 Append(w.creditEvents[j.request.poll], j.event)]
BY DEF Then, Written, Tables, ButFor

\* The checkpoint over the event goes to the end of the checkpoints.
LEMMA SaveCheckpointWrites ==
  ASSUME NEW w, DOMAIN w = Tables, NEW j
  PROVE  /\ ButFor(Then(w, "SaveCheckpoint", j), w, {"checkpoints"})
         /\ Then(w, "SaveCheckpoint", j).checkpoints =
              [w.checkpoints EXCEPT ![j.request.poll] =
                 Append(w.checkpoints[j.request.poll], Base!CheckpointOf(j.event))]
BY DEF Then, Written, Tables, ButFor, Live!CheckpointOf, Base!CheckpointOf

\* The credential gets the row of its ballot.
LEMMA SpendCredentialWrites ==
  ASSUME NEW w, DOMAIN w = Tables, NEW j
  PROVE  /\ ButFor(Then(w, "SpendCredential", j), w, {"spent"})
         /\ Then(w, "SpendCredential", j).spent =
              [w.spent EXCEPT ![j.request.poll][j.event.artifact.credential] = j.event.sequence]
BY DEF Then, Written, Tables, ButFor

\* The member's credit gets the claim.
LEMMA ClaimCreditWrites ==
  ASSUME NEW w, DOMAIN w = Tables, NEW j
  PROVE  /\ ButFor(Then(w, "ClaimCredit", j), w, {"credits"})
         /\ Then(w, "ClaimCredit", j).credits =
              [w.credits EXCEPT ![j.request.poll][j.event.artifact.member] =
                 [request |-> j.event.artifact.request, blinded |-> j.event.artifact.blinded]]
BY DEF Then, Written, Tables, ButFor

\* The poll is closed at the time of its tally.
LEMMA ClosePollWrites ==
  ASSUME NEW w, DOMAIN w = Tables, NEW j
  PROVE  /\ ButFor(Then(w, "ClosePoll", j), w, {"state", "closedAt"})
         /\ Then(w, "ClosePoll", j).state = [w.state EXCEPT ![j.request.poll] = "closed"]
         /\ Then(w, "ClosePoll", j).closedAt =
              [w.closedAt EXCEPT ![j.request.poll] = j.event.artifact.tally.closedAt]
BY DEF Then, Written, Tables, ButFor

\* The poll gets its tally.
LEMMA SaveTallyWrites ==
  ASSUME NEW w, DOMAIN w = Tables, NEW j
  PROVE  /\ ButFor(Then(w, "SaveTally", j), w, {"tallies"})
         /\ Then(w, "SaveTally", j).tallies =
              [w.tallies EXCEPT ![j.request.poll] = j.event.artifact.tally]
BY DEF Then, Written, Tables, ButFor

\* Tables that agree in all but some agree in each of the others.
LEMMA Elsewhere ==
  ASSUME NEW v, NEW w, NEW written, ButFor(v, w, written)
  PROVE  /\ "state" \notin written => v.state = w.state
         /\ "closedAt" \notin written => v.closedAt = w.closedAt
         /\ "choices" \notin written => v.choices = w.choices
         /\ "enrolled" \notin written => v.enrolled = w.enrolled
         /\ "credits" \notin written => v.credits = w.credits
         /\ "creditEvents" \notin written => v.creditEvents = w.creditEvents
         /\ "ballotEvents" \notin written => v.ballotEvents = w.ballotEvents
         /\ "spent" \notin written => v.spent = w.spent
         /\ "checkpoints" \notin written => v.checkpoints = w.checkpoints
         /\ "tallies" \notin written => v.tallies = w.tallies
BY DEF Tables, ButFor

------------------------------------------------------------------------------
(* The inductive invariant *)

\* How far a transaction of two, three, four or five statements is.
Two(j, a, b) ==
  \/ j.todo = <<a, b>> /\ work = db
  \/ j.todo = <<b>> /\ work = Then(db, a, j)
  \/ j.todo = << >> /\ work = Then(Then(db, a, j), b, j)

Three(j, a, b, c) ==
  \/ j.todo = <<a, b, c>> /\ work = db
  \/ j.todo = <<b, c>> /\ work = Then(db, a, j)
  \/ j.todo = <<c>> /\ work = Then(Then(db, a, j), b, j)
  \/ j.todo = << >> /\ work = Then(Then(Then(db, a, j), b, j), c, j)

Four(j, a, b, c, d) ==
  \/ j.todo = <<a, b, c, d>> /\ work = db
  \/ j.todo = <<b, c, d>> /\ work = Then(db, a, j)
  \/ j.todo = <<c, d>> /\ work = Then(Then(db, a, j), b, j)
  \/ j.todo = <<d>> /\ work = Then(Then(Then(db, a, j), b, j), c, j)
  \/ j.todo = << >> /\ work = Then(Then(Then(Then(db, a, j), b, j), c, j), d, j)

Five(j, a, b, c, d, e) ==
  \/ j.todo = <<a, b, c, d, e>> /\ work = db
  \/ j.todo = <<b, c, d, e>> /\ work = Then(db, a, j)
  \/ j.todo = <<c, d, e>> /\ work = Then(Then(db, a, j), b, j)
  \/ j.todo = <<d, e>> /\ work = Then(Then(Then(db, a, j), b, j), c, j)
  \/ j.todo = <<e>> /\ work = Then(Then(Then(Then(db, a, j), b, j), c, j), d, j)
  \/ j.todo = << >> /\ work = Then(Then(Then(Then(Then(db, a, j), b, j), c, j), d, j), e, j)

\* What each kind of transaction has found in the committed tables, at the instant it acts
\* on, and what it is about to write and to answer.
Creating(j) ==
  LET p == j.request.poll
  IN  /\ j.request.is = "create" /\ j.answer = NoAnswer
      /\ db.state[p] = "absent" /\ instant < ClosesAt[p]
      /\ j.event = Base!NextEvent(db.ballotEvents[p], Base!Creation)
      /\ Five(j, "InsertPoll", "InsertChoices", "InsertCredits", "InsertBallotEvent",
              "SaveCheckpoint")

Claiming(j) ==
  LET q == j.request
  IN  /\ q.is = "claim" /\ j.answer = Signature(q)
      /\ Base!IsOpen(q.poll) /\ q.member \in Roster[q.poll]
      /\ db.credits[q.poll][q.member] = Base!Unclaimed
      /\ j.event = Base!NextEvent(db.creditEvents[q.poll],
                     [member |-> q.member, request |-> q.request, blinded |-> q.blinded])
      /\ Two(j, "ClaimCredit", "InsertCreditEvent")

Voting(j) ==
  LET q == j.request
  IN  /\ q.is = "vote"
      /\ Base!ValidCredential(q.poll, q.credential) /\ q.choice \in ChoicesOf[q.poll]
      /\ ~Base!IsSpent(q.poll, q.credential)
      /\ Base!IsOpen(q.poll) /\ Base!AcceptsBallots(db.ballotEvents[q.poll])
      /\ j.event = Base!NextEvent(db.ballotEvents[q.poll],
                     Base!BallotOf(q.credential, q.choice))
      /\ j.answer = ReceiptAnswer(Base!ReceiptOf(q.poll, j.event))
      /\ Three(j, "SpendCredential", "InsertBallotEvent", "SaveCheckpoint")

Closing(j) ==
  LET p == j.request.poll
  IN  /\ j.request.is = "close" /\ j.answer = TallyAnswer(p, Base!TallyOf(p))
      /\ db.state[p] = "open"
      /\ j.event = Base!NextEvent(db.ballotEvents[p], Base!ClosingOf(p))
      /\ Four(j, "InsertBallotEvent", "SaveCheckpoint", "ClosePoll", "SaveTally")

ClaimFound(j) ==
  LET q == j.request
  IN  /\ q.is = "claim" /\ j.answer = Signature(q)
      /\ Base!IsOpen(q.poll) /\ q.member \in Roster[q.poll]
      /\ db.credits[q.poll][q.member] = [request |-> q.request, blinded |-> q.blinded]

VoteFound(j) ==
  LET q == j.request
      ballot == db.ballotEvents[q.poll][db.spent[q.poll][q.credential]]
  IN  /\ q.is = "vote"
      /\ Base!ValidCredential(q.poll, q.credential)
      /\ Base!IsSpent(q.poll, q.credential) /\ ballot.artifact.choice = q.choice
      /\ j.answer = ReceiptAnswer(Base!ReceiptOf(q.poll, ballot))

TallyFound(j) ==
  LET p == j.request.poll
  IN  /\ j.request.is = "close" /\ j.answer = TallyAnswer(p, db.tallies[p])
      /\ db.state[p] = "closed"

Decided(j) ==
  \/ Creating(j) \/ Claiming(j) \/ Voting(j) \/ Closing(j)
  \/ /\ j.todo = << >> /\ work = db
     /\ ClaimFound(j) \/ VoteFound(j) \/ TallyFound(j)

\* What was checked before the transaction is still so: a poll that exists goes on existing,
\* and a valid credential stays valid.
StillChecked(j) ==
  LET q == j.request
  IN  /\ q.is = "create" => j.validated \in Base!Times /\ j.validated < ClosesAt[q.poll]
      /\ q.is = "vote" => /\ Base!ValidCredential(q.poll, q.credential)
                          /\ q.choice \in ChoicesOf[q.poll]
      /\ q.is = "close" => db.state[q.poll] # "absent"

JobOK(h) ==
  /\ job[h].at \in {"idle", "begin", "read", "write", "rollback"}
  /\ job[h].at \in {"begin", "read"} =>
       /\ DOMAIN job[h] = {"at", "request", "validated"}
       /\ job[h].request \in Requests /\ StillChecked(job[h])
  /\ job[h].at = "read" => work = db
  /\ job[h].at = "write" =>
       /\ DOMAIN job[h] = {"at", "request", "todo", "event", "answer"}
       /\ job[h].request \in Requests /\ Decided(job[h])

\* A handler is in its transaction exactly when it holds the write lock.
Locked == \A h \in Handlers : job[h].at \in {"read", "write", "rollback"} <=> writer = h

\* A poll has all its choices and members, or there is no row of it.
RowsWhole ==
  /\ DOMAIN db.choices = Polls /\ DOMAIN db.enrolled = Polls
  /\ \A p \in Polls :
       IF db.state[p] = "absent" THEN db.choices[p] = {} /\ db.enrolled[p] = {}
       ELSE db.choices[p] = ChoicesOf[p] /\ db.enrolled[p] = Roster[p]

TablesOK ==
  /\ DOMAIN db = Tables /\ DOMAIN given = {"issued", "receipts", "results"}
  /\ clock \in Base!Times /\ DOMAIN job = Handlers
  /\ writer \in Handlers \cup {None}
  /\ Base!IInv /\ Base!RecordInv /\ RowsWhole

TxInv == TablesOK /\ Locked /\ \A h \in Handlers : JobOK(h)

------------------------------------------------------------------------------
(* The copies of Sequencer agree *)

\* The constants meet what the proofs about the sequencer assume.
LEMMA BaseAssumptions ==
  /\ Base!SequencerAssumption
  /\ Base!NullAssumption
<1>1. Base!Tally = Live!Tally
  BY DEF Base!Tally, Live!Tally, Base!Times, Live!Times
<1>2. ChoicesOf \in [Polls -> SUBSET Choices]
  <2>1. \A p \in Polls : \A i \in DOMAIN IdentifiersOf[p] : IdentifiersOf[p][i] \in Choices
    BY TransactionsAssumption
  <2> QED
    BY <2>1 DEF ChoicesOf
<1> QED
  BY <1>1, <1>2, TransactionsAssumption DEF Base!SequencerAssumption, Base!NullAssumption

\* What the handlers compute is what the sequencer computes.
LEMMA SameOperators ==
  /\ Live!Times = Base!Times /\ Live!Unclaimed = Base!Unclaimed
  /\ \A log, artifact : Live!NextEvent(log, artifact) = Base!NextEvent(log, artifact)
  /\ \A event : Live!CheckpointOf(event) = Base!CheckpointOf(event)
  /\ \A p, event : Live!ReceiptOf(p, event) = Base!ReceiptOf(p, event)
  /\ \A p, c : Live!ValidCredential(p, c) <=> Base!ValidCredential(p, c)
  /\ \A p, c : Live!IsSpent(p, c) <=> Base!IsSpent(p, c)
  /\ \A log : Live!AcceptsBallots(log) <=> Base!AcceptsBallots(log)
BY DEF Live!Times, Base!Times, Live!Unclaimed, Base!Unclaimed, Live!NextEvent, Base!NextEvent,
       Live!EmptyHash, Base!EmptyHash, Live!EventHash, Base!EventHash,
       Live!CheckpointOf, Base!CheckpointOf, Live!ReceiptOf, Base!ReceiptOf,
       Live!ValidCredential, Base!ValidCredential, Live!IsSpent, Base!IsSpent,
       Live!AcceptsBallots, Base!AcceptsBallots

\* A transaction that reads the clock acts at the time it reads.
LEMMA SameInstant ==
  ASSUME UNCHANGED db, instant' = clock
  PROVE  /\ \A p : Base!IsOpen(p)' <=> Live!IsOpen(p)
         /\ \A p : Base!TallyOf(p)' = Live!TallyOf(p)
<1>1. \A S : Live!Cardinality(S) = Base!Cardinality(S)
  BY DEF Live!Cardinality, Base!Cardinality
<1>2. \A p : Base!IsOpen(p)' <=> Live!IsOpen(p)
  BY DEF Base!IsOpen, Live!IsOpen
<1>3. \A p : Base!TallyOf(p)' = Live!TallyOf(p)
  <2>1. \A log : Live!Ballots(log) = Base!Ballots(log)
    BY DEF Base!Ballots, Live!Ballots
  <2>2. \A log, ch : Live!BallotsFor(log, ch) = Base!BallotsFor(log, ch)
    BY DEF Base!BallotsFor, Live!BallotsFor
  <2>3. ASSUME NEW p PROVE Base!TallyOf(p)' = Live!TallyOf(p)
    <3> DEFINE log == db.ballotEvents[p]
               Tally(l, t) ==
                 [count |-> Base!Cardinality(Base!Ballots(l)),
                  totals |-> {[choice |-> ch, total |-> Base!Cardinality(Base!BallotsFor(l, ch))] :
                                ch \in ChoicesOf[p]},
                  closedAt |-> t]
    <3>1. /\ Live!Cardinality(Live!Ballots(log)) = Base!Cardinality(Base!Ballots(log))
          /\ \A ch : Live!Cardinality(Live!BallotsFor(log, ch))
                      = Base!Cardinality(Base!BallotsFor(log, ch))
      BY <1>1, <2>1, <2>2
    <3>2. {[choice |-> ch, total |-> Live!Cardinality(Live!BallotsFor(log, ch))] :
             ch \in ChoicesOf[p]}
            = {[choice |-> ch, total |-> Base!Cardinality(Base!BallotsFor(log, ch))] :
                 ch \in ChoicesOf[p]}
      BY <3>1
    <3>3. Live!TallyOf(p) = Tally(log, clock)
      BY <3>1, <3>2 DEF Live!TallyOf
    <3>4. Base!TallyOf(p)' = Tally(db'.ballotEvents[p], instant')
      BY DEF Base!TallyOf
    <3> HIDE DEF Tally
    <3> QED
      BY <3>3, <3>4
  <2> QED
    BY <2>3
<1> QED
  BY <1>2, <1>3

------------------------------------------------------------------------------
(* A commit does what Sequencer's operation does *)

\* What each answer carries.
LEMMA AnswerFields ==
  /\ NoAnswer.issued = {} /\ NoAnswer.receipts = {} /\ NoAnswer.results = {}
  /\ \A q : /\ Signature(q).issued = {[poll |-> q.poll, member |-> q.member,
                                       request |-> q.request, blinded |-> q.blinded]}
            /\ Signature(q).receipts = {} /\ Signature(q).results = {}
  /\ \A r : /\ ReceiptAnswer(r).issued = {} /\ ReceiptAnswer(r).receipts = {r}
            /\ ReceiptAnswer(r).results = {}
  /\ \A p, t : /\ TallyAnswer(p, t).issued = {} /\ TallyAnswer(p, t).receipts = {}
               /\ TallyAnswer(p, t).results = {[poll |-> p, tally |-> t]}
BY DEF NoAnswer, Signature, ReceiptAnswer, TallyAnswer

\* A commit makes the transaction's tables the committed ones and adds its answer.
LEMMA CommitEffect ==
  ASSUME NEW h \in Handlers, Commit(h)
  PROVE  /\ job[h].todo = << >> /\ db' = work /\ instant' = instant /\ clock' = clock
         /\ given'.issued = given.issued \cup job[h].answer.issued
         /\ given'.receipts = given.receipts \cup job[h].answer.receipts
         /\ given'.results = given.results \cup job[h].answer.results
         /\ DOMAIN given' = {"issued", "receipts", "results"}
BY DEF Commit

\* A log with the event about to be written at its end.
Logged(log, j) == [log EXCEPT ![j.request.poll] = Append(log[j.request.poll], j.event)]

\* The checkpoints with that over the event about to be written at the end.
Signed(signed, j) ==
  [signed EXCEPT ![j.request.poll] = Append(signed[j.request.poll], Base!CheckpointOf(j.event))]

\* A ballot event goes into the log, and then the checkpoint over it to the checkpoints.
LEMMA EventWritten ==
  ASSUME NEW w, DOMAIN w = Tables, NEW j
  PROVE  LET logged == Then(w, "InsertBallotEvent", j)
             signed == Then(logged, "SaveCheckpoint", j)
         IN  /\ ButFor(logged, w, {"ballotEvents"})
             /\ ButFor(signed, w, {"ballotEvents", "checkpoints"})
             /\ logged.ballotEvents = Logged(w.ballotEvents, j)
             /\ signed.ballotEvents = Logged(w.ballotEvents, j)
             /\ signed.checkpoints = Signed(w.checkpoints, j)
<1> DEFINE logged == Then(w, "InsertBallotEvent", j)
           signed == Then(logged, "SaveCheckpoint", j)
<1>1. /\ ButFor(logged, w, {"ballotEvents"})
      /\ logged.ballotEvents = Logged(w.ballotEvents, j)
  BY InsertBallotEventWrites DEF Logged
<1>2. DOMAIN logged = Tables
  BY <1>1 DEF ButFor
<1> HIDE DEF logged
<1>3. /\ ButFor(signed, logged, {"checkpoints"})
      /\ signed.checkpoints = Signed(logged.checkpoints, j)
  BY <1>2, SaveCheckpointWrites DEF Signed
<1> HIDE DEF signed
<1>4. /\ ButFor(signed, w, {"ballotEvents", "checkpoints"})
      /\ signed.ballotEvents = logged.ballotEvents /\ logged.checkpoints = w.checkpoints
  BY <1>1, <1>3 DEF ButFor, Tables
<1> QED
  BY <1>1, <1>3, <1>4 DEF logged, signed

\* The rows of a poll, its choices and its members.
Founded(j) == Then(Then(Then(db, "InsertPoll", j), "InsertChoices", j), "InsertCredits", j)

\* What a creation has written before its event.
LEMMA FoundedWrites ==
  ASSUME DOMAIN db = Tables, NEW j
  PROVE  LET row == Then(db, "InsertPoll", j)
             listed == Then(row, "InsertChoices", j)
             w == Founded(j)
             p == j.request.poll
         IN  /\ ButFor(row, db, {"state"})
             /\ ButFor(listed, db, {"state", "choices"})
             /\ ButFor(w, db, {"state", "choices", "enrolled"})
             /\ row.state = [db.state EXCEPT ![p] = "open"]
             /\ listed.state = row.state /\ w.state = row.state
             /\ w.choices = [db.choices EXCEPT ![p] = db.choices[p] \cup ChoicesOf[p]]
             /\ w.enrolled = [db.enrolled EXCEPT ![p] = db.enrolled[p] \cup Roster[p]]
<1> DEFINE row == Then(db, "InsertPoll", j)
           listed == Then(row, "InsertChoices", j)
           w == Then(listed, "InsertCredits", j)
           p == j.request.poll
<1>1. ButFor(row, db, {"state"}) /\ row.state = [db.state EXCEPT ![p] = "open"]
  BY InsertPollWrites
<1>2. DOMAIN row = Tables
  BY <1>1 DEF ButFor
<1> HIDE DEF row
<1>3. /\ ButFor(listed, row, {"choices"})
      /\ listed.choices = [row.choices EXCEPT ![p] = row.choices[p] \cup ChoicesOf[p]]
  BY <1>2, InsertChoicesWrites
<1>4. DOMAIN listed = Tables
  BY <1>3 DEF ButFor
<1> HIDE DEF listed
<1>5. /\ ButFor(w, listed, {"enrolled"})
      /\ w.enrolled = [listed.enrolled EXCEPT ![p] = listed.enrolled[p] \cup Roster[p]]
  BY <1>4, InsertCreditsWrites
<1> HIDE DEF w
<1>6. /\ ButFor(listed, db, {"state", "choices"}) /\ row.choices = db.choices
      /\ listed.state = row.state /\ listed.enrolled = db.enrolled
  BY <1>1, <1>3 DEF ButFor, Tables
<1>7. /\ ButFor(w, db, {"state", "choices", "enrolled"})
      /\ w.state = listed.state /\ w.choices = listed.choices
  BY <1>5, <1>6 DEF ButFor, Tables
<1> QED
  BY <1>1, <1>3, <1>5, <1>6, <1>7 DEF row, listed, w, Founded

\* The tables a creation commits.
LEMMA Created ==
  ASSUME DOMAIN db = Tables, NEW j
  PROVE  LET w == Then(Then(Founded(j), "InsertBallotEvent", j), "SaveCheckpoint", j)
             p == j.request.poll
         IN  /\ ButFor(w, db, {"state", "choices", "enrolled", "ballotEvents", "checkpoints"})
             /\ w.state = [db.state EXCEPT ![p] = "open"]
             /\ w.choices = [db.choices EXCEPT ![p] = db.choices[p] \cup ChoicesOf[p]]
             /\ w.enrolled = [db.enrolled EXCEPT ![p] = db.enrolled[p] \cup Roster[p]]
             /\ w.ballotEvents = Logged(db.ballotEvents, j)
             /\ w.checkpoints = Signed(db.checkpoints, j)
<1> DEFINE row == Founded(j)
           p == j.request.poll
           w == Then(Then(row, "InsertBallotEvent", j), "SaveCheckpoint", j)
<1>1. /\ ButFor(row, db, {"state", "choices", "enrolled"})
      /\ row.state = [db.state EXCEPT ![p] = "open"]
      /\ row.choices = [db.choices EXCEPT ![p] = db.choices[p] \cup ChoicesOf[p]]
      /\ row.enrolled = [db.enrolled EXCEPT ![p] = db.enrolled[p] \cup Roster[p]]
  BY FoundedWrites
<1>2. DOMAIN row = Tables
  BY <1>1 DEF ButFor
<1> HIDE DEF row
<1>3. /\ ButFor(w, row, {"ballotEvents", "checkpoints"})
      /\ w.ballotEvents = Logged(row.ballotEvents, j)
      /\ w.checkpoints = Signed(row.checkpoints, j)
  BY <1>2, EventWritten
<1> HIDE DEF w
<1>4. /\ ButFor(w, db, {"state", "choices", "enrolled", "ballotEvents", "checkpoints"})
      /\ w.state = row.state /\ w.choices = row.choices /\ w.enrolled = row.enrolled
      /\ row.ballotEvents = db.ballotEvents /\ row.checkpoints = db.checkpoints
  BY <1>1, <1>3 DEF ButFor, Tables
<1> QED
  BY <1>1, <1>3, <1>4 DEF row, w

\* The tables a first claim commits, and those before its second statement.
LEMMA Claimed ==
  ASSUME DOMAIN db = Tables, NEW j
  PROVE  LET row == Then(db, "ClaimCredit", j)
             w == Then(row, "InsertCreditEvent", j)
             claim == j.event.artifact
         IN  /\ ButFor(row, db, {"credits"})
             /\ ButFor(w, db, {"credits", "creditEvents"})
             /\ w.credits = [db.credits EXCEPT ![j.request.poll][claim.member] =
                               [request |-> claim.request, blinded |-> claim.blinded]]
             /\ w.creditEvents = Logged(db.creditEvents, j)
<1> DEFINE row == Then(db, "ClaimCredit", j)
           w == Then(row, "InsertCreditEvent", j)
           claim == j.event.artifact
<1>1. /\ ButFor(row, db, {"credits"})
      /\ row.credits = [db.credits EXCEPT ![j.request.poll][claim.member] =
                          [request |-> claim.request, blinded |-> claim.blinded]]
  BY ClaimCreditWrites
<1>2. DOMAIN row = Tables
  BY <1>1 DEF ButFor
<1> HIDE DEF row
<1>3. ButFor(w, row, {"creditEvents"}) /\ w.creditEvents = Logged(row.creditEvents, j)
  BY <1>2, InsertCreditEventWrites DEF Logged
<1> HIDE DEF w
<1>4. /\ ButFor(w, db, {"credits", "creditEvents"}) /\ w.credits = row.credits
      /\ row.creditEvents = db.creditEvents
  BY <1>1, <1>3 DEF ButFor, Tables
<1> QED
  BY <1>1, <1>3, <1>4 DEF row, w

\* The tables a first vote commits, and those before its second statement.
LEMMA Voted ==
  ASSUME DOMAIN db = Tables, NEW j
  PROVE  LET row == Then(db, "SpendCredential", j)
             w == Then(Then(row, "InsertBallotEvent", j), "SaveCheckpoint", j)
         IN  /\ ButFor(row, db, {"spent"})
             /\ ButFor(w, db, {"spent", "ballotEvents", "checkpoints"})
             /\ w.spent = [db.spent EXCEPT
                             ![j.request.poll][j.event.artifact.credential] = j.event.sequence]
             /\ w.ballotEvents = Logged(db.ballotEvents, j)
             /\ w.checkpoints = Signed(db.checkpoints, j)
<1> DEFINE row == Then(db, "SpendCredential", j)
           w == Then(Then(row, "InsertBallotEvent", j), "SaveCheckpoint", j)
<1>1. /\ ButFor(row, db, {"spent"})
      /\ row.spent = [db.spent EXCEPT
                        ![j.request.poll][j.event.artifact.credential] = j.event.sequence]
  BY SpendCredentialWrites
<1>2. DOMAIN row = Tables
  BY <1>1 DEF ButFor
<1> HIDE DEF row
<1>3. /\ ButFor(w, row, {"ballotEvents", "checkpoints"})
      /\ w.ballotEvents = Logged(row.ballotEvents, j)
      /\ w.checkpoints = Signed(row.checkpoints, j)
  BY <1>2, EventWritten
<1> HIDE DEF w
<1>4. /\ ButFor(w, db, {"spent", "ballotEvents", "checkpoints"}) /\ w.spent = row.spent
      /\ row.ballotEvents = db.ballotEvents /\ row.checkpoints = db.checkpoints
  BY <1>1, <1>3 DEF ButFor, Tables
<1> QED
  BY <1>1, <1>3, <1>4 DEF row, w

\* The tables a close commits, and those before its last statements.
LEMMA Closed ==
  ASSUME DOMAIN db = Tables, NEW j
  PROVE  LET signed == Then(Then(db, "InsertBallotEvent", j), "SaveCheckpoint", j)
             row == Then(signed, "ClosePoll", j)
             w == Then(row, "SaveTally", j)
             tally == j.event.artifact.tally
         IN  /\ ButFor(row, db, {"ballotEvents", "checkpoints", "state", "closedAt"})
             /\ ButFor(w, db, {"ballotEvents", "checkpoints", "state", "closedAt", "tallies"})
             /\ w.ballotEvents = Logged(db.ballotEvents, j)
             /\ w.checkpoints = Signed(db.checkpoints, j)
             /\ w.state = [db.state EXCEPT ![j.request.poll] = "closed"]
             /\ w.closedAt = [db.closedAt EXCEPT ![j.request.poll] = tally.closedAt]
             /\ w.tallies = [db.tallies EXCEPT ![j.request.poll] = tally]
<1> DEFINE signed == Then(Then(db, "InsertBallotEvent", j), "SaveCheckpoint", j)
           row == Then(signed, "ClosePoll", j)
           w == Then(row, "SaveTally", j)
           tally == j.event.artifact.tally
<1>1. /\ ButFor(signed, db, {"ballotEvents", "checkpoints"})
      /\ signed.ballotEvents = Logged(db.ballotEvents, j)
      /\ signed.checkpoints = Signed(db.checkpoints, j)
  BY EventWritten
<1>2. DOMAIN signed = Tables
  BY <1>1 DEF ButFor
<1> HIDE DEF signed
<1>3. /\ ButFor(row, signed, {"state", "closedAt"})
      /\ row.state = [signed.state EXCEPT ![j.request.poll] = "closed"]
      /\ row.closedAt = [signed.closedAt EXCEPT ![j.request.poll] = tally.closedAt]
  BY <1>2, ClosePollWrites
<1>4. DOMAIN row = Tables
  BY <1>3 DEF ButFor
<1> HIDE DEF row
<1>5. /\ ButFor(w, row, {"tallies"})
      /\ w.tallies = [row.tallies EXCEPT ![j.request.poll] = tally]
  BY <1>4, SaveTallyWrites
<1> HIDE DEF w
<1>6. /\ ButFor(row, db, {"ballotEvents", "checkpoints", "state", "closedAt"})
      /\ row.ballotEvents = signed.ballotEvents /\ row.checkpoints = signed.checkpoints
      /\ signed.state = db.state /\ signed.closedAt = db.closedAt
  BY <1>1, <1>3 DEF ButFor, Tables
<1>7. /\ ButFor(w, db, {"ballotEvents", "checkpoints", "state", "closedAt", "tallies"})
      /\ w.ballotEvents = row.ballotEvents /\ w.checkpoints = row.checkpoints
      /\ w.state = row.state /\ w.closedAt = row.closedAt /\ row.tallies = db.tallies
  BY <1>5, <1>6 DEF ButFor, Tables
<1> QED
  BY <1>1, <1>3, <1>5, <1>6, <1>7 DEF signed, row, w

------------------------------------------------------------------------------
(* A commit is the sequencer's operation *)

\* A transaction of which nothing is left to write has written all it decided to.
LEMMA WrittenOut ==
  ASSUME NEW j, j.todo = << >>, NEW a, NEW b, NEW c, NEW d, NEW e
  PROVE  /\ Two(j, a, b) => work = Then(Then(db, a, j), b, j)
         /\ Three(j, a, b, c) => work = Then(Then(Then(db, a, j), b, j), c, j)
         /\ Four(j, a, b, c, d) => work = Then(Then(Then(Then(db, a, j), b, j), c, j), d, j)
         /\ Five(j, a, b, c, d, e) =>
              work = Then(Then(Then(Then(Then(db, a, j), b, j), c, j), d, j), e, j)
BY DEF Two, Three, Four, Five

\* The rows of choices and members are those of before.
RowsStay == db'.choices = db.choices /\ db'.enrolled = db.enrolled

\* The commit of a creation.
LEMMA CommitCreates ==
  ASSUME DOMAIN db = Tables, NEW h \in Handlers, Commit(h), Creating(job[h])
  PROVE  LET p == job[h].request.poll
         IN  /\ Base!CreatePoll(p) /\ DOMAIN db' = Tables
             /\ db'.choices = [db.choices EXCEPT ![p] = db.choices[p] \cup ChoicesOf[p]]
             /\ db'.enrolled = [db.enrolled EXCEPT ![p] = db.enrolled[p] \cup Roster[p]]
<1> DEFINE j == job[h]
           p == j.request.poll
<1>1. /\ j.answer = NoAnswer /\ db.state[p] = "absent" /\ instant < ClosesAt[p]
      /\ j.event = Base!NextEvent(db.ballotEvents[p], [type |-> "poll_created"])
      /\ Five(j, "InsertPoll", "InsertChoices", "InsertCredits", "InsertBallotEvent",
              "SaveCheckpoint")
  BY DEF Creating, Base!Creation
<1>2. /\ j.todo = << >> /\ db' = work /\ instant' = instant
      /\ given'.issued = given.issued \cup j.answer.issued
      /\ given'.receipts = given.receipts \cup j.answer.receipts
      /\ given'.results = given.results \cup j.answer.results
  BY CommitEffect
<1> HIDE DEF j
<1>3. db' = Then(Then(Founded(j), "InsertBallotEvent", j), "SaveCheckpoint", j)
  BY <1>1, <1>2, WrittenOut DEF Founded
<1>4. /\ ButFor(db', db, {"state", "choices", "enrolled", "ballotEvents", "checkpoints"})
      /\ db'.state = [db.state EXCEPT ![p] = "open"]
      /\ db'.choices = [db.choices EXCEPT ![p] = db.choices[p] \cup ChoicesOf[p]]
      /\ db'.enrolled = [db.enrolled EXCEPT ![p] = db.enrolled[p] \cup Roster[p]]
      /\ db'.ballotEvents = Logged(db.ballotEvents, j)
      /\ db'.checkpoints = Signed(db.checkpoints, j)
  BY <1>3, Created
<1>5. /\ db'.closedAt = db.closedAt /\ db'.credits = db.credits /\ db'.spent = db.spent
      /\ db'.creditEvents = db.creditEvents /\ db'.tallies = db.tallies /\ DOMAIN db' = Tables
  BY <1>4 DEF ButFor, Tables
<1>6. /\ given'.issued = given.issued /\ given'.receipts = given.receipts
      /\ given'.results = given.results
  BY <1>1, <1>2, AnswerFields
<1>7. Base!AppendBallotEvent(p, [type |-> "poll_created"])
  BY <1>1, <1>4 DEF Base!AppendBallotEvent, Logged, Signed
<1>8. Base!CreatePoll(p)
  BY <1>1, <1>2, <1>4, <1>5, <1>6, <1>7 DEF Base!CreatePoll, Base!answers
<1> QED
  BY <1>4, <1>5, <1>8 DEF j

\* The commit of a first claim.
LEMMA CommitClaims ==
  ASSUME DOMAIN db = Tables, NEW h \in Handlers, Commit(h), Claiming(job[h])
  PROVE  LET q == job[h].request
         IN  /\ Base!ClaimCredit(q.poll, q.member, q.request, q.blinded)
             /\ DOMAIN db' = Tables /\ RowsStay
<1> DEFINE j == job[h]
           q == j.request
           p == q.poll
           claim == [member |-> q.member, request |-> q.request, blinded |-> q.blinded]
<1>1. /\ j.answer = Signature(q) /\ Base!IsOpen(p) /\ q.member \in Roster[p]
      /\ db.credits[p][q.member] = Base!Unclaimed
      /\ j.event = Base!NextEvent(db.creditEvents[p], claim)
      /\ Two(j, "ClaimCredit", "InsertCreditEvent")
  BY DEF Claiming
<1>2. /\ j.todo = << >> /\ db' = work /\ instant' = instant
      /\ given'.issued = given.issued \cup j.answer.issued
      /\ given'.receipts = given.receipts \cup j.answer.receipts
      /\ given'.results = given.results \cup j.answer.results
  BY CommitEffect
<1> HIDE DEF j
<1>3. db' = Then(Then(db, "ClaimCredit", j), "InsertCreditEvent", j)
  BY <1>1, <1>2, WrittenOut
<1>4. j.event.artifact = claim
  BY <1>1 DEF Base!NextEvent
<1>5. /\ ButFor(db', db, {"credits", "creditEvents"})
      /\ db'.credits = [db.credits EXCEPT ![p][claim.member] =
                          [request |-> claim.request, blinded |-> claim.blinded]]
      /\ db'.creditEvents = Logged(db.creditEvents, j)
  BY <1>3, <1>4, Claimed
<1>6. /\ db'.state = db.state /\ db'.closedAt = db.closedAt /\ db'.spent = db.spent
      /\ db'.ballotEvents = db.ballotEvents /\ db'.checkpoints = db.checkpoints
      /\ db'.tallies = db.tallies /\ DOMAIN db' = Tables /\ RowsStay
  BY <1>5, SMTT(30) DEF ButFor, Tables, RowsStay
<1>7. /\ given'.issued = given.issued \cup {[poll |-> p, member |-> q.member,
                                             request |-> q.request, blinded |-> q.blinded]}
      /\ given'.receipts = given.receipts /\ given'.results = given.results
  BY <1>1, <1>2, AnswerFields
<1>8. Base!ClaimCredit(p, q.member, q.request, q.blinded)
  BY <1>1, <1>2, <1>5, <1>6, <1>7 DEF Base!ClaimCredit, Logged
<1> QED
  BY <1>6, <1>8 DEF j

\* The commit of a first vote.
LEMMA CommitVotes ==
  ASSUME DOMAIN db = Tables, NEW h \in Handlers, Commit(h), Voting(job[h])
  PROVE  LET q == job[h].request
         IN  Base!Vote(q.poll, q.credential, q.choice) /\ DOMAIN db' = Tables /\ RowsStay
<1> DEFINE j == job[h]
           q == j.request
           p == q.poll
           ballot == [type |-> "ballot_accepted", credential |-> q.credential,
                      choice |-> q.choice]
<1>1. /\ Base!ValidCredential(p, q.credential) /\ q.choice \in ChoicesOf[p]
      /\ ~Base!IsSpent(p, q.credential) /\ Base!IsOpen(p)
      /\ Base!AcceptsBallots(db.ballotEvents[p])
      /\ j.event = Base!NextEvent(db.ballotEvents[p], ballot)
      /\ j.answer = ReceiptAnswer(Base!ReceiptOf(p, j.event))
      /\ Three(j, "SpendCredential", "InsertBallotEvent", "SaveCheckpoint")
  BY DEF Voting, Base!BallotOf
<1>2. /\ j.todo = << >> /\ db' = work /\ instant' = instant
      /\ given'.issued = given.issued \cup j.answer.issued
      /\ given'.receipts = given.receipts \cup j.answer.receipts
      /\ given'.results = given.results \cup j.answer.results
  BY CommitEffect
<1> HIDE DEF j
<1>3. db' = Then(Then(Then(db, "SpendCredential", j), "InsertBallotEvent", j), "SaveCheckpoint", j)
  BY <1>1, <1>2, WrittenOut
<1>4. j.event.artifact = ballot /\ j.event.artifact.credential = q.credential
  BY <1>1 DEF Base!NextEvent
<1>5. /\ ButFor(db', db, {"spent", "ballotEvents", "checkpoints"})
      /\ db'.spent = [db.spent EXCEPT ![p][q.credential] = j.event.sequence]
      /\ db'.ballotEvents = Logged(db.ballotEvents, j)
      /\ db'.checkpoints = Signed(db.checkpoints, j)
  BY <1>3, <1>4, Voted
<1>6. /\ db'.state = db.state /\ db'.closedAt = db.closedAt /\ db'.credits = db.credits
      /\ db'.creditEvents = db.creditEvents /\ db'.tallies = db.tallies /\ DOMAIN db' = Tables
      /\ RowsStay
  BY <1>5, SMTT(30) DEF ButFor, Tables, RowsStay
<1>7. /\ given'.issued = given.issued /\ given'.results = given.results
      /\ given'.receipts = given.receipts \cup {Base!ReceiptOf(p, j.event)}
  <2> DEFINE receipt == Base!ReceiptOf(p, j.event)
  <2>1. j.answer = ReceiptAnswer(receipt)
    BY <1>1
  <2> HIDE DEF receipt
  <2>2. j.answer.issued = {} /\ j.answer.receipts = {receipt} /\ j.answer.results = {}
    BY <2>1, AnswerFields
  <2>3. /\ given'.issued = given.issued /\ given'.results = given.results
        /\ given'.receipts = given.receipts \cup {receipt}
    BY <1>2, <2>2
  <2> QED
    BY <2>3 DEF receipt
<1>8. Base!AppendBallotEvent(p, j.event.artifact)
  BY <1>1, <1>4, <1>5 DEF Base!AppendBallotEvent, Logged, Signed
<1> HIDE DEF q, p
<1>9. Base!Vote(p, q.credential, q.choice)
  BY <1>1, <1>2, <1>5, <1>6, <1>7, <1>8 DEF Base!Vote
<1> QED
  BY <1>6, <1>9 DEF j, q, p

\* The commit of a first close.
LEMMA CommitCloses ==
  ASSUME DOMAIN db = Tables, Base!RecordInv, NEW h \in Handlers, Commit(h), Closing(job[h]),
         job[h].request.poll \in Polls
  PROVE  Base!ClosePoll(job[h].request.poll) /\ DOMAIN db' = Tables /\ RowsStay
<1> DEFINE j == job[h]
           p == j.request.poll
           tally == Base!TallyOf(p)
           closing == [type |-> "poll_closed", tally |-> tally]
<1>1. /\ j.answer = TallyAnswer(p, tally) /\ db.state[p] = "open"
      /\ j.event = Base!NextEvent(db.ballotEvents[p], closing)
      /\ Four(j, "InsertBallotEvent", "SaveCheckpoint", "ClosePoll", "SaveTally")
  BY DEF Closing, Base!ClosingOf
<1>2. /\ j.todo = << >> /\ db' = work /\ instant' = instant
      /\ given'.issued = given.issued \cup j.answer.issued
      /\ given'.receipts = given.receipts \cup j.answer.receipts
      /\ given'.results = given.results \cup j.answer.results
  BY CommitEffect
<1>0. p \in Polls
  OBVIOUS
<1> HIDE DEF j
<1>3. db' = Then(Then(Then(Then(db, "InsertBallotEvent", j), "SaveCheckpoint", j),
                      "ClosePoll", j), "SaveTally", j)
  BY <1>1, <1>2, WrittenOut
<1>4. /\ j.event.artifact = closing /\ j.event.artifact.tally = tally
      /\ tally.closedAt = instant
  <2>1. tally.closedAt = instant
    BY DEF Base!TallyOf
  <2> HIDE DEF tally
  <2> QED
    BY <1>1, <2>1 DEF Base!NextEvent
<1> HIDE DEF tally
<1>5. /\ ButFor(db', db, {"ballotEvents", "checkpoints", "state", "closedAt", "tallies"})
      /\ db'.ballotEvents = Logged(db.ballotEvents, j)
      /\ db'.checkpoints = Signed(db.checkpoints, j)
      /\ db'.state = [db.state EXCEPT ![p] = "closed"]
      /\ db'.closedAt = [db.closedAt EXCEPT ![p] = instant]
      /\ db'.tallies = [db.tallies EXCEPT ![p] = tally]
  BY <1>3, <1>4, Closed
<1>6. /\ db'.credits = db.credits /\ db'.creditEvents = db.creditEvents
      /\ db'.spent = db.spent /\ DOMAIN db' = Tables /\ RowsStay
  BY <1>5, SMTT(30) DEF ButFor, Tables, RowsStay
<1>7. /\ given'.issued = given.issued /\ given'.receipts = given.receipts
      /\ given'.results = given.results \cup {[poll |-> p, tally |-> tally]}
  BY <1>1, <1>2, AnswerFields
<1>8. Base!AppendBallotEvent(p, closing)
  BY <1>1, <1>5 DEF Base!AppendBallotEvent, Logged, Signed
<1>9. ~Base!HasClosed(db.ballotEvents[p])
  BY <1>0, <1>1 DEF Base!RecordInv, Base!ClosesMatchLog
<1>10. \A i \in Base!Ballots(db.ballotEvents[p]) :
         db.ballotEvents[p][i].artifact.choice \in ChoicesOf[p]
  BY <1>0, SMTT(30) DEF Base!RecordInv, Base!BallotsAreBacked
<1>11. Base!ClosePoll(p)
  BY <1>1, <1>2, <1>5, <1>6, <1>7, <1>8, <1>9, <1>10 DEF Base!ClosePoll, tally
<1> QED
  BY <1>6, <1>11 DEF j

\* The commit of a transaction that found what was asked for.
LEMMA CommitFound ==
  ASSUME DOMAIN db = Tables, NEW h \in Handlers, Commit(h), work = db
  PROVE  LET q == job[h].request
         IN  /\ ClaimFound(job[h])
                  => Base!RepeatClaim(q.poll, q.member, q.request, q.blinded)
             /\ VoteFound(job[h]) => Base!RepeatVote(q.poll, q.credential, q.choice)
             /\ TallyFound(job[h]) => Base!ReturnTally(q.poll)
             /\ DOMAIN db' = Tables
<1> DEFINE j == job[h]
           q == j.request
           p == q.poll
<1>1. /\ db' = db /\ instant' = instant
      /\ given'.issued = given.issued \cup j.answer.issued
      /\ given'.receipts = given.receipts \cup j.answer.receipts
      /\ given'.results = given.results \cup j.answer.results
  BY CommitEffect
<1>2. UNCHANGED Base!tables
  BY <1>1 DEF Base!tables
<1> HIDE DEF j
<1>3. ASSUME ClaimFound(j) PROVE Base!RepeatClaim(p, q.member, q.request, q.blinded)
  <2>1. /\ j.answer = Signature(q) /\ Base!IsOpen(p) /\ q.member \in Roster[p]
        /\ db.credits[p][q.member] = [request |-> q.request, blinded |-> q.blinded]
    BY <1>3 DEF ClaimFound
  <2>2. /\ given'.issued = given.issued \cup {[poll |-> p, member |-> q.member,
                                               request |-> q.request, blinded |-> q.blinded]}
        /\ given'.receipts = given.receipts /\ given'.results = given.results
    BY <1>1, <2>1, AnswerFields
  <2> QED
    BY <1>1, <1>2, <2>1, <2>2 DEF Base!RepeatClaim
<1>4. ASSUME VoteFound(j) PROVE Base!RepeatVote(p, q.credential, q.choice)
  <2> DEFINE ballot == db.ballotEvents[p][db.spent[p][q.credential]]
  <2>1. /\ Base!ValidCredential(p, q.credential) /\ Base!IsSpent(p, q.credential)
        /\ ballot.artifact.choice = q.choice
        /\ j.answer = ReceiptAnswer(Base!ReceiptOf(p, ballot))
    BY <1>4, Zenon DEF VoteFound
  <2>2. /\ given'.receipts = given.receipts \cup {Base!ReceiptOf(p, ballot)}
        /\ given'.issued = given.issued /\ given'.results = given.results
    BY <1>1, <2>1, AnswerFields, Zenon
  <2> QED
    BY <1>1, <1>2, <2>1, <2>2, Zenon DEF Base!RepeatVote
<1>5. ASSUME TallyFound(j) PROVE Base!ReturnTally(p)
  <2>1. j.answer = TallyAnswer(p, db.tallies[p]) /\ db.state[p] = "closed"
    BY <1>5 DEF TallyFound
  <2>2. /\ given'.results = given.results \cup {[poll |-> p, tally |-> db.tallies[p]]}
        /\ given'.issued = given.issued /\ given'.receipts = given.receipts
    BY <1>1, <2>1, AnswerFields
  <2> QED
    BY <1>1, <1>2, <2>1, <2>2 DEF Base!ReturnTally
<1> QED
  BY <1>1, <1>3, <1>4, <1>5 DEF j

\* A request names a poll and what its operation is about.
LEMMA RequestFields ==
  ASSUME NEW q \in Requests
  PROVE  /\ q.poll \in Polls
         /\ q.is = "claim" => /\ q.member \in Members /\ q.request \in RequestIDs
                              /\ q.blinded \in Blindings
         /\ q.is = "vote" => q.credential \in Credentials /\ q.choice \in Choices
BY DEF Requests

\* A commit is one step of the sequencer, and the rows of a poll come with it or not at all.
LEMMA CommitStep ==
  ASSUME TxInv, NEW h \in Handlers, Commit(h)
  PROVE  Base!Next /\ DOMAIN db' = Tables /\ RowsWhole'
<1> DEFINE j == job[h]
           q == j.request
<1>1. /\ DOMAIN db = Tables /\ Base!RecordInv /\ RowsWhole /\ q \in Requests /\ Decided(j)
      /\ DOMAIN db.state = Polls
  BY DEF TxInv, TablesOK, JobOK, Commit, Base!IInv, Base!TypeOK
<1>2. ASSUME RowsStay, \A p \in Polls : db'.state[p] = "absent" <=> db.state[p] = "absent"
      PROVE  RowsWhole'
  BY <1>1, <1>2 DEF RowsWhole, RowsStay
<1>3. CASE Creating(j)
  <2>1. /\ Base!CreatePoll(q.poll) /\ DOMAIN db' = Tables /\ q.poll \in Polls
        /\ db'.choices = [db.choices EXCEPT ![q.poll] = db.choices[q.poll] \cup ChoicesOf[q.poll]]
        /\ db'.enrolled = [db.enrolled EXCEPT ![q.poll] = db.enrolled[q.poll] \cup Roster[q.poll]]
    BY <1>1, <1>3, CommitCreates, RequestFields
  <2>2. db.state[q.poll] = "absent" /\ db'.state = [db.state EXCEPT ![q.poll] = "open"]
    BY <2>1 DEF Base!CreatePoll
  <2> HIDE DEF q
  <2>3. RowsWhole'
    <3>1. /\ DOMAIN db.choices = Polls /\ DOMAIN db.enrolled = Polls
          /\ db.choices[q.poll] = {} /\ db.enrolled[q.poll] = {}
      BY <1>1, <2>1, <2>2 DEF RowsWhole
    <3>2. /\ DOMAIN db'.choices = Polls /\ DOMAIN db'.enrolled = Polls
          /\ db'.choices[q.poll] = ChoicesOf[q.poll] /\ db'.enrolled[q.poll] = Roster[q.poll]
          /\ db'.state[q.poll] = "open"
      BY <1>1, <2>1, <2>2, <3>1
    <3>3. \A p \in Polls \ {q.poll} :
            /\ db'.choices[p] = db.choices[p] /\ db'.enrolled[p] = db.enrolled[p]
            /\ db'.state[p] = db.state[p]
      BY <1>1, <2>1, <2>2, <3>1
    <3>4. \A p \in Polls \ {q.poll} :
            IF db'.state[p] = "absent" THEN db'.choices[p] = {} /\ db'.enrolled[p] = {}
            ELSE db'.choices[p] = ChoicesOf[p] /\ db'.enrolled[p] = Roster[p]
      BY <1>1, <3>3 DEF RowsWhole
    <3> QED
      BY <3>2, <3>4 DEF RowsWhole
  <2> QED
    BY <2>1, <2>3 DEF Base!Next
<1>4. CASE Claiming(j)
  <2>1. q.is = "claim"
    BY <1>4 DEF Claiming
  <2>2. /\ Base!ClaimCredit(q.poll, q.member, q.request, q.blinded)
        /\ DOMAIN db' = Tables /\ RowsStay
    BY <1>1, <1>4, CommitClaims
  <2>3. db'.state = db.state
    BY <2>2 DEF Base!ClaimCredit
  <2> QED
    BY <1>1, <1>2, <2>1, <2>2, <2>3, RequestFields DEF Base!Next
<1>5. CASE Voting(j)
  <2>1. q.is = "vote"
    BY <1>5 DEF Voting
  <2>2. Base!Vote(q.poll, q.credential, q.choice) /\ DOMAIN db' = Tables /\ RowsStay
    BY <1>1, <1>5, CommitVotes
  <2>3. db'.state = db.state
    BY <2>2 DEF Base!Vote
  <2> QED
    BY <1>1, <1>2, <2>1, <2>2, <2>3, RequestFields DEF Base!Next
<1>6. CASE Closing(j)
  <2>1. q.poll \in Polls /\ Base!ClosePoll(q.poll) /\ DOMAIN db' = Tables /\ RowsStay
    BY <1>1, <1>6, CommitCloses, RequestFields
  <2>2. db.state[q.poll] = "open" /\ db'.state = [db.state EXCEPT ![q.poll] = "closed"]
    BY <2>1 DEF Base!ClosePoll
  <2> HIDE DEF q
  <2>3. \A p \in Polls : db'.state[p] = "absent" <=> db.state[p] = "absent"
    BY <1>1, <2>1, <2>2
  <2> QED
    BY <1>2, <2>1, <2>3 DEF Base!Next
<1>7. CASE work = db /\ (ClaimFound(j) \/ VoteFound(j) \/ TallyFound(j))
  <2>1. db' = db
    BY <1>7, CommitEffect
  <2>2. RowsWhole'
    BY <1>2, <2>1 DEF RowsStay
  <2>3. CASE ClaimFound(j)
    <3>1. q.is = "claim"
      BY <2>3 DEF ClaimFound
    <3> QED
      BY <1>1, <1>7, <2>2, <2>3, <3>1, CommitFound, RequestFields DEF Base!Next
  <2>4. CASE VoteFound(j)
    <3>1. q.is = "vote"
      BY <2>4, Zenon DEF VoteFound
    <3> QED
      BY <1>1, <1>7, <2>2, <2>4, <3>1, CommitFound, RequestFields DEF Base!Next
  <2>5. CASE TallyFound(j)
    BY <1>1, <1>7, <2>2, <2>5, CommitFound, RequestFields DEF Base!Next
  <2> QED
    BY <1>7, <2>3, <2>4, <2>5
<1> QED
  BY <1>1, <1>3, <1>4, <1>5, <1>6, <1>7 DEF Decided

------------------------------------------------------------------------------
(* Every step of the transactions is one of the sequencer, or none *)

\* What a step of a handler leaves as it is.
LEMMA Steps ==
  ASSUME [TxNext]_txVars
  PROVE  \/ /\ \E h \in Handlers : ReadStep(h)
            /\ UNCHANGED <<db, given, clock, writer, work>>
         \/ \E h \in Handlers : Commit(h)
         \/ UNCHANGED <<db, given, instant>>
<1>1. ASSUME NEW h \in Handlers, ReadStep(h) PROVE UNCHANGED <<db, given, clock, writer, work>>
  BY <1>1, Zenon DEF ReadStep, ReadForCreate, ReadForClaim, ReadForVote, ReadForClose, Decide
<1>2. ASSUME NEW h \in Handlers, NEW q \in Requests, Receive(h, q)
      PROVE  UNCHANGED <<db, given, instant>>
  BY <1>2 DEF Receive
<1>3. ASSUME NEW h \in Handlers, Begin(h) \/ GiveUp(h) \/ Fail(h) \/ Execute(h) \/ Rollback(h)
      PROVE  UNCHANGED <<db, given, instant>>
  BY <1>3 DEF Begin, GiveUp, Fail, Execute, Rollback
<1>4. Crash \/ SetClock \/ UNCHANGED txVars => UNCHANGED <<db, given, instant>>
  BY DEF Crash, SetClock, txVars
<1> QED
  BY <1>1, <1>2, <1>3, <1>4 DEF TxNext, HandlerStep

\* The time a transaction acts on is one the clock has shown.
LEMMA ReadAt ==
  ASSUME TxInv, NEW h \in Handlers, ReadStep(h)
  PROVE  instant' \in Base!Times
<1>1. clock \in Base!Times
  BY DEF TxInv, TablesOK
<1>2. CASE ReadForCreate(h)
  <2>1. /\ job[h].at = "read" /\ job[h].request.is = "create"
        /\ instant' = job[h].validated
    BY <1>2 DEF ReadForCreate, Reading, Decide
  <2> QED
    BY <2>1 DEF TxInv, JobOK, StillChecked
<1>3. CASE ReadForClaim(h) \/ ReadForVote(h) \/ ReadForClose(h)
  BY <1>1, <1>3, Zenon DEF ReadForClaim, ReadForVote, ReadForClose, Decide
<1> QED
  BY <1>2, <1>3 DEF ReadStep

\* A read moves the sequencer's clock, a commit is its operation, all else is no step of it.
LEMMA TablesStep ==
  ASSUME TxInv, [TxNext]_txVars
  PROVE  [Base!Next]_(Base!vars) /\ DOMAIN db' = Tables /\ RowsWhole'
<1>1. DOMAIN db = Tables /\ (db' = db => RowsWhole')
  BY DEF TxInv, TablesOK, RowsWhole
<1>2. CASE /\ \E h \in Handlers : ReadStep(h)
           /\ UNCHANGED <<db, given, clock, writer, work>>
  <2>1. instant' \in Base!Times
    BY <1>2, ReadAt
  <2>2. Base!SetClock
    BY <1>2, <2>1 DEF Base!SetClock, Base!tables, Base!answers
  <2> QED
    BY <1>1, <1>2, <2>2 DEF Base!Next
<1>3. CASE \E h \in Handlers : Commit(h)
  BY <1>3, CommitStep
<1>4. CASE UNCHANGED <<db, given, instant>>
  BY <1>1, <1>4 DEF Base!vars, Base!tables, Base!answers
<1> QED
  BY <1>2, <1>3, <1>4, Steps

\* A poll that has its row keeps it.
LEMMA PollsStay ==
  ASSUME Base!IInv, [Base!Next]_(Base!vars), NEW p \in Polls, db.state[p] # "absent"
  PROVE  db'.state[p] # "absent"
<1>1. Base!TypeOK
  BY DEF Base!IInv
<1>2. /\ db.state \in [Polls -> {"absent", "open", "closed"}]
  BY <1>1 DEF Base!TypeOK
<1>3. CASE \E q \in Polls : Base!CreatePoll(q) \/ Base!ClosePoll(q)
  BY <1>2, <1>3 DEF Base!CreatePoll, Base!ClosePoll
<1>4. CASE \/ \E q \in Polls, m \in Members, r \in RequestIDs, b \in Blindings :
                Base!ClaimCredit(q, m, r, b)
           \/ \E q \in Polls, c \in Credentials, ch \in Choices : Base!Vote(q, c, ch)
           \/ UNCHANGED Base!tables
  <2>1. db'.state = db.state
    BY <1>4 DEF Base!ClaimCredit, Base!Vote, Base!tables
  <2> QED
    BY <2>1
<1> QED
  BY <1>3, <1>4, Base!Readers, BaseAssumptions

\* What was checked before a transaction is still so when it is over.
LEMMA StillCheckedStep ==
  ASSUME TxInv, [TxNext]_txVars, NEW j, j.request \in Requests, StillChecked(j)
  PROVE  LET q == j.request
         IN  /\ q.is = "create" => j.validated \in Base!Times /\ j.validated < ClosesAt[q.poll]
             /\ q.is = "vote" => /\ Base!ValidCredential(q.poll, q.credential)'
                                 /\ q.choice \in ChoicesOf[q.poll]
             /\ q.is = "close" => db'.state[q.poll] # "absent"
<1>1. [Base!Next]_(Base!vars)
  BY TablesStep
<1>2. given.issued \subseteq given'.issued
  BY <1>1, Base!AnswersGrow, BaseAssumptions
<1>3. \A p, c : Base!ValidCredential(p, c) => Base!ValidCredential(p, c)'
  BY <1>2 DEF Base!ValidCredential
<1>4. j.request.poll \in Polls /\ Base!IInv
  BY RequestFields DEF TxInv, TablesOK
<1> QED
  BY <1>1, <1>3, <1>4, PollsStay DEF StillChecked

------------------------------------------------------------------------------
(* The invariant is preserved: the handlers *)

\* What a transaction decided depends on the tables, the answers and the instant alone.
LEMMA DecidedStays ==
  ASSUME UNCHANGED <<db, given, work, instant>>, NEW k, job'[k] = job[k], Decided(job[k])
  PROVE  Decided(job[k])'
<1> DEFINE j == job[k]
           i == job'[k]
<1>1. i = j /\ db' = db /\ given' = given /\ work' = work /\ instant' = instant
  OBVIOUS
<1>2. Two(j, "ClaimCredit", "InsertCreditEvent")
        => Two(j, "ClaimCredit", "InsertCreditEvent")'
  BY <1>1 DEF Two, Then
<1>3. \A a : Three(j, a, "InsertBallotEvent", "SaveCheckpoint")
        => Three(j, a, "InsertBallotEvent", "SaveCheckpoint")'
  BY <1>1 DEF Three, Then
<1>12. Five(j, "InsertPoll", "InsertChoices", "InsertCredits", "InsertBallotEvent",
            "SaveCheckpoint")
         => Five(j, "InsertPoll", "InsertChoices", "InsertCredits", "InsertBallotEvent",
                 "SaveCheckpoint")'
  BY <1>1 DEF Five, Then
<1>4. Four(j, "InsertBallotEvent", "SaveCheckpoint", "ClosePoll", "SaveTally")
        => Four(j, "InsertBallotEvent", "SaveCheckpoint", "ClosePoll", "SaveTally")'
  BY <1>1 DEF Four, Then
<1>5. Creating(j) => Creating(j)'
  BY <1>1, <1>12 DEF Creating
<1>6. Claiming(j) => Claiming(j)'
  BY <1>1, <1>2 DEF Claiming, Base!IsOpen
<1>7. Voting(j) => Voting(j)'
  BY <1>1, <1>3 DEF Voting, Base!IsOpen, Base!ValidCredential, Base!IsSpent
<1>8. Closing(j) => Closing(j)'
  <2>1. Base!TallyOf(j.request.poll)' = Base!TallyOf(j.request.poll)
    BY <1>1 DEF Base!TallyOf
  <2> QED
    BY <1>1, <1>4, <2>1 DEF Closing, Base!ClosingOf
<1>9. ClaimFound(j) => ClaimFound(j)'
  BY <1>1 DEF ClaimFound, Base!IsOpen
<1>10. VoteFound(j) => VoteFound(j)'
  BY <1>1, Zenon DEF VoteFound, Base!ValidCredential, Base!IsSpent
<1>11. TallyFound(j) => TallyFound(j)'
  BY <1>1 DEF TallyFound
<1> QED
  BY <1>1, <1>5, <1>6, <1>7, <1>8, <1>9, <1>10, <1>11 DEF Decided

\* A handler keeps its part of the invariant when others move.
LEMMA OtherHandlers ==
  ASSUME TxInv, [TxNext]_txVars, NEW k \in Handlers, job'[k] = job[k],
         job[k].at \in {"read", "write"} => UNCHANGED <<db, given, work, instant>>
  PROVE  JobOK(k)'
<1>1. JobOK(k)
  BY DEF TxInv
<1>2. ASSUME job[k].at \in {"begin", "read"} PROVE StillChecked(job[k])'
  <2>1. job[k].request \in Requests /\ StillChecked(job[k])
    BY <1>1, <1>2 DEF JobOK
  <2> QED
    BY <2>1, StillCheckedStep DEF StillChecked
<1>3. ASSUME job[k].at = "write" PROVE Decided(job[k])'
  BY <1>1, <1>3, DecidedStays DEF JobOK
<1> QED
  BY <1>1, <1>2, <1>3 DEF JobOK

InTransaction(j) == j.at \in {"read", "write", "rollback"}

JobsOK == DOMAIN job = Handlers /\ Locked /\ \A h \in Handlers : JobOK(h)

\* No handler is in a transaction while another is.
LEMMA OneWriter ==
  ASSUME TxInv, NEW h \in Handlers
  PROVE  /\ InTransaction(job[h]) => /\ writer = h
                                     /\ \A k \in Handlers \ {h} : ~InTransaction(job[k])
         /\ writer = None => ~InTransaction(job[h])
         /\ ~InTransaction(job[h]) => writer # h
         /\ None \notin Handlers
BY TransactionsAssumption DEF TxInv, Locked, InTransaction

\* A step of one handler keeps the invariant of all if it keeps its own, and leaves the tables
\* and the lock alone while another is in its transaction.
LEMMA HandlerMoves ==
  ASSUME TxInv, [TxNext]_txVars, NEW h \in Handlers, NEW next,
         job' = [job EXCEPT ![h] = next], JobOK(h)',
         \A k \in Handlers \ {h} :
           InTransaction(job[k]) => UNCHANGED <<db, given, work, instant, writer>>,
         InTransaction(next) <=> writer' = h,
         writer' \in {h, writer, None}
  PROVE  JobsOK'
<1>1. DOMAIN job' = Handlers /\ job'[h] = next /\ \A k \in Handlers \ {h} : job'[k] = job[k]
  BY DEF TxInv, TablesOK
<1>2. \A k \in Handlers \ {h} : JobOK(k)'
  BY <1>1, OtherHandlers DEF InTransaction
<1>3. ASSUME NEW k \in Handlers \ {h} PROVE InTransaction(job[k]) <=> writer' = k
  <2>1. InTransaction(job[k]) <=> writer = k
    BY DEF TxInv, Locked, InTransaction
  <2> QED
    BY <2>1, OneWriter
<1>4. Locked'
  BY <1>1, <1>3 DEF Locked, InTransaction
<1> QED
  BY <1>1, <1>2, <1>4 DEF JobsOK

\* A handler that is idle, or whose transaction is to be rolled back, owes nothing.
LEMMA NothingOwed ==
  ASSUME NEW h, job'[h] \in {Idle, Refused}
  PROVE  JobOK(h)' /\ job'[h].at \in {"idle", "rollback"}
<1>1. job'[h].at \in {"idle", "rollback"}
  BY DEF Idle, Refused
<1> QED
  BY <1>1 DEF JobOK

\* The request as it was checked, and the lock and the committed tables as they are.
LEMMA BeforeReading ==
  ASSUME TxInv, [TxNext]_txVars, NEW h \in Handlers,
         Begin(h) \/ GiveUp(h) \/ \E q \in Requests : Receive(h, q)
  PROVE  JobsOK'
<1>0. DOMAIN job = Handlers /\ clock \in Base!Times
  BY DEF TxInv, TablesOK
<1>1. CASE \E q \in Requests : Receive(h, q)
  <2>1. PICK q \in Requests : Receive(h, q)
    BY <1>1
  <2> DEFINE next == [at |-> "begin", request |-> q,
                      validated |-> IF q.is = "create" THEN clock ELSE None]
  <2>2. /\ job[h] = Idle /\ job' = [job EXCEPT ![h] = next] /\ Checked(q)
        /\ UNCHANGED <<db, given, clock, writer, work, instant>>
    BY <2>1 DEF Receive
  <2>3. /\ q.is = "create" => clock < ClosesAt[q.poll]
        /\ q.is = "vote" => /\ Base!ValidCredential(q.poll, q.credential)
                            /\ q.choice \in ChoicesOf[q.poll]
        /\ q.is = "close" => db.state[q.poll] # "absent"
    BY <2>2, SameOperators DEF Checked, Requests
  <2>4. \A p, c : Base!ValidCredential(p, c)' <=> Base!ValidCredential(p, c)
    BY <2>2 DEF Base!ValidCredential
  <2>5. /\ job'[h] = next /\ next.at = "begin" /\ next.request = q
        /\ DOMAIN next = {"at", "request", "validated"}
        /\ q.is = "create" => next.validated = clock
    BY <1>0, <2>2
  <2> HIDE DEF next
  <2>6. JobOK(h)'
    BY <1>0, <2>2, <2>3, <2>4, <2>5 DEF JobOK, StillChecked
  <2>7. ~InTransaction(job[h]) /\ ~InTransaction(next)
    BY <2>2, <2>5 DEF Idle, InTransaction
  <2> QED
    BY <2>2, <2>6, <2>7, HandlerMoves, OneWriter
<1>2. CASE Begin(h)
  <2> DEFINE next == [job[h] EXCEPT !.at = "read"]
  <2>1. /\ job[h].at = "begin" /\ writer = None /\ writer' = h /\ work' = db
        /\ job' = [job EXCEPT ![h] = next] /\ UNCHANGED <<db, given, clock, instant>>
    BY <1>2 DEF Begin
  <2>2. /\ DOMAIN job[h] = {"at", "request", "validated"}
        /\ job[h].request \in Requests /\ StillChecked(job[h])
    BY <2>1 DEF TxInv, JobOK
  <2>3. /\ job'[h] = next /\ next.at = "read" /\ next.request = job[h].request
        /\ next.validated = job[h].validated /\ DOMAIN next = {"at", "request", "validated"}
    BY <1>0, <2>1, <2>2
  <2>4. \A p, c : Base!ValidCredential(p, c)' <=> Base!ValidCredential(p, c)
    BY <2>1 DEF Base!ValidCredential
  <2> HIDE DEF next
  <2>5. JobOK(h)'
    BY <2>1, <2>2, <2>3, <2>4 DEF JobOK, StillChecked
  <2>6. InTransaction(next) /\ \A k \in Handlers : ~InTransaction(job[k])
    BY <2>1, <2>3, OneWriter DEF InTransaction
  <2> QED
    BY <2>1, <2>5, <2>6, HandlerMoves
<1>3. CASE GiveUp(h)
  <2>1. /\ job[h].at = "begin" /\ job' = [job EXCEPT ![h] = Idle] /\ job'[h] = Idle
        /\ UNCHANGED <<db, given, clock, writer, work, instant>>
    BY <1>0, <1>3 DEF GiveUp
  <2>2. ~InTransaction(job[h]) /\ ~InTransaction(Idle)
    BY <2>1 DEF InTransaction, Idle
  <2>3. JobOK(h)' /\ writer # h
    BY <2>1, <2>2, NothingOwed, OneWriter
  <2> QED
    BY <2>1, <2>2, <2>3, HandlerMoves
<1> QED
  BY <1>1, <1>2, <1>3

\* A transaction that fails or ends leaves nothing behind.
LEMMA Endings ==
  ASSUME TxInv, [TxNext]_txVars, NEW h \in Handlers, Commit(h) \/ Rollback(h) \/ Fail(h)
  PROVE  JobsOK'
<1>1. DOMAIN job = Handlers /\ ~InTransaction(Idle) /\ InTransaction(Refused)
  BY DEF TxInv, TablesOK, InTransaction, Idle, Refused
<1>2. InTransaction(job[h])
  BY DEF Commit, Rollback, Fail, InTransaction
<1>3. writer = h /\ \A k \in Handlers \ {h} : ~InTransaction(job[k])
  BY <1>2, OneWriter
<1>4. CASE Commit(h) \/ Rollback(h)
  <2>1. job' = [job EXCEPT ![h] = Idle] /\ writer' = None
    BY <1>4 DEF Commit, Rollback, Finish
  <2>2. job'[h] = Idle
    BY <1>1, <2>1
  <2>3. JobOK(h)' /\ None # h
    BY <2>2, NothingOwed, OneWriter
  <2> QED
    BY <1>1, <1>3, <2>1, <2>3, HandlerMoves
<1>5. CASE Fail(h)
  <2>1. job' = [job EXCEPT ![h] = Refused] /\ writer' = writer
    BY <1>5 DEF Fail
  <2>2. job'[h] = Refused
    BY <1>1, <2>1
  <2>3. JobOK(h)'
    BY <2>2, NothingOwed
  <2> QED
    BY <1>1, <1>3, <2>1, <2>3, HandlerMoves
<1> QED
  BY <1>4, <1>5

------------------------------------------------------------------------------
(* The invariant is preserved: queries and statements *)

\* A statement executed is one step further along.
LEMMA Further ==
  ASSUME NEW h, NEW a, NEW b, NEW c, NEW d, NEW e, job[h].todo # << >>,
         db' = db, work' = Then(work, Head(job[h].todo), job[h]),
         job'[h].todo = Tail(job[h].todo),
         job'[h].request = job[h].request, job'[h].event = job[h].event
  PROVE  /\ Two(job[h], a, b) => Two(job[h], a, b)'
         /\ Three(job[h], a, b, c) => Three(job[h], a, b, c)'
         /\ Four(job[h], a, b, c, d) => Four(job[h], a, b, c, d)'
         /\ Five(job[h], a, b, c, d, e) => Five(job[h], a, b, c, d, e)'
<1> DEFINE j == job[h]
           i == job'[h]
<1>1. \A w, statement : Then(w, statement, i) = Then(w, statement, j)
  BY DEF Then
<1>2. /\ Head(<<a>>) = a /\ Tail(<<a>>) = << >> /\ Head(<<b>>) = b /\ Tail(<<b>>) = << >>
      /\ Head(<<c>>) = c /\ Tail(<<c>>) = << >> /\ Head(<<d>>) = d /\ Tail(<<d>>) = << >>
      /\ Head(<<a, b>>) = a /\ Tail(<<a, b>>) = <<b>>
      /\ Head(<<b, c>>) = b /\ Tail(<<b, c>>) = <<c>>
      /\ Head(<<c, d>>) = c /\ Tail(<<c, d>>) = <<d>>
      /\ Head(<<a, b, c>>) = a /\ Tail(<<a, b, c>>) = <<b, c>>
      /\ Head(<<b, c, d>>) = b /\ Tail(<<b, c, d>>) = <<c, d>>
      /\ Head(<<a, b, c, d>>) = a /\ Tail(<<a, b, c, d>>) = <<b, c, d>>
      /\ Head(<<e>>) = e /\ Tail(<<e>>) = << >> /\ Head(<<d, e>>) = d /\ Tail(<<d, e>>) = <<e>>
      /\ Head(<<c, d, e>>) = c /\ Tail(<<c, d, e>>) = <<d, e>>
      /\ Head(<<b, c, d, e>>) = b /\ Tail(<<b, c, d, e>>) = <<c, d, e>>
      /\ Head(<<a, b, c, d, e>>) = a /\ Tail(<<a, b, c, d, e>>) = <<b, c, d, e>>
  OBVIOUS
<1>3. Two(j, a, b) => \/ i.todo = <<b>> /\ work' = Then(db, a, i)
                      \/ i.todo = << >> /\ work' = Then(Then(db, a, i), b, i)
  BY <1>1, <1>2, Zenon DEF Two
<1>4. Three(j, a, b, c) =>
        \/ i.todo = <<b, c>> /\ work' = Then(db, a, i)
        \/ i.todo = <<c>> /\ work' = Then(Then(db, a, i), b, i)
        \/ i.todo = << >> /\ work' = Then(Then(Then(db, a, i), b, i), c, i)
  BY <1>1, <1>2, Zenon DEF Three
<1>5. Four(j, a, b, c, d) =>
        \/ i.todo = <<b, c, d>> /\ work' = Then(db, a, i)
        \/ i.todo = <<c, d>> /\ work' = Then(Then(db, a, i), b, i)
        \/ i.todo = <<d>> /\ work' = Then(Then(Then(db, a, i), b, i), c, i)
        \/ i.todo = << >> /\ work' = Then(Then(Then(Then(db, a, i), b, i), c, i), d, i)
  <2> SUFFICES ASSUME Four(j, a, b, c, d)
               PROVE  \/ i.todo = <<b, c, d>> /\ work' = Then(db, a, i)
                      \/ i.todo = <<c, d>> /\ work' = Then(Then(db, a, i), b, i)
                      \/ i.todo = <<d>> /\ work' = Then(Then(Then(db, a, i), b, i), c, i)
                      \/ /\ i.todo = << >>
                         /\ work' = Then(Then(Then(Then(db, a, i), b, i), c, i), d, i)
    OBVIOUS
  <2>1. j.todo # << >> /\ i.todo = Tail(j.todo) /\ work' = Then(work, Head(j.todo), i)
    BY <1>1
  <2>2. CASE j.todo = <<a, b, c, d>> /\ work = db
    BY <1>2, <2>1, <2>2
  <2>3. CASE j.todo = <<b, c, d>> /\ work = Then(db, a, j)
    BY <1>1, <1>2, <2>1, <2>3
  <2>4. CASE j.todo = <<c, d>> /\ work = Then(Then(db, a, j), b, j)
    BY <1>1, <1>2, <2>1, <2>4
  <2>5. CASE j.todo = <<d>> /\ work = Then(Then(Then(db, a, j), b, j), c, j)
    BY <1>1, <1>2, <2>1, <2>5
  <2> QED
    BY <2>1, <2>2, <2>3, <2>4, <2>5 DEF Four
<1>9. Five(j, a, b, c, d, e) =>
        \/ i.todo = <<b, c, d, e>> /\ work' = Then(db, a, i)
        \/ i.todo = <<c, d, e>> /\ work' = Then(Then(db, a, i), b, i)
        \/ i.todo = <<d, e>> /\ work' = Then(Then(Then(db, a, i), b, i), c, i)
        \/ i.todo = <<e>> /\ work' = Then(Then(Then(Then(db, a, i), b, i), c, i), d, i)
        \/ /\ i.todo = << >>
           /\ work' = Then(Then(Then(Then(Then(db, a, i), b, i), c, i), d, i), e, i)
  <2> SUFFICES ASSUME Five(j, a, b, c, d, e)
               PROVE  \/ i.todo = <<b, c, d, e>> /\ work' = Then(db, a, i)
                      \/ i.todo = <<c, d, e>> /\ work' = Then(Then(db, a, i), b, i)
                      \/ i.todo = <<d, e>> /\ work' = Then(Then(Then(db, a, i), b, i), c, i)
                      \/ /\ i.todo = <<e>>
                         /\ work' = Then(Then(Then(Then(db, a, i), b, i), c, i), d, i)
                      \/ /\ i.todo = << >>
                         /\ work' = Then(Then(Then(Then(Then(db, a, i), b, i), c, i), d, i), e, i)
    OBVIOUS
  <2>1. j.todo # << >> /\ i.todo = Tail(j.todo) /\ work' = Then(work, Head(j.todo), i)
    BY <1>1
  <2>2. CASE j.todo = <<a, b, c, d, e>> /\ work = db
    BY <1>2, <2>1, <2>2
  <2>3. CASE j.todo = <<b, c, d, e>> /\ work = Then(db, a, j)
    BY <1>1, <1>2, <2>1, <2>3
  <2>4. CASE j.todo = <<c, d, e>> /\ work = Then(Then(db, a, j), b, j)
    BY <1>1, <1>2, <2>1, <2>4
  <2>5. CASE j.todo = <<d, e>> /\ work = Then(Then(Then(db, a, j), b, j), c, j)
    BY <1>1, <1>2, <2>1, <2>5
  <2>6. CASE j.todo = <<e>> /\ work = Then(Then(Then(Then(db, a, j), b, j), c, j), d, j)
    BY <1>1, <1>2, <2>1, <2>6
  <2> QED
    BY <2>1, <2>2, <2>3, <2>4, <2>5, <2>6 DEF Five
<1>6. /\ Two(j, a, b)' <=> \/ i.todo = <<a, b>> /\ work' = db'
                           \/ i.todo = <<b>> /\ work' = Then(db', a, i)
                           \/ i.todo = << >> /\ work' = Then(Then(db', a, i), b, i)
  BY DEF Two, Then
<1>7. Three(j, a, b, c)' <=>
        \/ i.todo = <<a, b, c>> /\ work' = db'
        \/ i.todo = <<b, c>> /\ work' = Then(db', a, i)
        \/ i.todo = <<c>> /\ work' = Then(Then(db', a, i), b, i)
        \/ i.todo = << >> /\ work' = Then(Then(Then(db', a, i), b, i), c, i)
  BY DEF Three, Then
<1>8. Four(j, a, b, c, d)' <=>
        \/ i.todo = <<a, b, c, d>> /\ work' = db'
        \/ i.todo = <<b, c, d>> /\ work' = Then(db', a, i)
        \/ i.todo = <<c, d>> /\ work' = Then(Then(db', a, i), b, i)
        \/ i.todo = <<d>> /\ work' = Then(Then(Then(db', a, i), b, i), c, i)
        \/ i.todo = << >> /\ work' = Then(Then(Then(Then(db', a, i), b, i), c, i), d, i)
  BY DEF Four, Then
<1>10. Five(j, a, b, c, d, e)' <=>
        \/ i.todo = <<a, b, c, d, e>> /\ work' = db'
        \/ i.todo = <<b, c, d, e>> /\ work' = Then(db', a, i)
        \/ i.todo = <<c, d, e>> /\ work' = Then(Then(db', a, i), b, i)
        \/ i.todo = <<d, e>> /\ work' = Then(Then(Then(db', a, i), b, i), c, i)
        \/ i.todo = <<e>> /\ work' = Then(Then(Then(Then(db', a, i), b, i), c, i), d, i)
        \/ /\ i.todo = << >>
           /\ work' = Then(Then(Then(Then(Then(db', a, i), b, i), c, i), d, i), e, i)
  BY DEF Five, Then
<1>11. Five(j, a, b, c, d, e) => Five(j, a, b, c, d, e)'
  BY <1>9, <1>10
<1> QED
  BY <1>3, <1>4, <1>5, <1>6, <1>7, <1>8, <1>11

\* A transaction goes on with what it decided.
LEMMA ExecuteStep ==
  ASSUME TxInv, [TxNext]_txVars, NEW h \in Handlers, Execute(h)
  PROVE  JobsOK'
<1> DEFINE j == job[h]
           next == IF Permits(Head(j.todo), j) THEN [j EXCEPT !.todo = Tail(@)] ELSE Refused
<1>1. /\ j.at = "write" /\ j.todo # << >> /\ job' = [job EXCEPT ![h] = next]
      /\ UNCHANGED <<db, given, clock, writer, instant>>
  BY DEF Execute
<1>2. /\ DOMAIN job = Handlers /\ DOMAIN j = {"at", "request", "todo", "event", "answer"}
      /\ j.request \in Requests /\ Decided(j)
  BY <1>1 DEF TxInv, TablesOK, JobOK
<1>3. writer = h /\ \A k \in Handlers \ {h} : ~InTransaction(job[k])
  BY <1>1, OneWriter DEF InTransaction
<1>4. InTransaction(next)
  BY <1>1, <1>2 DEF InTransaction, Refused
<1>5. JobOK(h)'
  <2>1. CASE ~Permits(Head(j.todo), j)
    <3>1. job'[h] = Refused
      BY <1>1, <1>2, <2>1
    <3> QED
      BY <3>1, NothingOwed
  <2>2. CASE Permits(Head(j.todo), j)
    <3>1. work' = Then(work, Head(j.todo), j)
      BY <2>2 DEF Execute, Then
    <3>2. job'[h] = [j EXCEPT !.todo = Tail(j.todo)]
      BY <1>1, <1>2, <2>2
    <3>3. /\ job'[h].at = "write" /\ job'[h].todo = Tail(j.todo)
          /\ job'[h].request = j.request /\ job'[h].event = j.event
          /\ job'[h].answer = j.answer
          /\ DOMAIN job'[h] = {"at", "request", "todo", "event", "answer"}
      BY <1>1, <1>2, <3>2
    <3> HIDE DEF j, next
    <3>4. db' = db /\ given' = given /\ instant' = instant
      BY <1>1
    <3>5. Creating(j) => Creating(j)'
      BY <1>1, <3>1, <3>3, <3>4, Further DEF Creating, j
    <3>6. Claiming(j) => Claiming(j)'
      BY <1>1, <3>1, <3>3, <3>4, Further, SMTT(30) DEF Claiming, Base!IsOpen, j
    <3>7. Voting(j) => Voting(j)'
      BY <1>1, <3>1, <3>3, <3>4, Further
         DEF Voting, Base!IsOpen, Base!ValidCredential, Base!IsSpent, j
    <3>8. Closing(j) => Closing(j)'
      <4>1. \A p : Base!TallyOf(p)' = Base!TallyOf(p)
        BY <3>4 DEF Base!TallyOf
      <4> QED
        BY <1>1, <3>1, <3>3, <3>4, <4>1, Further DEF Closing, Base!ClosingOf, j
    <3>9. Decided(j)'
      BY <1>1, <1>2, <3>5, <3>6, <3>7, <3>8 DEF Decided
    <3> QED
      BY <1>2, <3>3, <3>9 DEF JobOK, j
  <2> QED
    BY <2>1, <2>2
<1> HIDE DEF next
<1> QED
  BY <1>1, <1>3, <1>4, <1>5, HandlerMoves

\* A transaction that decided to write, or found what was asked for.
LEMMA WritingFields ==
  ASSUME NEW q, NEW todo, NEW event, NEW answer
  PROVE  LET j == Writing(q, todo, event, answer)
         IN  /\ j.at = "write" /\ j.request = q /\ j.todo = todo /\ j.event = event
             /\ j.answer = answer
             /\ DOMAIN j = {"at", "request", "todo", "event", "answer"}
BY DEF Writing

\* The same of one that has nothing to write.
LEMMA FoundFields ==
  ASSUME NEW q, NEW answer
  PROVE  LET j == Found(q, answer)
         IN  /\ j.at = "write" /\ j.request = q /\ j.todo = << >> /\ j.answer = answer
             /\ DOMAIN j = {"at", "request", "todo", "event", "answer"}
BY DEF Writing, Found

\* What every query starts from, and what is left to show of its decision.
LEMMA Deciding ==
  ASSUME TxInv, [TxNext]_txVars, NEW h \in Handlers, NEW at, NEW decision,
         job[h].at = "read", Decide(h, at, decision)
  PROVE  /\ work = db /\ job[h].request \in Requests /\ StillChecked(job[h])
         /\ job[h].request.poll \in Polls
         /\ instant' = at /\ job'[h] = decision
         /\ UNCHANGED <<db, given, clock, writer, work>>
         /\ InTransaction(decision) /\ JobOK(h)' => JobsOK'
<1>1. /\ instant' = at /\ job' = [job EXCEPT ![h] = decision]
      /\ UNCHANGED <<db, given, clock, writer, work>>
  BY DEF Decide
<1>2. /\ work = db /\ job[h].request \in Requests /\ StillChecked(job[h])
      /\ DOMAIN job = Handlers
  BY DEF TxInv, TablesOK, JobOK
<1>3. InTransaction(job[h])
  BY DEF InTransaction
<1>4. writer = h /\ \A k \in Handlers \ {h} : ~InTransaction(job[k])
  BY <1>3, OneWriter
<1>5. InTransaction(decision) /\ JobOK(h)' => JobsOK'
  BY <1>1, <1>4, HandlerMoves
<1>6. job'[h] = decision
  BY <1>1, <1>2
<1> QED
  BY <1>1, <1>2, <1>5, <1>6, RequestFields

\* A creation that finds no row creates the poll it was validated for.
LEMMA CreateRead ==
  ASSUME TxInv, [TxNext]_txVars, NEW h \in Handlers, ReadForCreate(h)
  PROVE  JobsOK'
<1> DEFINE q == job[h].request
           p == q.poll
           event == Live!NextEvent(<< >>, [type |-> "poll_created"])
           todo == <<"InsertPoll", "InsertChoices", "InsertCredits", "InsertBallotEvent",
                     "SaveCheckpoint">>
           creating == Writing(q, todo, event, NoAnswer)
           decision == IF db.state[p] = "absent" THEN creating ELSE Refused
<1>1. /\ job[h].at = "read" /\ q.is = "create"
      /\ Decide(h, job[h].validated, decision)
  BY DEF ReadForCreate, Reading
<1>2. /\ work = db /\ q \in Requests /\ p \in Polls
      /\ instant' = job[h].validated /\ instant' < ClosesAt[p]
      /\ job'[h] = decision /\ db' = db /\ work' = work
      /\ InTransaction(decision) /\ JobOK(h)' => JobsOK'
  <2>1. StillChecked(job[h])
    BY <1>1, Deciding
  <2> HIDE DEF decision
  <2> QED
    BY <1>1, <2>1, Deciding DEF StillChecked
<1>3. CASE db.state[p] # "absent"
  <2>1. decision = Refused
    BY <1>3
  <2> HIDE DEF decision
  <2> QED
    BY <1>2, <2>1, NothingOwed DEF InTransaction, Refused
<1>4. CASE db.state[p] = "absent"
  <2>1. db.ballotEvents[p] = << >>
    BY <1>2, <1>4, SMTT(30) DEF TxInv, TablesOK, Base!RecordInv, Base!RowsFollow
  <2>2. /\ job'[h].at = "write" /\ job'[h].request = q
        /\ job'[h].todo = todo
        /\ job'[h].event = Base!NextEvent(db.ballotEvents[p], Base!Creation)
        /\ job'[h].answer = NoAnswer
        /\ DOMAIN job'[h] = {"at", "request", "todo", "event", "answer"}
    <3>1. job'[h] = creating
      BY <1>2, <1>4
    <3>2. event = Base!NextEvent(db.ballotEvents[p], Base!Creation)
      BY <2>1, SameOperators DEF Base!Creation
    <3> HIDE DEF event
    <3> QED
      BY <3>1, <3>2, WritingFields
  <2> HIDE DEF q, p
  <2>3. Creating(job[h])'
    BY <1>1, <1>2, <1>4, <2>2 DEF Creating, Five, p
  <2>4. JobOK(h)' /\ InTransaction(job'[h])
    BY <1>2, <2>2, <2>3, SMTT(30) DEF JobOK, Decided, InTransaction
  <2> QED
    BY <1>2, <2>4
<1> QED
  BY <1>3, <1>4

\* A claim is decided on the member's credit.
LEMMA ClaimRead ==
  ASSUME TxInv, [TxNext]_txVars, NEW h \in Handlers, ReadForClaim(h)
  PROVE  JobsOK'
<1> DEFINE q == job[h].request
           p == q.poll
           credit == db.credits[p][q.member]
           row == [request |-> q.request, blinded |-> q.blinded]
           claim == [member |-> q.member, request |-> q.request, blinded |-> q.blinded]
           event == Live!NextEvent(db.creditEvents[p], claim)
           refused == \/ ~Live!IsOpen(p) \/ q.member \notin db.enrolled[p]
                      \/ credit \notin {Live!Unclaimed, row}
           claiming == Writing(q, <<"ClaimCredit", "InsertCreditEvent">>, event, Signature(q))
           decision == IF refused THEN Refused
                       ELSE IF credit = row THEN Found(q, Signature(q)) ELSE claiming
<1>1. job[h].at = "read" /\ q.is = "claim" /\ Decide(h, clock, decision)
  BY Zenon DEF ReadForClaim, Reading
<1>2. /\ work = db /\ q \in Requests /\ p \in Polls /\ instant' = clock
      /\ job'[h] = decision /\ db' = db /\ work' = work
      /\ InTransaction(decision) /\ JobOK(h)' => JobsOK'
  <2> HIDE DEF decision
  <2> QED
    BY <1>1, Deciding
<1>3. CASE refused
  <2>1. decision = Refused
    BY <1>3
  <2> HIDE DEF decision
  <2> QED
    BY <1>2, <2>1, NothingOwed, SMTT(30) DEF InTransaction, Refused
<1>4. CASE ~refused
  <2>1. db.state[p] = "open" /\ instant' < ClosesAt[p] /\ q.member \in Roster[p]
    <3>1. db.state[p] = "open" /\ instant' < ClosesAt[p] /\ q.member \in db.enrolled[p]
      BY <1>2, <1>4 DEF Live!IsOpen
    <3>2. RowsWhole
      BY DEF TxInv, TablesOK
    <3> QED
      BY <1>2, <3>1, <3>2 DEF RowsWhole
  <2>2. CASE credit = row
    <3>1. job'[h] = Found(q, Signature(q))
      BY <1>2, <1>4, <2>2
    <3> HIDE DEF decision
    <3>2. /\ job'[h].at = "write" /\ job'[h].request = q /\ job'[h].todo = << >>
          /\ job'[h].answer = Signature(q)
          /\ DOMAIN job'[h] = {"at", "request", "todo", "event", "answer"}
      BY <3>1, FoundFields
    <3> HIDE DEF q, p
    <3>3. ClaimFound(job[h])'
      BY <1>1, <1>2, <2>1, <2>2, <3>2 DEF ClaimFound, Base!IsOpen, p
    <3>4. JobOK(h)' /\ InTransaction(job'[h])
      BY <1>2, <3>2, <3>3, SMTT(30) DEF JobOK, Decided, InTransaction
    <3> QED
      BY <1>2, <3>4
  <2>3. CASE credit # row
    <3>1. job'[h] = claiming /\ credit = Base!Unclaimed
      BY <1>2, <1>4, <2>3, SameOperators
    <3>2. event = Base!NextEvent(db.creditEvents[p], claim)
      BY SameOperators
    <3> HIDE DEF decision, event
    <3>3. /\ job'[h].at = "write" /\ job'[h].request = q
          /\ job'[h].todo = <<"ClaimCredit", "InsertCreditEvent">>
          /\ job'[h].event = event /\ job'[h].answer = Signature(q)
          /\ DOMAIN job'[h] = {"at", "request", "todo", "event", "answer"}
      BY <3>1, WritingFields
    <3> HIDE DEF q, p
    <3>4. Claiming(job[h])'
      BY <1>1, <1>2, <2>1, <3>1, <3>2, <3>3, Zenon DEF Claiming, Two, Base!IsOpen, p
    <3>5. JobOK(h)' /\ InTransaction(job'[h])
      BY <1>2, <3>3, <3>4 DEF JobOK, Decided, InTransaction
    <3> QED
      BY <1>2, <3>5
  <2> QED
    BY <2>2, <2>3, SMTT(30)
<1> QED
  BY <1>3, <1>4

\* A vote is decided on the spent row of its credential, and then on the poll.
LEMMA VoteRead ==
  ASSUME TxInv, [TxNext]_txVars, NEW h \in Handlers, ReadForVote(h)
  PROVE  JobsOK'
<1> DEFINE q == job[h].request
           p == q.poll
           log == db.ballotEvents[p]
           ballot == log[db.spent[p][q.credential]]
           receipt == ReceiptAnswer(Base!ReceiptOf(p, ballot))
           record == [type |-> "ballot_accepted", credential |-> q.credential,
                      choice |-> q.choice]
           event == Live!NextEvent(log, record)
           answer == ReceiptAnswer(Base!ReceiptOf(p, event))
           repeats == ballot.artifact.choice = q.choice
           found == Found(q, ReceiptAnswer(Live!ReceiptOf(p, ballot)))
           accepts == Live!IsOpen(p) /\ Live!AcceptsBallots(log) /\ q.choice \in db.choices[p]
           voting == Writing(q, <<"SpendCredential", "InsertBallotEvent", "SaveCheckpoint">>,
                             event, ReceiptAnswer(Live!ReceiptOf(p, event)))
           decision == IF Live!IsSpent(p, q.credential)
                       THEN IF repeats THEN found ELSE Refused
                       ELSE IF accepts THEN voting ELSE Refused
<1>1. job[h].at = "read" /\ q.is = "vote" /\ Decide(h, clock, decision)
  BY Zenon DEF ReadForVote, Reading
<1>2. /\ work = db /\ q \in Requests /\ p \in Polls /\ instant' = clock
      /\ job'[h] = decision /\ db' = db /\ work' = work /\ given' = given
      /\ Base!ValidCredential(p, q.credential) /\ q.choice \in ChoicesOf[p]
      /\ InTransaction(decision) /\ JobOK(h)' => JobsOK'
  <2> HIDE DEF decision
  <2>1. StillChecked(job[h])
    BY <1>1, Deciding
  <2> QED
    BY <1>1, <2>1, Deciding DEF StillChecked
<1>3. CASE decision = Refused
  <2> HIDE DEF decision
  <2> QED
    BY <1>2, <1>3, NothingOwed DEF InTransaction, Refused
<1>4. CASE Live!IsSpent(p, q.credential) /\ repeats
  <2>1. job'[h] = Found(q, receipt)
    <3>1. job'[h] = found
      BY <1>2, <1>4, Zenon
    <3>2. Live!ReceiptOf(p, ballot) = Base!ReceiptOf(p, ballot)
      BY SameOperators, Zenon
    <3> QED
      BY <3>1, <3>2, Zenon
  <2>2. Base!IsSpent(p, q.credential)
    BY <1>4, SameOperators, Zenon
  <2> HIDE DEF decision, receipt
  <2>3. /\ job'[h].at = "write" /\ job'[h].request = q /\ job'[h].todo = << >>
        /\ job'[h].answer = receipt
        /\ DOMAIN job'[h] = {"at", "request", "todo", "event", "answer"}
    BY <2>1, FoundFields
  <2> HIDE DEF q, p
  <2>4. VoteFound(job[h])'
    BY <1>1, <1>2, <1>4, <2>2, <2>3, Zenon
       DEF VoteFound, Base!ValidCredential, Base!IsSpent, p, receipt
  <2>5. JobOK(h)' /\ InTransaction(job'[h])
    BY <1>2, <2>3, <2>4 DEF JobOK, Decided, InTransaction
  <2> QED
    BY <1>2, <2>5
<1>5. CASE ~Live!IsSpent(p, q.credential) /\ accepts
  <2>1. /\ job'[h] = voting /\ ~Base!IsSpent(p, q.credential)
        /\ db.state[p] = "open" /\ instant' < ClosesAt[p] /\ Base!AcceptsBallots(log)
    BY <1>2, <1>5, SameOperators, Zenon DEF Live!IsOpen
  <2>2. /\ event = Base!NextEvent(log, Base!BallotOf(q.credential, q.choice))
        /\ Live!ReceiptOf(p, event) = Base!ReceiptOf(p, event)
    BY SameOperators DEF Base!BallotOf
  <2>3. job'[h] = Writing(q, <<"SpendCredential", "InsertBallotEvent", "SaveCheckpoint">>,
                          event, answer)
    BY <2>1, <2>2
  <2> HIDE DEF decision, event, answer
  <2>4. /\ job'[h].at = "write" /\ job'[h].request = q
        /\ job'[h].todo = <<"SpendCredential", "InsertBallotEvent", "SaveCheckpoint">>
        /\ job'[h].event = event /\ job'[h].answer = answer
        /\ DOMAIN job'[h] = {"at", "request", "todo", "event", "answer"}
    BY <2>3, WritingFields
  <2> HIDE DEF q, p
  <2>5. Voting(job[h])'
    BY <1>1, <1>2, <2>1, <2>2, <2>4, Zenon
       DEF Voting, Three, Base!IsOpen, Base!ValidCredential, Base!IsSpent, p, answer
  <2>6. JobOK(h)' /\ InTransaction(job'[h])
    BY <1>2, <2>4, <2>5 DEF JobOK, Decided, InTransaction
  <2> QED
    BY <1>2, <2>6
<1> QED
  BY <1>3, <1>4, <1>5, Zenon

\* A close is decided on the state of the poll, and tallies the log as it is.
LEMMA CloseRead ==
  ASSUME TxInv, [TxNext]_txVars, NEW h \in Handlers, ReadForClose(h)
  PROVE  JobsOK'
<1> DEFINE q == job[h].request
           p == q.poll
           tally == Live!TallyOf(p)
           event == Live!NextEvent(db.ballotEvents[p], [type |-> "poll_closed", tally |-> tally])
           found == Found(q, TallyAnswer(p, db.tallies[p]))
           todo == <<"InsertBallotEvent", "SaveCheckpoint", "ClosePoll", "SaveTally">>
           closing == Writing(q, todo, event, TallyAnswer(p, tally))
           decision == IF db.state[p] = "closed" THEN found ELSE closing
<1>1. job[h].at = "read" /\ q.is = "close" /\ Decide(h, clock, decision)
  BY DEF ReadForClose, Reading
<1>2. /\ work = db /\ q \in Requests /\ p \in Polls /\ instant' = clock
      /\ job'[h] = decision /\ db' = db /\ work' = work
      /\ db.state[p] # "absent"
      /\ InTransaction(decision) /\ JobOK(h)' => JobsOK'
  <2> HIDE DEF decision
  <2>1. StillChecked(job[h])
    BY <1>1, Deciding
  <2> QED
    BY <1>1, <2>1, Deciding DEF StillChecked
<1>3. CASE db.state[p] = "closed"
  <2>1. job'[h] = Found(q, TallyAnswer(p, db.tallies[p]))
    BY <1>2, <1>3
  <2> HIDE DEF decision
  <2>2. /\ job'[h].at = "write" /\ job'[h].request = q /\ job'[h].todo = << >>
        /\ job'[h].answer = TallyAnswer(p, db.tallies[p])
        /\ DOMAIN job'[h] = {"at", "request", "todo", "event", "answer"}
    BY <2>1, FoundFields
  <2> HIDE DEF q, p
  <2>3. TallyFound(job[h])'
    BY <1>1, <1>2, <1>3, <2>2 DEF TallyFound, p
  <2>4. JobOK(h)' /\ InTransaction(job'[h])
    BY <1>2, <2>2, <2>3 DEF JobOK, Decided, InTransaction
  <2> QED
    BY <1>2, <2>4
<1>4. CASE db.state[p] # "closed"
  <2>1. job'[h] = closing /\ db.state[p] = "open"
    <3>1. db.state[p] \in {"absent", "open", "closed"}
      BY <1>2 DEF TxInv, TablesOK, Base!IInv, Base!TypeOK
    <3> QED
      BY <1>2, <1>4, <3>1
  <2>2. \A x : Base!TallyOf(x)' = Live!TallyOf(x)
    BY <1>2, SameInstant
  <2>3. event = Base!NextEvent(db.ballotEvents[p], [type |-> "poll_closed", tally |-> tally])
    BY SameOperators
  <2> HIDE DEF decision, event
  <2>4. /\ job'[h].at = "write" /\ job'[h].request = q /\ job'[h].todo = todo
        /\ job'[h].event = event /\ job'[h].answer = TallyAnswer(p, tally)
        /\ DOMAIN job'[h] = {"at", "request", "todo", "event", "answer"}
    BY <2>1, WritingFields
  <2> HIDE DEF q, p
  <2>5. Closing(job[h])'
    BY <1>1, <1>2, <2>1, <2>2, <2>3, <2>4, Zenon DEF Closing, Four, Base!ClosingOf, p
  <2>6. JobOK(h)' /\ InTransaction(job'[h])
    BY <1>2, <2>4, <2>5 DEF JobOK, Decided, InTransaction
  <2> QED
    BY <1>2, <2>6
<1> QED
  BY <1>3, <1>4

------------------------------------------------------------------------------
(* The invariant holds *)

\* The empty tables are those the sequencer starts with.
LEMMA BaseInit == TxInit => Base!Init
<1> SUFFICES ASSUME TxInit PROVE Base!Init
  OBVIOUS
<1>1. /\ db.state = [p \in Polls |-> "absent"]
      /\ db.closedAt = [p \in Polls |-> None]
      /\ db.credits = [p \in Polls |-> [m \in Members |-> Base!Unclaimed]]
      /\ db.creditEvents = [p \in Polls |-> << >>]
      /\ db.ballotEvents = [p \in Polls |-> << >>]
      /\ db.spent = [p \in Polls |-> [c \in Credentials |-> 0]]
      /\ db.checkpoints = [p \in Polls |-> << >>]
      /\ db.tallies = [p \in Polls |-> None]
  BY DEF TxInit, Live!Unclaimed, Base!Unclaimed
<1>2. given.issued = {} /\ given.receipts = {} /\ given.results = {} /\ instant = 0
  BY AnswerFields DEF TxInit
<1> QED
  BY <1>1, <1>2 DEF Base!Init

\* No handler has begun when the process starts.
LEMMA TxInvInit == TxInit => TxInv
<1> SUFFICES ASSUME TxInit PROVE TxInv
  OBVIOUS
<1>1. Base!IInv /\ Base!RecordInv
  BY BaseInit, BaseAssumptions, Base!InitInvariant, Base!RecordInvInit
<1>2. /\ DOMAIN db = Tables /\ DOMAIN given = {"issued", "receipts", "results"}
      /\ DOMAIN job = Handlers /\ writer = None
  BY DEF TxInit, Tables, NoAnswer
<1>3. clock \in Base!Times
  BY TransactionsAssumption DEF TxInit, Base!Times
<1>4. \A h \in Handlers : job[h].at = "idle" /\ h # None
  BY TransactionsAssumption DEF TxInit, Idle
<1>5. Locked /\ \A h \in Handlers : JobOK(h)
  BY <1>2, <1>4 DEF Locked, JobOK
<1>6. RowsWhole
  BY DEF TxInit, RowsWhole
<1> QED
  BY <1>1, <1>2, <1>3, <1>5, <1>6 DEF TxInv, TablesOK

\* The tables stay those of a sequencer, and the clock a time.
LEMMA TablesOKStep ==
  ASSUME TxInv, [TxNext]_txVars, JobsOK'
  PROVE  TxInv'
<1>1. [Base!Next]_(Base!vars) /\ DOMAIN db' = Tables /\ RowsWhole'
  BY TablesStep
<1>2. Base!IInv /\ Base!RecordInv
  BY DEF TxInv, TablesOK
<1>3. Base!IInv'
  BY <1>1, <1>2, BaseAssumptions, Base!NextInvariant
<1>4. Base!RecordInv'
  BY <1>1, <1>2, BaseAssumptions, Base!RecordInvStep
<1>5. DOMAIN given' = {"issued", "receipts", "results"}
  <2>1. ASSUME NEW h \in Handlers, Commit(h) PROVE DOMAIN given' = {"issued", "receipts", "results"}
    BY <2>1, CommitEffect
  <2> QED
    BY <2>1, Steps DEF TxInv, TablesOK
<1>6. clock' \in Base!Times /\ writer' \in Handlers \cup {None}
  <2>1. clock \in Base!Times /\ writer \in Handlers \cup {None}
    BY DEF TxInv, TablesOK
  <2>2. ASSUME NEW h \in Handlers, NEW q \in Requests, Receive(h, q)
        PROVE  clock' = clock /\ writer' = writer
    BY <2>2 DEF Receive
  <2>3. ASSUME NEW h \in Handlers,
               Begin(h) \/ Execute(h) \/ Commit(h) \/ Rollback(h) \/ GiveUp(h) \/ Fail(h)
        PROVE  clock' = clock /\ writer' \in {writer, h, None}
    BY <2>3 DEF Begin, Execute, Commit, Rollback, GiveUp, Fail, Finish
  <2>4. ASSUME NEW h \in Handlers, ReadStep(h) PROVE clock' = clock /\ writer' = writer
    BY <2>4, Zenon DEF ReadStep, ReadForCreate, ReadForClaim, ReadForVote, ReadForClose, Decide
  <2>5. Crash => clock' = clock /\ writer' = None
    BY DEF Crash
  <2>6. SetClock => clock' \in Base!Times /\ writer' = writer
    BY SameOperators DEF SetClock
  <2>7. UNCHANGED txVars => clock' = clock /\ writer' = writer
    BY DEF txVars
  <2> QED
    BY <2>1, <2>2, <2>3, <2>4, <2>5, <2>6, <2>7 DEF TxNext, HandlerStep
<1> QED
  BY <1>1, <1>3, <1>4, <1>5, <1>6 DEF TxInv, TablesOK, JobsOK

\* A killed process has nothing under way, and the clock says nothing of what is.
LEMMA CrashStep ==
  ASSUME TxInv, [TxNext]_txVars, Crash \/ SetClock \/ UNCHANGED txVars
  PROVE  JobsOK'
<1>1. CASE Crash
  <2>1. /\ job' = [h \in Handlers |-> Idle] /\ writer' = None
        /\ \A h \in Handlers : job'[h] = Idle /\ job'[h].at = "idle" /\ h # None
    BY <1>1, TransactionsAssumption DEF Crash, Idle
  <2>2. \A h \in Handlers : JobOK(h)'
    BY <2>1, NothingOwed
  <2> QED
    BY <2>1, <2>2 DEF JobsOK, Locked
<1>2. CASE SetClock \/ UNCHANGED txVars
  <2>1. UNCHANGED <<db, given, job, writer, work, instant>>
    BY <1>2 DEF SetClock, txVars
  <2>2. \A h \in Handlers : JobOK(h)'
    BY <2>1, OtherHandlers
  <2> QED
    BY <2>1, <2>2 DEF TxInv, TablesOK, JobsOK, Locked
<1> QED
  BY <1>1, <1>2

\* One step per operation and statement.
LEMMA TxInvStep == TxInv /\ [TxNext]_txVars => TxInv'
<1> SUFFICES ASSUME TxInv, [TxNext]_txVars PROVE TxInv'
  OBVIOUS
<1>1. ASSUME NEW h \in Handlers,
             Begin(h) \/ GiveUp(h) \/ (\E q \in Requests : Receive(h, q))
      PROVE  JobsOK'
  BY <1>1, BeforeReading
<1>2. ASSUME NEW h \in Handlers, ReadStep(h) PROVE JobsOK'
  BY <1>2, CreateRead, ClaimRead, VoteRead, CloseRead DEF ReadStep
<1>3. ASSUME NEW h \in Handlers, Execute(h) PROVE JobsOK'
  BY <1>3, ExecuteStep
<1>4. ASSUME NEW h \in Handlers, Commit(h) \/ Rollback(h) \/ Fail(h) PROVE JobsOK'
  BY <1>4, Endings
<1>5. Crash \/ SetClock \/ UNCHANGED txVars => JobsOK'
  BY CrashStep
<1>6. JobsOK'
  BY <1>1, <1>2, <1>3, <1>4, <1>5 DEF TxNext, HandlerStep
<1> QED
  BY <1>6, TablesOKStep

\* What every reachable state of the transactions satisfies: a transaction holds the lock
\* alone, its tables are the committed ones with what it has written so far, and what it found
\* in them when it read is still so.
THEOREM TxInvariant == TxSpec => []TxInv
BY TxInvInit, TxInvStep, PTL DEF TxSpec

------------------------------------------------------------------------------
(* The transactions implement the sequencer *)

\* A step of the sequencer that is proved about is one of the sequencer that is implemented.
LEMMA SameOperations ==
  /\ \A p : Base!CreatePoll(p) => Atomic!CreatePoll(p)
  /\ \A p, m, r, b : Base!ClaimCredit(p, m, r, b) => Atomic!ClaimCredit(p, m, r, b)
  /\ \A p, m, r, b : Base!RepeatClaim(p, m, r, b) => Atomic!RepeatClaim(p, m, r, b)
  /\ \A p, c, ch : Base!Vote(p, c, ch) => Atomic!Vote(p, c, ch)
  /\ \A p, c, ch : Base!RepeatVote(p, c, ch) => Atomic!RepeatVote(p, c, ch)
  /\ \A p : Base!ClosePoll(p) => Atomic!ClosePoll(p)
  /\ \A p : Base!ReturnTally(p) => Atomic!ReturnTally(p)
  /\ Base!SetClock => Atomic!SetClock
<1>1. \A log, artifact : Base!NextEvent(log, artifact) = Atomic!NextEvent(log, artifact)
  BY DEF Base!NextEvent, Atomic!NextEvent, Base!EventHash, Atomic!EventHash,
         Base!EmptyHash, Atomic!EmptyHash
<1>2. \A p, artifact : Base!AppendBallotEvent(p, artifact) => Atomic!AppendBallotEvent(p, artifact)
  BY <1>1 DEF Base!AppendBallotEvent, Atomic!AppendBallotEvent,
              Base!CheckpointOf, Atomic!CheckpointOf
<1>3. /\ Base!tables = Atomic!tables /\ Base!tables' = Atomic!tables'
      /\ Base!answers = Atomic!answers /\ Base!answers' = Atomic!answers'
      /\ Base!Unclaimed = Atomic!Unclaimed
  BY DEF Base!tables, Atomic!tables, Base!answers, Atomic!answers,
         Base!Unclaimed, Atomic!Unclaimed
<1>4. /\ \A p : Base!IsOpen(p) <=> Atomic!IsOpen(p)
      /\ \A p, c : Base!ValidCredential(p, c) <=> Atomic!ValidCredential(p, c)
      /\ \A p, c : Base!IsSpent(p, c) <=> Atomic!IsSpent(p, c)
      /\ \A log : Base!AcceptsBallots(log) <=> Atomic!AcceptsBallots(log)
      /\ \A log : Base!HasClosed(log) <=> Atomic!HasClosed(log)
      /\ \A log : Base!Ballots(log) = Atomic!Ballots(log)
      /\ \A p, event : Base!ReceiptOf(p, event) = Atomic!ReceiptOf(p, event)
  BY DEF Base!IsOpen, Atomic!IsOpen, Base!ValidCredential, Atomic!ValidCredential,
         Base!IsSpent, Atomic!IsSpent, Base!AcceptsBallots, Atomic!AcceptsBallots,
         Base!HasClosed, Atomic!HasClosed, Base!Ballots, Atomic!Ballots,
         Base!ReceiptOf, Atomic!ReceiptOf
<1>5. ASSUME NEW p PROVE Base!TallyOf(p) = Atomic!TallyOf(p)
  <2> DEFINE log == db.ballotEvents[p]
  <2>1. \A S : Base!Cardinality(S) = Atomic!Cardinality(S)
    BY DEF Base!Cardinality, Atomic!Cardinality
  <2>2. \A ch : Base!BallotsFor(log, ch) = Atomic!BallotsFor(log, ch)
    BY DEF Base!BallotsFor, Atomic!BallotsFor
  <2>3. {[choice |-> ch, total |-> Base!Cardinality(Base!BallotsFor(log, ch))] :
           ch \in ChoicesOf[p]}
          = {[choice |-> ch, total |-> Atomic!Cardinality(Atomic!BallotsFor(log, ch))] :
               ch \in ChoicesOf[p]}
    BY <2>1, <2>2
  <2>4. Base!Cardinality(Base!Ballots(log)) = Atomic!Cardinality(Atomic!Ballots(log))
    BY <2>1, <1>4
  <2> QED
    BY <2>3, <2>4 DEF Base!TallyOf, Atomic!TallyOf
<1>6. \A p : Base!CreatePoll(p) => Atomic!CreatePoll(p)
  BY <1>2, <1>3 DEF Base!CreatePoll, Atomic!CreatePoll
<1>7. \A p, m, r, b : Base!ClaimCredit(p, m, r, b) => Atomic!ClaimCredit(p, m, r, b)
  BY <1>1, <1>3, <1>4, SMTT(30) DEF Base!ClaimCredit, Atomic!ClaimCredit
<1>8. \A p, m, r, b : Base!RepeatClaim(p, m, r, b) => Atomic!RepeatClaim(p, m, r, b)
  BY <1>3, <1>4 DEF Base!RepeatClaim, Atomic!RepeatClaim
<1>9. \A p, c, ch : Base!Vote(p, c, ch) => Atomic!Vote(p, c, ch)
  BY <1>1, <1>2, <1>4 DEF Base!Vote, Atomic!Vote
<1>10. \A p, c, ch : Base!RepeatVote(p, c, ch) => Atomic!RepeatVote(p, c, ch)
  BY <1>3, <1>4 DEF Base!RepeatVote, Atomic!RepeatVote
<1>11. \A p : Base!ClosePoll(p) => Atomic!ClosePoll(p)
  BY <1>2, <1>4, <1>5 DEF Base!ClosePoll, Atomic!ClosePoll
<1>12. \A p : Base!ReturnTally(p) => Atomic!ReturnTally(p)
  BY <1>3 DEF Base!ReturnTally, Atomic!ReturnTally
<1>13. Base!SetClock => Atomic!SetClock
  BY <1>3 DEF Base!SetClock, Atomic!SetClock, Base!Times, Atomic!Times
<1> QED
  BY <1>6, <1>7, <1>8, <1>9, <1>10, <1>11, <1>12, <1>13

\* The two start alike and step alike.
LEMMA SameSequencer ==
  /\ Base!Init => Atomic!Init
  /\ [Base!Next]_(Base!vars) => [Atomic!Next]_(Atomic!vars)
<1>1. Base!Init => Atomic!Init
  BY DEF Base!Init, Atomic!Init, Base!Unclaimed, Atomic!Unclaimed
<1>2. Base!Next => Atomic!Next
  BY SameOperations DEF Base!Next, Atomic!Next
<1>3. UNCHANGED Base!vars => UNCHANGED Atomic!vars
  BY DEF Base!vars, Atomic!vars, Base!tables, Atomic!tables, Base!answers, Atomic!answers
<1> QED
  BY <1>1, <1>2, <1>3

\* The committed tables and the answers behave as if every operation were one step: a commit
\* is the operation, a query of the clock moves the sequencer's clock, and a statement, a
\* failure, a rollback or a crash is no step at all.
THEOREM TransactionsImplement == TxSpec => Implements
<1>1. TxInit => Atomic!Init
  BY BaseInit, SameSequencer
<1>2. TxInv /\ [TxNext]_txVars => [Atomic!Next]_(Atomic!vars)
  BY TablesStep, SameSequencer
<1> QED
  BY <1>1, <1>2, TxInvariant, PTL DEF TxSpec, Implements, Atomic!Spec

------------------------------------------------------------------------------
(* No statement runs into a constraint *)

\* What comes next, and what is written by then, of a transaction under way.
LEMMA Stages ==
  ASSUME NEW j, j.todo # << >>, NEW a, NEW b, NEW c, NEW d, NEW e
  PROVE  /\ Two(j, a, b) =>
              \/ Head(j.todo) = a /\ work = db
              \/ Head(j.todo) = b /\ work = Then(db, a, j)
         /\ Three(j, a, b, c) =>
              \/ Head(j.todo) = a /\ work = db
              \/ Head(j.todo) = b /\ work = Then(db, a, j)
              \/ Head(j.todo) = c /\ work = Then(Then(db, a, j), b, j)
         /\ Four(j, a, b, c, d) =>
              \/ Head(j.todo) = a /\ work = db
              \/ Head(j.todo) = b /\ work = Then(db, a, j)
              \/ Head(j.todo) = c /\ work = Then(Then(db, a, j), b, j)
              \/ Head(j.todo) = d /\ work = Then(Then(Then(db, a, j), b, j), c, j)
         /\ Five(j, a, b, c, d, e) =>
              \/ Head(j.todo) = a /\ work = db
              \/ Head(j.todo) = b /\ work = Then(db, a, j)
              \/ Head(j.todo) = c /\ work = Then(Then(db, a, j), b, j)
              \/ Head(j.todo) = d /\ work = Then(Then(Then(db, a, j), b, j), c, j)
              \/ Head(j.todo) = e /\ work = Then(Then(Then(Then(db, a, j), b, j), c, j), d, j)
<1>1. /\ Head(<<a>>) = a /\ Head(<<b>>) = b /\ Head(<<c>>) = c /\ Head(<<d>>) = d
      /\ Head(<<e>>) = e
  OBVIOUS
<1>2. /\ Head(<<a, b>>) = a /\ Head(<<b, c>>) = b /\ Head(<<c, d>>) = c
      /\ Head(<<d, e>>) = d
  OBVIOUS
<1>3. /\ Head(<<a, b, c>>) = a /\ Head(<<b, c, d>>) = b /\ Head(<<a, b, c, d>>) = a
      /\ Head(<<c, d, e>>) = c /\ Head(<<b, c, d, e>>) = b /\ Head(<<a, b, c, d, e>>) = a
  OBVIOUS
<1> QED
  BY <1>1, <1>2, <1>3 DEF Two, Three, Four, Five

\* Every spent credential has its ballot in the log: the deferred foreign key.
Backed(w) ==
  \A p \in Polls, c \in Credentials : w.spent[p][c] \in {0} \cup DOMAIN w.ballotEvents[p]

\* The next event of a chain has a sequence number and a hash of its own: a hash ends in the
\* sequence number of its event.
LEMMA NextFits ==
  ASSUME NEW Record, NEW log \in Seq(Base!Event(Record)), Base!Replays(log), NEW artifact
  PROVE  Fits(log, Base!NextEvent(log, artifact))
<1> DEFINE event == Base!NextEvent(log, artifact)
<1>1. /\ event.sequence = Len(log) + 1 /\ Len(log) \in Nat /\ DOMAIN log = 1..Len(log)
      /\ event.previous = IF log = << >> THEN << >> ELSE log[Len(log)].hash
      /\ event.hash = Append(event.previous, <<event.sequence, artifact>>)
  BY DEF Base!NextEvent, Base!EventHash, Base!EmptyHash
<1>2. \A i \in DOMAIN log :
        /\ log[i].sequence = i
        /\ log[i].hash = Append(log[i].previous, <<log[i].sequence, log[i].artifact>>)
  BY DEF Base!Replays, Base!EventHash
<1>3. \A i \in DOMAIN log : /\ log[i].previous \in Seq(Nat \X Record)
                           /\ log[i].hash \in Seq(Nat \X Record)
  <2>1. \A i \in DOMAIN log : log[i] \in Base!Event(Record)
    OBVIOUS
  <2> QED
    BY <2>1 DEF Base!Event, Base!Hash
<1>4. event.previous \in Seq(Nat \X Record)
  <2> HIDE DEF event
  <2> QED
    BY <1>1, <1>3
<1> HIDE DEF event
<1>5. ASSUME NEW i \in DOMAIN log PROVE log[i].hash # event.hash
  <2>1. ASSUME NEW S, NEW s \in Seq(S), NEW t \in Seq(S), NEW u, NEW v,
               Append(s, u) = Append(t, v)
        PROVE  u = v
    <3>1. Len(Append(s, u)) = Len(s) + 1 /\ Len(Append(t, v)) = Len(t) + 1
      OBVIOUS
    <3>2. Len(s) = Len(t) /\ Len(s) \in Nat
      BY <2>1, <3>1
    <3>3. Append(s, u)[Len(s) + 1] = u /\ Append(t, v)[Len(t) + 1] = v
      OBVIOUS
    <3> QED
      BY <2>1, <3>2, <3>3
  <2> DEFINE mine == <<log[i].sequence, log[i].artifact>>
             next == <<event.sequence, artifact>>
  <2>2. mine # next
    BY <1>1, <1>2
  <2>3. /\ log[i].hash = Append(log[i].previous, mine)
        /\ event.hash = Append(event.previous, next)
        /\ log[i].previous \in Seq(Nat \X Record) /\ event.previous \in Seq(Nat \X Record)
    BY <1>1, <1>2, <1>3, <1>4
  <2> HIDE DEF mine, next
  <2> QED
    BY <2>1, <2>2, <2>3
<1>6. ~Holds(log, event)
  BY <1>1, <1>2 DEF Holds
<1> QED
  BY <1>1, <1>5, <1>6 DEF Fits, event

\* No log has the sequence number of the event to come, and then the log has it.
LEMMA NextIsNew ==
  ASSUME Base!IInv, NEW p \in Polls, NEW artifact
  PROVE  /\ LET log == db.ballotEvents[p]
                event == Base!NextEvent(log, artifact)
            IN  /\ Fits(log, event) /\ ~Holds(db.checkpoints[p], event)
                /\ Holds(Append(log, event), event)
                /\ DOMAIN Append(log, event) = DOMAIN log \cup {event.sequence}
                /\ event.sequence \notin {0} \cup DOMAIN log
         /\ LET log == db.creditEvents[p]
            IN  Fits(log, Base!NextEvent(log, artifact))
<1> DEFINE log == db.ballotEvents[p]
           event == Base!NextEvent(log, artifact)
<1>1. /\ db.ballotEvents[p] \in Seq(Base!Event(Base!BallotRecord))
      /\ db.creditEvents[p] \in Seq(Base!Event(Base!CreditRecord))
  BY DEF Base!IInv, Base!TypeOK
<1>2. /\ Base!Replays(db.ballotEvents[p]) /\ Base!Replays(db.creditEvents[p])
      /\ \A i \in DOMAIN log : log[i].sequence = i
      /\ db.checkpoints[p] = [i \in DOMAIN log |-> Base!CheckpointOf(log[i])]
  BY DEF Base!IInv, Base!ChainsIntact, Base!Replays
<1>3. \A l, a : Base!NextEvent(l, a).sequence = Len(l) + 1
  BY DEF Base!NextEvent
<1>4. event.sequence = Len(log) + 1 /\ event.sequence \notin {0} \cup DOMAIN log
  BY <1>1, <1>3
<1>5. Fits(log, event)
  BY <1>1, <1>2, NextFits
<1>6. ~Holds(db.checkpoints[p], event)
  <2>1. \A i \in DOMAIN log : Base!CheckpointOf(log[i]).sequence = i
    BY <1>2 DEF Base!CheckpointOf
  <2>2. /\ DOMAIN db.checkpoints[p] = DOMAIN log
        /\ \A i \in DOMAIN log : db.checkpoints[p][i].sequence = i
    BY <1>2, <2>1
  <2> HIDE DEF event
  <2> QED
    BY <1>4, <2>2 DEF Holds
<1>7. Fits(db.creditEvents[p], Base!NextEvent(db.creditEvents[p], artifact))
  BY <1>1, <1>2, NextFits
<1>8. /\ Holds(Append(log, event), event)
      /\ DOMAIN Append(log, event) = DOMAIN log \cup {event.sequence}
  <2> HIDE DEF event
  <2>1. /\ DOMAIN Append(log, event) = 1..(Len(log) + 1) /\ DOMAIN log = 1..Len(log)
        /\ Len(log) \in Nat /\ Append(log, event)[Len(log) + 1] = event
    BY <1>1
  <2> QED
    BY <1>4, <2>1 DEF Holds
<1> QED
  BY <1>4, <1>5, <1>6, <1>7, <1>8

\* The committed tables have no spent credential without its ballot, nor with the next one.
LEMMA BackedInDb == Base!IInv => Backed(db)
BY SMTT(30) DEF Base!IInv, Base!TypeOK, Base!SpentPointsToBallot, Base!IsSpent, Base!Ballots, Backed

\* A statement on a ballot event or its checkpoint is permitted whatever the transaction wrote
\* to other tables before it.
LEMMA EventPermitted ==
  ASSUME Base!IInv, NEW j, NEW w, NEW artifact, j.request.poll \in Polls, DOMAIN w = Tables,
         w.ballotEvents = db.ballotEvents, w.checkpoints = db.checkpoints,
         w.state[j.request.poll] # "absent",
         j.event = Base!NextEvent(db.ballotEvents[j.request.poll], artifact),
         artifact.type = "ballot_accepted" <=> j.answer.receipts # {}
  PROVE  /\ work = w => Permits("InsertBallotEvent", j)
         /\ work = Then(w, "InsertBallotEvent", j) => Permits("SaveCheckpoint", j)
<1> DEFINE p == j.request.poll
           log == db.ballotEvents[p]
           logged == Then(w, "InsertBallotEvent", j)
<1>1. /\ Fits(log, j.event) /\ ~Holds(db.checkpoints[p], j.event)
      /\ Holds(Append(log, j.event), j.event) /\ j.event.artifact = artifact
  <2> DEFINE event == Base!NextEvent(log, artifact)
  <2>1. /\ Fits(log, event) /\ ~Holds(db.checkpoints[p], event)
        /\ Holds(Append(log, event), event) /\ event.artifact = artifact
    BY NextIsNew DEF Base!NextEvent
  <2>2. j.event = event
    OBVIOUS
  <2> QED
    BY <2>1, <2>2
<1>2. logged.ballotEvents = Logged(db.ballotEvents, j) /\ ButFor(logged, w, {"ballotEvents"})
  BY EventWritten
<1> HIDE DEF logged
<1>3. logged.checkpoints[p] = db.checkpoints[p] /\ logged.state = w.state
  BY <1>2 DEF ButFor, Tables
<1>4. logged.ballotEvents[p] = Append(log, j.event)
  <2>1. DOMAIN db.ballotEvents = Polls
    BY DEF Base!IInv, Base!TypeOK
  <2> QED
    BY <1>2, <2>1 DEF Logged
<1> QED
  BY <1>1, <1>3, <1>4 DEF Permits, logged

\* What the schema permits, but for a poll two of whose labels got one identifier.
Allowed(j) ==
  \/ Permits(Head(j.todo), j)
  \/ Head(j.todo) = "InsertChoices" /\ ~Distinct(j.request.poll)

\* The statements of a creation.
LEMMA CreatingPermitted ==
  ASSUME Base!IInv, RowsWhole, DOMAIN db = Tables, NEW j, j.request.poll \in Polls, Creating(j)
  PROVE  IF j.todo # << >> THEN Allowed(j) ELSE Backed(work)
<1> DEFINE p == j.request.poll
           row == Then(db, "InsertPoll", j)
           listed == Then(row, "InsertChoices", j)
           founded == Founded(j)
<1>1. /\ db.state[p] = "absent" /\ j.answer = NoAnswer
      /\ j.event = Base!NextEvent(db.ballotEvents[p], Base!Creation)
      /\ Five(j, "InsertPoll", "InsertChoices", "InsertCredits", "InsertBallotEvent",
              "SaveCheckpoint")
  BY DEF Creating
<1>2. /\ ButFor(row, db, {"state"}) /\ ButFor(listed, db, {"state", "choices"})
      /\ ButFor(founded, db, {"state", "choices", "enrolled"})
      /\ row.state = [db.state EXCEPT ![p] = "open"]
      /\ listed.state = row.state /\ founded.state = row.state
  BY FoundedWrites
<1>3. CASE j.todo # << >>
  <2>1. \/ Head(j.todo) = "InsertPoll" /\ work = db
        \/ Head(j.todo) = "InsertChoices" /\ work = row
        \/ Head(j.todo) = "InsertCredits" /\ work = listed
        \/ Head(j.todo) = "InsertBallotEvent" /\ work = founded
        \/ Head(j.todo) = "SaveCheckpoint" /\ work = Then(founded, "InsertBallotEvent", j)
    BY <1>1, <1>3, Stages DEF Founded
  <2> HIDE DEF row, listed, founded
  <2>2. /\ row.choices = db.choices /\ listed.enrolled = db.enrolled
        /\ founded.ballotEvents = db.ballotEvents /\ founded.checkpoints = db.checkpoints
        /\ DOMAIN founded = Tables
    BY <1>2 DEF ButFor, Tables
  <2>3. row.state[p] = "open" /\ db.choices[p] = {} /\ db.enrolled[p] = {}
    BY <1>1, <1>2 DEF RowsWhole, Base!IInv, Base!TypeOK
  <2>4. work = db => Permits("InsertPoll", j)
    BY <1>1 DEF Permits
  <2>5. work = row => Permits("InsertChoices", j) \/ ~Distinct(p)
    BY <2>2, <2>3 DEF Permits
  <2>6. work = listed => Permits("InsertCredits", j)
    BY <1>2, <2>2, <2>3 DEF Permits
  <2>7. /\ work = founded => Permits("InsertBallotEvent", j)
        /\ work = Then(founded, "InsertBallotEvent", j) => Permits("SaveCheckpoint", j)
    <3>1. Base!Creation.type = "ballot_accepted" <=> j.answer.receipts # {}
      BY <1>1, AnswerFields DEF Base!Creation
    <3> QED
      BY <1>1, <1>2, <2>2, <2>3, <3>1, EventPermitted
  <2> QED
    BY <1>3, <2>1, <2>4, <2>5, <2>6, <2>7 DEF Allowed
<1>4. CASE j.todo = << >>
  <2>1. /\ ButFor(work, db, {"state", "choices", "enrolled", "ballotEvents", "checkpoints"})
        /\ work.ballotEvents = Logged(db.ballotEvents, j)
    <3>1. work = Then(Then(founded, "InsertBallotEvent", j), "SaveCheckpoint", j)
      BY <1>1, <1>4, WrittenOut DEF Founded
    <3> QED
      BY <3>1, Created
  <2>2. work.spent = db.spent
    BY <2>1 DEF ButFor, Tables
  <2>3. \A q \in Polls : DOMAIN db.ballotEvents[q] \subseteq DOMAIN work.ballotEvents[q]
    <3> DEFINE event == Base!NextEvent(db.ballotEvents[p], Base!Creation)
    <3>1. DOMAIN Append(db.ballotEvents[p], event)
            = DOMAIN db.ballotEvents[p] \cup {event.sequence}
      BY NextIsNew
    <3>2. DOMAIN db.ballotEvents = Polls /\ j.event = event
      BY <1>1 DEF Base!IInv, Base!TypeOK
    <3> HIDE DEF event
    <3> QED
      BY <2>1, <3>1, <3>2 DEF Logged
  <2> QED
    BY <1>4, <2>2, <2>3, BackedInDb DEF Backed
<1> QED
  BY <1>3, <1>4

\* The statements of a first claim.
LEMMA ClaimingPermitted ==
  ASSUME Base!IInv, RowsWhole, DOMAIN db = Tables, NEW j, j.request.poll \in Polls, Claiming(j)
  PROVE  IF j.todo # << >> THEN Permits(Head(j.todo), j) ELSE Backed(work)
<1> DEFINE q == j.request
           p == q.poll
           claim == [member |-> q.member, request |-> q.request, blinded |-> q.blinded]
           row == Then(db, "ClaimCredit", j)
<1>1. /\ db.credits[p][q.member] = Base!Unclaimed /\ db.state[p] = "open"
      /\ q.member \in Roster[p]
      /\ j.event = Base!NextEvent(db.creditEvents[p], claim)
      /\ Two(j, "ClaimCredit", "InsertCreditEvent")
  BY DEF Claiming, Base!IsOpen
<1>2. ButFor(row, db, {"credits"})
  BY Claimed
<1>3. row.creditEvents = db.creditEvents /\ row.state = db.state
  <2> HIDE DEF row
  <2> QED
    BY <1>2 DEF ButFor, Tables
<1>4. CASE j.todo # << >>
  <2>1. \/ Head(j.todo) = "ClaimCredit" /\ work = db
        \/ Head(j.todo) = "InsertCreditEvent" /\ work = row
    BY <1>1, <1>4, Stages
  <2> HIDE DEF row
  <2>2. j.event.artifact.member = q.member
    BY <1>1 DEF Base!NextEvent
  <2>3. work = db => Permits("ClaimCredit", j)
    <3>1. q.member \in db.enrolled[p]
      BY <1>1 DEF RowsWhole
    <3> QED
      BY <1>1, <2>2, <3>1, SameOperators DEF Permits
  <2>4. work = row => Permits("InsertCreditEvent", j)
    <3> DEFINE event == Base!NextEvent(db.creditEvents[p], claim)
    <3>1. Fits(db.creditEvents[p], event)
      BY NextIsNew
    <3>2. Fits(db.creditEvents[p], j.event)
      BY <1>1, <3>1
    <3> QED
      BY <1>1, <1>3, <3>2 DEF Permits
  <2> QED
    BY <1>4, <2>1, <2>3, <2>4
<1>5. CASE j.todo = << >>
  <2>1. ButFor(work, db, {"credits", "creditEvents"})
    <3>1. work = Then(row, "InsertCreditEvent", j)
      BY <1>1, <1>5, WrittenOut
    <3> QED
      BY <3>1, Claimed
  <2>2. work.spent = db.spent /\ work.ballotEvents = db.ballotEvents
    BY <2>1 DEF ButFor, Tables
  <2> QED
    BY <1>5, <2>2, BackedInDb DEF Backed
<1> QED
  BY <1>4, <1>5

\* The statements of a first vote.
LEMMA VotingPermitted ==
  ASSUME Base!IInv, DOMAIN db = Tables, NEW j, j.request \in Requests, Voting(j)
  PROVE  IF j.todo # << >> THEN Permits(Head(j.todo), j) ELSE Backed(work)
<1> DEFINE q == j.request
           p == q.poll
           log == db.ballotEvents[p]
           ballot == Base!BallotOf(q.credential, q.choice)
           row == Then(db, "SpendCredential", j)
<1>1. /\ q.is = "vote" /\ ~Base!IsSpent(p, q.credential) /\ db.state[p] = "open"
      /\ j.event = Base!NextEvent(log, ballot)
      /\ j.answer = ReceiptAnswer(Base!ReceiptOf(p, j.event))
      /\ Three(j, "SpendCredential", "InsertBallotEvent", "SaveCheckpoint")
  BY DEF Voting, Base!IsOpen
<1>2. p \in Polls /\ q.credential \in Credentials
  BY <1>1, RequestFields
<1>3. j.event.artifact.credential = q.credential
  BY <1>1 DEF Base!NextEvent, Base!BallotOf
<1>4. /\ j.event.sequence \notin {0} \cup DOMAIN log
      /\ DOMAIN Append(log, j.event) = DOMAIN log \cup {j.event.sequence}
  <2> DEFINE event == Base!NextEvent(log, ballot)
  <2>1. /\ event.sequence \notin {0} \cup DOMAIN log
        /\ DOMAIN Append(log, event) = DOMAIN log \cup {event.sequence}
    BY <1>2, NextIsNew
  <2> QED
    BY <1>1, <2>1
<1>5. ButFor(row, db, {"spent"})
  BY Voted
<1>6. /\ DOMAIN row = Tables /\ row.state = db.state
      /\ row.ballotEvents = db.ballotEvents /\ row.checkpoints = db.checkpoints
  <2> HIDE DEF row
  <2> QED
    BY <1>5 DEF ButFor, Tables
<1>7. CASE j.todo # << >>
  <2>1. \/ Head(j.todo) = "SpendCredential" /\ work = db
        \/ Head(j.todo) = "InsertBallotEvent" /\ work = row
        \/ Head(j.todo) = "SaveCheckpoint" /\ work = Then(row, "InsertBallotEvent", j)
    BY <1>1, <1>7, Stages
  <2> HIDE DEF row
  <2>2. work = db => Permits("SpendCredential", j)
    <3>1. \A c \in Credentials : db.spent[p][c] \in {0} \cup DOMAIN log
      BY <1>2, BackedInDb DEF Backed
    <3>2. db.spent[p][q.credential] = 0
      BY <1>1 DEF Base!IsSpent
    <3> QED
      BY <1>1, <1>3, <1>4, <3>1, <3>2 DEF Permits
  <2>3. /\ work = row => Permits("InsertBallotEvent", j)
        /\ work = Then(row, "InsertBallotEvent", j) => Permits("SaveCheckpoint", j)
    <3>1. ballot.type = "ballot_accepted" <=> j.answer.receipts # {}
      <4> DEFINE receipt == Base!ReceiptOf(p, j.event)
      <4>1. ballot.type = "ballot_accepted"
        BY DEF Base!BallotOf
      <4>2. j.answer = ReceiptAnswer(receipt)
        BY <1>1
      <4> HIDE DEF receipt, ballot
      <4>3. j.answer.receipts = {receipt}
        BY <4>2, AnswerFields
      <4> QED
        BY <4>1, <4>3
    <3> HIDE DEF ballot
    <3> QED
      BY <1>1, <1>2, <1>6, <3>1, EventPermitted
  <2> QED
    BY <1>7, <2>1, <2>2, <2>3
<1>8. CASE j.todo = << >>
  <2>1. /\ work.spent = [db.spent EXCEPT ![p][q.credential] = j.event.sequence]
        /\ work.ballotEvents = Logged(db.ballotEvents, j)
    <3>1. work = Then(Then(row, "InsertBallotEvent", j), "SaveCheckpoint", j)
      BY <1>1, <1>8, WrittenOut
    <3> QED
      BY <1>3, <3>1, Voted
  <2>2. /\ db.spent \in [Polls -> [Credentials -> Nat]] /\ DOMAIN db.ballotEvents = Polls
    BY DEF Base!IInv, Base!TypeOK
  <2>3. /\ work.ballotEvents[p] = Append(log, j.event)
        /\ \A r \in Polls \ {p} : work.ballotEvents[r] = db.ballotEvents[r]
    BY <1>2, <2>1, <2>2 DEF Logged
  <2>4. /\ work.spent[p][q.credential] = j.event.sequence
        /\ \A c \in Credentials \ {q.credential} : work.spent[p][c] = db.spent[p][c]
        /\ \A r \in Polls \ {p} : work.spent[r] = db.spent[r]
    BY <1>2, <2>1, <2>2
  <2>5. Backed(db)
    BY BackedInDb
  <2> HIDE DEF q, p, log
  <2>6. \A c \in Credentials : work.spent[p][c] \in {0} \cup DOMAIN work.ballotEvents[p]
    BY <1>2, <1>4, <2>3, <2>4, <2>5 DEF Backed, log
  <2>7. \A r \in Polls \ {p} : \A c \in Credentials :
          work.spent[r][c] \in {0} \cup DOMAIN work.ballotEvents[r]
    BY <2>3, <2>4, <2>5 DEF Backed
  <2> QED
    BY <1>8, <2>6, <2>7 DEF Backed
<1> QED
  BY <1>7, <1>8

\* The statements of a first close.
LEMMA ClosingPermitted ==
  ASSUME Base!IInv, Base!RecordInv, DOMAIN db = Tables, NEW j, j.request.poll \in Polls, Closing(j)
  PROVE  IF j.todo # << >> THEN Permits(Head(j.todo), j) ELSE Backed(work)
<1> DEFINE p == j.request.poll
           signed == Then(Then(db, "InsertBallotEvent", j), "SaveCheckpoint", j)
           row == Then(signed, "ClosePoll", j)
<1>1. /\ db.state[p] = "open" /\ j.answer = TallyAnswer(p, Base!TallyOf(p))
      /\ j.event = Base!NextEvent(db.ballotEvents[p], Base!ClosingOf(p))
      /\ Four(j, "InsertBallotEvent", "SaveCheckpoint", "ClosePoll", "SaveTally")
  BY DEF Closing
<1>2. ButFor(signed, db, {"ballotEvents", "checkpoints"})
  BY EventWritten
<1>3. ButFor(row, db, {"ballotEvents", "checkpoints", "state", "closedAt"})
  BY Closed
<1>4. /\ signed.state = db.state /\ row.tallies = db.tallies
      /\ row.state = [signed.state EXCEPT ![p] = "closed"]
  <2>1. row.state = [signed.state EXCEPT ![p] = "closed"]
    BY <1>2, ClosePollWrites DEF ButFor
  <2> HIDE DEF signed, row
  <2> QED
    BY <1>2, <1>3, <2>1 DEF ButFor, Tables
<1>5. CASE j.todo # << >>
  <2>1. \/ Head(j.todo) = "InsertBallotEvent" /\ work = db
        \/ Head(j.todo) = "SaveCheckpoint" /\ work = Then(db, "InsertBallotEvent", j)
        \/ Head(j.todo) = "ClosePoll" /\ work = signed
        \/ Head(j.todo) = "SaveTally" /\ work = row
    BY <1>1, <1>5, Stages
  <2> HIDE DEF signed, row
  <2>2. /\ work = db => Permits("InsertBallotEvent", j)
        /\ work = Then(db, "InsertBallotEvent", j) => Permits("SaveCheckpoint", j)
    <3>1. Base!ClosingOf(p).type = "ballot_accepted" <=> j.answer.receipts # {}
      BY <1>1, AnswerFields DEF Base!ClosingOf
    <3> QED
      BY <1>1, <3>1, EventPermitted
  <2>3. work = signed => Permits("ClosePoll", j)
    BY <1>1, <1>4 DEF Permits
  <2>4. work = row => Permits("SaveTally", j)
    <3>1. db.tallies[p] = None
      BY <1>1 DEF Base!RecordInv, Base!RowsFollow
    <3>2. row.state[p] # "absent"
      BY <1>4 DEF Base!IInv, Base!TypeOK
    <3>3. row.tallies[p] = None
      BY <1>4, <3>1
    <3> QED
      BY <3>2, <3>3 DEF Permits
  <2> QED
    BY <1>5, <2>1, <2>2, <2>3, <2>4
<1>6. CASE j.todo = << >>
  <2>1. /\ ButFor(work, db, {"ballotEvents", "checkpoints", "state", "closedAt", "tallies"})
        /\ work.ballotEvents = Logged(db.ballotEvents, j)
    <3>1. work = Then(row, "SaveTally", j)
      BY <1>1, <1>6, WrittenOut
    <3> QED
      BY <3>1, Closed
  <2>2. work.spent = db.spent
    BY <2>1 DEF ButFor, Tables
  <2>3. \A q \in Polls : DOMAIN db.ballotEvents[q] \subseteq DOMAIN work.ballotEvents[q]
    BY <1>1, <2>1, NextIsNew DEF Logged, Base!IInv, Base!TypeOK
  <2> QED
    BY <1>6, <2>2, <2>3, BackedInDb DEF Backed
<1> QED
  BY <1>5, <1>6

\* No statement of any transaction runs into a constraint of the schema or updates no row, but
\* for the choices of a poll two of whose labels got one identifier, and the deferred foreign
\* key holds at every commit.
THEOREM ConstraintsAreMet == TxSpec => []ConstraintsHold
<1>1. TxInv => ConstraintsHold
  <2> SUFFICES ASSUME TxInv, writer # None, job[writer].at = "write"
               PROVE  IF job[writer].todo # << >>
                      THEN Allowed(job[writer])
                      ELSE Backed(work)
    BY DEF ConstraintsHold, Backed, Allowed
  <2> DEFINE j == job[writer]
  <2>1. /\ Base!IInv /\ Base!RecordInv /\ RowsWhole
        /\ DOMAIN db = Tables /\ j.request \in Requests
        /\ Decided(j)
    BY DEF TxInv, TablesOK, JobOK
  <2>2. j.request.poll \in Polls
    BY <2>1, RequestFields
  <2> HIDE DEF j
  <2>3. CASE Creating(j)
    BY <2>1, <2>2, <2>3, CreatingPermitted DEF j
  <2>4. CASE Claiming(j)
    BY <2>1, <2>2, <2>4, ClaimingPermitted DEF j, Allowed
  <2>5. CASE Voting(j)
    BY <2>1, <2>5, VotingPermitted DEF j, Allowed
  <2>6. CASE Closing(j)
    BY <2>1, <2>2, <2>6, ClosingPermitted DEF j, Allowed
  <2>7. CASE j.todo = << >> /\ work = db
    BY <2>1, <2>7, BackedInDb DEF j
  <2> QED
    BY <2>1, <2>3, <2>4, <2>5, <2>6, <2>7 DEF Decided
<1> QED
  BY <1>1, TxInvariant, PTL

------------------------------------------------------------------------------
(* What is proved of one step is so of statements *)

\* The guarantees of the sequencer hold of the committed tables and of the answers that leave
\* the server: one ballot per credential, tallies that count their logs, answers that stay true,
\* logs that only grow and closed polls that do not change, and the promise of AnonymousPoll.
THEOREM CommitsKeepGuarantees ==
  TxSpec => /\ []Base!OneBallotPerCredential
            /\ []Base!TallyCountsLog
            /\ []Base!AnswersStand
            /\ Base!HistoryStands
            /\ Base!KeepsPromise
<1>1. TxInit => Base!Init
  BY BaseInit
<1>2. TxInv /\ [TxNext]_txVars => [Base!Next]_(Base!vars)
  BY TablesStep
<1>3. TxSpec => Base!Spec
  BY <1>1, <1>2, TxInvariant, PTL DEF TxSpec, Base!Spec
<1>4. Base!Spec => []Base!OneBallotPerCredential
  BY BaseAssumptions, Base!OneBallot
<1>5. Base!Spec => []Base!TallyCountsLog
  BY BaseAssumptions, Base!TallyHolds
<1>6. Base!Spec => []Base!AnswersStand
  BY BaseAssumptions, Base!AnswersHold
<1>7. Base!Spec => Base!HistoryStands
  BY BaseAssumptions, Base!HistoryHolds
<1>8. Base!Spec => Base!KeepsPromise
  BY BaseAssumptions, Base!PromiseKept
<1> QED
  BY <1>3, <1>4, <1>5, <1>6, <1>7, <1>8, PTL
==============================================================================
