--------------------------- MODULE SequencerProofs ---------------------------
(***************************************************************************)
(* What TLAPS proves of the sequencer for every value of its constants: its  *)
(* tables and the answers it has given agree, its projections say what its   *)
(* logs say, there are no more ballots than claims, and every step of it is  *)
(* a step of AnonymousPoll or leaves the abstract poll as it was.            *)
(***************************************************************************)
EXTENDS Sequencer, FiniteSetTheorems, FunctionTheorems, TLAPS

USE SequencerAssumption

------------------------------------------------------------------------------
(* Lemmas on the operators *)

\* The positions of a log are finitely many, so what a tally counts is a number.
LEMMA BallotsCounted ==
  ASSUME NEW S, NEW log \in Seq(S), NEW ch
  PROVE  /\ Cardinality(Ballots(log)) \in Nat
         /\ Cardinality(BallotsFor(log, ch)) \in Nat
<1>1. IsFiniteSet(DOMAIN log)
  <2>1. DOMAIN log = 1..Len(log) /\ Len(log) \in Nat
    OBVIOUS
  <2> QED
    BY <2>1, FS_Interval
<1>2. Ballots(log) \subseteq DOMAIN log /\ BallotsFor(log, ch) \subseteq DOMAIN log
  BY DEF Ballots, BallotsFor
<1>3. IsFiniteSet(Ballots(log)) /\ IsFiniteSet(BallotsFor(log, ch))
  BY <1>1, <1>2, FS_Subset
<1> QED
  BY <1>3, FS_CardinalityType

\* NextBallotEvent and NextCreditEvent number the new event one past the last, chain it to
\* the last hash, and yield an event of the log's own type.
LEMMA NextEventType ==
  ASSUME NEW Record, NEW log \in Seq(Event(Record)), NEW artifact \in Record
  PROVE  /\ NextEvent(log, artifact) \in Event(Record)
         /\ NextEvent(log, artifact).artifact = artifact
         /\ NextEvent(log, artifact).sequence = Len(log) + 1
<1> DEFINE sequence == Len(log) + 1
           previous == IF log = << >> THEN EmptyHash ELSE log[Len(log)].hash
<1>1. sequence \in Nat
  OBVIOUS
<1>2. previous \in Hash(Record)
  <2>1. CASE log = << >>
    BY <2>1 DEF EmptyHash, Hash
  <2>2. CASE log # << >>
    <3>1. Len(log) \in DOMAIN log
      BY <2>2
    <3>2. log[Len(log)] \in Event(Record)
      BY <3>1
    <3> QED
      BY <2>2, <3>2 DEF Event
  <2> QED
    BY <2>1, <2>2
<1>3. EventHash(sequence, previous, artifact) \in Hash(Record)
  BY <1>1, <1>2 DEF EventHash, Hash
<1> QED
  BY <1>1, <1>2, <1>3 DEF NextEvent, Event

LEMMA TallyType ==
  ASSUME TypeOK, NEW p \in Polls
  PROVE  TallyOf(p) \in Tally
<1>1. ballotEvents[p] \in Seq(Event(BallotRecord)) /\ now \in Times
  BY DEF TypeOK
<1>2. Cardinality(Ballots(ballotEvents[p])) \in Nat
  BY <1>1, BallotsCounted
<1>3. \A ch : Cardinality(BallotsFor(ballotEvents[p], ch)) \in Nat
  BY <1>1, BallotsCounted
<1>4. ChoicesOf[p] \subseteq Choices
  OBVIOUS
<1> QED
  BY <1>1, <1>2, <1>3, <1>4 DEF TallyOf, Tally

LEMMA AppendBallotEventType ==
  ASSUME TypeOK, NEW p \in Polls, NEW artifact \in BallotRecord, AppendBallotEvent(p, artifact)
  PROVE  /\ ballotEvents' \in [Polls -> Seq(Event(BallotRecord))]
         /\ checkpoints' \in [Polls -> Seq(Checkpoint)]
<1> DEFINE event == NextEvent(ballotEvents[p], artifact)
<1>1. event \in Event(BallotRecord)
  BY NextEventType DEF TypeOK
<1>2. CheckpointOf(event) \in Checkpoint
  BY <1>1 DEF CheckpointOf, Checkpoint, Event
<1> QED
  BY <1>1, <1>2 DEF AppendBallotEvent, TypeOK

\* A ballot of the log carries a credential and a choice.
LEMMA BallotType ==
  ASSUME TypeOK, NEW p \in Polls, NEW i \in Ballots(ballotEvents[p])
  PROVE  /\ i \in DOMAIN ballotEvents[p]
         /\ ballotEvents[p][i] \in Event(BallotRecord)
         /\ ballotEvents[p][i].artifact.credential \in Credentials
         /\ ballotEvents[p][i].artifact.choice \in Choices
<1>1. i \in DOMAIN ballotEvents[p] /\ ballotEvents[p][i].artifact.type = "ballot_accepted"
  BY DEF Ballots
<1>2. ballotEvents[p][i] \in Event(BallotRecord)
  BY <1>1 DEF TypeOK
<1>3. ballotEvents[p][i].artifact \in BallotRecord
  BY <1>2 DEF Event
<1> QED
  BY <1>1, <1>2, <1>3 DEF BallotRecord

------------------------------------------------------------------------------
(* The inductive invariant *)

\* A spent row points at the ballot that spent it.
SpentPointsToBallot ==
  \A p \in Polls : \A c \in Credentials : IsSpent(p, c) =>
    /\ spent[p][c] \in Ballots(ballotEvents[p])
    /\ ballotEvents[p][spent[p][c]].artifact.credential = c

\* A ballot has its spent row.
BallotsAreSpent ==
  \A p \in Polls : \A i \in Ballots(ballotEvents[p]) :
    spent[p][ballotEvents[p][i].artifact.credential] = i

\* A closed poll has its tally row.
ClosedHasTally == \A p \in Polls : state[p] = "closed" => tallies[p] \in Tally

IInv == TypeOK /\ SpentPointsToBallot /\ BallotsAreSpent /\ ClosedHasTally /\ ChainsIntact

------------------------------------------------------------------------------
(* Type correctness *)

LEMMA InitType == Init => TypeOK
<1>1. 0 \in Times
  BY DEF Times
<1> QED
  BY <1>1 DEF Init, TypeOK, Credit, Unclaimed

\* One step per operation: what it writes has the type of the table it writes to.
LEMMA NextType ==
  ASSUME TypeOK, SpentPointsToBallot, ClosedHasTally, [Next]_vars
  PROVE  TypeOK'
<1>1. ASSUME NEW p \in Polls, CreatePoll(p) PROVE TypeOK'
  <2>1. [type |-> "poll_created"] \in BallotRecord
    BY DEF BallotRecord
  <2>2. AppendBallotEvent(p, [type |-> "poll_created"])
    BY <1>1 DEF CreatePoll
  <2>3. /\ ballotEvents' \in [Polls -> Seq(Event(BallotRecord))]
        /\ checkpoints' \in [Polls -> Seq(Checkpoint)]
    BY <2>1, <2>2, AppendBallotEventType
  <2> QED
    BY <1>1, <2>3 DEF CreatePoll, TypeOK, answers
<1>2. ASSUME NEW p \in Polls, NEW m \in Members, NEW r \in RequestIDs, NEW b \in Blindings,
             ClaimCredit(p, m, r, b)
      PROVE  TypeOK'
  <2> DEFINE record == [member |-> m, request |-> r, blinded |-> b]
  <2>1. NextEvent(creditEvents[p], record) \in Event(CreditRecord)
    BY NextEventType DEF TypeOK, CreditRecord
  <2>2. creditEvents' \in [Polls -> Seq(Event(CreditRecord))]
    BY <1>2, <2>1 DEF ClaimCredit, TypeOK
  <2>3. credits' \in [Polls -> [Members -> Credit]]
    BY <1>2 DEF ClaimCredit, TypeOK, Credit
  <2>4. issued' \subseteq Claim
    BY <1>2 DEF ClaimCredit, TypeOK, Claim
  <2> QED
    BY <1>2, <2>2, <2>3, <2>4 DEF ClaimCredit, TypeOK
<1>3. ASSUME NEW p \in Polls, NEW m \in Members, NEW r \in RequestIDs, NEW b \in Blindings,
             RepeatClaim(p, m, r, b)
      PROVE  TypeOK'
  BY <1>3 DEF RepeatClaim, TypeOK, Claim, tables
<1>4. ASSUME NEW p \in Polls, NEW c \in Credentials, NEW ch \in Choices, Vote(p, c, ch)
      PROVE  TypeOK'
  <2> DEFINE record == [type |-> "ballot_accepted", credential |-> c, choice |-> ch]
             event == NextEvent(ballotEvents[p], record)
  <2>1. record \in BallotRecord
    BY DEF BallotRecord
  <2>2. event \in Event(BallotRecord) /\ event.artifact = record
    BY <2>1, NextEventType DEF TypeOK
  <2>3. event.sequence \in Nat /\ event.hash \in Hash(BallotRecord)
    BY <2>2 DEF Event
  <2>4. AppendBallotEvent(p, record)
    BY <1>4, <2>2 DEF Vote
  <2>5. /\ ballotEvents' \in [Polls -> Seq(Event(BallotRecord))]
        /\ checkpoints' \in [Polls -> Seq(Checkpoint)]
    BY <2>1, <2>4, AppendBallotEventType
  <2>6. spent' \in [Polls -> [Credentials -> Nat]]
    BY <1>4, <2>3 DEF Vote, TypeOK
  <2>7. ReceiptOf(p, event) \in Receipt
    BY <2>2, <2>3 DEF ReceiptOf, Receipt
  <2>8. receipts' \subseteq Receipt
    BY <1>4, <2>7 DEF Vote, TypeOK
  <2> QED
    BY <1>4, <2>5, <2>6, <2>8 DEF Vote, TypeOK
<1>5. ASSUME NEW p \in Polls, NEW c \in Credentials, NEW ch \in Choices, RepeatVote(p, c, ch)
      PROVE  TypeOK'
  <2> DEFINE event == ballotEvents[p][spent[p][c]]
  <2>1. spent[p][c] \in Ballots(ballotEvents[p])
    BY <1>5 DEF RepeatVote, SpentPointsToBallot
  <2>2. ReceiptOf(p, event) \in Receipt
    BY <2>1, BallotType DEF ReceiptOf, Receipt, Event
  <2>3. receipts' \subseteq Receipt
    BY <1>5, <2>2 DEF RepeatVote, TypeOK
  <2> QED
    BY <1>5, <2>3 DEF RepeatVote, TypeOK, tables
<1>6. ASSUME NEW p \in Polls, ClosePoll(p) PROVE TypeOK'
  <2> DEFINE tally == TallyOf(p)
             record == [type |-> "poll_closed", tally |-> tally]
  <2>1. tally \in Tally /\ now \in Times
    BY TallyType DEF TypeOK
  <2>2. record \in BallotRecord
    BY <2>1 DEF BallotRecord
  <2>3. AppendBallotEvent(p, record)
    BY <1>6 DEF ClosePoll
  <2>4. /\ ballotEvents' \in [Polls -> Seq(Event(BallotRecord))]
        /\ checkpoints' \in [Polls -> Seq(Checkpoint)]
    BY <2>2, <2>3, AppendBallotEventType
  <2>5. tallies' \in [Polls -> Tally \cup {None}] /\ results' \subseteq Result
    BY <1>6, <2>1 DEF ClosePoll, TypeOK, Result
  <2> QED
    BY <1>6, <2>1, <2>4, <2>5 DEF ClosePoll, TypeOK
<1>7. ASSUME NEW p \in Polls, ReturnTally(p) PROVE TypeOK'
  <2>1. results' \subseteq Result
    BY <1>7 DEF ReturnTally, ClosedHasTally, TypeOK, Result
  <2> QED
    BY <1>7, <2>1 DEF ReturnTally, TypeOK, tables
<1>8. ASSUME SetClock PROVE TypeOK'
  BY <1>8 DEF SetClock, TypeOK, tables, answers
<1>9. CASE UNCHANGED vars
  BY <1>9 DEF vars, tables, answers, TypeOK
<1> QED
  BY <1>1, <1>2, <1>3, <1>4, <1>5, <1>6, <1>7, <1>8, <1>9 DEF Next

------------------------------------------------------------------------------
(* The logs *)

\* Append leaves every position as it was and adds one.
LEMMA AppendPositions ==
  ASSUME NEW S, NEW s \in Seq(S), NEW e \in S
  PROVE  /\ Append(s, e) \in Seq(S)
         /\ Append(s, e) = [i \in DOMAIN Append(s, e) |-> Append(s, e)[i]]
         /\ Len(Append(s, e)) = Len(s) + 1 /\ Len(s) \in Nat
         /\ DOMAIN Append(s, e) = DOMAIN s \cup {Len(s) + 1}
         /\ Len(s) + 1 \notin DOMAIN s
         /\ \A i \in DOMAIN s : Append(s, e)[i] = s[i]
         /\ Append(s, e)[Len(s) + 1] = e
<1>1. Append(s, e) \in Seq(S) /\ Len(Append(s, e)) = Len(s) + 1 /\ Len(s) \in Nat
  OBVIOUS
<1>2. DOMAIN Append(s, e) = 1..(Len(s) + 1) /\ DOMAIN s = 1..Len(s)
  BY <1>1
<1>3. Append(s, e) = [i \in DOMAIN Append(s, e) |-> Append(s, e)[i]]
  <2> DEFINE longer == Append(s, e)
  <2>1. longer \in Seq(S)
    BY <1>1
  <2> HIDE DEF longer
  <2>2. longer = [i \in 1..Len(longer) |-> longer[i]] /\ DOMAIN longer = 1..Len(longer)
    BY <2>1
  <2> QED
    BY <2>2 DEF longer
<1>4. /\ \A i \in 1..Len(s) : Append(s, e)[i] = s[i]
      /\ Append(s, e)[Len(s) + 1] = e
  OBVIOUS
<1>5. 1..(Len(s) + 1) = (1..Len(s)) \cup {Len(s) + 1} /\ Len(s) + 1 \notin 1..Len(s)
  BY <1>1
<1> QED
  BY <1>1, <1>2, <1>3, <1>4, <1>5

\* A new ballot event goes to the end of the log of its poll; every other event stays.
LEMMA AppendBallotEventEffect ==
  ASSUME TypeOK, NEW p \in Polls, NEW artifact \in BallotRecord, AppendBallotEvent(p, artifact)
  PROVE  /\ \A q \in Polls \ {p} :
              ballotEvents'[q] = ballotEvents[q] /\ checkpoints'[q] = checkpoints[q]
         /\ ballotEvents'[p] = Append(ballotEvents[p], NextEvent(ballotEvents[p], artifact))
         /\ checkpoints'[p] =
              Append(checkpoints[p], CheckpointOf(NextEvent(ballotEvents[p], artifact)))
         /\ DOMAIN ballotEvents'[p] = DOMAIN ballotEvents[p] \cup {Len(ballotEvents[p]) + 1}
         /\ Len(ballotEvents[p]) + 1 \notin DOMAIN ballotEvents[p]
         /\ \A i \in DOMAIN ballotEvents[p] : ballotEvents'[p][i] = ballotEvents[p][i]
         /\ ballotEvents'[p][Len(ballotEvents[p]) + 1] = NextEvent(ballotEvents[p], artifact)
<1> DEFINE log == ballotEvents[p]
           event == NextEvent(log, artifact)
<1>1. log \in Seq(Event(BallotRecord)) /\ event \in Event(BallotRecord)
  BY NextEventType DEF TypeOK
<1>2. /\ ballotEvents'[p] = Append(log, event)
      /\ checkpoints'[p] = Append(checkpoints[p], CheckpointOf(event))
      /\ \A q \in Polls \ {p} :
           ballotEvents'[q] = ballotEvents[q] /\ checkpoints'[q] = checkpoints[q]
  BY DEF AppendBallotEvent, TypeOK
<1> QED
  BY <1>1, <1>2, AppendPositions

\* A log that replays still replays with the next event at its end.
LEMMA NextEventReplays ==
  ASSUME NEW Record, NEW log \in Seq(Event(Record)), Replays(log), NEW artifact \in Record
  PROVE  Replays(Append(log, NextEvent(log, artifact)))
<1> DEFINE event == NextEvent(log, artifact)
           longer == Append(log, event)
<1>1. event \in Event(Record)
  BY NextEventType
<1>2. /\ event.sequence = Len(log) + 1
      /\ event.previous = IF log = << >> THEN EmptyHash ELSE log[Len(log)].hash
      /\ event.hash = EventHash(event.sequence, event.previous, event.artifact)
  BY DEF NextEvent
<1> HIDE DEF event
<1>3. /\ Len(longer) = Len(log) + 1 /\ Len(log) \in Nat
      /\ DOMAIN longer = 1..(Len(log) + 1)
      /\ \A i \in 1..Len(log) : longer[i] = log[i]
      /\ longer[Len(log) + 1] = event
  BY <1>1
<1> HIDE DEF longer
<1>4. ASSUME NEW i \in DOMAIN longer
      PROVE  /\ longer[i].sequence = i
             /\ longer[i].previous = IF i = 1 THEN EmptyHash ELSE longer[i - 1].hash
             /\ longer[i].hash =
                  EventHash(longer[i].sequence, longer[i].previous, longer[i].artifact)
  <2>1. CASE i \in 1..Len(log)
    <3>1. i \in DOMAIN log /\ longer[i] = log[i]
      BY <1>3, <2>1
    <3>2. i # 1 => longer[i - 1] = log[i - 1]
      <4>1. i # 1 => i - 1 \in 1..Len(log)
        BY <1>3, <2>1
      <4> QED
        BY <1>3, <4>1
    <3> QED
      BY <3>1, <3>2 DEF Replays
  <2>2. CASE i = Len(log) + 1
    <3>1. log = << >> <=> Len(log) = 0
      OBVIOUS
    <3>2. Len(log) # 0 => longer[i - 1] = log[Len(log)]
      BY <1>3, <2>2
    <3> QED
      BY <1>2, <1>3, <2>2, <3>1, <3>2
  <2> QED
    BY <1>3, <2>1, <2>2
<1> QED
  BY <1>4 DEF Replays, longer, event

\* The checkpoints keep up with the ballot log, one for each event.
LEMMA CheckpointsFollow ==
  ASSUME TypeOK, NEW p \in Polls, NEW artifact \in BallotRecord, AppendBallotEvent(p, artifact),
         checkpoints[p] = [i \in DOMAIN ballotEvents[p] |-> CheckpointOf(ballotEvents[p][i])]
  PROVE  checkpoints'[p] = [i \in DOMAIN ballotEvents'[p] |-> CheckpointOf(ballotEvents'[p][i])]
<1> DEFINE log == ballotEvents[p]
           signed == checkpoints[p]
           event == NextEvent(log, artifact)
           checkpoint == CheckpointOf(event)
<1>1. /\ checkpoints'[p] = Append(signed, checkpoint)
      /\ DOMAIN ballotEvents'[p] = DOMAIN log \cup {Len(log) + 1}
      /\ \A i \in DOMAIN log : ballotEvents'[p][i] = log[i]
      /\ ballotEvents'[p][Len(log) + 1] = event
      /\ Len(log) + 1 \notin DOMAIN log
  BY AppendBallotEventEffect
<1>2. signed \in Seq(Checkpoint) /\ log \in Seq(Event(BallotRecord))
  BY DEF TypeOK
<1>3. DOMAIN signed = DOMAIN log /\ \A i \in DOMAIN log : signed[i] = CheckpointOf(log[i])
  OBVIOUS
<1>4. Len(signed) = Len(log)
  <2>1. 1..Len(signed) = 1..Len(log) /\ Len(signed) \in Nat /\ Len(log) \in Nat
    BY <1>2, <1>3
  <2> QED
    BY <2>1
<1>5. checkpoint \in Checkpoint
  BY <1>2, NextEventType DEF CheckpointOf, Checkpoint, Event
<1>6. /\ DOMAIN Append(signed, checkpoint) = DOMAIN log \cup {Len(log) + 1}
      /\ \A i \in DOMAIN log : Append(signed, checkpoint)[i] = signed[i]
      /\ Append(signed, checkpoint)[Len(log) + 1] = checkpoint
      /\ Append(signed, checkpoint) =
           [i \in DOMAIN Append(signed, checkpoint) |-> Append(signed, checkpoint)[i]]
  BY <1>2, <1>3, <1>4, <1>5, AppendPositions
<1> QED
  BY <1>1, <1>3, <1>6

\* A ballot event added to the log of one poll keeps both chains of every poll.
LEMMA AppendBallotEventChains ==
  ASSUME TypeOK, ChainsIntact, NEW p \in Polls, NEW artifact \in BallotRecord,
         AppendBallotEvent(p, artifact), creditEvents' = creditEvents
  PROVE  ChainsIntact'
<1> SUFFICES ASSUME NEW q \in Polls
             PROVE  /\ Replays(creditEvents[q])
                    /\ Replays(ballotEvents'[q])
                    /\ checkpoints'[q] =
                         [i \in DOMAIN ballotEvents'[q] |-> CheckpointOf(ballotEvents'[q][i])]
  BY DEF ChainsIntact
<1>1. CASE q = p
  <2>1. Replays(ballotEvents'[p])
    <3>1. ballotEvents[p] \in Seq(Event(BallotRecord)) /\ Replays(ballotEvents[p])
      BY DEF TypeOK, ChainsIntact
    <3>2. ballotEvents'[p] = Append(ballotEvents[p], NextEvent(ballotEvents[p], artifact))
      BY AppendBallotEventEffect
    <3>3. Replays(Append(ballotEvents[p], NextEvent(ballotEvents[p], artifact)))
      BY <3>1, NextEventReplays
    <3> QED
      BY <3>2, <3>3
  <2>2. checkpoints'[p] =
         [i \in DOMAIN ballotEvents'[p] |-> CheckpointOf(ballotEvents'[p][i])]
    BY CheckpointsFollow DEF ChainsIntact
  <2> QED
    BY <1>1, <2>1, <2>2 DEF ChainsIntact
<1>2. CASE q # p
  BY <1>2, AppendBallotEventEffect DEF ChainsIntact
<1> QED
  BY <1>1, <1>2

\* An event that is not a ballot spends nothing and moves no ballot.
LEMMA OtherEventSpendsNothing ==
  ASSUME TypeOK, SpentPointsToBallot, BallotsAreSpent, NEW p \in Polls,
         NEW artifact \in BallotRecord, artifact.type # "ballot_accepted",
         AppendBallotEvent(p, artifact), spent' = spent
  PROVE  /\ SpentPointsToBallot' /\ BallotsAreSpent'
         /\ \A q \in Polls :
              /\ Ballots(ballotEvents'[q]) = Ballots(ballotEvents[q])
              /\ \A i \in Ballots(ballotEvents[q]) : ballotEvents'[q][i] = ballotEvents[q][i]
<1>1. NextEvent(ballotEvents[p], artifact).artifact = artifact
  BY NextEventType DEF TypeOK
<1>2. ASSUME NEW q \in Polls
      PROVE  /\ Ballots(ballotEvents'[q]) = Ballots(ballotEvents[q])
             /\ \A i \in Ballots(ballotEvents[q]) : ballotEvents'[q][i] = ballotEvents[q][i]
  <2>1. CASE q = p
    BY <1>1, <2>1, AppendBallotEventEffect DEF Ballots
  <2>2. CASE q # p
    BY <2>2, AppendBallotEventEffect
  <2> QED
    BY <2>1, <2>2
<1>3. SpentPointsToBallot'
  BY <1>2 DEF SpentPointsToBallot, IsSpent
<1>4. BallotsAreSpent'
  BY <1>2 DEF BallotsAreSpent
<1> QED
  BY <1>2, <1>3, <1>4

\* A vote spends the credential it adds a ballot for, and no other.
LEMMA VoteSpends ==
  ASSUME TypeOK, SpentPointsToBallot, BallotsAreSpent,
         NEW p \in Polls, NEW c \in Credentials, NEW ch \in Choices, Vote(p, c, ch)
  PROVE  SpentPointsToBallot' /\ BallotsAreSpent'
<1> DEFINE log == ballotEvents[p]
           record == [type |-> "ballot_accepted", credential |-> c, choice |-> ch]
           event == NextEvent(log, record)
           last == Len(log) + 1
<1>1. record \in BallotRecord /\ log \in Seq(Event(BallotRecord))
  BY DEF BallotRecord, TypeOK
<1>2. event.artifact = record /\ event.sequence = last
  BY <1>1, NextEventType
<1>3. AppendBallotEvent(p, record)
  BY <1>2 DEF Vote
<1>4. /\ \A q \in Polls \ {p} : ballotEvents'[q] = ballotEvents[q]
      /\ DOMAIN ballotEvents'[p] = DOMAIN log \cup {last} /\ last \notin DOMAIN log
      /\ \A i \in DOMAIN log : ballotEvents'[p][i] = log[i]
      /\ ballotEvents'[p][last] = event
  BY <1>1, <1>3, AppendBallotEventEffect
<1>5. Ballots(ballotEvents'[p]) = Ballots(log) \cup {last}
  BY <1>2, <1>4 DEF Ballots
<1>6. /\ spent' = [spent EXCEPT ![p][c] = last]
      /\ spent[p][c] = 0
      /\ spent \in [Polls -> [Credentials -> Nat]]
  BY <1>2 DEF Vote, IsSpent, TypeOK
<1>7. last # 0 /\ \A i \in Ballots(log) : i \in DOMAIN log /\ i # 0
  BY <1>1 DEF Ballots
<1> HIDE DEF event, last
<1>8. SpentPointsToBallot'
  <2> SUFFICES ASSUME NEW q \in Polls, NEW d \in Credentials, spent'[q][d] # 0
               PROVE  /\ spent'[q][d] \in Ballots(ballotEvents'[q])
                      /\ ballotEvents'[q][spent'[q][d]].artifact.credential = d
    BY DEF SpentPointsToBallot, IsSpent
  <2>1. CASE q = p /\ d = c
    BY <1>2, <1>4, <1>5, <1>6, <2>1
  <2>2. CASE q = p /\ d # c
    BY <1>4, <1>5, <1>6, <1>7, <2>2 DEF SpentPointsToBallot, IsSpent
  <2>3. CASE q # p
    BY <1>4, <1>6, <2>3 DEF SpentPointsToBallot, IsSpent
  <2> QED
    BY <2>1, <2>2, <2>3
<1>9. BallotsAreSpent'
  <2> SUFFICES ASSUME NEW q \in Polls, NEW i \in Ballots(ballotEvents'[q])
               PROVE  spent'[q][ballotEvents'[q][i].artifact.credential] = i
    BY DEF BallotsAreSpent
  <2>1. CASE q = p /\ i = last
    BY <1>2, <1>4, <1>6, <2>1
  <2>2. CASE q = p /\ i # last
    <3> DEFINE d == log[i].artifact.credential
    <3>1. i \in Ballots(log) /\ ballotEvents'[p][i] = log[i]
      BY <1>4, <1>5, <1>7, <2>2
    <3>2. d \in Credentials /\ spent[p][d] = i /\ i # 0
      BY <1>7, <3>1, BallotType DEF BallotsAreSpent
    <3> QED
      BY <1>6, <2>2, <3>1, <3>2
  <2>3. CASE q # p
    <3>1. i \in Ballots(ballotEvents[q]) /\ ballotEvents'[q] = ballotEvents[q]
      BY <1>4, <2>3
    <3>2. spent'[q] = spent[q]
      BY <1>6, <2>3
    <3> QED
      BY <3>1, <3>2 DEF BallotsAreSpent
  <2> QED
    BY <2>1, <2>2, <2>3
<1> QED
  BY <1>8, <1>9

------------------------------------------------------------------------------
(* The inductive invariant holds *)

LEMMA InitInvariant == Init => IInv
<1> SUFFICES ASSUME Init PROVE IInv
  OBVIOUS
<1>1. TypeOK
  BY InitType
<1>2. \A p \in Polls : Ballots(ballotEvents[p]) = {} /\ DOMAIN ballotEvents[p] = {}
  BY DEF Init, Ballots
<1>3. SpentPointsToBallot /\ BallotsAreSpent /\ ClosedHasTally
  BY <1>2 DEF Init, SpentPointsToBallot, BallotsAreSpent, ClosedHasTally, IsSpent
<1>4. ChainsIntact
  <2> SUFFICES ASSUME NEW p \in Polls
               PROVE  /\ Replays(creditEvents[p]) /\ Replays(ballotEvents[p])
                      /\ checkpoints[p] =
                           [i \in DOMAIN ballotEvents[p] |-> CheckpointOf(ballotEvents[p][i])]
    BY DEF ChainsIntact
  <2>1. creditEvents[p] = << >> /\ ballotEvents[p] = << >> /\ checkpoints[p] = << >>
    BY DEF Init
  <2>2. DOMAIN << >> = {}
    OBVIOUS
  <2>3. << >> = [i \in DOMAIN << >> |-> CheckpointOf(<< >>[i])]
    OBVIOUS
  <2> QED
    BY <2>1, <2>2, <2>3 DEF Replays
<1> QED
  BY <1>1, <1>3, <1>4 DEF IInv

\* One step per operation, and under it the conjuncts the operation can disturb.
LEMMA NextInvariant == IInv /\ [Next]_vars => IInv'
<1> SUFFICES ASSUME IInv, [Next]_vars PROVE IInv'
  OBVIOUS
<1> USE DEF IInv
<1>1. TypeOK'
  BY NextType
<1>2. ASSUME NEW p \in Polls, CreatePoll(p) PROVE IInv'
  <2>1. [type |-> "poll_created"] \in BallotRecord
    BY DEF BallotRecord
  <2>2. AppendBallotEvent(p, [type |-> "poll_created"]) /\ spent' = spent
          /\ creditEvents' = creditEvents
    BY <1>2 DEF CreatePoll
  <2>3. SpentPointsToBallot' /\ BallotsAreSpent'
    BY <2>1, <2>2, OtherEventSpendsNothing
  <2>4. ChainsIntact'
    BY <2>1, <2>2, AppendBallotEventChains
  <2>5. ClosedHasTally'
    BY <1>2 DEF CreatePoll, ClosedHasTally, TypeOK
  <2> QED
    BY <1>1, <2>3, <2>4, <2>5
<1>3. ASSUME NEW p \in Polls, NEW m \in Members, NEW r \in RequestIDs, NEW b \in Blindings,
             ClaimCredit(p, m, r, b)
      PROVE  IInv'
  <2> DEFINE record == [member |-> m, request |-> r, blinded |-> b]
  <2>1. /\ SpentPointsToBallot' /\ BallotsAreSpent' /\ ClosedHasTally'
    BY <1>3 DEF ClaimCredit, SpentPointsToBallot, BallotsAreSpent, ClosedHasTally, IsSpent
  <2>2. record \in CreditRecord
    BY DEF CreditRecord
  <2>3. \A q \in Polls : creditEvents[q] \in Seq(Event(CreditRecord)) /\ Replays(creditEvents[q])
    BY DEF TypeOK, ChainsIntact
  <2>4. Replays(Append(creditEvents[p], NextEvent(creditEvents[p], record)))
    BY <2>2, <2>3, NextEventReplays
  <2>5. \A q \in Polls : creditEvents'[q] =
          IF q = p THEN Append(creditEvents[p], NextEvent(creditEvents[p], record))
                   ELSE creditEvents[q]
    BY <1>3 DEF ClaimCredit, TypeOK
  <2>6. ballotEvents' = ballotEvents /\ checkpoints' = checkpoints
    BY <1>3 DEF ClaimCredit
  <2>7. ChainsIntact'
    BY <2>3, <2>4, <2>5, <2>6 DEF ChainsIntact
  <2> QED
    BY <1>1, <2>1, <2>7
<1>4. ASSUME NEW p \in Polls, NEW c \in Credentials, NEW ch \in Choices, Vote(p, c, ch)
      PROVE  IInv'
  <2> DEFINE record == [type |-> "ballot_accepted", credential |-> c, choice |-> ch]
  <2>1. SpentPointsToBallot' /\ BallotsAreSpent'
    BY <1>4, VoteSpends
  <2>2. record \in BallotRecord
    BY DEF BallotRecord
  <2>3. NextEvent(ballotEvents[p], record).artifact = record
    BY <2>2, NextEventType DEF TypeOK
  <2>4. AppendBallotEvent(p, record) /\ creditEvents' = creditEvents
    BY <1>4, <2>3 DEF Vote
  <2>5. ChainsIntact'
    BY <2>2, <2>4, AppendBallotEventChains
  <2>6. ClosedHasTally'
    BY <1>4 DEF Vote, ClosedHasTally
  <2> QED
    BY <1>1, <2>1, <2>5, <2>6
<1>5. ASSUME NEW p \in Polls, ClosePoll(p) PROVE IInv'
  <2> DEFINE record == [type |-> "poll_closed", tally |-> TallyOf(p)]
  <2>1. TallyOf(p) \in Tally
    BY TallyType
  <2>2. record \in BallotRecord
    BY <2>1 DEF BallotRecord
  <2>3. AppendBallotEvent(p, record) /\ spent' = spent /\ creditEvents' = creditEvents
    BY <1>5 DEF ClosePoll
  <2>4. SpentPointsToBallot' /\ BallotsAreSpent'
    BY <2>2, <2>3, OtherEventSpendsNothing
  <2>5. ChainsIntact'
    BY <2>2, <2>3, AppendBallotEventChains
  <2>6. ClosedHasTally'
    BY <1>5, <2>1 DEF ClosePoll, ClosedHasTally, TypeOK
  <2> QED
    BY <1>1, <2>4, <2>5, <2>6
<1>6. ASSUME UNCHANGED tables PROVE IInv'
  BY <1>1, <1>6 DEF tables, SpentPointsToBallot, BallotsAreSpent, ClosedHasTally, ChainsIntact,
                    IsSpent
<1>7. ASSUME NEW p \in Polls, NEW m \in Members, NEW r \in RequestIDs, NEW b \in Blindings,
             RepeatClaim(p, m, r, b)
      PROVE  UNCHANGED tables
  BY <1>7 DEF RepeatClaim
<1>8. ASSUME NEW p \in Polls, NEW c \in Credentials, NEW ch \in Choices, RepeatVote(p, c, ch)
      PROVE  UNCHANGED tables
  BY <1>8 DEF RepeatVote
<1>9. ASSUME NEW p \in Polls, ReturnTally(p) PROVE UNCHANGED tables
  BY <1>9 DEF ReturnTally
<1>10. SetClock \/ UNCHANGED vars => UNCHANGED tables
  BY DEF SetClock, vars
<1> HIDE DEF IInv
<1> QED
  BY <1>2, <1>3, <1>4, <1>5, <1>6, <1>7, <1>8, <1>9, <1>10 DEF Next

\* What every reachable state of the sequencer satisfies.
THEOREM Invariant == Spec => []IInv
BY InitInvariant, NextInvariant, PTL DEF Spec

------------------------------------------------------------------------------
(* The properties *)

\* Every table of the sequencer holds rows of its type, and so does every answer.
THEOREM TypeCorrect == Spec => []TypeOK
<1>1. IInv => TypeOK
  BY DEF IInv
<1> QED
  BY <1>1, Invariant, PTL

\* Both hash chains of every poll replay in every reachable state, and the checkpoints sign
\* the ballot chain event by event.
THEOREM ChainsHold == Spec => []ChainsIntact
<1>1. IInv => ChainsIntact
  BY DEF IInv
<1> QED
  BY <1>1, Invariant, PTL

\* No credential is ever worth two ballots: two ballots that carry the same credential both
\* stand at the sequence its spent row names.
THEOREM OneBallot == Spec => []OneBallotPerCredential
<1>1. IInv => OneBallotPerCredential
  BY DEF IInv, BallotsAreSpent, OneBallotPerCredential
<1> QED
  BY <1>1, Invariant, PTL

\* One step per operation: only the log it appends to grows, and it needs an open poll.
LEMMA HistoryStep ==
  ASSUME TypeOK, [Next]_vars
  PROVE  \A p \in Polls : RecordStands(p)
<1>1. ASSUME NEW p \in Polls, NEW artifact \in BallotRecord, AppendBallotEvent(p, artifact),
             UNCHANGED <<credits, creditEvents>>,
             state[p] # "closed", \A q \in Polls \ {p} : ClosedStays(q)
      PROVE  \A q \in Polls : RecordStands(q)
  BY <1>1, AppendBallotEventEffect DEF RecordStands, LogGrows, ClosedStays
<1>2. ASSUME NEW p \in Polls, CreatePoll(p) PROVE \A q \in Polls : RecordStands(q)
  <2>1. [type |-> "poll_created"] \in BallotRecord
    BY DEF BallotRecord
  <2>2. /\ AppendBallotEvent(p, [type |-> "poll_created"])
        /\ UNCHANGED <<credits, creditEvents>> /\ state[p] # "closed"
    BY <1>2 DEF CreatePoll
  <2>3. \A q \in Polls \ {p} : ClosedStays(q)
    BY <1>2 DEF CreatePoll, AppendBallotEvent, ClosedStays, TypeOK
  <2> QED
    BY <1>1, <2>1, <2>2, <2>3
<1>3. ASSUME NEW p \in Polls, NEW m \in Members, NEW r \in RequestIDs, NEW b \in Blindings,
             ClaimCredit(p, m, r, b)
      PROVE  \A q \in Polls : RecordStands(q)
  <2> DEFINE record == [member |-> m, request |-> r, blinded |-> b]
  <2>1. creditEvents[p] \in Seq(Event(CreditRecord)) /\ record \in CreditRecord
    BY DEF TypeOK, CreditRecord
  <2>2. NextEvent(creditEvents[p], record) \in Event(CreditRecord)
    BY <2>1, NextEventType
  <2>3. LogGrows(creditEvents[p], Append(creditEvents[p], NextEvent(creditEvents[p], record)))
    BY <2>1, <2>2, AppendPositions DEF LogGrows
  <2>4. /\ creditEvents'[p] = Append(creditEvents[p], NextEvent(creditEvents[p], record))
        /\ \A q \in Polls \ {p} : creditEvents'[q] = creditEvents[q]
    BY <1>3 DEF ClaimCredit, TypeOK
  <2>5. \A q \in Polls : LogGrows(creditEvents[q], creditEvents'[q])
    BY <2>3, <2>4 DEF LogGrows
  <2>6. \A q \in Polls : LogGrows(ballotEvents[q], ballotEvents'[q])
    BY <1>3 DEF ClaimCredit, LogGrows
  <2>7. \A q \in Polls, n \in Members :
          credits[q][n] # Unclaimed => credits'[q][n] = credits[q][n]
    BY <1>3 DEF ClaimCredit, TypeOK
  <2>8. \A q \in Polls : ClosedStays(q)
    BY <1>3, <2>4 DEF ClaimCredit, ClosedStays, IsOpen, TypeOK
  <2> QED
    BY <2>5, <2>6, <2>7, <2>8 DEF RecordStands
<1>4. ASSUME NEW p \in Polls, NEW c \in Credentials, NEW ch \in Choices, Vote(p, c, ch)
      PROVE  \A q \in Polls : RecordStands(q)
  <2> DEFINE record == [type |-> "ballot_accepted", credential |-> c, choice |-> ch]
  <2>1. record \in BallotRecord
    BY DEF BallotRecord
  <2>2. NextEvent(ballotEvents[p], record).artifact = record
    BY <2>1, NextEventType DEF TypeOK
  <2>3. /\ AppendBallotEvent(p, record)
        /\ UNCHANGED <<credits, creditEvents>> /\ state[p] # "closed"
    BY <1>4, <2>2 DEF Vote, IsOpen
  <2>4. \A q \in Polls \ {p} : ClosedStays(q)
    BY <1>4 DEF Vote, AppendBallotEvent, ClosedStays, TypeOK
  <2> QED
    BY <1>1, <2>1, <2>3, <2>4
<1>5. ASSUME NEW p \in Polls, ClosePoll(p) PROVE \A q \in Polls : RecordStands(q)
  <2> DEFINE record == [type |-> "poll_closed", tally |-> TallyOf(p)]
  <2>1. record \in BallotRecord
    BY TallyType DEF BallotRecord
  <2>2. /\ AppendBallotEvent(p, record)
        /\ UNCHANGED <<credits, creditEvents>> /\ state[p] # "closed"
    BY <1>5 DEF ClosePoll
  <2>3. \A q \in Polls \ {p} : ClosedStays(q)
    BY <1>5 DEF ClosePoll, AppendBallotEvent, ClosedStays, TypeOK
  <2> QED
    BY <1>1, <2>1, <2>2, <2>3
<1>6. ASSUME UNCHANGED tables PROVE \A p \in Polls : RecordStands(p)
  BY <1>6 DEF tables, RecordStands, LogGrows, ClosedStays
<1>7. (\E p \in Polls, m \in Members, r \in RequestIDs, b \in Blindings : RepeatClaim(p, m, r, b))
        => UNCHANGED tables
  BY DEF RepeatClaim
<1>8. (\E p \in Polls, c \in Credentials, ch \in Choices : RepeatVote(p, c, ch))
        => UNCHANGED tables
  BY DEF RepeatVote
<1>9. (\E p \in Polls : ReturnTally(p)) \/ SetClock => UNCHANGED tables
  BY DEF ReturnTally, SetClock
<1>10. UNCHANGED vars => UNCHANGED tables
  BY DEF vars
<1> QED
  BY <1>2, <1>3, <1>4, <1>5, <1>6, <1>7, <1>8, <1>9, <1>10 DEF Next

\* Logs only grow at the end, claims are never reassigned, and a closed poll never changes.
THEOREM HistoryHolds == Spec => HistoryStands
<1>1. TypeOK /\ [Next]_vars => [\A p \in Polls : RecordStands(p)]_vars
  BY HistoryStep
<1> QED
  BY <1>1, TypeCorrect, PTL DEF Spec, HistoryStands

------------------------------------------------------------------------------
(* What was answered, and what was counted *)

\* A result is only answered for a closed poll, so no later close can change it.
ResultsOfClosedPolls == \A r \in results : state[r.poll] = "closed"

\* An answer, once given, keeps matching the tables: a claim while its credit row stands, a
\* receipt while the log keeps its events and the spent row its sequence, a result while the
\* tally row stands.
LEMMA AnswersStep ==
  ASSUME IInv, AnswersStand, ResultsOfClosedPolls, [Next]_vars
  PROVE  AnswersStand' /\ ResultsOfClosedPolls'
<1> DEFINE Claims ==
             \A a \in issued :
               credits[a.poll][a.member] = [request |-> a.request, blinded |-> a.blinded]
           Receipts ==
             \A r \in receipts :
               /\ r.sequence \in DOMAIN ballotEvents[r.poll]
               /\ r = ReceiptOf(r.poll, ballotEvents[r.poll][r.sequence])
               /\ spent[r.poll][r.credential] = r.sequence
           Results == \A r \in results : r.tally = tallies[r.poll]
<1>1. TypeOK /\ Claims /\ Receipts /\ Results
  BY DEF IInv, AnswersStand
<1>2. /\ \A a \in issued : a.poll \in Polls /\ a.member \in Members
      /\ \A r \in receipts : r.poll \in Polls /\ r.credential \in Credentials
      /\ \A r \in results : r.poll \in Polls
  BY <1>1 DEF TypeOK, Claim, Receipt, Result
<1>3. ASSUME NEW p \in Polls, NEW artifact \in BallotRecord, AppendBallotEvent(p, artifact),
             UNCHANGED <<spent, receipts>>
      PROVE  Receipts'
  <2> SUFFICES ASSUME NEW r \in receipts
               PROVE  /\ r.sequence \in DOMAIN ballotEvents'[r.poll]
                      /\ r = ReceiptOf(r.poll, ballotEvents'[r.poll][r.sequence])
                      /\ spent'[r.poll][r.credential] = r.sequence
    BY <1>3
  <2>1. /\ r.sequence \in DOMAIN ballotEvents[r.poll]
        /\ r = ReceiptOf(r.poll, ballotEvents[r.poll][r.sequence])
        /\ spent'[r.poll][r.credential] = r.sequence
        /\ r.poll \in Polls
    BY <1>1, <1>2, <1>3
  <2>2. /\ \A q \in Polls \ {p} : ballotEvents'[q] = ballotEvents[q]
        /\ DOMAIN ballotEvents'[p] = DOMAIN ballotEvents[p] \cup {Len(ballotEvents[p]) + 1}
        /\ \A i \in DOMAIN ballotEvents[p] : ballotEvents'[p][i] = ballotEvents[p][i]
    BY <1>1, <1>3, AppendBallotEventEffect
  <2>3. /\ r.sequence \in DOMAIN ballotEvents'[r.poll]
        /\ ballotEvents'[r.poll][r.sequence] = ballotEvents[r.poll][r.sequence]
    BY <2>1, <2>2
  <2> QED
    BY <2>1, <2>3
<1>4. ASSUME NEW p \in Polls, CreatePoll(p) PROVE AnswersStand' /\ ResultsOfClosedPolls'
  <2>1. [type |-> "poll_created"] \in BallotRecord
    BY DEF BallotRecord
  <2>2. Receipts'
    BY <1>3, <1>4, <2>1 DEF CreatePoll, answers
  <2>3. Claims' /\ Results'
    BY <1>1, <1>4 DEF CreatePoll, answers
  <2>4. ResultsOfClosedPolls'
    BY <1>1, <1>2, <1>4 DEF CreatePoll, answers, ResultsOfClosedPolls, TypeOK
  <2> QED
    BY <2>2, <2>3, <2>4 DEF AnswersStand
<1>5. ASSUME NEW p \in Polls, NEW m \in Members, NEW r \in RequestIDs, NEW b \in Blindings,
             ClaimCredit(p, m, r, b)
      PROVE  AnswersStand' /\ ResultsOfClosedPolls'
  <2> DEFINE claim == [poll |-> p, member |-> m, request |-> r, blinded |-> b]
  <2>1. /\ issued' = issued \cup {claim}
        /\ credits[p][m] = Unclaimed
        /\ credits' = [credits EXCEPT ![p][m] = [request |-> r, blinded |-> b]]
    BY <1>5 DEF ClaimCredit
  <2>2. Claims'
    <3>1. ASSUME NEW a \in issued
          PROVE  credits'[a.poll][a.member] = [request |-> a.request, blinded |-> a.blinded]
      <4>1. a.request \in RequestIDs
        BY <1>1 DEF TypeOK, Claim
      <4>2. credits[a.poll][a.member] # Unclaimed
        <5> DEFINE held == [request |-> a.request, blinded |-> a.blinded]
        <5>1. credits[a.poll][a.member] = held
          BY <1>1
        <5>2. held.request = a.request /\ Unclaimed.request = None /\ None \notin RequestIDs
          BY DEF Unclaimed
        <5> HIDE DEF held
        <5> QED
          BY <4>1, <5>1, <5>2
      <4>3. ~(a.poll = p /\ a.member = m)
        BY <2>1, <4>2
      <4> QED
        BY <1>1, <1>2, <2>1, <4>3 DEF TypeOK
    <3>2. credits'[p][m] = [request |-> r, blinded |-> b]
      BY <1>1, <2>1 DEF TypeOK
    <3>3. claim.poll = p /\ claim.member = m /\ claim.request = r /\ claim.blinded = b
      OBVIOUS
    <3> HIDE DEF claim
    <3>4. ASSUME NEW a \in issued'
          PROVE  credits'[a.poll][a.member] = [request |-> a.request, blinded |-> a.blinded]
      BY <2>1, <3>1, <3>2, <3>3, <3>4
    <3> QED
      BY <3>4
  <2>3. Receipts' /\ Results' /\ ResultsOfClosedPolls'
    BY <1>1, <1>5 DEF ClaimCredit, ResultsOfClosedPolls
  <2> QED
    BY <2>2, <2>3 DEF AnswersStand
<1>6. ASSUME NEW p \in Polls, NEW m \in Members, NEW r \in RequestIDs, NEW b \in Blindings,
             RepeatClaim(p, m, r, b)
      PROVE  AnswersStand' /\ ResultsOfClosedPolls'
  BY <1>1, <1>6 DEF RepeatClaim, tables, AnswersStand, ResultsOfClosedPolls
<1>7. ASSUME NEW p \in Polls, NEW c \in Credentials, NEW ch \in Choices, Vote(p, c, ch)
      PROVE  AnswersStand' /\ ResultsOfClosedPolls'
  <2> DEFINE log == ballotEvents[p]
             record == [type |-> "ballot_accepted", credential |-> c, choice |-> ch]
             event == NextEvent(log, record)
             last == Len(log) + 1
  <2>1. record \in BallotRecord /\ event.artifact = record /\ event.sequence = last
    BY <1>1, NextEventType DEF BallotRecord, TypeOK
  <2>2. /\ AppendBallotEvent(p, record)
        /\ spent' = [spent EXCEPT ![p][c] = last]
        /\ spent[p][c] = 0
        /\ receipts' = receipts \cup {ReceiptOf(p, event)}
    BY <1>7, <2>1 DEF Vote, IsSpent
  <2>3. /\ \A q \in Polls \ {p} : ballotEvents'[q] = ballotEvents[q]
        /\ DOMAIN ballotEvents'[p] = DOMAIN log \cup {last}
        /\ \A i \in DOMAIN log : ballotEvents'[p][i] = log[i]
        /\ ballotEvents'[p][last] = event
        /\ DOMAIN log = 1..Len(log)
    BY <1>1, <2>1, <2>2, AppendBallotEventEffect DEF TypeOK
  <2>4. ReceiptOf(p, event) = [poll |-> p, sequence |-> last, credential |-> c,
                               choice |-> ch, hash |-> event.hash]
    BY <2>1 DEF ReceiptOf
  <2> HIDE DEF event, last
  <2>5. ASSUME NEW r \in receipts
        PROVE  /\ r.sequence \in DOMAIN ballotEvents'[r.poll]
               /\ r = ReceiptOf(r.poll, ballotEvents'[r.poll][r.sequence])
               /\ spent'[r.poll][r.credential] = r.sequence
    <3>1. /\ r.sequence \in DOMAIN ballotEvents[r.poll]
          /\ r = ReceiptOf(r.poll, ballotEvents[r.poll][r.sequence])
          /\ spent[r.poll][r.credential] = r.sequence
          /\ r.poll \in Polls /\ r.credential \in Credentials
      BY <1>1, <1>2
    <3>2. r.poll = p => r.sequence # 0
      BY <2>3, <3>1
    <3>3. ~(r.poll = p /\ r.credential = c)
      BY <2>2, <3>1, <3>2
    <3>4. spent'[r.poll][r.credential] = r.sequence
      BY <1>1, <2>2, <3>1, <3>3 DEF TypeOK
    <3>5. /\ r.sequence \in DOMAIN ballotEvents'[r.poll]
          /\ ballotEvents'[r.poll][r.sequence] = ballotEvents[r.poll][r.sequence]
      BY <2>3, <3>1
    <3> QED
      BY <3>1, <3>4, <3>5
  <2>6. /\ last \in DOMAIN ballotEvents'[p]
        /\ ReceiptOf(p, event) = ReceiptOf(p, ballotEvents'[p][last])
        /\ spent'[p][c] = last
    BY <1>1, <2>2, <2>3 DEF TypeOK
  <2>7. Receipts'
    BY <2>2, <2>4, <2>5, <2>6
  <2>8. Claims' /\ Results' /\ ResultsOfClosedPolls'
    BY <1>1, <1>7 DEF Vote, ResultsOfClosedPolls
  <2> QED
    BY <2>7, <2>8 DEF AnswersStand
<1>8. ASSUME NEW p \in Polls, NEW c \in Credentials, NEW ch \in Choices, RepeatVote(p, c, ch)
      PROVE  AnswersStand' /\ ResultsOfClosedPolls'
  <2> DEFINE event == ballotEvents[p][spent[p][c]]
             receipt == ReceiptOf(p, event)
  <2>1. /\ spent[p][c] \in DOMAIN ballotEvents[p]
        /\ event.artifact.credential = c
    BY <1>8 DEF RepeatVote, IInv, SpentPointsToBallot, Ballots
  <2>2. event.sequence = spent[p][c]
    BY <2>1 DEF IInv, ChainsIntact, Replays
  <2>3. receipt.poll = p /\ receipt.sequence = spent[p][c] /\ receipt.credential = c
    BY <2>1, <2>2 DEF ReceiptOf
  <2>4. receipts' = receipts \cup {receipt} /\ UNCHANGED <<tables, issued, results>>
    BY <1>8 DEF RepeatVote
  <2> HIDE DEF event
  <2>5. Receipts'
    BY <1>1, <2>1, <2>3, <2>4 DEF tables, event
  <2>6. Claims' /\ Results' /\ ResultsOfClosedPolls'
    BY <1>1, <2>4 DEF tables, ResultsOfClosedPolls
  <2> QED
    BY <2>5, <2>6 DEF AnswersStand
<1>9. ASSUME NEW p \in Polls, ClosePoll(p) PROVE AnswersStand' /\ ResultsOfClosedPolls'
  <2> DEFINE record == [type |-> "poll_closed", tally |-> TallyOf(p)]
  <2>1. record \in BallotRecord
    BY <1>1, TallyType DEF BallotRecord
  <2>2. Receipts'
    BY <1>3, <1>9, <2>1 DEF ClosePoll
  <2>3. Claims'
    BY <1>1, <1>9 DEF ClosePoll
  <2>4. \A r \in results : r.poll # p
    BY <1>9 DEF ClosePoll, ResultsOfClosedPolls
  <2>5. Results' /\ ResultsOfClosedPolls'
    BY <1>1, <1>2, <1>9, <2>4 DEF ClosePoll, ResultsOfClosedPolls, TypeOK
  <2> QED
    BY <2>2, <2>3, <2>5 DEF AnswersStand
<1>10. ASSUME NEW p \in Polls, ReturnTally(p) PROVE AnswersStand' /\ ResultsOfClosedPolls'
  BY <1>1, <1>10 DEF ReturnTally, tables, AnswersStand, ResultsOfClosedPolls
<1>11. SetClock \/ UNCHANGED vars => AnswersStand' /\ ResultsOfClosedPolls'
  BY <1>1 DEF SetClock, vars, tables, answers, AnswersStand, ResultsOfClosedPolls
<1> QED
  BY <1>4, <1>5, <1>6, <1>7, <1>8, <1>9, <1>10, <1>11 DEF Next

\* Whatever the sequencer has answered stays true: one signature per member and poll, one
\* receipt per credential, one result per poll, in every later state.
THEOREM AnswersHold == Spec => []AnswersStand
<1>1. Init => AnswersStand /\ ResultsOfClosedPolls
  BY DEF Init, AnswersStand, ResultsOfClosedPolls
<1> QED
  BY <1>1, AnswersStep, Invariant, PTL DEF Spec

\* The event that closes a poll leaves every ballot where it was, so the tally taken before
\* it is the tally of the whole log; after that the log never changes.
LEMMA TallyStep ==
  ASSUME TypeOK, TallyCountsLog, [Next]_vars
  PROVE  TallyCountsLog'
<1> SUFFICES ASSUME NEW p \in Polls, state'[p] = "closed"
    PROVE  /\ TallyCounts(p, tallies'[p], ballotEvents'[p])
           /\ tallies'[p].closedAt = closedAt'[p]
  BY DEF TallyCountsLog
<1>1. CASE state[p] = "closed"
  BY <1>1, HistoryStep DEF RecordStands, ClosedStays, TallyCountsLog
<1>2. CASE state[p] # "closed"
  <2>1. ClosePoll(p)
    <3>1. \A q \in Polls : ~CreatePoll(q)
      BY <1>2 DEF CreatePoll, TypeOK
    <3>2. \A q \in Polls : ClosePoll(q) => q = p
      BY <1>2 DEF ClosePoll, TypeOK
    <3>3. \A q \in Polls, m \in Members, r \in RequestIDs, b \in Blindings :
            ~ClaimCredit(q, m, r, b) /\ ~RepeatClaim(q, m, r, b)
      BY <1>2 DEF ClaimCredit, RepeatClaim, tables
    <3>4. \A q \in Polls, c \in Credentials, ch \in Choices : ~Vote(q, c, ch) /\ ~RepeatVote(q, c, ch)
      BY <1>2 DEF Vote, RepeatVote, tables
    <3>5. (\A q \in Polls : ~ReturnTally(q)) /\ ~SetClock /\ ~UNCHANGED vars
      BY <1>2 DEF ReturnTally, SetClock, vars, tables
    <3> QED
      BY <3>1, <3>2, <3>3, <3>4, <3>5 DEF Next
  <2> DEFINE tally == TallyOf(p)
             record == [type |-> "poll_closed", tally |-> tally]
             log == ballotEvents[p]
             event == NextEvent(log, record)
  <2>2. record \in BallotRecord /\ log \in Seq(Event(BallotRecord))
    BY TallyType DEF BallotRecord, TypeOK
  <2>3. event.artifact = record
    BY <2>2, NextEventType
  <2>4. /\ AppendBallotEvent(p, record)
        /\ tallies'[p] = tally /\ closedAt'[p] = now
    BY <2>1 DEF ClosePoll, TypeOK
  <2>5. /\ ballotEvents'[p] = Append(log, event)
        /\ DOMAIN ballotEvents'[p] = DOMAIN log \cup {Len(log) + 1}
        /\ Len(log) + 1 \notin DOMAIN log
        /\ \A i \in DOMAIN log : ballotEvents'[p][i] = log[i]
        /\ ballotEvents'[p][Len(log) + 1] = event
    BY <2>2, <2>4, AppendBallotEventEffect
  <2>6. Len(ballotEvents'[p]) = Len(log) + 1
    BY <2>2, <2>5, NextEventType, AppendPositions
  <2>7. record.type = "poll_closed"
    OBVIOUS
  <2> HIDE DEF event, record
  <2>8. Ballots(ballotEvents'[p]) = Ballots(log)
    BY <2>3, <2>5, <2>7 DEF Ballots
  <2>9. \A ch : BallotsFor(ballotEvents'[p], ch) = BallotsFor(log, ch)
    BY <2>3, <2>5, <2>7 DEF BallotsFor
  <2>10. /\ tally.totals = {[choice |-> ch, total |-> Cardinality(BallotsFor(log, ch))] :
                              ch \in ChoicesOf[p]}
         /\ tally.count = Cardinality(Ballots(log)) /\ tally.closedAt = now
    BY DEF TallyOf
  <2> HIDE DEF tally
  <2>11. ballotEvents'[p][Len(ballotEvents'[p])].artifact =
           [type |-> "poll_closed", tally |-> tallies'[p]]
    BY <2>3, <2>4, <2>5, <2>6 DEF record, tally
  <2>12. \A i \in Ballots(log) : ballotEvents'[p][i].artifact.choice \in ChoicesOf[p]
    BY <2>1, <2>5 DEF ClosePoll, Ballots
  <2> QED
    BY <2>4, <2>8, <2>9, <2>10, <2>11, <2>12 DEF TallyCounts
<1> QED
  BY <1>1, <1>2

\* The tally of a closed poll is the count of its log, one total per choice, and is what the
\* closing event carries, in every state from the close on.
THEOREM TallyHolds == Spec => []TallyCountsLog
<1>1. Init => TallyCountsLog
  BY DEF Init, TallyCountsLog
<1> QED
  BY <1>1, TallyStep, TypeCorrect, PTL DEF Spec

------------------------------------------------------------------------------
(* What the tables say of one another: an invariant relative to IInv *)

\* A claimed credit has its event and an event its claimed credit, one for one.
RowsMatch(rows, log) ==
  /\ \A i \in DOMAIN log :
       LET claim == log[i].artifact
       IN  rows[claim.member] = [request |-> claim.request, blinded |-> claim.blinded]
  /\ \A m \in Members : rows[m] # Unclaimed => \E i \in DOMAIN log : log[i].artifact.member = m
  /\ \A i, j \in DOMAIN log : log[i].artifact.member = log[j].artifact.member => i = j

CreditsMatchLog == \A p \in Polls : RowsMatch(credits[p], creditEvents[p])

\* A poll is closed by the last event of its log.
ClosesMatchLog ==
  \A p \in Polls :
    /\ state[p] = "closed" <=> HasClosed(ballotEvents[p])
    /\ \A i \in DOMAIN ballotEvents[p] :
         ballotEvents[p][i].artifact.type = "poll_closed" => i = Len(ballotEvents[p])

\* A poll without a row has no events, and one not closed no tally and no closing time.
RowsFollow ==
  \A p \in Polls : /\ state[p] = "absent" => ballotEvents[p] = << >>
                   /\ state[p] # "closed" => tallies[p] = None /\ closedAt[p] = None

\* The log of a poll begins with the event that creates it, and has no other such event.
LogsBegin ==
  \A p \in Polls :
    /\ state[p] # "absent" =>
         1 \in DOMAIN ballotEvents[p] /\ ballotEvents[p][1].artifact.type = "poll_created"
    /\ \A i \in DOMAIN ballotEvents[p] :
         ballotEvents[p][i].artifact.type = "poll_created" => i = 1

\* A signature that was answered stands behind every ballot, and its choice is the poll's.
BallotsAreBacked ==
  \A p \in Polls : \A i \in Ballots(ballotEvents[p]) :
    /\ ValidCredential(p, ballotEvents[p][i].artifact.credential)
    /\ ballotEvents[p][i].artifact.choice \in ChoicesOf[p]

Given(p) == {m \in Members : credits[p][m] # Unclaimed}

\* The roster may be any set; the members who have claimed are finitely many.
GivenToRoster == \A p \in Polls : Given(p) \subseteq Roster[p] /\ IsFiniteSet(Given(p))

RecordInv ==
  /\ CreditsMatchLog /\ ClosesMatchLog /\ RowsFollow /\ LogsBegin
  /\ BallotsAreBacked /\ GivenToRoster

------------------------------------------------------------------------------
(* What a step may change *)

\* Retries, requests for a result and the clock leave the tables alone.
LEMMA Readers ==
  ASSUME [Next]_vars
  PROVE  \/ \E p \in Polls : CreatePoll(p) \/ ClosePoll(p)
         \/ \E p \in Polls, m \in Members, r \in RequestIDs, b \in Blindings :
              ClaimCredit(p, m, r, b)
         \/ \E p \in Polls, c \in Credentials, ch \in Choices : Vote(p, c, ch)
         \/ UNCHANGED tables
<1>1. ASSUME NEW p \in Polls, NEW m \in Members, NEW r \in RequestIDs, NEW b \in Blindings,
             RepeatClaim(p, m, r, b)
      PROVE  UNCHANGED tables
  BY <1>1 DEF RepeatClaim
<1>2. ASSUME NEW p \in Polls, NEW c \in Credentials, NEW ch \in Choices, RepeatVote(p, c, ch)
      PROVE  UNCHANGED tables
  BY <1>2 DEF RepeatVote
<1>3. ASSUME NEW p \in Polls, ReturnTally(p) PROVE UNCHANGED tables
  BY <1>3 DEF ReturnTally
<1>4. SetClock \/ UNCHANGED vars => UNCHANGED tables
  BY DEF SetClock, vars
<1> QED
  BY <1>1, <1>2, <1>3, <1>4 DEF Next

\* Credits and their log are written by a first claim and by nothing else.
LEMMA CreditWriters ==
  ASSUME [Next]_vars
  PROVE  \/ \E p \in Polls, m \in Members, r \in RequestIDs, b \in Blindings :
              ClaimCredit(p, m, r, b)
         \/ UNCHANGED <<credits, creditEvents>>
<1>1. \A p \in Polls : CreatePoll(p) \/ ClosePoll(p) => UNCHANGED <<credits, creditEvents>>
  BY DEF CreatePoll, ClosePoll
<1>2. \A p \in Polls, c \in Credentials, ch \in Choices :
        Vote(p, c, ch) => UNCHANGED <<credits, creditEvents>>
  BY DEF Vote
<1>3. UNCHANGED tables => UNCHANGED <<credits, creditEvents>>
  BY DEF tables
<1> QED
  BY <1>1, <1>2, <1>3, Readers

\* The ballot log of a poll is written by its creation, a first vote and its close.
LEMMA BallotWriters ==
  ASSUME [Next]_vars
  PROVE  \/ \E p \in Polls : CreatePoll(p) \/ ClosePoll(p)
         \/ \E p \in Polls, c \in Credentials, ch \in Choices : Vote(p, c, ch)
         \/ UNCHANGED <<state, closedAt, ballotEvents, spent, tallies>>
<1>1. \A p \in Polls, m \in Members, r \in RequestIDs, b \in Blindings :
        ClaimCredit(p, m, r, b) => UNCHANGED <<state, closedAt, ballotEvents, spent, tallies>>
  BY DEF ClaimCredit
<1>2. UNCHANGED tables => UNCHANGED <<state, closedAt, ballotEvents, spent, tallies>>
  BY DEF tables
<1> QED
  BY <1>1, <1>2, Readers

\* No signature, receipt or result that was answered is taken back.
LEMMA AnswersGrow ==
  ASSUME [Next]_vars
  PROVE  issued \subseteq issued' /\ receipts \subseteq receipts' /\ results \subseteq results'
<1>1. \A p \in Polls : CreatePoll(p) \/ ClosePoll(p) \/ ReturnTally(p)
        => issued' = issued /\ receipts' = receipts /\ results \subseteq results'
  BY DEF CreatePoll, ClosePoll, ReturnTally, answers
<1>2. \A p \in Polls, m \in Members, r \in RequestIDs, b \in Blindings :
        ClaimCredit(p, m, r, b) \/ RepeatClaim(p, m, r, b)
          => issued \subseteq issued' /\ receipts' = receipts /\ results' = results
  BY DEF ClaimCredit, RepeatClaim
<1>3. \A p \in Polls, c \in Credentials, ch \in Choices :
        Vote(p, c, ch) \/ RepeatVote(p, c, ch)
          => issued' = issued /\ receipts \subseteq receipts' /\ results' = results
  BY DEF Vote, RepeatVote
<1>4. SetClock \/ UNCHANGED vars =>
        issued' = issued /\ receipts' = receipts /\ results' = results
  BY DEF SetClock, vars, answers
<1> QED
  BY <1>1, <1>2, <1>3, <1>4 DEF Next

\* A creation, a vote and a close each put one event at the end of the poll's log.
LEMMA BallotStep ==
  ASSUME TypeOK, NEW p \in Polls, NEW artifact \in BallotRecord, AppendBallotEvent(p, artifact)
  PROVE  /\ \A q \in Polls \ {p} : ballotEvents'[q] = ballotEvents[q]
         /\ Len(ballotEvents'[p]) = Len(ballotEvents[p]) + 1 /\ Len(ballotEvents[p]) \in Nat
         /\ DOMAIN ballotEvents[p] = 1..Len(ballotEvents[p])
         /\ DOMAIN ballotEvents'[p] = DOMAIN ballotEvents[p] \cup {Len(ballotEvents[p]) + 1}
         /\ \A i \in DOMAIN ballotEvents[p] : ballotEvents'[p][i] = ballotEvents[p][i]
         /\ ballotEvents'[p][Len(ballotEvents[p]) + 1].artifact = artifact
<1>1. ballotEvents[p] \in Seq(Event(BallotRecord))
  BY DEF TypeOK
<1>2. /\ NextEvent(ballotEvents[p], artifact) \in Event(BallotRecord)
      /\ NextEvent(ballotEvents[p], artifact).artifact = artifact
  BY <1>1, NextEventType
<1> QED
  BY <1>1, <1>2, AppendBallotEventEffect, AppendPositions

\* The record a vote appends.
BallotOf(c, ch) == [type |-> "ballot_accepted", credential |-> c, choice |-> ch]

\* A first vote appends its ballot and spends the credential at the ballot's position.
LEMMA VoteAppends ==
  ASSUME TypeOK, NEW p \in Polls, NEW c \in Credentials, NEW ch \in Choices, Vote(p, c, ch)
  PROVE  /\ BallotOf(c, ch) \in BallotRecord
         /\ AppendBallotEvent(p, BallotOf(c, ch))
         /\ spent' = [spent EXCEPT ![p][c] = Len(ballotEvents[p]) + 1]
<1>1. BallotOf(c, ch) \in BallotRecord
  BY DEF BallotOf, BallotRecord
<1>2. ballotEvents[p] \in Seq(Event(BallotRecord))
  BY DEF TypeOK
<1>3. /\ NextEvent(ballotEvents[p], BallotOf(c, ch)).artifact = BallotOf(c, ch)
      /\ NextEvent(ballotEvents[p], BallotOf(c, ch)).sequence = Len(ballotEvents[p]) + 1
  BY <1>1, <1>2, NextEventType
<1> QED
  BY <1>1, <1>3 DEF Vote, BallotOf

\* The record a close appends.
ClosingOf(p) == [type |-> "poll_closed", tally |-> TallyOf(p)]

\* A close appends the closing event with the tally it stores.
LEMMA CloseAppends ==
  ASSUME TypeOK, NEW p \in Polls, ClosePoll(p)
  PROVE  ClosingOf(p) \in BallotRecord /\ AppendBallotEvent(p, ClosingOf(p))
BY TallyType DEF ClosePoll, ClosingOf, BallotRecord

\* The record a creation appends.
Creation == [type |-> "poll_created"]

\* A creation appends the creating event.
LEMMA CreateAppends ==
  ASSUME TypeOK, NEW p \in Polls, CreatePoll(p)
  PROVE  Creation \in BallotRecord /\ AppendBallotEvent(p, Creation)
BY DEF CreatePoll, Creation, BallotRecord

------------------------------------------------------------------------------
(* The invariant is preserved *)

\* A first claim takes a credit that no event of the log has.
LEMMA CreditsMatchLogStep ==
  ASSUME TypeOK, CreditsMatchLog, [Next]_vars
  PROVE  CreditsMatchLog'
<1>1. ASSUME NEW p \in Polls, NEW m \in Members, NEW r \in RequestIDs, NEW b \in Blindings,
             ClaimCredit(p, m, r, b)
      PROVE  CreditsMatchLog'
  <2> DEFINE log == creditEvents[p]
             claim == [member |-> m, request |-> r, blinded |-> b]
             event == NextEvent(log, claim)
             last == Len(log) + 1
  <2>1. log \in Seq(Event(CreditRecord)) /\ claim \in CreditRecord
    BY DEF TypeOK, CreditRecord
  <2>2. event \in Event(CreditRecord) /\ event.artifact = claim
    BY <2>1, NextEventType
  <2>3. creditEvents' = [creditEvents EXCEPT ![p] = Append(log, event)]
    BY <1>1 DEF ClaimCredit
  <2>4. /\ creditEvents'[p] = Append(log, event)
        /\ \A q \in Polls \ {p} : creditEvents'[q] = creditEvents[q]
    BY <2>3 DEF TypeOK
  <2>5. /\ DOMAIN creditEvents'[p] = DOMAIN log \cup {last} /\ last \notin DOMAIN log
        /\ \A i \in DOMAIN log : creditEvents'[p][i] = log[i]
        /\ creditEvents'[p][last].artifact = claim
    BY <2>1, <2>2, <2>4, AppendPositions
  <2>6. /\ credits[p][m] = Unclaimed
        /\ credits'[p][m] = [request |-> r, blinded |-> b]
        /\ \A n \in Members \ {m} : credits'[p][n] = credits[p][n]
        /\ \A q \in Polls \ {p} : credits'[q] = credits[q]
    BY <1>1 DEF ClaimCredit, TypeOK
  <2>7. \A i \in DOMAIN log : log[i].artifact \in CreditRecord
    <3>1. \A i \in DOMAIN log : log[i] \in Event(CreditRecord)
      BY <2>1
    <3> QED
      BY <3>1 DEF Event
  <2>8. \A i \in DOMAIN log : log[i].artifact.member \in Members \ {m}
    <3> SUFFICES ASSUME NEW i \in DOMAIN log PROVE log[i].artifact.member # m
      BY <2>7 DEF CreditRecord
    <3> DEFINE old == log[i].artifact
               row == [request |-> old.request, blinded |-> old.blinded]
    <3>1. credits[p][old.member] = row
      BY DEF CreditsMatchLog, RowsMatch
    <3>2. row.request # None /\ Unclaimed.request = None
      BY <2>7 DEF CreditRecord, Unclaimed
    <3> HIDE DEF row, old
    <3> QED
      BY <2>6, <3>1, <3>2 DEF old
  <2>9. claim.member = m /\ claim.request = r /\ claim.blinded = b
    OBVIOUS
  <2> HIDE DEF last, claim, event
  <2>10. ASSUME NEW q \in Polls, q # p
         PROVE  creditEvents'[q] = creditEvents[q] /\ credits'[q] = credits[q]
    BY <2>4, <2>6, <2>10
  <2>11. ASSUME NEW i \in DOMAIN creditEvents'[p]
         PROVE  credits'[p][creditEvents'[p][i].artifact.member] =
                  [request |-> creditEvents'[p][i].artifact.request,
                   blinded |-> creditEvents'[p][i].artifact.blinded]
    <3>1. CASE i = last
      BY <2>5, <2>6, <2>9, <3>1
    <3>2. CASE i \in DOMAIN log
      <4>1. /\ creditEvents'[p][i] = log[i] /\ log[i].artifact.member \in Members \ {m}
            /\ credits[p][log[i].artifact.member] =
                 [request |-> log[i].artifact.request, blinded |-> log[i].artifact.blinded]
        BY <2>5, <2>8, <3>2 DEF CreditsMatchLog, RowsMatch
      <4> QED
        BY <2>6, <4>1
    <3> QED
      BY <2>5, <3>1, <3>2
  <2>12. ASSUME NEW n \in Members, credits'[p][n] # Unclaimed
         PROVE  \E i \in DOMAIN creditEvents'[p] : creditEvents'[p][i].artifact.member = n
    <3>1. CASE n = m
      BY <2>5, <2>9, <3>1
    <3>2. CASE n # m
      <4>1. credits[p][n] # Unclaimed
        BY <2>6, <2>12, <3>2
      <4>2. PICK i \in DOMAIN log : log[i].artifact.member = n
        BY <4>1 DEF CreditsMatchLog, RowsMatch
      <4> QED
        BY <2>5, <4>2
    <3> QED
      BY <3>1, <3>2
  <2>13. ASSUME NEW i \in DOMAIN creditEvents'[p], NEW j \in DOMAIN creditEvents'[p],
                creditEvents'[p][i].artifact.member = creditEvents'[p][j].artifact.member
         PROVE  i = j
    <3>1. CASE i \in DOMAIN log /\ j \in DOMAIN log
      BY <2>5, <2>13, <3>1 DEF CreditsMatchLog, RowsMatch
    <3>2. CASE ~(i \in DOMAIN log /\ j \in DOMAIN log)
      BY <2>5, <2>8, <2>9, <2>13, <3>2
    <3> QED
      BY <3>1, <3>2
  <2> QED
    <3>1. RowsMatch(credits'[p], creditEvents'[p])
      BY <2>11, <2>12, <2>13 DEF RowsMatch
    <3>2. \A q \in Polls \ {p} : RowsMatch(credits'[q], creditEvents'[q])
      BY <2>10 DEF CreditsMatchLog
    <3> QED
      BY <3>1, <3>2 DEF CreditsMatchLog
<1>2. CASE UNCHANGED <<credits, creditEvents>>
  BY <1>2 DEF CreditsMatchLog
<1> QED
  BY <1>1, <1>2, CreditWriters

\* A closing event is appended once, by the step that closes the poll, and nothing after it.
LEMMA ClosesMatchLogStep ==
  ASSUME TypeOK, ClosesMatchLog, [Next]_vars
  PROVE  ClosesMatchLog'
<1> DEFINE Matches(p) ==
             /\ state[p] = "closed" <=> HasClosed(ballotEvents[p])
             /\ \A i \in DOMAIN ballotEvents[p] :
                  ballotEvents[p][i].artifact.type = "poll_closed" => i = Len(ballotEvents[p])
<1>1. ASSUME NEW p \in Polls, NEW artifact \in BallotRecord, AppendBallotEvent(p, artifact),
             state[p] # "closed", state'[p] = "closed" <=> artifact.type = "poll_closed",
             \A q \in Polls \ {p} : state'[q] = state[q]
      PROVE  ClosesMatchLog'
  <2>1. Matches(p)'
    <3> DEFINE log == ballotEvents[p]
               last == Len(log) + 1
    <3>1. /\ Len(ballotEvents'[p]) = last /\ last \notin DOMAIN log
          /\ DOMAIN ballotEvents'[p] = DOMAIN log \cup {last}
          /\ \A i \in DOMAIN log : ballotEvents'[p][i] = log[i]
          /\ ballotEvents'[p][last].artifact = artifact
      BY <1>1, BallotStep
    <3>2. \A i \in DOMAIN log : log[i].artifact.type # "poll_closed"
      BY <1>1 DEF ClosesMatchLog, HasClosed
    <3> HIDE DEF last
    <3>3. \A i \in DOMAIN ballotEvents'[p] :
            ballotEvents'[p][i].artifact.type = "poll_closed" =>
              i = last /\ artifact.type = "poll_closed"
      BY <3>1, <3>2
    <3>4. HasClosed(ballotEvents'[p]) <=> artifact.type = "poll_closed"
      BY <3>1, <3>3 DEF HasClosed
    <3> QED
      BY <1>1, <3>1, <3>3, <3>4
  <2>2. ASSUME NEW q \in Polls \ {p} PROVE Matches(q)'
    <3>1. state'[q] = state[q] /\ ballotEvents'[q] = ballotEvents[q]
      BY <1>1, BallotStep
    <3>2. Matches(q)
      BY DEF ClosesMatchLog
    <3> QED
      BY <3>1, <3>2 DEF HasClosed
  <2> QED
    BY <2>1, <2>2 DEF ClosesMatchLog
<1>2. ASSUME NEW p \in Polls, CreatePoll(p) PROVE ClosesMatchLog'
  <2>1. Creation.type # "poll_closed"
    BY DEF Creation
  <2>2. state[p] # "closed" /\ state'[p] = "open" /\ \A q \in Polls \ {p} : state'[q] = state[q]
    BY <1>2 DEF CreatePoll, TypeOK
  <2> QED
    BY <1>1, <1>2, <2>1, <2>2, CreateAppends
<1>3. ASSUME NEW p \in Polls, ClosePoll(p) PROVE ClosesMatchLog'
  <2>1. ClosingOf(p).type = "poll_closed"
    BY DEF ClosingOf
  <2>2. state[p] # "closed" /\ state'[p] = "closed" /\ \A q \in Polls \ {p} : state'[q] = state[q]
    BY <1>3 DEF ClosePoll, TypeOK
  <2> QED
    BY <1>1, <1>3, <2>1, <2>2, CloseAppends
<1>4. ASSUME NEW p \in Polls, NEW c \in Credentials, NEW ch \in Choices, Vote(p, c, ch)
      PROVE  ClosesMatchLog'
  <2>1. BallotOf(c, ch).type # "poll_closed"
    BY DEF BallotOf
  <2>2. state[p] # "closed" /\ state' = state
    BY <1>4 DEF Vote, IsOpen
  <2> QED
    BY <1>1, <1>4, <2>1, <2>2, VoteAppends
<1>5. CASE UNCHANGED <<state, closedAt, ballotEvents, spent, tallies>>
  BY <1>5 DEF ClosesMatchLog, HasClosed
<1> QED
  BY <1>2, <1>3, <1>4, <1>5, BallotWriters

\* A log grows in a poll that has its row, and a tally comes with the close.
LEMMA RowsFollowStep ==
  ASSUME TypeOK, RowsFollow, [Next]_vars
  PROVE  RowsFollow'
<1>1. ASSUME NEW p \in Polls, NEW artifact \in BallotRecord, AppendBallotEvent(p, artifact),
             state'[p] # "absent",
             state'[p] # "closed" => tallies'[p] = None /\ closedAt'[p] = None,
             \A q \in Polls \ {p} :
               state'[q] = state[q] /\ tallies'[q] = tallies[q] /\ closedAt'[q] = closedAt[q]
      PROVE  RowsFollow'
  BY <1>1, BallotStep DEF RowsFollow
<1>2. ASSUME NEW p \in Polls, CreatePoll(p) PROVE RowsFollow'
  <2>1. /\ state'[p] = "open" /\ tallies' = tallies /\ closedAt' = closedAt
        /\ state[p] = "absent" /\ \A q \in Polls \ {p} : state'[q] = state[q]
    BY <1>2 DEF CreatePoll, TypeOK
  <2> QED
    BY <1>1, <1>2, <2>1, CreateAppends DEF RowsFollow
<1>3. ASSUME NEW p \in Polls, ClosePoll(p) PROVE RowsFollow'
  <2>1. /\ state'[p] = "closed"
        /\ \A q \in Polls \ {p} :
             state'[q] = state[q] /\ tallies'[q] = tallies[q] /\ closedAt'[q] = closedAt[q]
    BY <1>3 DEF ClosePoll, TypeOK
  <2> QED
    BY <1>1, <1>3, <2>1, CloseAppends
<1>4. ASSUME NEW p \in Polls, NEW c \in Credentials, NEW ch \in Choices, Vote(p, c, ch)
      PROVE  RowsFollow'
  <2>1. state[p] = "open" /\ state' = state /\ tallies' = tallies /\ closedAt' = closedAt
    BY <1>4 DEF Vote, IsOpen
  <2> QED
    BY <1>1, <1>4, <2>1, VoteAppends DEF RowsFollow
<1>5. CASE UNCHANGED <<state, closedAt, ballotEvents, spent, tallies>>
  BY <1>5 DEF RowsFollow
<1> QED
  BY <1>2, <1>3, <1>4, <1>5, BallotWriters

\* A creation finds no log, and every later event finds one.
LEMMA LogsBeginStep ==
  ASSUME TypeOK, RowsFollow, LogsBegin, [Next]_vars
  PROVE  LogsBegin'
<1>1. ASSUME NEW p \in Polls, NEW artifact \in BallotRecord, AppendBallotEvent(p, artifact),
             artifact.type = "poll_created" <=> state[p] = "absent",
             \A q \in Polls \ {p} : state'[q] = state[q]
      PROVE  LogsBegin'
  <2> DEFINE log == ballotEvents[p]
             last == Len(log) + 1
  <2>1. /\ \A q \in Polls \ {p} : ballotEvents'[q] = ballotEvents[q]
        /\ DOMAIN log = 1..Len(log) /\ Len(log) \in Nat
        /\ DOMAIN ballotEvents'[p] = DOMAIN log \cup {last}
        /\ \A i \in DOMAIN log : ballotEvents'[p][i] = log[i]
        /\ ballotEvents'[p][last].artifact = artifact
    BY <1>1, BallotStep
  <2>2. CASE state[p] = "absent"
    <3>1. last = 1 /\ DOMAIN log = {}
      BY <2>2 DEF RowsFollow
    <3> QED
      BY <1>1, <2>1, <2>2, <3>1 DEF LogsBegin
  <2>3. CASE state[p] # "absent"
    <3>1. 1 \in DOMAIN log /\ log[1].artifact.type = "poll_created"
      BY <2>3 DEF LogsBegin
    <3> QED
      BY <1>1, <2>1, <2>3, <3>1 DEF LogsBegin
  <2> QED
    BY <2>2, <2>3
<1>2. ASSUME NEW p \in Polls, CreatePoll(p) PROVE LogsBegin'
  <2>1. state[p] = "absent" /\ \A q \in Polls \ {p} : state'[q] = state[q]
    BY <1>2 DEF CreatePoll, TypeOK
  <2>2. Creation.type = "poll_created"
    BY DEF Creation
  <2> QED
    BY <1>1, <1>2, <2>1, <2>2, CreateAppends
<1>3. ASSUME NEW p \in Polls, ClosePoll(p) PROVE LogsBegin'
  <2>1. state[p] # "absent" /\ \A q \in Polls \ {p} : state'[q] = state[q]
    BY <1>3 DEF ClosePoll, TypeOK
  <2>2. ClosingOf(p).type # "poll_created"
    BY DEF ClosingOf
  <2> QED
    BY <1>1, <1>3, <2>1, <2>2, CloseAppends
<1>4. ASSUME NEW p \in Polls, NEW c \in Credentials, NEW ch \in Choices, Vote(p, c, ch)
      PROVE  LogsBegin'
  <2>1. state[p] # "absent" /\ state' = state
    BY <1>4 DEF Vote, IsOpen
  <2>2. BallotOf(c, ch).type # "poll_created"
    BY DEF BallotOf
  <2> QED
    BY <1>1, <1>4, <2>1, <2>2, VoteAppends
<1>5. CASE UNCHANGED <<state, closedAt, ballotEvents, spent, tallies>>
  BY <1>5 DEF LogsBegin
<1> QED
  BY <1>2, <1>3, <1>4, <1>5, BallotWriters

\* A vote brings one of the poll's choices and a credential that some answered signature unblinds to.
LEMMA BallotsAreBackedStep ==
  ASSUME TypeOK, BallotsAreBacked, [Next]_vars
  PROVE  BallotsAreBacked'
<1> DEFINE StillValid(p, c) == \E a \in issued' : a.poll = p /\ Unblind[a.blinded] = c
<1>1. \A p \in Polls, c \in Credentials : ValidCredential(p, c) => StillValid(p, c)
  BY AnswersGrow DEF ValidCredential
<1>2. ASSUME NEW p \in Polls, NEW artifact \in BallotRecord, AppendBallotEvent(p, artifact),
             artifact.type = "ballot_accepted" =>
               /\ artifact.credential \in Credentials /\ ValidCredential(p, artifact.credential)
               /\ artifact.choice \in ChoicesOf[p]
      PROVE  BallotsAreBacked'
  <2> SUFFICES ASSUME NEW q \in Polls, NEW i \in Ballots(ballotEvents'[q])
               PROVE  /\ StillValid(q, ballotEvents'[q][i].artifact.credential)
                      /\ ballotEvents'[q][i].artifact.choice \in ChoicesOf[q]
    BY DEF BallotsAreBacked, ValidCredential
  <2>1. CASE q # p \/ i # Len(ballotEvents[p]) + 1
    <3>1. i \in Ballots(ballotEvents[q]) /\ ballotEvents'[q][i] = ballotEvents[q][i]
      BY <1>2, <2>1, BallotStep DEF Ballots
    <3> QED
      BY <1>1, <3>1, BallotType DEF BallotsAreBacked
  <2>2. CASE q = p /\ i = Len(ballotEvents[p]) + 1
    <3>1. ballotEvents'[q][i].artifact = artifact /\ artifact.type = "ballot_accepted"
      BY <1>2, <2>2, BallotStep DEF Ballots
    <3> QED
      BY <1>1, <1>2, <2>2, <3>1
  <2> QED
    BY <2>1, <2>2
<1>3. ASSUME NEW p \in Polls, CreatePoll(p) PROVE BallotsAreBacked'
  BY <1>2, <1>3, CreateAppends DEF Creation
<1>4. ASSUME NEW p \in Polls, ClosePoll(p) PROVE BallotsAreBacked'
  BY <1>2, <1>4, CloseAppends DEF ClosingOf
<1>5. ASSUME NEW p \in Polls, NEW c \in Credentials, NEW ch \in Choices, Vote(p, c, ch)
      PROVE  BallotsAreBacked'
  <2>1. /\ ValidCredential(p, c) /\ ch \in ChoicesOf[p]
        /\ BallotOf(c, ch).credential = c /\ BallotOf(c, ch).choice = ch
    BY <1>5 DEF Vote, BallotOf
  <2> QED
    BY <1>2, <1>5, <2>1, VoteAppends
<1>6. CASE UNCHANGED <<state, closedAt, ballotEvents, spent, tallies>>
  BY <1>1, <1>6, BallotType DEF BallotsAreBacked, ValidCredential
<1> QED
  BY <1>3, <1>4, <1>5, <1>6, BallotWriters

\* A claim adds one member, who is on the roster.
LEMMA GivenToRosterStep ==
  ASSUME TypeOK, GivenToRoster, [Next]_vars
  PROVE  GivenToRoster'
<1>1. ASSUME NEW p \in Polls, NEW m \in Members, NEW r \in RequestIDs, NEW b \in Blindings,
             ClaimCredit(p, m, r, b)
      PROVE  GivenToRoster'
  <2>1. /\ m \in Roster[p]
        /\ \A n \in Members \ {m} : credits'[p][n] = credits[p][n]
        /\ \A q \in Polls \ {p} : credits'[q] = credits[q]
    BY <1>1 DEF ClaimCredit, TypeOK
  <2>2. Given(p)' \subseteq Given(p) \cup {m}
    BY <2>1 DEF Given
  <2>3. IsFiniteSet(Given(p) \cup {m})
    BY FS_AddElement DEF GivenToRoster
  <2>4. IsFiniteSet(Given(p)') /\ Given(p)' \subseteq Roster[p]
    BY <2>1, <2>2, <2>3, FS_Subset DEF GivenToRoster
  <2>5. \A q \in Polls \ {p} : Given(q)' = Given(q)
    BY <2>1 DEF Given
  <2> QED
    BY <2>4, <2>5 DEF GivenToRoster
<1>2. CASE UNCHANGED <<credits, creditEvents>>
  BY <1>2 DEF GivenToRoster, Given
<1> QED
  BY <1>1, <1>2, CreditWriters

\* The empty tables satisfy it.
LEMMA RecordInvInit == Init => RecordInv
<1> SUFFICES ASSUME Init PROVE RecordInv
  OBVIOUS
<1>1. \A p \in Polls : /\ DOMAIN creditEvents[p] = {} /\ DOMAIN ballotEvents[p] = {}
                       /\ state[p] = "absent"
                       /\ \A m \in Members : credits[p][m] = Unclaimed
  BY DEF Init
<1>2. CreditsMatchLog
  BY <1>1 DEF CreditsMatchLog, RowsMatch
<1>3. ClosesMatchLog /\ BallotsAreBacked /\ RowsFollow /\ LogsBegin
  BY <1>1 DEF Init, ClosesMatchLog, HasClosed, BallotsAreBacked, Ballots, RowsFollow, LogsBegin
<1>4. GivenToRoster
  <2>1. \A p \in Polls : Given(p) = {}
    BY <1>1 DEF Given
  <2> QED
    BY <2>1, FS_EmptySet DEF GivenToRoster
<1> QED
  BY <1>2, <1>3, <1>4 DEF RecordInv

\* Every step preserves it, given the invariant of SequencerProofs.
LEMMA RecordInvStep == IInv /\ RecordInv /\ [Next]_vars => RecordInv'
BY CreditsMatchLogStep, ClosesMatchLogStep, RowsFollowStep, LogsBeginStep,
   BallotsAreBackedStep, GivenToRosterStep DEF IInv, RecordInv

\* What every reachable state of the sequencer satisfies besides IInv.
THEOREM RecordInvariant == Spec => []RecordInv
BY RecordInvInit, RecordInvStep, Invariant, PTL DEF Spec

------------------------------------------------------------------------------
(* The properties *)

\* An event of the credit log names a member and a claim that is not SQL NULL.
LEMMA CreditType ==
  ASSUME TypeOK, NEW p \in Polls, NEW i \in DOMAIN creditEvents[p]
  PROVE  creditEvents[p][i].artifact \in CreditRecord
<1>1. creditEvents[p] \in Seq(Event(CreditRecord))
  BY DEF TypeOK
<1>2. creditEvents[p][i] \in Event(CreditRecord)
  BY <1>1
<1> QED
  BY <1>2 DEF Event

\* A credit is claimed exactly when one event records the claim, a credential spent exactly
\* when the ballot at its sequence carries it, and a poll closed exactly when its last event
\* closes it: readiness finds nothing in what the sequencer itself wrote.
THEOREM ProjectionsHold == Spec => []ProjectionsMatchLogs
<1>1. IInv /\ RecordInv => ProjectionsMatchLogs
  <2> SUFFICES ASSUME IInv, RecordInv PROVE ProjectionsMatchLogs
    OBVIOUS
  <2>1. ASSUME NEW p \in Polls, NEW m \in Members
        PROVE  Cardinality({i \in DOMAIN creditEvents[p] :
                              creditEvents[p][i].artifact.member = m})
                 = IF credits[p][m] = Unclaimed THEN 0 ELSE 1
    <3> DEFINE log == creditEvents[p]
               mine == {i \in DOMAIN log : log[i].artifact.member = m}
    <3>1. RowsMatch(credits[p], log)
      BY DEF RecordInv, CreditsMatchLog
    <3>2. CASE credits[p][m] = Unclaimed
      <4>1. ASSUME NEW i \in mine PROVE FALSE
        <5> DEFINE row == [request |-> log[i].artifact.request, blinded |-> log[i].artifact.blinded]
        <5>1. credits[p][m] = row
          BY <3>1 DEF RowsMatch
        <5>2. row.request \in RequestIDs /\ Unclaimed.request = None
          BY CreditType DEF IInv, CreditRecord, Unclaimed
        <5> HIDE DEF row
        <5> QED
          BY <3>2, <5>1, <5>2
      <4>2. mine = {}
        BY <4>1
      <4> QED
        BY <3>2, <4>2, FS_EmptySet
    <3>3. CASE credits[p][m] # Unclaimed
      <4>1. PICK i \in DOMAIN log : log[i].artifact.member = m
        BY <3>1, <3>3 DEF RowsMatch
      <4>2. mine = {i}
        BY <3>1, <4>1 DEF RowsMatch
      <4> QED
        BY <3>3, <4>2, FS_Singleton
    <3> QED
      BY <3>2, <3>3
  <2>2. \A p \in Polls : \A i \in DOMAIN creditEvents[p] :
          credits[p][creditEvents[p][i].artifact.member] =
            [request |-> creditEvents[p][i].artifact.request,
             blinded |-> creditEvents[p][i].artifact.blinded]
    BY DEF RecordInv, CreditsMatchLog, RowsMatch
  <2>3. SpentPointsToBallot /\ BallotsAreSpent /\ ClosesMatchLog
    BY DEF IInv, RecordInv
  <2> QED
    BY <2>1, <2>2, <2>3
       DEF ProjectionsMatchLogs, SpentPointsToBallot, BallotsAreSpent, ClosesMatchLog
<1> QED
  BY <1>1, Invariant, RecordInvariant, PTL

\* The positions of a log's ballots are finitely many.
LEMMA BallotsFinite ==
  ASSUME NEW S, NEW log \in Seq(S)
  PROVE  IsFiniteSet(Ballots(log))
<1>1. IsFiniteSet(DOMAIN log)
  <2>1. DOMAIN log = 1..Len(log) /\ Len(log) \in Nat
    OBVIOUS
  <2> QED
    BY <2>1, FS_Interval
<1> QED
  BY <1>1, FS_Subset DEF Ballots

\* No poll holds more ballots than members were given signatures, nor signatures than members
\* are eligible: every ballot leads through its credential to the claim of a member, and two
\* ballots to two members.
THEOREM RosterBounds == Spec => []BallotsWithinRoster
<1>1. IInv /\ RecordInv /\ AnswersStand => BallotsWithinRoster
  <2> SUFFICES ASSUME IInv, RecordInv, AnswersStand, NEW p \in Polls
               PROVE  /\ Cardinality(Ballots(ballotEvents[p])) <= Cardinality(Given(p))
                      /\ Given(p) \subseteq Roster[p]
    BY DEF BallotsWithinRoster, Given
  <2> DEFINE log == ballotEvents[p]
             Owner(i, m) == /\ credits[p][m] # Unclaimed
                            /\ Unblind[credits[p][m].blinded] = log[i].artifact.credential
  <2>1. \A i \in Ballots(log) : \E m \in Given(p) : Owner(i, m)
    <3> SUFFICES ASSUME NEW i \in Ballots(log) PROVE \E m \in Given(p) : Owner(i, m)
      OBVIOUS
    <3>1. PICK a \in issued : a.poll = p /\ Unblind[a.blinded] = log[i].artifact.credential
      BY DEF RecordInv, BallotsAreBacked, ValidCredential
    <3> DEFINE row == [request |-> a.request, blinded |-> a.blinded]
    <3>2. a.member \in Members /\ a.request \in RequestIDs
      BY SMTT(30) DEF IInv, TypeOK, Claim
    <3>3. credits[p][a.member] = row
      BY <3>1 DEF AnswersStand
    <3>4. row.blinded = a.blinded /\ row.request # None /\ Unclaimed.request = None
      BY <3>2 DEF Unclaimed
    <3> HIDE DEF row
    <3>5. Owner(i, a.member)
      BY <3>1, <3>3, <3>4
    <3> QED
      BY <3>2, <3>5 DEF Given
  <2> DEFINE f == [i \in Ballots(log) |-> CHOOSE m \in Given(p) : Owner(i, m)]
  <2>2. \A i \in Ballots(log) : f[i] \in Given(p) /\ Owner(i, f[i])
    BY <2>1
  <2>3. f \in Injection(Ballots(log), Given(p))
    <3>1. f \in [Ballots(log) -> Given(p)]
      BY <2>2, Zenon
    <3>2. ASSUME NEW i \in Ballots(log), NEW j \in Ballots(log), f[i] = f[j] PROVE i = j
      <4>1. log[i].artifact.credential = log[j].artifact.credential
        BY <2>2, <3>2, Zenon
      <4> QED
        BY <4>1 DEF IInv, BallotsAreSpent
    <3> HIDE DEF f
    <3> QED
      BY <3>1, <3>2 DEF Injection, IsInjective
  <2>4. IsFiniteSet(Given(p)) /\ Given(p) \subseteq Roster[p]
    BY DEF RecordInv, GivenToRoster
  <2> QED
    BY <2>3, <2>4, FS_Injection
<1> QED
  BY <1>1, Invariant, RecordInvariant, AnswersHold, PTL

------------------------------------------------------------------------------
(* The abstract poll: the sequencer implements AnonymousPoll *)

USE NullAssumption

\* What the abstract poll sees of the tables.
mapping == <<state, Holders, ChoicesOnRecord, TotalsOnRecord>>

\* Tables that stand leave the abstract poll as it was.
LEMMA MappingStands == UNCHANGED tables => UNCHANGED mapping
<1> SUFFICES ASSUME UNCHANGED tables PROVE UNCHANGED mapping
  OBVIOUS
<1>1. /\ state' = state /\ credits' = credits /\ ballotEvents' = ballotEvents
      /\ spent' = spent /\ tallies' = tallies
  BY DEF tables
<1>2. Holders' = Holders /\ TotalsOnRecord' = TotalsOnRecord
  BY <1>1 DEF Holders, TotalsOnRecord
<1>3. ChoicesOnRecord' = ChoicesOnRecord
  BY <1>1 DEF ChoicesOnRecord, ChoiceOnRecord, IsSpent
<1> QED
  BY <1>1, <1>2, <1>3 DEF mapping

\* An event at the end of a log changes no choice on record whose spent row stands.
LEMMA ChoiceStands ==
  ASSUME TypeOK, SpentPointsToBallot, NEW p \in Polls, NEW artifact \in BallotRecord,
         AppendBallotEvent(p, artifact),
         NEW q \in Polls, NEW c \in Credentials, spent'[q][c] = spent[q][c]
  PROVE  ChoiceOnRecord(q, c)' = ChoiceOnRecord(q, c)
<1>1. CASE ~IsSpent(q, c)
  BY <1>1 DEF ChoiceOnRecord, IsSpent
<1>2. CASE IsSpent(q, c)
  <2>1. spent[q][c] \in DOMAIN ballotEvents[q]
    BY <1>2 DEF SpentPointsToBallot, Ballots
  <2>2. ballotEvents'[q][spent[q][c]] = ballotEvents[q][spent[q][c]]
    BY <2>1, BallotStep
  <2> QED
    BY <1>2, <2>2 DEF ChoiceOnRecord, IsSpent
<1> QED
  BY <1>1, <1>2

\* What AnonymousPoll counts with is the Cardinality of FiniteSets.
LEMMA SameCardinality == \A S : Promise!Cardinality(S) = Cardinality(S)
BY DEF Promise!Cardinality, Cardinality

\* The ballots for a choice are as many as the credentials with that choice on record.
LEMMA VotesCounted ==
  ASSUME IInv, NEW p \in Polls, NEW ch \in Choices
  PROVE  Promise!VotesFor(p, ch) = Cardinality(BallotsFor(ballotEvents[p], ch))
<1> DEFINE log == ballotEvents[p]
           S == BallotsFor(log, ch)
           T == {c \in Credentials : ChoicesOnRecord[p][c] = ch}
           f == [i \in S |-> log[i].artifact.credential]
<1>1. T = {c \in Credentials : ChoiceOnRecord(p, c) = ch}
  BY DEF ChoicesOnRecord
<1>2. ASSUME NEW i \in S
      PROVE  /\ f[i] \in T /\ i \in Ballots(log) /\ spent[p][f[i]] = i
  <2>1. i \in Ballots(log) /\ log[i].artifact.choice = ch
    BY DEF Ballots, BallotsFor
  <2>2. f[i] \in Credentials /\ i \in DOMAIN log
    BY <2>1, BallotType DEF IInv
  <2>3. spent[p][f[i]] = i /\ i # 0
    <3>1. log \in Seq(Event(BallotRecord))
      BY DEF IInv, TypeOK
    <3> QED
      BY <2>1, <2>2, <3>1 DEF IInv, BallotsAreSpent
  <2> QED
    BY <1>1, <2>1, <2>2, <2>3 DEF ChoiceOnRecord, IsSpent
<1>3. ASSUME NEW c \in T PROVE spent[p][c] \in S /\ f[spent[p][c]] = c
  <2>1. IsSpent(p, c) /\ log[spent[p][c]].artifact.choice = ch
    BY <1>1 DEF ChoiceOnRecord
  <2>2. spent[p][c] \in Ballots(log) /\ log[spent[p][c]].artifact.credential = c
    BY <1>1, <2>1 DEF IInv, SpentPointsToBallot
  <2> QED
    BY <2>1, <2>2 DEF Ballots, BallotsFor
<1>4. f \in Bijection(S, T)
  <2>1. f \in [S -> T]
    BY <1>2
  <2>2. \A i, j \in S : f[i] = f[j] => i = j
    BY <1>2
  <2>3. \A c \in T : \E i \in S : f[i] = c
    BY <1>3
  <2> HIDE DEF f, S, T
  <2> QED
    BY <2>1, <2>2, <2>3, Fun_IsBij
<1>5. IsFiniteSet(S)
  <2>1. log \in Seq(Event(BallotRecord))
    BY DEF IInv, TypeOK
  <2>2. IsFiniteSet(Ballots(log)) /\ S \subseteq Ballots(log)
    BY <2>1, BallotsFinite DEF Ballots, BallotsFor
  <2> QED
    BY <2>2, FS_Subset
<1>6. Cardinality(T) = Cardinality(S)
  <2> HIDE DEF f, S, T
  <2> QED
    BY <1>4, <1>5, FS_Bijection DEF ExistsBijection
<1> QED
  BY <1>6, SameCardinality DEF Promise!VotesFor

(* One step of the sequencer is one step of the poll. *)

\* Nothing is claimed, spent or tallied before the first step.
LEMMA PromiseInit == Init => Promise!PollInit
<1> SUFFICES ASSUME Init PROVE Promise!PollInit
  OBVIOUS
<1>1. Holders = [p \in Polls |-> [m \in Members |-> None]]
  BY DEF Init, Holders, Unclaimed
<1>2. ChoicesOnRecord = [p \in Polls |-> [c \in Credentials |-> None]]
  BY DEF Init, ChoicesOnRecord, ChoiceOnRecord, IsSpent
<1>3. TotalsOnRecord = [p \in Polls |-> None]
  BY DEF Init, TotalsOnRecord
<1> QED
  BY <1>1, <1>2, <1>3 DEF Init, Promise!PollInit

\* The creating event is no ballot.
LEMMA PromiseCreate ==
  ASSUME IInv, NEW p \in Polls, CreatePoll(p)
  PROVE  Promise!Create(p)
<1>1. /\ state[p] = "absent" /\ state' = [state EXCEPT ![p] = "open"]
      /\ credits' = credits /\ tallies' = tallies /\ spent' = spent
  BY DEF CreatePoll
<1>2. \A q \in Polls, c \in Credentials : ChoiceOnRecord(q, c)' = ChoiceOnRecord(q, c)
  BY <1>1, CreateAppends, ChoiceStands DEF IInv
<1>3. ChoicesOnRecord' = ChoicesOnRecord
  BY <1>2 DEF ChoicesOnRecord
<1>4. Holders' = Holders /\ TotalsOnRecord' = TotalsOnRecord
  BY <1>1 DEF Holders, TotalsOnRecord
<1> QED
  BY <1>1, <1>3, <1>4 DEF Promise!Create

\* A first claim is the one signature its member is issued.
LEMMA PromiseIssue ==
  ASSUME IInv, NEW p \in Polls, NEW m \in Members, NEW r \in RequestIDs, NEW b \in Blindings,
         ClaimCredit(p, m, r, b)
  PROVE  Promise!Issue(p, m, b)
<1> DEFINE row == [request |-> r, blinded |-> b]
<1>1. /\ state[p] = "open" /\ m \in Roster[p] /\ credits[p][m] = Unclaimed
      /\ credits' = [credits EXCEPT ![p][m] = row]
      /\ state' = state /\ ballotEvents' = ballotEvents /\ tallies' = tallies /\ spent' = spent
  BY DEF ClaimCredit, IsOpen
<1>2. row.blinded = b /\ Unclaimed.blinded = None
  BY DEF Unclaimed
<1>3. /\ credits'[p][m] = row
      /\ \A n \in Members \ {m} : credits'[p][n] = credits[p][n]
      /\ \A q \in Polls \ {p} : credits'[q] = credits[q]
  BY <1>1 DEF IInv, TypeOK
<1> HIDE DEF row
<1>4. Holders' = [Holders EXCEPT ![p][m] = b]
  <2>1. Holders'[p] = [Holders[p] EXCEPT ![m] = b]
    BY <1>2, <1>3 DEF Holders
  <2>2. \A q \in Polls \ {p} : Holders'[q] = Holders[q]
    BY <1>3 DEF Holders
  <2>3. Holders = [q \in Polls |-> Holders[q]] /\ Holders' = [q \in Polls |-> Holders'[q]]
    BY DEF Holders
  <2> QED
    BY <2>1, <2>2, <2>3
<1>5. ChoicesOnRecord' = ChoicesOnRecord /\ TotalsOnRecord' = TotalsOnRecord
  BY <1>1 DEF ChoicesOnRecord, ChoiceOnRecord, IsSpent, TotalsOnRecord
<1>6. Holders[p][m] = None
  BY <1>1, <1>2 DEF Holders
<1> QED
  BY <1>1, <1>4, <1>5, <1>6 DEF Promise!Issue

\* A first vote redeems a signature some member was issued, and that credential once.
LEMMA PromiseCast ==
  ASSUME IInv, AnswersStand, NEW p \in Polls, NEW c \in Credentials, NEW ch \in Choices,
         Vote(p, c, ch)
  PROVE  ch \in ChoicesOf[p] /\ Promise!Cast(p, c, ch)
<1> DEFINE last == Len(ballotEvents[p]) + 1
<1>1. /\ state[p] = "open" /\ ch \in ChoicesOf[p] /\ ~IsSpent(p, c) /\ ValidCredential(p, c)
      /\ state' = state /\ credits' = credits /\ tallies' = tallies
  BY DEF Vote, IsOpen
<1>2. /\ BallotOf(c, ch) \in BallotRecord /\ AppendBallotEvent(p, BallotOf(c, ch))
      /\ spent' = [spent EXCEPT ![p][c] = last]
  BY VoteAppends DEF IInv
<1>3. /\ spent'[p][c] = last
      /\ \A d \in Credentials \ {c} : spent'[p][d] = spent[p][d]
      /\ \A q \in Polls \ {p} : spent'[q] = spent[q]
  BY <1>2 DEF IInv, TypeOK
<1>4. ChoiceOnRecord(p, c)' = ch
  <2>1. ballotEvents'[p][last].artifact = BallotOf(c, ch) /\ last # 0
    BY <1>2, BallotStep DEF IInv
  <2>2. BallotOf(c, ch).choice = ch
    BY DEF BallotOf
  <2> HIDE DEF last
  <2> QED
    BY <1>3, <2>1, <2>2 DEF ChoiceOnRecord, IsSpent
<1>5. \A q \in Polls, d \in Credentials : q # p \/ d # c =>
        ChoiceOnRecord(q, d)' = ChoiceOnRecord(q, d)
  BY <1>2, <1>3, ChoiceStands DEF IInv
<1>6. ChoicesOnRecord' = [ChoicesOnRecord EXCEPT ![p][c] = ch]
  <2>1. ChoicesOnRecord'[p] = [ChoicesOnRecord[p] EXCEPT ![c] = ch]
    BY <1>4, <1>5 DEF ChoicesOnRecord
  <2>2. \A q \in Polls \ {p} : ChoicesOnRecord'[q] = ChoicesOnRecord[q]
    BY <1>5 DEF ChoicesOnRecord
  <2>3. /\ ChoicesOnRecord = [q \in Polls |-> ChoicesOnRecord[q]]
        /\ ChoicesOnRecord' = [q \in Polls |-> ChoicesOnRecord'[q]]
    BY DEF ChoicesOnRecord
  <2> QED
    BY <2>1, <2>2, <2>3
<1>7. ChoicesOnRecord[p][c] = None
  BY <1>1 DEF ChoicesOnRecord, ChoiceOnRecord
<1>8. Promise!Redeemable(p, c)
  <2>1. PICK a \in issued : a.poll = p /\ Unblind[a.blinded] = c
    BY <1>1 DEF ValidCredential
  <2> DEFINE row == [request |-> a.request, blinded |-> a.blinded]
  <2>2. a.member \in Members /\ a.blinded \in Blindings
    BY DEF IInv, TypeOK, Claim
  <2>3. credits[p][a.member] = row /\ row.blinded = a.blinded
    BY <2>1 DEF AnswersStand
  <2> HIDE DEF row
  <2>4. Holders[p][a.member] = a.blinded
    BY <2>2, <2>3 DEF Holders
  <2> QED
    BY <2>1, <2>2, <2>4 DEF Promise!Redeemable
<1>9. Holders' = Holders /\ TotalsOnRecord' = TotalsOnRecord
  BY <1>1 DEF Holders, TotalsOnRecord
<1> QED
  BY <1>1, <1>6, <1>7, <1>8, <1>9 DEF Promise!Cast

\* The tally a close signs counts the choices redeemed.
LEMMA PromiseClose ==
  ASSUME IInv, NEW p \in Polls, ClosePoll(p)
  PROVE  Promise!Close(p)
<1>1. /\ state[p] = "open" /\ state' = [state EXCEPT ![p] = "closed"]
      /\ credits' = credits /\ spent' = spent
      /\ tallies' = [tallies EXCEPT ![p] = TallyOf(p)]
  BY DEF ClosePoll
<1>2. \A q \in Polls, c \in Credentials : ChoiceOnRecord(q, c)' = ChoiceOnRecord(q, c)
  BY <1>1, CloseAppends, ChoiceStands DEF IInv
<1>3. ChoicesOnRecord' = ChoicesOnRecord /\ Holders' = Holders
  BY <1>1, <1>2 DEF ChoicesOnRecord, Holders
<1>4. TallyOf(p).totals = Promise!Outcome(p)
  <2>1. \A ch \in ChoicesOf[p] :
          Promise!VotesFor(p, ch) = Cardinality(BallotsFor(ballotEvents[p], ch))
    BY VotesCounted
  <2>2. TallyOf(p).totals = {[choice |-> ch, total |-> Promise!VotesFor(p, ch)] :
                               ch \in ChoicesOf[p]}
    BY <2>1 DEF TallyOf
  <2> QED
    BY <2>2 DEF Promise!Outcome
<1>5. TallyOf(p) # None
  BY TallyType DEF IInv
<1>6. TotalsOnRecord' = [TotalsOnRecord EXCEPT ![p] = Promise!Outcome(p)]
  <2>1. tallies'[p] = TallyOf(p) /\ \A q \in Polls \ {p} : tallies'[q] = tallies[q]
    BY <1>1 DEF IInv, TypeOK
  <2> QED
    BY <1>4, <1>5, <2>1 DEF TotalsOnRecord
<1> QED
  BY <1>1, <1>3, <1>6 DEF Promise!Close

\* Every step maps to a step or leaves the abstract poll as it was.
LEMMA PromiseStep ==
  ASSUME IInv, AnswersStand, [Next]_vars
  PROVE  Promise!PollNext \/ UNCHANGED mapping
<1>1. ASSUME NEW p \in Polls, CreatePoll(p) \/ ClosePoll(p) PROVE Promise!PollNext
  BY <1>1, PromiseCreate, PromiseClose DEF Promise!PollNext
<1>2. ASSUME NEW p \in Polls, NEW m \in Members, NEW r \in RequestIDs, NEW b \in Blindings,
             ClaimCredit(p, m, r, b)
      PROVE  Promise!PollNext
  BY <1>2, PromiseIssue DEF Promise!PollNext
<1>3. ASSUME NEW p \in Polls, NEW c \in Credentials, NEW ch \in Choices, Vote(p, c, ch)
      PROVE  Promise!PollNext
  BY <1>3, PromiseCast DEF Promise!PollNext
<1> QED
  BY <1>1, <1>2, <1>3, Readers, MappingStands

\* The sequencer implements the abstract poll: one signature per member, one ballot per
\* signature, and a result that counts the ballots and is given once.
THEOREM PromiseKept == Spec => KeepsPromise
BY PromiseInit, PromiseStep, Invariant, AnswersHold, PTL
   DEF KeepsPromise, Promise!PollSpec, Promise!pollVars, mapping, Spec
==============================================================================
