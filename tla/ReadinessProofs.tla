--------------------------- MODULE ReadinessProofs ---------------------------
(***************************************************************************)
(* What TLAPS proves of the readiness check, for any number of polls,        *)
(* members and ballots and any requests served meanwhile: it does not fail   *)
(* over what the sequencer itself wrote, and it does not pass when something *)
(* inside a poll was lost or altered in one of the ways listed under Damage. *)
(***************************************************************************)
EXTENDS Readiness, AuditProofs

USE SequencerAssumption

------------------------------------------------------------------------------
(* The inductive invariant *)

\* The row of a poll, as ReadRow copies it.
Row(p) == [state |-> state[p], closedAt |-> closedAt[p]]

Exists(p) == p \in Polls /\ state[p] # "absent"

\* What a check that passes has made sure of, as far as the damages of the model can undo it.
Sound(p) ==
  /\ Len(creditEvents[p]) = Cardinality(Claimed(p))
  /\ Replays(ballotEvents[p])
  /\ HasClosed(ballotEvents[p]) <=> state[p] = "closed"
  /\ \A i \in Ballots(ballotEvents[p]) :
       spent[p][ballotEvents[p][i].artifact.credential] = ballotEvents[p][i].sequence
  /\ Len(checkpoints[p]) = Len(ballotEvents[p])
  /\ state[p] = "closed" => tallies[p] # None

\* Only a poll that exists has claims.
CreditsFollow == \A p \in Polls : state[p] = "absent" => creditEvents[p] = << >>

\* The tables as the sequencer alone leaves them.
Intact == TablesOK /\ RecordInv /\ CreditsFollow

\* The logs are sequences still, damaged or not.
LogsTyped ==
  \A p \in Polls : /\ creditEvents[p] \in Seq(Event(CreditRecord))
                   /\ ballotEvents[p] \in Seq(Event(BallotRecord))

Phases == {"rows", "credits", "claimed", "redeemed", "ballots", "tally"}

CheckTyped ==
  /\ DOMAIN check = {"at", "todo", "rows", "poll", "credits", "ballots", "k",
                     "claimed", "redeemed"}
  /\ check.at \in Phases \cup {"idle", "passed", "failed"}

\* What a check has read is what the tables hold, as long as no write overlapped it.
Copies ==
  /\ \A p \in check.todo : Exists(p)
  /\ \A p \in DOMAIN check.rows : check.rows[p] = Row(p)
  /\ check.at # "rows" =>
       /\ check.poll \in check.todo /\ check.poll \in DOMAIN check.rows
       /\ check.credits = creditEvents[check.poll] /\ check.k \in Nat
  /\ check.at \in {"credits", "ballots"} => check.k > 0
  /\ check.at \in {"claimed", "redeemed", "ballots", "tally"} =>
       check.ballots = ballotEvents[check.poll]
  /\ check.at \in {"redeemed", "ballots", "tally"} =>
       check.claimed = Cardinality(Claimed(check.poll))
  /\ check.at \in {"ballots", "tally"} =>
       check.redeemed = Cardinality(Redeemed(check.poll))

\* What has been compared agrees.
Compared ==
  LET p == check.poll
      log == ballotEvents[p]
  IN  /\ \A q \in Polls : Exists(q) /\ q \notin check.todo => Sound(q)
      /\ check.at \in {"claimed", "redeemed", "ballots", "tally"} =>
           Replays(log) /\ (HasClosed(log) <=> state[p] = "closed")
      /\ check.at = "ballots" =>
           \A i \in Ballots(log) : i < check.k =>
             spent[p][log[i].artifact.credential] = log[i].sequence
      /\ check.at = "tally" =>
           /\ \A i \in Ballots(log) : spent[p][log[i].artifact.credential] = log[i].sequence
           /\ Len(creditEvents[p]) = Cardinality(Claimed(p))
           /\ Len(checkpoints[p]) = Len(log)

ReadyInv ==
  /\ CheckTyped /\ LogsTyped
  /\ Unharmed => Intact
  /\ Harmed => ~overlapped /\ \E p \in Polls : Exists(p) /\ ~Sound(p)
  /\ Running /\ ~overlapped => Copies
  /\ Running /\ Harmed => Compared
  /\ QuietCheckPasses
  /\ DamageIsFound

------------------------------------------------------------------------------
(* The tables the sequencer leaves pass every comparison *)

\* The claimed credits of a poll are as many as the events of its credit log.
LEMMA ClaimsCounted ==
  ASSUME Intact, NEW p \in Polls
  PROVE  Len(creditEvents[p]) = Cardinality(Claimed(p)) /\ IsFiniteSet(Claimed(p))
<1> DEFINE log == creditEvents[p]
           n == Len(log)
           D == 1..n
           f == [i \in D |-> log[i].artifact.member]
<1>1. log \in Seq(Event(CreditRecord)) /\ RowsMatch(credits[p], log)
  BY DEF Intact, TablesOK, IInv, TypeOK, RecordInv, CreditsMatchLog
<1>2. n \in Nat /\ DOMAIN log = D
  BY <1>1
<1>3. IsFiniteSet(D) /\ Cardinality(D) = n
  <2> HIDE DEF n
  <2> QED
    BY <1>2, FS_Interval
<1>4. \A i \in D : log[i].artifact.member \in Claimed(p)
  <2> SUFFICES ASSUME NEW i \in D PROVE log[i].artifact.member \in Claimed(p)
    OBVIOUS
  <2> DEFINE claim == log[i].artifact
             row == [request |-> claim.request, blinded |-> claim.blinded]
  <2>1. claim \in CreditRecord
    BY <1>2, CreditType DEF Intact, TablesOK, IInv
  <2>2. credits[p][claim.member] = row
    BY <1>1, <1>2 DEF RowsMatch
  <2>3. claim.member \in Members /\ row.request # None /\ Unclaimed.request = None
    BY <2>1 DEF CreditRecord, Unclaimed
  <2> HIDE DEF claim, row
  <2> QED
    BY <2>2, <2>3 DEF Claimed, claim
<1> HIDE DEF D, log
<1>5. f \in Injection(D, Claimed(p))
  BY <1>1, <1>2, <1>4 DEF RowsMatch, Injection, IsInjective
<1>6. f \in Surjection(D, Claimed(p))
  BY <1>1, <1>2, <1>4 DEF RowsMatch, Surjection, Claimed
<1> HIDE DEF f, n
<1>7. IsFiniteSet(Claimed(p)) /\ Cardinality(Claimed(p)) = n
  BY <1>3, <1>5, <1>6, FS_Surjection
<1> QED
  BY <1>7 DEF n, log

\* The spent credentials of a poll are as many as its ballots.
LEMMA SpendsCounted ==
  ASSUME Intact, NEW p \in Polls
  PROVE  Cardinality(Ballots(ballotEvents[p])) = Cardinality(Redeemed(p))
<1> DEFINE log == ballotEvents[p]
           f == [i \in Ballots(log) |-> log[i].artifact.credential]
<1>1. log \in Seq(Event(BallotRecord)) /\ IsFiniteSet(Ballots(log))
  BY BallotsFinite DEF Intact, TablesOK, IInv, TypeOK
<1>2. \A i \in Ballots(log) : /\ spent[p][log[i].artifact.credential] = i
                              /\ log[i].artifact.credential \in Credentials /\ i # 0
  <2>1. \A i \in Ballots(log) : log[i].artifact.credential \in Credentials
    BY BallotType DEF Intact, TablesOK, IInv
  <2>2. \A i \in Ballots(log) : i \in DOMAIN log /\ i # 0
    BY <1>1 DEF Ballots
  <2> QED
    BY <2>1, <2>2 DEF Intact, TablesOK, IInv, BallotsAreSpent
<1>3. \A c \in Redeemed(p) : spent[p][c] \in Ballots(log) /\ log[spent[p][c]].artifact.credential = c
  BY DEF Intact, TablesOK, IInv, SpentPointsToBallot, Redeemed
<1>4. f \in Injection(Ballots(log), Redeemed(p))
  BY <1>2 DEF Injection, IsInjective, Redeemed, IsSpent
<1>5. f \in Surjection(Ballots(log), Redeemed(p))
  BY <1>2, <1>3, <1>4 DEF Injection, Surjection
<1> HIDE DEF f, log
<1>6. Cardinality(Redeemed(p)) = Cardinality(Ballots(log))
  BY <1>1, <1>4, <1>5, FS_Surjection
<1> QED
  BY <1>6 DEF log

\* Each comparison of the check holds of a poll whose tables only the sequencer wrote.
LEMMA IntactPasses ==
  ASSUME Intact, NEW p \in Polls, state[p] # "absent"
  PROVE  /\ Replays(creditEvents[p]) /\ MembersDiffer(creditEvents[p])
         /\ \A i \in DOMAIN creditEvents[p] : CreditRowMatches(p, creditEvents[p][i].artifact)
         /\ Replays(ballotEvents[p]) /\ InOrder(ballotEvents[p])
         /\ RowMatchesLog(Row(p), ballotEvents[p])
         /\ CredentialsDiffer(ballotEvents[p])
         /\ \A i \in Ballots(ballotEvents[p]) : BallotRowMatches(p, ballotEvents[p][i])
         /\ Len(checkpoints[p]) = Len(ballotEvents[p])
         /\ \A i \in DOMAIN checkpoints[p] : checkpoints[p][i].hash = ballotEvents[p][i].hash
         /\ IF state[p] = "closed" THEN AuditPasses(p, Row(p)) ELSE tallies[p] = None
<1> DEFINE log == ballotEvents[p]
<1>1. /\ log \in Seq(Event(BallotRecord)) /\ Replays(log) /\ Replays(creditEvents[p])
      /\ checkpoints[p] = [i \in DOMAIN log |-> CheckpointOf(log[i])]
      /\ checkpoints[p] \in Seq(Checkpoint)
  BY DEF Intact, TablesOK, IInv, TypeOK, ChainsIntact
<1>2. RowsMatch(credits[p], creditEvents[p])
  BY DEF Intact, RecordInv, CreditsMatchLog
<1>3. MembersDiffer(creditEvents[p])
  BY <1>2 DEF RowsMatch, MembersDiffer
<1>4. \A i \in DOMAIN creditEvents[p] : CreditRowMatches(p, creditEvents[p][i].artifact)
  BY <1>2 DEF RowsMatch, CreditRowMatches
<1>5. InOrder(log)
  <2>1. /\ 1 \in DOMAIN log /\ log[1].artifact.type = "poll_created"
        /\ \A i \in DOMAIN log : log[i].artifact.type = "poll_created" => i = 1
        /\ \A i \in DOMAIN log : log[i].artifact.type = "poll_closed" => i = Len(log)
    BY DEF Intact, TablesOK, LogsBegin, ClosesMatchLog
  <2> HIDE DEF log
  <2>2. log # << >>
    BY <1>1, <2>1
  <2> QED
    BY <2>1, <2>2 DEF InOrder
<1>6. ASSUME state[p] = "closed"
      PROVE  tallies[p] \in Tally /\ closedAt[p] = tallies[p].closedAt /\ closedAt[p] # None
  <2>1. tallies[p] \in Tally /\ tallies[p].closedAt = closedAt[p]
    BY <1>6 DEF Intact, TablesOK, IInv, ClosedHasTally, TallyCountsLog
  <2>2. tallies[p].closedAt \in Times
    BY <2>1 DEF Tally
  <2> QED
    BY <2>1, <2>2, ReadinessAssumption
<1>7. RowMatchesLog(Row(p), log)
  <2>1. Row(p).state = state[p] /\ Row(p).closedAt = closedAt[p]
    BY DEF Row
  <2>2. /\ HasClosed(log) <=> state[p] = "closed"
        /\ state[p] # "closed" => closedAt[p] = None
    BY DEF Intact, TablesOK, ClosesMatchLog, RowsFollow
  <2> QED
    BY <1>6, <2>1, <2>2 DEF RowMatchesLog
<1>8. CredentialsDiffer(log)
  BY DEF Intact, TablesOK, IInv, BallotsAreSpent, CredentialsDiffer
<1>9. \A i \in Ballots(log) : BallotRowMatches(p, log[i])
  <2> SUFFICES ASSUME NEW i \in Ballots(log) PROVE BallotRowMatches(p, log[i])
    OBVIOUS
  <2>1. /\ ValidCredential(p, log[i].artifact.credential)
        /\ log[i].artifact.choice \in ChoicesOf[p]
        /\ spent[p][log[i].artifact.credential] = i
    BY DEF Intact, TablesOK, IInv, BallotsAreBacked, BallotsAreSpent
  <2>2. log[i].sequence = i
    BY <1>1 DEF Replays, Ballots
  <2> QED
    BY <2>1, <2>2 DEF BallotRowMatches
<1>10. /\ Len(checkpoints[p]) = Len(log)
       /\ \A i \in DOMAIN checkpoints[p] : checkpoints[p][i].hash = log[i].hash
  <2> HIDE DEF log
  <2> QED
    BY <1>1 DEF CheckpointOf
<1>11. CASE state[p] = "closed"
  <2> DEFINE bundle == [events |-> log, checkpoints |-> checkpoints[p], tally |-> tallies[p]]
  <2>1. /\ bundle.events = log /\ bundle.checkpoints = checkpoints[p]
        /\ bundle.tally = tallies[p]
    OBVIOUS
  <2>2. VerifyAudit(p, bundle)
    <3> HIDE DEF bundle
    <3> QED
      BY <1>11, <2>1, WholeRecordVerifies DEF Intact
  <2>3. tallies[p] # None
    BY <1>6, <1>11, NullAssumption
  <2>4. AuditPasses(p, Row(p))
    BY <1>6, <1>11, <2>2, <2>3 DEF AuditPasses, Row
  <2> QED
    BY <1>1, <1>3, <1>4, <1>5, <1>7, <1>8, <1>9, <1>10, <1>11, <2>4
<1>12. CASE state[p] # "closed"
  <2>1. tallies[p] = None
    BY <1>12 DEF Intact, TablesOK, RowsFollow
  <2> QED
    BY <1>1, <1>3, <1>4, <1>5, <1>7, <1>8, <1>9, <1>10, <1>12, <2>1
<1> QED
  BY <1>11, <1>12

------------------------------------------------------------------------------
(* No damage leaves its poll sound *)

\* A sequence without one of its elements is a sequence, one shorter.
LEMMA OneLess ==
  ASSUME NEW S, NEW s \in Seq(S), NEW i \in DOMAIN s
  PROVE  Seqs!RemoveAt(s, i) \in Seq(S) /\ Len(Seqs!RemoveAt(s, i)) = Len(s) - 1
BY DEF Seqs!RemoveAt

\* A poll that is there, of tables only the sequencer wrote.
LEMMA SoundPolls ==
  ASSUME Intact, NEW p \in Polls
  PROVE  Exists(p) => Sound(p)
<1> SUFFICES ASSUME Exists(p) PROVE Sound(p)
  OBVIOUS
<1>1. state[p] # "absent"
  BY DEF Exists
<1>2. /\ Replays(ballotEvents[p]) /\ Len(checkpoints[p]) = Len(ballotEvents[p])
      /\ \A i \in Ballots(ballotEvents[p]) : BallotRowMatches(p, ballotEvents[p][i])
  BY <1>1, IntactPasses
<1>3. HasClosed(ballotEvents[p]) <=> state[p] = "closed"
  BY DEF Intact, TablesOK, ClosesMatchLog
<1>4. state[p] = "closed" => tallies[p] # None
  BY NullAssumption DEF Intact, TablesOK, IInv, ClosedHasTally
<1> QED
  BY <1>2, <1>3, <1>4, ClaimsCounted DEF Sound, BallotRowMatches

\* An event lost from either log no longer matches the rows or the checkpoints.
LEMMA LostEventTells ==
  ASSUME Intact, NEW p \in Polls, LoseCreditEvent(p) \/ LoseBallotEvent(p)
  PROVE  LogsTyped' /\ Exists(p)' /\ ~Sound(p)'
<1>1. /\ creditEvents \in [Polls -> Seq(Event(CreditRecord))]
      /\ ballotEvents \in [Polls -> Seq(Event(BallotRecord))]
  BY DEF Intact, TablesOK, IInv, TypeOK
<1>2. CASE LoseCreditEvent(p)
  <2> DEFINE log == creditEvents[p]
  <2>1. PICK i \in DOMAIN log : creditEvents' = [creditEvents EXCEPT ![p] = Seqs!RemoveAt(@, i)]
    BY <1>2 DEF LoseCreditEvent
  <2>2. UNCHANGED <<state, credits, ballotEvents>>
    BY <1>2 DEF LoseCreditEvent
  <2>3. log \in Seq(Event(CreditRecord)) /\ creditEvents'[p] = Seqs!RemoveAt(log, i)
    BY <1>1, <2>1
  <2>4. state[p] # "absent"
    <3>1. log # << >>
      OBVIOUS
    <3> QED
      BY <3>1 DEF Intact, CreditsFollow
  <2> HIDE DEF log
  <2>5. Seqs!RemoveAt(log, i) \in Seq(Event(CreditRecord)) /\ Len(Seqs!RemoveAt(log, i)) = Len(log) - 1
    BY <2>3, OneLess
  <2>6. LogsTyped'
    BY <1>1, <2>1, <2>2, <2>3, <2>5 DEF LogsTyped
  <2>7. Claimed(p)' = Claimed(p) /\ Len(log) = Cardinality(Claimed(p)) /\ Len(log) \in Nat
    BY <2>2, <2>3, ClaimsCounted DEF Claimed, log
  <2>8. Len(creditEvents'[p]) # Cardinality(Claimed(p))
    BY <2>3, <2>5, <2>7
  <2>9. ~Sound(p)'
    BY <2>7, <2>8 DEF Sound
  <2> QED
    BY <2>2, <2>4, <2>6, <2>9 DEF Exists
<1>3. CASE LoseBallotEvent(p)
  <2> DEFINE log == ballotEvents[p]
  <2>1. PICK i \in DOMAIN log : ballotEvents' = [ballotEvents EXCEPT ![p] = Seqs!RemoveAt(@, i)]
    BY <1>3 DEF LoseBallotEvent
  <2>2. UNCHANGED <<state, creditEvents, checkpoints>>
    BY <1>3 DEF LoseBallotEvent
  <2>3. log \in Seq(Event(BallotRecord)) /\ ballotEvents'[p] = Seqs!RemoveAt(log, i)
    BY <1>1, <2>1
  <2>4. state[p] # "absent"
    <3>1. log # << >>
      OBVIOUS
    <3> QED
      BY <3>1 DEF Intact, TablesOK, RowsFollow
  <2>5. Len(checkpoints[p]) = Len(log)
    BY <2>4, IntactPasses
  <2> HIDE DEF log
  <2>6. Seqs!RemoveAt(log, i) \in Seq(Event(BallotRecord)) /\ Len(Seqs!RemoveAt(log, i)) = Len(log) - 1
    BY <2>3, OneLess
  <2>7. LogsTyped'
    BY <1>1, <2>1, <2>2, <2>3, <2>6 DEF LogsTyped
  <2>8. Len(checkpoints'[p]) # Len(ballotEvents'[p])
    BY <2>2, <2>3, <2>5, <2>6
  <2>9. ~Sound(p)'
    BY <2>8 DEF Sound
  <2> QED
    BY <2>2, <2>4, <2>7, <2>9 DEF Exists
<1> QED
  BY <1>2, <1>3

\* The hash of a ballot event is not that of one with another choice.
LEMMA AlteredBallotTells ==
  ASSUME Intact, NEW p \in Polls, AlterBallot(p)
  PROVE  LogsTyped' /\ Exists(p)' /\ ~Sound(p)'
<1> DEFINE S == Event(BallotRecord)
           log == ballotEvents[p]
<1>1. PICK i \in Ballots(log), ch \in Choices :
        /\ ch # log[i].artifact.choice
        /\ ballotEvents' = [ballotEvents EXCEPT ![p][i].artifact.choice = ch]
  BY DEF AlterBallot
<1>2. UNCHANGED <<state, creditEvents>>
  BY DEF AlterBallot
<1> DEFINE record == [log[i].artifact EXCEPT !.choice = ch]
           event == [log[i] EXCEPT !.artifact = record]
           changed == [log EXCEPT ![i] = event]
<1>3. ballotEvents \in [Polls -> Seq(S)] /\ log \in Seq(S) /\ Replays(log)
  BY DEF Intact, TablesOK, IInv, TypeOK, ChainsIntact
<1>4. i \in DOMAIN log /\ log[i].artifact.type = "ballot_accepted"
  BY DEF Ballots
<1>5. log[i] \in S /\ log[i].artifact \in BallotRecord
  <2>1. log[i] \in S
    BY <1>3, <1>4
  <2> QED
    BY <2>1 DEF Event
<1>6. record \in BallotRecord /\ record.choice = ch
  BY <1>4, <1>5 DEF BallotRecord
<1> HIDE DEF record
<1>7. event \in S /\ event.artifact = record /\ event.hash = log[i].hash
      /\ event.sequence = log[i].sequence /\ event.previous = log[i].previous
  BY <1>5, <1>6 DEF Event
<1>8. ballotEvents' = [ballotEvents EXCEPT ![p] = changed]
  BY <1>1 DEF record
<1> HIDE DEF event
<1>9. changed \in Seq(S) /\ changed[i] = event /\ DOMAIN changed = DOMAIN log
  BY <1>3, <1>4, <1>7
<1>10. state[p] # "absent"
  <2>1. log # << >>
    BY <1>4
  <2> QED
    BY <2>1 DEF Intact, TablesOK, RowsFollow
<1>11. ballotEvents'[p] = changed
  BY <1>3, <1>8
<1>12. LogsTyped'
  <2>1. creditEvents \in [Polls -> Seq(Event(CreditRecord))]
    BY DEF Intact, TablesOK, IInv, TypeOK
  <2> HIDE DEF changed, S
  <2> QED
    BY <1>2, <1>3, <1>8, <1>9, <2>1 DEF LogsTyped, S
<1>13. ~Replays(changed)
  <2> SUFFICES ASSUME Replays(changed) PROVE FALSE
    OBVIOUS
  <2> DEFINE before == log[i].previous
             x == <<log[i].sequence, log[i].artifact>>
             y == <<log[i].sequence, record>>
  <2>1. log[i].hash = Append(before, x)
    BY <1>3, <1>4 DEF Replays, EventHash
  <2>2. event.hash = EventHash(event.sequence, event.previous, event.artifact)
    BY <1>4, <1>9 DEF Replays
  <2>3. event.hash = Append(before, y)
    BY <1>7, <2>2 DEF EventHash
  <2>4. before \in Seq(Nat \X BallotRecord) /\ x \in Nat \X BallotRecord /\ y \in Nat \X BallotRecord
    BY <1>5, <1>6 DEF Event, Hash
  <2>5. x[2] = log[i].artifact /\ y[2] = record
    OBVIOUS
  <2> HIDE DEF before, x, y
  <2>6. Append(before, x)[Len(before) + 1] = x /\ Append(before, y)[Len(before) + 1] = y
    BY <2>4
  <2>7. x = y
    BY <1>7, <2>1, <2>3, <2>6
  <2> QED
    BY <1>1, <1>6, <2>5, <2>7
<1> HIDE DEF changed, S, log
<1>14. ~Sound(p)'
  BY <1>11, <1>13 DEF Sound
<1> QED
  BY <1>2, <1>10, <1>12, <1>14 DEF Exists

\* A checkpoint is lost: there is one for each event no longer.
LEMMA LostCheckpointTells ==
  ASSUME Intact, NEW p \in Polls, LoseCheckpoint(p)
  PROVE  LogsTyped' /\ Exists(p)' /\ ~Sound(p)'
<1> DEFINE stored == checkpoints[p]
<1>1. PICK i \in DOMAIN stored : checkpoints' = [checkpoints EXCEPT ![p] = Seqs!RemoveAt(@, i)]
  BY DEF LoseCheckpoint
<1>2. UNCHANGED <<state, creditEvents, ballotEvents>>
  BY DEF LoseCheckpoint
<1>3. /\ stored \in Seq(Checkpoint) /\ checkpoints'[p] = Seqs!RemoveAt(stored, i)
      /\ LogsTyped
  BY <1>1 DEF Intact, TablesOK, IInv, TypeOK, LogsTyped
<1>4. state[p] # "absent"
  <2>1. stored = [k \in DOMAIN ballotEvents[p] |-> CheckpointOf(ballotEvents[p][k])]
    BY DEF Intact, TablesOK, IInv, ChainsIntact
  <2>2. i \in DOMAIN ballotEvents[p]
    BY <2>1
  <2>3. ballotEvents[p] # << >>
    BY <2>2
  <2> QED
    BY <2>3 DEF Intact, TablesOK, RowsFollow
<1>5. Len(stored) = Len(ballotEvents[p])
  BY <1>4, IntactPasses
<1> HIDE DEF stored
<1>6. Len(checkpoints'[p]) = Len(stored) - 1 /\ Len(stored) \in Nat
  BY <1>3, OneLess
<1>7. ~Sound(p)'
  BY <1>2, <1>5, <1>6 DEF Sound
<1> QED
  BY <1>2, <1>3, <1>4, <1>7 DEF Exists, LogsTyped

\* A claimed credit is lost: its event is one too many.
LEMMA LostClaimTells ==
  ASSUME Intact, NEW p \in Polls, LoseClaim(p)
  PROVE  LogsTyped' /\ Exists(p)' /\ ~Sound(p)'
<1>1. PICK m \in Claimed(p) : credits' = [credits EXCEPT ![p][m] = Unclaimed]
  BY DEF LoseClaim
<1>2. UNCHANGED <<state, creditEvents, ballotEvents>>
  BY DEF LoseClaim
<1>3. LogsTyped' /\ creditEvents[p] \in Seq(Event(CreditRecord))
  BY <1>2 DEF Intact, TablesOK, IInv, TypeOK, LogsTyped
<1>4. IsFiniteSet(Claimed(p)) /\ Len(creditEvents[p]) = Cardinality(Claimed(p))
  BY ClaimsCounted
<1>5. Claimed(p)' = Claimed(p) \ {m}
  BY <1>1 DEF Claimed, Intact, TablesOK, IInv, TypeOK
<1>6. Cardinality(Claimed(p) \ {m}) = Cardinality(Claimed(p)) - 1 /\ Cardinality(Claimed(p)) \in Nat
  BY <1>4, FS_RemoveElement, FS_CardinalityType
<1>7. Len(creditEvents'[p]) # Cardinality(Claimed(p)')
  BY <1>2, <1>4, <1>5, <1>6
<1>8. ~Sound(p)'
  BY <1>7 DEF Sound
<1>9. state[p] # "absent"
  <2>1. creditEvents[p] # << >>
    BY <1>3, <1>4, <1>6, FS_EmptySet
  <2> QED
    BY <2>1 DEF Intact, CreditsFollow
<1> QED
  BY <1>2, <1>3, <1>8, <1>9 DEF Exists

\* A spent row that leads elsewhere no longer leads to the ballot of its credential.
LEMMA AlteredSpendTells ==
  ASSUME Intact, NEW p \in Polls, AlterSpent(p)
  PROVE  LogsTyped' /\ Exists(p)' /\ ~Sound(p)'
<1> DEFINE log == ballotEvents[p]
<1>1. PICK c \in Redeemed(p), i \in 0..Len(log) :
        i # spent[p][c] /\ spent' = [spent EXCEPT ![p][c] = i]
  BY DEF AlterSpent
<1>2. UNCHANGED <<state, creditEvents, ballotEvents>>
  BY DEF AlterSpent
<1> DEFINE j == spent[p][c]
<1>3. c \in Credentials /\ j \in Ballots(log) /\ log[j].artifact.credential = c
  BY DEF Redeemed, Intact, TablesOK, IInv, SpentPointsToBallot
<1>4. log[j].sequence = j
  BY <1>3 DEF Intact, TablesOK, IInv, ChainsIntact, Replays, Ballots
<1>5. spent'[p][c] = i
  BY <1>1, <1>3 DEF Intact, TablesOK, IInv, TypeOK
<1>6. state[p] # "absent"
  <2>1. log # << >>
    BY <1>3 DEF Ballots
  <2> QED
    BY <2>1 DEF Intact, TablesOK, RowsFollow
<1>7. LogsTyped'
  BY <1>2 DEF Intact, TablesOK, IInv, TypeOK, LogsTyped
<1> HIDE DEF j
<1>8. spent'[p][ballotEvents'[p][j].artifact.credential] # ballotEvents'[p][j].sequence
  BY <1>1, <1>2, <1>3, <1>4, <1>5 DEF j
<1>9. j \in Ballots(ballotEvents'[p])
  BY <1>2, <1>3
<1>10. ~Sound(p)'
  BY <1>8, <1>9 DEF Sound
<1> QED
  BY <1>2, <1>6, <1>7, <1>10 DEF Exists

\* A closed poll whose row says open, or whose tally is lost, has an event that closed it.
LEMMA LostCloseTells ==
  ASSUME Intact, NEW p \in Polls, Reopen(p) \/ LoseTally(p)
  PROVE  LogsTyped' /\ Exists(p)' /\ ~Sound(p)'
<1>1. UNCHANGED <<creditEvents, ballotEvents>>
  BY DEF Reopen, LoseTally
<1>2. LogsTyped'
  BY <1>1 DEF Intact, TablesOK, IInv, TypeOK, LogsTyped
<1>3. CASE Reopen(p)
  <2>1. state[p] = "closed" /\ state' = [state EXCEPT ![p] = "open"]
    BY <1>3 DEF Reopen
  <2>2. state'[p] = "open"
    BY <2>1 DEF Intact, TablesOK, IInv, TypeOK
  <2>3. HasClosed(ballotEvents'[p])
    BY <1>1, <2>1 DEF Intact, TablesOK, ClosesMatchLog
  <2> QED
    BY <1>2, <2>2, <2>3 DEF Exists, Sound
<1>4. CASE LoseTally(p)
  <2>1. tallies[p] # None /\ tallies' = [tallies EXCEPT ![p] = None] /\ state' = state
    BY <1>4 DEF LoseTally
  <2>2. tallies'[p] = None
    BY <2>1 DEF Intact, TablesOK, IInv, TypeOK
  <2>3. state[p] = "closed"
    BY <2>1 DEF Intact, TablesOK, RowsFollow
  <2> QED
    BY <1>2, <2>1, <2>2, <2>3 DEF Exists, Sound
<1> QED
  BY <1>3, <1>4

\* No damage leaves its poll sound, and a check begins anew after it.
LEMMA DamageStep == ASSUME ReadyInv, Damage PROVE ReadyInv'
<1>1. /\ Unharmed /\ damage' = "inside" /\ check' = NoCheck /\ ~overlapped'
      /\ \E p \in Polls :
           \/ LoseCreditEvent(p) \/ LoseBallotEvent(p) \/ AlterBallot(p) \/ LoseCheckpoint(p)
           \/ LoseClaim(p) \/ AlterSpent(p) \/ Reopen(p) \/ LoseTally(p)
  BY DEF Damage
<1>2. Intact
  BY <1>1 DEF ReadyInv
<1>3. LogsTyped' /\ \E p \in Polls : Exists(p)' /\ ~Sound(p)'
  BY <1>1, <1>2, LostEventTells, AlteredBallotTells, LostCheckpointTells, LostClaimTells,
     AlteredSpendTells, LostCloseTells
<1>4. CheckTyped' /\ ~Running' /\ check'.at = "idle"
  BY <1>1 DEF NoCheck, CheckTyped, Running
<1> QED
  BY <1>1, <1>3, <1>4 DEF ReadyInv, QuietCheckPasses, DamageIsFound, Unharmed, Harmed

\* Nothing is claimed to be found when the row of a poll is lost.
LEMMA LosePollStep == ASSUME ReadyInv, LosePoll PROVE ReadyInv'
<1>1. /\ Unharmed /\ damage' = "poll row" /\ check' = NoCheck
      /\ UNCHANGED <<creditEvents, ballotEvents>>
  BY DEF LosePoll
<1>2. LogsTyped'
  BY <1>1 DEF ReadyInv, LogsTyped
<1>3. CheckTyped' /\ ~Running' /\ check'.at = "idle"
  BY <1>1 DEF NoCheck, CheckTyped, Running
<1> QED
  BY <1>1, <1>2, <1>3 DEF ReadyInv, QuietCheckPasses, DamageIsFound, Unharmed, Harmed

------------------------------------------------------------------------------
(* What the sequencer does meanwhile *)

\* Nothing is claimed in a poll that is not there.
LEMMA CreditsFollowStep == ASSUME IInv, CreditsFollow, [Next]_vars PROVE CreditsFollow'
<1> SUFFICES ASSUME NEW p \in Polls, state'[p] = "absent" PROVE creditEvents'[p] = << >>
  BY DEF CreditsFollow
<1>1. ASSUME NEW q \in Polls, CreatePoll(q) PROVE state[p] = "absent"
  BY <1>1 DEF CreatePoll, IInv, TypeOK
<1>2. ASSUME NEW q \in Polls, ClosePoll(q) PROVE state[p] = "absent"
  BY <1>2 DEF ClosePoll, IInv, TypeOK
<1>3. ASSUME NEW q \in Polls, NEW c \in Credentials, NEW ch \in Choices, Vote(q, c, ch)
      PROVE  state' = state
  BY <1>3 DEF Vote
<1>4. state[p] = "absent"
  BY <1>1, <1>2, <1>3, BallotWriters
<1>5. ASSUME NEW q \in Polls, NEW m \in Members, NEW r \in RequestIDs, NEW b \in Blindings,
             ClaimCredit(q, m, r, b)
      PROVE  creditEvents'[p] = creditEvents[p]
  BY <1>4, <1>5 DEF ClaimCredit, IsOpen, IInv, TypeOK
<1> QED
  BY <1>4, <1>5, CreditWriters DEF CreditsFollow

\* A request that writes overlaps the check; one that does not leaves its copies true.
LEMMA RequestStep == ASSUME ReadyInv, ServeRequest PROVE ReadyInv'
<1>1. /\ Unharmed /\ Next /\ check' = check /\ damage' = damage
      /\ overlapped' = (overlapped \/ (Running /\ tables' # tables))
  BY DEF ServeRequest
<1>2. Intact
  BY <1>1 DEF ReadyInv
<1>3. Intact'
  <2>1. TablesOK'
    BY <1>1, <1>2, TablesStep DEF Intact
  <2>2. RecordInv'
    BY <1>1, <1>2, RecordInvStep DEF Intact, TablesOK
  <2>3. CreditsFollow'
    BY <1>1, <1>2, CreditsFollowStep DEF Intact, TablesOK
  <2> QED
    BY <2>1, <2>2, <2>3 DEF Intact
<1>4. LogsTyped'
  BY <1>3 DEF Intact, TablesOK, IInv, TypeOK, LogsTyped
<1>5. CheckTyped' /\ (Running' <=> Running)
  BY <1>1 DEF ReadyInv, CheckTyped, Running
<1>6. ASSUME Running, ~overlapped' PROVE Copies'
  <2>1. UNCHANGED tables /\ Copies
    BY <1>1, <1>6 DEF ReadyInv
  <2>2. UNCHANGED <<state, closedAt, credits, creditEvents, ballotEvents, spent>>
    BY <2>1 DEF tables
  <2>3. \A p : /\ Row(p)' = Row(p) /\ Claimed(p)' = Claimed(p) /\ Redeemed(p)' = Redeemed(p)
               /\ Exists(p)' <=> Exists(p)
    BY <2>2 DEF Row, Claimed, Redeemed, IsSpent, Exists
  <2> QED
    BY <1>1, <2>1, <2>2, <2>3 DEF Copies
<1>7. QuietCheckPasses' /\ ~Harmed'
  BY <1>1 DEF ReadyInv, QuietCheckPasses, Unharmed, Harmed
<1> QED
  BY <1>1, <1>3, <1>4, <1>5, <1>6, <1>7 DEF ReadyInv, DamageIsFound

------------------------------------------------------------------------------
(* The check itself *)

\* Only the check changes: the tables say what they said.
LEMMA TablesRest ==
  ASSUME ReadyInv, UNCHANGED <<vars, damage>>
  PROVE  /\ LogsTyped' /\ (Unharmed => Intact') /\ tallies' = tallies
         /\ (Unharmed' <=> Unharmed) /\ (Harmed' <=> Harmed)
         /\ state' = state /\ creditEvents' = creditEvents /\ ballotEvents' = ballotEvents
         /\ spent' = spent /\ checkpoints' = checkpoints
         /\ \A p : /\ Row(p)' = Row(p) /\ Claimed(p)' = Claimed(p) /\ Redeemed(p)' = Redeemed(p)
                   /\ (Exists(p)' <=> Exists(p)) /\ (Sound(p)' <=> Sound(p))
<1>1. UNCHANGED <<state, closedAt, credits, creditEvents, ballotEvents, spent, checkpoints,
                  tallies, now, issued, receipts, results>>
  BY DEF vars, tables, answers
<1>2. \A p : /\ Row(p)' = Row(p) /\ Claimed(p)' = Claimed(p) /\ Redeemed(p)' = Redeemed(p)
             /\ (Exists(p)' <=> Exists(p))
  BY <1>1 DEF Row, Claimed, Redeemed, IsSpent, Exists
<1>3. \A p : Sound(p)' <=> Sound(p)
  BY <1>1, <1>2 DEF Sound
<1>4. LogsTyped'
  BY <1>1 DEF ReadyInv, LogsTyped
<1>5. Unharmed => Intact'
  <2> SUFFICES ASSUME Unharmed PROVE Intact'
    OBVIOUS
  <2>1. Intact /\ [Next]_vars
    BY DEF ReadyInv
  <2>2. TablesOK'
    BY <2>1, TablesStep DEF Intact
  <2>3. RecordInv'
    BY <2>1, RecordInvStep DEF Intact, TablesOK
  <2>4. CreditsFollow'
    BY <2>1, CreditsFollowStep DEF Intact, TablesOK
  <2> QED
    BY <2>2, <2>3, <2>4 DEF Intact
<1>6. (Unharmed' <=> Unharmed) /\ (Harmed' <=> Harmed)
  BY DEF Unharmed, Harmed
<1> QED
  BY <1>1, <1>2, <1>3, <1>4, <1>5, <1>6

\* A step of the check keeps the invariant when it leaves true copies and comparisons, and
\* neither fails over intact tables nor passes damaged ones.
LEMMA CheckKeeps ==
  ASSUME ReadyInv, UNCHANGED <<vars, damage>>, CheckTyped',
         Harmed => ~overlapped',
         Running' /\ ~overlapped' => Copies',
         Running' /\ Harmed => Compared',
         Unharmed /\ ~overlapped' => check'.at # "failed",
         Harmed => check'.at # "passed"
  PROVE  ReadyInv'
<1>1. Harmed => \E p \in Polls : Exists(p)' /\ ~Sound(p)'
  BY TablesRest DEF ReadyInv
<1>2. QuietCheckPasses' /\ DamageIsFound'
  BY TablesRest DEF QuietCheckPasses, DamageIsFound
<1> QED
  BY <1>1, <1>2, TablesRest DEF ReadyInv

\* A check begins with all polls and nothing read.
LEMMA StartStep ==
  ASSUME ReadyInv, StartCheck, UNCHANGED <<vars, damage>>
  PROVE  ReadyInv'
<1> DEFINE begun == [NoCheck EXCEPT !.at = "rows", !.todo = {p \in Polls : state[p] # "absent"}]
<1>1. check' = begun /\ ~overlapped' /\ ~Running
  BY DEF StartCheck
<1>2. /\ DOMAIN begun = {"at", "todo", "rows", "poll", "credits", "ballots", "k",
                         "claimed", "redeemed"}
      /\ begun.at = "rows" /\ begun.rows = << >>
      /\ begun.todo = {p \in Polls : state[p] # "absent"}
  BY DEF NoCheck
<1> HIDE DEF begun
<1>3. CheckTyped'
  BY <1>1, <1>2 DEF CheckTyped, Phases
<1>4. Copies'
  <2>1. \A p \in check'.todo : Exists(p)'
    BY <1>1, <1>2, TablesRest DEF Exists
  <2> QED
    BY <1>1, <1>2, <2>1 DEF Copies
<1>5. Compared'
  BY <1>1, <1>2, TablesRest DEF Compared, Exists
<1> QED
  BY <1>1, <1>2, <1>3, <1>4, <1>5, CheckKeeps

\* A row is read as it is.
LEMMA ReadRowStep ==
  ASSUME ReadyInv, NEW p \in Polls, ReadRow(p), UNCHANGED <<vars, overlapped, damage>>
  PROVE  ReadyInv'
<1> DEFINE rows == [q \in DOMAIN check.rows \cup {p} |-> IF q = p THEN Row(p) ELSE check.rows[q]]
<1>1. check.at = "rows" /\ check' = [check EXCEPT !.rows = rows]
  BY DEF ReadRow, Row
<1> HIDE DEF rows
<1>2. CheckTyped /\ Running
  BY <1>1 DEF ReadyInv, Running
<1>3. /\ DOMAIN check' = DOMAIN check /\ check'.at = "rows" /\ check'.rows = rows
      /\ check'.todo = check.todo
  BY <1>1, <1>2 DEF CheckTyped
<1>4. CheckTyped'
  BY <1>2, <1>3 DEF CheckTyped, Phases
<1>5. ~overlapped => Copies'
  <2> SUFFICES ASSUME ~overlapped PROVE Copies'
    OBVIOUS
  <2>1. Copies
    BY <1>2 DEF ReadyInv
  <2>2. \A q \in DOMAIN rows : rows[q] = Row(q)
    BY <2>1 DEF Copies, rows
  <2> QED
    BY <1>3, <2>1, <2>2, TablesRest DEF Copies
<1>6. Harmed => Compared'
  <2> SUFFICES ASSUME Harmed PROVE Compared'
    OBVIOUS
  <2>1. Compared
    BY <1>2 DEF ReadyInv
  <2> QED
    BY <1>1, <1>3, <2>1, TablesRest DEF Compared
<1> QED
  BY <1>2, <1>3, <1>4, <1>5, <1>6, CheckKeeps DEF ReadyInv

\* A comparison fails only over damaged tables or overlapped copies; if it does not fail, the
\* step leaves true copies and comparisons.
LEMMA ComparisonKeeps ==
  ASSUME ReadyInv, Running, UNCHANGED <<vars, overlapped, damage>>,
         \/ check' = [NoCheck EXCEPT !.at = "failed"] /\ (overlapped \/ ~Unharmed)
         \/ /\ CheckTyped' /\ Running'
            /\ ~overlapped => Copies'
            /\ Harmed => Compared'
  PROVE  ReadyInv'
<1>1. CASE check' = [NoCheck EXCEPT !.at = "failed"] /\ (overlapped \/ ~Unharmed)
  <2>1. CheckTyped' /\ check'.at = "failed" /\ ~Running'
    BY <1>1 DEF NoCheck, CheckTyped, Running
  <2> QED
    BY <1>1, <2>1, CheckKeeps DEF ReadyInv
<1>2. CASE /\ CheckTyped' /\ Running'
           /\ ~overlapped => Copies'
           /\ Harmed => Compared'
  <2>1. check'.at # "failed" /\ check'.at # "passed"
    BY <1>2 DEF Running
  <2> QED
    BY <1>2, <2>1, CheckKeeps DEF ReadyInv
<1> QED
  BY <1>1, <1>2

\* What is known in the middle of a check of the poll it is at.
LEMMA AtPoll ==
  ASSUME ReadyInv, check.at \in Phases \ {"rows"}
  PROVE  /\ Running /\ CheckTyped
         /\ ~overlapped => Copies /\ Exists(check.poll)
         /\ Harmed => ~overlapped /\ Compared /\ Copies
         /\ Unharmed => Intact
<1>1. Running
  BY DEF Phases, Running
<1> QED
  BY <1>1 DEF ReadyInv, Copies, Phases

\* The credit log is read and replayed.
LEMMA CreditEventsStep ==
  ASSUME ReadyInv, NEW p \in Polls, ReadCreditEvents(p), UNCHANGED <<vars, overlapped, damage>>
  PROVE  ReadyInv'
<1> DEFINE log == creditEvents[p]
           holds == Replays(log) /\ MembersDiffer(log)
<1>1. /\ check.at = "rows" /\ p \in check.todo /\ check.todo \subseteq DOMAIN check.rows
      /\ check' = IF holds
                  THEN [check EXCEPT !.at = "credits", !.poll = p, !.credits = log, !.k = 1]
                  ELSE [NoCheck EXCEPT !.at = "failed"]
  BY DEF ReadCreditEvents, Ensure
<1>2. CheckTyped /\ Running
  BY <1>1 DEF ReadyInv, Running
<1>3. CASE ~holds
  <2>1. ASSUME ~overlapped, Unharmed PROVE FALSE
    <3>1. Intact /\ Copies
      BY <1>2, <2>1 DEF ReadyInv
    <3> QED
      BY <1>1, <1>3, <3>1, IntactPasses DEF Copies, Exists
  <2> QED
    BY <1>1, <1>2, <1>3, <2>1, ComparisonKeeps
<1>4. CASE holds
  <2> HIDE DEF log, holds
  <2>1. /\ DOMAIN check' = DOMAIN check /\ check'.at = "credits" /\ check'.poll = p
        /\ check'.credits = log /\ check'.k = 1
        /\ check'.todo = check.todo /\ check'.rows = check.rows
    BY <1>1, <1>2, <1>4 DEF CheckTyped
  <2>2. CheckTyped' /\ Running'
    BY <1>2, <2>1 DEF CheckTyped, Running, Phases
  <2>3. ~overlapped => Copies'
    <3> SUFFICES ASSUME ~overlapped PROVE Copies'
      OBVIOUS
    <3>1. Copies
      BY <1>2 DEF ReadyInv
    <3> QED
      BY <1>1, <2>1, <3>1, TablesRest DEF Copies, log
  <2>4. Harmed => Compared'
    <3> SUFFICES ASSUME Harmed PROVE Compared'
      OBVIOUS
    <3>1. Compared
      BY <1>2 DEF ReadyInv
    <3> QED
      BY <2>1, <3>1, TablesRest DEF Compared
  <2> QED
    BY <1>2, <2>2, <2>3, <2>4, ComparisonKeeps
<1> QED
  BY <1>3, <1>4

\* A claim of the log is compared with its row.
LEMMA CompareCreditStep ==
  ASSUME ReadyInv, CompareCredit, UNCHANGED <<vars, overlapped, damage>>
  PROVE  ReadyInv'
<1> DEFINE p == check.poll
           claim == check.credits[check.k].artifact
           holds == CreditRowMatches(p, claim)
<1>1. /\ check.at = "credits" /\ check.k <= Len(check.credits)
      /\ check' = IF holds THEN [check EXCEPT !.k = @ + 1] ELSE [NoCheck EXCEPT !.at = "failed"]
  BY DEF CompareCredit, Ensure
<1>2. /\ Running /\ CheckTyped
      /\ ~overlapped => Copies /\ Exists(p)
      /\ Harmed => ~overlapped /\ Compared /\ Copies
      /\ Unharmed => Intact
  BY <1>1, AtPoll DEF Phases
<1>3. CASE ~holds
  <2>1. ASSUME ~overlapped, Unharmed PROVE FALSE
    <3>1. p \in Polls /\ state[p] # "absent" /\ check.credits = creditEvents[p]
          /\ check.k \in Nat /\ check.k > 0
      BY <1>1, <1>2, <2>1 DEF Copies, Exists
    <3> HIDE DEF p
    <3>2. creditEvents[p] \in Seq(Event(CreditRecord))
      BY <3>1 DEF ReadyInv, LogsTyped
    <3>3. check.k \in DOMAIN creditEvents[p]
      BY <1>1, <3>1, <3>2
    <3>4. CreditRowMatches(p, creditEvents[p][check.k].artifact)
      BY <1>2, <2>1, <3>1, <3>3, IntactPasses
    <3> QED
      BY <1>3, <3>1, <3>4
  <2> QED
    BY <1>1, <1>2, <1>3, <2>1, ComparisonKeeps
<1>4. CASE holds
  <2> HIDE DEF claim, holds
  <2>1. /\ DOMAIN check' = DOMAIN check /\ check'.at = "credits" /\ check'.poll = p
        /\ check'.credits = check.credits /\ check'.k = check.k + 1
        /\ check'.todo = check.todo /\ check'.rows = check.rows
    BY <1>1, <1>2, <1>4 DEF CheckTyped
  <2>2. CheckTyped' /\ Running'
    BY <1>2, <2>1 DEF CheckTyped, Running, Phases
  <2>3. ~overlapped => Copies'
    BY <1>1, <1>2, <2>1, TablesRest DEF Copies
  <2>4. Harmed => Compared'
    BY <1>2, <2>1, TablesRest DEF Compared
  <2> QED
    BY <1>2, <2>2, <2>3, <2>4, ComparisonKeeps
<1> QED
  BY <1>3, <1>4

\* The ballot log is read, replayed and compared with the row of its poll.
LEMMA BallotEventsStep ==
  ASSUME ReadyInv, ReadBallotEvents, UNCHANGED <<vars, overlapped, damage>>
  PROVE  ReadyInv'
<1> DEFINE p == check.poll
           log == ballotEvents[p]
           holds == Replays(log) /\ InOrder(log) /\ RowMatchesLog(check.rows[p], log)
<1>1. /\ check.at = "credits" /\ check.k > Len(check.credits)
      /\ check' = IF holds THEN [check EXCEPT !.at = "claimed", !.ballots = log]
                  ELSE [NoCheck EXCEPT !.at = "failed"]
  BY DEF ReadBallotEvents, Ensure
<1>2. /\ Running /\ CheckTyped
      /\ ~overlapped => Copies /\ Exists(p)
      /\ Harmed => ~overlapped /\ Compared /\ Copies
      /\ Unharmed => Intact
  BY <1>1, AtPoll DEF Phases
<1>3. ~overlapped => check.rows[p] = Row(p)
  BY <1>1, <1>2 DEF Copies
<1>4. CASE ~holds
  <2>1. ASSUME ~overlapped, Unharmed PROVE FALSE
    <3>1. p \in Polls /\ state[p] # "absent" /\ check.rows[p] = Row(p)
      BY <1>2, <1>3, <2>1 DEF Exists
    <3> HIDE DEF p
    <3>2. Replays(log) /\ InOrder(log) /\ RowMatchesLog(Row(p), log)
      BY <1>2, <2>1, <3>1, IntactPasses
    <3> QED
      BY <1>4, <3>1, <3>2
  <2> QED
    BY <1>1, <1>2, <1>4, <2>1, ComparisonKeeps
<1>5. CASE holds
  <2>1. Harmed => Replays(log) /\ (HasClosed(log) <=> state[p] = "closed")
    BY <1>2, <1>3, <1>5 DEF RowMatchesLog, Row
  <2> HIDE DEF holds
  <2>2. /\ DOMAIN check' = DOMAIN check /\ check'.at = "claimed" /\ check'.poll = p
        /\ check'.credits = check.credits /\ check'.k = check.k /\ check'.ballots = log
        /\ check'.todo = check.todo /\ check'.rows = check.rows
    BY <1>1, <1>2, <1>5 DEF CheckTyped
  <2>3. CheckTyped' /\ Running'
    BY <1>2, <2>2 DEF CheckTyped, Running, Phases
  <2>4. ~overlapped => Copies'
    BY <1>1, <1>2, <2>2, TablesRest DEF Copies
  <2>5. Harmed => Compared'
    BY <1>2, <2>1, <2>2, TablesRest DEF Compared
  <2> QED
    BY <1>2, <2>3, <2>4, <2>5, ComparisonKeeps
<1> QED
  BY <1>4, <1>5

\* The claimed credits are counted, and then the spent credentials.
LEMMA CountStep ==
  ASSUME ReadyInv, CountClaimed \/ CountRedeemed, UNCHANGED <<vars, overlapped, damage>>
  PROVE  ReadyInv'
<1>1. check.at \in {"claimed", "redeemed"}
  BY DEF CountClaimed, CountRedeemed
<1>2. /\ Running /\ CheckTyped
      /\ ~overlapped => Copies /\ Exists(check.poll)
      /\ Harmed => ~overlapped /\ Compared /\ Copies
      /\ Unharmed => Intact
  BY <1>1, AtPoll DEF Phases
<1>3. CASE CountClaimed
  <2>1. /\ check.at = "claimed"
        /\ check' = [check EXCEPT !.at = "redeemed", !.claimed = Cardinality(Claimed(check.poll))]
    BY <1>3 DEF CountClaimed
  <2>2. /\ DOMAIN check' = DOMAIN check /\ check'.at = "redeemed" /\ check'.poll = check.poll
        /\ check'.credits = check.credits /\ check'.k = check.k /\ check'.ballots = check.ballots
        /\ check'.claimed = Cardinality(Claimed(check.poll))
        /\ check'.todo = check.todo /\ check'.rows = check.rows
    BY <1>2, <2>1 DEF CheckTyped
  <2>3. CheckTyped' /\ Running'
    BY <1>2, <2>2 DEF CheckTyped, Running, Phases
  <2>4. ~overlapped => Copies'
    BY <1>2, <2>1, <2>2, TablesRest DEF Copies
  <2>5. Harmed => Compared'
    BY <1>2, <2>1, <2>2, TablesRest DEF Compared
  <2> QED
    BY <1>2, <2>3, <2>4, <2>5, ComparisonKeeps
<1>4. CASE CountRedeemed
  <2>1. /\ check.at = "redeemed"
        /\ check' = [check EXCEPT !.at = "ballots", !.k = 1,
                                  !.redeemed = Cardinality(Redeemed(check.poll))]
    BY <1>4 DEF CountRedeemed
  <2>2. /\ DOMAIN check' = DOMAIN check /\ check'.at = "ballots" /\ check'.poll = check.poll
        /\ check'.credits = check.credits /\ check'.k = 1 /\ check'.ballots = check.ballots
        /\ check'.claimed = check.claimed
        /\ check'.redeemed = Cardinality(Redeemed(check.poll))
        /\ check'.todo = check.todo /\ check'.rows = check.rows
    BY <1>2, <2>1 DEF CheckTyped
  <2>3. CheckTyped' /\ Running'
    BY <1>2, <2>2 DEF CheckTyped, Running, Phases
  <2>4. ~overlapped => Copies'
    BY <1>2, <2>1, <2>2, TablesRest DEF Copies
  <2>5. Harmed => Compared'
    <3> SUFFICES ASSUME Harmed PROVE Compared'
      OBVIOUS
    <3>1. Compared /\ Copies
      BY <1>2
    <3>2. \A i \in Ballots(ballotEvents[check.poll]) : ~(i < 1)
      <4>1. ballotEvents[check.poll] \in Seq(Event(BallotRecord))
        BY <2>1, <3>1 DEF Copies, Exists, ReadyInv, LogsTyped
      <4> QED
        BY <4>1 DEF Ballots
    <3> QED
      BY <2>1, <2>2, <3>1, <3>2, TablesRest DEF Compared
  <2> QED
    BY <1>2, <2>3, <2>4, <2>5, ComparisonKeeps
<1> QED
  BY <1>3, <1>4

\* A ballot is compared with the row of its credential.
LEMMA CompareBallotStep ==
  ASSUME ReadyInv, CompareBallot, UNCHANGED <<vars, overlapped, damage>>
  PROVE  ReadyInv'
<1> DEFINE p == check.poll
           k == check.k
           event == check.ballots[k]
           holds == event.artifact.type = "ballot_accepted" =>
                      CredentialsDiffer(check.ballots) /\ BallotRowMatches(p, event)
<1>1. /\ check.at = "ballots" /\ k <= Len(check.ballots)
      /\ check' = IF holds THEN [check EXCEPT !.k = @ + 1] ELSE [NoCheck EXCEPT !.at = "failed"]
  BY DEF CompareBallot, Ensure
<1>2. /\ Running /\ CheckTyped
      /\ ~overlapped => Copies /\ Exists(p)
      /\ Harmed => ~overlapped /\ Compared /\ Copies
      /\ Unharmed => Intact
  BY <1>1, AtPoll DEF Phases
<1>3. ~overlapped =>
        /\ p \in Polls /\ state[p] # "absent" /\ check.ballots = ballotEvents[p]
        /\ k \in DOMAIN ballotEvents[p] /\ k \in Nat
  <2> SUFFICES ASSUME ~overlapped
               PROVE  /\ p \in Polls /\ state[p] # "absent" /\ check.ballots = ballotEvents[p]
                      /\ k \in DOMAIN ballotEvents[p] /\ k \in Nat
    OBVIOUS
  <2>1. p \in Polls /\ state[p] # "absent" /\ check.ballots = ballotEvents[p]
        /\ k \in Nat /\ k > 0
    BY <1>1, <1>2 DEF Copies, Exists
  <2> HIDE DEF p, k
  <2>2. ballotEvents[p] \in Seq(Event(BallotRecord))
    BY <2>1 DEF ReadyInv, LogsTyped
  <2> QED
    BY <1>1, <2>1, <2>2
<1>4. CASE ~holds
  <2>1. ASSUME ~overlapped, Unharmed PROVE FALSE
    <3>1. /\ p \in Polls /\ state[p] # "absent" /\ check.ballots = ballotEvents[p]
          /\ k \in DOMAIN ballotEvents[p]
      BY <1>3, <2>1
    <3> HIDE DEF p, k
    <3>2. /\ CredentialsDiffer(ballotEvents[p])
          /\ \A i \in Ballots(ballotEvents[p]) : BallotRowMatches(p, ballotEvents[p][i])
      BY <1>2, <2>1, <3>1, IntactPasses
    <3> QED
      BY <1>4, <3>1, <3>2 DEF Ballots
  <2> QED
    BY <1>1, <1>2, <1>4, <2>1, ComparisonKeeps
<1>5. CASE holds
  <2>1. Harmed /\ k \in Ballots(ballotEvents[p]) =>
          spent[p][ballotEvents[p][k].artifact.credential] = ballotEvents[p][k].sequence
    BY <1>2, <1>3, <1>5, Zenon DEF BallotRowMatches, Ballots
  <2> HIDE DEF holds, event
  <2>2. /\ DOMAIN check' = DOMAIN check /\ check'.at = "ballots" /\ check'.poll = p
        /\ check'.credits = check.credits /\ check'.k = k + 1 /\ check'.ballots = check.ballots
        /\ check'.claimed = check.claimed /\ check'.redeemed = check.redeemed
        /\ check'.todo = check.todo /\ check'.rows = check.rows
    BY <1>1, <1>2, <1>5 DEF CheckTyped
  <2>3. CheckTyped' /\ Running'
    BY <1>1, <1>2, <2>2 DEF CheckTyped, Running, Phases
  <2>4. ~overlapped => Copies'
    BY <1>1, <1>2, <2>2, TablesRest, SMTT(30) DEF Copies
  <2>5. Harmed => Compared'
    <3> SUFFICES ASSUME Harmed PROVE Compared'
      OBVIOUS
    <3>1. Compared /\ k \in Nat /\ ballotEvents[p] \in Seq(Event(BallotRecord))
      BY <1>2, <1>3 DEF ReadyInv, LogsTyped
    <3>2. \A i \in Ballots(ballotEvents[p]) : i < k + 1 =>
            spent[p][ballotEvents[p][i].artifact.credential] = ballotEvents[p][i].sequence
      <4> SUFFICES ASSUME NEW i \in Ballots(ballotEvents[p]), i < k + 1
                   PROVE  spent[p][ballotEvents[p][i].artifact.credential]
                            = ballotEvents[p][i].sequence
        OBVIOUS
      <4>1. i \in Nat
        BY <3>1 DEF Ballots
      <4>2. i < k \/ i = k
        BY <3>1, <4>1
      <4> QED
        BY <1>1, <2>1, <3>1, <4>2 DEF Compared
    <3> QED
      BY <1>1, <2>2, <3>1, <3>2, TablesRest DEF Compared
  <2> QED
    BY <1>2, <2>3, <2>4, <2>5, ComparisonKeeps
<1> QED
  BY <1>4, <1>5

\* Rows and checkpoints are counted against the events.
LEMMA CheckpointsStep ==
  ASSUME ReadyInv, ReadStoredCheckpoints, UNCHANGED <<vars, overlapped, damage>>
  PROVE  ReadyInv'
<1> DEFINE p == check.poll
           stored == checkpoints[p]
           holds == /\ Len(check.credits) = check.claimed
                    /\ Cardinality(Ballots(check.ballots)) = check.redeemed
                    /\ Len(stored) = Len(check.ballots)
                    /\ \A i \in DOMAIN stored : stored[i].hash = check.ballots[i].hash
<1>1. /\ check.at = "ballots" /\ check.k > Len(check.ballots)
      /\ check' = IF holds THEN [check EXCEPT !.at = "tally"] ELSE [NoCheck EXCEPT !.at = "failed"]
  BY DEF ReadStoredCheckpoints, Ensure
<1>2. /\ Running /\ CheckTyped
      /\ ~overlapped => Copies /\ Exists(p)
      /\ Harmed => ~overlapped /\ Compared /\ Copies
      /\ Unharmed => Intact
  BY <1>1, AtPoll DEF Phases
<1>3. ~overlapped =>
        /\ p \in Polls /\ state[p] # "absent" /\ check.ballots = ballotEvents[p]
        /\ check.credits = creditEvents[p] /\ check.claimed = Cardinality(Claimed(p))
        /\ check.redeemed = Cardinality(Redeemed(p)) /\ check.k \in Nat
  BY <1>1, <1>2 DEF Copies, Exists
<1>4. CASE ~holds
  <2>1. ASSUME ~overlapped, Unharmed PROVE FALSE
    <3>1. /\ p \in Polls /\ state[p] # "absent" /\ check.ballots = ballotEvents[p]
          /\ check.credits = creditEvents[p] /\ check.claimed = Cardinality(Claimed(p))
          /\ check.redeemed = Cardinality(Redeemed(p))
      BY <1>3, <2>1
    <3> HIDE DEF p
    <3>2. /\ Len(checkpoints[p]) = Len(ballotEvents[p])
          /\ \A i \in DOMAIN checkpoints[p] : checkpoints[p][i].hash = ballotEvents[p][i].hash
      BY <1>2, <2>1, <3>1, IntactPasses
    <3>3. Len(creditEvents[p]) = Cardinality(Claimed(p))
      BY <1>2, <2>1, <3>1, ClaimsCounted
    <3>4. Cardinality(Ballots(ballotEvents[p])) = Cardinality(Redeemed(p))
      BY <1>2, <2>1, <3>1, SpendsCounted
    <3> QED
      BY <1>4, <3>1, <3>2, <3>3, <3>4
  <2> QED
    BY <1>1, <1>2, <1>4, <2>1, ComparisonKeeps
<1>5. CASE holds
  <2>1. Harmed => /\ Len(creditEvents[p]) = Cardinality(Claimed(p))
                   /\ Len(checkpoints[p]) = Len(ballotEvents[p])
    BY <1>2, <1>3, <1>5
  <2> HIDE DEF holds
  <2>2. /\ DOMAIN check' = DOMAIN check /\ check'.at = "tally" /\ check'.poll = p
        /\ check'.credits = check.credits /\ check'.k = check.k /\ check'.ballots = check.ballots
        /\ check'.claimed = check.claimed /\ check'.redeemed = check.redeemed
        /\ check'.todo = check.todo /\ check'.rows = check.rows
    BY <1>1, <1>2, <1>5 DEF CheckTyped
  <2>3. CheckTyped' /\ Running'
    BY <1>2, <2>2 DEF CheckTyped, Running, Phases
  <2>4. ~overlapped => Copies'
    BY <1>1, <1>2, <2>2, TablesRest, SMTT(30) DEF Copies
  <2>5. Harmed => Compared'
    <3> SUFFICES ASSUME Harmed PROVE Compared'
      OBVIOUS
    <3>1. /\ Compared /\ check.k \in Nat /\ ballotEvents[p] \in Seq(Event(BallotRecord))
          /\ check.k > Len(ballotEvents[p])
      BY <1>1, <1>2, <1>3 DEF ReadyInv, LogsTyped
    <3>2. \A i \in Ballots(ballotEvents[p]) :
            spent[p][ballotEvents[p][i].artifact.credential] = ballotEvents[p][i].sequence
      <4> SUFFICES ASSUME NEW i \in Ballots(ballotEvents[p])
                   PROVE  spent[p][ballotEvents[p][i].artifact.credential]
                            = ballotEvents[p][i].sequence
        OBVIOUS
      <4>1. i < check.k
        BY <3>1 DEF Ballots
      <4> QED
        BY <1>1, <3>1, <4>1 DEF Compared
    <3> QED
      BY <1>1, <2>1, <2>2, <3>1, <3>2, TablesRest DEF Compared
  <2> QED
    BY <1>2, <2>3, <2>4, <2>5, ComparisonKeeps
<1> QED
  BY <1>4, <1>5

\* The tally of a closed poll is verified, and the poll is done with.
LEMMA TallyReadStep ==
  ASSUME ReadyInv, ReadTally, UNCHANGED <<vars, overlapped, damage>>
  PROVE  ReadyInv'
<1> DEFINE p == check.poll
           row == check.rows[p]
           holds == IF row.state = "closed" THEN AuditPasses(p, row) ELSE tallies[p] = None
           next == [NoCheck EXCEPT !.at = "rows", !.todo = check.todo \ {p}, !.rows = check.rows]
<1>1. /\ check.at = "tally"
      /\ check' = IF holds THEN next ELSE [NoCheck EXCEPT !.at = "failed"]
  BY DEF ReadTally, Ensure
<1>2. /\ Running /\ CheckTyped
      /\ ~overlapped => Copies /\ Exists(p)
      /\ Harmed => ~overlapped /\ Compared /\ Copies
      /\ Unharmed => Intact
  BY <1>1, AtPoll DEF Phases
<1>3. ~overlapped => row = Row(p) /\ p \in Polls /\ state[p] # "absent"
  BY <1>1, <1>2 DEF Copies, Exists
<1>4. CASE ~holds
  <2>1. ASSUME ~overlapped, Unharmed PROVE FALSE
    <3>1. row = Row(p) /\ p \in Polls /\ state[p] # "absent" /\ Row(p).state = state[p]
      BY <1>3, <2>1 DEF Row
    <3> HIDE DEF p, row
    <3>2. IF state[p] = "closed" THEN AuditPasses(p, Row(p)) ELSE tallies[p] = None
      BY <1>2, <2>1, <3>1, IntactPasses
    <3> QED
      BY <1>4, <3>1, <3>2
  <2> QED
    BY <1>1, <1>2, <1>4, <2>1, ComparisonKeeps
<1>5. CASE holds
  <2>1. Harmed => Sound(p)
    <3> SUFFICES ASSUME Harmed PROVE Sound(p)
      OBVIOUS
    <3>1. row.state = state[p] /\ Compared
      BY <1>2, <1>3 DEF Row
    <3>2. state[p] = "closed" => tallies[p] # None
      BY <1>5, <3>1 DEF AuditPasses
    <3> QED
      BY <1>1, <3>1, <3>2 DEF Compared, Sound
  <2>2. /\ check' = next
        /\ DOMAIN next = {"at", "todo", "rows", "poll", "credits", "ballots", "k",
                          "claimed", "redeemed"}
        /\ next.at = "rows" /\ next.todo = check.todo \ {p} /\ next.rows = check.rows
    BY <1>1, <1>5 DEF NoCheck
  <2> HIDE DEF next, holds
  <2>3. CheckTyped' /\ Running'
    BY <2>2 DEF CheckTyped, Running, Phases
  <2>4. ~overlapped => Copies'
    BY <1>2, <2>2, TablesRest DEF Copies
  <2>5. Harmed => Compared'
    BY <1>2, <2>1, <2>2, TablesRest DEF Compared
  <2> QED
    BY <1>2, <2>3, <2>4, <2>5, ComparisonKeeps
<1> QED
  BY <1>4, <1>5

\* A check that has done with all polls passes, and has found no damage inside one because
\* there is none.
LEMMA PassStep ==
  ASSUME ReadyInv, Pass, UNCHANGED <<vars, overlapped, damage>>
  PROVE  ReadyInv'
<1>1. check.at = "rows" /\ check.todo = {} /\ check' = [NoCheck EXCEPT !.at = "passed"]
  BY DEF Pass
<1>2. Running
  BY <1>1 DEF Running
<1>3. ~Harmed
  <2> SUFFICES ASSUME Harmed PROVE FALSE
    OBVIOUS
  <2>1. Compared /\ \E p \in Polls : Exists(p) /\ ~Sound(p)
    BY <1>2 DEF ReadyInv
  <2> QED
    BY <1>1, <2>1 DEF Compared
<1>4. CheckTyped' /\ ~Running' /\ check'.at = "passed"
  BY <1>1 DEF NoCheck, CheckTyped, Running
<1> QED
  BY <1>3, <1>4, CheckKeeps

\* At first nothing is stored, checked or damaged.
LEMMA ReadyInvInit == ReadyInit => ReadyInv
<1> SUFFICES ASSUME ReadyInit PROVE ReadyInv
  OBVIOUS
<1>1. Init /\ check = NoCheck /\ ~overlapped /\ damage = "none"
  BY DEF ReadyInit
<1>2. IInv /\ RecordInv
  BY <1>1, InitInvariant, RecordInvInit
<1>3. TablesOK /\ CreditsFollow
  BY <1>1, <1>2 DEF TablesOK, RecordInv, Init, TallyCountsLog, TalliesSigned, CreditsFollow
<1>4. LogsTyped
  BY <1>2 DEF IInv, TypeOK, LogsTyped
<1>5. CheckTyped /\ ~Running /\ check.at = "idle"
  BY <1>1 DEF NoCheck, CheckTyped, Running
<1> QED
  BY <1>1, <1>2, <1>3, <1>4, <1>5
     DEF ReadyInv, Intact, QuietCheckPasses, DamageIsFound, Harmed

\* Nothing changes.
LEMMA ReadyStutter == ASSUME ReadyInv, UNCHANGED readyVars PROVE ReadyInv'
<1>1. UNCHANGED <<vars, check, overlapped, damage>>
  BY DEF readyVars
<1>2. CheckTyped' /\ (Running' <=> Running)
  BY <1>1 DEF ReadyInv, CheckTyped, Running
<1>3. Running /\ ~overlapped => Copies'
  BY <1>1, TablesRest, SMTT(30) DEF ReadyInv, Copies
<1>4. Running /\ Harmed => Compared'
  BY <1>1, TablesRest DEF ReadyInv, Compared
<1> QED
  BY <1>1, <1>2, <1>3, <1>4, CheckKeeps DEF ReadyInv, QuietCheckPasses, DamageIsFound

\* The invariant is inductive.
LEMMA ReadyInvStep == ReadyInv /\ [ReadyNext]_readyVars => ReadyInv'
<1> SUFFICES ASSUME ReadyInv, [ReadyNext]_readyVars PROVE ReadyInv'
  OBVIOUS
<1>1. CASE ServeRequest
  BY <1>1, RequestStep
<1>2. CASE StartCheck /\ UNCHANGED <<vars, damage>>
  BY <1>2, StartStep
<1>3. CASE CheckStep /\ UNCHANGED <<vars, overlapped, damage>>
  BY <1>3, ReadRowStep, CreditEventsStep, CompareCreditStep, BallotEventsStep, CountStep,
     CompareBallotStep, CheckpointsStep, TallyReadStep, PassStep DEF CheckStep
<1>4. CASE Damage
  BY <1>4, DamageStep
<1>5. CASE LosePoll
  BY <1>5, LosePollStep
<1>6. CASE UNCHANGED readyVars
  BY <1>6, ReadyStutter
<1> QED
  BY <1>1, <1>2, <1>3, <1>4, <1>5, <1>6 DEF ReadyNext

\* The invariant holds: what a running check has read and compared is so, and of damaged tables
\* some poll cannot pass.
THEOREM ReadyInvariant == ReadySpec => []ReadyInv
<1>1. ReadyInit => ReadyInv
  BY ReadyInvInit
<1>2. ReadyInv /\ [ReadyNext]_readyVars => ReadyInv'
  BY ReadyInvStep
<1> QED
  BY <1>1, <1>2, PTL DEF ReadySpec

\* A check no write overlapped does not fail over what the sequencer itself wrote: after a
\* clean stop the server starts again, whatever it had served.
THEOREM QuietChecksPass == ReadySpec => []QuietCheckPasses
<1>1. ReadyInv => QuietCheckPasses
  BY DEF ReadyInv
<1> QED
  BY <1>1, ReadyInvariant, PTL

\* Whichever one event, checkpoint, claim or tally of a poll is lost, or ballot, spent credential
\* or state altered, no check passes afterwards, for any number of polls and any logs.
THEOREM DamageIsAlwaysFound == ReadySpec => []DamageIsFound
<1>1. ReadyInv => DamageIsFound
  BY DEF ReadyInv
<1> QED
  BY <1>1, ReadyInvariant, PTL
==============================================================================
