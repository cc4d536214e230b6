----------------------------- MODULE AuditProofs -----------------------------
(***************************************************************************)
(* What TLAPS proves of exported records: one that verifies is a beginning   *)
(* of the log it was exported from and holds all of its ballots, and two     *)
(* histories of a poll are told apart, for any number of polls, ballots and  *)
(* edits.                                                                   *)
(***************************************************************************)
EXTENDS Backups, SequencerProofs

USE SequencerAssumption

------------------------------------------------------------------------------
(* A bundle that verifies *)

\* An event is its number, its two hashes and its record.
LEMMA SameEvent ==
  ASSUME NEW Record, NEW e \in Event(Record), NEW f \in Event(Record),
         e.sequence = f.sequence, e.previous = f.previous, e.hash = f.hash,
         e.artifact = f.artifact
  PROVE  e = f
BY DEF Event

\* The hash of an event commits to its record: two logs that replay and agree on the hashes up
\* to a position hold the same event there.
LEMMA HashCommits ==
  ASSUME NEW Record, NEW log \in Seq(Event(Record)), NEW other \in Seq(Event(Record)),
         Replays(log), Replays(other), NEW i \in DOMAIN log, i \in DOMAIN other,
         \A k \in 1..i : other[k].hash = log[k].hash
  PROVE  other[i] = log[i]
<1>1. i \in Nat /\ i >= 1
  OBVIOUS
<1>2. other[i].previous = log[i].previous
  <2>1. CASE i = 1
    BY <2>1 DEF Replays
  <2>2. CASE i # 1
    <3>1. i - 1 \in 1..i
      BY <1>1, <2>2
    <3>2. other[i - 1].hash = log[i - 1].hash
      BY <3>1
    <3>3. log[i].previous = log[i - 1].hash
      BY <2>2 DEF Replays
    <3>4. other[i].previous = other[i - 1].hash
      BY <2>2 DEF Replays
    <3> QED
      BY <3>2, <3>3, <3>4
  <2> QED
    BY <2>1, <2>2
<1>3. other[i] \in Event(Record) /\ log[i] \in Event(Record)
  OBVIOUS
<1>4. other[i].sequence = i /\ log[i].sequence = i
  BY DEF Replays
<1>5. other[i].artifact = log[i].artifact
  <2> DEFINE previous == log[i].previous
             mine == <<i, other[i].artifact>>
             theirs == <<i, log[i].artifact>>
  <2>1. Append(previous, mine) = Append(previous, theirs)
    <3>1. log[i].hash = EventHash(i, previous, log[i].artifact)
      BY <1>4 DEF Replays
    <3>2. other[i].hash = EventHash(i, previous, other[i].artifact)
      BY <1>2, <1>4 DEF Replays
    <3>3. other[i].hash = log[i].hash
      BY <1>1
    <3> QED
      BY <3>1, <3>2, <3>3 DEF EventHash
  <2>2. previous \in Seq(Nat \X Record)
    BY <1>3 DEF Event, Hash
  <2>3. other[i].artifact \in Record /\ log[i].artifact \in Record
    BY <1>3 DEF Event
  <2>4. mine \in Nat \X Record /\ theirs \in Nat \X Record
    BY <1>1, <2>3
  <2> HIDE DEF previous, mine, theirs
  <2>5. mine = theirs
    BY <2>1, <2>2, <2>4, AppendPositions
  <2> QED
    BY <2>5 DEF mine, theirs
<1>6. other[i].hash = log[i].hash
  BY <1>1
<1> QED
  BY <1>2, <1>3, <1>4, <1>5, <1>6, SameEvent

\* Every event of a verified bundle is signed by a checkpoint of the log, so it is the event the
\* log has at that position.
LEMMA VerifiedIsPrefix ==
  ASSUME TypeOK, ChainsIntact, NEW p \in Polls, NEW bundle,
         bundle.events \in Seq(Event(BallotRecord)), VerifyAudit(p, bundle),
         NEW i \in DOMAIN bundle.events
  PROVE  i \in DOMAIN ballotEvents[p] /\ bundle.events[i] = ballotEvents[p][i]
<1> DEFINE log == ballotEvents[p]
           events == bundle.events
<1>1. log \in Seq(Event(BallotRecord)) /\ events \in Seq(Event(BallotRecord))
  BY DEF TypeOK
<1>2. Replays(events) /\ Replays(log)
  BY DEF VerifyAudit, ChainsIntact
<1>3. ASSUME NEW k \in DOMAIN events
      PROVE  k \in DOMAIN log /\ events[k].hash = log[k].hash
  <2>1. /\ bundle.checkpoints[k] = CheckpointOf(events[k])
        /\ bundle.checkpoints[k] \in Seqs!ToSet(checkpoints[p])
    BY <1>3 DEF VerifyAudit, EventVerifies, SignedCheckpoint
  <2>2. PICK j \in DOMAIN log : bundle.checkpoints[k] = CheckpointOf(log[j])
    BY <2>1 DEF Seqs!ToSet, ChainsIntact
  <2>3. CheckpointOf(events[k]) = CheckpointOf(log[j])
    BY <2>1, <2>2
  <2>4. events[k].sequence = log[j].sequence /\ events[k].hash = log[j].hash
    BY <2>3 DEF CheckpointOf
  <2>5. events[k].sequence = k /\ log[j].sequence = j
    BY <1>2, <1>3 DEF Replays
  <2> QED
    BY <2>4, <2>5
<1>4. 1..i \subseteq DOMAIN events /\ i \in DOMAIN events
  BY <1>1
<1>5. i \in DOMAIN log /\ \A k \in 1..i : events[k].hash = log[k].hash
  BY <1>3, <1>4
<1> HIDE DEF events, log
<1>6. events[i] = log[i]
  BY <1>1, <1>2, <1>4, <1>5, HashCommits
<1> QED
  BY <1>5, <1>6 DEF events, log

\* A bundle that verifies carries the one tally of its poll, whose count leaves no ballot out.
LEMMA VerifiedHasBallots ==
  ASSUME TypeOK, ChainsIntact, AnswersStand, ResultsOfClosedPolls, TallyCountsLog,
         NEW p \in Polls, NEW bundle, bundle.events \in Seq(Event(BallotRecord)),
         VerifyAudit(p, bundle)
  PROVE  /\ bundle.tally = tallies[p]
         /\ Ballots(bundle.events) = Ballots(ballotEvents[p])
<1> DEFINE log == ballotEvents[p]
           events == bundle.events
           answer == [poll |-> p, tally |-> bundle.tally]
<1>1. answer \in results /\ answer.poll = p /\ answer.tally = bundle.tally
  BY DEF VerifyAudit, TallyVerifies, SignedTally
<1> HIDE DEF answer
<1>2. bundle.tally = tallies[p] /\ state[p] = "closed"
  BY <1>1 DEF AnswersStand, ResultsOfClosedPolls
<1>3. Cardinality(Ballots(events)) = Cardinality(Ballots(log))
  BY <1>2 DEF VerifyAudit, TallyCountsLog, TallyCounts
<1>4. Ballots(events) \subseteq Ballots(log)
  BY VerifiedIsPrefix DEF Ballots
<1>5. IsFiniteSet(Ballots(log))
  BY BallotsFinite DEF TypeOK
<1> QED
  BY <1>2, <1>3, <1>4, <1>5, FS_Subset

\* A tally that has for every choice the number of its ballots has one total per choice, and
\* the totals add up to the ballots: each pair of a total and a number up to it is numbered
\* after a ballot, one for one.
LEMMA TotalsAddUp ==
  ASSUME NEW p \in Polls, NEW S, NEW log \in Seq(S), NEW totals,
         totals = {[choice |-> ch, total |-> Cardinality(BallotsFor(log, ch))] :
                     ch \in ChoicesOf[p]},
         \A i \in Ballots(log) : log[i].artifact.choice \in ChoicesOf[p]
  PROVE  /\ {t.choice : t \in totals} = ChoicesOf[p]
         /\ Cardinality(totals) = Cardinality(ChoicesOf[p])
         /\ SumOf(totals) = Cardinality(Ballots(log))
<1> DEFINE C == ChoicesOf[p]
           Count(ch) == Cardinality(BallotsFor(log, ch))
           Total(ch) == [choice |-> ch, total |-> Count(ch)]
           Pairs == UNION {{t} \X (1..t.total) : t \in totals}
           order == [ch \in C |-> CHOOSE g : g \in Bijection(1..Count(ch), BallotsFor(log, ch))]
           F == [x \in Pairs |-> order[x[1].choice][x[2]]]
<1>1. /\ totals = {Total(ch) : ch \in C}
      /\ \A ch \in C : Total(ch).choice = ch /\ Total(ch).total = Count(ch)
  OBVIOUS
<1>2. {t.choice : t \in totals} = C
  <2> HIDE DEF Total
  <2> QED
    BY <1>1
<1>3. Cardinality(totals) = Cardinality(C)
  <2> DEFINE G == [ch \in C |-> Total(ch)]
  <2>1. G \in Bijection(C, totals)
    <3>1. G \in [C -> totals] /\ \A t \in totals : \E ch \in C : G[ch] = t
      <4> HIDE DEF Total
      <4> QED
        BY <1>1
    <3>2. \A a, b \in C : G[a] = G[b] => a = b
      BY <1>1
    <3> HIDE DEF G
    <3> QED
      BY <3>1, <3>2, Fun_IsBij
  <2>2. IsFiniteSet(C)
    BY AuditAssumption
  <2> HIDE DEF G, C
  <2> QED
    BY <2>1, <2>2, FS_Bijection DEF ExistsBijection
<1>4. IsFiniteSet(Ballots(log))
  BY BallotsFinite
<1>5. ASSUME NEW ch \in C
      PROVE  /\ \A k \in 1..Count(ch) : order[ch][k] \in BallotsFor(log, ch)
             /\ \A k, l \in 1..Count(ch) : order[ch][k] = order[ch][l] => k = l
             /\ \A i \in BallotsFor(log, ch) : \E k \in 1..Count(ch) : order[ch][k] = i
  <2> DEFINE g == order[ch]
             D == 1..Count(ch)
             B == BallotsFor(log, ch)
  <2>1. B \subseteq Ballots(log)
    BY DEF BallotsFor, Ballots
  <2>2. ExistsBijection(D, B)
    BY <1>4, <2>1, FS_Subset, FS_CardinalityType
  <2>3. g \in Bijection(D, B)
    BY <2>2 DEF ExistsBijection
  <2>4. /\ g \in [D -> B] /\ \A k, l \in D : g[k] = g[l] => k = l
        /\ \A i \in B : \E k \in D : g[k] = i
    <3> HIDE DEF g, D, B
    <3> QED
      BY <2>3, Fun_BijectionProperties
  <2> HIDE DEF order
  <2> QED
    BY <2>4
<1>6. ASSUME NEW x
      PROVE  x \in Pairs <=> \E ch \in C : \E k \in 1..Count(ch) : x = <<Total(ch), k>>
  <2>1. x \in Pairs <=> \E t \in totals : x \in {t} \X (1..t.total)
    OBVIOUS
  <2>2. x \in Pairs <=> \E t \in totals : \E k \in 1..t.total : x = <<t, k>>
    BY <2>1
  <2> HIDE DEF Total, Pairs
  <2> QED
    BY <1>1, <2>2
<1>7. ASSUME NEW ch \in C, NEW k \in 1..Count(ch)
      PROVE  /\ <<Total(ch), k>> \in Pairs /\ F[<<Total(ch), k>>] = order[ch][k]
             /\ order[ch][k] \in Ballots(log) /\ log[order[ch][k]].artifact.choice = ch
  <2>1. <<Total(ch), k>> \in Pairs
    BY <1>6
  <2>2. F[<<Total(ch), k>>] = order[ch][k]
    <3> HIDE DEF Pairs, order, Total
    <3> QED
      BY <1>1, <2>1
  <2>3. order[ch][k] \in BallotsFor(log, ch)
    BY <1>5
  <2> HIDE DEF order, Total, Pairs, F
  <2> QED
    BY <2>1, <2>2, <2>3 DEF BallotsFor, Ballots
<1>8. F \in Bijection(Pairs, Ballots(log))
  <2>1. F \in [Pairs -> Ballots(log)]
    <3>1. \A x \in Pairs : F[x] \in Ballots(log)
      <4> HIDE DEF Pairs, F, order, Total, Count
      <4> QED
        BY <1>6, <1>7
    <3> QED
      BY <3>1
  <2>2. ASSUME NEW x \in Pairs, NEW y \in Pairs, F[x] = F[y] PROVE x = y
    <3> HIDE DEF Pairs, F, order, Total, Count
    <3>1. PICK ch \in C : \E k \in 1..Count(ch) : x = <<Total(ch), k>>
      BY <1>6
    <3>2. PICK k \in 1..Count(ch) : x = <<Total(ch), k>>
      BY <3>1
    <3>3. PICK dh \in C : \E l \in 1..Count(dh) : y = <<Total(dh), l>>
      BY <1>6
    <3>4. PICK l \in 1..Count(dh) : y = <<Total(dh), l>>
      BY <3>3
    <3>5. ch = dh /\ order[ch][k] = order[dh][l]
      BY <1>7, <2>2, <3>2, <3>4
    <3>6. k = l
      BY <1>5, <3>5
    <3> QED
      BY <3>2, <3>4, <3>5, <3>6
  <2>3. ASSUME NEW i \in Ballots(log) PROVE \E x \in Pairs : F[x] = i
    <3> DEFINE ch == log[i].artifact.choice
    <3>1. ch \in C /\ i \in BallotsFor(log, ch)
      BY DEF Ballots, BallotsFor
    <3> HIDE DEF Pairs, F, order, Total, Count, ch
    <3>2. PICK k \in 1..Count(ch) : order[ch][k] = i
      BY <1>5, <3>1
    <3> QED
      BY <1>7, <3>1, <3>2, Zenon
  <2> HIDE DEF Pairs, F
  <2> QED
    BY <2>1, <2>2, <2>3, Fun_IsBij
<1>9. Cardinality(Pairs) = Cardinality(Ballots(log))
  <2>1. Inverse(F, Pairs, Ballots(log)) \in Bijection(Ballots(log), Pairs)
    <3> HIDE DEF F, Pairs
    <3> QED
      BY <1>8, Fun_BijInverse
  <2>2. ExistsBijection(Ballots(log), Pairs)
    <3> HIDE DEF F, Pairs
    <3> QED
      BY <2>1 DEF ExistsBijection
  <2> HIDE DEF Pairs
  <2> QED
    BY <1>4, <2>2, FS_Bijection
<1> QED
  BY <1>2, <1>3, <1>9 DEF SumOf

\* The tally of a closed poll was answered when the poll was closed, under the signature that is
\* stored with it.
TalliesSigned == \A p \in Polls : state[p] = "closed" => SignedTally(p, tallies[p])

\* What holds of the tables themselves, whoever has asked for what.
TablesOK ==
  /\ IInv /\ ClosesMatchLog /\ RowsFollow /\ LogsBegin /\ BallotsAreBacked
  /\ TallyCountsLog /\ TalliesSigned

\* What the tables of a closed poll hold, read whole, verifies.
LEMMA WholeRecordVerifies ==
  ASSUME TablesOK, NEW p \in Polls, state[p] = "closed", NEW bundle,
         bundle.events = ballotEvents[p], bundle.checkpoints = checkpoints[p],
         bundle.tally = tallies[p]
  PROVE  VerifyAudit(p, bundle)
<1> DEFINE log == ballotEvents[p]
<1>1. /\ log \in Seq(Event(BallotRecord)) /\ Replays(log)
      /\ checkpoints[p] = [i \in DOMAIN log |-> CheckpointOf(log[i])]
      /\ checkpoints[p] \in Seq(Checkpoint)
  BY DEF TablesOK, IInv, TypeOK, ChainsIntact
<1>2. TallyCounts(p, tallies[p], log)
  BY DEF TablesOK, TallyCountsLog
<1>3. TallyVerifies(p, bundle.tally)
  <2> DEFINE totals == tallies[p].totals
  <2>1. /\ totals = {[choice |-> ch, total |-> Cardinality(BallotsFor(log, ch))] :
                        ch \in ChoicesOf[p]}
        /\ \A i \in Ballots(log) : log[i].artifact.choice \in ChoicesOf[p]
        /\ tallies[p].count = Cardinality(Ballots(log))
    BY <1>2 DEF TallyCounts
  <2> HIDE DEF totals
  <2>2. /\ {t.choice : t \in totals} = ChoicesOf[p]
        /\ Cardinality(totals) = Cardinality(ChoicesOf[p])
        /\ SumOf(totals) = tallies[p].count
    BY <1>1, <2>1, TotalsAddUp
  <2>3. SignedTally(p, tallies[p])
    BY DEF TablesOK, TalliesSigned
  <2> QED
    BY <2>2, <2>3 DEF totals, TallyVerifies
<1>4. log # << >> /\ Len(log) = Len(checkpoints[p])
  <2>1. 1 \in DOMAIN log
    BY DEF TablesOK, IInv, TypeOK, LogsBegin
  <2> QED
    BY <1>1, <2>1
<1>5. ASSUME NEW i \in DOMAIN log PROVE EventVerifies(p, bundle, i)
  <2>1. /\ bundle.events = log /\ bundle.checkpoints[i] = CheckpointOf(log[i])
        /\ SignedCheckpoint(p, bundle.checkpoints[i])
    BY <1>1 DEF SignedCheckpoint, Seqs!ToSet
  <2>2. log[i].artifact.type = "poll_created" => i = 1
    BY DEF TablesOK, LogsBegin
  <2>3. log[i].artifact.type = "ballot_accepted" =>
          /\ ValidCredential(p, log[i].artifact.credential)
          /\ log[i].artifact.choice \in ChoicesOf[p]
          /\ SignedReceipt(p, ReceiptOf(p, log[i]))
    BY DEF TablesOK, BallotsAreBacked, SignedReceipt, Ballots
  <2>4. log[i].artifact.type = "poll_closed" =>
          i = Len(log) /\ log[i].artifact.tally = bundle.tally
    BY <1>2 DEF TablesOK, ClosesMatchLog, TallyCounts
  <2> HIDE DEF log
  <2> QED
    BY <2>1, <2>2, <2>3, <2>4 DEF EventVerifies
<1>6. CredentialsDiffer(log)
  BY DEF TablesOK, IInv, BallotsAreSpent, CredentialsDiffer
<1>7. /\ bundle.tally.count = Cardinality(Ballots(log))
      /\ \A t \in bundle.tally.totals : t.total = Cardinality(BallotsFor(log, t.choice))
  BY <1>2 DEF TallyCounts
<1> QED
  BY <1>1, <1>3, <1>4, <1>5, <1>6, <1>7 DEF VerifyAudit

------------------------------------------------------------------------------
(* The inductive invariant *)

\* The spent credentials of a poll and the ballots of its log lead to each other.
SpendsOK(rows, log) ==
  /\ \A c \in Credentials : rows[c] # 0 =>
       rows[c] \in Ballots(log) /\ log[rows[c]].artifact.credential = c
  /\ \A i \in Ballots(log) : rows[log[i].artifact.credential] = i

\* The rows of a database, running or copied, that TablesOK speaks of.
ContentsOK(db) ==
  /\ db.state \in [Polls -> {"absent", "open", "closed"}]
  /\ db.closedAt \in [Polls -> Times \cup {None}]
  /\ db.credits \in [Polls -> [Members -> Credit]]
  /\ db.creditEvents \in [Polls -> Seq(Event(CreditRecord))]
  /\ db.ballotEvents \in [Polls -> Seq(Event(BallotRecord))]
  /\ db.spent \in [Polls -> [Credentials -> Nat]]
  /\ db.checkpoints \in [Polls -> Seq(Checkpoint)]
  /\ db.tallies \in [Polls -> Tally \cup {None}]
  /\ \A p \in Polls :
       /\ SpendsOK(db.spent[p], db.ballotEvents[p])
       /\ db.state[p] = "closed" => db.tallies[p] \in Tally
       /\ Replays(db.creditEvents[p]) /\ Replays(db.ballotEvents[p])
       /\ db.checkpoints[p] =
            [i \in DOMAIN db.ballotEvents[p] |-> CheckpointOf(db.ballotEvents[p][i])]
       /\ db.state[p] = "closed" <=> HasClosed(db.ballotEvents[p])
       /\ \A i \in DOMAIN db.ballotEvents[p] :
            db.ballotEvents[p][i].artifact.type = "poll_closed" => i = Len(db.ballotEvents[p])
       /\ db.state[p] = "absent" => db.ballotEvents[p] = << >>
       /\ db.state[p] # "closed" => db.tallies[p] = None /\ db.closedAt[p] = None
       /\ db.state[p] # "absent" =>
            /\ 1 \in DOMAIN db.ballotEvents[p]
            /\ db.ballotEvents[p][1].artifact.type = "poll_created"
       /\ \A i \in DOMAIN db.ballotEvents[p] :
            db.ballotEvents[p][i].artifact.type = "poll_created" => i = 1
       /\ \A i \in Ballots(db.ballotEvents[p]) :
            db.ballotEvents[p][i].artifact.choice \in ChoicesOf[p]
       /\ db.state[p] = "closed" =>
            /\ TallyCounts(p, db.tallies[p], db.ballotEvents[p])
            /\ db.tallies[p].closedAt = db.closedAt[p]

\* The signatures its ballots and tallies rest on, which the sequencer has given.
SignaturesOK(db) ==
  \A p \in Polls :
    /\ \A i \in Ballots(db.ballotEvents[p]) :
         ValidCredential(p, db.ballotEvents[p][i].artifact.credential)
    /\ db.state[p] = "closed" => SignedTally(p, db.tallies[p])

\* A database that is running, or was copied, holds what TablesOK says of the tables: this is
\* what makes it safe to go on from a copy.  The signatures behind it stay valid.
DatabaseOK(db) == ContentsOK(db) /\ SignaturesOK(db)

Exporting == export.at \in {"events", "checkpoints", "result", "exported"}
HasEvents == export.at \in {"checkpoints", "result", "exported"}
HasCheckpoints == export.at \in {"result", "exported"}

\* An export is of a closed poll, whose log does not change while it is read; only a finished
\* one is edited, and edits leave a sequence of events of the right form.
ExportOK ==
  /\ Exporting => export.poll \in Polls /\ state[export.poll] = "closed"
  /\ HasEvents => export.events \in Seq(Event(BallotRecord))
  /\ HasEvents /\ edits = 0 => export.events = ballotEvents[export.poll]
  /\ HasCheckpoints /\ edits = 0 => export.checkpoints = checkpoints[export.poll]
  /\ export.at # "failed"
  /\ export.at = "exported" /\ edits = 0 => export.tally = tallies[export.poll]
  /\ export.at = "exported" =>
       DOMAIN export = {"at", "poll", "events", "checkpoints", "tally"}
  /\ edits \in Nat /\ (edits # 0 => export.at = "exported")

\* Answers are about the history that has been running since they were given.
AnswersOK == ~restored => AnswersStand /\ ResultsOfClosedPolls

\* A record that was kept is a whole log: it replays, is signed event by event and ends with
\* the only event that closes it.
KeptOK ==
  /\ kept.events \in Seq(Event(BallotRecord)) /\ Replays(kept.events)
  /\ kept.checkpoints = [i \in DOMAIN kept.events |-> CheckpointOf(kept.events[i])]
  /\ HasClosed(kept.events)
  /\ \A i \in DOMAIN kept.events :
       kept.events[i].artifact.type = "poll_closed" => i = Len(kept.events)

CopyOK ==
  /\ backup # None => DatabaseOK(backup) /\ edits = 0
  /\ restored => backup # None
  /\ kept # None => KeptOK /\ backup # None

BackupInv == TablesOK /\ ExportOK /\ AnswersOK /\ CopyOK

------------------------------------------------------------------------------
(* The invariant is preserved *)

\* Nothing is exported, copied or kept.
LEMMA BackupInvInit == BackupInit => BackupInv
<1> SUFFICES ASSUME BackupInit PROVE BackupInv
  OBVIOUS
<1>1. Init /\ export = Idle /\ edits = 0 /\ backup = None /\ restored = FALSE /\ kept = None
  BY DEF BackupInit, ReplayInit
<1>2. TablesOK
  <2>1. IInv /\ ClosesMatchLog /\ RowsFollow /\ LogsBegin /\ BallotsAreBacked
    BY <1>1, InitInvariant, RecordInvInit DEF RecordInv
  <2>2. TallyCountsLog /\ TalliesSigned
    BY <1>1 DEF Init, TallyCountsLog, TalliesSigned
  <2> QED
    BY <2>1, <2>2 DEF TablesOK
<1>3. ExportOK
  BY <1>1 DEF ExportOK, Exporting, HasEvents, HasCheckpoints, Idle
<1>4. AnswersOK
  BY <1>1 DEF AnswersOK, Init, AnswersStand, ResultsOfClosedPolls
<1>5. CopyOK
  BY <1>1 DEF CopyOK
<1> QED
  BY <1>2, <1>3, <1>4, <1>5 DEF BackupInv

\* A poll gets its tally in the step that closes it, and no answer is taken back.
LEMMA TalliesSignedStep ==
  ASSUME IInv, TalliesSigned, [Next]_vars
  PROVE  TalliesSigned'
<1> SUFFICES ASSUME NEW p \in Polls, state'[p] = "closed"
             PROVE  [poll |-> p, tally |-> tallies'[p]] \in results'
  BY DEF TalliesSigned, SignedTally
<1>1. CASE state[p] = "closed"
  <2>1. tallies'[p] = tallies[p]
    BY <1>1, HistoryStep DEF IInv, RecordStands, ClosedStays
  <2>2. [poll |-> p, tally |-> tallies[p]] \in results
    BY <1>1 DEF TalliesSigned, SignedTally
  <2> QED
    BY <2>1, <2>2, AnswersGrow
<1>2. CASE state[p] # "closed"
  <2>1. ASSUME NEW q \in Polls, CreatePoll(q) PROVE state'[p] # "closed"
    BY <1>2, <2>1 DEF CreatePoll, IInv, TypeOK
  <2>2. ASSUME NEW q \in Polls, ClosePoll(q)
        PROVE  [poll |-> p, tally |-> tallies'[p]] \in results'
    <3>1. q = p
      BY <1>2, <2>2 DEF ClosePoll, IInv, TypeOK
    <3> DEFINE tally == TallyOf(p)
    <3>2. /\ tallies' = [tallies EXCEPT ![p] = tally]
          /\ results' = results \cup {[poll |-> p, tally |-> tally]}
      BY <2>2, <3>1 DEF ClosePoll
    <3> HIDE DEF tally
    <3>3. tallies'[p] = tally
      BY <3>2 DEF IInv, TypeOK
    <3> QED
      BY <3>2, <3>3
  <2>3. ASSUME NEW q \in Polls, NEW c \in Credentials, NEW ch \in Choices, Vote(q, c, ch)
        PROVE  state' = state
    BY <2>3 DEF Vote
  <2> QED
    BY <1>2, <2>1, <2>2, <2>3, BallotWriters
<1> QED
  BY <1>1, <1>2

\* What the sequencer does keeps its own invariants, whether or not it goes on from a copy.
LEMMA TablesStep ==
  ASSUME TablesOK, [Next]_vars
  PROVE  TablesOK'
<1>1. IInv'
  BY NextInvariant DEF TablesOK
<1>2. ClosesMatchLog' /\ RowsFollow' /\ LogsBegin' /\ BallotsAreBacked'
  BY ClosesMatchLogStep, RowsFollowStep, LogsBeginStep, BallotsAreBackedStep DEF TablesOK, IInv
<1>3. TallyCountsLog' /\ TalliesSigned'
  BY TallyStep, TalliesSignedStep DEF TablesOK, IInv
<1> QED
  BY <1>1, <1>2, <1>3 DEF TablesOK

\* So does what it has answered, until it goes on from a copy.
LEMMA SequencerKeeps ==
  ASSUME BackupInv, [Next]_vars, restored' = restored
  PROVE  TablesOK' /\ AnswersOK'
<1>1. TablesOK'
  BY TablesStep DEF BackupInv
<1>2. AnswersOK'
  <2> SUFFICES ASSUME ~restored PROVE AnswersStand' /\ ResultsOfClosedPolls'
    BY DEF AnswersOK
  <2> QED
    BY AnswersStep DEF BackupInv, AnswersOK, TablesOK
<1> QED
  BY <1>1, <1>2

\* A copy stays what it was, and what was signed for it stays signed.
LEMMA CopyStays ==
  ASSUME backup' # None => DatabaseOK(backup'),
         issued \subseteq issued', results \subseteq results'
  PROVE  (backup # None => DatabaseOK(backup))'
<1> SUFFICES ASSUME backup' # None PROVE DatabaseOK(backup)'
  OBVIOUS
<1>1. DatabaseOK(backup')
  OBVIOUS
<1>2. ASSUME NEW p \in Polls, NEW i \in Ballots(backup'.ballotEvents[p])
      PROVE  ValidCredential(p, backup.ballotEvents[p][i].artifact.credential)'
  <2>1. ValidCredential(p, backup'.ballotEvents[p][i].artifact.credential)
    BY <1>1, <1>2 DEF DatabaseOK, SignaturesOK
  <2> QED
    BY <2>1 DEF ValidCredential
<1>3. ASSUME NEW p \in Polls, backup'.state[p] = "closed" PROVE SignedTally(p, backup.tallies[p])'
  <2>1. SignedTally(p, backup'.tallies[p])
    BY <1>1, <1>3 DEF DatabaseOK, SignaturesOK
  <2> QED
    BY <2>1 DEF SignedTally
<1>4. SignaturesOK(backup)'
  BY <1>2, <1>3 DEF SignaturesOK, Ballots
<1>5. ContentsOK(backup')
  BY <1>1 DEF DatabaseOK
<1> QED
  BY <1>4, <1>5 DEF DatabaseOK

\* The log of a closed poll does not change under an export.
LEMMA SequencerStep ==
  ASSUME BackupInv, [Next]_vars, UNCHANGED <<exportVars, backup, restored, kept>>
  PROVE  BackupInv'
<1>1. TablesOK' /\ AnswersOK'
  BY SequencerKeeps
<1>2. export' = export /\ edits' = edits
  BY DEF exportVars
<1>3. ExportOK'
  <2>1. ASSUME Exporting
        PROVE  /\ state'[export.poll] = "closed"
               /\ ballotEvents'[export.poll] = ballotEvents[export.poll]
               /\ checkpoints'[export.poll] = checkpoints[export.poll]
               /\ tallies'[export.poll] = tallies[export.poll]
    <3> DEFINE p == export.poll
    <3>1. p \in Polls /\ state[p] = "closed"
      BY <2>1 DEF BackupInv, ExportOK
    <3>2. /\ state'[p] = state[p] /\ ballotEvents'[p] = ballotEvents[p]
          /\ tallies'[p] = tallies[p]
      BY <3>1, HistoryStep DEF BackupInv, TablesOK, IInv, RecordStands, ClosedStays
    <3>3. /\ checkpoints[p] = [i \in DOMAIN ballotEvents[p] |-> CheckpointOf(ballotEvents[p][i])]
          /\ checkpoints'[p] =
               [i \in DOMAIN ballotEvents'[p] |-> CheckpointOf(ballotEvents'[p][i])]
      BY <1>1, <3>1 DEF BackupInv, TablesOK, IInv, ChainsIntact
    <3> QED
      BY <3>1, <3>2, <3>3
  <2> QED
    BY <1>2, <2>1 DEF BackupInv, ExportOK, Exporting, HasEvents, HasCheckpoints
<1>4. CopyOK'
  BY <1>2, AnswersGrow, CopyStays DEF BackupInv, CopyOK, KeptOK
<1> QED
  BY <1>1, <1>3, <1>4 DEF BackupInv

\* An export or an edit concerns the exported record alone.
LEMMA ExportAlone ==
  ASSUME BackupInv, UNCHANGED <<vars, backup, restored, kept>>, ExportOK',
         backup # None => edits' = 0
  PROVE  BackupInv'
<1>1. TablesOK' /\ AnswersOK'
  BY SequencerKeeps
<1>2. CopyOK'
  BY AnswersGrow, CopyStays DEF BackupInv, CopyOK, KeptOK
<1> QED
  BY <1>1, <1>2 DEF BackupInv

\* The four queries of an export read the log of one closed poll.
LEMMA ExportStep ==
  ASSUME BackupInv, UNCHANGED <<vars, edits>>,
         (\E p \in Polls : StartExport(p)) \/ ReadEvents \/ ReadCheckpoints \/ ReadResult
  PROVE  ExportOK'
<1>1. TypeOK /\ ExportOK
  BY DEF BackupInv, TablesOK, IInv
<1>2. /\ state' = state /\ ballotEvents' = ballotEvents /\ checkpoints' = checkpoints
      /\ tallies' = tallies /\ edits' = edits
  BY DEF vars, tables
<1>3. ASSUME NEW p \in Polls, StartExport(p) PROVE ExportOK'
  <2>1. export.at = "idle" /\ state[p] = "closed" /\ export' = [at |-> "events", poll |-> p]
    BY <1>3 DEF StartExport, Idle
  <2>2. export'.at = "events" /\ export'.poll = p
    BY <2>1
  <2> QED
    BY <1>1, <1>2, <2>1, <2>2 DEF ExportOK, Exporting, HasEvents, HasCheckpoints
<1>4. CASE ReadEvents
  <2>1. /\ export.at = "events" /\ export'.at = "checkpoints" /\ export'.poll = export.poll
        /\ export'.events = ballotEvents[export.poll]
    BY <1>4 DEF ReadEvents
  <2>2. export.poll \in Polls /\ ballotEvents[export.poll] \in Seq(Event(BallotRecord))
    BY <1>1, <2>1 DEF ExportOK, Exporting, TypeOK
  <2> QED
    BY <1>1, <1>2, <2>1, <2>2 DEF ExportOK, Exporting, HasEvents, HasCheckpoints
<1>5. CASE ReadCheckpoints
  <2>1. /\ export.at = "checkpoints" /\ export'.at = "result" /\ export'.poll = export.poll
        /\ export'.events = export.events
        /\ export'.checkpoints = checkpoints[export.poll]
    BY <1>5 DEF ReadCheckpoints
  <2> QED
    BY <1>1, <1>2, <2>1 DEF ExportOK, Exporting, HasEvents, HasCheckpoints
<1>6. CASE ReadResult
  <2> DEFINE p == export.poll
  <2>1. export.at = "result" /\ p \in Polls /\ state[p] = "closed"
    BY <1>1, <1>6 DEF ReadResult, ExportOK, Exporting
  <2>2. TallyVerifies(p, tallies[p])
    <3> DEFINE bundle == [events |-> ballotEvents[p], checkpoints |-> checkpoints[p],
                          tally |-> tallies[p]]
    <3>1. /\ bundle.events = ballotEvents[p] /\ bundle.checkpoints = checkpoints[p]
          /\ bundle.tally = tallies[p]
      OBVIOUS
    <3> HIDE DEF bundle
    <3>2. VerifyAudit(p, bundle)
      BY <2>1, <3>1, WholeRecordVerifies DEF BackupInv
    <3> QED
      BY <3>1, <3>2 DEF VerifyAudit
  <2>3. /\ export'.at = "exported" /\ export'.poll = export.poll
        /\ export'.events = export.events /\ export'.checkpoints = export.checkpoints
        /\ export'.tally = tallies[export.poll]
        /\ DOMAIN export' = {"at", "poll", "events", "checkpoints", "tally"}
    BY <1>6, <2>1, <2>2 DEF ReadResult
  <2> QED
    BY <1>1, <1>2, <2>1, <2>3 DEF ExportOK, Exporting, HasEvents, HasCheckpoints
<1> QED
  BY <1>3, <1>4, <1>5, <1>6

\* An edit leaves a sequence of events.
LEMMA EditStep ==
  ASSUME BackupInv, UNCHANGED vars, Edit
  PROVE  ExportOK'
<1> DEFINE S == Event(BallotRecord)
           events == export.events
<1>1. ExportOK /\ export.at = "exported" /\ edits' = edits + 1
  BY DEF BackupInv, Edit
<1>2. /\ DOMAIN export = {"at", "poll", "events", "checkpoints", "tally"}
      /\ export.poll \in Polls /\ state[export.poll] = "closed" /\ state' = state
      /\ edits \in Nat /\ edits' # 0
  BY <1>1 DEF ExportOK, Exporting, vars, tables
<1>3. events \in Seq(S)
  BY <1>1 DEF ExportOK, HasEvents
<1>4. ASSUME export'.at = "exported", export'.poll = export.poll, export'.events \in Seq(S),
             DOMAIN export' = DOMAIN export
      PROVE  ExportOK'
  BY <1>1, <1>2, <1>4 DEF ExportOK, Exporting, HasEvents, HasCheckpoints
<1>5. ASSUME NEW longer \in Seq(S), NEW signed,
             export' = [export EXCEPT !.events = longer, !.checkpoints = signed]
      PROVE  ExportOK'
  BY <1>1, <1>2, <1>4, <1>5
<1>6. ASSUME NEW i \in DOMAIN events, RemoveEvent(i) PROVE ExportOK'
  <2>1. Seqs!RemoveAt(events, i) \in Seq(S)
    BY <1>3 DEF Seqs!RemoveAt
  <2> QED
    BY <1>5, <1>6, <2>1 DEF RemoveEvent
<1>7. ASSUME NEW i \in DOMAIN events, RepeatEvent(i) PROVE ExportOK'
  <2>1. Seqs!InsertAt(events, i, events[i]) \in Seq(S)
    BY <1>3 DEF Seqs!InsertAt
  <2> QED
    BY <1>5, <1>7, <2>1 DEF RepeatEvent
<1>8. ASSUME NEW i \in DOMAIN events, NEW j \in DOMAIN events, SwapEvents(i, j) PROVE ExportOK'
  <2>1. [events EXCEPT ![i] = events[j], ![j] = events[i]] \in Seq(S)
    BY <1>3
  <2> QED
    BY <1>5, <1>8, <2>1 DEF SwapEvents
<1>9. ASSUME NEW i \in DOMAIN events, NEW ch \in Choices, ChangeChoice(i, ch) PROVE ExportOK'
  <2> DEFINE record == [events[i].artifact EXCEPT !.choice = ch]
             event == [events[i] EXCEPT !.artifact = record]
             changed == [events EXCEPT ![i] = event]
  <2>1. events[i] \in S /\ events[i].artifact \in BallotRecord
    <3>1. events[i] \in S
      BY <1>3
    <3> QED
      BY <3>1 DEF Event
  <2>2. events[i].artifact.type = "ballot_accepted"
    BY <1>9 DEF ChangeChoice, Ballots
  <2>3. record \in BallotRecord
    BY <2>1, <2>2 DEF BallotRecord
  <2>4. event \in S
    BY <2>1, <2>3 DEF Event
  <2>5. changed \in Seq(S)
    BY <1>3, <2>4
  <2>6. export' = [export EXCEPT !.events = changed]
    BY <1>9 DEF ChangeChoice
  <2> QED
    BY <1>1, <1>2, <1>4, <2>5, <2>6
<1>10. CASE Rechain
  <2> DEFINE HashUpTo(n) == [k \in 1..n |-> <<k, events[k].artifact>>]
             event(i) == [sequence |-> i, previous |-> HashUpTo(i - 1), hash |-> HashUpTo(i),
                          artifact |-> events[i].artifact]
             changed == [i \in DOMAIN events |-> event(i)]
  <2>1. \A k \in DOMAIN events : events[k].artifact \in BallotRecord
    <3>1. \A k \in DOMAIN events : events[k] \in S
      BY <1>3
    <3> QED
      BY <3>1 DEF Event
  <2>2. DOMAIN events = 1..Len(events) /\ Len(events) \in Nat
    BY <1>3
  <2>3. \A n \in 0..Len(events) : HashUpTo(n) \in Hash(BallotRecord)
    <3> SUFFICES ASSUME NEW n \in 0..Len(events) PROVE HashUpTo(n) \in Seq(Nat \X BallotRecord)
      BY DEF Hash
    <3>1. n \in Nat /\ \A k \in 1..n : <<k, events[k].artifact>> \in Nat \X BallotRecord
      BY <2>1, <2>2
    <3> QED
      BY <3>1
  <2>4. \A i \in DOMAIN events : event(i) \in S
    <3> SUFFICES ASSUME NEW i \in DOMAIN events PROVE event(i) \in S
      OBVIOUS
    <3>1. i \in Nat /\ i - 1 \in 0..Len(events) /\ i \in 0..Len(events)
      BY <2>2
    <3>2. HashUpTo(i - 1) \in Hash(BallotRecord) /\ HashUpTo(i) \in Hash(BallotRecord)
      BY <2>3, <3>1
    <3> HIDE DEF HashUpTo
    <3> QED
      BY <2>1, <3>1, <3>2 DEF Event
  <2>5. changed \in Seq(S)
    <3> HIDE DEF event
    <3> QED
      BY <2>2, <2>4
  <2>6. \E signed : export' = [export EXCEPT !.events = changed, !.checkpoints = signed]
    BY <1>10, Zenon DEF Rechain
  <2> QED
    BY <1>5, <2>5, <2>6, Zenon
<1> QED
  BY <1>6, <1>7, <1>8, <1>9, <1>10 DEF Edit

\* What TablesOK says of the tables is what DatabaseOK says of a copy of them.
LEMMA CopyIsOK == TablesOK => DatabaseOK(Database)
<1> SUFFICES ASSUME TablesOK PROVE DatabaseOK(Database)
  OBVIOUS
<1> DEFINE db == Database
<1>1. /\ db.state = state /\ db.closedAt = closedAt /\ db.credits = credits
      /\ db.creditEvents = creditEvents /\ db.ballotEvents = ballotEvents /\ db.spent = spent
      /\ db.checkpoints = checkpoints /\ db.tallies = tallies
  BY DEF Database
<1> HIDE DEF db
<1>2. TypeOK
  BY DEF TablesOK, IInv
<1>3. \A p \in Polls :
        /\ SpendsOK(spent[p], ballotEvents[p])
        /\ state[p] = "closed" => tallies[p] \in Tally
        /\ Replays(creditEvents[p]) /\ Replays(ballotEvents[p])
        /\ checkpoints[p] = [i \in DOMAIN ballotEvents[p] |-> CheckpointOf(ballotEvents[p][i])]
  BY DEF TablesOK, IInv, SpentPointsToBallot, BallotsAreSpent, IsSpent, ClosedHasTally,
         ChainsIntact, SpendsOK
<1>4. DatabaseOK(db)
  BY <1>1, <1>2, <1>3
     DEF DatabaseOK, ContentsOK, SignaturesOK, TypeOK, TablesOK, ClosesMatchLog, RowsFollow, LogsBegin,
                          BallotsAreBacked, TallyCountsLog, TalliesSigned
<1> QED
  BY <1>4 DEF db

\* A sequencer that goes on from a copy finds tables that satisfy its invariant.
LEMMA RestoreStep ==
  ASSUME BackupInv, Restore
  PROVE  BackupInv'
<1>1. /\ state' = backup.state /\ closedAt' = backup.closedAt /\ credits' = backup.credits
      /\ creditEvents' = backup.creditEvents /\ ballotEvents' = backup.ballotEvents
      /\ spent' = backup.spent /\ checkpoints' = backup.checkpoints
      /\ tallies' = backup.tallies
      /\ now' = now /\ issued' = issued /\ receipts' = receipts /\ results' = results
      /\ backup # None /\ restored' = TRUE /\ export' = Idle /\ edits' = 0
      /\ backup' = backup /\ kept' = kept
  BY DEF Restore, answers
<1>2. DatabaseOK(backup)
  BY <1>1 DEF BackupInv, CopyOK
<1>3. \A p \in Polls : SpendsOK(backup.spent[p], backup.ballotEvents[p])
  BY <1>2 DEF DatabaseOK, ContentsOK, SignaturesOK
<1>4. TypeOK'
  BY <1>1, <1>2 DEF BackupInv, TablesOK, IInv, TypeOK, DatabaseOK, ContentsOK
<1>5. IInv'
  <2>1. SpentPointsToBallot'
    BY <1>1, <1>3 DEF SpentPointsToBallot, IsSpent, SpendsOK
  <2>2. ChainsIntact'
    <3>1. \A p \in Polls : Replays(backup.creditEvents[p]) /\ Replays(backup.ballotEvents[p])
      BY <1>2 DEF DatabaseOK, ContentsOK, SignaturesOK
    <3>2. \A p \in Polls : backup.checkpoints[p] =
            [i \in DOMAIN backup.ballotEvents[p] |-> CheckpointOf(backup.ballotEvents[p][i])]
      BY <1>2 DEF DatabaseOK, ContentsOK, SignaturesOK
    <3> QED
      BY <1>1, <3>1, <3>2 DEF ChainsIntact
  <2>3. BallotsAreSpent'
    BY <1>1, <1>3 DEF BallotsAreSpent, SpendsOK
  <2>4. ClosedHasTally'
    BY <1>1, <1>2 DEF DatabaseOK, ContentsOK, ClosedHasTally
  <2> QED
    BY <1>4, <2>1, <2>2, <2>3, <2>4 DEF IInv
<1>6. ClosesMatchLog' /\ RowsFollow' /\ LogsBegin'
  BY <1>1, <1>2 DEF DatabaseOK, ContentsOK, SignaturesOK, ClosesMatchLog, RowsFollow, LogsBegin
<1>7. BallotsAreBacked'
  <2>1. \A p \in Polls : \A i \in Ballots(backup.ballotEvents[p]) :
          /\ ValidCredential(p, backup.ballotEvents[p][i].artifact.credential)
          /\ backup.ballotEvents[p][i].artifact.choice \in ChoicesOf[p]
    BY <1>2 DEF DatabaseOK, ContentsOK, SignaturesOK
  <2> QED
    BY <1>1, <2>1 DEF BallotsAreBacked, ValidCredential
<1>8. TallyCountsLog' /\ TalliesSigned'
  <2>1. \A p \in Polls : backup.state[p] = "closed" =>
          /\ TallyCounts(p, backup.tallies[p], backup.ballotEvents[p])
          /\ backup.tallies[p].closedAt = backup.closedAt[p]
          /\ SignedTally(p, backup.tallies[p])
    BY <1>2 DEF DatabaseOK, ContentsOK, SignaturesOK
  <2> QED
    BY <1>1, <2>1 DEF TallyCountsLog, TalliesSigned, SignedTally
<1>9. ExportOK'
  BY <1>1 DEF ExportOK, Exporting, HasEvents, HasCheckpoints, Idle
<1>10. AnswersOK'
  BY <1>1 DEF AnswersOK
<1>11. CopyOK'
  BY <1>1, CopyStays DEF BackupInv, CopyOK, KeptOK
<1> QED
  BY <1>5, <1>6, <1>7, <1>8, <1>9, <1>10, <1>11 DEF BackupInv, TablesOK

\* The copy is taken of a running sequencer; what it did before is not in question.
LEMMA BackUpStep ==
  ASSUME BackupInv, BackUp
  PROVE  BackupInv'
<1>1. /\ UNCHANGED vars /\ export' = export /\ edits' = edits /\ edits = 0
      /\ restored' = restored /\ kept' = kept /\ backup = None /\ backup' = Database
  BY DEF BackUp, replayVars, exportVars
<1>2. TablesOK' /\ AnswersOK'
  BY <1>1, SequencerKeeps
<1>3. ExportOK'
  BY <1>1 DEF BackupInv, ExportOK, Exporting, HasEvents, HasCheckpoints, vars, tables
<1>4. DatabaseOK(backup')
  BY <1>1, CopyIsOK DEF BackupInv
<1>5. CopyOK'
  BY <1>1, <1>4, AnswersGrow, CopyStays DEF BackupInv, CopyOK, KeptOK
<1> QED
  BY <1>2, <1>3, <1>5 DEF BackupInv

\* What is kept is the whole log of a closed poll.
LEMMA KeepStep ==
  ASSUME BackupInv, Keep
  PROVE  BackupInv'
<1> DEFINE p == export.poll
<1>1. /\ UNCHANGED vars /\ export' = export /\ edits' = edits /\ edits = 0
      /\ restored' = restored /\ kept' = export /\ backup # None /\ backup' = backup
      /\ export.at = "exported"
  BY DEF Keep, replayVars, exportVars
<1>2. TablesOK' /\ AnswersOK'
  BY <1>1, SequencerKeeps
<1>3. ExportOK'
  BY <1>1 DEF BackupInv, ExportOK, Exporting, HasEvents, HasCheckpoints, vars, tables
<1>4. /\ p \in Polls /\ state[p] = "closed" /\ export.events = ballotEvents[p]
      /\ export.checkpoints = checkpoints[p]
  BY <1>1 DEF BackupInv, ExportOK, Exporting, HasEvents, HasCheckpoints
<1>5. KeptOK'
  <2>1. /\ ballotEvents[p] \in Seq(Event(BallotRecord)) /\ Replays(ballotEvents[p])
        /\ checkpoints[p] = [i \in DOMAIN ballotEvents[p] |-> CheckpointOf(ballotEvents[p][i])]
    BY <1>4 DEF BackupInv, TablesOK, IInv, TypeOK, ChainsIntact
  <2>2. /\ HasClosed(ballotEvents[p])
        /\ \A i \in DOMAIN ballotEvents[p] :
             ballotEvents[p][i].artifact.type = "poll_closed" => i = Len(ballotEvents[p])
    BY <1>4 DEF BackupInv, TablesOK, ClosesMatchLog
  <2>3. kept'.events = ballotEvents[p] /\ kept'.checkpoints = checkpoints[p]
    BY <1>1, <1>4
  <2> HIDE DEF p
  <2> QED
    BY <2>1, <2>2, <2>3 DEF KeptOK
<1>6. CopyOK'
  BY <1>1, <1>5, AnswersGrow, CopyStays DEF BackupInv, CopyOK
<1> QED
  BY <1>2, <1>3, <1>6 DEF BackupInv

\* One step per kind of step.
LEMMA BackupInvStep == BackupInv /\ [BackupNext]_backupVars => BackupInv'
<1> SUFFICES ASSUME BackupInv, [BackupNext]_backupVars PROVE BackupInv'
  OBVIOUS
<1>1. ASSUME ReplayNext, backup # None => edits' = 0, UNCHANGED <<backup, restored, kept>>
      PROVE  BackupInv'
  <2>1. CASE Next /\ UNCHANGED exportVars
    BY <1>1, <2>1, SequencerStep
  <2>2. CASE /\ (\E p \in Polls : StartExport(p)) \/ ReadEvents \/ ReadCheckpoints \/ ReadResult
             /\ UNCHANGED <<vars, edits>>
    <3>1. ExportOK'
      BY <2>2, ExportStep
    <3> QED
      BY <1>1, <2>2, <3>1, ExportAlone
  <2>3. CASE Forget /\ edits' = 0 /\ UNCHANGED vars
    <3>1. ExportOK'
      BY <2>3 DEF Forget, Idle, ExportOK, Exporting, HasEvents, HasCheckpoints
    <3> QED
      BY <1>1, <2>3, <3>1, ExportAlone
  <2>4. CASE Edit /\ UNCHANGED vars
    <3>1. ExportOK'
      BY <2>4, EditStep
    <3> QED
      BY <1>1, <2>4, <3>1, ExportAlone
  <2> QED
    BY <1>1, <2>1, <2>2, <2>3, <2>4 DEF ReplayNext
<1>2. CASE UNCHANGED backupVars
  BY <1>2, SequencerStep DEF backupVars, replayVars
<1> QED
  BY <1>1, <1>2, BackUpStep, RestoreStep, KeepStep DEF BackupNext

\* What every state satisfies in which the database was copied, restored or neither.
THEOREM BackupInvariant == BackupSpec => []BackupInv
BY BackupInvInit, BackupInvStep, PTL DEF BackupSpec

------------------------------------------------------------------------------
(* The properties *)

\* An export never fails, and what it collects over four queries verifies, whatever the sequencer
\* did between them: the log and the tally of a closed poll stand still.
THEOREM ExportsVerify == BackupSpec => []ExportVerifies
<1>1. BackupInv => ExportVerifies
  <2> SUFFICES ASSUME BackupInv, export.at = "exported", edits = 0
               PROVE  VerifyAudit(export.poll, export)
    BY DEF BackupInv, ExportOK, ExportVerifies
  <2>1. /\ export.poll \in Polls /\ state[export.poll] = "closed"
        /\ export.events = ballotEvents[export.poll]
        /\ export.checkpoints = checkpoints[export.poll] /\ export.tally = tallies[export.poll]
    BY DEF BackupInv, ExportOK, Exporting, HasEvents, HasCheckpoints
  <2> QED
    BY <2>1, WholeRecordVerifies DEF BackupInv
<1> QED
  BY <1>1, BackupInvariant, PTL

\* Replay rejects a ballot removed, reordered, duplicated or modified, whatever else was done to
\* the record: what verifies has the ballots of the log, each where it is in the log.
THEOREM EditsAreRejected == BackupSpec => []ReplayRejectsEdits
<1>1. BackupInv => ReplayRejectsEdits
  <2> SUFFICES ASSUME BackupInv, export.at = "exported", VerifyAudit(export.poll, export)
               PROVE  BallotsIn(export.events) = BallotsIn(ballotEvents[export.poll])
    BY DEF ReplayRejectsEdits
  <2>1. export.poll \in Polls /\ export.events \in Seq(Event(BallotRecord))
    BY DEF BackupInv, ExportOK, Exporting, HasEvents
  <2>2. CASE ~restored
    <3>1. /\ TypeOK /\ ChainsIntact /\ AnswersStand /\ ResultsOfClosedPolls /\ TallyCountsLog
      BY <2>2 DEF BackupInv, TablesOK, IInv, AnswersOK
    <3>2. Ballots(export.events) = Ballots(ballotEvents[export.poll])
      BY <2>1, <3>1, VerifiedHasBallots
    <3>3. \A i \in Ballots(export.events) : export.events[i] = ballotEvents[export.poll][i]
      BY <2>1, <3>1, VerifiedIsPrefix DEF Ballots
    <3> QED
      BY <3>2, <3>3 DEF BallotsIn
  <2>3. CASE restored
    BY <2>3 DEF BackupInv, CopyOK, ExportOK, HasEvents
  <2> QED
    BY <2>2, <2>3
<1> QED
  BY <1>1, BackupInvariant, PTL

\* As long as no backup was restored, every receipt ever given is found in any record that
\* verifies, and every result ever given is the one the record proves.
THEOREM ReceiptsAreFound == BackupSpec => []ReceiptsSurvive
<1>1. BackupInv => ReceiptsSurvive
  <2> SUFFICES ASSUME BackupInv, ~restored, export.at = "exported",
                      VerifyAudit(export.poll, export)
               PROVE  /\ \A r \in receipts : r.poll = export.poll =>
                           \E i \in Ballots(export.events) :
                             ReceiptOf(export.poll, export.events[i]) = r
                      /\ \A r \in results : r.poll = export.poll => r.tally = export.tally
    BY DEF ReceiptsSurvive, ReceiptsAreInRecord
  <2> DEFINE p == export.poll
             log == ballotEvents[p]
  <2>1. p \in Polls /\ export.events \in Seq(Event(BallotRecord))
    BY DEF BackupInv, ExportOK, Exporting, HasEvents
  <2>2. /\ TypeOK /\ ChainsIntact /\ SpentPointsToBallot
        /\ AnswersStand /\ ResultsOfClosedPolls /\ TallyCountsLog
    BY DEF BackupInv, TablesOK, IInv, AnswersOK
  <2>3. export.tally = tallies[p] /\ Ballots(export.events) = Ballots(log)
    BY <2>1, <2>2, VerifiedHasBallots
  <2>4. ASSUME NEW r \in receipts, r.poll = p
        PROVE  \E i \in Ballots(export.events) : ReceiptOf(p, export.events[i]) = r
    <3>1. /\ r.sequence \in DOMAIN log /\ r = ReceiptOf(p, log[r.sequence])
          /\ spent[p][r.credential] = r.sequence
      BY <2>2, <2>4 DEF AnswersStand
    <3>2. r.credential \in Credentials /\ r.sequence # 0
      <4>1. log \in Seq(Event(BallotRecord))
        BY <2>1, <2>2 DEF TypeOK
      <4> QED
        BY <2>2, <3>1, <4>1 DEF TypeOK, Receipt
    <3>3. r.sequence \in Ballots(log)
      BY <2>1, <2>2, <3>1, <3>2 DEF SpentPointsToBallot, IsSpent
    <3>4. export.events[r.sequence] = log[r.sequence]
      BY <2>1, <2>2, <2>3, <3>3, VerifiedIsPrefix DEF Ballots
    <3> QED
      BY <2>3, <3>1, <3>3, <3>4
  <2>5. \A r \in results : r.poll = p => r.tally = export.tally
    BY <2>2, <2>3 DEF AnswersStand
  <2> QED
    BY <2>4, <2>5
<1> QED
  BY <1>1, BackupInvariant, PTL

\* Two whole logs whose checkpoints agree wherever both have one are the same log: they agree
\* event by event, and neither goes on after the event that closes the other.
THEOREM ForksAreTold == BackupSpec => []ForksAreFound
<1>1. BackupInv => ForksAreFound
  <2> SUFFICES ASSUME BackupInv, kept # None, export.at = "exported", Compare(kept, export)
               PROVE  BallotsIn(kept.events) = BallotsIn(export.events)
    BY DEF ForksAreFound
  <2> DEFINE first == kept.events
             second == export.events
             p == export.poll
  <2>1. KeptOK /\ edits = 0
    BY DEF BackupInv, CopyOK
  <2>2. /\ p \in Polls /\ state[p] = "closed"
        /\ second = ballotEvents[p] /\ export.checkpoints = checkpoints[p]
    BY <2>1 DEF BackupInv, ExportOK, Exporting, HasEvents, HasCheckpoints
  <2>3. /\ second \in Seq(Event(BallotRecord)) /\ Replays(second)
        /\ export.checkpoints = [i \in DOMAIN second |-> CheckpointOf(second[i])]
        /\ HasClosed(second)
        /\ \A i \in DOMAIN second : second[i].artifact.type = "poll_closed" => i = Len(second)
    BY <2>2 DEF BackupInv, TablesOK, IInv, TypeOK, ChainsIntact, ClosesMatchLog
  <2>4. /\ first \in Seq(Event(BallotRecord)) /\ Replays(first)
        /\ kept.checkpoints = [i \in DOMAIN first |-> CheckpointOf(first[i])]
        /\ HasClosed(first)
        /\ \A i \in DOMAIN first : first[i].artifact.type = "poll_closed" => i = Len(first)
    BY <2>1 DEF KeptOK
  <2>5. ASSUME NEW i \in DOMAIN first, i \in DOMAIN second PROVE first[i].hash = second[i].hash
    <3>1. /\ CheckpointOf(first[i]) \in Seqs!ToSet(kept.checkpoints)
          /\ CheckpointOf(second[i]) \in Seqs!ToSet(export.checkpoints)
      BY <2>3, <2>4, <2>5 DEF Seqs!ToSet
    <3>2. CheckpointOf(first[i]).sequence = i /\ CheckpointOf(second[i]).sequence = i
      BY <2>3, <2>4, <2>5 DEF CheckpointOf, Replays
    <3>3. CheckpointOf(first[i]).hash = CheckpointOf(second[i]).hash
      BY <3>1, <3>2 DEF Compare
    <3> QED
      BY <3>3 DEF CheckpointOf
  <2>6. /\ DOMAIN first = 1..Len(first) /\ Len(first) \in Nat
        /\ DOMAIN second = 1..Len(second) /\ Len(second) \in Nat
    BY <2>3, <2>4
  <2> HIDE DEF first, second
  <2>7. ASSUME NEW i \in DOMAIN first, i \in DOMAIN second PROVE first[i] = second[i]
    <3>1. 1..i \subseteq DOMAIN first /\ 1..i \subseteq DOMAIN second
      BY <2>6, <2>7
    <3>2. \A k \in 1..i : first[k].hash = second[k].hash
      BY <2>5, <3>1
    <3> QED
      BY <2>3, <2>4, <2>7, <3>2, HashCommits
  <2>8. Len(first) = Len(second)
    <3>1. PICK i \in DOMAIN first : first[i].artifact.type = "poll_closed" /\ i = Len(first)
      BY <2>4 DEF HasClosed
    <3>2. PICK j \in DOMAIN second : second[j].artifact.type = "poll_closed" /\ j = Len(second)
      BY <2>3 DEF HasClosed
    <3>3. CASE i <= j
      <4>1. i \in DOMAIN second
        BY <2>6, <3>1, <3>2, <3>3
      <4> QED
        BY <2>3, <2>7, <3>1, <4>1
    <3>4. CASE j <= i
      <4>1. j \in DOMAIN first
        BY <2>6, <3>1, <3>2, <3>4
      <4> QED
        BY <2>4, <2>7, <3>2, <4>1
    <3>5. i \in Nat /\ j \in Nat
      BY <2>6, <3>1, <3>2
    <3> QED
      BY <3>3, <3>4, <3>5
  <2>9. DOMAIN first = DOMAIN second /\ \A i \in DOMAIN first : first[i] = second[i]
    BY <2>6, <2>7, <2>8
  <2>10. Ballots(first) = Ballots(second) /\ \A i \in Ballots(first) : first[i] = second[i]
    BY <2>9 DEF Ballots
  <2> QED
    BY <2>10 DEF BallotsIn, first, second
<1> QED
  BY <1>1, BackupInvariant, PTL
==============================================================================
