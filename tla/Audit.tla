-------------------------------- MODULE Audit --------------------------------
(***************************************************************************)
(* VerifyAudit (internal/sequencer/audit.go), which the offline verifier    *)
(* runs over an exported record and readiness over every closed poll.  A    *)
(* bundle is a record with the events, the checkpoints and the tally of a   *)
(* poll.                                                                    *)
(***************************************************************************)
EXTENDS Sequencer

ASSUME AuditAssumption == \A p \in Polls : IsFiniteSet(ChoicesOf[p])

Seqs == INSTANCE SequencesExt

\* The value carries the sequencer's signature.
SignedCheckpoint(p, checkpoint) == checkpoint \in Seqs!ToSet(checkpoints[p])
SignedTally(p, tally) == [poll |-> p, tally |-> tally] \in results
SignedReceipt(p, receipt) ==
  \E i \in Ballots(ballotEvents[p]) : receipt = ReceiptOf(p, ballotEvents[p][i])

\* The sum of the totals, as the number of pairs of a total and one of what it counts.
SumOf(totals) == Cardinality(UNION {{t} \X (1..t.total) : t \in totals})

\* VerifyTallyForPoll: one total per choice of the poll, and their sum is the count.
TallyVerifies(p, tally) ==
  /\ {t.choice : t \in tally.totals} = ChoicesOf[p]
  /\ Cardinality(tally.totals) = Cardinality(ChoicesOf[p])
  /\ SumOf(tally.totals) = tally.count
  /\ SignedTally(p, tally)

\* Mutant: neither the checkpoint's nor the receipt's signature is verified.
EventVerifies_Unsigned(p, bundle, i) ==
  LET event == bundle.events[i]
      record == event.artifact
  IN  /\ bundle.checkpoints[i] = CheckpointOf(event)
      /\ record.type = "poll_created" => i = 1
      /\ record.type = "ballot_accepted" =>
           /\ ValidCredential(p, record.credential)
           /\ record.choice \in ChoicesOf[p]
      /\ record.type = "poll_closed" =>
           i = Len(bundle.events) /\ record.tally = bundle.tally

\* What VerifyAudit asks of the event at position i: the receipt stored beside a ballot is
\* the one signed for it.
EventVerifies(p, bundle, i) ==
  LET event == bundle.events[i]
      record == event.artifact
  IN  /\ bundle.checkpoints[i] = CheckpointOf(event)
      /\ SignedCheckpoint(p, bundle.checkpoints[i])
      /\ record.type = "poll_created" => i = 1
      /\ record.type = "ballot_accepted" =>
           /\ ValidCredential(p, record.credential)
           /\ record.choice \in ChoicesOf[p]
           /\ SignedReceipt(p, ReceiptOf(p, event))
      /\ record.type = "poll_closed" =>
           i = Len(bundle.events) /\ record.tally = bundle.tally

\* No credential comes twice.
CredentialsDiffer(log) ==
  \A i, j \in Ballots(log) : log[i].artifact.credential = log[j].artifact.credential => i = j

\* Mutant: the ballots are not counted against the tally.
VerifyAudit_NoCounts(p, bundle) ==
  /\ TallyVerifies(p, bundle.tally)
  /\ bundle.events # << >> /\ Len(bundle.events) = Len(bundle.checkpoints)
  /\ \A i \in DOMAIN bundle.events : EventVerifies(p, bundle, i)
  /\ CredentialsDiffer(bundle.events)
  /\ Replays(bundle.events)

VerifyAudit(p, bundle) ==
  /\ TallyVerifies(p, bundle.tally)
  /\ bundle.events # << >> /\ Len(bundle.events) = Len(bundle.checkpoints)
  /\ \A i \in DOMAIN bundle.events : EventVerifies(p, bundle, i)
  /\ CredentialsDiffer(bundle.events)
  /\ Replays(bundle.events)
  /\ bundle.tally.count = Cardinality(Ballots(bundle.events))
  /\ \A t \in bundle.tally.totals : t.total = Cardinality(BallotsFor(bundle.events, t.choice))
==============================================================================
