------------------------------- MODULE Backups -------------------------------
(***************************************************************************)
(* The persistent directory is copied and later restored (docs/operations.md *)
(* lines 106-123), key files included, so that the sequencer goes on from an *)
(* earlier state under the same keys and can sign a second history of a      *)
(* poll.  Somebody keeps a record exported in the first life and compares it *)
(* with one exported in the second (internal/sequenceraudit).                *)
(***************************************************************************)
EXTENDS AuditReplay

VARIABLES
  backup,   \* the database as copied, or None
  restored, \* it has been restored (once at most)
  kept      \* a record that was exported and verified, or None

backupVars == <<replayVars, backup, restored, kept>>

Database ==
  [state |-> state, closedAt |-> closedAt, credits |-> credits, creditEvents |-> creditEvents,
   ballotEvents |-> ballotEvents, spent |-> spent, checkpoints |-> checkpoints,
   tallies |-> tallies]

------------------------------------------------------------------------------
\* The server is stopped and its directory copied, while a poll is open: a log that is
\* closed is in the backup in full.
BackUp ==
  /\ backup = None /\ edits = 0
  /\ \E p \in Polls : state[p] = "open"
  /\ backup' = Database
  /\ UNCHANGED <<replayVars, restored, kept>>

\* What the directory held is gone; answers and exported records stay where they are.
Restore ==
  /\ backup # None /\ ~restored
  /\ restored' = TRUE
  /\ state' = backup.state /\ closedAt' = backup.closedAt
  /\ credits' = backup.credits /\ creditEvents' = backup.creditEvents
  /\ ballotEvents' = backup.ballotEvents /\ spent' = backup.spent
  /\ checkpoints' = backup.checkpoints /\ tallies' = backup.tallies
  /\ export' = Idle /\ edits' = 0
  /\ UNCHANGED <<now, answers, backup, kept>>

\* sequenceraudit.DecodeAndVerify, of a record exported after the backup was taken.
Keep ==
  /\ kept = None /\ backup # None /\ ~restored
  /\ export.at = "exported" /\ edits = 0 /\ VerifyAudit(export.poll, export)
  /\ kept' = export
  /\ UNCHANGED <<replayVars, backup, restored>>

\* Mutant: two records with one tally are taken for the same.
Compare_Tallies(first, second) == first.poll = second.poll /\ first.tally = second.tally

\* sequenceraudit.Compare, of two records that verify: they are of one poll, and the
\* checkpoints they both have sign the same events.
Compare(first, second) ==
  /\ first.poll = second.poll
  /\ \A c \in Seqs!ToSet(first.checkpoints), d \in Seqs!ToSet(second.checkpoints) :
       c.sequence = d.sequence => c.hash = d.hash

------------------------------------------------------------------------------
BackupInit == ReplayInit /\ backup = None /\ restored = FALSE /\ kept = None

\* Bounds: once there is a backup no record is edited, and the clock stands still (the times
\* in two tallies would only help to tell them apart).
BackupNext ==
  \/ /\ ReplayNext
     /\ backup # None => edits' = 0 /\ now' = now
     /\ UNCHANGED <<backup, restored, kept>>
  \/ BackUp \/ Restore \/ Keep

BackupSpec == BackupInit /\ [][BackupNext]_backupVars

------------------------------------------------------------------------------
(* Properties *)

\* A second history does not pass for the first: a record kept before a restore and one that
\* verifies after it compare as equal only if they hold the same ballots, also when one is
\* longer than the other or both have the same totals (docs/prds/002, line 573).
ForksAreFound ==
  /\ kept # None /\ export.at = "exported"
  /\ VerifyAudit(export.poll, export) /\ Compare(kept, export)
  => BallotsIn(kept.events) = BallotsIn(export.events)

\* As long as no backup was restored.
ReceiptsSurvive == ~restored => ReceiptsAreInRecord
==============================================================================
