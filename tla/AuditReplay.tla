----------------------------- MODULE AuditReplay -----------------------------
(***************************************************************************)
(* The export of a closed poll's ballot log (Service.Audit, one query after *)
(* the other outside any transaction) while the sequencer goes on, and its  *)
(* offline verification (VerifyAudit) after the file has been edited.       *)
(*                                                                         *)
(* An editor has what the sequencer signed and nothing else: events,        *)
(* checkpoints and receipts can be left out, repeated, moved or rewritten,  *)
(* hashes can be computed again, but nothing can be signed.                 *)
(***************************************************************************)
EXTENDS Audit

CONSTANT MaxEdits  \* bound on the edits of an exported record

ASSUME AuditReplayAssumption == MaxEdits \in Nat

VARIABLES
  export,  \* the export under way or done: how far it is, and the bundle read so far
  edits    \* edits made to the bundle since

exportVars == <<export, edits>>
replayVars == <<vars, exportVars>>

Idle == [at |-> "idle"]

------------------------------------------------------------------------------
(* Service.Audit, query by query *)

\* Mutant: an open poll is exported as well.
StartExport_AnyState(p) ==
  /\ export = Idle
  /\ state[p] # "absent"
  /\ export' = [at |-> "events", poll |-> p]

\* The row says closed; otherwise poll_not_closed.
StartExport(p) ==
  /\ export = Idle
  /\ state[p] = "closed"
  /\ export' = [at |-> "events", poll |-> p]

ReadEvents ==
  /\ export.at = "events"
  /\ export' = [at |-> "checkpoints", poll |-> export.poll, events |-> ballotEvents[export.poll]]

ReadCheckpoints ==
  /\ export.at = "checkpoints"
  /\ export' = [at |-> "result", poll |-> export.poll, events |-> export.events,
                checkpoints |-> checkpoints[export.poll]]

\* Result: the row says closed and the stored tally is that of the poll.
ReadResult ==
  LET p == export.poll
  IN  /\ export.at = "result"
      /\ IF state[p] = "closed" /\ TallyVerifies(p, tallies[p])
         THEN export' = [at |-> "exported", poll |-> p, events |-> export.events,
                         checkpoints |-> export.checkpoints, tally |-> tallies[p]]
         ELSE export' = [at |-> "failed"]

Forget == export.at \in {"exported", "failed"} /\ export' = Idle

------------------------------------------------------------------------------
(* Edits of an exported record *)

RemoveEvent(i) ==
  export' = [export EXCEPT !.events = Seqs!RemoveAt(@, i), !.checkpoints = Seqs!RemoveAt(@, i)]

RepeatEvent(i) ==
  export' = [export EXCEPT !.events = Seqs!InsertAt(@, i, @[i]),
                           !.checkpoints = Seqs!InsertAt(@, i, @[i])]

SwapEvents(i, j) ==
  LET Swapped(s) == [s EXCEPT ![i] = s[j], ![j] = s[i]]
  IN  export' = [export EXCEPT !.events = Swapped(@), !.checkpoints = Swapped(@)]

ChangeChoice(i, ch) ==
  /\ i \in Ballots(export.events)
  /\ export' = [export EXCEPT !.events[i].artifact.choice = ch]

\* Sequence numbers and hashes computed afresh, and written into the checkpoints: the hash
\* of an event is made of its number and record and of those before it.
Rechain ==
  LET HashUpTo(n) == [i \in 1..n |-> <<i, export.events[i].artifact>>]
      events == [i \in DOMAIN export.events |->
                   [sequence |-> i, previous |-> HashUpTo(i - 1), hash |-> HashUpTo(i),
                    artifact |-> export.events[i].artifact]]
  IN  export' = [export EXCEPT !.events = events,
                   !.checkpoints = [i \in DOMAIN events |-> CheckpointOf(events[i])]]

Edit ==
  /\ export.at = "exported"
  /\ edits < MaxEdits
  /\ edits' = edits + 1
  /\ \/ \E i \in DOMAIN export.events : RemoveEvent(i) \/ RepeatEvent(i)
     \/ \E i, j \in DOMAIN export.events : i < j /\ SwapEvents(i, j)
     \/ \E i \in DOMAIN export.events, ch \in Choices : ChangeChoice(i, ch)
     \/ Rechain

------------------------------------------------------------------------------
ReplayInit == Init /\ export = Idle /\ edits = 0

ReplayNext ==
  \/ Next /\ UNCHANGED exportVars
  \/ /\ \/ \E p \in Polls : StartExport(p)
        \/ ReadEvents \/ ReadCheckpoints \/ ReadResult
     /\ UNCHANGED <<vars, edits>>
  \/ Forget /\ edits' = 0 /\ UNCHANGED vars
  \/ Edit /\ UNCHANGED vars

ReplaySpec == ReplayInit /\ [][ReplayNext]_replayVars

------------------------------------------------------------------------------
(* Properties *)

\* The ballots of a log, each at its position.
BallotsIn(log) == [i \in Ballots(log) |-> log[i]]

\* An export never fails, and what it collects over four queries verifies, whatever the
\* sequencer did between them.
ExportVerifies ==
  /\ export.at # "failed"
  /\ export.at = "exported" /\ edits = 0 => VerifyAudit(export.poll, export)

\* A record that verifies holds exactly the ballots of the log, where they are in it: replay
\* rejects a ballot removed, reordered, duplicated or modified (docs/prds/002, line 591).
ReplayRejectsEdits ==
  export.at = "exported" /\ VerifyAudit(export.poll, export) =>
    BallotsIn(export.events) = BallotsIn(ballotEvents[export.poll])

\* Every receipt a voter was ever given is found in any record that verifies, and every
\* result anyone was given is the one it proves (docs/prds/002, line 592).
ReceiptsAreInRecord ==
  export.at = "exported" /\ VerifyAudit(export.poll, export) =>
    /\ \A r \in receipts : r.poll = export.poll =>
         \E i \in Ballots(export.events) : ReceiptOf(export.poll, export.events[i]) = r
    /\ \A r \in results : r.poll = export.poll => r.tally = export.tally
==============================================================================
