# vota: specifications, model checks and proofs

vota runs anonymous polls for a team whose members have SSH keys. A sequencer (one process, one
SQLite database) gives each eligible member one blind signature per poll; the member unblinds it
into a credential that names nobody and redeems it for one ballot. The ballots form a hash chain
of signed checkpoints, and closing the poll fixes a signed tally.

These modules model the code under `src/` and say what it must never get wrong. Paths below are
relative to `src/`.

## The system

| Component | State | Operations | Talks to |
| --- | --- | --- | --- |
| Sequencer service, `internal/sequencer/{service,close,helpers}.go` | none of its own: issuer key, checkpoint key, clock | CreatePoll, Claim, Vote, ClosePoll, Result | the store, in one transaction per operation |
| Store, `internal/sequencerstore`, `migrations/001_initial.sql` | polls, choices, poll_credits, credit_events, ballot_events, spent_credentials, sequencer_checkpoints, poll_tallies | reads and inserts, IMMEDIATE transactions, hash chains, migration | SQLite in WAL mode, at most 8 connections |
| Audit, `internal/sequencer/audit.go` (first half) | none | Audit (export of a closed poll), VerifyAudit, VerifyTallyForPoll | the store, without a transaction |
| Readiness, `Service.Ready` in `audit.go` | none | run at startup, by `GET /readyz` and by `vota diagnose` | the store, without a transaction |
| HTTP API and client, `internal/httpapi`, `internal/httpclient` | counters | one handler per operation, a deadline per request | service; connections that break |
| Vote command, `internal/cli/sequencercmd` | recovery file per poll and member, receipt files | read poll, load or create recovery file, claim, vote, save receipt, remove recovery file | the HTTP API |
| Admin commands, `internal/cli/sequencercmd` | none | create (check a draft, draw a request identifier, sign), close, result (check the tally, print it), verify | the HTTP API |
| Server command, `internal/cli/server`, `internal/crypto/blind/keys.go` | the key files, beside the database in one directory | configuration, keys, startup, diagnose; the operator copies and restores the directory | store, service |
| Crypto and encodings, `internal/crypto`, `internal/protocol` | none | blind signatures, SSH signatures, canonical JSON | |
| Independent audit, `internal/sequenceraudit`, `internal/auditverify` | none | compare two bundles | |

What makes them hard:

- **Interleaving.** Requests run concurrently. Service operations are serialised by the write lock;
  the export and the readiness check are not, and read one query after the other. Two runs of the
  vote command can share a recovery file.
- **Lost answers and late requests.** A client may lose the answer to a claim or a vote and try
  again, while the first request is still under way.
- **Crashes.** The vote command may die at any point between drawing a blinded message and removing
  the recovery file. The credit is then already taken.
- **The end of a poll.** It ends by a deadline on a wall clock that may be set back, and by an
  administrator's close that fixes the tally for good.
- **Files that outlive processes.** A poll is bound for ever to two keys, which are files that a
  starting process creates when they are absent; processes can start together, be killed between two
  writes, and find files from a backup.
- **A small pool.** Requests share eight connections, a transaction waits for the one write lock with
  a connection in hand, and a scan takes a second connection for every row.
- **Two kinds of record.** Every fact is in an append-only log and in a projection that the
  operations read. They must never disagree.

What must hold of each: the service gives a member one signature and a credential one ballot, and its
answers stay true; the log chains replay and match the projections; the tally counts the log; an
exported record verifies, an edited one does not; the readiness check fails over a poll whose tables
disagree and not over an intact database; a claimed credit is never stranded on the voter's side, and a voter told
"Vote recorded" is counted; votes count for the labels they were meant for; a restart goes on under
the keys the polls were created with; requests end and leave nothing behind.

## The modules

### `AnonymousPoll`: the promise

Phase, who holds a signature, which choice a credential was redeemed for, the outcome. No logs,
tables, retries or clock. Everything a user relies on is here in four actions.

### `Sequencer`: the service over its tables

The variables are the tables of the store, the clock, and three history variables with every answer
sent (`issued`, `receipts`, `results`). A transaction starts IMMEDIATE, holds the only write lock and
is rolled back on any error, so each operation is one action and a refusal changes nothing (checked by
`Transactions`):

| Action | Code |
| --- | --- |
| `CreatePoll` | `Service.CreatePoll` (`service.go:114`); a repeated request finds its row and writes nothing |
| `ClaimCredit`, `RepeatClaim` | `Service.Claim` (`service.go:224`): a first claim, and the claim on record sent again |
| `Vote`, `RepeatVote` | `Service.Vote` (`service.go:315`): a first redemption, and the ballot on record sent again |
| `ClosePoll`, `ReturnTally` | `Service.ClosePoll` (`close.go:11`), and a repeated close or `Service.Result` (`close.go:118`) |
| `SetClock` | the wall clock behind `Config.Now`, forwards or backwards |

`NextEvent`, `EventHash` and `CheckpointOf` are the chain; `IsOpen` is `requireOpen`;
`ValidCredential` is `verifyWireCredential`; `TallyOf` is the count in `ClosePoll`; `Replays` is
`replay`. The order of tests is that of the code where it can be told from outside: `Claim` asks
whether the poll is open before it looks for a stored credit, `Vote` looks for a stored ballot first.

Abstractions and the assumptions they rest on:

- A hash is the value hashed: no collisions.
- A signature is valid when the sequencer has given it: `ValidCredential(p, c)` says that a signature
  issued in `p` unblinds to `c`. A blinded message binds its poll when the CLI prepares it
  (`blind.Prepare`); a message claimed in `p` is taken to have been prepared for `p`. Two polls may be
  offered the same blinded message and credential in the model, which stand for two messages with
  the same name; a credential obtained in one is worth nothing in the other.
- SSH keys, fingerprints and requests stand for themselves: a member claims with its own key only,
  and `CreatePoll` and `ClosePoll` are an administrator's.
- Wording, labels, base64 and JSON are left out. Days recorded in events are left out.

### `Transactions`: the same operations statement by statement

`Sequencer` takes an operation for one step; this module shows that it may. Handlers serve requests at
once. `Receive` makes the checks that precede the transaction (`Service.Vote` reads the poll and
verifies the credential there); `Begin` takes the write lock (`store.go:162`) or `GiveUp` ends the wait
(attempts used up, deadline passed); `ReadForCreate`, `ReadForClaim`, `ReadForVote` and `ReadForClose` are
the queries, which decide the answer and the statements; `Execute` runs one statement of
`sequencerstore/write.go` against the constraints of the schema (`Permits`), or the loop over
`InsertChoice` or `InsertCredit` (`InsertChoices`, `InsertCredits`) as one; `Commit`, `Rollback`, `Fail`
(a failing statement or commit, a deadline) and `Crash` end it. The clock moves between any two of
these. A transaction's queries are one step: it holds the only write lock, so nothing else commits
while they run.

`Implements` is `Sequencer!Spec` with the committed tables as its tables and, as its clock, the history
variable `instant`: the time the transaction acted on, which for a creation is the time it was
validated, before the transaction began. `Result` only reads and is left to `Sequencer`.

The rows of `poll_choices` and the roster rows of `poll_credits` are tables here (`choices`, `enrolled`):
they are written by statements of their own after the row of the poll, and a claim and a vote read
them again inside their transaction. `IdentifiersOf` lists the identifiers that the labels of a poll get,
which may repeat; the creation of such a poll then meets the primary key of `poll_choices`
(`choice_write_failed`) after its own row was written, and is rolled back. `Permits` has the keys, the
UNIQUE columns and the foreign keys, and those checks that relate columns of one row; the comment above it
lists the rest, which each statement meets by the way its values are made. The refusals of
`close.go:51`, `66` and `76` concern tables that contradict each other, which no behaviour here has.

### `VoteClient`: the vote command

Extends `Sequencer`. A run of the command is a process with a program counter: `Start` (poll fetched
and verified, choice picked), `LoadState` or `MissState` then `CreateState` (`loadOrCreateVoteState`,
whose read and rename are two steps), `SendClaim`, `ReceiveSignature`, `SendVote`, `ReceiveReceipt`,
`SaveReceipt`, `RemoveState`, `PrintRecorded`, or `ReceiveRefusal` at either answer. `ServeRun` serves
a request with an action of `Sequencer` and puts the answer on the connection. `Fail` kills a run or
breaks its connection: a request on the wire is lost, or becomes an orphan that `ServeOrphan` may serve
at any later time, whose answer nobody reads.

### `Audit`, `AuditReplay`, `Backups`: exports and their verification

`Audit` is `VerifyAudit` and `VerifyTallyForPoll` as predicates. `AuditReplay` runs `Service.Audit`
query by query (`StartExport`, `ReadEvents`, `ReadCheckpoints`, `ReadResult`) while the sequencer goes
on, then edits the exported record: events removed, repeated, swapped, choices changed, and the whole
chain computed afresh. An edit can use whatever was signed and sign nothing.

`Backups` adds the operator of `docs/operations.md` (lines 106-123): `BackUp` copies the database,
`Restore` brings it back once, keys included, so that the sequencer can sign a second history of a
poll. `Keep` is `sequenceraudit.DecodeAndVerify` of a record of the first life, and `Compare` is
`sequenceraudit.Compare`. Answers and records that left the server stay where they are.

### `Readiness`: the readiness check

`Service.Ready` as a process: rows of the polls first, then per poll the credit log, each credit row,
the ballot log, the two counts, each ballot, the checkpoints, the tally; every query sees the last
commit. The audit of a closed poll inside the check is one step, since no request changes a closed
poll. `verifyPollProjection` compares rows that nothing writes after creation, and is left out.
The server is down while something is damaged, so only the check runs afterwards. `Damage` strikes
inside a poll, in one of eight ways: a credit event, ballot event, checkpoint, claim or tally is lost, a
ballot or the pointer of a spent credential is altered, a closed poll is open again. `LosePoll` takes the
poll's own row, which `Ready` cannot miss, since it starts from the rows that are there
(`read.go:55`): `DamageIsFound` is about the first kind only. Columns that nothing compares (`recorded_at`,
the `event_hash` of a checkpoint) are in no table of the model.

### `ConnPool`: the connections

Which request holds what, over everything that asks the store for something: `Connect` takes a
connection of the pool (`SetMaxOpenConns`), `TakeLock` or `Busy` ends SQLite's wait for the write lock
(in `Busy` the connection goes back and `begin` tries again; `attempts` counts, and `GiveUp` is the last
attempt, the 101st in the code, `store.go:168`), `LookUpRow` and `RowDone` are the query inside a scan
(`Store.Polls`, `Store.Credits`), `Finish` ends an operation, `Fail` and `DeadlinePasses` end a request
early. A deadline may pass or not: the checks at startup and in `vota diagnose` have none. What a query returns does not matter here and is in the other modules.

### `Startup`: processes on one directory

`vota serve` and `vota diagnose` from the key files to the listener, one step per access to a file or
the database: `StatCheckpoint` and `StatIssuer` (diagnose looks first), the checkpoint key's
`GenerateCheckpointKey`, `CreateCheckpointFile` (`O_EXCL`) and `WriteCheckpointKey`, the issuer key's
`GenerateIssuerKey` and `LinkIssuerKey` (temporary file, then a link that fails where the name exists),
`ReadVersion` and `Migrate` (outside and inside a transaction), `Ready` (the part of `Service.Ready`
about keys), `Listen`. A server that serves creates polls (`CreatePoll`) and goes on with their logs
(`Sign`). `Kill` ends a process anywhere. The operator acts while nothing runs: `Backup`, `Restore`, and
two mistakes, `RestoreDatabaseOnly` and `LoseKey`.

### `AdminCommands`: labels, identifiers and the tally that is shown

`Compose`, `ServeCreate` and `EndCreate` are `vota poll create` and the part of `Service.CreatePoll` about
labels: a label's identifier is the sequence of its words, numbered when it repeats
(`normalizedChoices`), and the primary key of `poll_choices` refuses equal identifiers. `VoteFor` is
a voter who means a choice and types its number or its identifier, and `readChoice`, which takes what
it can for a number and anything else for an identifier, whether the numbered list was printed
or, with `--choice-stdin`, not. What was meant is recorded apart from what was typed. `StartCheck`,
`NextTotal` and `FinishCheck` are `VerifyTallyForPoll` total by total, with a sum that wraps at `MaxInt`;
the tally is the one the sequencer counted or any other, signed or not, since its signature is
looked at last.

## What TLC checks

| Run | Model | Shows |
| --- | --- | --- |
| `sequencer` | two polls with rosters {m1, m2} and {m2}, different choices and deadlines, a member on neither roster, two request ids, three messages; 176,000 states | `TypeOK`, `OneBallotPerCredential`, `ChainsIntact`, `ProjectionsMatchLogs`, `TallyCountsLog`, `AnswersStand`, `BallotsWithinRoster`, `HistoryStands`, and `KeepsPromise`: it implements `AnonymousPoll` |
| `transactions` | two requests at once over a poll with two members and two choices, and one whose labels get an identifier twice; 447,296 states up to the names of the handlers | `Implements`: it implements `Sequencer`; `ConstraintsHold` |
| `vote_client` | one voter of two with two choices, three messages, three failures; 62,744 states | `ClaimRecoverable`, `OneBallotPerVoter`, `ToldIsCounted`, `ClaimLeadsToReceipt` |
| `vote_client_retry` | one voter, two failures | finding: `ExactRetryAnswered` fails |
| `vote_client_two_runs` | two runs of one voter | finding: `InterruptedClaimResumes` fails |
| `audit_replay` | one poll, two members, two edits, one backup; 183,480 states | `ExportVerifies`, `ReplayRejectsEdits`, `ReceiptsSurvive`, `ForksAreFound` |
| `readiness` | one poll, two members, one damage or the poll's row lost; 120,630 states | `QuietCheckPasses`, `DamageIsFound` |
| `readiness_busy` | the same | finding: `BusyCheckPasses` fails |
| `conn_pool` | four requests, three connections, two attempts; 71,294 states | `NoLockup`, `NothingLeaks`, `WaitsEnd` |
| `startup` | two servers, a diagnosis, two keys of each kind, one poll; 339,282 states | `KeysAreOnDisk`, `OneSigner`, `IssuesItsOwn`, `DiagnoseCreatesNoKey`, `WholeFilesServe` |
| `startup_kill` | one server | finding: `RestartServes` fails |
| `admin_commands` | four labels with colliding identifiers, up to three choices, two votes, ints of three bits; 339,092 states | `VotesGoToLabels`, `OwnTallyIsShown`, `ShownTallyAddsUp` |

Each property has a mutant in `PROJECT.json`: a plausible mistake in one mapped definition that makes
the run fail.

**Why the bounds are enough.** Two members, two request identifiers and three messages let a claim
meet its own retry, the same identifier with another message, another identifier, and another
member's message; the member of both polls can carry a credential from one into the other. Two ballots
and the two events around them give chains of four events, so that a first and a last ballot differ.
A clock of two instants is before and at a deadline, for one of the polls, and moves both ways.
In `vote_client` three failures suffice for an answer lost, a request delayed past the retry, and a
kill at another point; messages to spare let a voter start afresh after a finished vote. Transactions
exclude each other, so two requests show what one does while another waits, and three would only
queue; the handlers do the same things, and both properties of that run are about safety, so states that
differ in their names only count once. A list x, y, x is the shortest that fails after a row was written. Two edits of a record are needed for anything to be hidden: one that changes the ballots, one
that computes the chain again. One restore makes two histories, which is what a comparison takes. The
check of readiness works poll by poll, so one poll shows what it compares. In `conn_pool` scans alone, a
transaction with those that wait for it, and both together can use up three connections while a
fourth request waits; one attempt more than the first is enough for an attempt that ends in another and
one that ends the request. In `startup` two servers race for every file; a second key of each kind lets one
be lost and created anew. In `admin_commands` A, A! and "A 2" are the shortest list whose identifiers
collide, the label "2" is also the number of another choice, and three totals of three bits are enough for a
sum to wrap to a count.

**Fairness.** Three runs assume any.

- `vote_client`: a run that is not killed takes its next step and a request that arrived is served (the
  Go scheduler and the HTTP server), and the voter runs the command again, which is part of what is
  claimed: the recovery file makes a rerun finish. Failures, late requests, the administrator and the
  clock have no fairness, and failures are bounded. `ClaimLeadsToReceipt` asks the voter to stick to
  one choice: another choice after the ballot is in is rightly refused.
- `conn_pool`: a call that holds what it needs goes on, and one that asks the pool for a connection gets
  one if connections come back again and again (strong fairness), since `database/sql` hands a returned
  connection to one of the waiters, picked at random. Nothing is assumed of deadlines, nor of who takes the
  write lock: a transaction may find it taken every time, and ends because `begin` counts
  (`store.go:168`). `WaitsEnd` assumes that scans do not hold the whole pool for ever; if they do,
  only a deadline ends them (`httpapi/sequencer.go:102`).
- `startup`: a process that runs goes on, and the service manager starts a server that has ended.
  `WholeFilesServe` speaks of runs in which kills and the operator's interventions stop in the end.

## What is proved

Every safety invariant and every action property that a passing run checks is also a theorem, for every
value of the constants that meets the assumptions below: any polls, members, requests, processes and
connections, and no bound on what happens in a behaviour except where the model itself has one. What a
run shows on an instance, a theorem says of all of them. Each component with theorems has a module of its
own; most theorems follow one pattern: the property is not inductive, a stronger invariant is
(`Init => Inv`, `Inv /\ [Next]_vars => Inv'`), and it implies the property.

### `SequencerProofs`: the service

| Theorem | States |
| --- | --- |
| `Invariant`, `RecordInvariant` | `IInv` and `RecordInv` always hold |
| `TypeCorrect` | `[]TypeOK` |
| `ChainsHold` | `[]ChainsIntact` |
| `OneBallot` | `[]OneBallotPerCredential` |
| `TallyHolds` | `[]TallyCountsLog` |
| `AnswersHold` | `[]AnswersStand` |
| `HistoryHolds` | `HistoryStands` |
| `ProjectionsHold` | `[]ProjectionsMatchLogs` |
| `RosterBounds` | `[]BallotsWithinRoster` |
| `PromiseKept` | `KeepsPromise`: the refinement of `AnonymousPoll` |

`OneBallotPerCredential` is not inductive: a step could add a second ballot for a credential that the
projection does not know to be spent. `IInv` adds what ties the projection to the log: a spent
credential points to its ballot (`SpentPointsToBallot`), every ballot is the one its credential points
to (`BallotsAreSpent`), a closed poll has the tally and the time it was closed (`ClosedHasTally`), and
the chains with their numbering (`ChainsIntact`). The lemmas `AppendPositions`, `NextEventReplays` and
`CheckpointsFollow` say what appending an event does to a log, so that each action's case is short.
`AnswersStand` and `TallyCountsLog` are then inductive relative to `IInv`.

`RecordInv` ties the tables the other way, from every row to its event and back: credits and claim events
match one to one (`CreditsMatchLog`), a poll is closed exactly when its last event says so
(`ClosesMatchLog`), rows exist only of polls that exist (`RowsFollow`), the log of one begins with its
creation (`LogsBegin`), each ballot's credential comes from a claim on record (`BallotsAreBacked`), and
only members of the roster were given a signature (`GivenToRoster`). `BallotsWithinRoster` is then a count:
ballots map one to one into signatures given, and these into the roster. For `PromiseKept` every action is
shown to be the action of `AnonymousPoll` it stands for, or a stutter; a step of one poll changes what the
mapping shows of that poll only.

### `TransactionsProofs`: statement by statement

| Theorem | States |
| --- | --- |
| `TxInvariant` | `TxInv` always holds |
| `TransactionsImplement` | `Implements`: the refinement of `Sequencer` |
| `ConstraintsAreMet` | `[]ConstraintsHold`: no statement meets a constraint, but the choices of a poll with a repeated identifier |
| `CommitsKeepGuarantees` | the guarantees of `SequencerProofs` and the promise of `AnonymousPoll`, of the committed tables and the answers that leave the server |

`TxInv` says that whoever is in a transaction holds the write lock, alone; that its tables are the committed
ones with the statements it has executed (`JobOK`); and that what its queries found is still so, as
nobody else commits; and that a poll has all its rows of choices and members or none (`RowsWhole`), so that
a claim and a vote read what the creation wrote. A commit is then the operation of `Sequencer`, the reading of the clock is its
`SetClock`, and a statement, a failure, a rollback or a crash is a stutter. `CommitsKeepGuarantees` puts the
refinement in front of the theorems about `Sequencer`, so what is proved of operations taken in one
step holds of interleaved statements.

### `VoteClientProofs`: the vote command

| Theorem | States |
| --- | --- |
| `VoterInvariant` | `VoterInv` always holds |
| `ClientTypeCorrect` | `[]ClientTypeOK` |
| `CommandsKeepPromise` | `ClientSpec` implements `Sequencer!Spec`, and so `KeepsPromise`, `HistoryStands` and `[]BallotsWithinRoster` hold with the commands at work |
| `OneBallotEach` | `[]OneBallotPerVoter` |
| `ToldTheTruth` | `[]ToldIsCounted` |
| `ClaimsRecoverable` | `[]ClaimRecoverable`, if no two runs are of one member (`OneRunEach`) |

`VoterInv` follows a message from the run that drew it: whatever a run holds, sends, leaves behind as an
orphan or has in its recovery file was drawn by its own member (`DrawnByVoter`), and a run goes on only
with what the sequencer has answered to it (`AnswersOnWire`). It holds with any number of overlapping runs.
`ClaimRecoverable` needs more: while a claim is still possible, every request for one, late ones
included, names the message in the recovery file (`OnFile`). Two overlapping runs of a member break that,
as the finding `InterruptedClaimResumes` shows, so the hypothesis is the boundary of the claim and
not a convenience: runs of different members may still overlap freely.

### `AuditProofs`: exported records

| Theorem | States |
| --- | --- |
| `BackupInvariant` | `BackupInv` always holds |
| `ExportsVerify` | `[]ExportVerifies` |
| `EditsAreRejected` | `[]ReplayRejectsEdits` |
| `ReceiptsAreFound` | `[]ReceiptsSurvive` |
| `ForksAreTold` | `[]ForksAreFound` |

The heart is `HashCommits`: logs that replay and agree on the hashes up to a position have the same event
there. So a bundle that verifies is a beginning of the log it came from (`VerifiedIsPrefix`), whatever was
done to it, and the counts in the signed tally make it long enough to hold all ballots. `BackupInv` keeps what the
tables satisfy whoever asked for what (`TablesOK`), says it of a copy too (`DatabaseOK`), as a restored copy
goes on, and ties an export to the closed poll it is read from (`ExportOK`). The part of `SequencerProofs`
about answers holds only until a backup is restored (`AnswersOK`).

### `ReadinessProofs`: the readiness check

| Theorem | States |
| --- | --- |
| `ReadyInvariant` | `ReadyInv` always holds |
| `QuietChecksPass` | `[]QuietCheckPasses` |
| `DamageIsAlwaysFound` | `[]DamageIsFound` |

Before anything is damaged the tables are as the sequencer leaves them (`Intact`), and what a check has read is
what they hold as long as no write overlapped it (`Copies`), so every comparison agrees: `ClaimsCounted` and
its like count events against rows. After a damage inside a poll (`Harmed`) some poll that exists is not `Sound`; every kind of damage
breaks one conjunct of `Sound`, and a check that goes on has made sure of `Sound` for each poll it is
done with (`Compared`), so it cannot be done with that one.

### `ConnPoolProofs`, `AdminCommandsProofs`, `StartupProofs`

| Theorem | States |
| --- | --- |
| `PoolInvariant` | `PoolInv` always holds |
| `NothingIsLeaked`, `NobodyLocksUp` | `[]NothingLeaks`, `[]NoLockup` |
| `AdminInvariant` | `AdminInv` always holds |
| `VotesReachLabels`, `OwnTallyShown`, `ShownTallyIsWhole` | `[]VotesGoToLabels`, `[]OwnTallyIsShown`, `[]ShownTallyAddsUp` |
| `StartInvHolds` | `StartInv` always holds |
| `KeysStayOnDisk`, `OneSignerEver`, `ServersIssueTheirOwn`, `DiagnosesCreateNoKey` | `[]KeysAreOnDisk`, `[]OneSigner`, `[]IssuesItsOwn`, `[]DiagnoseCreatesNoKey` |

`PoolInv` makes the counter of the pool the cardinality of the set of connections the calls hold (`Counted`),
the first and the second of each, and gives the write lock to the one call in a transaction
(`LockIsHeld`). If scans do not hold the whole pool, the lock's holder can go on, or, when it is free, a
connection is free or its holder can go on.

`AdminInv` keeps the running sum of a check within `0..count`, so no subtraction or addition ever wraps
(`WrapIsExact`), equal to the exact sum of the totals read, and for a tally of the sequencer's own equal to
the number of votes for the identifiers read, which is why no order of totals is refused. A vote is counted
for the choice that was meant because a poll with two equal identifiers is not stored (`PollsOK`,
`VotesOK`); a typed identifier that reads as a number is left out, as the property says.

`StartInv` says what a process knows at each step: from the reading of a key
file on, the key in memory is the one in the file (`CheckpointKeyKnown`, `IssuerKeyKnown`), so that whoever
creates a file finds nobody at work with another; the file is written by one process alone (`OneWriter`)
while it is half-written; a diagnosis at the reading of the files has seen them (`SawTheFiles`); and a
process past the readiness check has the keys of every poll (`PollsChecked`), also of those another server
creates meanwhile. The operator's steps preserve it since nothing runs, and the polls of a backup have one
signer each as well.

### Assumptions

They are the named `ASSUME`s of the modules; each run evaluates those it uses.

- Shapes of the constants: `SequencerAssumption`, `TransactionsAssumption`, `VoteClientAssumption`,
  `StartupAssumption`, `AdminAssumption`, `AuditReplayAssumption`, and in `ConnPool` a pool of at least one
  connection (`MaxOpenAssumption`), scans of finite length (`MaxRowsAssumption`) and a finite number of attempts
  (`MaxAttemptsAssumption`). Nothing says that polls,
  members, rosters or credentials are finitely many.
- `None`, and `Nobody` in `ConnPool`, is no value of the kind it stands for: no tally (`NullAssumption`), member,
  time (`ReadinessAssumption`), message (`NoMessageAssumption`), key, handler or call. It stands for SQL's NULL and
  for what is absent.
- `SerialAssumption`: two blinded messages do not unblind to one credential, as each is drawn with 32 random bytes
  (`commands.go`).
- `AuditAssumption`: a poll offers finitely many choices.
- The abstractions named above, which no `ASSUME` states: hashes are injective, and only the sequencer signs.

Some definitions are written so that they can be reasoned about. `SumOf` is the cardinality of a union of
intervals instead of a fold, since what a fold computes is an induction; `BallotsIn` compares the ballots of
a record with those of the log position by position; message types are told apart by a field.

## What is only model-checked

`ClaimLeadsToReceipt`, `WaitsEnd` and `WholeFilesServe` are liveness under fairness, which the prover
cannot treat: a proof needs ENABLED of the fair actions. The properties of the runs that end in a violation are
false, so there is nothing to prove. That the models may stop only where the code may is checked by
deadlock detection.

## Where the code and its documents differ

1. `ExactRetryAnswered`. The PRD (line 522) and the README (line 192) say that an exact retry of a claim
   returns the stored response. `Service.Claim` refuses it once the poll has ended, since
   `requireOpen` comes first (`service.go:262`). The signature could not be redeemed by then, so no vote is lost;
   the voter reads "the poll is not open".
2. `InterruptedClaimResumes`. The PRD (line 404) says that an interrupted issuance resumes automatically. With
   two overlapping runs of one voter the recovery file may be the wrong one
   (`commands.go:338` reads, `369` replaces), and the claimed credit cannot be used any more.
3. `BusyCheckPasses`. The PRD (line 227) has readiness fail on broken logs and projections.
   `Service.Ready` reads them without a transaction and also fails over an intact database when a
   commit falls between two of its queries.
4. `RestartServes`. The PRD (lines 62 and 453) has the server create its keys and a restart with the same
   files go on. A kill between the creation of the checkpoint key's file and its write
   (`server.go:342`, `346`) leaves an empty file, which every later start fails to decode. The issuer key
   is written to a temporary file first and does not have the problem; `WholeFilesServe` shows that
   nothing else a kill leaves behind is an obstacle.

Notes that are not findings. The PRD (line 487) has a draft fail before it is signed; a closing time
that is past and labels whose identifiers collide are refused by the server, after the signature
(`ServeCreate`). A label "2" that is not second has an identifier that reads as the number of another
choice, and the number wins (`commands.go:396`). With the list on the screen that is plain to see; with
`--choice-stdin` no list is printed (`commands.go:377`), and who sends the identifier votes for the other choice.
`VotesGoToLabels` therefore leaves such votes out. The PRD (line 227) has readiness fail on broken
projections; a lost row of `polls` (`LosePoll`) or an altered column that nothing compares passes. After an older backup was restored a member can claim again and cast a second
ballot with the first credential; the comparison of exported records finds the two histories. `VerifyAudit` accepts a record whose closing event has been left out, as
the tally beside it is signed on its own and counts the same ballots. `ReplayRejectsEdits` is
therefore about the ballots.

## What is not modelled

RSA and Ed25519 arithmetic, SSH signature formats and canonical encoding are pure functions: what the
operations rely on is assumed as said above. Configuration, logging, body limits, the counters behind `/metrics`,
the graceful shutdown of the HTTP server, files named by `--out` and command wiring change no state that
a property names. `ContainsReceipt` is a search for one hash in a verified record.
Loss of power between a rename and the sync of its directory is not in `VoteClient`: there a rename is final. `PROJECT.json` lists every part with its status and each hazard
with the property that covers it, or why none does yet.

## Plan

Done: `AnonymousPoll`, `Sequencer`, `Transactions`, `VoteClient`, `Audit`, `AuditReplay`, `Backups`, `Readiness`,
`ConnPool`, `Startup`, `AdminCommands`, and the proofs of all their safety and action properties and of both
refinements: `SequencerProofs`, `TransactionsProofs`, `VoteClientProofs`, `AuditProofs`, `ReadinessProofs`,
`ConnPoolProofs`, `AdminCommandsProofs`, `StartupProofs`.

Next, in this order:

1. `OneSigner` across restores joined with `ForksAreTold`: which histories of one poll can exist at all.
2. The loss of power after a rename in `VoteClient`, with what is recoverable then.
3. The HTTP handlers' deadlines as steps of `VoteClient`, so that a request answered late by the server and
   one cancelled by it are told apart.
