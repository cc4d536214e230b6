------------------------------- MODULE Startup -------------------------------
(***************************************************************************)
(* The processes that start on one persistent directory: `vota serve` and   *)
(* `vota diagnose`, from the key files to the database's schema, the         *)
(* readiness check and the listener, killed at any point and started again. *)
(*                                                                         *)
(* A poll is bound for ever to the issuer key and the checkpoint key it was  *)
(* created under, which are files beside the database: what a process does  *)
(* with absent, half-written and foreign files decides whether the polls    *)
(* survive.                                                                 *)
(***************************************************************************)
EXTENDS Naturals, FiniteSets

CONSTANTS
  Servers,         \* processes that run `vota serve`
  Diagnosers,      \* processes that run `vota diagnose`
  CheckpointKeys, IssuerKeys,  \* the keys that can be generated
  MaxPolls,        \* bound on the polls created
  None

\* What a key file contains between its creation and its write.
Torn == "torn"

ASSUME StartupAssumption ==
  /\ None \notin CheckpointKeys \cup IssuerKeys
  /\ Torn \notin CheckpointKeys \cup {None}
  /\ Servers \cap Diagnosers = {}
  /\ MaxPolls \in Nat

Processes == Servers \cup Diagnosers

VARIABLES
  directory, \* the persistent directory: two key files and the database
  backup,    \* a copy of it, or None
  pc,        \* pc[p]: the step process p is at
  held,      \* held[p]: the private keys process p has in memory
  listener   \* the process that holds the listen address, or None

startVars == <<directory, backup, pc, held, listener>>

Empty == [checkpoint |-> None, issuer |-> None, tables |-> FALSE, version |-> FALSE,
          polls |-> {}]

NoKeys == [checkpoint |-> None, issuer |-> None]

------------------------------------------------------------------------------
(* Helpers *)

Goto(p, step) == pc' = [pc EXCEPT ![p] = step]

\* The process ends: with it go its memory and its listener.
End(p, how) ==
  /\ Goto(p, how)
  /\ held' = [held EXCEPT ![p] = NoKeys]
  /\ listener' = IF listener = p THEN None ELSE listener

Exit(p) == End(p, "stopped")

Running == {p \in Processes : pc[p] \notin {"stopped", "killed"}}

\* The keys the polls of some files are bound to.
Used(files) == UNION {{poll.issuer} \cup poll.signers : poll \in files.polls}

\* A generated key is nobody else's.
Fresh(keys, field) ==
  {k \in keys :
     /\ directory[field] # k
     /\ \A p \in Processes : held[p][field] # k
     /\ k \notin Used(directory)
     /\ backup # None => backup[field] # k /\ k \notin Used(backup)}

------------------------------------------------------------------------------
(* The keys *)

\* Mutant: diagnose does not look for the files first.
Start_NoStat(p) ==
  /\ p \notin Running
  /\ Goto(p, "read checkpoint")
  /\ UNCHANGED <<directory, backup, held, listener>>

Start(p) ==
  /\ p \notin Running
  /\ Goto(p, IF p \in Servers THEN "read checkpoint" ELSE "stat checkpoint")
  /\ UNCHANGED <<directory, backup, held, listener>>

StatCheckpoint(p) ==
  /\ pc[p] = "stat checkpoint"
  /\ IF directory.checkpoint = None
     THEN Exit(p)
     ELSE Goto(p, "stat issuer") /\ UNCHANGED <<held, listener>>
  /\ UNCHANGED <<directory, backup>>

StatIssuer(p) ==
  /\ pc[p] = "stat issuer"
  /\ IF directory.issuer = None
     THEN Exit(p)
     ELSE Goto(p, "read checkpoint") /\ UNCHANGED <<held, listener>>
  /\ UNCHANGED <<directory, backup>>

LoadCheckpointKey(p) ==
  /\ pc[p] = "read checkpoint" /\ directory.checkpoint \in CheckpointKeys
  /\ held' = [held EXCEPT ![p].checkpoint = directory.checkpoint]
  /\ Goto(p, "read issuer")
  /\ UNCHANGED <<directory, backup, listener>>

\* The file does not decode.
RefuseCheckpointKey(p) ==
  /\ pc[p] = "read checkpoint" /\ directory.checkpoint = Torn
  /\ Exit(p)
  /\ UNCHANGED <<directory, backup>>

GenerateCheckpointKey(p) ==
  /\ pc[p] = "read checkpoint" /\ directory.checkpoint = None
  /\ \E k \in Fresh(CheckpointKeys, "checkpoint") : held' = [held EXCEPT ![p].checkpoint = k]
  /\ Goto(p, "create checkpoint")
  /\ UNCHANGED <<directory, backup, listener>>

\* O_CREATE|O_EXCL: a file somebody else has created meanwhile ends the start.
CreateCheckpointFile(p) ==
  /\ pc[p] = "create checkpoint"
  /\ IF directory.checkpoint = None
     THEN /\ directory' = [directory EXCEPT !.checkpoint = Torn]
          /\ Goto(p, "write checkpoint")
          /\ UNCHANGED <<held, listener>>
     ELSE Exit(p) /\ UNCHANGED directory
  /\ UNCHANGED backup

WriteCheckpointKey(p) ==
  /\ pc[p] = "write checkpoint"
  /\ directory' = [directory EXCEPT !.checkpoint = held[p].checkpoint]
  /\ Goto(p, "read issuer")
  /\ UNCHANGED <<backup, held, listener>>

LoadIssuerKey(p) ==
  /\ pc[p] = "read issuer" /\ directory.issuer # None
  /\ held' = [held EXCEPT ![p].issuer = directory.issuer]
  /\ Goto(p, "read version")
  /\ UNCHANGED <<directory, backup, listener>>

\* The key is written to a temporary file, which then gets its name; diagnose creates none.
GenerateIssuerKey(p) ==
  /\ pc[p] = "read issuer" /\ directory.issuer = None
  /\ IF p \in Servers
     THEN /\ \E k \in Fresh(IssuerKeys, "issuer") : held' = [held EXCEPT ![p].issuer = k]
          /\ Goto(p, "link issuer")
          /\ UNCHANGED listener
     ELSE Exit(p)
  /\ UNCHANGED <<directory, backup>>

\* Mutant: the temporary file is renamed over whatever has the name.
LinkIssuerKey_Rename(p) ==
  /\ pc[p] = "link issuer"
  /\ directory' = [directory EXCEPT !.issuer = held[p].issuer]
  /\ Goto(p, "read version")
  /\ UNCHANGED <<backup, held, listener>>

\* The link fails when the name exists: then the key that has it is loaded.
LinkIssuerKey(p) ==
  /\ pc[p] = "link issuer"
  /\ IF directory.issuer = None
     THEN directory' = [directory EXCEPT !.issuer = held[p].issuer] /\ Goto(p, "read version")
     ELSE Goto(p, "read issuer") /\ UNCHANGED directory
  /\ UNCHANGED <<backup, held, listener>>

------------------------------------------------------------------------------
(* The database *)

\* migrate looks for the version outside any transaction ...
ReadVersion(p) ==
  /\ pc[p] = "read version"
  /\ Goto(p, IF directory.version THEN "ready" ELSE "migrate")
  /\ UNCHANGED <<directory, backup, held, listener>>

\* Mutant: the version is not recorded.
Migrate_NoVersion(p) ==
  /\ pc[p] = "migrate"
  /\ IF directory.tables
     THEN Exit(p) /\ UNCHANGED directory
     ELSE /\ directory' = [directory EXCEPT !.tables = TRUE]
          /\ Goto(p, "ready")
          /\ UNCHANGED <<held, listener>>
  /\ UNCHANGED backup

\* ... and applies it in one: CREATE TABLE fails where the tables exist.
Migrate(p) ==
  /\ pc[p] = "migrate"
  /\ IF directory.tables
     THEN Exit(p) /\ UNCHANGED directory
     ELSE /\ directory' = [directory EXCEPT !.tables = TRUE, !.version = TRUE]
          /\ Goto(p, "ready")
          /\ UNCHANGED <<held, listener>>
  /\ UNCHANGED backup

\* Mutant: readiness compares the issuer keys only.
Passes_IssuerOnly(poll, keys) == poll.issuer = keys.issuer

\* Mutant: readiness leaves the issuer out.
Passes_NoIssuer(poll, keys) == poll.signers \subseteq {keys.checkpoint}

\* Of the readiness check, the part about keys (Readiness has the rest): the poll names this
\* issuer key, and the checkpoints of its log, of which the first is as old as the poll,
\* verify with this checkpoint key.
Passes(poll, keys) ==
  /\ poll.issuer = keys.issuer
  /\ poll.signers \subseteq {keys.checkpoint}

Ready(p) ==
  /\ pc[p] = "ready"
  /\ IF p \in Servers /\ \A poll \in directory.polls : Passes(poll, held[p])
     THEN Goto(p, "listen") /\ UNCHANGED <<held, listener>>
     ELSE Exit(p)
  /\ UNCHANGED <<directory, backup>>

\* A second server finds the address in use.
Listen(p) ==
  /\ pc[p] = "listen"
  /\ IF listener = None
     THEN listener' = p /\ Goto(p, "serving") /\ UNCHANGED held
     ELSE Exit(p)
  /\ UNCHANGED <<directory, backup>>

\* Service.CreatePoll, of which only the keys matter here: the first event of the poll's log
\* gets a checkpoint.
CreatePoll(p) ==
  /\ pc[p] = "serving" /\ Cardinality(directory.polls) < MaxPolls
  /\ directory' = [directory EXCEPT !.polls = @ \cup
       {[issuer |-> held[p].issuer, signers |-> {held[p].checkpoint}]}]
  /\ UNCHANGED <<backup, pc, held, listener>>

\* A claim, a ballot or a close, likewise.
Sign(p, poll) ==
  /\ pc[p] = "serving"
  /\ directory' = [directory EXCEPT !.polls = (@ \ {poll}) \cup
       {[poll EXCEPT !.signers = @ \cup {held[p].checkpoint}]}]
  /\ UNCHANGED <<backup, pc, held, listener>>

------------------------------------------------------------------------------
(* Kills, and the operator, who touches the files only while nothing runs *)

\* A signal, a kill, a loss of power or the failure of a step: a transaction under way is
\* rolled back, and what is in the directory stays there.
Kill(p) ==
  /\ p \in Running
  /\ End(p, "killed")
  /\ UNCHANGED <<directory, backup>>

OperatorStep == Running = {} /\ UNCHANGED <<pc, held, listener>>

Backup == OperatorStep /\ backup' = directory /\ UNCHANGED directory

Restore == OperatorStep /\ backup # None /\ directory' = backup /\ UNCHANGED backup

RestoreDatabaseOnly ==
  /\ OperatorStep /\ backup # None
  /\ directory' = [backup EXCEPT !.checkpoint = directory.checkpoint, !.issuer = directory.issuer]
  /\ UNCHANGED backup

LoseKey ==
  /\ OperatorStep
  /\ \E field \in {"checkpoint", "issuer"} :
       /\ directory[field] # None
       /\ directory' = [directory EXCEPT ![field] = None]
  /\ UNCHANGED backup

Mistake == RestoreDatabaseOnly \/ LoseKey

------------------------------------------------------------------------------
StartInit ==
  /\ directory = Empty /\ backup = None
  /\ pc = [p \in Processes |-> "stopped"]
  /\ held = [p \in Processes |-> NoKeys]
  /\ listener = None

Step(p) ==
  \/ StatCheckpoint(p) \/ StatIssuer(p)
  \/ LoadCheckpointKey(p) \/ RefuseCheckpointKey(p) \/ GenerateCheckpointKey(p)
  \/ CreateCheckpointFile(p) \/ WriteCheckpointKey(p)
  \/ LoadIssuerKey(p) \/ GenerateIssuerKey(p) \/ LinkIssuerKey(p)
  \/ ReadVersion(p) \/ Migrate(p) \/ Ready(p) \/ Listen(p)

StartNext ==
  \/ \E p \in Processes :
       \/ Start(p) \/ Step(p) \/ CreatePoll(p) \/ Kill(p)
       \/ \E poll \in directory.polls : Sign(p, poll)
  \/ Backup \/ Restore \/ Mistake

StartSpec == StartInit /\ [][StartNext]_startVars

\* A process that runs goes on, and the service manager starts a server that has ended.
StartFairness ==
  /\ \A p \in Processes : WF_startVars(Step(p))
  /\ \A p \in Servers : WF_startVars(Start(p))

FairStartSpec == StartSpec /\ StartFairness

------------------------------------------------------------------------------
(* Properties *)

\* The keys a process works with are those in the directory, so that whatever it signs can
\* be verified after its end: no other process that starts at the same time replaces them.
KeysAreOnDisk ==
  \A p \in Processes :
    pc[p] \in {"read version", "migrate", "ready", "listen", "serving"} =>
      held[p] = [checkpoint |-> directory.checkpoint, issuer |-> directory.issuer]

\* No poll's log is continued under a second checkpoint key: not after a key file was lost
\* and created anew, nor after the database alone was restored, nor by servers that start
\* at the same time (docs/operations.md, lines 20-22 and 130-131).
OneSigner == \A poll \in directory.polls : Cardinality(poll.signers) <= 1

\* A server claims and counts only for polls of its own issuer key: it could not issue
\* credentials for another's.
IssuesItsOwn ==
  \A p \in Servers : pc[p] = "serving" =>
    \A poll \in directory.polls : poll.issuer = held[p].issuer

\* A diagnosis creates no key file, though it calls the function that creates one: between its
\* look at the two files and its reading of them nobody takes them away.
DiagnoseCreatesNoKey ==
  \A p \in Diagnosers : pc[p] \notin {"create checkpoint", "write checkpoint", "link issuer"}

\* In the end nothing is killed, the operator leaves the files alone, and they are those the
\* polls were created and kept under.
Undisturbed == <>[][~Restore /\ ~Mistake /\ \A p \in Processes : ~Kill(p)]_startVars
SameFiles == <>[](\A poll \in directory.polls : Passes(poll, directory))

Serving == \E p \in Servers : pc[p] = "serving"

\* Restarting with the same files serves the polls again, wherever the kills came
\* (docs/prds/002, lines 62 and 453).
RestartServes == Undisturbed /\ SameFiles => []<>Serving

\* It does if no kill came between the creation of the checkpoint key's file and its write:
\* whatever else a kill leaves behind (a temporary file, a schema not migrated) is no
\* obstacle, and of servers started together one gets through.
WholeFilesServe == Undisturbed /\ SameFiles /\ <>[](directory.checkpoint # Torn) => []<>Serving
==============================================================================
