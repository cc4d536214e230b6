---------------------------- MODULE StartupProofs ----------------------------
(***************************************************************************)
(* What TLAPS proves of the processes that start on one directory, for any   *)
(* number of servers, diagnoses, keys and polls.                            *)
(***************************************************************************)
EXTENDS Startup, FiniteSetTheorems, TLAPS

USE StartupAssumption

------------------------------------------------------------------------------
(* The inductive invariant *)

Stages ==
  {"stopped", "killed", "stat checkpoint", "stat issuer", "read checkpoint",
   "create checkpoint", "write checkpoint", "read issuer", "link issuer",
   "read version", "migrate", "ready", "listen", "serving"}

\* The stages at which a process has both keys.
Equipped == {"read version", "migrate", "ready", "listen", "serving"}

PollKeys == [issuer : IssuerKeys, signers : SUBSET CheckpointKeys]

Directories ==
  [checkpoint : CheckpointKeys \cup {None, Torn}, issuer : IssuerKeys \cup {None},
   tables : BOOLEAN, version : BOOLEAN, polls : SUBSET PollKeys]

HeldKeys == [checkpoint : CheckpointKeys \cup {None}, issuer : IssuerKeys \cup {None}]

StartTypeOK ==
  /\ directory \in Directories
  /\ backup \in Directories \cup {None}
  /\ pc \in [Processes -> Stages]
  /\ held \in [Processes -> HeldKeys]
  /\ listener \in Processes \cup {None}

\* The checkpoint key a process has generated or loaded; who writes the file is alone with it.
CheckpointKeyKnown(p) ==
  /\ pc[p] \in {"create checkpoint", "write checkpoint", "read issuer", "link issuer"}
                 \cup Equipped => held[p].checkpoint \in CheckpointKeys
  /\ pc[p] \in {"read issuer", "link issuer"} \cup Equipped =>
       held[p].checkpoint = directory.checkpoint
  /\ pc[p] = "write checkpoint" => directory.checkpoint = Torn

IssuerKeyKnown(p) ==
  /\ pc[p] \in {"link issuer"} \cup Equipped => held[p].issuer \in IssuerKeys
  /\ pc[p] \in Equipped => held[p].issuer = directory.issuer

OneWriter ==
  \A p, q \in Processes : pc[p] = "write checkpoint" /\ pc[q] = "write checkpoint" => p = q

\* A diagnosis that reads the files has seen them.
SawTheFiles(p) ==
  /\ pc[p] \in {"stat issuer", "read checkpoint"} => directory.checkpoint # None
  /\ pc[p] \notin {"create checkpoint", "write checkpoint", "link issuer"}

\* A process that has passed the readiness check has the keys of all polls.
PollsChecked(p) ==
  pc[p] \in {"listen", "serving"} => \A poll \in directory.polls : Passes(poll, held[p])

OneKey(polls) == \A poll \in polls : \E k \in CheckpointKeys : poll.signers \subseteq {k}

StartInv ==
  /\ StartTypeOK
  /\ \A p \in Processes : CheckpointKeyKnown(p) /\ IssuerKeyKnown(p) /\ PollsChecked(p)
  /\ OneWriter
  /\ \A p \in Diagnosers : SawTheFiles(p)
  /\ OneKey(directory.polls)
  /\ backup # None => OneKey(backup.polls)

------------------------------------------------------------------------------
\* Every step, of the processes or of the operator, keeps the types: what is written to the files
\* is a key, and a poll is created and signed under keys.
LEMMA TypeStep == StartInv /\ [StartNext]_startVars => StartTypeOK'
<1> SUFFICES ASSUME StartInv, [StartNext]_startVars
             PROVE  StartTypeOK'
  OBVIOUS
<1> StartTypeOK
  BY DEF StartInv
<1> USE DEF StartTypeOK
<1>g. ASSUME NEW p \in Processes, NEW step \in Stages, Goto(p, step)
      PROVE  pc' \in [Processes -> Stages]
  BY <1>g DEF Goto
<1>e. ASSUME NEW p \in Processes, NEW how \in Stages, End(p, how),
             UNCHANGED <<directory, backup>>
      PROVE  StartTypeOK'
  <2>1. NoKeys \in HeldKeys
    BY DEF NoKeys, HeldKeys
  <2> QED
    BY <2>1, <1>g, <1>e DEF End
<1>x. \A p \in Processes : Exit(p) /\ UNCHANGED <<directory, backup>> => StartTypeOK'
  BY <1>e DEF Exit, Stages
<1>h. ASSUME NEW p \in Processes, NEW k,
             \/ k \in CheckpointKeys /\ held' = [held EXCEPT ![p].checkpoint = k]
             \/ k \in IssuerKeys /\ held' = [held EXCEPT ![p].issuer = k]
      PROVE  held' \in [Processes -> HeldKeys]
  <2>1. ASSUME NEW keys \in HeldKeys
        PROVE  /\ k \in CheckpointKeys => [keys EXCEPT !.checkpoint = k] \in HeldKeys
               /\ k \in IssuerKeys => [keys EXCEPT !.issuer = k] \in HeldKeys
    BY DEF HeldKeys
  <2>2. held[p] \in HeldKeys
    OBVIOUS
  <2>3. CASE k \in CheckpointKeys /\ held' = [held EXCEPT ![p].checkpoint = k]
    <3>1. [held[p] EXCEPT !.checkpoint = k] \in HeldKeys
      BY <2>1, <2>2, <2>3
    <3>2. held' = [held EXCEPT ![p] = [held[p] EXCEPT !.checkpoint = k]]
      BY <2>3
    <3> QED
      BY <3>1, <3>2
  <2>4. CASE k \in IssuerKeys /\ held' = [held EXCEPT ![p].issuer = k]
    <3>1. [held[p] EXCEPT !.issuer = k] \in HeldKeys
      BY <2>1, <2>2, <2>4
    <3>2. held' = [held EXCEPT ![p] = [held[p] EXCEPT !.issuer = k]]
      BY <2>4
    <3> QED
      BY <3>1, <3>2
  <2> QED
    BY <1>h, <2>3, <2>4
<1>s. ASSUME NEW p \in Processes, NEW step \in Stages, Goto(p, step),
             directory' \in Directories, UNCHANGED <<backup, listener>>,
             held' \in [Processes -> HeldKeys]
      PROVE  StartTypeOK'
  BY <1>g, <1>s
<1>0. CASE UNCHANGED startVars
  BY <1>0 DEF startVars
<1>1. ASSUME NEW p \in Processes, Start(p) \/ ReadVersion(p)
      PROVE  StartTypeOK'
  BY <1>1, <1>s DEF Start, ReadVersion, Stages
<1>2. ASSUME NEW p \in Processes, StatCheckpoint(p) \/ StatIssuer(p) \/ Ready(p)
      PROVE  StartTypeOK'
  BY <1>2, <1>s, <1>x DEF StatCheckpoint, StatIssuer, Ready, Stages
<1>3. ASSUME NEW p \in Processes, LoadCheckpointKey(p) \/ LoadIssuerKey(p)
      PROVE  StartTypeOK'
  <2>1. directory.issuer \in IssuerKeys \cup {None}
    BY DEF Directories
  <2> QED
    BY <1>3, <2>1, <1>s, <1>h DEF LoadCheckpointKey, LoadIssuerKey, Stages
<1>4. ASSUME NEW p \in Processes, RefuseCheckpointKey(p)
      PROVE  StartTypeOK'
  BY <1>4, <1>x DEF RefuseCheckpointKey
<1>5. ASSUME NEW p \in Processes, GenerateCheckpointKey(p) \/ GenerateIssuerKey(p)
      PROVE  StartTypeOK'
  BY <1>5, <1>s, <1>h, <1>x DEF GenerateCheckpointKey, GenerateIssuerKey, Fresh, Stages
<1>6. ASSUME NEW p \in Processes, CreateCheckpointFile(p) \/ WriteCheckpointKey(p)
      PROVE  StartTypeOK'
  <2>1. held[p].checkpoint \in CheckpointKeys \cup {None}
    BY DEF HeldKeys
  <2>2. directory' \in Directories
    BY <1>6, <2>1 DEF CreateCheckpointFile, WriteCheckpointKey, Directories
  <2> QED
    BY <1>6, <2>2, <1>s, <1>x DEF CreateCheckpointFile, WriteCheckpointKey, Stages
<1>7. ASSUME NEW p \in Processes, LinkIssuerKey(p)
      PROVE  StartTypeOK'
  <2>1. held[p].issuer \in IssuerKeys \cup {None}
    BY DEF HeldKeys
  <2>2. directory' \in Directories
    BY <1>7, <2>1 DEF LinkIssuerKey, Directories
  <2> QED
    BY <1>7, <2>2, <1>s DEF LinkIssuerKey, Stages
<1>8. ASSUME NEW p \in Processes, Migrate(p)
      PROVE  StartTypeOK'
  <2>1. directory' \in Directories
    BY <1>8 DEF Migrate, Directories
  <2> QED
    BY <1>8, <2>1, <1>s, <1>x DEF Migrate, Stages
<1>9. ASSUME NEW p \in Processes, Listen(p)
      PROVE  StartTypeOK'
  BY <1>9, <1>g, <1>x DEF Listen, Stages
<1>10. ASSUME NEW p \in Processes, Kill(p)
       PROVE  StartTypeOK'
  BY <1>10, <1>e DEF Kill, Stages
<1>11. ASSUME NEW p \in Processes, CreatePoll(p)
       PROVE  StartTypeOK'
  <2>1. held[p].checkpoint \in CheckpointKeys /\ held[p].issuer \in IssuerKeys
    BY <1>11 DEF CreatePoll, StartInv, CheckpointKeyKnown, IssuerKeyKnown, Equipped
  <2> QED
    BY <1>11, <2>1 DEF CreatePoll, Directories, PollKeys
<1>12. ASSUME NEW p \in Processes, NEW poll \in directory.polls, Sign(p, poll)
       PROVE  StartTypeOK'
  <2> DEFINE signed == [poll EXCEPT !.signers = @ \cup {held[p].checkpoint}]
  <2>1. held[p].checkpoint \in CheckpointKeys
    BY <1>12 DEF Sign, StartInv, CheckpointKeyKnown, Equipped
  <2>2. poll \in PollKeys
    BY DEF Directories
  <2>3. signed \in PollKeys
    BY <2>1, <2>2 DEF PollKeys
  <2>4. (directory.polls \ {poll}) \cup {signed} \in SUBSET PollKeys
    BY <2>3 DEF Directories
  <2>5. directory' \in Directories
    BY <1>12, <2>4 DEF Sign, Directories
  <2> QED
    BY <1>12, <2>5 DEF Sign
<1>13. CASE Backup \/ Restore \/ Mistake
  BY <1>13 DEF Backup, Restore, Mistake, RestoreDatabaseOnly, LoseKey, OperatorStep, Directories
<1> QED
  BY <1>0, <1>1, <1>2, <1>3, <1>4, <1>5, <1>6, <1>7, <1>8, <1>9, <1>10, <1>11, <1>12, <1>13
     DEF StartNext, Step

------------------------------------------------------------------------------
\* Nothing runs while the operator is at the files.
LEMMA OperatorPreserves ==
  ASSUME StartInv, StartTypeOK', Backup \/ Restore \/ Mistake
  PROVE  StartInv'
<1>1. \A p \in Processes : pc[p] \in {"stopped", "killed"}
  BY DEF Backup, Restore, Mistake, RestoreDatabaseOnly, LoseKey, OperatorStep, Running
<1>2. UNCHANGED <<pc, held>>
  BY DEF Backup, Restore, Mistake, RestoreDatabaseOnly, LoseKey, OperatorStep
<1>3. \A p \in Processes : CheckpointKeyKnown(p)' /\ IssuerKeyKnown(p)' /\ PollsChecked(p)'
  BY <1>1, <1>2 DEF CheckpointKeyKnown, IssuerKeyKnown, PollsChecked, Equipped
<1>4. OneWriter'
  BY <1>1, <1>2 DEF OneWriter
<1>5. \A p \in Diagnosers : SawTheFiles(p)'
  BY <1>1, <1>2 DEF SawTheFiles, Processes
<1>6. OneKey(directory'.polls) /\ (backup' # None => OneKey(backup'.polls))
  BY DEF StartInv, StartTypeOK, Directories, Backup, Restore, Mistake, RestoreDatabaseOnly,
         LoseKey, OperatorStep
<1> QED
  BY <1>3, <1>4, <1>5, <1>6 DEF StartInv

\* What is to be shown of a step that leaves the directory alone.
LEMMA Frame ==
  ASSUME StartInv, StartTypeOK', NEW p \in Processes,
         UNCHANGED <<directory, backup>>,
         \A q \in Processes \ {p} : pc'[q] = pc[q] /\ held'[q] = held[q],
         pc'[p] # "write checkpoint",
         CheckpointKeyKnown(p)', IssuerKeyKnown(p)', PollsChecked(p)',
         p \in Diagnosers => SawTheFiles(p)'
  PROVE  StartInv'
<1>1. \A q \in Processes : CheckpointKeyKnown(q)'
  BY DEF StartInv, CheckpointKeyKnown
<1>2. \A q \in Processes : IssuerKeyKnown(q)'
  BY DEF StartInv, IssuerKeyKnown
<1>3. \A q \in Processes : PollsChecked(q)'
  <2>1. ASSUME NEW q \in Processes \ {p}
        PROVE  PollsChecked(q)'
    <3>1. pc'[q] = pc[q] /\ held'[q] = held[q] /\ directory' = directory
      OBVIOUS
    <3>2. PollsChecked(q)
      BY DEF StartInv
    <3> QED
      BY <3>1, <3>2 DEF PollsChecked, Passes
  <2> QED
    BY <2>1
<1>4. OneWriter'
  BY DEF StartInv, OneWriter
<1>5. \A q \in Diagnosers : SawTheFiles(q)'
  BY DEF StartInv, SawTheFiles, Processes
<1> QED
  BY <1>1, <1>2, <1>3, <1>4, <1>5 DEF StartInv

\* A step of one process moves no other.
LEMMA GotoSets ==
  ASSUME StartTypeOK, NEW p \in Processes, NEW step, Goto(p, step)
  PROVE  pc'[p] = step /\ \A q \in Processes \ {p} : pc'[q] = pc[q]
BY DEF StartTypeOK, Goto

\* A process that ends or is killed, at any step, leaves the files as they are.
LEMMA EndPreserves ==
  ASSUME StartInv, StartTypeOK', NEW p \in Processes,
         End(p, "stopped") \/ End(p, "killed"), UNCHANGED <<directory, backup>>
  PROVE  StartInv'
<1>1. /\ pc'[p] \in {"stopped", "killed"}
      /\ \A q \in Processes \ {p} : pc'[q] = pc[q] /\ held'[q] = held[q]
  BY GotoSets DEF StartInv, StartTypeOK, End
<1>2. CheckpointKeyKnown(p)' /\ IssuerKeyKnown(p)' /\ PollsChecked(p)' /\ SawTheFiles(p)'
  BY <1>1 DEF CheckpointKeyKnown, IssuerKeyKnown, PollsChecked, SawTheFiles, Equipped
<1> QED
  BY <1>1, <1>2, Frame

\* A process that looks, generates a key or ends changes nothing for the others.
LEMMA OwnStepPreserves ==
  ASSUME StartInv, StartTypeOK', NEW p \in Processes,
         \/ Start(p) \/ StatCheckpoint(p) \/ StatIssuer(p) \/ LoadCheckpointKey(p)
         \/ RefuseCheckpointKey(p) \/ GenerateCheckpointKey(p) \/ LoadIssuerKey(p)
         \/ GenerateIssuerKey(p) \/ ReadVersion(p) \/ Ready(p) \/ Listen(p) \/ Kill(p)
  PROVE  StartInv'
<1> DEFINE Known == /\ CheckpointKeyKnown(p) /\ IssuerKeyKnown(p) /\ PollsChecked(p)
                    /\ p \in Diagnosers => SawTheFiles(p)
<1>k. Known
  BY DEF StartInv
<1>t. StartTypeOK
  BY DEF StartInv
<1>x. CASE (End(p, "stopped") \/ End(p, "killed")) /\ UNCHANGED <<directory, backup>>
  BY <1>x, EndPreserves
<1>s. ASSUME NEW step, Goto(p, step), UNCHANGED <<directory, backup>>,
             \A q \in Processes \ {p} : held'[q] = held[q],
             step # "write checkpoint", pc'[p] = step => Known'
      PROVE  StartInv'
  BY <1>s, <1>t, GotoSets, Frame
<1>1. CASE Start(p)
  <2>1. ASSUME pc'[p] \in {"read checkpoint", "stat checkpoint"},
               p \in Diagnosers => pc'[p] = "stat checkpoint"
        PROVE  Known'
    BY <2>1 DEF CheckpointKeyKnown, IssuerKeyKnown, PollsChecked, SawTheFiles, Equipped
  <2> QED
    BY <1>1, <2>1, <1>s DEF Start
<1>2. CASE StatCheckpoint(p) \/ StatIssuer(p)
  <2>1. ASSUME UNCHANGED directory, p \in Diagnosers => directory.checkpoint # None,
               pc'[p] \in {"stat issuer", "read checkpoint"}
        PROVE  Known'
    BY <2>1 DEF CheckpointKeyKnown, IssuerKeyKnown, PollsChecked, SawTheFiles, Equipped
  <2>2. CASE Exit(p) /\ UNCHANGED <<directory, backup>>
    BY <2>2, <1>x DEF Exit
  <2>3. CASE /\ p \in Diagnosers => directory.checkpoint # None
             /\ UNCHANGED <<directory, backup, held, listener>>
             /\ Goto(p, "stat issuer") \/ Goto(p, "read checkpoint")
    BY <2>3, <2>1, <1>s
  <2> QED
    BY <1>2, <2>2, <2>3, <1>k DEF StatCheckpoint, StatIssuer, SawTheFiles
<1>3. CASE LoadCheckpointKey(p)
  <2>1. held'[p].checkpoint = directory.checkpoint /\ directory.checkpoint \in CheckpointKeys
    BY <1>3, <1>t DEF LoadCheckpointKey, StartTypeOK, HeldKeys
  <2>2. ASSUME pc'[p] = "read issuer"
        PROVE  Known'
    BY <1>3, <2>1, <2>2
       DEF LoadCheckpointKey, CheckpointKeyKnown, IssuerKeyKnown, PollsChecked, SawTheFiles,
           Equipped
  <2> QED
    BY <1>3, <2>2, <1>s, <1>t DEF LoadCheckpointKey, StartTypeOK
<1>4. CASE RefuseCheckpointKey(p)
  BY <1>4, <1>x DEF RefuseCheckpointKey, Exit
<1>5. CASE GenerateCheckpointKey(p)
  <2>1. PICK k \in CheckpointKeys : held' = [held EXCEPT ![p].checkpoint = k]
    BY <1>5 DEF GenerateCheckpointKey, Fresh
  <2>2. held'[p].checkpoint = k
    BY <2>1, <1>t DEF StartTypeOK, HeldKeys
  <2>3. p \notin Diagnosers
    BY <1>5, <1>k DEF GenerateCheckpointKey, SawTheFiles
  <2>4. ASSUME pc'[p] = "create checkpoint"
        PROVE  Known'
    BY <2>2, <2>3, <2>4 DEF CheckpointKeyKnown, IssuerKeyKnown, PollsChecked, Equipped
  <2> QED
    BY <1>5, <2>1, <2>4, <1>s, <1>t DEF GenerateCheckpointKey, StartTypeOK
<1>6. CASE LoadIssuerKey(p)
  <2>1. directory.issuer \in IssuerKeys
    BY <1>6, <1>t DEF LoadIssuerKey, StartTypeOK, Directories
  <2>2. held'[p].issuer = directory.issuer /\ held'[p].checkpoint = held[p].checkpoint
    BY <1>6, <1>t DEF LoadIssuerKey, StartTypeOK, HeldKeys
  <2>3. ASSUME pc'[p] = "read version"
        PROVE  Known'
    BY <1>6, <2>1, <2>2, <2>3, <1>k
       DEF LoadIssuerKey, CheckpointKeyKnown, IssuerKeyKnown, PollsChecked, SawTheFiles,
           Equipped
  <2> QED
    BY <1>6, <2>3, <1>s, <1>t DEF LoadIssuerKey, StartTypeOK
<1>7. CASE GenerateIssuerKey(p)
  <2>1. CASE Exit(p) /\ UNCHANGED <<directory, backup>>
    BY <2>1, <1>x DEF Exit
  <2>2. CASE p \in Servers
    <3>1. PICK k \in IssuerKeys : held' = [held EXCEPT ![p].issuer = k]
      BY <1>7, <2>2 DEF GenerateIssuerKey, Fresh
    <3>2. held'[p].issuer = k /\ held'[p].checkpoint = held[p].checkpoint
      BY <3>1, <1>t DEF StartTypeOK, HeldKeys
    <3>3. ASSUME pc'[p] = "link issuer"
          PROVE  Known'
      BY <1>7, <2>2, <3>1, <3>2, <3>3, <1>k
         DEF GenerateIssuerKey, CheckpointKeyKnown, IssuerKeyKnown, PollsChecked, Equipped
    <3> QED
      BY <1>7, <2>2, <3>1, <3>3, <1>s, <1>t DEF GenerateIssuerKey, StartTypeOK
  <2> QED
    BY <1>7, <2>1, <2>2 DEF GenerateIssuerKey
<1>8. CASE ReadVersion(p)
  <2>1. ASSUME pc'[p] \in {"ready", "migrate"}
        PROVE  Known'
    BY <1>8, <2>1, <1>k
       DEF ReadVersion, CheckpointKeyKnown, IssuerKeyKnown, PollsChecked, SawTheFiles, Equipped
  <2> QED
    BY <1>8, <2>1, <1>s DEF ReadVersion
<1>9. CASE Ready(p)
  <2>1. CASE Exit(p) /\ UNCHANGED <<directory, backup>>
    BY <2>1, <1>x DEF Exit
  <2>2. CASE /\ \A poll \in directory.polls : Passes(poll, held[p])
             /\ Goto(p, "listen") /\ UNCHANGED <<directory, backup, held, listener>>
    <3>1. ASSUME pc'[p] = "listen"
          PROVE  /\ CheckpointKeyKnown(p)' /\ IssuerKeyKnown(p)'
                 /\ p \in Diagnosers => SawTheFiles(p)'
      BY <1>9, <2>2, <3>1, <1>k
         DEF Ready, CheckpointKeyKnown, IssuerKeyKnown, SawTheFiles, Equipped
    <3>2. PollsChecked(p)'
      BY <2>2 DEF PollsChecked, Passes
    <3> QED
      BY <2>2, <3>1, <3>2, <1>s
  <2> QED
    BY <1>9, <2>1, <2>2 DEF Ready
<1>10. CASE Listen(p)
  <2>1. CASE Exit(p) /\ UNCHANGED <<directory, backup>>
    BY <2>1, <1>x DEF Exit
  <2>2. CASE Goto(p, "serving") /\ UNCHANGED <<directory, backup, held>>
    <3>1. ASSUME pc'[p] = "serving"
          PROVE  /\ CheckpointKeyKnown(p)' /\ IssuerKeyKnown(p)'
                 /\ p \in Diagnosers => SawTheFiles(p)'
      BY <1>10, <2>2, <3>1, <1>k
         DEF Listen, CheckpointKeyKnown, IssuerKeyKnown, SawTheFiles, Equipped
    <3>2. PollsChecked(p)'
      BY <1>10, <2>2, <1>k DEF Listen, PollsChecked, Passes
    <3> QED
      BY <2>2, <3>1, <3>2, <1>s
  <2> QED
    BY <1>10, <2>1, <2>2 DEF Listen
<1>11. CASE Kill(p)
  BY <1>11, <1>x DEF Kill
<1> QED
  BY <1>1, <1>2, <1>3, <1>4, <1>5, <1>6, <1>7, <1>8, <1>9, <1>10, <1>11

------------------------------------------------------------------------------
\* Creating and writing the checkpoint key's file disturbs no process: the file of one that
\* has its checkpoint key is neither absent nor half-written.
LEMMA CheckpointFilePreserves ==
  ASSUME StartInv, StartTypeOK', NEW p \in Processes,
         CreateCheckpointFile(p) \/ WriteCheckpointKey(p)
  PROVE  StartInv'
<1>t. StartTypeOK
  BY DEF StartInv
<1>k. \A q \in Processes : CheckpointKeyKnown(q) /\ IssuerKeyKnown(q) /\ PollsChecked(q)
  BY DEF StartInv
<1>1. CASE Exit(p) /\ UNCHANGED <<directory, backup>>
  BY <1>1, EndPreserves DEF Exit
<1>2. CASE /\ directory.checkpoint = None /\ directory' = [directory EXCEPT !.checkpoint = Torn]
           /\ pc[p] = "create checkpoint" /\ Goto(p, "write checkpoint")
           /\ UNCHANGED <<backup, held>>
  <2>1. pc'[p] = "write checkpoint" /\ \A q \in Processes \ {p} : pc'[q] = pc[q]
    BY <1>2, <1>t, GotoSets
  <2>2. directory'.checkpoint = Torn /\ directory'.polls = directory.polls
    BY <1>2, <1>t DEF StartTypeOK, Directories
  <2>3. \A q \in Processes : pc[q] \notin {"write checkpoint", "read issuer", "link issuer"}
                                            \cup Equipped
    BY <1>2, <1>k DEF CheckpointKeyKnown
  <2>4. \A q \in Processes : CheckpointKeyKnown(q)'
    BY <1>2, <1>k, <2>1, <2>2, <2>3 DEF CheckpointKeyKnown, Equipped
  <2>5. \A q \in Processes : IssuerKeyKnown(q)' /\ PollsChecked(q)'
    BY <2>1, <2>3 DEF IssuerKeyKnown, PollsChecked, Equipped
  <2>6. OneWriter'
    BY <2>1, <2>3 DEF OneWriter
  <2>7. \A q \in Diagnosers : SawTheFiles(q)'
    <3>1. p \notin Diagnosers
      BY <1>2 DEF StartInv, SawTheFiles
    <3> QED
      BY <3>1, <2>1, <2>2 DEF StartInv, SawTheFiles, Processes
  <2> QED
    BY <1>2, <2>2, <2>4, <2>5, <2>6, <2>7 DEF StartInv
<1>3. CASE WriteCheckpointKey(p)
  <2> USE <1>3 DEF WriteCheckpointKey
  <2>1. pc'[p] = "read issuer" /\ \A q \in Processes \ {p} : pc'[q] = pc[q]
    BY <1>t, GotoSets
  <2>2. directory.checkpoint = Torn /\ held[p].checkpoint \in CheckpointKeys
    BY <1>k DEF CheckpointKeyKnown
  <2>3. directory'.checkpoint = held[p].checkpoint /\ directory'.polls = directory.polls
    BY <1>t DEF StartTypeOK, Directories
  <2>4. /\ \A q \in Processes : pc[q] \notin {"read issuer", "link issuer"} \cup Equipped
        /\ \A q \in Processes \ {p} : pc[q] # "write checkpoint"
    BY <1>k, <2>2 DEF CheckpointKeyKnown, StartInv, OneWriter
  <2>5. \A q \in Processes : CheckpointKeyKnown(q)'
    BY <1>k, <2>1, <2>2, <2>3, <2>4 DEF CheckpointKeyKnown, Equipped
  <2>6. \A q \in Processes : IssuerKeyKnown(q)' /\ PollsChecked(q)'
    BY <2>1, <2>4 DEF IssuerKeyKnown, PollsChecked, Equipped
  <2>7. OneWriter'
    BY <2>1, <2>4 DEF OneWriter
  <2>8. \A q \in Diagnosers : SawTheFiles(q)'
    BY <2>1, <2>2, <2>3 DEF StartInv, SawTheFiles, Processes
  <2> QED
    BY <2>3, <2>5, <2>6, <2>7, <2>8 DEF StartInv
<1> QED
  BY <1>1, <1>2, <1>3 DEF CreateCheckpointFile

\* The issuer key's file gets its name only where no file has it, and then no process has an
\* issuer key that it works with.
LEMMA IssuerFilePreserves ==
  ASSUME StartInv, StartTypeOK', NEW p \in Processes, LinkIssuerKey(p)
  PROVE  StartInv'
<1>t. StartTypeOK
  BY DEF StartInv
<1>k. \A q \in Processes : CheckpointKeyKnown(q) /\ IssuerKeyKnown(q) /\ PollsChecked(q)
  BY DEF StartInv
<1>n. p \notin Diagnosers
  BY DEF LinkIssuerKey, StartInv, SawTheFiles
<1>1. CASE UNCHANGED directory /\ Goto(p, "read issuer")
  <2>1. pc'[p] = "read issuer" /\ \A q \in Processes \ {p} : pc'[q] = pc[q]
    BY <1>1, <1>t, GotoSets
  <2>2. CheckpointKeyKnown(p)' /\ IssuerKeyKnown(p)' /\ PollsChecked(p)'
    BY <1>1, <1>k, <2>1
       DEF LinkIssuerKey, CheckpointKeyKnown, IssuerKeyKnown, PollsChecked, Equipped
  <2> QED
    BY <1>1, <1>n, <2>1, <2>2, Frame DEF LinkIssuerKey
<1>2. CASE /\ directory.issuer = None /\ directory' = [directory EXCEPT !.issuer = held[p].issuer]
           /\ Goto(p, "read version")
  <2>1. pc'[p] = "read version" /\ \A q \in Processes \ {p} : pc'[q] = pc[q]
    BY <1>2, <1>t, GotoSets
  <2>2. /\ directory'.issuer = held[p].issuer
        /\ directory'.checkpoint = directory.checkpoint
        /\ directory'.polls = directory.polls
    BY <1>2, <1>t DEF StartTypeOK, Directories
  <2>3. \A q \in Processes : pc[q] \notin Equipped
    BY <1>2, <1>k DEF IssuerKeyKnown
  <2>4. \A q \in Processes : CheckpointKeyKnown(q)'
    BY <1>k, <2>1, <2>2 DEF LinkIssuerKey, CheckpointKeyKnown, Equipped
  <2>5. \A q \in Processes : IssuerKeyKnown(q)' /\ PollsChecked(q)'
    BY <1>k, <2>1, <2>2, <2>3 DEF LinkIssuerKey, IssuerKeyKnown, PollsChecked, Equipped
  <2>6. OneWriter'
    BY <2>1 DEF StartInv, OneWriter
  <2>7. \A q \in Diagnosers : SawTheFiles(q)'
    BY <1>n, <2>1, <2>2 DEF StartInv, SawTheFiles, Processes
  <2> QED
    BY <2>2, <2>4, <2>5, <2>6, <2>7 DEF StartInv, LinkIssuerKey
<1> QED
  BY <1>1, <1>2 DEF LinkIssuerKey

\* The migration touches neither the keys nor the polls.
LEMMA MigratePreserves ==
  ASSUME StartInv, StartTypeOK', NEW p \in Processes, Migrate(p)
  PROVE  StartInv'
<1>t. StartTypeOK
  BY DEF StartInv
<1>k. \A q \in Processes : CheckpointKeyKnown(q) /\ IssuerKeyKnown(q) /\ PollsChecked(q)
  BY DEF StartInv
<1>1. CASE Exit(p) /\ UNCHANGED <<directory, backup>>
  BY <1>1, EndPreserves DEF Exit
<1>2. CASE /\ directory' = [directory EXCEPT !.tables = TRUE, !.version = TRUE]
           /\ Goto(p, "ready") /\ UNCHANGED held
  <2>1. pc'[p] = "ready" /\ \A q \in Processes \ {p} : pc'[q] = pc[q]
    BY <1>2, <1>t, GotoSets
  <2>2. /\ directory'.checkpoint = directory.checkpoint
        /\ directory'.issuer = directory.issuer
        /\ directory'.polls = directory.polls
    BY <1>2, <1>t DEF StartTypeOK, Directories
  <2>3. \A q \in Processes : CheckpointKeyKnown(q)' /\ IssuerKeyKnown(q)'
    BY <1>2, <1>k, <2>1, <2>2 DEF Migrate, CheckpointKeyKnown, IssuerKeyKnown, Equipped
  <2>4. \A q \in Processes : PollsChecked(q)'
    BY <1>2, <1>k, <2>1, <2>2 DEF PollsChecked, Passes
  <2>5. OneWriter'
    BY <2>1 DEF StartInv, OneWriter
  <2>6. \A q \in Diagnosers : SawTheFiles(q)'
    BY <2>1, <2>2 DEF StartInv, SawTheFiles, Processes
  <2> QED
    BY <2>2, <2>3, <2>4, <2>5, <2>6 DEF StartInv, Migrate
<1> QED
  BY <1>1, <1>2 DEF Migrate

\* A poll created or continued by a server is one that every other server would pass: they all
\* have the keys that are in the directory.
LEMMA PollsPreserve ==
  ASSUME StartInv, StartTypeOK', NEW p \in Processes, pc[p] = "serving",
         UNCHANGED <<backup, pc, held>>,
         NEW poll, Passes(poll, held[p]), NEW old,
         directory' = [directory EXCEPT !.polls = (directory.polls \ old) \cup {poll}]
  PROVE  StartInv'
<1>t. StartTypeOK
  BY DEF StartInv
<1>k. \A q \in Processes : CheckpointKeyKnown(q) /\ IssuerKeyKnown(q) /\ PollsChecked(q)
  BY DEF StartInv
<1>1. /\ directory'.checkpoint = directory.checkpoint
      /\ directory'.issuer = directory.issuer
      /\ directory'.polls = (directory.polls \ old) \cup {poll}
  BY <1>t DEF StartTypeOK, Directories
<1>2. \A q \in Processes : CheckpointKeyKnown(q)' /\ IssuerKeyKnown(q)'
  BY <1>k, <1>1 DEF CheckpointKeyKnown, IssuerKeyKnown
<1>3. \A q \in Processes : PollsChecked(q)'
  <2>1. ASSUME NEW q \in Processes, pc[q] \in {"listen", "serving"}
        PROVE  held[q].checkpoint = held[p].checkpoint /\ held[q].issuer = held[p].issuer
    BY <1>k, <2>1 DEF CheckpointKeyKnown, IssuerKeyKnown, Equipped
  <2> QED
    BY <1>k, <1>1, <2>1 DEF PollsChecked, Passes
<1>4. OneWriter' /\ \A q \in Diagnosers : SawTheFiles(q)'
  BY <1>1 DEF StartInv, OneWriter, SawTheFiles
<1>5. OneKey(directory'.polls)
  <2>1. held[p].checkpoint \in CheckpointKeys
    BY <1>k DEF CheckpointKeyKnown, Equipped
  <2> QED
    BY <1>1, <2>1 DEF StartInv, OneKey, Passes
<1> QED
  BY <1>2, <1>3, <1>4, <1>5 DEF StartInv

\* A new poll has the issuer key of the server that creates it and is signed by its checkpoint key.
LEMMA CreatePollPreserves ==
  ASSUME StartInv, StartTypeOK', NEW p \in Processes, CreatePoll(p)
  PROVE  StartInv'
<1> DEFINE poll == [issuer |-> held[p].issuer, signers |-> {held[p].checkpoint}]
<1>1. Passes(poll, held[p])
  BY DEF Passes
<1>2. directory' = [directory EXCEPT !.polls = (directory.polls \ {}) \cup {poll}]
  BY DEF CreatePoll
<1> QED
  BY <1>1, <1>2, PollsPreserve DEF CreatePoll

\* A server appends to a poll it has passed, so that the poll has its checkpoint key already.
LEMMA SignPreserves ==
  ASSUME StartInv, StartTypeOK', NEW p \in Processes, NEW poll \in directory.polls,
         Sign(p, poll)
  PROVE  StartInv'
<1> DEFINE signed == [poll EXCEPT !.signers = @ \cup {held[p].checkpoint}]
<1>1. poll \in PollKeys /\ Passes(poll, held[p])
  BY DEF StartInv, StartTypeOK, Directories, PollsChecked, Sign
<1>2. Passes(signed, held[p])
  BY <1>1 DEF Passes, PollKeys
<1>3. directory' = [directory EXCEPT !.polls = (directory.polls \ {poll}) \cup {signed}]
  BY DEF Sign
<1> QED
  BY <1>2, <1>3, PollsPreserve DEF Sign

------------------------------------------------------------------------------
\* The invariant holds of an empty directory with nothing running.
LEMMA StartInvInit == StartInit => StartInv
<1> SUFFICES ASSUME StartInit PROVE StartInv
  OBVIOUS
<1>1. StartTypeOK
  BY DEF StartInit, StartTypeOK, Empty, NoKeys, Directories, HeldKeys, Stages
<1>2. \A p \in Processes : pc[p] = "stopped"
  BY DEF StartInit
<1>3. \A p \in Processes : CheckpointKeyKnown(p) /\ IssuerKeyKnown(p) /\ PollsChecked(p)
  BY <1>2 DEF CheckpointKeyKnown, IssuerKeyKnown, PollsChecked, Equipped
<1>4. OneWriter /\ \A p \in Diagnosers : SawTheFiles(p)
  BY <1>2 DEF OneWriter, SawTheFiles, Processes
<1>5. OneKey(directory.polls) /\ backup = None
  BY DEF StartInit, Empty, OneKey
<1> QED
  BY <1>1, <1>3, <1>4, <1>5 DEF StartInv

\* Every step preserves the invariant.
LEMMA StartInvStep == StartInv /\ [StartNext]_startVars => StartInv'
<1> SUFFICES ASSUME StartInv, [StartNext]_startVars PROVE StartInv'
  OBVIOUS
<1>1. StartTypeOK'
  BY TypeStep
<1>2. CASE UNCHANGED startVars
  BY <1>2 DEF startVars, StartInv, StartTypeOK, CheckpointKeyKnown, IssuerKeyKnown, PollsChecked,
              OneWriter, SawTheFiles, OneKey, Passes
<1>3. ASSUME NEW p \in Processes, Start(p) \/ Step(p) \/ Kill(p)
      PROVE  StartInv'
  BY <1>1, <1>3, OwnStepPreserves, CheckpointFilePreserves, IssuerFilePreserves, MigratePreserves
     DEF Step
<1>4. ASSUME NEW p \in Processes, CreatePoll(p)
      PROVE  StartInv'
  BY <1>1, <1>4, CreatePollPreserves
<1>5. ASSUME NEW p \in Processes, NEW poll \in directory.polls, Sign(p, poll)
      PROVE  StartInv'
  BY <1>1, <1>5, SignPreserves
<1>6. CASE Backup \/ Restore \/ Mistake
  BY <1>1, <1>6, OperatorPreserves
<1> QED
  BY <1>2, <1>3, <1>4, <1>5, <1>6 DEF StartNext

------------------------------------------------------------------------------
(* The theorems *)

\* The invariant holds in every state that servers, diagnoses and the operator can reach.
THEOREM StartInvHolds == StartSpec => []StartInv
BY StartInvInit, StartInvStep, PTL DEF StartSpec

\* However many processes start at once and wherever they are killed, one that has passed the
\* key files works with the keys that are in them.
THEOREM KeysStayOnDisk == StartSpec => []KeysAreOnDisk
<1>1. StartInv => KeysAreOnDisk
  <2> SUFFICES ASSUME StartInv, NEW p \in Processes, pc[p] \in Equipped
               PROVE  held[p] = [checkpoint |-> directory.checkpoint,
                                 issuer |-> directory.issuer]
    BY DEF KeysAreOnDisk, Equipped
  <2>1. held[p] \in HeldKeys
    BY DEF StartInv, StartTypeOK
  <2>2. held[p].checkpoint = directory.checkpoint /\ held[p].issuer = directory.issuer
    BY DEF StartInv, CheckpointKeyKnown, IssuerKeyKnown
  <2> QED
    BY <2>1, <2>2 DEF HeldKeys
<1> QED
  BY <1>1, StartInvHolds, PTL

\* No poll's log is continued under a second checkpoint key, whatever keys are lost and
\* whichever part of a backup is restored.
THEOREM OneSignerEver == StartSpec => []OneSigner
<1>1. StartInv => OneSigner
  <2> SUFFICES ASSUME StartInv, NEW poll \in directory.polls
               PROVE  Cardinality(poll.signers) <= 1
    BY DEF OneSigner
  <2>1. PICK k \in CheckpointKeys : poll.signers \subseteq {k}
    BY DEF StartInv, OneKey
  <2>2. IsFiniteSet({k}) /\ Cardinality({k}) = 1
    BY FS_Singleton
  <2> QED
    BY <2>1, <2>2, FS_Subset
<1> QED
  BY <1>1, StartInvHolds, PTL

\* A server serves only polls of its own issuer key.
THEOREM ServersIssueTheirOwn == StartSpec => []IssuesItsOwn
<1>1. StartInv => IssuesItsOwn
  BY DEF StartInv, PollsChecked, Passes, IssuesItsOwn, Processes
<1> QED
  BY <1>1, StartInvHolds, PTL

\* A diagnosis never comes to create a key file.
THEOREM DiagnosesCreateNoKey == StartSpec => []DiagnoseCreatesNoKey
<1>1. StartInv => DiagnoseCreatesNoKey
  BY DEF StartInv, SawTheFiles, DiagnoseCreatesNoKey
<1> QED
  BY <1>1, StartInvHolds, PTL
==============================================================================
