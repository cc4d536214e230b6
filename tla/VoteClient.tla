------------------------------ MODULE VoteClient ------------------------------
(***************************************************************************)
(* The `vota vote` command (internal/cli/sequencercmd) against the          *)
(* sequencer: runs of the command that load or create the recovery file,    *)
(* claim, vote, write the receipt and remove the recovery file, with        *)
(* processes killed at any point, connections that break before or after    *)
(* the sequencer acted, and an administrator and a clock that may end the   *)
(* poll meanwhile.                                                          *)
(*                                                                         *)
(* A message is on the wire between a run and the sequencer.  When the run  *)
(* dies or gives up, a request not yet served may still reach the           *)
(* sequencer: it becomes an orphan, whose answer nobody reads.              *)
(***************************************************************************)
EXTENDS Sequencer

CONSTANTS
  Poll,         \* the poll of the URL all runs are given
  Runs,         \* processes of the command that can exist at a time
  Voter,        \* Voter[u]: the member whose identity run u uses
  Wishes,       \* Wishes[m]: the choices member m may pick from in a run
  RequestFor,   \* RequestFor[b]: the request identifier drawn together with b
  MaxFailures   \* bound on kills and broken connections

ASSUME VoteClientAssumption ==
  /\ Poll \in Polls
  /\ Voter \in [Runs -> Members]
  /\ Wishes \in [Members -> SUBSET Choices]
  /\ RequestFor \in [Blindings -> RequestIDs]
  /\ MaxFailures \in Nat
  /\ None \notin Members

\* Every blinded message hides a serial of its own: another message, another credential.
ASSUME SerialAssumption ==
  \A b, d \in Blindings : Unblind[b] = Unblind[d] => b = d

VARIABLES
  pc,        \* pc[u]: where run u is, "idle" between runs
  choice,    \* choice[u]: the choice given to run u
  held,      \* held[u]: the blinded message run u holds in memory, or None
  wire,      \* wire[u]: the request or the answer on the connection of run u, or None
  orphans,   \* requests whose run is gone and that may still be served
  file,      \* file[m]: the recovery file, by the blinded message it names, or None
  kept,      \* receipt files, by credential
  told,      \* told[m]: the choices for which a run printed "Vote recorded"
  drawn,     \* drawn[b]: the member who drew b from the random source, or None
  failures   \* kills and broken connections so far

clientVars == <<pc, choice, held, wire, orphans, file, kept, told, drawn, failures>>
allVars == <<vars, clientVars>>

------------------------------------------------------------------------------
(* Messages *)

ClaimRequest(b) == [is |-> "claim", request |-> RequestFor[b], blinded |-> b]
VoteRequest(b, ch) == [is |-> "vote", credential |-> Unblind[b], choice |-> ch]
Signature(b) == [is |-> "signature", blinded |-> b]
ReceiptAnswer(r) == [is |-> "receipt", receipt |-> r]
Refusal(request) == [is |-> "refused", of |-> request]

Requests ==
  {ClaimRequest(b) : b \in Blindings}
    \cup {VoteRequest(b, ch) : b \in Blindings, ch \in Choices}

Answers ==
  {Signature(b) : b \in Blindings} \cup [is : {"receipt"}, receipt : Receipt]
    \cup {Refusal(request) : request \in Requests}

ASSUME NoMessageAssumption == None \notin Requests \cup Answers

ClientTypeOK ==
  /\ pc \in [Runs -> {"idle", "load", "create", "claim", "claiming", "vote", "voting",
                      "save", "remove", "print"}]
  /\ choice \in [Runs -> Choices \cup {None}]
  /\ held \in [Runs -> Blindings \cup {None}]
  /\ wire \in [Runs -> {None} \cup Requests \cup Answers]
  /\ \A u \in Runs :
       /\ pc[u] = "idle" <=> choice[u] = None
       /\ pc[u] \in {"idle", "load", "create"} <=> held[u] = None
  /\ orphans \subseteq [member : Members, request : Requests]
  /\ file \in [Members -> Blindings \cup {None}]
  /\ kept \subseteq Receipt
  /\ told \in [Members -> SUBSET Choices]
  /\ drawn \in [Blindings -> Members \cup {None}]
  /\ failures \in 0..MaxFailures

------------------------------------------------------------------------------
(* The sequencer's side of a connection *)

\* Mutant: a claim on record is not recognised when it is sent again.
ClaimSucceeds_NoRetry(m, request) ==
  /\ IsOpen(Poll)
  /\ m \in Roster[Poll]
  /\ credits[Poll][m] = Unclaimed

\* Claim answers with a signature: the poll is open, the member eligible, and its credit
\* unclaimed or claimed by this very request.
ClaimSucceeds(m, request) ==
  /\ IsOpen(Poll)
  /\ m \in Roster[Poll]
  /\ credits[Poll][m] \in
       {Unclaimed, [request |-> request.request, blinded |-> request.blinded]}

\* Vote answers with a receipt: the stored one if the credential is spent on this choice,
\* a new one if it is unspent and the poll open.
VoteSucceeds(request) ==
  /\ ValidCredential(Poll, request.credential)
  /\ request.choice \in ChoicesOf[Poll]
  /\ IF IsSpent(Poll, request.credential)
     THEN ChoiceOnRecord(Poll, request.credential) = request.choice
     ELSE IsOpen(Poll) /\ AcceptsBallots(ballotEvents[Poll])

\* What a request does to the sequencer.
Serve(m, request) ==
  \/ /\ request.is = "claim" /\ ClaimSucceeds(m, request)
     /\ \/ ClaimCredit(Poll, m, request.request, request.blinded)
        \/ RepeatClaim(Poll, m, request.request, request.blinded)
  \/ /\ request.is = "vote" /\ VoteSucceeds(request)
     /\ \/ Vote(Poll, request.credential, request.choice)
        \/ RepeatVote(Poll, request.credential, request.choice)
  \/ /\ \/ request.is = "claim" /\ ~ClaimSucceeds(m, request)
        \/ request.is = "vote" /\ ~VoteSucceeds(request)
     /\ UNCHANGED vars

\* The answer to a request that Serve has just served.
AnswerTo(m, request) ==
  CASE request.is = "claim" /\ ClaimSucceeds(m, request) -> Signature(request.blinded)
    [] request.is = "vote" /\ VoteSucceeds(request) ->
         ReceiptAnswer(ReceiptOf(Poll, ballotEvents'[Poll][spent'[Poll][request.credential]]))
    [] OTHER -> Refusal(request)

ServeRun(u) ==
  /\ wire[u] \in Requests
  /\ Serve(Voter[u], wire[u])
  /\ wire' = [wire EXCEPT ![u] = AnswerTo(Voter[u], wire[u])]
  /\ UNCHANGED <<pc, choice, held, orphans, file, kept, told, drawn, failures>>

ServeOrphan ==
  \E o \in orphans :
    /\ Serve(o.member, o.request)
    /\ orphans' = orphans \ {o}
    /\ UNCHANGED <<pc, choice, held, wire, file, kept, told, drawn, failures>>

------------------------------------------------------------------------------
(* A run of the command *)

Goto(u, from, to) == pc[u] = from /\ pc' = [pc EXCEPT ![u] = to]

\* The run ends, with success or with an error, and forgets what it held.
EndRun(u) ==
  /\ pc' = [pc EXCEPT ![u] = "idle"]
  /\ choice' = [choice EXCEPT ![u] = None]
  /\ held' = [held EXCEPT ![u] = None]
  /\ wire' = [wire EXCEPT ![u] = None]

\* The poll is fetched and its artifact verified, and the voter picks a choice.
Start(u) ==
  /\ state[Poll] # "absent"
  /\ Goto(u, "idle", "load")
  /\ \E ch \in Wishes[Voter[u]] : choice' = [choice EXCEPT ![u] = ch]
  /\ UNCHANGED <<vars, held, wire, orphans, file, kept, told, drawn, failures>>

\* Mutant: a missing recovery file is read as an empty one.
LoadState_NoFileCheck(u) ==
  /\ Goto(u, "load", "claim")
  /\ held' = [held EXCEPT ![u] = file[Voter[u]]]
  /\ UNCHANGED <<vars, choice, wire, orphans, file, kept, told, drawn, failures>>

\* os.ReadFile finds the recovery file of an earlier run and resumes it ...
LoadState(u) ==
  /\ file[Voter[u]] # None
  /\ Goto(u, "load", "claim")
  /\ held' = [held EXCEPT ![u] = file[Voter[u]]]
  /\ UNCHANGED <<vars, choice, wire, orphans, file, kept, told, drawn, failures>>

\* ... or finds none.
MissState(u) ==
  /\ file[Voter[u]] = None
  /\ Goto(u, "load", "create")
  /\ UNCHANGED <<vars, choice, held, wire, orphans, file, kept, told, drawn, failures>>

\* A fresh request and blinded message, put in place by a rename whatever is there by now.
CreateState(u) ==
  \E b \in Blindings :
    /\ drawn[b] = None
    /\ Goto(u, "create", "claim")
    /\ drawn' = [drawn EXCEPT ![b] = Voter[u]]
    /\ file' = [file EXCEPT ![Voter[u]] = b]
    /\ held' = [held EXCEPT ![u] = b]
    /\ UNCHANGED <<vars, choice, wire, orphans, kept, told, failures>>

SendClaim(u) ==
  /\ Goto(u, "claim", "claiming")
  /\ wire' = [wire EXCEPT ![u] = ClaimRequest(held[u])]
  /\ UNCHANGED <<vars, choice, held, orphans, file, kept, told, drawn, failures>>

\* Finalize verifies the signature and makes the credential.
ReceiveSignature(u) ==
  /\ wire[u] = Signature(held[u])
  /\ Goto(u, "claiming", "vote")
  /\ wire' = [wire EXCEPT ![u] = None]
  /\ UNCHANGED <<vars, choice, held, orphans, file, kept, told, drawn, failures>>

SendVote(u) ==
  /\ Goto(u, "vote", "voting")
  /\ wire' = [wire EXCEPT ![u] = VoteRequest(held[u], choice[u])]
  /\ UNCHANGED <<vars, choice, held, orphans, file, kept, told, drawn, failures>>

\* VerifyReceiptForBallot: the receipt names this poll, credential and choice.
ReceiptMatches(u, receipt) ==
  receipt.poll = Poll /\ receipt.credential = Unblind[held[u]] /\ receipt.choice = choice[u]

ReceiveReceipt(u) ==
  /\ pc[u] = "voting" /\ wire[u] # None
  /\ wire[u].is = "receipt" /\ ReceiptMatches(u, wire[u].receipt)
  /\ Goto(u, "voting", "save")
  /\ UNCHANGED <<vars, choice, held, wire, orphans, file, kept, told, drawn, failures>>

\* The receipt is written to a temporary file, synced and renamed.
SaveReceipt(u) ==
  /\ Goto(u, "save", "remove")
  /\ kept' = kept \cup {wire[u].receipt}
  /\ UNCHANGED <<vars, choice, held, wire, orphans, file, told, drawn, failures>>

\* Only then is the recovery file removed, whichever it is by now ...
RemoveState(u) ==
  /\ Goto(u, "remove", "print")
  /\ file' = [file EXCEPT ![Voter[u]] = None]
  /\ UNCHANGED <<vars, choice, held, wire, orphans, kept, told, drawn, failures>>

\* ... and the voter told.
PrintRecorded(u) ==
  /\ pc[u] = "print"
  /\ told' = [told EXCEPT ![Voter[u]] = @ \cup {choice[u]}]
  /\ EndRun(u)
  /\ UNCHANGED <<vars, orphans, file, kept, drawn, failures>>

\* Mutant: the recovery file is removed however the run ends.
ReceiveRefusal_Cleanup(u) ==
  /\ wire[u] # None /\ wire[u].is = "refused"
  /\ EndRun(u)
  /\ file' = [file EXCEPT ![Voter[u]] = None]
  /\ UNCHANGED <<vars, orphans, kept, told, drawn, failures>>

\* Mutant: a credential already spent is taken for a vote recorded.
ReceiveRefusal_AsSuccess(u) ==
  /\ pc[u] = "voting" /\ wire[u] # None /\ wire[u].is = "refused"
  /\ Goto(u, "voting", "print")
  /\ UNCHANGED <<vars, choice, held, wire, orphans, file, kept, told, drawn, failures>>

\* An error answer ends the run.
ReceiveRefusal(u) ==
  /\ wire[u] # None /\ wire[u].is = "refused"
  /\ EndRun(u)
  /\ UNCHANGED <<vars, orphans, file, kept, told, drawn, failures>>

\* The process is killed, or its connection breaks or times out while it waits: a request
\* it has sent is lost or still under way.
Fail(u) ==
  /\ pc[u] # "idle"
  /\ failures < MaxFailures
  /\ failures' = failures + 1
  /\ EndRun(u)
  /\ \/ orphans' = orphans
     \/ /\ wire[u] \in Requests
        /\ orphans' = orphans \cup {[member |-> Voter[u], request |-> wire[u]]}
  /\ UNCHANGED <<vars, file, kept, told, drawn>>

------------------------------------------------------------------------------
ClientInit ==
  /\ Init
  /\ pc = [u \in Runs |-> "idle"]
  /\ choice = [u \in Runs |-> None]
  /\ held = [u \in Runs |-> None]
  /\ wire = [u \in Runs |-> None]
  /\ orphans = {}
  /\ file = [m \in Members |-> None]
  /\ kept = {}
  /\ told = [m \in Members |-> {}]
  /\ drawn = [b \in Blindings |-> None]
  /\ failures = 0

RunStep(u) ==
  \/ LoadState(u) \/ MissState(u) \/ CreateState(u)
  \/ SendClaim(u) \/ ReceiveSignature(u)
  \/ SendVote(u) \/ ReceiveReceipt(u)
  \/ SaveReceipt(u) \/ RemoveState(u) \/ PrintRecorded(u) \/ ReceiveRefusal(u)

ClientNext ==
  \/ \E u \in Runs : Start(u) \/ RunStep(u) \/ Fail(u) \/ ServeRun(u)
  \/ ServeOrphan
  \/ (CreatePoll(Poll) \/ ClosePoll(Poll) \/ SetClock) /\ UNCHANGED clientVars

ClientSpec == ClientInit /\ [][ClientNext]_allVars

\* A run that is not killed goes on, the sequencer serves what reaches it, and a voter runs
\* the command again.  Kills and broken connections are not fair and are bounded.
ClientFairness ==
  \A u \in Runs : WF_allVars(Start(u)) /\ WF_allVars(RunStep(u)) /\ WF_allVars(ServeRun(u))

FairClientSpec == ClientSpec /\ ClientFairness

------------------------------------------------------------------------------
(* Properties *)

\* The credential a member's claim on record is worth.
CredentialOf(m) == Unblind[credits[Poll][m].blinded]

HasClaim(m) == credits[Poll][m] # Unclaimed

HasReceipt(m) == HasClaim(m) /\ \E r \in kept : r.credential = CredentialOf(m)

\* A claimed credit is never stranded: until its receipt is on disk, the recovery file names
\* the claim on record, so a later run can send the same request (docs/prds/002, lines 404
\* and 560).
ClaimRecoverable ==
  \A m \in Members : HasClaim(m) => file[m] = credits[Poll][m].blinded \/ HasReceipt(m)

\* An interrupted issuance can be resumed: when no run of a member is under way, a claim
\* on record without a receipt is the one the recovery file names (docs/prds/002, line 404).
InterruptedClaimResumes ==
  \A m \in Members :
    HasClaim(m) /\ ~HasReceipt(m) /\ (\A u \in Runs : Voter[u] = m => pc[u] = "idle")
      => file[m] = credits[Poll][m].blinded

\* However often a voter runs the command, with whatever choices, the log holds at most one
\* ballot on a credential that voter drew.
OneBallotPerVoter ==
  \A m \in Members :
    Cardinality({i \in Ballots(ballotEvents[Poll]) :
      \E b \in Blindings :
        drawn[b] = m /\ ballotEvents[Poll][i].artifact.credential = Unblind[b]}) <= 1

\* A voter told "Vote recorded" was told so for one choice, and the log holds a ballot for
\* it on the voter's credential; a file kept as a receipt is that of a ballot in the log.
ToldIsCounted ==
  /\ \A m \in Members : \A ch \in told[m] :
       /\ told[m] = {ch}
       /\ HasClaim(m) /\ ChoiceOnRecord(Poll, CredentialOf(m)) = ch
  /\ \A r \in kept : r = ReceiptOf(Poll, ballotEvents[Poll][r.sequence])

\* Sending the claim on record again returns the stored signature: it is never refused
\* (docs/prds/002, line 522).
ExactRetryAnswered ==
  \A u \in Runs : wire[u] # None =>
    ~(\E b \in Blindings :
        /\ wire[u] = Refusal(ClaimRequest(b))
        /\ credits[Poll][Voter[u]] = [request |-> RequestFor[b], blinded |-> b])

\* In all its runs the member chooses this.
SticksTo(m, ch) == \A u \in Runs : Voter[u] = m => choice[u] \in {None, ch}

BallotForAnother(m, ch) ==
  HasClaim(m) /\ ChoiceOnRecord(Poll, CredentialOf(m)) \notin {None, ch}

\* A member who in the end sticks to one choice, however often the mind was changed before,
\* ends up with a receipt once the claim is on record, unless the poll stops being open
\* first or the ballot on record is for another choice.
ClaimLeadsToReceipt ==
  \A m \in Members, ch \in Choices :
    (<>[]SticksTo(m, ch)) =>
      (HasClaim(m) ~> \/ HasReceipt(m)
                      \/ ~IsOpen(Poll)
                      \/ BallotForAnother(m, ch))
==============================================================================
