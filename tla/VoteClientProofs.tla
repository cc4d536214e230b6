--------------------------- MODULE VoteClientProofs ---------------------------
(***************************************************************************)
(* What TLAPS proves of the vote command.  The first part holds for any     *)
(* number of overlapping runs: what a run holds, sends and is answered      *)
(* belongs to its own voter, so a voter gets at most one ballot and is told *)
(* the truth about it.  The second part needs that no two runs of a member  *)
(* are under way at once: then a claimed credit is never stranded.          *)
(***************************************************************************)
EXTENDS VoteClient, SequencerProofs

USE SequencerAssumption, VoteClientAssumption

------------------------------------------------------------------------------
(* The inductive invariants *)

\* What a run holds and sends, what outlives it and what its recovery file names was drawn
\* by the member itself, and so was the message of the claim on record.
DrawnByVoter ==
  /\ \A u \in Runs : held[u] # None => drawn[held[u]] = Voter[u]
  /\ \A u \in Runs, b \in Blindings : wire[u] = ClaimRequest(b) => drawn[b] = Voter[u]
  /\ \A o \in orphans, b \in Blindings : o.request = ClaimRequest(b) => drawn[b] = o.member
  /\ \A m \in Members : file[m] # None => drawn[file[m]] = m
  /\ \A m \in Members : HasClaim(m) => drawn[credits[Poll][m].blinded] = m

\* The claim on record for member m is for the blinded message b.
Claimed(m, b) == HasClaim(m) /\ credits[Poll][m].blinded = b

\* Run u has its signature.
Signed(u) == pc[u] \in {"vote", "voting", "save", "remove", "print"}

\* Run u has its receipt.
Recorded(u) == pc[u] \in {"save", "remove", "print"}

\* A receipt is on the connection of run u.
HasAnswer(u) == wire[u] # None /\ wire[u].is = "receipt"

\* The sequencer has answered a receipt for this choice on the member's credential.
Receipted(m, ch) ==
  \E r \in receipts : r.poll = Poll /\ r.credential = CredentialOf(m) /\ r.choice = ch

\* A run goes on only with what the sequencer has answered: the signature on its own claim,
\* then a receipt for its own ballot.  Files and messages to the voter are backed by one.
AnswersOnWire ==
  /\ \A u \in Runs, b \in Blindings : wire[u] = Signature(b) => Claimed(Voter[u], b)
  /\ \A u \in Runs : Signed(u) => Claimed(Voter[u], held[u])
  /\ \A u \in Runs : HasAnswer(u) => wire[u].receipt \in receipts
  /\ \A u \in Runs : Recorded(u) => HasAnswer(u) /\ ReceiptMatches(u, wire[u].receipt)
  /\ \A r \in kept : r \in receipts /\ r.poll = Poll
  /\ \A m \in Members : \A ch \in told[m] : HasClaim(m) /\ Receipted(m, ch)

SequencerInv == IInv /\ RecordInv /\ AnswersStand /\ ResultsOfClosedPolls

VoterInv == SequencerInv /\ ClientTypeOK /\ DrawnByVoter /\ AnswersOnWire

\* A claim that may still be made is the one in the recovery file, which is only replaced
\* where there is none and only removed once the receipt is on disk.
OnFile ==
  /\ \A m \in Members : ~HasClaim(m) =>
       /\ \A u \in Runs : Voter[u] = m /\ pc[u] \in {"claim", "claiming"} => held[u] = file[m]
       /\ \A u \in Runs, b \in Blindings :
            Voter[u] = m /\ wire[u] = ClaimRequest(b) => b = file[m]
       /\ \A o \in orphans, b \in Blindings :
            o.member = m /\ o.request = ClaimRequest(b) => b = file[m]
  /\ \A u \in Runs : pc[u] = "create" => file[Voter[u]] = None
  /\ \A u \in Runs : pc[u] = "remove" => HasReceipt(Voter[u])

OneRunEach == \A u, v \in Runs : Voter[u] = Voter[v] => u = v

RecoverInv == VoterInv /\ OnFile /\ ClaimRecoverable

------------------------------------------------------------------------------
(* Messages *)

\* What a request and an answer say, by which they are told apart.
LEMMA MessageFields ==
  /\ \A b : ClaimRequest(b).is = "claim" /\ ClaimRequest(b).blinded = b
            /\ ClaimRequest(b).request = RequestFor[b]
  /\ \A b, ch : VoteRequest(b, ch).is = "vote" /\ VoteRequest(b, ch).credential = Unblind[b]
                /\ VoteRequest(b, ch).choice = ch
  /\ \A b : Signature(b).is = "signature" /\ Signature(b).blinded = b
  /\ \A r : ReceiptAnswer(r).is = "receipt" /\ ReceiptAnswer(r).receipt = r
  /\ \A q : Refusal(q).is = "refused"
BY DEF ClaimRequest, VoteRequest, Signature, ReceiptAnswer, Refusal

\* A request is a claim or a vote.
LEMMA RequestKinds ==
  ASSUME NEW request \in Requests
  PROVE  \/ /\ request.is = "claim"
            /\ \E b \in Blindings : request = ClaimRequest(b)
         \/ /\ request.is = "vote"
            /\ \E b \in Blindings, ch \in Choices : request = VoteRequest(b, ch)
BY MessageFields DEF Requests

\* No answer is a request, and a receipt on the wire is one of the sequencer's kind.
LEMMA AnswerKinds ==
  ASSUME NEW answer \in Requests \cup Answers
  PROVE  /\ answer.is \in {"claim", "vote"} <=> answer \in Requests
         /\ answer \in Answers <=> answer \notin Requests
         /\ answer.is = "receipt" => answer.receipt \in Receipt
<1>1. answer \in Requests => answer.is \in {"claim", "vote"}
  BY RequestKinds
<1>2. ASSUME answer \in Answers
      PROVE  /\ answer.is \in {"signature", "receipt", "refused"}
             /\ answer.is = "receipt" => answer.receipt \in Receipt
  <2>1. CASE answer \in {Signature(b) : b \in Blindings}
    BY <2>1, MessageFields
  <2>2. CASE answer \in [is : {"receipt"}, receipt : Receipt]
    BY <2>2
  <2>3. CASE answer \in {Refusal(request) : request \in Requests}
    BY <2>3, MessageFields
  <2> QED
    BY <1>2, <2>1, <2>2, <2>3 DEF Answers
<1> QED
  BY <1>1, <1>2

\* A claim request is told from every other message by what it says.
LEMMA ClaimRequestAlone ==
  ASSUME NEW b \in Blindings
  PROVE  /\ ClaimRequest(b) \in Requests /\ ClaimRequest(b) \notin Answers
         /\ ClaimRequest(b) # None
         /\ \A d \in Blindings : ClaimRequest(b) = ClaimRequest(d) => b = d
         /\ \A d, ch : ClaimRequest(b) # VoteRequest(d, ch)
<1>1. ClaimRequest(b) \in Requests
  BY DEF Requests
<1>2. ClaimRequest(b) \notin Answers /\ ClaimRequest(b) # None
  BY <1>1, AnswerKinds, NoMessageAssumption
<1>3. \A d \in Blindings : ClaimRequest(b) = ClaimRequest(d) => b = d
  BY MessageFields
<1>4. \A d, ch : ClaimRequest(b) # VoteRequest(d, ch)
  <2>1. ClaimRequest(b).is = "claim" /\ \A d, ch : VoteRequest(d, ch).is = "vote"
    BY MessageFields
  <2> QED
    BY <2>1
<1> QED
  BY <1>1, <1>2, <1>3, <1>4

------------------------------------------------------------------------------
(* The sequencer's side *)

\* What is done for a request is an operation of the sequencer, or nothing.
LEMMA ServeIsStep ==
  ASSUME NEW m \in Members, NEW request \in Requests, Serve(m, request)
  PROVE  [Next]_vars
<1>1. Poll \in Polls
  OBVIOUS
<1>2. CASE request.is = "claim" /\ ClaimSucceeds(m, request)
  <2>1. PICK b \in Blindings : request = ClaimRequest(b)
    BY <1>2, RequestKinds
  <2>2. request.request \in RequestIDs /\ request.blinded \in Blindings
    BY <2>1, MessageFields
  <2>3. \/ ClaimCredit(Poll, m, request.request, request.blinded)
        \/ RepeatClaim(Poll, m, request.request, request.blinded)
    BY <1>2 DEF Serve
  <2> QED
    BY <1>1, <2>2, <2>3 DEF Next
<1>3. CASE request.is = "vote" /\ VoteSucceeds(request)
  <2>1. PICK b \in Blindings, ch \in Choices : request = VoteRequest(b, ch)
    BY <1>3, RequestKinds
  <2>2. request.credential \in Credentials /\ request.choice \in Choices
    BY <2>1, MessageFields
  <2>3. \/ Vote(Poll, request.credential, request.choice)
        \/ RepeatVote(Poll, request.credential, request.choice)
    BY <1>3 DEF Serve
  <2> QED
    BY <1>1, <2>2, <2>3 DEF Next
<1> QED
  BY <1>2, <1>3 DEF Serve

\* Every step of the client project is one of the sequencer, or leaves it alone.
LEMMA ClientStepsAreSteps ==
  ASSUME ClientTypeOK, [ClientNext]_allVars
  PROVE  [Next]_vars
<1>1. ASSUME NEW u \in Runs, Start(u) \/ Fail(u) PROVE UNCHANGED vars
  BY <1>1 DEF Start, Fail
<1>2. ASSUME NEW u \in Runs, RunStep(u) PROVE UNCHANGED vars
  BY <1>2 DEF RunStep, LoadState, MissState, CreateState, SendClaim, ReceiveSignature, SendVote,
              ReceiveReceipt, SaveReceipt, RemoveState, PrintRecorded, ReceiveRefusal
<1>3. ASSUME NEW u \in Runs, ServeRun(u) PROVE [Next]_vars
  BY <1>3, ServeIsStep DEF ServeRun
<1>4. ASSUME ServeOrphan PROVE [Next]_vars
  <2>1. PICK o \in orphans : Serve(o.member, o.request)
    BY <1>4 DEF ServeOrphan
  <2>2. o.member \in Members /\ o.request \in Requests
    BY <2>1 DEF ClientTypeOK
  <2> QED
    BY <2>1, <2>2, ServeIsStep
<1>5. CreatePoll(Poll) \/ ClosePoll(Poll) \/ SetClock => [Next]_vars
  BY DEF Next
<1>6. UNCHANGED allVars => UNCHANGED vars
  BY DEF allVars
<1> QED
  BY <1>1, <1>2, <1>3, <1>4, <1>5, <1>6 DEF ClientNext

\* The invariants of the sequencer hold of it here too.
LEMMA SequencerInvStep ==
  ASSUME SequencerInv, ClientTypeOK, [ClientNext]_allVars
  PROVE  SequencerInv'
BY ClientStepsAreSteps, NextInvariant, RecordInvStep, AnswersStep DEF SequencerInv

\* A claim on record stays, and so do the receipts.
LEMMA ClaimsStay ==
  ASSUME SequencerInv, ClientTypeOK, [ClientNext]_allVars
  PROVE  /\ \A m \in Members : HasClaim(m) => credits'[Poll][m] = credits[Poll][m]
         /\ receipts \subseteq receipts'
<1>1. [Next]_vars
  BY ClientStepsAreSteps
<1>2. RecordStands(Poll)
  BY <1>1, HistoryStep DEF SequencerInv, IInv
<1> QED
  BY <1>1, <1>2, AnswersGrow DEF RecordStands, HasClaim

\* The credit that a claim on record fills is that of member m, and no other changes.
LEMMA ServeClaims ==
  ASSUME TypeOK, NEW m \in Members, NEW request \in Requests, Serve(m, request)
  PROVE  \A n \in Members :
           \/ credits'[Poll][n] = credits[Poll][n]
           \/ /\ n = m /\ ~HasClaim(m) /\ HasClaim(m)'
              /\ \E b \in Blindings :
                   request = ClaimRequest(b) /\ credits'[Poll][m].blinded = b
<1>1. CASE request.is = "claim" /\ ClaimSucceeds(m, request)
  <2>1. PICK b \in Blindings : request = ClaimRequest(b)
    BY <1>1, RequestKinds
  <2>2. CASE ClaimCredit(Poll, m, request.request, request.blinded)
    <3>1. /\ credits[Poll][m] = Unclaimed
          /\ credits' = [credits EXCEPT ![Poll][m] = [request |-> request.request,
                                                      blinded |-> request.blinded]]
      BY <2>2 DEF ClaimCredit
    <3>2. credits \in [Polls -> [Members -> Credit]] /\ Poll \in Polls
      BY DEF TypeOK
    <3>3. /\ credits'[Poll][m] = [request |-> request.request, blinded |-> request.blinded]
          /\ \A n \in Members \ {m} : credits'[Poll][n] = credits[Poll][n]
      BY <3>1, <3>2
    <3>4. request.blinded = b
      BY <2>1, MessageFields
    <3>5. [request |-> request.request, blinded |-> request.blinded] # Unclaimed
      <4> DEFINE row == [request |-> request.request, blinded |-> request.blinded]
      <4>1. row.blinded = b /\ Unclaimed.blinded = None /\ b # None
        BY <3>4 DEF Unclaimed
      <4> HIDE DEF row
      <4>2. row # Unclaimed
        BY <4>1
      <4> QED
        BY <4>2 DEF row
    <3> QED
      BY <2>1, <3>1, <3>3, <3>4, <3>5 DEF HasClaim
  <2>3. CASE RepeatClaim(Poll, m, request.request, request.blinded)
    BY <2>3 DEF RepeatClaim, tables
  <2> QED
    BY <1>1, <2>2, <2>3 DEF Serve
<1>2. CASE request.is = "vote" /\ VoteSucceeds(request)
  BY <1>2 DEF Serve, Vote, RepeatVote, tables
<1>3. CASE UNCHANGED vars
  BY <1>3 DEF vars, tables
<1> QED
  BY <1>1, <1>2, <1>3 DEF Serve

\* A signature is answered to a member whose claim is then on record with that message; a
\* receipt answered is one the sequencer has given.
LEMMA AnswerFits ==
  ASSUME IInv, NEW m \in Members, NEW request \in Requests, Serve(m, request)
  PROVE  /\ AnswerTo(m, request) \in Answers
         /\ \A b \in Blindings : AnswerTo(m, request) = Signature(b) => Claimed(m, b)'
         /\ AnswerTo(m, request).is = "receipt" => AnswerTo(m, request).receipt \in receipts'
<1>1. [Next]_vars /\ TypeOK /\ TypeOK'
  BY ServeIsStep, NextInvariant DEF IInv
<1>2. CASE request.is = "claim" /\ ClaimSucceeds(m, request)
  <2>1. PICK b \in Blindings : request = ClaimRequest(b)
    BY <1>2, RequestKinds
  <2>2. request.blinded = b /\ request.is = "claim"
    BY <2>1, MessageFields
  <2>3. AnswerTo(m, request) = Signature(b)
    BY <1>2, <2>2 DEF AnswerTo
  <2>4. credits'[Poll][m] = [request |-> request.request, blinded |-> b]
    <3>1. CASE ClaimCredit(Poll, m, request.request, request.blinded)
      BY <1>1, <2>2, <3>1 DEF ClaimCredit, TypeOK
    <3>2. CASE RepeatClaim(Poll, m, request.request, request.blinded)
      BY <2>2, <3>2 DEF RepeatClaim, tables
    <3> QED
      BY <1>2, <2>2, <3>1, <3>2 DEF Serve
  <2>5. Claimed(m, b)'
    <3> DEFINE row == [request |-> request.request, blinded |-> b]
    <3>1. row.blinded = b /\ Unclaimed.blinded = None /\ b # None
      BY DEF Unclaimed
    <3>2. credits'[Poll][m] = row
      BY <2>4
    <3> HIDE DEF row
    <3> QED
      BY <3>1, <3>2 DEF Claimed, HasClaim
  <2>6. Signature(b) \in Answers /\ Signature(b).is = "signature"
    BY MessageFields DEF Answers
  <2>7. \A d \in Blindings : Signature(b) = Signature(d) => b = d
    BY MessageFields
  <2> QED
    BY <2>3, <2>5, <2>6, <2>7
<1>3. CASE request.is = "vote" /\ VoteSucceeds(request)
  <2> DEFINE c == request.credential
             ch == request.choice
             receipt == ReceiptOf(Poll, ballotEvents'[Poll][spent'[Poll][c]])
  <2>1. c \in Credentials /\ ch \in Choices
    <3>1. PICK b \in Blindings, x \in Choices : request = VoteRequest(b, x)
      BY <1>3, RequestKinds
    <3>2. c = Unblind[b] /\ ch = x
      BY <3>1, MessageFields
    <3> QED
      BY <3>2
  <2>2. AnswerTo(m, request) = ReceiptAnswer(receipt)
    BY <1>3 DEF AnswerTo
  <2>3. receipt \in receipts'
    <3>1. CASE Vote(Poll, c, ch)
      <4> DEFINE event == NextEvent(ballotEvents[Poll], BallotOf(c, ch))
      <4>1. /\ BallotOf(c, ch) \in BallotRecord
            /\ AppendBallotEvent(Poll, BallotOf(c, ch))
            /\ spent' = [spent EXCEPT ![Poll][c] = Len(ballotEvents[Poll]) + 1]
        BY <1>1, <2>1, <3>1, VoteAppends
      <4>2. spent'[Poll][c] = Len(ballotEvents[Poll]) + 1
        BY <1>1, <2>1, <4>1 DEF TypeOK
      <4>3. ballotEvents'[Poll][Len(ballotEvents[Poll]) + 1] = event
        BY <1>1, <4>1, AppendBallotEventEffect
      <4>4. ReceiptOf(Poll, event) \in receipts'
        BY <3>1 DEF Vote, BallotOf
      <4> QED
        BY <4>2, <4>3, <4>4
    <3>2. CASE RepeatVote(Poll, c, ch)
      BY <3>2 DEF RepeatVote, tables
    <3> QED
      BY <1>3, <3>1, <3>2 DEF Serve
  <2>4. receipt \in Receipt
    BY <1>1, <2>3 DEF TypeOK
  <2> HIDE DEF receipt
  <2>5. ReceiptAnswer(receipt) \in Answers
    BY <2>4 DEF Answers, ReceiptAnswer
  <2>6. ReceiptAnswer(receipt).receipt = receipt
    BY MessageFields
  <2>7. \A b \in Blindings : ReceiptAnswer(receipt) # Signature(b)
    <3>1. ReceiptAnswer(receipt).is = "receipt" /\ \A b : Signature(b).is = "signature"
      BY MessageFields
    <3> QED
      BY <3>1
  <2> QED
    BY <2>2, <2>3, <2>5, <2>6, <2>7
<1>4. CASE /\ ~(request.is = "claim" /\ ClaimSucceeds(m, request))
           /\ ~(request.is = "vote" /\ VoteSucceeds(request))
  <2>1. AnswerTo(m, request) = Refusal(request)
    BY <1>4 DEF AnswerTo
  <2>2. Refusal(request) \in Answers /\ Refusal(request).is = "refused"
    BY MessageFields DEF Answers
  <2>3. \A b \in Blindings : Refusal(request) # Signature(b)
    BY <2>2, MessageFields
  <2> QED
    BY <2>1, <2>2, <2>3
<1> QED
  BY <1>2, <1>3, <1>4

------------------------------------------------------------------------------
(* Type correctness *)

\* One step per action of a run, of the sequencer and of the network.
LEMMA ClientTypeStep ==
  ASSUME IInv, ClientTypeOK, AnswersOnWire, [ClientNext]_allVars
  PROVE  ClientTypeOK'
<1> USE DEF ClientTypeOK
<1>1. ASSUME NEW u \in Runs, Start(u) PROVE ClientTypeOK'
  BY <1>1 DEF Start, Goto
<1>2. ASSUME NEW u \in Runs, LoadState(u) PROVE ClientTypeOK'
  BY <1>2 DEF LoadState, Goto
<1>3. ASSUME NEW u \in Runs, MissState(u) PROVE ClientTypeOK'
  BY <1>3 DEF MissState, Goto
<1>4. ASSUME NEW u \in Runs, CreateState(u) PROVE ClientTypeOK'
  BY <1>4 DEF CreateState, Goto
<1>5. ASSUME NEW u \in Runs, SendClaim(u) PROVE ClientTypeOK'
  BY <1>5 DEF SendClaim, Goto, Requests
<1>6. ASSUME NEW u \in Runs, ReceiveSignature(u) PROVE ClientTypeOK'
  BY <1>6 DEF ReceiveSignature, Goto
<1>7. ASSUME NEW u \in Runs, SendVote(u) PROVE ClientTypeOK'
  BY <1>7 DEF SendVote, Goto, Requests
<1>8. ASSUME NEW u \in Runs, ReceiveReceipt(u) PROVE ClientTypeOK'
  BY <1>8 DEF ReceiveReceipt, Goto
<1>9. ASSUME NEW u \in Runs, SaveReceipt(u) PROVE ClientTypeOK'
  <2>1. wire[u] \in Answers /\ wire[u].receipt \in Receipt
    <3>1. HasAnswer(u)
      BY <1>9 DEF SaveReceipt, Goto, Recorded, AnswersOnWire
    <3> QED
      BY <3>1, AnswerKinds DEF HasAnswer
  <2> QED
    BY <1>9, <2>1 DEF SaveReceipt, Goto
<1>10. ASSUME NEW u \in Runs, RemoveState(u) PROVE ClientTypeOK'
  BY <1>10 DEF RemoveState, Goto
<1>11. ASSUME NEW u \in Runs, PrintRecorded(u) PROVE ClientTypeOK'
  BY <1>11 DEF PrintRecorded, EndRun
<1>12. ASSUME NEW u \in Runs, ReceiveRefusal(u) PROVE ClientTypeOK'
  BY <1>12 DEF ReceiveRefusal, EndRun
<1>13. ASSUME NEW u \in Runs, Fail(u) PROVE ClientTypeOK'
  BY <1>13 DEF Fail, EndRun
<1>14. ASSUME NEW u \in Runs, ServeRun(u) PROVE ClientTypeOK'
  BY <1>14, AnswerFits DEF ServeRun
<1>15. ASSUME ServeOrphan PROVE ClientTypeOK'
  BY <1>15 DEF ServeOrphan
<1>16. UNCHANGED clientVars => ClientTypeOK'
  BY DEF clientVars
<1> QED
  BY <1>1, <1>2, <1>3, <1>4, <1>5, <1>6, <1>7, <1>8, <1>9, <1>10, <1>11, <1>12, <1>13, <1>14,
     <1>15, <1>16 DEF ClientNext, RunStep, allVars

------------------------------------------------------------------------------
(* A voter's messages are the voter's own *)

\* Only a fresh recovery file draws a message, for its own member; requests, orphans and
\* claims take it from there.
LEMMA DrawnByVoterStep ==
  ASSUME IInv, ClientTypeOK, DrawnByVoter, [ClientNext]_allVars
  PROVE  DrawnByVoter'
<1> USE DEF ClientTypeOK, DrawnByVoter
<1>1. ASSUME NEW u \in Runs, Start(u) \/ MissState(u) \/ ReceiveReceipt(u) \/ SaveReceipt(u)
      PROVE  DrawnByVoter'
  BY <1>1 DEF Start, MissState, ReceiveReceipt, SaveReceipt, vars, tables, HasClaim
<1>2. ASSUME NEW u \in Runs, LoadState(u) PROVE DrawnByVoter'
  BY <1>2 DEF LoadState, vars, tables, HasClaim
<1>3. ASSUME NEW u \in Runs, CreateState(u) PROVE DrawnByVoter'
  BY <1>3 DEF CreateState, Goto, vars, tables, HasClaim
<1>4. ASSUME NEW u \in Runs, SendClaim(u) PROVE DrawnByVoter'
  BY <1>4, ClaimRequestAlone DEF SendClaim, Goto, vars, tables, HasClaim
<1>5. ASSUME NEW u \in Runs, SendVote(u) PROVE DrawnByVoter'
  BY <1>5, ClaimRequestAlone DEF SendVote, Goto, vars, tables, HasClaim
<1>6. ASSUME NEW u \in Runs, ReceiveSignature(u) PROVE DrawnByVoter'
  BY <1>6, ClaimRequestAlone DEF ReceiveSignature, vars, tables, HasClaim
<1>7. ASSUME NEW u \in Runs, RemoveState(u) PROVE DrawnByVoter'
  BY <1>7 DEF RemoveState, vars, tables, HasClaim
<1>8. ASSUME NEW u \in Runs, EndRun(u), UNCHANGED <<vars, orphans, drawn>>,
             file' = file
      PROVE  DrawnByVoter'
  BY <1>8, ClaimRequestAlone DEF EndRun, vars, tables, HasClaim
<1>9. ASSUME NEW u \in Runs, Fail(u) PROVE DrawnByVoter'
  BY <1>9, ClaimRequestAlone DEF Fail, EndRun, vars, tables, HasClaim
<1>10. ASSUME NEW u \in Runs, ServeRun(u) PROVE DrawnByVoter'
  <2>1. /\ Voter[u] \in Members /\ wire[u] \in Requests /\ Serve(Voter[u], wire[u])
        /\ AnswerTo(Voter[u], wire[u]) \in Answers
    BY <1>10, AnswerFits DEF ServeRun
  <2>2. \A m \in Members : HasClaim(m)' => drawn[credits'[Poll][m].blinded] = m
    BY <2>1, ServeClaims DEF HasClaim, IInv
  <2>3. \A v \in Runs, b \in Blindings : wire'[v] = ClaimRequest(b) => drawn[b] = Voter[v]
    BY <1>10, <2>1, ClaimRequestAlone DEF ServeRun
  <2> QED
    BY <1>10, <2>2, <2>3 DEF ServeRun
<1>11. ASSUME ServeOrphan PROVE DrawnByVoter'
  <2>1. PICK o \in orphans : Serve(o.member, o.request) /\ orphans' = orphans \ {o}
    BY <1>11 DEF ServeOrphan
  <2>2. o.member \in Members /\ o.request \in Requests
    BY <2>1
  <2>3. \A m \in Members : HasClaim(m)' => drawn[credits'[Poll][m].blinded] = m
    BY <2>1, <2>2, ServeClaims DEF HasClaim, IInv
  <2> QED
    BY <1>11, <2>1, <2>3 DEF ServeOrphan
<1>12. ASSUME CreatePoll(Poll) \/ ClosePoll(Poll) \/ SetClock \/ UNCHANGED vars,
              UNCHANGED clientVars
       PROVE  DrawnByVoter'
  <2>1. credits' = credits
    BY <1>12 DEF CreatePoll, ClosePoll, SetClock, vars, tables
  <2> QED
    BY <1>12, <2>1 DEF clientVars, HasClaim
<1>13. ASSUME NEW u \in Runs, PrintRecorded(u) \/ ReceiveRefusal(u) PROVE DrawnByVoter'
  BY <1>8, <1>13 DEF PrintRecorded, ReceiveRefusal
<1> QED
  BY <1>1, <1>2, <1>3, <1>4, <1>5, <1>6, <1>7, <1>9, <1>10, <1>11, <1>12, <1>13
     DEF ClientNext, RunStep, allVars

------------------------------------------------------------------------------
(* A run goes on with what it was answered *)

\* What was answered keeps standing, whatever else a step does.
LEMMA AnsweredStays ==
  ASSUME SequencerInv, ClientTypeOK, [ClientNext]_allVars
  PROVE  /\ \A m \in Members : HasClaim(m) => HasClaim(m)' /\ CredentialOf(m)' = CredentialOf(m)
         /\ \A m \in Members : \A b : Claimed(m, b) => Claimed(m, b)'
         /\ \A m \in Members : \A ch : HasClaim(m) /\ Receipted(m, ch) => Receipted(m, ch)'
         /\ \A r \in receipts : r \in receipts'
<1>1. /\ \A m \in Members : HasClaim(m) => credits'[Poll][m] = credits[Poll][m]
      /\ receipts \subseteq receipts'
  BY ClaimsStay
<1>2. \A m \in Members : HasClaim(m) => HasClaim(m)' /\ CredentialOf(m)' = CredentialOf(m)
  BY <1>1 DEF HasClaim, CredentialOf
<1>3. \A m \in Members : \A b : Claimed(m, b) => Claimed(m, b)'
  BY <1>1 DEF Claimed, HasClaim
<1>4. \A m \in Members : \A ch : HasClaim(m) /\ Receipted(m, ch) => Receipted(m, ch)'
  BY <1>1, <1>2 DEF Receipted
<1> QED
  BY <1>1, <1>2, <1>3, <1>4

\* A run that ends forgets its answer; one that sends a request has none.
LEMMA NoAnswerYet ==
  ASSUME ClientTypeOK, NEW u \in Runs, NEW request,
         request = None \/ request.is \in {"claim", "vote"},
         wire' = [wire EXCEPT ![u] = request]
  PROVE  /\ ~HasAnswer(u)'
         /\ \A b \in Blindings : wire'[u] # Signature(b)
         /\ \A v \in Runs \ {u} : wire'[v] = wire[v] /\ (HasAnswer(v)' <=> HasAnswer(v))
<1>1. wire'[u] = request /\ \A v \in Runs \ {u} : wire'[v] = wire[v]
  BY DEF ClientTypeOK
<1>2. \A b \in Blindings : Signature(b) # None /\ Signature(b).is = "signature"
  BY MessageFields, NoMessageAssumption DEF Answers
<1> QED
  BY <1>1, <1>2 DEF HasAnswer

\* One step per action: a signature and a receipt come from the sequencer alone, and a run
\* moves on only when it has the one it waits for.
LEMMA AnswersOnWireStep ==
  ASSUME VoterInv, [ClientNext]_allVars
  PROVE  AnswersOnWire'
<1> USE DEF AnswersOnWire
<1>1. SequencerInv /\ ClientTypeOK /\ AnswersOnWire
  BY DEF VoterInv
<1>2. /\ \A m \in Members : HasClaim(m) => HasClaim(m)' /\ CredentialOf(m)' = CredentialOf(m)
      /\ \A m \in Members : \A b : Claimed(m, b) => Claimed(m, b)'
      /\ \A m \in Members : \A ch : HasClaim(m) /\ Receipted(m, ch) => Receipted(m, ch)'
      /\ \A r \in receipts : r \in receipts'
  BY <1>1, AnsweredStays
<1>3. /\ \A u \in Runs : Voter[u] \in Members
      /\ pc \in [Runs -> {"idle", "load", "create", "claim", "claiming", "vote", "voting",
                          "save", "remove", "print"}]
      /\ choice \in [Runs -> Choices \cup {None}] /\ held \in [Runs -> Blindings \cup {None}]
      /\ told \in [Members -> SUBSET Choices]
  BY <1>1 DEF ClientTypeOK
<1>4. ASSUME NEW u \in Runs, ~Signed(u)', UNCHANGED <<wire, kept, told>>,
             \A v \in Runs \ {u} : /\ pc'[v] = pc[v] /\ held'[v] = held[v]
                                   /\ choice'[v] = choice[v]
      PROVE  AnswersOnWire'
  BY <1>1, <1>2, <1>3, <1>4 DEF Signed, Recorded, HasAnswer, ReceiptMatches
<1>5. ASSUME NEW u \in Runs, Start(u) \/ LoadState(u) \/ MissState(u) \/ CreateState(u)
      PROVE  AnswersOnWire'
  <2>1. /\ ~Signed(u)' /\ UNCHANGED <<wire, kept, told>>
        /\ \A v \in Runs \ {u} : /\ pc'[v] = pc[v] /\ held'[v] = held[v]
                                 /\ choice'[v] = choice[v]
    BY <1>3, <1>5 DEF Start, LoadState, MissState, CreateState, Goto, Signed
  <2> QED
    BY <1>4, <2>1
<1>6. ASSUME NEW u \in Runs, SendClaim(u) PROVE AnswersOnWire'
  <2>1. /\ ~HasAnswer(u)' /\ \A b \in Blindings : wire'[u] # Signature(b)
        /\ \A v \in Runs \ {u} : wire'[v] = wire[v] /\ (HasAnswer(v)' <=> HasAnswer(v))
    BY <1>1, <1>6, NoAnswerYet, MessageFields DEF SendClaim
  <2>2. /\ UNCHANGED <<kept, told, held, choice>> /\ ~Signed(u)'
        /\ \A v \in Runs \ {u} : pc'[v] = pc[v]
    BY <1>3, <1>6 DEF SendClaim, Goto, Signed
  <2> QED
    BY <1>1, <1>2, <1>3, <2>1, <2>2 DEF Signed, Recorded, ReceiptMatches
<1>7. ASSUME NEW u \in Runs, ReceiveSignature(u) PROVE AnswersOnWire'
  <2>1. /\ ~HasAnswer(u)' /\ \A b \in Blindings : wire'[u] # Signature(b)
        /\ \A v \in Runs \ {u} : wire'[v] = wire[v] /\ (HasAnswer(v)' <=> HasAnswer(v))
    BY <1>1, <1>7, NoAnswerYet DEF ReceiveSignature
  <2>2. /\ UNCHANGED <<kept, told, held, choice>> /\ ~Recorded(u)'
        /\ \A v \in Runs \ {u} : pc'[v] = pc[v]
    BY <1>3, <1>7 DEF ReceiveSignature, Goto, Recorded
  <2>3. held[u] \in Blindings /\ wire[u] = Signature(held[u])
    BY <1>1, <1>7 DEF ReceiveSignature, Goto, ClientTypeOK
  <2> QED
    BY <1>1, <1>2, <1>3, <2>1, <2>2, <2>3 DEF Signed, Recorded, ReceiptMatches
<1>8. ASSUME NEW u \in Runs, SendVote(u) PROVE AnswersOnWire'
  <2>1. /\ ~HasAnswer(u)' /\ \A b \in Blindings : wire'[u] # Signature(b)
        /\ \A v \in Runs \ {u} : wire'[v] = wire[v] /\ (HasAnswer(v)' <=> HasAnswer(v))
    <3>1. VoteRequest(held[u], choice[u]).is = "vote"
      BY MessageFields
    <3> QED
      BY <1>1, <1>8, <3>1, NoAnswerYet DEF SendVote
  <2>2. /\ UNCHANGED <<kept, told, held, choice>> /\ Signed(u) /\ ~Recorded(u)'
        /\ \A v \in Runs \ {u} : pc'[v] = pc[v]
    BY <1>3, <1>8 DEF SendVote, Goto, Signed, Recorded
  <2> QED
    BY <1>1, <1>2, <1>3, <2>1, <2>2 DEF Signed, Recorded, ReceiptMatches
<1>9. ASSUME NEW u \in Runs, ReceiveReceipt(u) PROVE AnswersOnWire'
  <2>1. /\ UNCHANGED <<kept, told, held, choice, wire>> /\ Signed(u)
        /\ \A v \in Runs \ {u} : pc'[v] = pc[v]
        /\ HasAnswer(u) /\ ReceiptMatches(u, wire[u].receipt)
    BY <1>3, <1>9 DEF ReceiveReceipt, Goto, Signed, HasAnswer
  <2> QED
    BY <1>1, <1>2, <1>3, <2>1 DEF Signed, Recorded, ReceiptMatches, HasAnswer
<1>10. ASSUME NEW u \in Runs, SaveReceipt(u) PROVE AnswersOnWire'
  <2>1. /\ UNCHANGED <<told, held, choice, wire>> /\ Recorded(u)
        /\ kept' = kept \cup {wire[u].receipt}
        /\ \A v \in Runs \ {u} : pc'[v] = pc[v]
    BY <1>3, <1>10 DEF SaveReceipt, Goto, Recorded
  <2>2. wire[u].receipt \in receipts /\ wire[u].receipt.poll = Poll
    BY <1>1, <2>1 DEF ReceiptMatches
  <2> QED
    BY <1>1, <1>2, <1>3, <2>1, <2>2 DEF Signed, Recorded, ReceiptMatches, HasAnswer
<1>11. ASSUME NEW u \in Runs, RemoveState(u) PROVE AnswersOnWire'
  <2>1. /\ UNCHANGED <<told, held, choice, wire, kept>> /\ Recorded(u)
        /\ \A v \in Runs \ {u} : pc'[v] = pc[v]
    BY <1>3, <1>11 DEF RemoveState, Goto, Recorded
  <2> QED
    BY <1>1, <1>2, <1>3, <2>1 DEF Signed, Recorded, ReceiptMatches, HasAnswer
<1>12. ASSUME NEW u \in Runs, EndRun(u), kept' = kept,
              \A m \in Members : \A ch \in told'[m] : HasClaim(m)' /\ Receipted(m, ch)'
       PROVE  AnswersOnWire'
  <2>1. /\ ~HasAnswer(u)' /\ \A b \in Blindings : wire'[u] # Signature(b)
        /\ \A v \in Runs \ {u} : wire'[v] = wire[v] /\ (HasAnswer(v)' <=> HasAnswer(v))
    BY <1>1, <1>12, NoAnswerYet DEF EndRun
  <2>2. /\ ~Signed(u)' /\ ~Recorded(u)'
        /\ \A v \in Runs \ {u} : /\ pc'[v] = pc[v] /\ held'[v] = held[v]
                                 /\ choice'[v] = choice[v]
    BY <1>3, <1>12 DEF EndRun, Signed, Recorded
  <2> QED
    BY <1>1, <1>2, <1>3, <1>12, <2>1, <2>2 DEF Signed, Recorded, ReceiptMatches
<1>13. ASSUME NEW u \in Runs, PrintRecorded(u) PROVE AnswersOnWire'
  <2>1. Signed(u) /\ Recorded(u) /\ Voter[u] \in Members
    BY <1>3, <1>13 DEF PrintRecorded, Signed, Recorded
  <2>2. HasClaim(Voter[u]) /\ CredentialOf(Voter[u]) = Unblind[held[u]]
    BY <1>1, <2>1 DEF Claimed, CredentialOf
  <2>3. Receipted(Voter[u], choice[u])
    BY <1>1, <2>1, <2>2 DEF Receipted, ReceiptMatches
  <2>4. told' = [told EXCEPT ![Voter[u]] = told[Voter[u]] \cup {choice[u]}]
    BY <1>13 DEF PrintRecorded
  <2>5. \A m \in Members : \A ch \in told'[m] : HasClaim(m) /\ Receipted(m, ch)
    BY <1>1, <1>3, <2>1, <2>2, <2>3, <2>4
  <2>6. \A m \in Members : \A ch \in told'[m] : HasClaim(m)' /\ Receipted(m, ch)'
    BY <1>2, <2>5
  <2> QED
    BY <1>12, <1>13, <2>6 DEF PrintRecorded
<1>14. ASSUME NEW u \in Runs, ReceiveRefusal(u) \/ Fail(u) PROVE AnswersOnWire'
  <2>1. EndRun(u) /\ kept' = kept /\ told' = told
    BY <1>14 DEF ReceiveRefusal, Fail
  <2> QED
    BY <1>1, <1>2, <1>12, <2>1
<1>15. ASSUME NEW u \in Runs, ServeRun(u) PROVE AnswersOnWire'
  <2> DEFINE answer == AnswerTo(Voter[u], wire[u])
  <2>1. /\ wire[u] \in Requests /\ wire' = [wire EXCEPT ![u] = answer]
        /\ UNCHANGED <<pc, choice, held, kept, told>>
    BY <1>15 DEF ServeRun
  <2>2. /\ \A b \in Blindings : answer = Signature(b) => Claimed(Voter[u], b)'
        /\ answer.is = "receipt" => answer.receipt \in receipts'
    BY <1>1, <1>3, <1>15, AnswerFits DEF ServeRun, SequencerInv
  <2> HIDE DEF answer
  <2>3. wire'[u] = answer /\ \A v \in Runs \ {u} : wire'[v] = wire[v]
    BY <1>1, <2>1 DEF ClientTypeOK
  <2>4. ~Recorded(u)
    BY <1>1, <2>1, AnswerKinds DEF HasAnswer
  <2> QED
    BY <1>1, <1>2, <1>3, <2>1, <2>2, <2>3, <2>4
       DEF Signed, Recorded, ReceiptMatches, HasAnswer
<1>16. ASSUME UNCHANGED <<pc, choice, held, wire, kept, told>> PROVE AnswersOnWire'
  BY <1>1, <1>2, <1>3, <1>16 DEF Signed, Recorded, ReceiptMatches, HasAnswer
<1>17. ServeOrphan \/ UNCHANGED clientVars => UNCHANGED <<pc, choice, held, wire, kept, told>>
  BY DEF ServeOrphan, clientVars
<1> QED
  BY <1>5, <1>6, <1>7, <1>8, <1>9, <1>10, <1>11, <1>13, <1>14, <1>15, <1>16, <1>17
     DEF ClientNext, RunStep, allVars

\* Every step of the client preserves the invariant that holds for overlapping runs.
LEMMA VoterInvStep == VoterInv /\ [ClientNext]_allVars => VoterInv'
<1>1. ASSUME VoterInv, [ClientNext]_allVars PROVE VoterInv'
  <2>1. SequencerInv'
    BY <1>1, SequencerInvStep DEF VoterInv
  <2>2. ClientTypeOK' /\ DrawnByVoter'
    BY <1>1, ClientTypeStep, DrawnByVoterStep DEF VoterInv, SequencerInv
  <2>3. AnswersOnWire'
    BY <1>1, AnswersOnWireStep
  <2> QED
    BY <2>1, <2>2, <2>3 DEF VoterInv
<1> QED
  BY <1>1

\* Nothing is held, sent, claimed or told before the first step.
LEMMA VoterInvInit == ClientInit => VoterInv
<1> SUFFICES ASSUME ClientInit PROVE VoterInv
  OBVIOUS
<1>1. Init
  BY DEF ClientInit
<1>2. SequencerInv
  <2>1. AnswersStand /\ ResultsOfClosedPolls
    BY <1>1 DEF Init, AnswersStand, ResultsOfClosedPolls
  <2> QED
    BY <1>1, <2>1, InitInvariant, RecordInvInit DEF SequencerInv
<1>3. ClientTypeOK
  BY DEF ClientInit, ClientTypeOK
<1>4. \A m \in Members : ~HasClaim(m)
  BY <1>1 DEF Init, HasClaim
<1>5. DrawnByVoter
  <2>1. \A u \in Runs, b \in Blindings : wire[u] # ClaimRequest(b)
    BY ClaimRequestAlone DEF ClientInit
  <2> QED
    BY <1>4, <2>1 DEF ClientInit, DrawnByVoter
<1>6. AnswersOnWire
  <2>1. \A b \in Blindings : Signature(b) # None
    BY NoMessageAssumption DEF Answers
  <2> QED
    BY <2>1 DEF ClientInit, AnswersOnWire, Signed, Recorded, HasAnswer
<1> QED
  BY <1>2, <1>3, <1>5, <1>6 DEF VoterInv

\* What every reachable state satisfies, however many runs of a member overlap.
THEOREM VoterInvariant == ClientSpec => []VoterInv
BY VoterInvInit, VoterInvStep, PTL DEF ClientSpec

\* Every variable of the client keeps the type declared for it.
THEOREM ClientTypeCorrect == ClientSpec => []ClientTypeOK
<1>1. VoterInv => ClientTypeOK
  BY DEF VoterInv
<1> QED
  BY <1>1, VoterInvariant, PTL

\* What is proved of the sequencer holds with the commands of its voters at work on it: what
\* they send, lose and repeat asks it for nothing but its own operations.
THEOREM CommandsKeepPromise ==
  ClientSpec => Spec /\ KeepsPromise /\ HistoryStands /\ []BallotsWithinRoster
<1>1. ClientInit => Init
  BY DEF ClientInit
<1>2. VoterInv /\ [ClientNext]_allVars => [Next]_vars
  BY ClientStepsAreSteps DEF VoterInv
<1>3. ClientSpec => Spec
  BY <1>1, <1>2, VoterInvariant, PTL DEF ClientSpec, Spec
<1> QED
  BY <1>3, PromiseKept, HistoryHolds, RosterBounds, PTL

\* However often a voter runs the command, in whatever order and however interrupted, the log
\* holds at most one ballot on a credential that voter drew.
THEOREM OneBallotEach == ClientSpec => []OneBallotPerVoter
<1>1. VoterInv => OneBallotPerVoter
  <2> SUFFICES ASSUME VoterInv, NEW m \in Members
               PROVE  Cardinality({i \in Ballots(ballotEvents[Poll]) :
                        \E b \in Blindings :
                          /\ drawn[b] = m
                          /\ ballotEvents[Poll][i].artifact.credential = Unblind[b]}) <= 1
    BY DEF OneBallotPerVoter
  <2> DEFINE log == ballotEvents[Poll]
             Own == {i \in Ballots(log) :
                       \E b \in Blindings :
                         drawn[b] = m /\ log[i].artifact.credential = Unblind[b]}
  <2>1. /\ TypeOK /\ BallotsAreSpent /\ BallotsAreBacked /\ AnswersStand
        /\ DrawnByVoter /\ Poll \in Polls
    BY DEF VoterInv, SequencerInv, IInv, RecordInv
  <2>2. ASSUME NEW i \in Own
        PROVE  Claimed(m, credits[Poll][m].blinded) /\ log[i].artifact.credential = CredentialOf(m)
    <3>1. PICK b \in Blindings : drawn[b] = m /\ log[i].artifact.credential = Unblind[b]
      BY <2>2
    <3>2. PICK a \in issued : a.poll = Poll /\ Unblind[a.blinded] = Unblind[b]
      BY <2>1, <2>2, <3>1 DEF BallotsAreBacked, ValidCredential
    <3>3. a \in Claim
      BY <2>1 DEF TypeOK
    <3>4. a.blinded = b /\ a.member \in Members
      BY <3>2, <3>3, SerialAssumption DEF Claim
    <3>5. credits[Poll][a.member] = [request |-> a.request, blinded |-> b]
      BY <2>1, <3>2, <3>4 DEF AnswersStand
    <3>6. credits[Poll][a.member].blinded = b
      BY <3>5
    <3>7. HasClaim(a.member)
      BY <3>6 DEF HasClaim, Unclaimed
    <3>8. drawn[b] = a.member
      BY <2>1, <3>4, <3>6, <3>7 DEF DrawnByVoter
    <3> QED
      BY <3>1, <3>6, <3>7, <3>8 DEF Claimed, CredentialOf
  <2>3. \A i, j \in Own : i = j
    <3>1. \A i, j \in Own : log[i].artifact.credential = log[j].artifact.credential
      BY <2>2
    <3>2. \A i \in Own : i \in Ballots(log) /\ spent[Poll][log[i].artifact.credential] = i
      BY <2>1 DEF BallotsAreSpent
    <3> QED
      BY <3>1, <3>2
  <2> HIDE DEF Own
  <2>4. ASSUME NEW i \in Own PROVE Own = {i}
    BY <2>3
  <2>5. Cardinality(Own) \in {0, 1}
    BY <2>4, FS_EmptySet, FS_Singleton, Zenon
  <2>6. Cardinality(Own) <= 1
    BY <2>5
  <2> QED
    BY <2>6 DEF Own
<1> QED
  BY <1>1, VoterInvariant, PTL

\* A voter told "Vote recorded" was told so for one choice, the one on record for the voter's
\* credential; a kept receipt is that of a ballot in the log.
THEOREM ToldTheTruth == ClientSpec => []ToldIsCounted
<1>1. VoterInv => ToldIsCounted
  <2> SUFFICES ASSUME VoterInv PROVE ToldIsCounted
    OBVIOUS
  <2>1. TypeOK /\ AnswersStand /\ AnswersOnWire /\ Poll \in Polls
    BY DEF VoterInv, SequencerInv, IInv
  <2>2. ASSUME NEW m \in Members, NEW ch \in told[m]
        PROVE  HasClaim(m) /\ ChoiceOnRecord(Poll, CredentialOf(m)) = ch
    <3>1. HasClaim(m) /\ Receipted(m, ch)
      BY <2>1 DEF AnswersOnWire
    <3>2. PICK r \in receipts :
            r.poll = Poll /\ r.credential = CredentialOf(m) /\ r.choice = ch
      BY <3>1 DEF Receipted
    <3>3. /\ r.sequence \in DOMAIN ballotEvents[Poll]
          /\ r = ReceiptOf(Poll, ballotEvents[Poll][r.sequence])
          /\ spent[Poll][CredentialOf(m)] = r.sequence
      BY <2>1, <3>2 DEF AnswersStand
    <3>4. ReceiptOf(Poll, ballotEvents[Poll][r.sequence]).choice
            = ballotEvents[Poll][r.sequence].artifact.choice
      BY DEF ReceiptOf
    <3>5. r.choice = ballotEvents[Poll][r.sequence].artifact.choice
      BY <3>3, <3>4
    <3>6. r.sequence # 0
      <4>1. ballotEvents[Poll] \in Seq(Event(BallotRecord))
        BY <2>1 DEF TypeOK
      <4> QED
        BY <3>3, <4>1
    <3> QED
      BY <3>1, <3>2, <3>3, <3>5, <3>6 DEF ChoiceOnRecord, IsSpent
  <2>3. ASSUME NEW m \in Members, NEW ch \in told[m] PROVE told[m] = {ch}
    BY <2>2
  <2>4. ASSUME NEW r \in kept PROVE r = ReceiptOf(Poll, ballotEvents[Poll][r.sequence])
    BY <2>1 DEF AnswersOnWire, AnswersStand
  <2> QED
    BY <2>2, <2>3, <2>4 DEF ToldIsCounted
<1> QED
  BY <1>1, VoterInvariant, PTL

------------------------------------------------------------------------------
(* Recovery, when no two runs of a member are under way at once *)

\* The claim on record is an event of the credit log, so its message is not SQL NULL.
LEMMA ClaimIsReal ==
  ASSUME TypeOK, CreditsMatchLog, NEW m \in Members, HasClaim(m)
  PROVE  credits[Poll][m].blinded \in Blindings
<1>1. PICK i \in DOMAIN creditEvents[Poll] : creditEvents[Poll][i].artifact.member = m
  BY DEF CreditsMatchLog, RowsMatch, HasClaim
<1> DEFINE claim == creditEvents[Poll][i].artifact
<1>2. claim.blinded \in Blindings
  BY CreditType DEF CreditRecord
<1>3. credits[Poll][m] = [request |-> claim.request, blinded |-> claim.blinded]
  BY <1>1 DEF CreditsMatchLog, RowsMatch
<1> QED
  BY <1>2, <1>3

\* A claim served is the one in the member's recovery file, so the file names the claim then
\* on record; other members' claims and files are not touched.
LEMMA ServedClaimOnFile ==
  ASSUME TypeOK, ClaimRecoverable, NEW m \in Members, NEW request \in Requests,
         Serve(m, request), UNCHANGED <<file, kept>>,
         ~HasClaim(m) => \A b \in Blindings : request = ClaimRequest(b) => b = file[m]
  PROVE  ClaimRecoverable'
<1>1. \A n \in Members :
        \/ credits'[Poll][n] = credits[Poll][n]
        \/ HasClaim(n)' /\ credits'[Poll][n].blinded = file[n]
  BY ServeClaims
<1>2. ASSUME NEW n \in Members, HasClaim(n)', credits'[Poll][n] = credits[Poll][n]
      PROVE  file'[n] = credits'[Poll][n].blinded \/ HasReceipt(n)'
  BY <1>2 DEF ClaimRecoverable, HasClaim, HasReceipt, CredentialOf
<1> QED
  BY <1>1, <1>2 DEF ClaimRecoverable

\* Where neither the credits nor the kept receipts and the files change, it stands.
LEMMA RecoverableStays ==
  ASSUME ClaimRecoverable, UNCHANGED <<credits, file>>, kept \subseteq kept'
  PROVE  ClaimRecoverable'
BY DEF ClaimRecoverable, HasClaim, HasReceipt, CredentialOf

\* One step per action that writes a file, keeps a receipt or serves a claim.
LEMMA ClaimRecoverableStep ==
  ASSUME RecoverInv, [ClientNext]_allVars
  PROVE  ClaimRecoverable'
<1>1. /\ VoterInv /\ OnFile /\ ClaimRecoverable
      /\ SequencerInv /\ ClientTypeOK /\ AnswersOnWire /\ TypeOK
  BY DEF RecoverInv, VoterInv, SequencerInv, IInv
<1>2. ASSUME NEW u \in Runs,
             \/ Start(u) \/ LoadState(u) \/ MissState(u) \/ SendClaim(u) \/ ReceiveSignature(u)
             \/ SendVote(u) \/ ReceiveReceipt(u) \/ SaveReceipt(u) \/ PrintRecorded(u)
             \/ ReceiveRefusal(u) \/ Fail(u)
      PROVE  ClaimRecoverable'
  <2>1. UNCHANGED <<credits, file>> /\ kept \subseteq kept'
    BY <1>2 DEF Start, LoadState, MissState, SendClaim, ReceiveSignature, SendVote,
                ReceiveReceipt, SaveReceipt, PrintRecorded, ReceiveRefusal, Fail, vars, tables
  <2> QED
    BY <1>1, <2>1, RecoverableStays
<1>3. ASSUME NEW u \in Runs, CreateState(u) \/ RemoveState(u) PROVE ClaimRecoverable'
  <2>1. Voter[u] \in Members /\ UNCHANGED <<credits, kept>>
    BY <1>3 DEF CreateState, RemoveState, vars, tables
  <2>2. \A m \in Members \ {Voter[u]} : file'[m] = file[m]
    BY <1>1, <1>3 DEF CreateState, RemoveState, ClientTypeOK
  <2>3. HasClaim(Voter[u]) => HasReceipt(Voter[u])
    <3>1. CASE CreateState(u)
      <4>1. file[Voter[u]] = None
        BY <1>1, <3>1 DEF CreateState, Goto, OnFile
      <4>2. HasClaim(Voter[u]) => credits[Poll][Voter[u]].blinded # None
        BY <1>1, <2>1, ClaimIsReal DEF SequencerInv, RecordInv
      <4> QED
        BY <1>1, <2>1, <4>1, <4>2 DEF ClaimRecoverable
    <3>2. CASE RemoveState(u)
      BY <1>1, <3>2 DEF RemoveState, Goto, OnFile
    <3> QED
      BY <1>3, <3>1, <3>2
  <2> QED
    BY <1>1, <2>1, <2>2, <2>3 DEF ClaimRecoverable, HasClaim, HasReceipt, CredentialOf
<1>4. ASSUME NEW u \in Runs, ServeRun(u) PROVE ClaimRecoverable'
  <2>1. /\ wire[u] \in Requests /\ Voter[u] \in Members /\ Serve(Voter[u], wire[u])
        /\ UNCHANGED <<file, kept>>
    BY <1>4 DEF ServeRun
  <2>2. ~HasClaim(Voter[u]) =>
          \A b \in Blindings : wire[u] = ClaimRequest(b) => b = file[Voter[u]]
    BY <1>1, <2>1 DEF OnFile
  <2> QED
    BY <1>1, <2>1, <2>2, ServedClaimOnFile
<1>5. ASSUME ServeOrphan PROVE ClaimRecoverable'
  <2>1. PICK o \in orphans : Serve(o.member, o.request) /\ UNCHANGED <<file, kept>>
    BY <1>5 DEF ServeOrphan
  <2>2. o.member \in Members /\ o.request \in Requests
    BY <1>1, <2>1 DEF ClientTypeOK
  <2>3. ~HasClaim(o.member) =>
          \A b \in Blindings : o.request = ClaimRequest(b) => b = file[o.member]
    BY <1>1, <2>1, <2>2 DEF OnFile
  <2> QED
    BY <1>1, <2>1, <2>2, <2>3, ServedClaimOnFile
<1>6. ASSUME CreatePoll(Poll) \/ ClosePoll(Poll) \/ SetClock \/ UNCHANGED vars,
             UNCHANGED clientVars
      PROVE  ClaimRecoverable'
  <2>1. UNCHANGED <<credits, file, kept>>
    BY <1>6 DEF CreatePoll, ClosePoll, SetClock, vars, tables, clientVars
  <2> QED
    BY <1>1, <2>1, RecoverableStays
<1> QED
  BY <1>2, <1>3, <1>4, <1>5, <1>6 DEF ClientNext, RunStep, RecoverInv, allVars

\* No step takes back a claim or a receipt that is kept.
LEMMA ReceiptStays ==
  ASSUME VoterInv, [ClientNext]_allVars
  PROVE  \A m \in Members : /\ HasClaim(m) => HasClaim(m)'
                            /\ HasReceipt(m) => HasReceipt(m)'
<1>1. \A u \in Runs : RunStep(u) => kept \subseteq kept'
  BY DEF RunStep, LoadState, MissState, CreateState, SendClaim, ReceiveSignature, SendVote,
         ReceiveReceipt, SaveReceipt, RemoveState, PrintRecorded, ReceiveRefusal
<1>2. \A u \in Runs : Start(u) \/ Fail(u) \/ ServeRun(u) => kept \subseteq kept'
  BY DEF Start, Fail, ServeRun
<1>3. ServeOrphan \/ UNCHANGED clientVars => kept \subseteq kept'
  BY DEF ServeOrphan, clientVars
<1>4. kept \subseteq kept'
  BY <1>1, <1>2, <1>3 DEF ClientNext, allVars
<1>5. \A m \in Members : HasClaim(m) => HasClaim(m)' /\ CredentialOf(m)' = CredentialOf(m)
  BY AnsweredStays DEF VoterInv
<1> QED
  BY <1>4, <1>5 DEF HasReceipt

\* One step per action: with one run to a member, nothing but that run writes or removes the
\* recovery file while the claim in it may still be made.
LEMMA OnFileStep ==
  ASSUME OneRunEach, RecoverInv, [ClientNext]_allVars
  PROVE  OnFile'
<1> USE DEF OnFile
<1>1. VoterInv /\ OnFile /\ ClientTypeOK /\ AnswersOnWire /\ IInv
  BY DEF RecoverInv, VoterInv, SequencerInv
<1>2. \A m \in Members : /\ HasClaim(m) => HasClaim(m)'
                         /\ HasReceipt(m) => HasReceipt(m)'
  BY <1>1, ReceiptStays
<1>3. /\ \A u \in Runs : Voter[u] \in Members
      /\ pc \in [Runs -> {"idle", "load", "create", "claim", "claiming", "vote", "voting",
                          "save", "remove", "print"}]
      /\ held \in [Runs -> Blindings \cup {None}]
      /\ wire \in [Runs -> {None} \cup Requests \cup Answers]
      /\ file \in [Members -> Blindings \cup {None}]
  BY <1>1 DEF ClientTypeOK
<1>4. ASSUME NEW u \in Runs, Start(u) PROVE OnFile'
  BY <1>1, <1>2, <1>3, <1>4 DEF Start, Goto
<1>5. ASSUME NEW u \in Runs, LoadState(u) PROVE OnFile'
  BY <1>1, <1>2, <1>3, <1>5 DEF LoadState, Goto
<1>6. ASSUME NEW u \in Runs, MissState(u) PROVE OnFile'
  BY <1>1, <1>2, <1>3, <1>6 DEF MissState, Goto
<1>7. ASSUME NEW u \in Runs, CreateState(u) PROVE OnFile'
  <2>1. PICK b \in Blindings : /\ file' = [file EXCEPT ![Voter[u]] = b]
                               /\ held' = [held EXCEPT ![u] = b]
                               /\ Goto(u, "create", "claim")
                               /\ UNCHANGED <<wire, orphans>>
    BY <1>7 DEF CreateState
  <2>2. file[Voter[u]] = None
    BY <1>1, <2>1 DEF Goto
  <2>3. ASSUME NEW m \in Members \ {Voter[u]}
        PROVE  /\ file'[m] = file[m]
               /\ \A v \in Runs : Voter[v] = m => pc'[v] = pc[v] /\ held'[v] = held[v]
    BY <1>3, <2>1 DEF Goto
  <2>4. /\ file'[Voter[u]] = b
        /\ \A v \in Runs : Voter[v] = Voter[u] => held'[v] = b /\ pc'[v] = "claim"
    BY <1>3, <2>1 DEF Goto, OneRunEach
  <2>5. ASSUME ~HasClaim(Voter[u])
        PROVE  /\ \A v \in Runs, d \in Blindings :
                    ~(Voter[v] = Voter[u] /\ wire[v] = ClaimRequest(d))
               /\ \A o \in orphans, d \in Blindings :
                    ~(o.member = Voter[u] /\ o.request = ClaimRequest(d))
    BY <1>1, <1>3, <2>2, <2>5
  <2>6. \A v \in Runs : pc'[v] = "create" => Voter[v] # Voter[u] /\ pc[v] = "create"
    BY <1>3, <2>3, <2>4
  <2>7. \A v \in Runs : pc'[v] = "remove" => pc[v] = "remove"
    BY <1>3, <2>3, <2>4
  <2> QED
    BY <1>1, <1>2, <1>3, <2>1, <2>3, <2>4, <2>5, <2>6, <2>7
<1>8. ASSUME NEW u \in Runs, SendClaim(u) PROVE OnFile'
  <2>1. /\ UNCHANGED <<held, file, orphans>> /\ pc[u] = "claim" /\ pc'[u] = "claiming"
        /\ \A v \in Runs \ {u} : pc'[v] = pc[v] /\ wire'[v] = wire[v]
        /\ wire'[u] = ClaimRequest(held[u])
    BY <1>3, <1>8 DEF SendClaim, Goto
  <2>2. held[u] \in Blindings
    BY <1>1, <2>1 DEF ClientTypeOK
  <2>3. ASSUME NEW v \in Runs, NEW b \in Blindings, wire'[v] = ClaimRequest(b),
               ~HasClaim(Voter[v])
        PROVE  b = file[Voter[v]]
    BY <1>1, <1>3, <2>1, <2>2, <2>3, ClaimRequestAlone
  <2> QED
    BY <1>1, <1>2, <1>3, <2>1, <2>3
<1>9. ASSUME NEW u \in Runs, ReceiveSignature(u) PROVE OnFile'
  BY <1>1, <1>2, <1>3, <1>9, ClaimRequestAlone DEF ReceiveSignature, Goto
<1>10. ASSUME NEW u \in Runs, SendVote(u) PROVE OnFile'
  BY <1>1, <1>2, <1>3, <1>10, ClaimRequestAlone DEF SendVote, Goto
<1>11. ASSUME NEW u \in Runs, ReceiveReceipt(u) PROVE OnFile'
  BY <1>1, <1>2, <1>3, <1>11 DEF ReceiveReceipt, Goto
<1>12. ASSUME NEW u \in Runs, SaveReceipt(u) PROVE OnFile'
  <2>1. Claimed(Voter[u], held[u]) /\ ReceiptMatches(u, wire[u].receipt)
    BY <1>1, <1>12 DEF SaveReceipt, Goto, AnswersOnWire, Signed, Recorded
  <2>2. credits' = credits /\ wire[u].receipt \in kept'
    BY <1>12 DEF SaveReceipt, vars, tables
  <2>3. HasReceipt(Voter[u])'
    BY <2>1, <2>2 DEF HasReceipt, HasClaim, CredentialOf, Claimed, ReceiptMatches
  <2> QED
    BY <1>1, <1>2, <1>3, <1>12, <2>3 DEF SaveReceipt, Goto
<1>13. ASSUME NEW u \in Runs, RemoveState(u) PROVE OnFile'
  <2>1. HasClaim(Voter[u])
    BY <1>1, <1>13 DEF RemoveState, Goto, HasReceipt
  <2> QED
    BY <1>1, <1>2, <1>3, <1>13, <2>1 DEF RemoveState, Goto
<1>14. ASSUME NEW u \in Runs, EndRun(u), file' = file,
              \A o \in orphans' : \/ o \in orphans
                                  \/ o.member = Voter[u] /\ o.request = wire[u]
       PROVE  OnFile'
  <2>1. \A b \in Blindings : ClaimRequest(b) # None
    BY ClaimRequestAlone
  <2> QED
    BY <1>1, <1>2, <1>3, <1>14, <2>1 DEF EndRun
<1>15. ASSUME NEW u \in Runs, PrintRecorded(u) \/ ReceiveRefusal(u) \/ Fail(u) PROVE OnFile'
  BY <1>14, <1>15 DEF PrintRecorded, ReceiveRefusal, Fail
<1>16. ASSUME NEW u \in Runs, ServeRun(u) PROVE OnFile'
  <2>1. AnswerTo(Voter[u], wire[u]) \in Answers
    BY <1>1, <1>3, <1>16, AnswerFits DEF ServeRun
  <2> QED
    BY <1>1, <1>2, <1>3, <1>16, <2>1, ClaimRequestAlone DEF ServeRun
<1>17. ASSUME UNCHANGED <<pc, held, wire, file>>, orphans' \subseteq orphans PROVE OnFile'
  BY <1>1, <1>2, <1>3, <1>17
<1>18. /\ ServeOrphan \/ UNCHANGED clientVars
          => UNCHANGED <<pc, held, wire, file>> /\ orphans' \subseteq orphans
  BY DEF ServeOrphan, clientVars
<1> QED
  BY <1>4, <1>5, <1>6, <1>7, <1>8, <1>9, <1>10, <1>11, <1>12, <1>13, <1>15, <1>16, <1>17,
     <1>18 DEF ClientNext, RunStep, allVars

\* Of a member whose runs do not overlap, a claimed credit is never stranded: until its receipt
\* is on disk, the recovery file names the claim on record.
THEOREM ClaimsRecoverable ==
  ASSUME OneRunEach
  PROVE  ClientSpec => []ClaimRecoverable
<1>1. ClientInit => RecoverInv
  <2> SUFFICES ASSUME ClientInit PROVE RecoverInv
    OBVIOUS
  <2>1. \A m \in Members : ~HasClaim(m)
    BY DEF ClientInit, Init, HasClaim
  <2>2. ClaimRecoverable
    BY <2>1 DEF ClaimRecoverable
  <2>3. \A u \in Runs, b \in Blindings : wire[u] # ClaimRequest(b)
    BY ClaimRequestAlone DEF ClientInit
  <2>4. OnFile
    BY <2>3 DEF ClientInit, OnFile
  <2> QED
    BY <2>2, <2>4, VoterInvInit DEF RecoverInv
<1>2. RecoverInv /\ [ClientNext]_allVars => RecoverInv'
  BY VoterInvStep, OnFileStep, ClaimRecoverableStep DEF RecoverInv
<1>3. RecoverInv => ClaimRecoverable
  BY DEF RecoverInv
<1> QED
  BY <1>1, <1>2, <1>3, PTL DEF ClientSpec
==============================================================================
