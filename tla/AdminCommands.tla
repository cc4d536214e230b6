---------------------------- MODULE AdminCommands ----------------------------
(***************************************************************************)
(* What the labels of a poll go through: `vota poll create` checks and signs *)
(* a draft, the sequencer gives each label an identifier and stores them,    *)
(* voters pick by number or by identifier, and `vota poll result` checks the *)
(* tally, total by total, before it prints the totals beside the labels.     *)
(*                                                                         *)
(* A label's identifier is made of its words (choiceID); here it is the      *)
(* sequence of these words, of which a number is one.                        *)
(***************************************************************************)
EXTENDS Integers, Sequences, FiniteSets

CONSTANTS
  Labels,      \* what an administrator may call a choice
  Words,       \* Words[label]: the words of a label
  RequestIDs,  \* the identifiers the command draws, one per run
  MaxChoices,  \* bound on the choices of a draft (20 in the code)
  MaxTime,     \* bound on the clock
  MaxVotes,    \* bound on the votes of a poll
  MaxInt,      \* the largest int (2^63 - 1 in the code)
  Foreign,     \* an identifier that is none of a poll's
  None

ASSUME AdminAssumption == /\ MaxChoices \in Nat /\ MaxTime \in Nat /\ MaxVotes \in Nat
                          /\ MaxInt \in Nat
                          /\ None \notin {"mismatch", "shown"}

VARIABLES
  clock,
  draft,   \* the create command under way, or None
  polls,   \* polls[r]: the poll stored for request r, or None
  closed,  \* the requests whose polls are closed
  votes,   \* votes[r]: the identifiers voted for in that poll, as a sequence
  meant,   \* history: meant[r]: what these voters meant, likewise
  check    \* the check of a tally under way or done, or None

adminVars == <<clock, draft, polls, closed, votes, meant, check>>

Times == 0..MaxTime
Distinct(s) == \A i, j \in DOMAIN s : s[i] = s[j] => i = j

------------------------------------------------------------------------------
(* Identifiers *)

\* normalizedChoices: the second label with some words gets the number 2 after them, the
\* third a 3, whether or not another label is called so.
Identifier(labels, i) ==
  LET words == Words[labels[i]]
      n == Cardinality({j \in 1..i : Words[labels[j]] = words})
  IN  IF n = 1 THEN words ELSE Append(words, n)

NormalizedChoices(labels) == [i \in DOMAIN labels |-> Identifier(labels, i)]

------------------------------------------------------------------------------
(* vota poll create *)

Drafts == UNION {[1..n -> Labels] : n \in 2..MaxChoices}

\* validateDraft: there are enough labels, no two the same.  The closing time is parsed and
\* not compared with the clock.  A request identifier is drawn, and the request signed.
Compose ==
  /\ draft = None
  /\ \E r \in RequestIDs, labels \in Drafts, closesAt \in Times :
       /\ polls[r] = None /\ Distinct(labels)
       /\ draft' = [request |-> r, labels |-> labels, closesAt |-> closesAt, at |-> "signed"]
  /\ UNCHANGED <<clock, polls, closed, votes, meant, check>>

\* Mutant: poll_choices has no primary key.
Storable_Any(choices) == TRUE

\* The primary key of poll_choices: a choice is not inserted twice, and the transaction that
\* tries to is rolled back.
Storable(choices) == Distinct(choices)

\* Service.CreatePoll: the request is checked again, now with the closing time.
ServeCreate ==
  LET choices == NormalizedChoices(draft.labels)
  IN  /\ draft # None /\ draft.at = "signed"
      /\ IF clock < draft.closesAt /\ Storable(choices)
         THEN /\ polls' = [polls EXCEPT ![draft.request] =
                             [labels |-> draft.labels, choices |-> choices]]
              /\ draft' = [draft EXCEPT !.at = "created"]
         ELSE draft' = [draft EXCEPT !.at = "refused"] /\ UNCHANGED polls
      /\ UNCHANGED <<clock, closed, votes, meant, check>>

\* The command prints the poll's URL, or an error; or the answer does not arrive.  A run
\* after that draws another request identifier.
EndCreate ==
  /\ draft # None
  /\ draft' = None
  /\ UNCHANGED <<clock, polls, closed, votes, meant, check>>

------------------------------------------------------------------------------
(* The choice in vota vote *)

\* readChoice: a number that is shown beside a label picks that label, anything else an
\* identifier.
IsShown(typed, poll) == Len(typed) = 1 /\ typed[1] \in DOMAIN poll.labels

ReadChoice(typed, poll) ==
  IF IsShown(typed, poll) THEN poll.choices[typed[1]] ELSE typed

IDs(poll) == {poll.choices[i] : i \in DOMAIN poll.choices}

\* A voter means the i-th choice, and types its number or its identifier: both are accepted
\* whether the numbered list was printed or, with --choice-stdin, not.  What is meant is clear
\* unless an identifier is typed that reads as the number of a choice.
VoteFor(r) ==
  LET poll == polls[r]
  IN  /\ poll # None /\ r \notin closed /\ Len(votes[r]) < MaxVotes
      /\ \E i \in DOMAIN poll.labels : \E typed \in {<<i>>, poll.choices[i]} :
           /\ votes' = [votes EXCEPT ![r] = Append(@, ReadChoice(typed, poll))]
           /\ meant' = [meant EXCEPT ![r] =
                 Append(@, [choice |-> i, clear |-> typed = <<i>> \/ ~IsShown(typed, poll)])]
      /\ UNCHANGED <<clock, draft, polls, closed, check>>

------------------------------------------------------------------------------
(* vota poll result *)

Close(r) ==
  /\ polls[r] # None
  /\ closed' = closed \cup {r}
  /\ UNCHANGED <<clock, draft, polls, votes, meant, check>>

\* The ints of the code, and where arithmetic on them ends up.
MinInt == -MaxInt - 1
Ints == MinInt..MaxInt
Wrap(n) == ((n - MinInt) % (MaxInt - MinInt + 1)) + MinInt

CountOf(r, id) == Cardinality({k \in DOMAIN votes[r] : votes[r][k] = id})

\* The command fetches the result of a closed poll, and the poll.  The tally is the one the
\* sequencer counted (honest), or any other, signed or not: its signature is looked at last.
StartCheck(r) ==
  /\ check = None /\ r \in closed
  /\ \E honest \in BOOLEAN, count \in Ints, size \in 0..MaxChoices :
       /\ honest => count = Len(votes[r]) /\ size = Len(polls[r].choices)
       /\ check' = [request |-> r, honest |-> honest, count |-> count, left |-> size,
                    read |-> {}, sum |-> 0,
                    verdict |-> IF size = Len(polls[r].choices) /\ count >= 0
                                THEN None ELSE "mismatch"]
  /\ UNCHANGED <<clock, draft, polls, closed, votes, meant>>

\* Mutant: a total is not compared with what is left of the count.
Acceptable_NoRemainder(id, total) ==
  /\ total >= 0
  /\ id \in IDs(polls[check.request])
  /\ ~ \E seen \in check.read : seen.id = id

\* Mutant: a total must be less than what is left of the count.
Acceptable_Strict(id, total) ==
  Acceptable_NoRemainder(id, total) /\ total < Wrap(check.count - check.sum)

\* VerifyTallyForPoll, in the loop: the total is not negative, is a choice's, the first of
\* this choice, and no more than what is left of the count.
Acceptable(id, total) ==
  /\ total >= 0
  /\ id \in IDs(polls[check.request])
  /\ ~ \E seen \in check.read : seen.id = id
  /\ total <= Wrap(check.count - check.sum)

NextTotal ==
  /\ check # None /\ check.verdict = None /\ check.left > 0
  /\ \E id \in IDs(polls[check.request]) \cup {Foreign}, total \in Ints :
       /\ check.honest => /\ id # Foreign /\ ~ \E seen \in check.read : seen.id = id
                          /\ total = CountOf(check.request, id)
       /\ check' =
            IF Acceptable(id, total)
            THEN [check EXCEPT !.left = @ - 1, !.sum = Wrap(@ + total),
                               !.read = @ \cup {[id |-> id, total |-> total]}]
            ELSE [check EXCEPT !.left = 0, !.read = {}, !.sum = 0, !.verdict = "mismatch"]
  /\ UNCHANGED <<clock, draft, polls, closed, votes, meant>>

\* VerifyTallyForPoll, after the loop.  The totals are printed beside their labels.
FinishCheck ==
  /\ check # None /\ check.verdict = None /\ check.left = 0
  /\ \E signed \in BOOLEAN :
       /\ check.honest => signed
       /\ check' = [check EXCEPT !.verdict =
                      IF check.sum = check.count /\ signed THEN "shown" ELSE "mismatch"]
  /\ UNCHANGED <<clock, draft, polls, closed, votes, meant>>

\* The command ends.
EndResult ==
  /\ check # None /\ check.verdict # None
  /\ check' = None
  /\ UNCHANGED <<clock, draft, polls, closed, votes, meant>>

Tick ==
  /\ clock < MaxTime
  /\ clock' = clock + 1
  /\ UNCHANGED <<draft, polls, closed, votes, meant, check>>

------------------------------------------------------------------------------

AdminInit ==
  /\ clock = 0 /\ draft = None /\ check = None /\ closed = {}
  /\ polls = [r \in RequestIDs |-> None]
  /\ votes = [r \in RequestIDs |-> <<>>]
  /\ meant = [r \in RequestIDs |-> <<>>]

AdminNext ==
  \/ Compose \/ ServeCreate \/ EndCreate
  \/ \E r \in RequestIDs : VoteFor(r) \/ Close(r) \/ StartCheck(r)
  \/ NextTotal \/ FinishCheck \/ EndResult
  \/ Tick

AdminSpec == AdminInit /\ [][AdminNext]_adminVars

------------------------------------------------------------------------------
(* Properties *)

\* The sum of the totals, as the number of pairs of a total and one of what it counts.
SumOf(totals) == Cardinality(UNION {{t} \X (1..t.total) : t \in totals})

\* However labels repeat, are spelt alike or look like numbered ones, a vote is counted for
\* the choice its voter meant and for no other.  Excepted are the votes of who typed an
\* identifier that is also a number: such a vote goes to the choice of that number, whatever
\* its voter meant, and with --choice-stdin no list tells him so.
VotesGoToLabels ==
  \A r \in RequestIDs : polls[r] # None =>
    \A k \in DOMAIN votes[r] : meant[r][k].clear =>
      \A i \in DOMAIN polls[r].choices :
        votes[r][k] = polls[r].choices[i] <=> meant[r][k].choice = i

\* The sequencer's own tally is never taken for a wrong one, in whatever order it lists the
\* choices: who asks for the result of a closed poll is shown it.
OwnTallyIsShown == check # None /\ check.honest => check.verdict # "mismatch"

\* A tally that is shown has one total for every choice and none besides, none negative, and
\* in exact arithmetic they make the count, though the sum the command keeps can wrap.
ShownTallyAddsUp ==
  check # None /\ check.verdict = "shown" =>
    /\ {seen.id : seen \in check.read} = IDs(polls[check.request])
    /\ Cardinality(check.read) = Cardinality(IDs(polls[check.request]))
    /\ \A seen \in check.read : seen.total >= 0
    /\ SumOf(check.read) = check.count
==============================================================================
