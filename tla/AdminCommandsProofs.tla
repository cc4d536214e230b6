------------------------- MODULE AdminCommandsProofs -------------------------
(***************************************************************************)
(* What TLAPS proves of labels, their identifiers and the check of a tally,  *)
(* for any labels, any number of votes and ints of any width.               *)
(***************************************************************************)
EXTENDS AdminCommands, FiniteSetTheorems, FunctionTheorems, SequenceTheorems, TLAPS

USE AdminAssumption

------------------------------------------------------------------------------
(* Lemmas on the operators *)

\* Arithmetic whose result is an int is exact.
LEMMA WrapIsExact == \A n \in Ints : Wrap(n) = n
<1> SUFFICES ASSUME NEW n \in Ints PROVE Wrap(n) = n
  OBVIOUS
<1> DEFINE offset == n - MinInt
           width == MaxInt - MinInt + 1
<1>1. offset \in Int /\ width \in Int /\ 0 <= offset /\ offset < width /\ n \in Int /\ MinInt \in Int
  BY DEF Ints, MinInt
<1> HIDE DEF offset, width
<1>2. offset % width = offset
  BY <1>1
<1>3. Wrap(n) = (offset % width) + MinInt
  BY DEF Wrap, offset, width
<1>4. offset + MinInt = n
  BY <1>1 DEF offset
<1> QED
  BY <1>2, <1>3, <1>4

\* The pairs that SumOf counts.
Counted(totals) == UNION {{t} \X (1..t.total) : t \in totals}

\* No total, no sum; and a further total adds to the sum what it says.
LEMMA SumOfTotals ==
  /\ IsFiniteSet(Counted({})) /\ SumOf({}) = 0
  /\ \A totals, x : IsFiniteSet(Counted(totals)) /\ x \notin totals /\ x.total \in Nat =>
       /\ IsFiniteSet(Counted(totals \cup {x}))
       /\ SumOf(totals \cup {x}) = SumOf(totals) + x.total
<1>1. Counted({}) = {}
  BY DEF Counted
<1>2. ASSUME NEW totals, NEW x, IsFiniteSet(Counted(totals)), x \notin totals, x.total \in Nat
      PROVE  /\ IsFiniteSet(Counted(totals \cup {x}))
             /\ SumOf(totals \cup {x}) = SumOf(totals) + x.total
  <2> DEFINE more == {x} \X (1..x.total)
             before == Counted(totals)
  <2>1. IsFiniteSet(more) /\ Cardinality(more) = x.total
    <3> DEFINE n == x.total
               D == 1..n
    <3>1. IsFiniteSet({x}) /\ Cardinality({x}) = 1
      BY FS_Singleton
    <3>2. IsFiniteSet(D) /\ Cardinality(D) = n /\ n \in Nat
      <4> HIDE DEF n
      <4>1. n \in Nat
        BY <1>2 DEF n
      <4> QED
        BY <4>1, FS_Interval
    <3> HIDE DEF D, n
    <3>3. IsFiniteSet({x} \X D) /\ Cardinality({x} \X D) = 1 * n
      BY <3>1, <3>2, FS_Product
    <3>4. IsFiniteSet({x} \X D) /\ Cardinality({x} \X D) = n
      BY <3>2, <3>3
    <3> QED
      BY <3>4 DEF D, n
  <2>2. Counted(totals \cup {x}) = before \cup more
    BY DEF Counted
  <2>3. before \cap more = {}
    <3>1. \A c \in before : c[1] \in totals
      BY DEF Counted
    <3>2. \A c \in more : c[1] = x
      OBVIOUS
    <3> QED
      BY <1>2, <3>1, <3>2
  <2>4. Cardinality(before) \in Nat /\ IsFiniteSet(before)
    BY <1>2, FS_CardinalityType
  <2> HIDE DEF before, more
  <2>5. /\ IsFiniteSet(before \cup more)
        /\ Cardinality(before \cup more) = Cardinality(before) + Cardinality(more) - Cardinality({})
    BY <2>1, <2>3, <2>4, FS_Union
  <2>6. Cardinality(before \cup more) = Cardinality(before) + x.total
    BY <1>2, <2>1, <2>4, <2>5, FS_EmptySet
  <2> QED
    BY <2>2, <2>5, <2>6 DEF SumOf, Counted, before
<1> QED
  BY <1>1, <1>2, FS_EmptySet DEF SumOf, Counted

------------------------------------------------------------------------------
(* The inductive invariant *)

\* The labels of a draft that was composed differ; the request of one that is signed is new.
DraftOK ==
  draft # None =>
    /\ DOMAIN draft = {"request", "labels", "closesAt", "at"}
    /\ draft.request \in RequestIDs /\ draft.labels \in Drafts /\ Distinct(draft.labels)
    /\ draft.at = "signed" => polls[draft.request] = None

\* The labels of a stored poll differ, and so do the identifiers made of them.
PollsOK ==
  /\ DOMAIN polls = RequestIDs
  /\ \A r \in RequestIDs : polls[r] # None =>
       /\ polls[r].labels \in Drafts /\ Distinct(polls[r].labels)
       /\ polls[r].choices = NormalizedChoices(polls[r].labels)
       /\ Distinct(polls[r].choices)

\* What a voter may have meant.
Intents(poll) == [choice : DOMAIN poll.labels, clear : BOOLEAN]

\* Every vote of a poll is for one of its identifiers, and for that of the choice its voter
\* meant if he was clear.
VotesFit(poll, cast, intents) ==
  /\ cast \in Seq(IDs(poll)) /\ intents \in Seq(Intents(poll)) /\ Len(cast) = Len(intents)
  /\ \A k \in DOMAIN cast :
       intents[k].clear => cast[k] = poll.choices[intents[k].choice]

VotesOK ==
  /\ DOMAIN votes = RequestIDs /\ DOMAIN meant = RequestIDs
  /\ \A r \in RequestIDs :
       /\ polls[r] = None => votes[r] = << >> /\ meant[r] = << >>
       /\ VotesFit(polls[r], votes[r], meant[r])

ClosedOK == \A r \in closed : r \in RequestIDs /\ polls[r] # None

\* The votes that the totals read so far account for.
VotesRead(cast, read) == {k \in DOMAIN cast : \E seen \in read : cast[k] = seen.id}

\* As long as no total was rejected, the sum kept is the exact sum of those read, each of a
\* choice of its own, and none was needed twice; and a tally of the sequencer's own is on its
\* way to be shown.
CheckOK ==
  check # None =>
    /\ DOMAIN check = {"request", "honest", "count", "left", "read", "sum", "verdict"}
    /\ check.request \in closed /\ check.count \in Ints /\ check.left \in Nat
    /\ check.verdict # "mismatch" =>
         /\ check.sum \in 0..check.count
         /\ IsFiniteSet(check.read) /\ IsFiniteSet(Counted(check.read))
         /\ check.sum = SumOf(check.read)
         /\ \A seen \in check.read : seen.id \in IDs(polls[check.request]) /\ seen.total \in Nat
         /\ \A a, b \in check.read : a.id = b.id => a = b
         /\ check.left + Cardinality(check.read) = Len(polls[check.request].choices)
    /\ check.honest =>
         /\ check.verdict # "mismatch" /\ check.count = Len(votes[check.request])
         /\ check.sum = Cardinality(VotesRead(votes[check.request], check.read))
    /\ check.verdict = "shown" => check.left = 0 /\ check.sum = check.count

AdminInv == DraftOK /\ PollsOK /\ VotesOK /\ ClosedOK /\ CheckOK

------------------------------------------------------------------------------
(* The invariant is preserved *)

\* Nothing is drafted, stored, voted for or checked.
LEMMA AdminInvInit == AdminInit => AdminInv
<1>1. \A poll : VotesFit(poll, << >>, << >>)
  BY DEF VotesFit
<1> QED
  BY <1>1 DEF AdminInit, AdminInv, DraftOK, PollsOK, VotesOK, ClosedOK, CheckOK

\* A check goes on as long as polls, closed polls and votes stay as they are.
LEMMA CheckStays ==
  ASSUME CheckOK, check' = check, closed \subseteq closed',
         check # None => /\ polls'[check.request] = polls[check.request]
                         /\ votes'[check.request] = votes[check.request]
  PROVE  CheckOK'
BY DEF CheckOK

\* A draft of labels that differ.
LEMMA ComposeStep == ASSUME AdminInv, Compose PROVE AdminInv'
<1>1. UNCHANGED <<clock, polls, closed, votes, meant, check>>
  BY DEF Compose
<1>2. DraftOK'
  BY DEF Compose, DraftOK, Distinct
<1>3. PollsOK' /\ VotesOK' /\ ClosedOK'
  BY <1>1 DEF AdminInv, PollsOK, VotesOK, ClosedOK
<1>4. CheckOK'
  BY <1>1, CheckStays DEF AdminInv
<1> QED
  BY <1>2, <1>3, <1>4 DEF AdminInv

\* The choices of a poll that is stored differ, and there are no votes for it yet.
LEMMA ServeCreateStep == ASSUME AdminInv, ServeCreate PROVE AdminInv'
<1> DEFINE choices == NormalizedChoices(draft.labels)
           r == draft.request
           stored == [labels |-> draft.labels, choices |-> choices]
<1>1. /\ UNCHANGED <<clock, closed, votes, meant, check>>
      /\ draft # None /\ draft.at = "signed"
      /\ \/ /\ Distinct(choices) /\ polls' = [polls EXCEPT ![r] = stored]
            /\ draft' = [draft EXCEPT !.at = "created"]
         \/ draft' = [draft EXCEPT !.at = "refused"] /\ UNCHANGED polls
  BY DEF ServeCreate, Storable
<1>2. /\ DOMAIN draft = {"request", "labels", "closesAt", "at"}
      /\ r \in RequestIDs /\ draft.labels \in Drafts /\ Distinct(draft.labels)
      /\ polls[r] = None
  BY <1>1 DEF AdminInv, DraftOK
<1>3. /\ DOMAIN draft' = {"request", "labels", "closesAt", "at"}
      /\ draft'.request = r /\ draft'.labels = draft.labels /\ draft'.at # "signed"
  BY <1>1, <1>2
<1>4. DraftOK'
  BY <1>2, <1>3 DEF DraftOK, Distinct
<1>5. CASE UNCHANGED polls
  <2>1. PollsOK' /\ VotesOK' /\ ClosedOK'
    BY <1>1, <1>5 DEF AdminInv, PollsOK, VotesOK, ClosedOK
  <2>2. CheckOK'
    BY <1>1, <1>5, CheckStays DEF AdminInv
  <2> QED
    BY <1>4, <2>1, <2>2 DEF AdminInv
<1>6. CASE Distinct(choices) /\ polls' = [polls EXCEPT ![r] = stored]
  <2>1. stored.labels = draft.labels /\ stored.choices = choices
    OBVIOUS
  <2> HIDE DEF stored, choices, r
  <2>2. /\ DOMAIN polls' = RequestIDs /\ polls'[r] = stored
        /\ \A q \in RequestIDs \ {r} : polls'[q] = polls[q]
    BY <1>2, <1>6 DEF AdminInv, PollsOK
  <2>3. PollsOK'
    BY <1>2, <1>6, <2>1, <2>2 DEF AdminInv, PollsOK, Distinct, choices
  <2>4. VotesOK'
    <3>1. votes[r] = << >> /\ meant[r] = << >>
      BY <1>2 DEF AdminInv, VotesOK
    <3>2. VotesFit(polls'[r], votes'[r], meant'[r])
      BY <1>1, <3>1 DEF VotesFit
    <3> QED
      BY <1>1, <1>2, <2>2, <3>1, <3>2 DEF AdminInv, VotesOK
  <2>5. r \notin closed
    BY <1>2 DEF AdminInv, ClosedOK
  <2>6. ClosedOK'
    BY <1>1, <2>2, <2>5 DEF AdminInv, ClosedOK
  <2>7. CheckOK'
    <3>1. check # None => check.request \in RequestIDs \ {r}
      BY <2>5 DEF AdminInv, ClosedOK, CheckOK
    <3> QED
      BY <1>1, <2>2, <3>1, CheckStays DEF AdminInv
  <2> QED
    BY <1>4, <2>3, <2>4, <2>6, <2>7 DEF AdminInv
<1> QED
  BY <1>1, <1>5, <1>6

\* A draft is forgotten.
LEMMA EndCreateStep == ASSUME AdminInv, EndCreate PROVE AdminInv'
<1>1. UNCHANGED <<clock, polls, closed, votes, meant, check>> /\ draft' = None
  BY DEF EndCreate
<1>2. CheckOK'
  BY <1>1, CheckStays DEF AdminInv
<1> QED
  BY <1>1, <1>2 DEF AdminInv, DraftOK, PollsOK, VotesOK, ClosedOK

\* What is typed for a choice leads to an identifier of the poll, and to that of the choice
\* unless it is an identifier that reads as a number.
LEMMA ReadChoiceFits ==
  ASSUME NEW poll, DOMAIN poll.choices = DOMAIN poll.labels,
         NEW i \in DOMAIN poll.labels, NEW typed \in {<<i>>, poll.choices[i]}
  PROVE  /\ ReadChoice(typed, poll) \in IDs(poll)
         /\ typed = <<i>> \/ ~IsShown(typed, poll) => ReadChoice(typed, poll) = poll.choices[i]
<1>1. CASE IsShown(typed, poll)
  <2>1. typed[1] \in DOMAIN poll.labels
    BY <1>1 DEF IsShown
  <2>2. ReadChoice(typed, poll) = poll.choices[typed[1]]
    BY <1>1 DEF ReadChoice
  <2>3. typed = <<i>> => typed[1] = i
    OBVIOUS
  <2> QED
    BY <1>1, <2>1, <2>2, <2>3 DEF IDs
<1>2. CASE ~IsShown(typed, poll)
  <2>1. typed # <<i>>
    BY <1>2 DEF IsShown
  <2>2. ReadChoice(typed, poll) = poll.choices[i]
    BY <1>2, <2>1 DEF ReadChoice
  <2> QED
    BY <2>2 DEF IDs
<1> QED
  BY <1>1, <1>2

\* A vote and what its voter meant are added together.
LEMMA VoteForStep == ASSUME AdminInv, NEW r \in RequestIDs, VoteFor(r) PROVE AdminInv'
<1> DEFINE poll == polls[r]
           intent(i, typed) == [choice |-> i, clear |-> typed = <<i>> \/ ~IsShown(typed, poll)]
<1>1. /\ UNCHANGED <<clock, draft, polls, closed, check>> /\ poll # None /\ r \notin closed
      /\ \E i \in DOMAIN poll.labels : \E typed \in {<<i>>, poll.choices[i]} :
           /\ votes' = [votes EXCEPT ![r] = Append(@, ReadChoice(typed, poll))]
           /\ meant' = [meant EXCEPT ![r] = Append(@, intent(i, typed))]
  BY DEF VoteFor
<1>2. DOMAIN poll.choices = DOMAIN poll.labels /\ poll.labels \in Drafts
  BY <1>1 DEF AdminInv, PollsOK, NormalizedChoices
<1>3. PICK id \in IDs(poll), meaning \in Intents(poll) :
        /\ votes' = [votes EXCEPT ![r] = Append(@, id)]
        /\ meant' = [meant EXCEPT ![r] = Append(@, meaning)]
        /\ meaning.clear => id = poll.choices[meaning.choice]
  <2>0. PICK i \in DOMAIN poll.labels : \E typed \in {<<i>>, poll.choices[i]} :
          /\ votes' = [votes EXCEPT ![r] = Append(@, ReadChoice(typed, poll))]
          /\ meant' = [meant EXCEPT ![r] = Append(@, intent(i, typed))]
    BY <1>1
  <2>1. PICK typed \in {<<i>>, poll.choices[i]} :
          /\ votes' = [votes EXCEPT ![r] = Append(@, ReadChoice(typed, poll))]
          /\ meant' = [meant EXCEPT ![r] = Append(@, intent(i, typed))]
    BY <2>0
  <2> HIDE DEF poll
  <2>2. /\ ReadChoice(typed, poll) \in IDs(poll)
        /\ typed = <<i>> \/ ~IsShown(typed, poll) => ReadChoice(typed, poll) = poll.choices[i]
    BY <1>2, ReadChoiceFits
  <2>3. /\ intent(i, typed) \in Intents(poll) /\ intent(i, typed).choice = i
        /\ intent(i, typed).clear => typed = <<i>> \/ ~IsShown(typed, poll)
    BY DEF Intents
  <2> HIDE DEF intent
  <2> QED
    BY <2>1, <2>2, <2>3
<1> HIDE DEF intent
<1>4. /\ votes'[r] = Append(votes[r], id) /\ meant'[r] = Append(meant[r], meaning)
      /\ \A q \in RequestIDs \ {r} : votes'[q] = votes[q] /\ meant'[q] = meant[q]
      /\ DOMAIN votes' = RequestIDs /\ DOMAIN meant' = RequestIDs
  BY <1>3 DEF AdminInv, VotesOK
<1> HIDE DEF poll
<1>5. VotesFit(poll, votes'[r], meant'[r])
  <2>1. VotesFit(poll, votes[r], meant[r])
    BY DEF AdminInv, VotesOK, poll
  <2> DEFINE cast == votes[r]
             intents == meant[r]
  <2>2. /\ cast \in Seq(IDs(poll)) /\ intents \in Seq(Intents(poll)) /\ Len(cast) = Len(intents)
        /\ \A k \in DOMAIN cast : intents[k].clear => cast[k] = poll.choices[intents[k].choice]
    BY <2>1 DEF VotesFit
  <2> HIDE DEF cast, intents
  <2>3. /\ Append(cast, id) \in Seq(IDs(poll)) /\ Append(intents, meaning) \in Seq(Intents(poll))
        /\ Len(Append(cast, id)) = Len(cast) + 1
        /\ Len(Append(intents, meaning)) = Len(intents) + 1
        /\ DOMAIN Append(cast, id) = DOMAIN cast \cup {Len(cast) + 1}
        /\ \A k \in DOMAIN cast :
             Append(cast, id)[k] = cast[k] /\ Append(intents, meaning)[k] = intents[k]
        /\ Append(cast, id)[Len(cast) + 1] = id
        /\ Append(intents, meaning)[Len(cast) + 1] = meaning
    BY <2>2, <1>3
  <2>4. VotesFit(poll, Append(cast, id), Append(intents, meaning))
    BY <1>3, <2>2, <2>3 DEF VotesFit
  <2> QED
    BY <1>4, <2>4 DEF cast, intents
<1>6. VotesOK'
  BY <1>1, <1>4, <1>5 DEF AdminInv, VotesOK, poll
<1>7. DraftOK' /\ PollsOK' /\ ClosedOK'
  BY <1>1 DEF AdminInv, DraftOK, PollsOK, ClosedOK
<1>8. CheckOK'
  <2>1. check # None => check.request \in RequestIDs \ {r}
    BY <1>1 DEF AdminInv, ClosedOK, CheckOK
  <2> QED
    BY <1>1, <1>4, <2>1, CheckStays DEF AdminInv
<1> QED
  BY <1>6, <1>7, <1>8 DEF AdminInv

\* A poll that exists is closed.
LEMMA CloseStep == ASSUME AdminInv, NEW r \in RequestIDs, Close(r) PROVE AdminInv'
<1>1. /\ UNCHANGED <<clock, draft, polls, votes, meant, check>>
      /\ closed' = closed \cup {r} /\ polls[r] # None
  BY DEF Close
<1>2. CheckOK'
  BY <1>1, CheckStays DEF AdminInv
<1> QED
  BY <1>1, <1>2 DEF AdminInv, DraftOK, PollsOK, VotesOK, ClosedOK

\* What has not been compared yet is all of it.
LEMMA StartCheckStep == ASSUME AdminInv, NEW r \in RequestIDs, StartCheck(r) PROVE AdminInv'
<1> DEFINE choices == polls[r].choices
<1>1. UNCHANGED <<clock, draft, polls, closed, votes, meant>> /\ r \in closed
  BY DEF StartCheck
<1>2. PICK honest \in BOOLEAN, count \in Ints, size \in 0..MaxChoices :
        /\ honest => count = Len(votes[r]) /\ size = Len(choices)
        /\ check' = [request |-> r, honest |-> honest, count |-> count, left |-> size,
                     read |-> {}, sum |-> 0,
                     verdict |-> IF size = Len(choices) /\ count >= 0
                                 THEN None ELSE "mismatch"]
  BY DEF StartCheck
<1>3. CheckOK'
  <2>1. /\ DOMAIN check' = {"request", "honest", "count", "left", "read", "sum", "verdict"}
        /\ check'.request = r /\ check'.count = count /\ check'.left = size
        /\ check'.read = {} /\ check'.sum = 0 /\ check'.verdict # "shown"
        /\ (check'.honest <=> honest)
        /\ check'.verdict # "mismatch" <=> size = Len(choices) /\ count >= 0
    BY <1>2
  <2>2. Len(votes[r]) \in Nat
    BY DEF AdminInv, VotesOK, VotesFit
  <2>3. honest => count >= 0
    BY <1>2, <2>2
  <2>4. count \in Int /\ size \in Nat
    BY DEF Ints, MinInt
  <2>5. VotesRead(votes[r], {}) = {}
    BY DEF VotesRead
  <2> HIDE DEF choices
  <2>6. check'.verdict # "mismatch" =>
          /\ check'.sum \in 0..check'.count
          /\ IsFiniteSet(check'.read) /\ IsFiniteSet(Counted(check'.read))
          /\ check'.sum = SumOf(check'.read)
          /\ check'.left + Cardinality(check'.read) = Len(choices)
    BY <2>1, <2>4, SumOfTotals, FS_EmptySet
  <2>7. check'.honest =>
          /\ check'.verdict # "mismatch" /\ check'.count = Len(votes[r])
          /\ check'.sum = Cardinality(VotesRead(votes[r], check'.read))
    BY <1>2, <2>1, <2>3, <2>5, FS_EmptySet DEF choices
  <2> QED
    BY <1>1, <2>1, <2>4, <2>6, <2>7 DEF CheckOK, choices
<1> QED
  BY <1>1, <1>3 DEF AdminInv, DraftOK, PollsOK, VotesOK, ClosedOK

\* The votes of a poll are finitely many, each for one of its identifiers.
LEMMA VotesCounted ==
  ASSUME AdminInv, NEW r \in RequestIDs
  PROVE  /\ IsFiniteSet(DOMAIN votes[r]) /\ Cardinality(DOMAIN votes[r]) = Len(votes[r])
         /\ \A k \in DOMAIN votes[r] : votes[r][k] \in IDs(polls[r])
<1>1. votes[r] \in Seq(IDs(polls[r]))
  BY DEF AdminInv, VotesOK, VotesFit
<1> DEFINE cast == votes[r]
<1>2. DOMAIN cast = 1..Len(cast) /\ Len(cast) \in Nat /\ \A k \in DOMAIN cast : cast[k] \in IDs(polls[r])
  BY <1>1
<1> HIDE DEF cast
<1>3. IsFiniteSet(1..Len(cast)) /\ Cardinality(1..Len(cast)) = Len(cast)
  <2> DEFINE n == Len(cast)
  <2>1. n \in Nat
    BY <1>2
  <2> HIDE DEF n
  <2>2. IsFiniteSet(1..n) /\ Cardinality(1..n) = n
    BY <2>1, FS_Interval
  <2> QED
    BY <2>2 DEF n
<1> QED
  BY <1>2, <1>3 DEF cast

\* A total that is accepted is added without overflow, and one of the sequencer's own is accepted.
LEMMA NextTotalStep == ASSUME AdminInv, NextTotal PROVE AdminInv'
<1> DEFINE r == check.request
           cast == votes[r]
           before == VotesRead(cast, check.read)
<1>1. /\ UNCHANGED <<clock, draft, polls, closed, votes, meant>>
      /\ check # None /\ check.verdict = None /\ check.left > 0
  BY DEF NextTotal
<1>2. PICK id \in IDs(polls[r]) \cup {Foreign}, total \in Ints :
        /\ check.honest => /\ id # Foreign /\ ~ \E seen \in check.read : seen.id = id
                           /\ total = CountOf(r, id)
        /\ check' =
             IF Acceptable(id, total)
             THEN [check EXCEPT !.left = @ - 1, !.sum = Wrap(@ + total),
                                !.read = @ \cup {[id |-> id, total |-> total]}]
             ELSE [check EXCEPT !.left = 0, !.read = {}, !.sum = 0, !.verdict = "mismatch"]
  BY DEF NextTotal
<1>3. /\ DOMAIN check = {"request", "honest", "count", "left", "read", "sum", "verdict"}
      /\ r \in closed /\ r \in RequestIDs /\ check.count \in Ints /\ check.left \in Nat
      /\ check.sum \in 0..check.count
      /\ IsFiniteSet(check.read) /\ IsFiniteSet(Counted(check.read))
      /\ check.sum = SumOf(check.read)
      /\ \A seen \in check.read : seen.id \in IDs(polls[r]) /\ seen.total \in Nat
      /\ \A a, b \in check.read : a.id = b.id => a = b
      /\ check.left + Cardinality(check.read) = Len(polls[r].choices)
      /\ check.honest => check.count = Len(cast) /\ check.sum = Cardinality(before)
  BY <1>1 DEF AdminInv, CheckOK, ClosedOK
<1>4. check.count \in Int /\ total \in Int /\ check.sum \in Int /\ 0 <= check.sum
      /\ check.sum <= check.count /\ check.count <= MaxInt
  BY <1>3 DEF Ints, MinInt
<1>5. Wrap(check.count - check.sum) = check.count - check.sum
  <2>1. check.count - check.sum \in Ints
    BY <1>4 DEF Ints, MinInt
  <2> QED
    BY <2>1, WrapIsExact
<1> DEFINE of == {k \in DOMAIN cast : cast[k] = id}
<1>6. ASSUME check.honest
      PROVE  /\ Acceptable(id, total)
             /\ Cardinality(before \cup of) = check.sum + total
  <2>1. /\ id \in IDs(polls[r]) /\ ~ \E seen \in check.read : seen.id = id
        /\ total = CountOf(r, id)
    BY <1>2, <1>6
  <2>2. of \subseteq DOMAIN cast /\ before \subseteq DOMAIN cast /\ of \cap before = {}
    BY <2>1 DEF VotesRead
  <2>3. total = Cardinality(of)
    BY <2>1 DEF CountOf
  <2>4. IsFiniteSet(DOMAIN cast) /\ Cardinality(DOMAIN cast) = Len(cast)
    BY <1>3, VotesCounted
  <2> HIDE DEF of, before, cast
  <2>5. /\ IsFiniteSet(of) /\ IsFiniteSet(before) /\ before \cup of \subseteq DOMAIN cast
    BY <2>2, <2>4, FS_Subset
  <2>6. /\ Cardinality(of) \in Nat /\ Cardinality(before) \in Nat
        /\ Cardinality(before \cup of) = Cardinality(before) + Cardinality(of) - Cardinality({})
    BY <2>2, <2>5, FS_Union, FS_CardinalityType
  <2>7. Cardinality(before \cup of) = check.sum + total
    BY <1>3, <1>6, <2>3, <2>6, FS_EmptySet
  <2>8. Cardinality(before \cup of) <= check.count
    BY <1>3, <1>6, <2>4, <2>5, FS_Subset
  <2>9. total >= 0 /\ total <= check.count - check.sum
    BY <1>4, <2>3, <2>6, <2>7, <2>8
  <2> QED
    BY <1>5, <2>1, <2>7, <2>9 DEF Acceptable
<1>7. CASE Acceptable(id, total)
  <2> DEFINE x == [id |-> id, total |-> total]
             read == check.read \cup {x}
  <2>1. /\ total >= 0 /\ id \in IDs(polls[r]) /\ ~ \E seen \in check.read : seen.id = id
        /\ total <= check.count - check.sum
    BY <1>5, <1>7 DEF Acceptable
  <2>2. x.id = id /\ x.total = total
    OBVIOUS
  <2>3. x \notin check.read
    BY <2>1, <2>2
  <2>4. total \in Nat /\ check.sum + total \in Ints
    BY <1>4, <2>1 DEF Ints, MinInt
  <2>5. Wrap(check.sum + total) = check.sum + total
    BY <2>4, WrapIsExact
  <2>6. /\ DOMAIN check' = DOMAIN check /\ check'.request = r /\ check'.count = check.count
        /\ check'.honest = check.honest /\ check'.verdict = None
        /\ check'.left = check.left - 1 /\ check'.sum = check.sum + total
        /\ check'.read = read
    <3> HIDE DEF x
    <3>1. check' = [check EXCEPT !.left = @ - 1, !.sum = Wrap(@ + total), !.read = @ \cup {x}]
      BY <1>2, <1>7 DEF x
    <3> QED
      BY <1>1, <1>3, <2>5, <3>1
  <2> HIDE DEF x
  <2>7. IsFiniteSet(Counted(read)) /\ check'.sum = SumOf(read)
    BY <1>3, <2>2, <2>3, <2>4, <2>6, SumOfTotals
  <2>8. IsFiniteSet(read) /\ Cardinality(read) = Cardinality(check.read) + 1
    BY <1>3, <2>3, FS_AddElement
  <2>9. /\ \A seen \in read : seen.id \in IDs(polls[r]) /\ seen.total \in Nat
        /\ \A a, b \in read : a.id = b.id => a = b
    BY <1>3, <2>1, <2>2, <2>4
  <2>10. check'.sum \in 0..check'.count
    BY <1>4, <2>1, <2>6
  <2>11. check'.left \in Nat /\ check'.left + Cardinality(read) = Len(polls[r].choices)
    <3>1. Cardinality(check.read) \in Nat
      BY <1>3, FS_CardinalityType
    <3> QED
      BY <1>1, <1>3, <2>6, <2>8, <3>1
  <2>12. check.honest => check'.sum = Cardinality(VotesRead(cast, read))
    <3>1. VotesRead(cast, read) = before \cup of
      BY <2>2 DEF VotesRead
    <3> QED
      BY <1>6, <2>6, <3>1
  <2> HIDE DEF read
  <2>13. CheckOK'
    BY <1>1, <1>3, <2>6, <2>7, <2>8, <2>9, <2>10, <2>11, <2>12 DEF CheckOK
  <2> QED
    BY <1>1, <2>13 DEF AdminInv, DraftOK, PollsOK, VotesOK, ClosedOK
<1>8. CASE ~Acceptable(id, total)
  <2>1. check' = [check EXCEPT !.left = 0, !.read = {}, !.sum = 0, !.verdict = "mismatch"]
    BY <1>2, <1>8
  <2>2. /\ DOMAIN check' = DOMAIN check /\ check'.request = r /\ check'.count = check.count
        /\ check'.honest = check.honest /\ check'.verdict = "mismatch" /\ check'.left = 0
    BY <1>3, <2>1
  <2>3. ~check.honest
    BY <1>6, <1>8
  <2>4. CheckOK'
    BY <1>1, <1>3, <2>2, <2>3 DEF CheckOK
  <2> QED
    BY <1>1, <2>4 DEF AdminInv, DraftOK, PollsOK, VotesOK, ClosedOK
<1> QED
  BY <1>7, <1>8

\* When as many totals were read as the poll has choices, each of a choice of its own, every
\* choice has one.
LEMMA EveryChoiceRead ==
  ASSUME NEW n \in Nat, NEW choices, NEW read, DOMAIN choices = 1..n,
         IsFiniteSet(read), Cardinality(read) = n,
         \A seen \in read : \E i \in 1..n : seen.id = choices[i],
         \A a, b \in read : a.id = b.id => a = b
  PROVE  \A i \in 1..n : \E seen \in read : seen.id = choices[i]
<1> DEFINE D == 1..n
           ids == {choices[i] : i \in D}
           seenIDs == {seen.id : seen \in read}
           f == [i \in D |-> choices[i]]
           g == [seen \in read |-> seen.id]
<1>1. IsFiniteSet(D) /\ Cardinality(D) = n
  BY FS_Interval
<1> HIDE DEF D
<1>2. f \in Surjection(D, ids)
  BY DEF Surjection
<1>3. g \in Injection(read, seenIDs) /\ g \in Surjection(read, seenIDs)
  BY DEF Injection, IsInjective, Surjection
<1>4. seenIDs \subseteq ids
  BY DEF D
<1>5. IsFiniteSet(ids) /\ Cardinality(ids) <= n
  <2> HIDE DEF f, ids
  <2> QED
    BY <1>1, <1>2, FS_Surjection
<1>6. Cardinality(seenIDs) = n
  <2> HIDE DEF g, seenIDs
  <2>1. /\ IsFiniteSet(seenIDs)
        /\ Cardinality(seenIDs) = Cardinality(read) <=> g \in Injection(read, seenIDs)
    BY <1>3, FS_Surjection
  <2> QED
    BY <1>3, <2>1
<1> HIDE DEF ids, seenIDs
<1>7. seenIDs = ids
  <2>1. Cardinality(ids) \in Nat /\ Cardinality(seenIDs) <= Cardinality(ids)
    BY <1>4, <1>5, FS_Subset, FS_CardinalityType
  <2>2. Cardinality(ids) = Cardinality(seenIDs)
    BY <1>5, <1>6, <2>1
  <2> QED
    BY <1>4, <1>5, <2>2, FS_Subset
<1> QED
  BY <1>7 DEF ids, seenIDs, D

\* The same of a check that has read all its totals.
LEMMA AllRead ==
  ASSUME AdminInv, check # None, check.verdict # "mismatch", check.left = 0
  PROVE  {seen.id : seen \in check.read} = IDs(polls[check.request])
<1> DEFINE r == check.request
           choices == polls[r].choices
           read == check.read
<1>1. /\ r \in RequestIDs /\ polls[r] # None
      /\ IsFiniteSet(read) /\ Cardinality(read) = Len(choices)
      /\ \A seen \in read : seen.id \in IDs(polls[r])
      /\ \A a, b \in read : a.id = b.id => a = b
  <2>1. check.left + Cardinality(read) = Len(choices) /\ IsFiniteSet(read)
    BY DEF AdminInv, CheckOK
  <2>2. Cardinality(read) \in Nat
    BY <2>1, FS_CardinalityType
  <2> QED
    BY <2>1, <2>2 DEF AdminInv, CheckOK, ClosedOK
<1>2. PICK n \in Nat : DOMAIN choices = 1..n /\ Len(choices) = n
  <2>1. polls[r].labels \in Drafts /\ choices = NormalizedChoices(polls[r].labels)
    BY <1>1 DEF AdminInv, PollsOK
  <2>2. PICK n \in 2..MaxChoices : polls[r].labels \in [1..n -> Labels]
    BY <2>1 DEF Drafts
  <2>3. DOMAIN choices = 1..n
    BY <2>1, <2>2 DEF NormalizedChoices
  <2>4. choices \in Seq({choices[i] : i \in 1..n})
    <3> DEFINE ids == {choices[i] : i \in 1..n}
    <3>1. choices \in [1..n -> ids]
      BY <2>1, <2>3 DEF NormalizedChoices
    <3> HIDE DEF ids
    <3>2. choices \in UNION {[1..m -> ids] : m \in Nat}
      BY <3>1
    <3>3. choices \in Seq(ids)
      BY <3>2, SeqDef
    <3> QED
      BY <3>3 DEF ids
  <2>5. Len(choices) = n
    <3> HIDE DEF choices
    <3> QED
      BY <2>3, <2>4
  <2> QED
    BY <2>3, <2>5
<1> HIDE DEF choices, read
<1>3. \A seen \in read : \E i \in 1..n : seen.id = choices[i]
  BY <1>1, <1>2 DEF IDs, choices
<1>4. DOMAIN choices = 1..n /\ Cardinality(read) = n
  BY <1>1, <1>2
<1>5. IsFiniteSet(read) /\ \A a, b \in read : a.id = b.id => a = b
  BY <1>1
<1>6. \A i \in 1..n : \E seen \in read : seen.id = choices[i]
  BY <1>3, <1>4, <1>5, EveryChoiceRead
<1>7. {seen.id : seen \in read} = {choices[i] : i \in 1..n}
  BY <1>3, <1>6
<1>8. IDs(polls[r]) = {choices[i] : i \in 1..n}
  BY <1>4 DEF IDs, choices
<1> QED
  BY <1>7, <1>8 DEF read

\* When every choice has its total, all votes are accounted for.
LEMMA FinishCheckStep == ASSUME AdminInv, FinishCheck PROVE AdminInv'
<1> DEFINE r == check.request
           cast == votes[r]
<1>1. /\ UNCHANGED <<clock, draft, polls, closed, votes, meant>>
      /\ check # None /\ check.verdict = None /\ check.left = 0
  BY DEF FinishCheck
<1>2. PICK signed \in BOOLEAN :
        /\ check.honest => signed
        /\ check' = [check EXCEPT !.verdict =
                       IF check.sum = check.count /\ signed THEN "shown" ELSE "mismatch"]
  BY DEF FinishCheck
<1>3. r \in RequestIDs
  BY <1>1 DEF AdminInv, CheckOK, ClosedOK
<1>4. ASSUME check.honest PROVE check.sum = check.count
  <2>1. VotesRead(cast, check.read) = DOMAIN cast
    <3>1. \A k \in DOMAIN cast : cast[k] \in IDs(polls[r])
      BY <1>3, VotesCounted
    <3>2. {seen.id : seen \in check.read} = IDs(polls[r])
      BY <1>1, AllRead
    <3> QED
      BY <3>1, <3>2 DEF VotesRead
  <2>2. Cardinality(DOMAIN cast) = Len(cast)
    BY <1>3, VotesCounted
  <2>3. check.sum = Cardinality(VotesRead(cast, check.read)) /\ check.count = Len(cast)
    BY <1>1, <1>4 DEF AdminInv, CheckOK
  <2> QED
    BY <2>1, <2>2, <2>3
<1>5. DOMAIN check = {"request", "honest", "count", "left", "read", "sum", "verdict"}
  BY <1>1 DEF AdminInv, CheckOK
<1>6. /\ DOMAIN check' = DOMAIN check /\ check'.request = r /\ check'.count = check.count
      /\ check'.honest = check.honest /\ check'.left = 0 /\ check'.sum = check.sum
      /\ check'.read = check.read
      /\ check'.verdict = "shown" => check.sum = check.count
      /\ check.honest => check'.verdict = "shown"
  BY <1>1, <1>2, <1>4, <1>5
<1>7. CheckOK'
  BY <1>1, <1>6 DEF AdminInv, CheckOK
<1> QED
  BY <1>1, <1>7 DEF AdminInv, DraftOK, PollsOK, VotesOK, ClosedOK

\* A check is over.
LEMMA EndResultStep == ASSUME AdminInv, EndResult PROVE AdminInv'
<1>1. UNCHANGED <<clock, draft, polls, closed, votes, meant>> /\ check' = None
  BY DEF EndResult
<1> QED
  BY <1>1 DEF AdminInv, DraftOK, PollsOK, VotesOK, ClosedOK, CheckOK

\* Only the clock changes, or nothing.
LEMMA TickStep == ASSUME AdminInv, Tick \/ UNCHANGED adminVars PROVE AdminInv'
<1>1. UNCHANGED <<draft, polls, closed, votes, meant, check>>
  BY DEF Tick, adminVars
<1> QED
  BY <1>1 DEF AdminInv, DraftOK, PollsOK, VotesOK, ClosedOK, CheckOK

\* The invariant is inductive.
LEMMA AdminInvStep == AdminInv /\ [AdminNext]_adminVars => AdminInv'
<1> SUFFICES ASSUME AdminInv, [AdminNext]_adminVars PROVE AdminInv'
  OBVIOUS
<1>1. CASE Compose \/ ServeCreate \/ EndCreate
  BY <1>1, ComposeStep, ServeCreateStep, EndCreateStep
<1>2. CASE \E r \in RequestIDs : VoteFor(r) \/ Close(r) \/ StartCheck(r)
  BY <1>2, VoteForStep, CloseStep, StartCheckStep
<1>3. CASE NextTotal \/ FinishCheck \/ EndResult
  BY <1>3, NextTotalStep, FinishCheckStep, EndResultStep
<1>4. CASE Tick \/ UNCHANGED adminVars
  BY <1>4, TickStep
<1> QED
  BY <1>1, <1>2, <1>3, <1>4 DEF AdminNext

\* The invariant holds, however many labels, votes and checks there are.
THEOREM AdminInvariant == AdminSpec => []AdminInv
<1>1. AdminInit => AdminInv
  BY AdminInvInit
<1>2. AdminInv /\ [AdminNext]_adminVars => AdminInv'
  BY AdminInvStep
<1> QED
  BY <1>1, <1>2, PTL DEF AdminSpec

------------------------------------------------------------------------------
(* What it is for *)

\* Whatever the labels, a vote is counted for the choice its voter meant and for no other, by
\* number or by identifier, unless what was typed is an identifier that reads as a number.
THEOREM VotesReachLabels == AdminSpec => []VotesGoToLabels
<1>1. AdminInv => VotesGoToLabels
  <2> SUFFICES ASSUME AdminInv, NEW r \in RequestIDs, polls[r] # None,
                      NEW k \in DOMAIN votes[r], meant[r][k].clear,
                      NEW i \in DOMAIN polls[r].choices
               PROVE  votes[r][k] = polls[r].choices[i] <=> meant[r][k].choice = i
    BY DEF VotesGoToLabels
  <2>1. Distinct(polls[r].choices) /\ DOMAIN polls[r].choices = DOMAIN polls[r].labels
    BY DEF AdminInv, PollsOK, NormalizedChoices
  <2>2. VotesFit(polls[r], votes[r], meant[r])
    BY DEF AdminInv, VotesOK
  <2> DEFINE cast == votes[r]
             intents == meant[r]
  <2>3. /\ cast \in Seq(IDs(polls[r])) /\ intents \in Seq(Intents(polls[r]))
        /\ Len(cast) = Len(intents)
    BY <2>2 DEF VotesFit
  <2>4. k \in DOMAIN cast
    OBVIOUS
  <2> HIDE DEF cast, intents
  <2>5. intents[k].choice \in DOMAIN polls[r].labels
    <3>1. k \in DOMAIN intents
      BY <2>3, <2>4
    <3>2. intents[k] \in Intents(polls[r])
      BY <2>3, <3>1
    <3> QED
      BY <3>2 DEF Intents
  <2>6. votes[r][k] = polls[r].choices[meant[r][k].choice]
    BY <2>2 DEF VotesFit
  <2> QED
    BY <2>1, <2>5, <2>6 DEF Distinct, intents
<1> QED
  BY <1>1, AdminInvariant, PTL

\* The sequencer's own tally of a closed poll is never reported as wrong, in any order of its
\* totals.
THEOREM OwnTallyShown == AdminSpec => []OwnTallyIsShown
<1>1. AdminInv => OwnTallyIsShown
  BY DEF AdminInv, CheckOK, OwnTallyIsShown
<1> QED
  BY <1>1, AdminInvariant, PTL

\* No tally is shown whose totals do not make its count in exact arithmetic, or that does not
\* give every choice of the poll, and nothing else, one total.
THEOREM ShownTallyIsWhole == AdminSpec => []ShownTallyAddsUp
<1>1. AdminInv => ShownTallyAddsUp
  <2> SUFFICES ASSUME AdminInv, check # None, check.verdict = "shown"
               PROVE  /\ {seen.id : seen \in check.read} = IDs(polls[check.request])
                      /\ Cardinality(check.read) = Cardinality(IDs(polls[check.request]))
                      /\ \A seen \in check.read : seen.total >= 0
                      /\ SumOf(check.read) = check.count
    BY DEF ShownTallyAddsUp
  <2>1. /\ IsFiniteSet(check.read) /\ check.sum = SumOf(check.read) /\ check.left = 0
        /\ check.sum = check.count /\ \A seen \in check.read : seen.total \in Nat
        /\ \A a, b \in check.read : a.id = b.id => a = b
    BY DEF AdminInv, CheckOK
  <2>2. {seen.id : seen \in check.read} = IDs(polls[check.request])
    BY <2>1, AllRead
  <2>3. Cardinality(check.read) = Cardinality(IDs(polls[check.request]))
    <3> DEFINE read == check.read
               ids == {seen.id : seen \in read}
               g == [seen \in read |-> seen.id]
    <3>1. g \in Injection(read, ids) /\ g \in Surjection(read, ids)
      BY <2>1 DEF Injection, IsInjective, Surjection
    <3> HIDE DEF g, ids, read
    <3>2. Cardinality(ids) = Cardinality(read) <=> g \in Injection(read, ids)
      BY <2>1, <3>1, FS_Surjection DEF read
    <3> QED
      BY <2>2, <3>1, <3>2 DEF ids, read
  <2> QED
    BY <2>1, <2>2, <2>3
<1> QED
  BY <1>1, AdminInvariant, PTL
==============================================================================
