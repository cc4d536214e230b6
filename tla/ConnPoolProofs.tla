--------------------------- MODULE ConnPoolProofs ---------------------------
(***************************************************************************)
(* What TLAPS proves of the store's connections, for any number of calls,    *)
(* any size of the pool and scans of any length: the count of connections in *)
(* use is right in every state, and calls do not wait in a circle.            *)
(***************************************************************************)
EXTENDS ConnPool, FiniteSetTheorems, FunctionTheorems, TLAPS

USE MaxOpenAssumption, MaxRowsAssumption, MaxAttemptsAssumption, NobodyAssumption

------------------------------------------------------------------------------
(* The inductive invariant *)

Operations == {"query", "transaction", "scan"}

PoolTypeOK ==
  /\ plan \in [Calls -> Seq(Operations)]
  /\ stage \in [Calls -> {"waiting", "query", "begin", "transaction", "rows", "row"}]
  /\ rows \in [Calls -> Nat]
  /\ attempts \in [Calls -> 0..MaxAttempts]
  /\ inUse \in 0..MaxOpen
  /\ lock \in Calls \cup {Nobody}

\* A call is only at a stage of the operation it is doing.
StageFitsPlan ==
  \A c \in Calls :
    /\ stage[c] = "query" => Doing(c, "query")
    /\ stage[c] \in {"begin", "transaction"} => Doing(c, "transaction")
    /\ stage[c] \in {"rows", "row"} => Doing(c, "scan")
    /\ stage[c] = "row" => rows[c] > 0

\* The write lock is with the one transaction there is.
LockIsHeld == \A c \in Calls : lock = c <=> stage[c] = "transaction"

\* The connections the calls hold: the first and, for a row of a scan, the second.
Connections == {x \in Calls \X {1, 2} : x[2] <= Held(x[1])}

\* The pool counts what the calls hold.
Counted == IsFiniteSet(Connections) /\ Cardinality(Connections) = inUse

PoolInv == PoolTypeOK /\ StageFitsPlan /\ LockIsHeld /\ Counted

------------------------------------------------------------------------------
(* Connections taken and returned *)

\* A call takes its first or its second connection.
LEMMA OneMore ==
  ASSUME PoolTypeOK, Counted, NEW c \in Calls, NEW s, stage' = [stage EXCEPT ![c] = s],
         Held(c)' = Held(c) + 1, Held(c) \in {0, 1}
  PROVE  IsFiniteSet(Connections)' /\ Cardinality(Connections)' = inUse + 1
<1> DEFINE new == <<c, Held(c) + 1>>
<1>1. \A d \in Calls \ {c} : Held(d)' = Held(d)
  BY DEF Held, PoolTypeOK
<1>2. Connections' = Connections \cup {new} /\ new \notin Connections
  <2>1. new \in Calls \X {1, 2} /\ new \notin Connections
    BY DEF Connections
  <2>2. \A x \in Calls \X {1, 2} : x[2] <= Held(x[1])' <=> x[2] <= Held(x[1]) \/ x = new
    <3> SUFFICES ASSUME NEW d \in Calls, NEW k \in {1, 2}
                 PROVE  k <= Held(d)' <=> k <= Held(d) \/ <<d, k>> = new
      OBVIOUS
    <3>1. CASE d = c
      BY <3>1
    <3>2. CASE d # c
      BY <1>1, <3>2
    <3> QED
      BY <3>1, <3>2
  <2> QED
    BY <2>1, <2>2 DEF Connections
<1> QED
  BY <1>2, FS_AddElement DEF Counted

\* A call gives back the last connection it took.
LEMMA OneLess ==
  ASSUME PoolTypeOK, Counted, NEW c \in Calls, NEW s, stage' = [stage EXCEPT ![c] = s],
         Held(c)' = Held(c) - 1, Held(c) \in {1, 2}
  PROVE  IsFiniteSet(Connections)' /\ Cardinality(Connections)' = inUse - 1
<1> DEFINE old == <<c, Held(c)>>
<1>1. \A d \in Calls \ {c} : Held(d)' = Held(d)
  BY DEF Held, PoolTypeOK
<1>2. Connections' = Connections \ {old} /\ old \in Connections
  <2>1. old \in Connections
    BY DEF Connections
  <2>2. \A x \in Calls \X {1, 2} : x[2] <= Held(x[1])' <=> x[2] <= Held(x[1]) /\ x # old
    <3> SUFFICES ASSUME NEW d \in Calls, NEW k \in {1, 2}
                 PROVE  k <= Held(d)' <=> k <= Held(d) /\ <<d, k>> # old
      OBVIOUS
    <3>1. CASE d = c
      BY <3>1
    <3>2. CASE d # c
      BY <1>1, <3>2
    <3> QED
      BY <3>1, <3>2
  <2> QED
    BY <2>1, <2>2 DEF Connections
<1> QED
  BY <1>2, FS_RemoveElement DEF Counted

\* A call that ends gives back everything it held.
LEMMA AllReturned ==
  ASSUME PoolTypeOK, Counted, NEW c \in Calls, stage' = [stage EXCEPT ![c] = "waiting"]
  PROVE  IsFiniteSet(Connections)' /\ Cardinality(Connections)' = inUse - Held(c)
<1>1. Held(c) \in {0, 1, 2} /\ Held(c)' = 0
  BY DEF Held, PoolTypeOK
<1>2. \A d \in Calls \ {c} : Held(d)' = Held(d)
  BY DEF Held, PoolTypeOK
<1>3. CASE Held(c) = 0
  <2>1. \A d \in Calls : Held(d)' = Held(d)
    BY <1>1, <1>2, <1>3
  <2>2. Connections' = Connections
    BY <2>1 DEF Connections
  <2> QED
    BY <1>3, <2>2 DEF Counted, PoolTypeOK
<1>4. CASE Held(c) = 1
  <2>1. Held(c)' = Held(c) - 1
    BY <1>1, <1>4
  <2>2. IsFiniteSet(Connections)' /\ Cardinality(Connections)' = inUse - 1
    BY <1>4, <2>1, OneLess
  <2> QED
    BY <1>4, <2>2
<1>5. CASE Held(c) = 2
  <2> DEFINE first == <<c, 1>>
             second == <<c, 2>>
  <2>1. first \in Connections \ {second} /\ second \in Connections
    BY <1>5 DEF Connections
  <2>2. Connections' = (Connections \ {second}) \ {first}
    <3>1. \A x \in Calls \X {1, 2} :
            x[2] <= Held(x[1])' <=> x[2] <= Held(x[1]) /\ x # first /\ x # second
      <4> SUFFICES ASSUME NEW d \in Calls, NEW k \in {1, 2}
                   PROVE  k <= Held(d)' <=> k <= Held(d) /\ <<d, k>> # first /\ <<d, k>> # second
        OBVIOUS
      <4>1. CASE d = c
        BY <1>1, <1>5, <4>1
      <4>2. CASE d # c
        BY <1>2, <4>2
      <4> QED
        BY <4>1, <4>2
    <3> QED
      BY <3>1 DEF Connections
  <2>3. /\ IsFiniteSet(Connections \ {second})
        /\ Cardinality(Connections \ {second}) = inUse - 1
    BY <2>1, FS_RemoveElement DEF Counted
  <2>4. /\ IsFiniteSet((Connections \ {second}) \ {first})
        /\ Cardinality((Connections \ {second}) \ {first}) = (inUse - 1) - 1
    <3> DEFINE fewer == Connections \ {second}
    <3> HIDE DEF fewer, first, second
    <3> QED
      BY <2>1, <2>3, FS_RemoveElement DEF fewer
  <2> QED
    BY <1>5, <2>2, <2>4 DEF PoolTypeOK
<1> QED
  BY <1>1, <1>3, <1>4, <1>5

------------------------------------------------------------------------------
(* The invariant is preserved *)

\* Nobody calls and nothing is held.
LEMMA PoolInvInit == PoolInit => PoolInv
<1> SUFFICES ASSUME PoolInit PROVE PoolInv
  OBVIOUS
<1>1. PoolTypeOK /\ StageFitsPlan /\ LockIsHeld
  BY DEF PoolInit, PoolTypeOK, StageFitsPlan, LockIsHeld
<1>2. Connections = {}
  BY DEF PoolInit, Connections, Held
<1>3. Counted
  BY <1>2, FS_EmptySet DEF PoolInit, Counted
<1> QED
  BY <1>1, <1>3 DEF PoolInv

\* A request comes in with the operations it asks for; it holds nothing yet.
LEMMA ReceiveStep ==
  ASSUME PoolInv, NEW c \in Calls, Receive(c)
  PROVE  PoolInv'
<1>1. PICK operations \in Plans : plan' = [plan EXCEPT ![c] = operations]
  BY DEF Receive
<1>2. operations \in Seq(Operations)
  <2>1. "query" \in Operations /\ "transaction" \in Operations /\ "scan" \in Operations
    BY DEF Operations
  <2>2. << "query" >> \in Seq(Operations) /\ << "transaction" >> \in Seq(Operations)
    BY <2>1
  <2>3. << "query", "transaction" >> \in Seq(Operations)
    BY <2>1
  <2>4. << "scan", "scan", "query" >> \in Seq(Operations)
    BY <2>1
  <2> QED
    BY <2>2, <2>3, <2>4 DEF Plans
<1>3. c \notin Active /\ UNCHANGED <<stage, rows, attempts, inUse, lock>>
  BY DEF Receive
<1>4. PoolTypeOK'
  BY <1>1, <1>2, <1>3 DEF PoolInv, PoolTypeOK
<1>5. StageFitsPlan'
  BY <1>1, <1>3 DEF PoolInv, PoolTypeOK, StageFitsPlan, Doing, Active
<1>6. LockIsHeld' /\ Counted'
  BY <1>3 DEF PoolInv, LockIsHeld, Counted, Connections, Held
<1> QED
  BY <1>4, <1>5, <1>6 DEF PoolInv

\* The first connection of an operation.
LEMMA ConnectStep ==
  ASSUME PoolInv, NEW c \in Calls, Connect(c)
  PROVE  PoolInv'
<1>1. /\ stage[c] = "waiting" /\ c \in Active /\ inUse < MaxOpen /\ inUse' = inUse + 1
      /\ plan' = plan /\ attempts' = attempts /\ lock' = lock
  BY DEF Connect, Take
<1>2. PICK n \in 0..MaxRows : rows' = [rows EXCEPT ![c] = IF Doing(c, "scan") THEN n ELSE 0]
  BY DEF Connect
<1>3. Doing(c, "query") \/ Doing(c, "transaction") \/ Doing(c, "scan")
  <2>1. plan[c] \in Seq(Operations) /\ plan[c] # << >>
    BY <1>1 DEF PoolInv, PoolTypeOK, Active
  <2>2. Head(plan[c]) \in Operations
    BY <2>1
  <2> QED
    BY <1>1, <2>2 DEF Doing, Operations
<1> DEFINE s == CASE Doing(c, "query") -> "query"
                  [] Doing(c, "transaction") -> "begin"
                  [] Doing(c, "scan") -> "rows"
<1>4. stage' = [stage EXCEPT ![c] = s]
  BY DEF Connect
<1>5. \/ s = "query" /\ Doing(c, "query")
      \/ s = "begin" /\ Doing(c, "transaction")
      \/ s = "rows" /\ Doing(c, "scan")
  <2>1. CASE Doing(c, "query")
    BY <2>1 DEF Doing
  <2>2. CASE Doing(c, "transaction")
    BY <2>2 DEF Doing
  <2>3. CASE Doing(c, "scan")
    BY <2>3 DEF Doing
  <2> QED
    BY <1>3, <2>1, <2>2, <2>3
<1> HIDE DEF s
<1>6. /\ stage'[c] = s /\ \A d \in Calls \ {c} : stage'[d] = stage[d] /\ rows'[d] = rows[d]
  BY <1>2, <1>4 DEF PoolInv, PoolTypeOK
<1>7. PoolTypeOK'
  BY <1>1, <1>2, <1>4, <1>5 DEF PoolInv, PoolTypeOK
<1>8. StageFitsPlan'
  BY <1>1, <1>5, <1>6 DEF PoolInv, StageFitsPlan, Doing, Active
<1>9. LockIsHeld'
  BY <1>1, <1>5, <1>6 DEF PoolInv, LockIsHeld
<1>10. Held(c) = 0 /\ Held(c)' = Held(c) + 1
  BY <1>1, <1>5, <1>6 DEF Held
<1>11. Counted'
  BY <1>1, <1>4, <1>10, OneMore DEF PoolInv, Counted
<1> QED
  BY <1>7, <1>8, <1>9, <1>11 DEF PoolInv

\* The lock changes hands only while nobody has it.
LEMMA TakeLockStep ==
  ASSUME PoolInv, NEW c \in Calls, TakeLock(c)
  PROVE  PoolInv'
<1>1. /\ stage[c] = "begin" /\ lock = Nobody /\ lock' = c
      /\ stage' = [stage EXCEPT ![c] = "transaction"]
      /\ attempts' = [attempts EXCEPT ![c] = 0]
      /\ plan' = plan /\ rows' = rows /\ inUse' = inUse
  BY DEF TakeLock
<1>2. stage'[c] = "transaction" /\ \A d \in Calls \ {c} : stage'[d] = stage[d]
  BY <1>1 DEF PoolInv, PoolTypeOK
<1>3. PoolTypeOK'
  BY <1>1 DEF PoolInv, PoolTypeOK
<1>4. StageFitsPlan'
  BY <1>1, <1>2 DEF PoolInv, StageFitsPlan, Doing, Active
<1>5. LockIsHeld'
  BY <1>1, <1>2 DEF PoolInv, LockIsHeld
<1>6. \A d \in Calls : Held(d)' = Held(d)
  BY <1>1, <1>2 DEF Held
<1>7. Counted'
  BY <1>1, <1>6 DEF PoolInv, Counted, Connections
<1> QED
  BY <1>3, <1>4, <1>5, <1>7 DEF PoolInv

\* A transaction that could not begin gives its connection back.
LEMMA BusyStep ==
  ASSUME PoolInv, NEW c \in Calls, Busy(c)
  PROVE  PoolInv'
<1>1. /\ stage[c] = "begin" /\ stage' = [stage EXCEPT ![c] = "waiting"]
      /\ attempts[c] < MaxAttempts /\ attempts' = [attempts EXCEPT ![c] = attempts[c] + 1]
      /\ plan' = plan /\ rows' = rows /\ inUse' = inUse - 1 /\ lock' = lock
  BY DEF Busy, Return
<1>2. stage'[c] = "waiting" /\ \A d \in Calls \ {c} : stage'[d] = stage[d]
  BY <1>1 DEF PoolInv, PoolTypeOK
<1>3. Held(c) = 1 /\ Held(c)' = 0
  BY <1>1, <1>2 DEF Held
<1>4. Counted'
  BY <1>1, <1>3, AllReturned DEF PoolInv, Counted
<1>5. PoolTypeOK'
  <2>1. inUse' \in 0..MaxOpen
    BY <1>1, <1>4, FS_CardinalityType DEF PoolInv, PoolTypeOK, Counted
  <2>2. attempts[c] + 1 \in 0..MaxAttempts
    BY <1>1 DEF PoolInv, PoolTypeOK
  <2> QED
    BY <1>1, <2>1, <2>2 DEF PoolInv, PoolTypeOK
<1>6. StageFitsPlan'
  BY <1>1, <1>2 DEF PoolInv, StageFitsPlan, Doing, Active
<1>7. LockIsHeld'
  BY <1>1, <1>2 DEF PoolInv, LockIsHeld
<1> QED
  BY <1>4, <1>5, <1>6, <1>7 DEF PoolInv

\* A row of a scan takes a second connection.
LEMMA LookUpRowStep ==
  ASSUME PoolInv, NEW c \in Calls, LookUpRow(c)
  PROVE  PoolInv'
<1>1. /\ stage[c] = "rows" /\ rows[c] > 0 /\ stage' = [stage EXCEPT ![c] = "row"]
      /\ inUse < MaxOpen /\ inUse' = inUse + 1
      /\ plan' = plan /\ attempts' = attempts /\ rows' = rows /\ lock' = lock
  BY DEF LookUpRow, Take
<1>2. stage'[c] = "row" /\ \A d \in Calls \ {c} : stage'[d] = stage[d]
  BY <1>1 DEF PoolInv, PoolTypeOK
<1>3. Held(c) = 1 /\ Held(c)' = Held(c) + 1
  BY <1>1, <1>2 DEF Held
<1>4. Counted'
  BY <1>1, <1>3, OneMore DEF PoolInv, Counted
<1>5. PoolTypeOK'
  BY <1>1 DEF PoolInv, PoolTypeOK
<1>6. StageFitsPlan'
  BY <1>1, <1>2 DEF PoolInv, StageFitsPlan, Doing, Active
<1>7. LockIsHeld'
  BY <1>1, <1>2 DEF PoolInv, LockIsHeld
<1> QED
  BY <1>4, <1>5, <1>6, <1>7 DEF PoolInv

\* And gives it back.
LEMMA RowDoneStep ==
  ASSUME PoolInv, NEW c \in Calls, RowDone(c)
  PROVE  PoolInv'
<1>1. /\ stage[c] = "row" /\ stage' = [stage EXCEPT ![c] = "rows"]
      /\ rows' = [rows EXCEPT ![c] = rows[c] - 1]
      /\ plan' = plan /\ attempts' = attempts /\ inUse' = inUse - 1 /\ lock' = lock
  BY DEF RowDone, Return
<1>2. stage'[c] = "rows" /\ \A d \in Calls \ {c} : stage'[d] = stage[d] /\ rows'[d] = rows[d]
  BY <1>1 DEF PoolInv, PoolTypeOK
<1>3. Held(c) = 2 /\ Held(c)' = Held(c) - 1
  BY <1>1, <1>2 DEF Held
<1>4. Counted'
  BY <1>1, <1>3, OneLess DEF PoolInv, Counted
<1>5. PoolTypeOK'
  <2>1. inUse' \in 0..MaxOpen
    BY <1>1, <1>4, FS_CardinalityType DEF PoolInv, PoolTypeOK, Counted
  <2>2. rows[c] - 1 \in Nat
    BY <1>1 DEF PoolInv, PoolTypeOK, StageFitsPlan
  <2> QED
    BY <1>1, <2>1, <2>2 DEF PoolInv, PoolTypeOK
<1>6. StageFitsPlan'
  BY <1>1, <1>2 DEF PoolInv, StageFitsPlan, Doing, Active
<1>7. LockIsHeld'
  BY <1>1, <1>2 DEF PoolInv, LockIsHeld
<1> QED
  BY <1>4, <1>5, <1>6, <1>7 DEF PoolInv

\* A call that goes back to waiting, with the lock if it had it, leaves the others alone.
LEMMA ReleaseStep ==
  ASSUME PoolInv, NEW c \in Calls, NEW operations \in Seq(Operations),
         plan' = [plan EXCEPT ![c] = operations],
         stage' = [stage EXCEPT ![c] = "waiting"],
         rows' \in [Calls -> Nat], \A d \in Calls \ {c} : rows'[d] = rows[d],
         attempts' \in [Calls -> 0..MaxAttempts],
         lock' = IF lock = c THEN Nobody ELSE lock,
         inUse' = inUse - Held(c)
  PROVE  PoolInv'
<1>1. stage'[c] = "waiting" /\ \A d \in Calls \ {c} : stage'[d] = stage[d] /\ plan'[d] = plan[d]
  BY DEF PoolInv, PoolTypeOK
<1>2. Counted'
  BY AllReturned DEF PoolInv, Counted
<1>3. PoolTypeOK'
  <2>1. inUse' \in 0..MaxOpen
    <3>1. inUse' \in Nat
      BY <1>2, FS_CardinalityType DEF Counted
    <3>2. Held(c) \in Nat /\ inUse \in 0..MaxOpen
      BY DEF PoolInv, PoolTypeOK, Held
    <3> QED
      BY <3>1, <3>2
  <2> QED
    BY <2>1 DEF PoolInv, PoolTypeOK
<1>4. StageFitsPlan'
  BY <1>1 DEF PoolInv, StageFitsPlan, Doing, Active
<1>5. LockIsHeld'
  BY <1>1 DEF PoolInv, LockIsHeld
<1> QED
  BY <1>2, <1>3, <1>4, <1>5 DEF PoolInv

\* An operation that is over, and a call that ends early, hold nothing any more.
LEMMA FinishStep ==
  ASSUME PoolInv, NEW c \in Calls, Finish(c) \/ Abandon(c)
  PROVE  PoolInv'
<1>1. CASE Finish(c)
  <2>1. stage[c] # "waiting" /\ Held(c) = 1
    BY <1>1 DEF Finish, Held
  <2>2. plan[c] \in Seq(Operations) /\ plan[c] # << >>
    BY <2>1 DEF PoolInv, PoolTypeOK, StageFitsPlan, Doing, Active
  <2>3. Tail(plan[c]) \in Seq(Operations)
    BY <2>2
  <2> QED
    BY <1>1, <2>1, <2>3, ReleaseStep DEF Finish, Return, PoolInv, PoolTypeOK
<1>2. CASE Abandon(c)
  <2>1. << >> \in Seq(Operations)
    OBVIOUS
  <2>2. rows' \in [Calls -> Nat] /\ \A d \in Calls \ {c} : rows'[d] = rows[d]
    BY <1>2 DEF Abandon, PoolInv, PoolTypeOK
  <2>3. attempts' \in [Calls -> 0..MaxAttempts]
    BY <1>2 DEF Abandon, PoolInv, PoolTypeOK
  <2> QED
    BY <1>2, <2>1, <2>2, <2>3, ReleaseStep DEF Abandon, Return
<1> QED
  BY <1>1, <1>2

\* One step per action.
LEMMA PoolInvStep == PoolInv /\ [PoolNext]_poolVars => PoolInv'
<1> SUFFICES ASSUME PoolInv, [PoolNext]_poolVars PROVE PoolInv'
  OBVIOUS
<1>1. ASSUME NEW c \in Calls, Receive(c) \/ Ask(c) \/ GoOn(c) \/ Fail(c) \/ DeadlinePasses(c)
      PROVE  PoolInv'
  BY <1>1, ReceiveStep, ConnectStep, TakeLockStep, BusyStep, LookUpRowStep, RowDoneStep,
     FinishStep DEF Ask, GoOn, GiveUp, Fail, DeadlinePasses
<1>2. CASE UNCHANGED poolVars
  BY <1>2 DEF poolVars, PoolInv, PoolTypeOK, StageFitsPlan, Doing, Active, LockIsHeld,
              Counted, Connections, Held
<1> QED
  BY <1>1, <1>2 DEF PoolNext

\* In every reachable state the pool counts exactly the connections its calls hold.
THEOREM PoolInvariant == PoolSpec => []PoolInv
BY PoolInvInit, PoolInvStep, PTL DEF PoolSpec

------------------------------------------------------------------------------
(* The properties *)

\* However calls end, what they held is back in the pool, and the write lock is nobody's once
\* its transaction has ended.
THEOREM NothingIsLeaked == PoolSpec => []NothingLeaks
<1>1. PoolInv => NothingLeaks
  <2> SUFFICES ASSUME PoolInv PROVE NothingLeaks
    OBVIOUS
  <2>1. lock # Nobody => stage[lock] = "transaction"
    BY DEF PoolInv, PoolTypeOK, LockIsHeld
  <2>2. ASSUME Active = {} PROVE inUse = 0
    <3>1. \A c \in Calls : stage[c] = "waiting"
      BY <2>2 DEF PoolInv, PoolTypeOK, StageFitsPlan, Doing
    <3>2. Connections = {}
      BY <3>1 DEF Connections, Held
    <3> QED
      BY <3>2, FS_EmptySet DEF PoolInv, Counted
  <2> QED
    BY <2>1, <2>2 DEF NothingLeaks
<1> QED
  BY <1>1, PoolInvariant, PTL

\* As long as scans do not hold the whole pool, some call can go on: the one whose transaction
\* has the write lock, if there is one, and else one that holds a connection or can have one.
THEOREM NobodyLocksUp == PoolSpec => []NoLockup
<1>1. PoolInv => NoLockup
  <2> SUFFICES ASSUME PoolInv, Active # {}, Cardinality(Scanning) < MaxOpen,
                      \A c \in Active : Blocked(c)
               PROVE  FALSE
    BY DEF NoLockup
  <2>1. \A c \in Calls : stage[c] # "waiting" => c \in Active
    BY DEF PoolInv, PoolTypeOK, StageFitsPlan, Doing
  <2>2. lock = Nobody
    <3> SUFFICES ASSUME lock # Nobody PROVE FALSE
      OBVIOUS
    <3>1. lock \in Calls /\ stage[lock] = "transaction"
      BY DEF PoolInv, PoolTypeOK, LockIsHeld
    <3> QED
      BY <2>1, <3>1 DEF Blocked, NeedsConnection
  <2>3. inUse = MaxOpen /\ \A c \in Active : NeedsConnection(c)
    BY <2>2 DEF Blocked
  <2>4. \A c \in Calls : stage[c] \in {"waiting", "rows"}
    BY <2>1, <2>3 DEF NeedsConnection, PoolInv, PoolTypeOK
  <2> DEFINE f == [x \in Connections |-> x[1]]
  <2>5. Scanning = {c \in Calls : stage[c] = "rows"}
    BY <2>4 DEF Scanning, PoolInv, StageFitsPlan
  <2>6. \A c \in Calls, k \in {1, 2} : <<c, k>> \in Connections <=> c \in Scanning /\ k = 1
    BY <2>4, <2>5 DEF Connections, Held
  <2>7. f \in Bijection(Connections, Scanning)
    <3>1. \A x \in Connections : x = <<x[1], 1>> /\ x[1] \in Scanning
      <4> SUFFICES ASSUME NEW x \in Connections PROVE x = <<x[1], 1>> /\ x[1] \in Scanning
        OBVIOUS
      <4>1. x = <<x[1], x[2]>> /\ x[1] \in Calls /\ x[2] \in {1, 2}
        BY DEF Connections
      <4> QED
        BY <2>6, <4>1
    <3>2. f \in [Connections -> Scanning]
      BY <3>1
    <3>3. \A x, y \in Connections : f[x] = f[y] => x = y
      BY <3>1
    <3>4. \A c \in Scanning : \E x \in Connections : f[x] = c
      <4> SUFFICES ASSUME NEW c \in Scanning PROVE \E x \in Connections : f[x] = c
        OBVIOUS
      <4>1. <<c, 1>> \in Connections
        BY <2>5, <2>6
      <4> QED
        BY <4>1
    <3> HIDE DEF f
    <3> QED
      BY <3>2, <3>3, <3>4, Fun_IsBij
  <2>8. Cardinality(Scanning) = MaxOpen
    <3> HIDE DEF f
    <3> QED
      BY <2>3, <2>7, FS_Bijection DEF ExistsBijection, PoolInv, Counted
  <2> QED
    BY <2>8
<1> QED
  BY <1>1, PoolInvariant, PTL
==============================================================================
