------------------------------- MODULE ConnPool -------------------------------
(***************************************************************************)
(* The connections of the sequencer store.  Requests share a pool of at most *)
(* MaxOpen of them (eight in store.go); a query takes one, a transaction     *)
(* keeps one from the wait for SQLite's write lock to its end, and a scan     *)
(* (Store.Polls, Store.Credits) keeps one for its rows and asks the pool      *)
(* for another to look up each row.                                          *)
(*                                                                         *)
(* Which request waits for which is all that matters here: what the queries  *)
(* read and write is in Sequencer and Transactions.                          *)
(***************************************************************************)
EXTENDS Naturals, Sequences, FiniteSets

CONSTANTS
  Calls,        \* requests that can be served at once
  MaxOpen,      \* connections of the pool
  MaxRows,      \* bound on the rows of a scan
  MaxAttempts,  \* how often begin tries again (100 in the code)
  Nobody

ASSUME MaxOpenAssumption == MaxOpen \in Nat \ {0}
ASSUME MaxRowsAssumption == MaxRows \in Nat
ASSUME MaxAttemptsAssumption == MaxAttempts \in Nat
ASSUME NobodyAssumption == Nobody \notin Calls

VARIABLES
  plan,      \* plan[c]: the operations call c has still to do; none, if nobody makes the call
  stage,     \* stage[c]: how far the first of them is
  rows,      \* rows[c]: the rows a scan has still to look up
  attempts,  \* attempts[c]: how often the transaction c is about to begin was tried in vain
  inUse,     \* the number of connections that are not in the pool
  lock       \* the call whose transaction has the write lock, or Nobody

poolVars == <<plan, stage, rows, attempts, inUse, lock>>

\* What a request asks of the store: a poll, a result or an export; a creation or a claim; a
\* ballot or a close, which read the poll first; a readiness check.
Plans == {<<"query">>, <<"transaction">>, <<"query", "transaction">>,
          <<"scan", "scan", "query">>}

Active == {c \in Calls : plan[c] # << >>}
Doing(c, operation) == c \in Active /\ Head(plan[c]) = operation

\* The calls that hold a connection for the rows of a scan.
Scanning == {c \in Calls : Doing(c, "scan") /\ stage[c] # "waiting"}

\* A call at a scan's row needs a connection besides the one that holds the rows.
NeedsConnection(c) == c \in Active /\ (stage[c] = "waiting" \/ (stage[c] = "rows" /\ rows[c] > 0))

\* Connections the call holds.
Held(c) == IF stage[c] = "waiting" THEN 0 ELSE IF stage[c] = "row" THEN 2 ELSE 1

------------------------------------------------------------------------------
Receive(c) ==
  /\ c \notin Active
  /\ \E operations \in Plans : plan' = [plan EXCEPT ![c] = operations]
  /\ UNCHANGED <<stage, rows, attempts, inUse, lock>>

Take == inUse < MaxOpen /\ inUse' = inUse + 1
Return(n) == inUse' = inUse - n

\* database/sql hands out a connection, or opens one if it may.
Connect(c) ==
  /\ c \in Active /\ stage[c] = "waiting"
  /\ Take
  /\ stage' = [stage EXCEPT ![c] = CASE Doing(c, "query") -> "query"
                                     [] Doing(c, "transaction") -> "begin"
                                     [] Doing(c, "scan") -> "rows"]
  /\ \E n \in 0..MaxRows : rows' = [rows EXCEPT ![c] = IF Doing(c, "scan") THEN n ELSE 0]
  /\ UNCHANGED <<plan, attempts, lock>>

\* Mutant: a transaction looks something up through the pool instead of its own connection.
TakeLock_ReadsOutside(c) ==
  /\ stage[c] = "begin" /\ lock = Nobody
  /\ lock' = c
  /\ stage' = [stage EXCEPT ![c] = "rows"]
  /\ rows' = [rows EXCEPT ![c] = 1]
  /\ attempts' = [attempts EXCEPT ![c] = 0]
  /\ UNCHANGED <<plan, inUse>>

\* BEGIN IMMEDIATE succeeds.  SQLite keeps no order among those that wait.
TakeLock(c) ==
  /\ stage[c] = "begin" /\ lock = Nobody
  /\ lock' = c
  /\ stage' = [stage EXCEPT ![c] = "transaction"]
  /\ attempts' = [attempts EXCEPT ![c] = 0]
  /\ UNCHANGED <<plan, rows, inUse>>

\* Mutant: begin tries again however often it has tried.
Busy_Uncounted(c) ==
  /\ stage[c] = "begin" /\ lock # Nobody
  /\ stage' = [stage EXCEPT ![c] = "waiting"]
  /\ Return(1)
  /\ UNCHANGED <<plan, rows, attempts, lock>>

\* SQLite's busy timeout ends: begin gives the connection back and tries again later.
Busy(c) ==
  /\ stage[c] = "begin" /\ lock # Nobody /\ attempts[c] < MaxAttempts
  /\ stage' = [stage EXCEPT ![c] = "waiting"]
  /\ attempts' = [attempts EXCEPT ![c] = @ + 1]
  /\ Return(1)
  /\ UNCHANGED <<plan, rows, lock>>

LookUpRow(c) ==
  /\ stage[c] = "rows" /\ rows[c] > 0
  /\ Take
  /\ stage' = [stage EXCEPT ![c] = "row"]
  /\ UNCHANGED <<plan, rows, attempts, lock>>

RowDone(c) ==
  /\ stage[c] = "row"
  /\ stage' = [stage EXCEPT ![c] = "rows"]
  /\ rows' = [rows EXCEPT ![c] = @ - 1]
  /\ Return(1)
  /\ UNCHANGED <<plan, attempts, lock>>

\* The operation is over: its connection is returned, and its lock with it.
Finish(c) ==
  /\ stage[c] \in {"query", "transaction"} \/ (stage[c] = "rows" /\ rows[c] = 0)
  /\ plan' = [plan EXCEPT ![c] = Tail(@)]
  /\ stage' = [stage EXCEPT ![c] = "waiting"]
  /\ lock' = IF lock = c THEN Nobody ELSE lock
  /\ Return(1)
  /\ UNCHANGED <<rows, attempts>>

\* Mutant: the rows of a scan stay open when the call ends early.
Abandon_RowsOpen(c) ==
  /\ c \in Active
  /\ plan' = [plan EXCEPT ![c] = << >>]
  /\ stage' = [stage EXCEPT ![c] = "waiting"]
  /\ rows' = [rows EXCEPT ![c] = 0]
  /\ attempts' = [attempts EXCEPT ![c] = 0]
  /\ lock' = IF lock = c THEN Nobody ELSE lock
  /\ Return(IF stage[c] \in {"rows", "row"} THEN Held(c) - 1 ELSE Held(c))

\* The call ends early: all it holds is returned, its rows closed, its transaction rolled back.
Abandon(c) ==
  /\ c \in Active
  /\ plan' = [plan EXCEPT ![c] = << >>]
  /\ stage' = [stage EXCEPT ![c] = "waiting"]
  /\ rows' = [rows EXCEPT ![c] = 0]
  /\ attempts' = [attempts EXCEPT ![c] = 0]
  /\ lock' = IF lock = c THEN Nobody ELSE lock
  /\ Return(Held(c))

\* The last attempt to begin fails, too.
GiveUp(c) ==
  /\ stage[c] = "begin" /\ lock # Nobody /\ attempts[c] = MaxAttempts
  /\ Abandon(c)

\* A query or a statement fails, or the request is refused.
Fail(c) == Abandon(c) /\ ~NeedsConnection(c)

\* The request's deadline passes, wherever it is.  The check at startup has none.
DeadlinePasses(c) == Abandon(c)

------------------------------------------------------------------------------
PoolInit ==
  /\ plan = [c \in Calls |-> << >>]
  /\ stage = [c \in Calls |-> "waiting"]
  /\ rows = [c \in Calls |-> 0]
  /\ attempts = [c \in Calls |-> 0]
  /\ inUse = 0
  /\ lock = Nobody

\* What a call asks the pool for, and what it does with what it has.
Ask(c) == Connect(c) \/ LookUpRow(c)
GoOn(c) == TakeLock(c) \/ Busy(c) \/ GiveUp(c) \/ RowDone(c) \/ Finish(c)

PoolNext ==
  \E c \in Calls : Receive(c) \/ Ask(c) \/ GoOn(c) \/ Fail(c) \/ DeadlinePasses(c)

PoolSpec == PoolInit /\ [][PoolNext]_poolVars

\* What holds a connection goes on.  Who asks for one while connections are returned again
\* and again gets one: database/sql gives each to one of those that ask, picked at random.
\* Nothing is assumed of deadlines, nor of who takes the write lock.
PoolFairness == \A c \in Calls : WF_poolVars(GoOn(c)) /\ SF_poolVars(Ask(c))

FairPoolSpec == PoolSpec /\ PoolFairness

------------------------------------------------------------------------------
(* Properties *)

\* A call that another call, its deadline or its last attempt must move: it waits for a
\* connection and there is none, or for the write lock and another call has it.
Blocked(c) ==
  \/ NeedsConnection(c) /\ inUse = MaxOpen
  \/ stage[c] = "begin" /\ lock # Nobody

\* Requests wait for each other in a circle only if every connection is held by a scan: one
\* that waits for the write lock waits for one that goes on, since a transaction asks for
\* nothing it does not have.
NoLockup ==
  Active # {} /\ Cardinality(Scanning) < MaxOpen => \E c \in Active : ~Blocked(c)

\* However calls end, what they held is back in the pool: no connection is lost, and the
\* write lock is nobody's once its transaction has ended.
NothingLeaks ==
  /\ Active = {} => inUse = 0
  /\ lock # Nobody => stage[lock] = "transaction"

\* Unless scans hold the whole pool from some time on, every call ends, with an answer or an
\* error, and needs no deadline for it: it does not ask the pool for ever, and a transaction
\* that finds the write lock taken every time it tries is given up.
WaitsEnd ==
  []<>(Cardinality(Scanning) < MaxOpen) => \A c \in Calls : c \in Active ~> c \notin Active
==============================================================================
