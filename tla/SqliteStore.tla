----------------------------- MODULE SqliteStore -----------------------------
(***************************************************************************)
(* The CCR store of core/ccr/sqlite.go: one table in a file that several   *)
(* processes may have open and that outlives them.  One action is what a   *)
(* call does between two points where another may reach the database: the  *)
(* reading of the clock, and one SQL statement, which SQLite runs alone.   *)
(*                                                                         *)
(* The clock has Second ticks to a second; rows and cutoffs are in whole   *)
(* seconds (time.Unix).  A statement may fail: the database is locked for  *)
(* too long, the disk is full.  Neither Put nor Get says so.  A process    *)
(* may die at any point and open the file again.                           *)
(*                                                                         *)
(* The variables at and putAt are history variables.                       *)
(***************************************************************************)
EXTENDS Integers

CONSTANTS
  Keys, Values, Processes, None, Failed,
  NoKey,      \* no key: the argument of no call
  Second,     \* the ticks of a second
  Ttl,        \* the time to live, in ticks: 5 minutes
  MaxTime     \* bound on the clock

ASSUME SqliteAssumption ==
  /\ None \notin Values
  /\ Failed \notin Values
  /\ NoKey \notin Keys
  /\ Second \in Nat \ {0}
  /\ Ttl \in Nat
  /\ MaxTime \in Nat

VARIABLES
  clock,      \* time.Now()
  rows,       \* the table ccr: key -> row or NoRow
  pc,         \* where each process is
  key,        \* the argument key of its call
  val,        \* Put: its argument; Get: the payload it scanned
  stamp,      \* Put: now, Get: cutoff, both in seconds
  answer,     \* what its last Get returned
  at,         \* history: the tick at which its call read the clock
  putAt       \* history: the tick at which the Put of each row read it

callVars == <<pc, key, val, stamp, at>>
vars == <<clock, rows, callVars, answer, putAt>>

Row   == [payload : Values, inserted_at : Int]
NoRow == [payload |-> None, inserted_at |-> 0]

\* Time.Unix of a time in ticks.
Unix(t) == t \div Second

TypeOK ==
  /\ clock \in Nat
  /\ rows \in [Keys -> Row \union {NoRow}]
  /\ pc \in [Processes -> {"idle", "put", "get", "scanned"}]
  /\ key \in [Processes -> Keys \union {NoKey}]
  /\ val \in [Processes -> Values \union {None}]
  /\ stamp \in [Processes -> Int]
  /\ answer \in [Processes -> Values \union {None}]
  /\ at \in [Processes -> Nat]
  /\ putAt \in [Keys -> Nat]
  /\ \A p \in Processes : pc[p] # "idle" => key[p] \in Keys
  /\ \A p \in Processes : pc[p] \in {"put", "scanned"} => val[p] \in Values

\* A new file, opened long after the epoch.
Init ==
  /\ clock = Ttl
  /\ rows = [k \in Keys |-> NoRow]
  /\ pc = [p \in Processes |-> "idle"]
  /\ key = [p \in Processes |-> NoKey]
  /\ val = [p \in Processes |-> None]
  /\ stamp = [p \in Processes |-> 0]
  /\ answer = [p \in Processes |-> None]
  /\ at = [p \in Processes |-> 0]
  /\ putAt = [k \in Keys |-> 0]

Tick ==
  /\ clock < MaxTime
  /\ clock' = clock + 1
  /\ UNCHANGED <<rows, callVars, answer, putAt>>

\* The call of process p is at a point, with these locals.
Goes(p, point, k, v, s, t) ==
  /\ pc' = [pc EXCEPT ![p] = point]
  /\ key' = [key EXCEPT ![p] = k]
  /\ val' = [val EXCEPT ![p] = v]
  /\ stamp' = [stamp EXCEPT ![p] = s]
  /\ at' = [at EXCEPT ![p] = t]

\* The call of process p is over: its locals are gone.
Return(p) == Goes(p, "idle", NoKey, None, 0, 0)

-----------------------------------------------------------------------------
(* Put *)

PutBegin(p, k, v) ==
  /\ pc[p] = "idle"
  /\ Goes(p, "put", k, v, Unix(clock), clock)
  /\ UNCHANGED <<clock, rows, answer, putAt>>

\* The statement replaces the row, whichever of two Puts read the clock first.
PutUpsert(p) ==
  /\ pc[p] = "put"
  /\ rows' = [rows EXCEPT ![key[p]] = [payload |-> val[p], inserted_at |-> stamp[p]]]
  /\ putAt' = [putAt EXCEPT ![key[p]] = at[p]]
  /\ Return(p)
  /\ UNCHANGED <<clock, answer>>

\* The error of Exec is dropped.
PutLost(p) ==
  /\ pc[p] = "put"
  /\ Return(p)
  /\ UNCHANGED <<clock, rows, answer, putAt>>

-----------------------------------------------------------------------------
(* Get *)

GetBegin(p, k) ==
  /\ pc[p] = "idle"
  /\ Goes(p, "get", k, None, Unix(clock - Ttl), clock)
  /\ UNCHANGED <<clock, rows, answer, putAt>>

\* Mutant of Selected: the cutoff is included.
SelectedInclusive(k, cutoff) ==
  rows[k] # NoRow /\ rows[k].inserted_at >= cutoff

\* WHERE hash = ? AND inserted_at > ?
Selected(k, cutoff) ==
  rows[k] # NoRow /\ rows[k].inserted_at > cutoff

GetScan(p) ==
  /\ pc[p] = "get"
  /\ Selected(key[p], stamp[p])
  /\ Goes(p, "scanned", key[p], rows[key[p]].payload, stamp[p], at[p])
  /\ UNCHANGED <<clock, rows, answer, putAt>>

GetReturn(p) ==
  /\ pc[p] = "scanned"
  /\ answer' = [answer EXCEPT ![p] = val[p]]
  /\ Return(p)
  /\ UNCHANGED <<clock, rows, putAt>>

\* No row, an expired one, or an error: all are a miss.
GetMiss(p) ==
  /\ pc[p] = "get"
  /\ answer' = [answer EXCEPT ![p] = None]
  /\ Return(p)
  /\ UNCHANGED <<clock, rows, putAt>>

-----------------------------------------------------------------------------

\* Mutant of Restart: the table is made anew.
RestartEmpty(p) ==
  /\ Return(p)
  /\ answer' = [answer EXCEPT ![p] = None]
  /\ rows' = [k \in Keys |-> NoRow]
  /\ UNCHANGED <<clock, putAt>>

\* The process dies, in a call or not, and opens the file again: the table is
\* created only if it does not exist.
Restart(p) ==
  /\ Return(p)
  /\ answer' = [answer EXCEPT ![p] = None]
  /\ UNCHANGED <<clock, rows, putAt>>

Step(p) ==
  \/ \E k \in Keys, v \in Values : PutBegin(p, k, v)
  \/ PutUpsert(p) \/ PutLost(p)
  \/ \E k \in Keys : GetBegin(p, k)
  \/ GetScan(p) \/ GetReturn(p) \/ GetMiss(p)
  \/ Restart(p)

Next == Tick \/ \E p \in Processes : Step(p)

Spec == Init /\ [][Next]_vars

-----------------------------------------------------------------------------
(* Properties *)

\* A Get that begins now serves no row whose Put read the clock a time to live
\* ago or earlier, and every row of a Put that is younger by a second or more:
\* the two roundings and the comparison cost an entry less than a second
\* (sqlite.go:35, 44-48), whoever overwrote what in whatever order.
LivesItsTime ==
  \A k \in Keys : rows[k] # NoRow =>
    /\ Selected(k, Unix(clock - Ttl)) => clock - putAt[k] < Ttl
    /\ clock - putAt[k] <= Ttl - Second => Selected(k, Unix(clock - Ttl))

\* Where a process is, in its clients' view: a Get has looked when it has
\* scanned a row.
CallAt(point, k, v) ==
  CASE point = "put"     -> [op |-> "put", key |-> k, val |-> v]
    [] point = "scanned" -> [op |-> "get", key |-> k, val |-> v]
    [] OTHER             -> [op |-> "none", key |-> None, val |-> None]

Calls == [p \in Processes |-> CallAt(pc[p], key[p], val[p])]

Payloads == [k \in Keys |-> rows[k].payload]

\* Up to Puts that are lost, the table keeps the promise of CcrStore between
\* processes that die and come back: what a Put has stored is there until
\* another Put of its key, through every restart, and no Get answers with
\* what its key did not hold during the call (sqlite.go:34-54).
Promise == INSTANCE CcrStore WITH Threads <- Processes, mem <- Payloads, call <- Calls

ImplementsLossyStore == Promise!LossySpec
=============================================================================
