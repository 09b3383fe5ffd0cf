------------------------------ MODULE CcrStore ------------------------------
(***************************************************************************)
(* What every CCR store promises its clients (interface Store of           *)
(* core/ccr/ccr.go: Put and Get; Len is not needed to keep the promise),   *)
(* whatever the backend.                                                   *)
(*                                                                         *)
(* A store is one cell per key.  A Put that returns has filled its key's   *)
(* cell at one instant of the call, and may have dropped other cells       *)
(* (eviction).  A Get looks at its key's cell at one instant and later     *)
(* answers with what it saw or with a miss, and may drop the cell (expiry).*)
(* Nothing else changes a cell: no Get answers with another key's payload  *)
(* or with one that was replaced before the Get began, and no Put is lost  *)
(* without its caller being told.                                          *)
(***************************************************************************)

CONSTANTS
  Keys,      \* the keys clients use (ComputeKey's hashes)
  Values,    \* the payloads
  Threads,   \* the goroutines that call the store
  None,      \* the miss, and the content of an empty cell
  Failed     \* what a caller gets from a call that panics

VARIABLES
  mem,       \* key -> payload or None
  call,      \* thread -> its running call
  answer     \* thread -> what its last Get returned, or Failed

storeVars == <<mem, call, answer>>

Cell == Values \union {None}

\* A running call: a Put with its argument, or a Get with what it saw.
NoCall == [op |-> "none", key |-> None, val |-> None]
PutOf(k, v) == [op |-> "put", key |-> k, val |-> v]
GetOf(k, v) == [op |-> "get", key |-> k, val |-> v]

StoreInit ==
  /\ mem = [k \in Keys |-> None]
  /\ call = [t \in Threads |-> NoCall]
  /\ answer = [t \in Threads |-> None]

\* The cells of the keys in D are emptied.
Dropped(D) == [k \in Keys |-> IF k \in D THEN None ELSE mem[k]]

StoreReturn(t) == call' = [call EXCEPT ![t] = NoCall]

\* A Put is called.
StorePutCall(t, k, v) ==
  /\ call[t] = NoCall
  /\ call' = [call EXCEPT ![t] = PutOf(k, v)]
  /\ UNCHANGED <<mem, answer>>

\* A Put returns: its payload is stored, the cells of D made room for it.
StorePut(t, D) ==
  /\ call[t].op = "put"
  /\ mem' = [Dropped(D) EXCEPT ![call[t].key] = call[t].val]
  /\ StoreReturn(t)
  /\ UNCHANGED answer

\* A Put panics: nothing is stored, nothing is lost.
StoreFail(t) ==
  /\ call[t].op = "put"
  /\ answer' = [answer EXCEPT ![t] = Failed]
  /\ StoreReturn(t)
  /\ UNCHANGED mem

\* A Get finds the cell empty.
StoreAbsent(t, k) ==
  /\ call[t] = NoCall
  /\ mem[k] = None
  /\ answer' = [answer EXCEPT ![t] = None]
  /\ UNCHANGED <<mem, call>>

\* A Get sees a payload in the cell of its key.
StoreLook(t, k) ==
  /\ call[t] = NoCall
  /\ mem[k] # None
  /\ call' = [call EXCEPT ![t] = GetOf(k, mem[k])]
  /\ UNCHANGED <<mem, answer>>

\* A Get answers with what it saw.
StoreHit(t) ==
  /\ call[t].op = "get"
  /\ answer' = [answer EXCEPT ![t] = call[t].val]
  /\ StoreReturn(t)
  /\ UNCHANGED mem

\* A Get answers with a miss, which is always allowed, and may drop the cell.
StoreMiss(t, D) ==
  /\ call[t].op = "get"
  /\ D \subseteq {call[t].key}
  /\ mem' = Dropped(D)
  /\ answer' = [answer EXCEPT ![t] = None]
  /\ StoreReturn(t)

StoreNext ==
  \E t \in Threads :
    \/ \E k \in Keys, v \in Values : StorePutCall(t, k, v)
    \/ \E D \in SUBSET Keys : StorePut(t, D)
    \/ StoreFail(t)
    \/ \E k \in Keys : StoreAbsent(t, k) \/ StoreLook(t, k)
    \/ StoreHit(t)
    \/ \E D \in SUBSET Keys : StoreMiss(t, D)

StoreSpec == StoreInit /\ [][StoreNext]_storeVars

-----------------------------------------------------------------------------
(* What is left of the promise when the store is a server or a file, whose  *)
(* errors Put and Get do not report, and whose clients may die.             *)

\* A Put is lost, and its caller is not told.
StoreLose(t) ==
  /\ call[t].op = "put"
  /\ StoreReturn(t)
  /\ UNCHANGED <<mem, answer>>

\* A Get misses without having looked.
StoreMissBlind(t) ==
  /\ call[t] = NoCall
  /\ answer' = [answer EXCEPT ![t] = None]
  /\ UNCHANGED <<mem, call>>

\* A client dies: its call ends half-way, its answer is gone, the cells stay.
StoreForget(t) ==
  /\ StoreReturn(t)
  /\ answer' = [answer EXCEPT ![t] = None]
  /\ UNCHANGED mem

LossyNext ==
  \/ StoreNext
  \/ \E t \in Threads : StoreLose(t) \/ StoreMissBlind(t) \/ StoreForget(t)

LossySpec == StoreInit /\ [][LossyNext]_storeVars
=============================================================================
