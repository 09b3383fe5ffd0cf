---------------------------- MODULE InMemoryStore ----------------------------
(***************************************************************************)
(* The in-memory CCR store of core/ccr/inmemory.go: a map bounded by       *)
(* Capacity, a ring of keys that gives the eviction order, and a time to   *)
(* live.  Several goroutines call it; one action is what a goroutine does  *)
(* between two points where another may run: reading the clock, and each   *)
(* critical section of the mutex.                                          *)
(*                                                                         *)
(* The variables purged, panicked and older are history variables: no      *)
(* action's guard reads them.                                              *)
(***************************************************************************)
EXTENDS Integers, FiniteSets

CONSTANTS
  Keys, Values, Threads, None, Failed,
  NoKey,      \* the zero value of a ring slot
  Capacity,   \* the bound on the number of entries
  MinRing,    \* the first length of the ring when Capacity allows it: 16
  Ttl,        \* the life of an entry
  MaxTime     \* bound on the clock

ASSUME StoreAssumption ==
  /\ None \notin Values
  /\ Failed \notin Values
  /\ NoKey \notin Keys
  /\ Capacity \in Nat \ {0}
  /\ MinRing \in Nat \ {0}
  /\ Ttl \in Nat
  /\ MaxTime \in Nat

VARIABLES
  clock,      \* time.Now()
  data,       \* s.data: a map from some of Keys to entries
  ring,       \* s.ring: slots 0 .. ringLen - 1; the rest is not allocated
  ringLen,    \* len(s.ring)
  head,       \* s.head
  count,      \* s.count
  pc,         \* where each goroutine is
  key,        \* its argument key
  ent,        \* Put: the entry it will write; Get: the entry it read
  at,         \* Get: the time it read
  answer,     \* what its last Get returned, or Failed after a panic
  purged,     \* history: some Get deleted an expired entry
  panicked,   \* history: some Put indexed out of the range of the new ring
  older       \* history: <<j, k>> when j and k are stored, j inserted first

ringVars == <<ring, ringLen, head, count>>
callVars == <<pc, key, ent, at>>
vars == <<clock, data, ringVars, callVars, answer, purged, panicked, older>>

Entry   == [value : Values, expiresAt : Nat]
NoEntry == [value |-> None, expiresAt |-> 0]

TypeOK ==
  /\ clock \in Nat
  /\ DOMAIN data \subseteq Keys
  /\ data \in [DOMAIN data -> Entry]
  /\ ring \in [0 .. (Capacity - 1) -> Keys \union {NoKey}]
  /\ ringLen \in 1 .. Capacity
  /\ head \in 0 .. (ringLen - 1)
  /\ count \in Nat
  /\ pc \in [Threads -> {"idle", "put", "read", "expired"}]
  /\ key \in [Threads -> Keys \union {NoKey}]
  /\ ent \in [Threads -> Entry \union {NoEntry}]
  /\ at \in [Threads -> Nat]
  /\ answer \in [Threads -> Values \union {None, Failed}]
  /\ purged \in BOOLEAN
  /\ panicked \in BOOLEAN
  /\ older \subseteq Keys \X Keys
  /\ \A t \in Threads : pc[t] # "idle" => key[t] \in Keys /\ ent[t] \in Entry

Init ==
  /\ clock = 0
  /\ data = [k \in {} |-> NoEntry]
  /\ ring = [i \in 0 .. (Capacity - 1) |-> NoKey]
  /\ ringLen = IF Capacity < MinRing THEN Capacity ELSE MinRing
  /\ head = 0
  /\ count = 0
  /\ pc = [t \in Threads |-> "idle"]
  /\ key = [t \in Threads |-> NoKey]
  /\ ent = [t \in Threads |-> NoEntry]
  /\ at = [t \in Threads |-> 0]
  /\ answer = [t \in Threads |-> None]
  /\ purged = FALSE
  /\ panicked = FALSE
  /\ older = {}

Tick ==
  /\ clock < MaxTime
  /\ clock' = clock + 1
  /\ UNCHANGED <<data, ringVars, callVars, answer, purged, panicked, older>>

\* The call of thread t returns: its locals are gone.
Return(t) ==
  /\ pc' = [pc EXCEPT ![t] = "idle"]
  /\ key' = [key EXCEPT ![t] = NoKey]
  /\ ent' = [ent EXCEPT ![t] = NoEntry]
  /\ at' = [at EXCEPT ![t] = 0]

-----------------------------------------------------------------------------
(* Put *)

\* Put reads the clock, and only then asks for the lock.
PutBegin(t, k, v) ==
  /\ pc[t] = "idle"
  /\ pc' = [pc EXCEPT ![t] = "put"]
  /\ key' = [key EXCEPT ![t] = k]
  /\ ent' = [ent EXCEPT ![t] = [value |-> v, expiresAt |-> clock + Ttl]]
  /\ UNCHANGED <<clock, data, ringVars, at, answer, purged, panicked, older>>

\* Mutant of PutOverwrite: the Put of a stored key is taken for a repetition.
PutOverwriteKeepsOld(t) ==
  /\ pc[t] = "put"
  /\ key[t] \in DOMAIN data
  /\ Return(t)
  /\ UNCHANGED <<clock, data, ringVars, answer, purged, panicked, older>>

\* Mutant of PutOverwrite: the key gets a second place in the ring.
PutOverwriteRequeues(t) ==
  /\ pc[t] = "put"
  /\ key[t] \in DOMAIN data
  /\ data' = [data EXCEPT ![key[t]] = ent[t]]
  /\ ring' = [ring EXCEPT ![(head + count) % ringLen] = key[t]]
  /\ count' = count + 1
  /\ Return(t)
  /\ UNCHANGED <<clock, ringLen, head, answer, purged, panicked, older>>

\* The key is stored (expired or not): its entry is replaced, its place in the
\* ring is not.
PutOverwrite(t) ==
  /\ pc[t] = "put"
  /\ key[t] \in DOMAIN data
  /\ data' = [data EXCEPT ![key[t]] = ent[t]]
  /\ Return(t)
  /\ UNCHANGED <<clock, ringVars, answer, purged, panicked, older>>

\* Mutant of Slot: the ring is read from its tail.
SlotFromTail(i) == ring[(head + count + ringLen - 1 - i) % ringLen]

\* The i-th key of the ring, counted from its head.
Slot(i) == ring[(head + i) % ringLen]

\* The keys the eviction loop has deleted after n turns.
Popped(n) == {Slot(i) : i \in 0 .. (n - 1)}

\* Mutant of MustEvict: off by one.
MustEvictLate(n) ==
  /\ Cardinality(DOMAIN data \ Popped(n)) > Capacity
  /\ n < count

\* The condition of the eviction loop, after n turns.
MustEvict(n) ==
  /\ Cardinality(DOMAIN data \ Popped(n)) >= Capacity
  /\ n < count

\* The eviction loop takes n turns.
EvictsExactly(n) ==
  /\ n \in 0 .. count
  /\ ~ MustEvict(n)
  /\ \A m \in 0 .. (n - 1) : MustEvict(m)

\* The ring's length and content after growRing, which keeps the c keys that
\* begin at slot h.
GrownLen == IF ringLen * 2 > Capacity THEN Capacity ELSE ringLen * 2

GrownRing(h, c) ==
  [i \in 0 .. (Capacity - 1) |->
     IF i < c THEN ring[(h + i) % ringLen] ELSE NoKey]

\* Mutant of MustGrow: never.
MustGrowNever(n) == FALSE

\* After n evictions the ring has no free slot.
MustGrow(n) == count - n >= ringLen

\* growRing copies count keys into a slice that is shorter.
GrowPanics(n) == MustGrow(n) /\ count - n > GrownLen

\* What the eviction loop leaves after n turns.
Kept(n) == DOMAIN data \ Popped(n)

\* After n evictions, the new key k gets entry e and the slot after the last
\* one, in a longer ring when there is no free slot.
Insert(k, e, n) ==
  LET c == count - n
      h == (head + n) % ringLen
  IN
  /\ data' = [j \in Kept(n) \union {k} |-> IF j = k THEN e ELSE data[j]]
  /\ IF MustGrow(n)
     THEN /\ ringLen' = GrownLen
          /\ head' = 0
          /\ ring' = [GrownRing(h, c) EXCEPT ![c % GrownLen] = k]
     ELSE /\ ringLen' = ringLen
          /\ head' = h
          /\ ring' = [ring EXCEPT ![(h + c) % ringLen] = k]
  /\ count' = c + 1
  /\ older' = (older \intersect (Kept(n) \X Kept(n))) \union (Kept(n) \X {k})

PutInsert(t) ==
  /\ pc[t] = "put"
  /\ key[t] \notin DOMAIN data
  /\ \E n \in 0 .. count :
       EvictsExactly(n) /\ ~ GrowPanics(n) /\ Insert(key[t], ent[t], n)
  /\ Return(t)
  /\ UNCHANGED <<clock, answer, purged, panicked>>

\* A new key, but growRing panics.  The deferred unlock releases the mutex;
\* what the eviction loop did stays done.
PutPanic(t) ==
  /\ pc[t] = "put"
  /\ key[t] \notin DOMAIN data
  /\ \E n \in 0 .. count :
       /\ EvictsExactly(n) /\ GrowPanics(n)
       /\ data' = [k \in Kept(n) |-> data[k]]
       /\ head' = (head + n) % ringLen
       /\ count' = count - n
       /\ older' = older \intersect (Kept(n) \X Kept(n))
  /\ panicked' = TRUE
  /\ answer' = [answer EXCEPT ![t] = Failed]
  /\ Return(t)
  /\ UNCHANGED <<clock, ring, ringLen, purged>>

-----------------------------------------------------------------------------
(* Get *)

\* Under the read lock: no entry, and the Get is over.
GetAbsent(t, k) ==
  /\ pc[t] = "idle"
  /\ k \notin DOMAIN data
  /\ answer' = [answer EXCEPT ![t] = None]
  /\ UNCHANGED <<clock, data, ringVars, callVars, purged, panicked, older>>

\* Under the read lock: an entry, copied before the lock is released.
GetRead(t, k) ==
  /\ pc[t] = "idle"
  /\ k \in DOMAIN data
  /\ pc' = [pc EXCEPT ![t] = "read"]
  /\ key' = [key EXCEPT ![t] = k]
  /\ ent' = [ent EXCEPT ![t] = data[k]]
  /\ UNCHANGED <<clock, data, ringVars, at, answer, purged, panicked, older>>

\* Without a lock: the clock says the copy is still alive.
GetHit(t) ==
  /\ pc[t] = "read"
  /\ ~ (clock > ent[t].expiresAt)
  /\ answer' = [answer EXCEPT ![t] = ent[t].value]
  /\ Return(t)
  /\ UNCHANGED <<clock, data, ringVars, purged, panicked, older>>

\* Without a lock: the clock says the copy has expired.
GetExpired(t) ==
  /\ pc[t] = "read"
  /\ clock > ent[t].expiresAt
  /\ pc' = [pc EXCEPT ![t] = "expired"]
  /\ at' = [at EXCEPT ![t] = clock]
  /\ UNCHANGED <<clock, data, ringVars, key, ent, answer, purged, panicked,
                 older>>

\* Mutant of MustPurge: no second check.
MustPurgeUnchecked(t) == key[t] \in DOMAIN data

\* Under the write lock: the entry that is there now has expired too.
MustPurge(t) ==
  key[t] \in DOMAIN data /\ at[t] > data[key[t]].expiresAt

\* The second check, the deletion, and the miss.  The ring keeps the key.
GetPurge(t) ==
  /\ pc[t] = "expired"
  /\ LET kept == DOMAIN data \ {key[t]}
     IN IF MustPurge(t)
        THEN /\ data' = [k \in kept |-> data[k]]
             /\ older' = older \intersect (kept \X kept)
             /\ purged' = TRUE
        ELSE UNCHANGED <<data, older, purged>>
  /\ answer' = [answer EXCEPT ![t] = None]
  /\ Return(t)
  /\ UNCHANGED <<clock, ringVars, panicked>>

-----------------------------------------------------------------------------
Step(t) ==
  \/ \E k \in Keys, v \in Values : PutBegin(t, k, v)
  \/ PutOverwrite(t)
  \/ PutInsert(t)
  \/ PutPanic(t)
  \/ \E k \in Keys : GetAbsent(t, k) \/ GetRead(t, k)
  \/ GetHit(t)
  \/ GetExpired(t)
  \/ GetPurge(t)

Next == Tick \/ \E t \in Threads : Step(t)

Spec == Init /\ [][Next]_vars

\* Len: the entries that have not reached their time.
LiveLen == Cardinality({k \in DOMAIN data : clock < data[k].expiresAt})

-----------------------------------------------------------------------------
(* Properties *)

\* The store never holds more entries than its capacity, even after Gets have
\* deleted expired entries behind the ring's back ("capacity-bounded",
\* inmemory.go:13).
CapacityBound == Cardinality(DOMAIN data) <= Capacity

\* Until some Get deletes an expired entry, the ring from head on lists every
\* stored key exactly once, in the order of insertion: Put may pick its victim
\* there (inmemory.go:59-64, 71-74).
RingMirrorsData ==
  ~ purged =>
    /\ count = Cardinality(DOMAIN data)
    /\ DOMAIN data = {Slot(i) : i \in 0 .. (count - 1)}
    /\ \A i, j \in 0 .. (count - 1) : i < j => <<Slot(i), Slot(j)>> \in older

\* growRing is the only place a Put can panic, and it cannot until some Get
\* has deleted an expired entry (inmemory.go:66-69, 77-89).
PanicNeedsPurge == panicked => purged

\* Until some Get deletes an expired entry, what an insertion evicts is older
\* than everything it keeps: FIFO (inmemory.go:45).
EvictsOldest ==
  \A j \in DOMAIN data \ DOMAIN data' :
    \A k \in DOMAIN data \intersect DOMAIN data' : <<j, k>> \in older

FifoUntilPurged == [][~ purged' => EvictsOldest]_vars

\* The second check of Get: between the read lock and the write lock another
\* goroutine may have stored the key anew, and that entry is not deleted
\* (inmemory.go:92, 104-111).
PurgeOnlyExpired ==
  [][\A t \in Threads :
       pc[t] = "expired" /\ pc'[t] = "idle" =>
         \A k \in DOMAIN data \ DOMAIN data' :
           k = key[t] /\ clock > data[k].expiresAt]_vars

\* What the clients see of the state: one cell per key, and the calls in
\* flight.
Cells == [k \in Keys |-> IF k \in DOMAIN data THEN data[k].value ELSE None]

CallAt(p, k, e) ==
  CASE p = "idle" -> [op |-> "none", key |-> None, val |-> None]
    [] p = "put"  -> [op |-> "put", key |-> k, val |-> e.value]
    [] OTHER      -> [op |-> "get", key |-> k, val |-> e.value]

Calls == [t \in Threads |-> CallAt(pc[t], key[t], ent[t])]

\* The store keeps the promise of CcrStore, with expiry, eviction, the two
\* phases of Get and panics: no Put that returns is lost, no Get answers with
\* a payload its key did not hold during the call (inmemory.go:46-117).
Promise == INSTANCE CcrStore WITH mem <- Cells, call <- Calls

ImplementsCcrStore == Promise!StoreSpec

-----------------------------------------------------------------------------
(* The inductive invariant *)

\* The keys the ring lists.
Window == {Slot(i) : i \in 0 .. (count - 1)}

\* The ring overflows by one slot at most, only at its full length, and only
\* once a Get has left a stale slot.
RingBound ==
  /\ count <= ringLen + 1
  /\ count > ringLen => ringLen = Capacity /\ purged

\* A stored key that the ring does not list has been overwritten by an
\* overflow.  An overflowing ring begins and ends with the same slot; when the
\* store is full that slot's key is stored, so that evicting it makes room.
OverflowInv ==
  /\ ~ (DOMAIN data \subseteq Window) => count = Capacity + 1
  /\ count = Capacity + 1 =>
       \/ Cardinality(DOMAIN data) < Capacity
       \/ Slot(0) \in DOMAIN data

\* older relates stored keys, and no key to itself.
OlderInv == \A p \in older : {p[1], p[2]} \subseteq DOMAIN data /\ p[1] # p[2]

\* A goroutine cannot have read a later time than the present one.
ReadTimeInv == \A t \in Threads : at[t] <= clock

IInv ==
  /\ TypeOK
  /\ ReadTimeInv
  /\ IsFiniteSet(DOMAIN data)
  /\ CapacityBound
  /\ RingBound
  /\ OverflowInv
  /\ OlderInv
  /\ RingMirrorsData
  /\ PanicNeedsPurge

-----------------------------------------------------------------------------
(* What the comments say of the store, beyond what the code does *)

\* "Leave stale key in ring; eviction loop in Put handles it" (inmemory.go:109):
\* so every Put succeeds.
NoPanic == ~ panicked
=============================================================================
