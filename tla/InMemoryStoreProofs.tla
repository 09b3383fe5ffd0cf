------------------------- MODULE InMemoryStoreProofs -------------------------
(***************************************************************************)
(* Proofs about the in-memory CCR store, for every set of keys, values and *)
(* goroutines, every capacity, every time to live.                         *)
(***************************************************************************)
EXTENDS InMemoryStore, FiniteSetTheorems, TLAPS

-----------------------------------------------------------------------------
(* Indices into the ring *)

\* An index modulo the length of the ring is a slot of the ring.
LEMMA ModRange ==
  ASSUME NEW L \in Nat \ {0}, NEW a \in Nat
  PROVE  a % L \in 0 .. (L - 1)
BY SMT

\* A slot is its own remainder.
LEMMA ModSmall ==
  ASSUME NEW L \in Nat \ {0}, NEW a \in 0 .. (L - 1)
  PROVE  a % L = a
BY SMT

\* Going on by i from the slot n further than a is going on by n + i from a,
\* as far as an overflowing ring reaches.
LEMMA ModShift ==
  ASSUME NEW L \in Nat \ {0}, NEW a \in 0 .. (L - 1),
         NEW n \in 0 .. (L + 1), NEW i \in 0 .. (L + 1), n + i <= L + 1
  PROVE  (((a + n) % L) + i) % L = (a + (n + i)) % L
BY SMT

\* Less than one turn of the ring does not come back to the same slot.
LEMMA ModInjective ==
  ASSUME NEW L \in Nat \ {0}, NEW a \in 0 .. (L - 1),
         NEW i \in 0 .. L, NEW j \in 0 .. L, i < j, j - i < L
  PROVE  (a + i) % L # (a + j) % L
BY SMT

\* One turn of the ring comes back to the same slot.
LEMMA ModSelf ==
  ASSUME NEW L \in Nat \ {0}
  PROVE  L % L = 0
BY SMT

-----------------------------------------------------------------------------
(* Types *)

\* The numbers of the ring, without the rest of the type invariant.
LEMMA NumberTypes ==
  ASSUME TypeOK
  PROVE  /\ Capacity \in Nat \ {0} /\ ringLen \in Nat \ {0}
         /\ ringLen <= Capacity
         /\ head \in 0 .. (ringLen - 1) /\ head \in Nat /\ count \in Nat
BY StoreAssumption DEF TypeOK

\* The new length of the ring is one the capacity allows, and not shorter.
LEMMA GrownLenType ==
  ASSUME TypeOK
  PROVE  GrownLen \in ringLen .. Capacity
BY StoreAssumption DEF TypeOK, GrownLen

\* A call that returns leaves the locals of its goroutine well typed.
LEMMA ReturnType ==
  ASSUME TypeOK, NEW t \in Threads, Return(t)
  PROVE  /\ pc' \in [Threads -> {"idle", "put", "read", "expired"}]
         /\ key' \in [Threads -> Keys \union {NoKey}]
         /\ ent' \in [Threads -> Entry \union {NoEntry}]
         /\ at' \in [Threads -> Nat]
         /\ \A u \in Threads :
              pc'[u] # "idle" => key'[u] \in Keys /\ ent'[u] \in Entry
BY DEF TypeOK, Return

\* No step leaves the types.
LEMMA TypeStep ==
  ASSUME TypeOK, [Next]_vars
  PROVE  TypeOK'
<1> USE StoreAssumption
<1>1. CASE Tick
  BY <1>1 DEF Tick, TypeOK, ringVars, callVars
<1>2. ASSUME NEW t \in Threads, NEW k \in Keys, NEW v \in Values,
             PutBegin(t, k, v)
      PROVE  TypeOK'
  <2>1. [value |-> v, expiresAt |-> clock + Ttl] \in Entry
    BY DEF Entry, TypeOK
  <2>2. QED
    BY <1>2, <2>1 DEF PutBegin, TypeOK, ringVars
<1>3. ASSUME NEW t \in Threads, PutOverwrite(t)
      PROVE  TypeOK'
  <2>1. ent[t] \in Entry
    BY <1>3 DEF PutOverwrite, TypeOK
  <2>2. data' \in [DOMAIN data -> Entry] /\ DOMAIN data' = DOMAIN data
    BY <1>3, <2>1 DEF PutOverwrite, TypeOK
  <2>3. QED
    BY <1>3, <2>2, ReturnType DEF PutOverwrite, TypeOK, ringVars
<1>4. ASSUME NEW t \in Threads, PutInsert(t)
      PROVE  TypeOK'
  <2>0. PICK n \in 0 .. count : Insert(key[t], ent[t], n)
    BY <1>4 DEF PutInsert
  <2> DEFINE c == count - n
             h == (head + n) % ringLen
  <2>1. ent[t] \in Entry /\ key[t] \in Keys
    BY <1>4 DEF PutInsert, TypeOK
  <2>2. DOMAIN data' = Kept(n) \union {key[t]} /\ data' \in [DOMAIN data' -> Entry]
    <3>1. Kept(n) \subseteq DOMAIN data /\ data \in [DOMAIN data -> Entry]
      BY DEF Kept, TypeOK
    <3>2. QED
      BY <2>0, <2>1, <3>1 DEF Insert
  <2>a. /\ ringLen \in Nat \ {0} /\ ringLen <= Capacity /\ Capacity \in Nat
        /\ head + n \in Nat /\ c \in Nat /\ c + 1 \in Nat
    BY NumberTypes
  <2>3. h \in 0 .. (ringLen - 1)
    BY <2>a, ModRange
  <2>4. GrownRing(h, c) \in [0 .. (Capacity - 1) -> Keys \union {NoKey}]
    <3>1. ASSUME NEW i \in 0 .. (Capacity - 1)
          PROVE  ring[(h + i) % ringLen] \in Keys \union {NoKey}
      <4> HIDE DEF h
      <4>1. h + i \in Nat
        BY <2>3, <2>a
      <4>2. (h + i) % ringLen \in 0 .. (ringLen - 1)
        BY <2>a, <4>1, ModRange
      <4>3. (h + i) % ringLen \in 0 .. (Capacity - 1)
        BY <2>a, <4>2
      <4>4. QED
        BY <4>3 DEF TypeOK
    <3>2. QED
      BY <3>1 DEF GrownRing
  <2>5. ringLen' \in 1 .. Capacity /\ head' \in 0 .. (ringLen' - 1)
    <3>1. \/ ringLen' = GrownLen /\ head' = 0
          \/ ringLen' = ringLen /\ head' = h
      BY <2>0 DEF Insert
    <3> HIDE DEF h
    <3>2. QED
      BY <3>1, <2>3, <2>a, GrownLenType
  <2>6. ring' \in [0 .. (Capacity - 1) -> Keys \union {NoKey}]
    BY <2>0, <2>1, <2>4 DEF TypeOK, Insert
  <2>7. older' \subseteq Keys \X Keys
    BY <2>0, <2>1 DEF TypeOK, Insert, Kept
  <2>8. UNCHANGED <<clock, answer, purged, panicked>> /\ Return(t)
    BY <1>4 DEF PutInsert
  <2>9. DOMAIN data' \subseteq Keys
    BY <2>1, <2>2 DEF TypeOK, Kept
  <2>10. count' \in Nat
    BY <2>0, <2>a DEF Insert
  <2> HIDE DEF c, h
  <2>11. QED
    BY <2>2, <2>5, <2>6, <2>7, <2>8, <2>9, <2>10, ReturnType DEF TypeOK
<1>5. ASSUME NEW t \in Threads, PutPanic(t)
      PROVE  TypeOK'
  <2>0. PICK n \in 0 .. count :
          /\ data' = [k \in Kept(n) |-> data[k]]
          /\ head' = (head + n) % ringLen
          /\ count' = count - n
          /\ older' = older \intersect (Kept(n) \X Kept(n))
    BY <1>5 DEF PutPanic
  <2>1. DOMAIN data' \subseteq Keys /\ data' \in [DOMAIN data' -> Entry]
    <3>1. DOMAIN data' = Kept(n) /\ Kept(n) \subseteq DOMAIN data
      BY <2>0 DEF Kept
    <3>2. data' \in [Kept(n) -> Entry]
      BY <2>0, <3>1 DEF TypeOK
    <3>3. QED
      BY <3>1, <3>2 DEF TypeOK
  <2>2. head' \in 0 .. (ringLen - 1) /\ count' \in Nat
    <3>1. ringLen \in Nat \ {0} /\ head + n \in Nat /\ count - n \in Nat
      BY NumberTypes
    <3>2. QED
      BY <2>0, <3>1, ModRange
  <2>3. older' \subseteq Keys \X Keys
    BY <2>0 DEF TypeOK
  <2>4. answer' \in [Threads -> Values \union {None, Failed}]
    BY <1>5 DEF PutPanic, TypeOK
  <2>5. QED
    BY <1>5, <2>1, <2>2, <2>3, <2>4, ReturnType DEF PutPanic, TypeOK
<1>6. ASSUME NEW t \in Threads, NEW k \in Keys, GetAbsent(t, k)
      PROVE  TypeOK'
  BY <1>6 DEF GetAbsent, TypeOK, ringVars, callVars
<1>7. ASSUME NEW t \in Threads, NEW k \in Keys, GetRead(t, k)
      PROVE  TypeOK'
  <2>1. data[k] \in Entry
    BY <1>7 DEF GetRead, TypeOK
  <2>2. QED
    BY <1>7, <2>1 DEF GetRead, TypeOK, ringVars
<1>8. ASSUME NEW t \in Threads, GetHit(t)
      PROVE  TypeOK'
  <2>1. ent[t].value \in Values
    BY <1>8 DEF GetHit, TypeOK, Entry
  <2>2. QED
    BY <1>8, <2>1, ReturnType DEF GetHit, TypeOK, ringVars
<1>9. ASSUME NEW t \in Threads, GetExpired(t)
      PROVE  TypeOK'
  BY <1>9 DEF GetExpired, TypeOK, ringVars
<1>10. ASSUME NEW t \in Threads, GetPurge(t)
       PROVE  TypeOK'
  <2>1. /\ DOMAIN data' \subseteq Keys
        /\ data' \in [DOMAIN data' -> Entry]
        /\ older' \subseteq Keys \X Keys
        /\ purged' \in BOOLEAN
    <3>1. CASE MustPurge(t)
      BY <1>10, <3>1 DEF GetPurge, TypeOK
    <3>2. CASE ~ MustPurge(t)
      <4>1. UNCHANGED <<data, older, purged>>
        BY <1>10, <3>2 DEF GetPurge
      <4>2. QED
        BY <4>1 DEF TypeOK
    <3>3. QED
      BY <3>1, <3>2
  <2>2. answer' \in [Threads -> Values \union {None, Failed}]
    BY <1>10 DEF GetPurge, TypeOK
  <2>3. QED
    BY <1>10, <2>1, <2>2, ReturnType DEF GetPurge, TypeOK, ringVars
<1>11. CASE UNCHANGED vars
  BY <1>11 DEF vars, TypeOK, ringVars, callVars
<1>12. QED
  BY <1>1, <1>2, <1>3, <1>4, <1>5, <1>6, <1>7, <1>8, <1>9, <1>10, <1>11
     DEF Next, Step

\* The types hold at first.
LEMMA TypeInit == Init => TypeOK
<1> SUFFICES ASSUME Init PROVE TypeOK
  OBVIOUS
<1>1. DOMAIN data \subseteq Keys /\ data \in [DOMAIN data -> Entry]
  BY DEF Init
<1>2. ringLen \in 1 .. Capacity /\ head \in 0 .. (ringLen - 1)
  BY StoreAssumption DEF Init
<1>3. /\ ent \in [Threads -> Entry \union {NoEntry}]
      /\ \A t \in Threads : pc[t] = "idle"
  BY DEF Init
<1>4. QED
  BY <1>1, <1>2, <1>3, StoreAssumption DEF Init, TypeOK

\* Every state of the store is well typed: the ring's length stays within the
\* capacity and its head within the ring (inmemory.go:15-23).
THEOREM TypeCorrect == Spec => []TypeOK
<1>1. Init => TypeOK
  BY TypeInit
<1>2. TypeOK /\ [Next]_vars => TypeOK'
  BY TypeStep
<1>3. QED
  BY <1>1, <1>2, PTL DEF Spec

-----------------------------------------------------------------------------
(* The ring *)

\* The numbers that an insertion after n evictions deals with.
LEMMA InsertNumbers ==
  ASSUME TypeOK, RingBound, NEW n \in 0 .. count
  PROVE  /\ n \in Nat /\ count - n \in Nat /\ n + (count - n) = count
         /\ count <= ringLen + 1 /\ n <= ringLen + 1 /\ count - n <= ringLen + 1
         /\ (head + n) % ringLen \in 0 .. (ringLen - 1)
<1>1. n \in Nat /\ count - n \in Nat /\ head + n \in Nat
  BY NumberTypes
<1>2. (head + n) % ringLen \in 0 .. (ringLen - 1)
  BY <1>1, NumberTypes, ModRange
<1>3. count <= ringLen + 1
  BY DEF RingBound
<1>4. QED
  BY <1>1, <1>2, <1>3, NumberTypes

\* Reading the ring from the new head is reading it from the old one, n slots
\* later.
LEMMA ReadFromNewHead ==
  ASSUME TypeOK, RingBound, NEW n \in 0 .. count,
         NEW i \in 0 .. (count - n - 1)
  PROVE  ring[(((head + n) % ringLen) + i) % ringLen] = Slot(n + i)
<1>1. /\ n \in 0 .. (ringLen + 1) /\ i \in 0 .. (ringLen + 1)
      /\ n + i <= ringLen + 1
  BY InsertNumbers, NumberTypes
<1>2. (((head + n) % ringLen) + i) % ringLen = (head + (n + i)) % ringLen
  BY <1>1, NumberTypes, ModShift
<1>3. QED
  BY <1>2 DEF Slot

\* An insertion that finds a free slot, if need be in a longer ring, puts the
\* new key after the keys that are left, and moves no other.
LEMMA InsertAppends ==
  ASSUME TypeOK, RingBound, NEW n \in 0 .. count, NEW c \in Nat, c = count - n,
         NEW k \in Keys, NEW e,
         Insert(k, e, n), MustGrow(n) => c < GrownLen
  PROVE  /\ \A i \in 0 .. (c - 1) : Slot(i)' = Slot(n + i)
         /\ Slot(c)' = k
         /\ count' <= ringLen'
<1> DEFINE h == (head + n) % ringLen
<1>1. /\ c \in Nat /\ h \in 0 .. (ringLen - 1) /\ ringLen \in Nat \ {0}
      /\ c <= ringLen + 1 /\ ringLen <= Capacity /\ Capacity \in Nat
  BY InsertNumbers, NumberTypes
<1>2. \A i \in 0 .. (c - 1) : ring[(h + i) % ringLen] = Slot(n + i)
  BY ReadFromNewHead
<1>3. count' = c + 1
  BY DEF Insert
<1>4. ring \in [0 .. (Capacity - 1) -> Keys \union {NoKey}]
  BY DEF TypeOK
<1>5. CASE ~ MustGrow(n)
  <2>1. /\ ringLen' = ringLen /\ head' = h
        /\ ring' = [ring EXCEPT ![(h + c) % ringLen] = k]
    BY <1>5 DEF Insert
  <2>2. c < ringLen
    BY <1>1, <1>5 DEF MustGrow
  <2> HIDE DEF h
  <2>3. (h + c) % ringLen \in 0 .. (Capacity - 1)
    <3>1. h + c \in Nat
      BY <1>1
    <3>2. (h + c) % ringLen \in 0 .. (ringLen - 1)
      BY <3>1, <1>1, ModRange
    <3>3. QED
      BY <3>2, <1>1
  <2>4. ASSUME NEW i \in 0 .. (c - 1)
        PROVE  Slot(i)' = Slot(n + i)
    <3>1. (h + i) % ringLen # (h + c) % ringLen
      <4>1. i \in 0 .. ringLen /\ c \in 0 .. ringLen /\ i < c /\ c - i < ringLen
        BY <1>1, <2>2
      <4>2. QED
        BY <4>1, <1>1, ModInjective
    <3>2. Slot(i)' = ring'[(h + i) % ringLen]
      BY <2>1 DEF Slot
    <3>3. ring'[(h + i) % ringLen] = ring[(h + i) % ringLen]
      <4>1. (h + i) % ringLen \in 0 .. (Capacity - 1)
        <5>1. h + i \in Nat
          BY <1>1
        <5>2. (h + i) % ringLen \in 0 .. (ringLen - 1)
          BY <5>1, <1>1, ModRange
        <5>3. QED
          BY <5>2, <1>1
      <4>2. QED
        BY <2>1, <3>1, <4>1, <1>4
    <3>4. QED
      BY <3>2, <3>3, <1>2
  <2>5. Slot(c)' = k
    <3>1. Slot(c)' = ring'[(h + c) % ringLen]
      BY <2>1 DEF Slot
    <3>2. QED
      BY <3>1, <2>1, <2>3, <1>4
  <2>6. QED
    BY <2>1, <2>2, <2>4, <2>5, <1>1, <1>3
<1>6. CASE MustGrow(n)
  <2>1. /\ ringLen' = GrownLen /\ head' = 0
        /\ ring' = [GrownRing(h, c) EXCEPT ![c % GrownLen] = k]
    BY <1>6 DEF Insert
  <2>2. c < GrownLen /\ GrownLen \in ringLen .. Capacity
    BY <1>6, GrownLenType
  <2>3. GrownLen \in Nat \ {0}
    BY <2>2, <1>1
  <2> HIDE DEF h
  <2>4. \A i \in 0 .. c : i % GrownLen = i /\ i \in 0 .. (Capacity - 1)
    BY <2>2, <2>3, <1>1, ModSmall
  <2>5. \A i \in 0 .. c : Slot(i)' = ring'[i]
    <3>1. ASSUME NEW i \in 0 .. c
          PROVE  Slot(i)' = ring'[i]
      <4>1. 0 + i = i
        BY <1>1
      <4>2. QED
        BY <4>1, <2>1, <2>4 DEF Slot
    <3>2. QED
      BY <3>1
  <2>6. \A i \in 0 .. (c - 1) : ring'[i] = Slot(n + i)
    <3>1. ASSUME NEW i \in 0 .. (c - 1)
          PROVE  ring'[i] = Slot(n + i)
      <4>1. i \in 0 .. c /\ c \in 0 .. c /\ i < c /\ i # c
        BY <1>1
      <4>2. ring'[i] = GrownRing(h, c)[i]
        BY <4>1, <2>1, <2>4 DEF GrownRing
      <4>3. GrownRing(h, c)[i] = ring[(h + i) % ringLen]
        BY <4>1, <2>4 DEF GrownRing
      <4>4. QED
        BY <4>2, <4>3, <1>2
    <3>2. QED
      BY <3>1
  <2>7. ring'[c] = k
    <3>1. c \in 0 .. c
      BY <1>1
    <3>2. QED
      BY <3>1, <2>1, <2>4 DEF GrownRing
  <2>8. c \in 0 .. c /\ \A i \in 0 .. (c - 1) : i \in 0 .. c
    BY <1>1
  <2>9. count' <= ringLen'
    BY <1>1, <1>3, <2>1, <2>2, <2>3
  <2>10. QED
    BY <2>5, <2>6, <2>7, <2>8, <2>9
<1>7. QED
  BY <1>5, <1>6

-----------------------------------------------------------------------------
(* The inductive invariant *)

\* What the eviction loop has deleted after no turn and after one.
LEMMA PoppedFirst == Popped(0) = {} /\ Popped(1) = {Slot(0)}
<1>1. 0 .. (0 - 1) = {} /\ 0 .. (1 - 1) = {0}
  OBVIOUS
<1>2. QED
  BY <1>1 DEF Popped

\* What the eviction loop leaves is a finite part of what was stored.
LEMMA KeptFinite ==
  ASSUME TypeOK, IsFiniteSet(DOMAIN data), NEW n \in Nat
  PROVE  /\ Kept(n) \subseteq DOMAIN data
         /\ IsFiniteSet(Kept(n))
         /\ Cardinality(Kept(n)) \in Nat
         /\ Cardinality(DOMAIN data) \in Nat
BY FS_Subset, FS_CardinalityType DEF Kept

\* The first turn of the eviction loop deletes one entry at most.
LEMMA KeptFirst ==
  ASSUME IsFiniteSet(DOMAIN data)
  PROVE  /\ Kept(0) = DOMAIN data
         /\ Cardinality(Kept(1)) =
              IF Slot(0) \in DOMAIN data THEN Cardinality(DOMAIN data) - 1
                                         ELSE Cardinality(DOMAIN data)
<1>1. Kept(0) = DOMAIN data /\ Kept(1) = DOMAIN data \ {Slot(0)}
  BY PoppedFirst DEF Kept
<1>2. QED
  BY <1>1, FS_RemoveElement

\* In an overflowing ring the first eviction makes room, so that the next
\* insertion overflows again.
LEMMA OverflowAgain ==
  ASSUME IInv, NEW n \in 0 .. count, EvictsExactly(n), ~ GrowPanics(n),
         count = Capacity + 1
  PROVE  n = 1 /\ MustGrow(n) /\ count - n = GrownLen
<1>1. /\ TypeOK /\ RingBound /\ OverflowInv /\ CapacityBound
      /\ IsFiniteSet(DOMAIN data)
  BY DEF IInv
<1>2. Cardinality(DOMAIN data) \in Nat
  BY <1>1, FS_CardinalityType
<1>3. n <= 1
  <2>1. SUFFICES ASSUME n >= 2 PROVE FALSE
    BY NumberTypes, <1>1
  <2>2. MustEvict(0) /\ MustEvict(1)
    <3>1. 0 \in 0 .. (n - 1) /\ 1 \in 0 .. (n - 1)
      BY <2>1, NumberTypes, <1>1
    <3>2. QED
      BY <3>1 DEF EvictsExactly
  <2>3. Cardinality(Kept(0)) >= Capacity /\ Cardinality(Kept(1)) >= Capacity
    BY <2>2 DEF MustEvict, Kept
  <2>4. Slot(0) \in DOMAIN data
    BY <2>3, <1>1, <1>2, NumberTypes, KeptFirst DEF OverflowInv
  <2>5. QED
    BY <2>3, <2>4, <1>1, <1>2, NumberTypes, KeptFirst DEF CapacityBound
<1>4. ringLen = Capacity
  BY <1>1, NumberTypes DEF RingBound
<1>5. GrownLen = Capacity
  BY <1>1, <1>4, GrownLenType, NumberTypes
<1>6. MustGrow(n)
  BY <1>1, <1>3, <1>4, NumberTypes DEF MustGrow
<1>7. count - n <= GrownLen
  BY <1>1, <1>5, <1>6, NumberTypes DEF GrowPanics
<1>8. QED
  BY <1>1, <1>3, <1>5, <1>6, <1>7, NumberTypes

\* After the eviction loop there is room for one more entry.
LEMMA EvictionMakesRoom ==
  ASSUME IInv, NEW n \in 0 .. count, EvictsExactly(n), ~ GrowPanics(n)
  PROVE  Cardinality(Kept(n)) < Capacity
<1>1. /\ TypeOK /\ OverflowInv /\ IsFiniteSet(DOMAIN data)
  BY DEF IInv
<1>2. n \in Nat /\ count \in Nat /\ Capacity \in Nat \ {0}
  BY <1>1, NumberTypes
<1>3. Cardinality(Kept(n)) \in Nat
  BY <1>1, <1>2, KeptFinite
<1>4. CASE n < count
  BY <1>2, <1>3, <1>4 DEF EvictsExactly, MustEvict, Kept
<1>5. CASE ~ (n < count)
  <2>1. n = count
    BY <1>2, <1>5
  <2>2. CASE DOMAIN data \subseteq Window
    <3>1. Kept(n) = {}
      BY <2>1, <2>2 DEF Kept, Popped, Window
    <3>2. QED
      BY <3>1, <1>2, FS_EmptySet
  <2>3. CASE ~ (DOMAIN data \subseteq Window)
    <3>1. count = Capacity + 1
      BY <2>3, <1>1 DEF OverflowInv
    <3>2. n = 1
      BY <3>1, OverflowAgain
    <3>3. QED
      BY <2>1, <3>1, <3>2, <1>2
  <2>4. QED
    BY <2>2, <2>3
<1>6. QED
  BY <1>4, <1>5

\* As long as the ring mirrors the map, one eviction is enough, none is made
\* below the capacity, and each deletes an entry.
LEMMA ExactEviction ==
  ASSUME IInv, ~ purged, NEW n \in 0 .. count, EvictsExactly(n)
  PROVE  /\ n \in {0, 1}
         /\ Cardinality(Kept(n)) = count - n
         /\ count <= ringLen
         /\ Cardinality(DOMAIN data) < Capacity => n = 0
         /\ count = Capacity => n = 1
<1>1. /\ TypeOK /\ RingBound /\ CapacityBound /\ IsFiniteSet(DOMAIN data)
      /\ count = Cardinality(DOMAIN data) /\ DOMAIN data = Window
  BY DEF IInv, RingMirrorsData, Window
<1>3. /\ n \in Nat /\ count \in Nat /\ Capacity \in Nat \ {0}
      /\ ringLen \in Nat
  BY <1>1, NumberTypes
<1>2. count <= ringLen /\ count <= Capacity
  <2>1. ~ (count > ringLen)
    BY <1>1 DEF RingBound
  <2>2. count <= Capacity
    BY <1>1 DEF CapacityBound
  <2>3. QED
    BY <2>1, <2>2, <1>3
<1>4. CASE count < Capacity
  <2>1. ~ MustEvict(0)
    <3>1. MustEvict(0) => Cardinality(Kept(0)) >= Capacity
      BY DEF MustEvict, Kept
    <3>2. Cardinality(Kept(0)) = count
      BY <1>1, KeptFirst
    <3>3. QED
      BY <3>1, <3>2, <1>3, <1>4
  <2>2. n = 0
    <3>1. n # 0 => 0 \in 0 .. (n - 1)
      BY <1>3
    <3>2. QED
      BY <2>1, <3>1 DEF EvictsExactly
  <2>3. QED
    BY <2>2, <1>1, <1>2, <1>3, <1>4, KeptFirst
<1>5. CASE count = Capacity
  <2>1. Slot(0) \in DOMAIN data
    <3>1. 0 \in 0 .. (count - 1)
      BY <1>3, <1>5
    <3>2. QED
      BY <1>1, <3>1 DEF Window
  <2>2. Cardinality(Kept(1)) = Capacity - 1 /\ Kept(0) = DOMAIN data
    BY <1>1, <1>5, <2>1, KeptFirst
  <2>3. MustEvict(0) /\ ~ MustEvict(1)
    <3>1. /\ MustEvict(0) <=> Cardinality(Kept(0)) >= Capacity /\ 0 < count
          /\ MustEvict(1) => Cardinality(Kept(1)) >= Capacity
      BY DEF MustEvict, Kept
    <3>2. Cardinality(Kept(0)) = Capacity
      BY <1>1, <1>5, <2>2
    <3>3. QED
      BY <3>1, <3>2, <2>2, <1>3, <1>5
  <2>4. n = 1
    <3>1. n # 0
      BY <2>3 DEF EvictsExactly
    <3>2. n > 1 => 1 \in 0 .. (n - 1)
      BY <1>3
    <3>3. ~ (n > 1)
      BY <2>3, <3>2 DEF EvictsExactly
    <3>4. QED
      BY <1>3, <3>1, <3>3
  <2>5. QED
    BY <2>2, <2>4, <1>1, <1>2, <1>3, <1>5
<1>6. QED
  BY <1>2, <1>3, <1>4, <1>5

\* An insertion that does not panic keeps the inductive invariant.
LEMMA InsertInv ==
  ASSUME IInv, NEW t \in Threads, PutInsert(t), TypeOK', ReadTimeInv'
  PROVE  IInv'
<1>0. PICK n \in 0 .. count :
        EvictsExactly(n) /\ ~ GrowPanics(n) /\ Insert(key[t], ent[t], n)
  BY DEF PutInsert
<1>1. /\ TypeOK /\ RingBound /\ CapacityBound /\ OverflowInv /\ OlderInv
      /\ RingMirrorsData /\ PanicNeedsPurge /\ IsFiniteSet(DOMAIN data)
  BY DEF IInv
<1>2. PICK k \in Keys : k = key[t]
  BY <1>1 DEF PutInsert, TypeOK
<1>3. PICK c \in Nat : c = count - n
  BY <1>1, InsertNumbers
<1>4. /\ n \in Nat /\ count \in Nat /\ Capacity \in Nat \ {0}
      /\ ringLen \in Nat \ {0} /\ ringLen <= Capacity /\ count = n + c
      /\ count <= ringLen + 1 /\ GrownLen \in Nat
      /\ ringLen <= GrownLen /\ GrownLen <= Capacity
  BY <1>1, <1>3, NumberTypes, InsertNumbers, GrownLenType
<1>5. /\ k \notin DOMAIN data /\ DOMAIN data' = Kept(n) \union {k}
      /\ count' = c + 1 /\ purged' = purged /\ panicked' = panicked
      /\ older' = (older \intersect (Kept(n) \X Kept(n))) \union (Kept(n) \X {k})
      /\ Insert(k, ent[t], n)
  BY <1>0, <1>2, <1>3 DEF PutInsert, Insert
<1>6. /\ Kept(n) \subseteq DOMAIN data /\ IsFiniteSet(Kept(n))
      /\ Cardinality(Kept(n)) \in Nat
  BY <1>1, <1>4, KeptFinite
<1>7. /\ IsFiniteSet(DOMAIN data')
      /\ Cardinality(DOMAIN data') = Cardinality(Kept(n)) + 1
  BY <1>5, <1>6, FS_AddElement
<1>8. CapacityBound'
  <2>1. Cardinality(Kept(n)) < Capacity
    BY <1>0, EvictionMakesRoom
  <2>2. QED
    BY <2>1, <1>4, <1>6, <1>7 DEF CapacityBound
<1>9. OlderInv'
  BY <1>1, <1>5, <1>6 DEF OlderInv
<1>10. PanicNeedsPurge'
  BY <1>1, <1>5 DEF PanicNeedsPurge
<1>11. CASE MustGrow(n) => c < GrownLen
  <2>1. /\ \A i \in 0 .. (c - 1) : Slot(i)' = Slot(n + i)
        /\ Slot(c)' = k
        /\ count' <= ringLen'
    BY <1>1, <1>3, <1>5, <1>11, InsertAppends
  <2>2. ringLen' \in Nat /\ ringLen' <= Capacity /\ count' \in Nat
    BY <1>4 DEF TypeOK
  <2>3. RingBound'
    <3>1. count' <= ringLen' /\ count' \in Int /\ ringLen' \in Int
      BY <2>1, <2>2
    <3>2. count' <= ringLen' + 1
      <4>1. \A a, b \in Int : a <= b => a <= b + 1
        OBVIOUS
      <4>2. QED
        BY <3>1, <4>1
    <3>3. ~ (count' > ringLen')
      BY <3>1
    <3>4. QED
      BY <3>2, <3>3 DEF RingBound
  <2>4. DOMAIN data \subseteq Window
    <3>1. count # Capacity + 1
      BY <1>0, <1>3, <1>4, <1>11, OverflowAgain
    <3>2. QED
      BY <3>1, <1>1 DEF OverflowInv
  <2>5. DOMAIN data' \subseteq Window'
    <3>1. Window' = {Slot(i)' : i \in 0 .. (count' - 1)}
      BY DEF Window
    <3>2. c \in 0 .. (count' - 1) /\ \A i \in 0 .. (c - 1) : i \in 0 .. (count' - 1)
      BY <1>5
    <3>3. k \in Window'
      BY <2>1, <3>1, <3>2
    <3>4. ASSUME NEW x \in Kept(n)
          PROVE  x \in Window'
      <4>1. PICK j \in 0 .. (count - 1) : x = Slot(j)
        BY <1>6, <2>4 DEF Window
      <4>2. j \notin 0 .. (n - 1)
        BY <4>1 DEF Kept, Popped
      <4>3. j - n \in 0 .. (c - 1) /\ n + (j - n) = j
        BY <4>2, <1>4
      <4>4. Slot(j - n)' = Slot(j)
        BY <4>3, <2>1
      <4>5. QED
        BY <4>1, <4>3, <4>4, <3>1, <3>2
    <3>5. QED
      BY <3>3, <3>4, <1>5
  <2>6. OverflowInv'
    <3>1. count' # Capacity + 1
      BY <2>1, <2>2, <1>4
    <3>2. QED
      BY <2>5, <3>1 DEF OverflowInv
  <2>7. RingMirrorsData'
    <3>1. SUFFICES ASSUME ~ purged
                   PROVE  /\ count' = Cardinality(DOMAIN data')
                          /\ DOMAIN data' = Window'
                          /\ \A i, j \in 0 .. (count' - 1) :
                               i < j => <<Slot(i)', Slot(j)'>> \in older'
      BY <1>5 DEF RingMirrorsData, Window
    <3>2. /\ n \in {0, 1} /\ Cardinality(Kept(n)) = c
      BY <1>0, <1>3, <3>1, ExactEviction
    <3>3. /\ DOMAIN data = Window
          /\ \A i, j \in 0 .. (count - 1) : i < j => <<Slot(i), Slot(j)>> \in older
      BY <1>1, <3>1 DEF RingMirrorsData, Window
    <3>4. count' = Cardinality(DOMAIN data')
      BY <3>2, <1>5, <1>7
    <3>5. ASSUME NEW i \in 0 .. (c - 1)
          PROVE  Slot(n + i) \in Kept(n) /\ n + i \in 0 .. (count - 1)
      <4>1. n + i \in 0 .. (count - 1)
        BY <1>4
      <4>2. Slot(n + i) \in DOMAIN data
        BY <3>3, <4>1 DEF Window
      <4>3. Slot(n + i) \notin Popped(n)
        <5>1. CASE n = 0
          BY <5>1, PoppedFirst
        <5>2. CASE n = 1
          <6>1. 0 \in 0 .. (count - 1) /\ 0 < n + i
            BY <5>2, <1>4
          <6>2. <<Slot(0), Slot(n + i)>> \in older
            BY <3>3, <4>1, <6>1
          <6>3. Slot(0) # Slot(n + i)
            BY <6>2, <1>1 DEF OlderInv
          <6>4. QED
            BY <6>3, <5>2, PoppedFirst
        <5>3. QED
          BY <5>1, <5>2, <3>2
      <4>4. QED
        BY <4>1, <4>2, <4>3 DEF Kept
    <3>6. ASSUME NEW i \in 0 .. (count' - 1)
          PROVE  \/ i = c /\ Slot(i)' = k
                 \/ i \in 0 .. (c - 1) /\ Slot(i)' = Slot(n + i)
      <4>1. i = c \/ i \in 0 .. (c - 1)
        BY <1>5
      <4>2. QED
        BY <4>1, <2>1
    <3>7. Window' \subseteq DOMAIN data'
      <4>1. ASSUME NEW i \in 0 .. (count' - 1)
            PROVE  Slot(i)' \in DOMAIN data'
        BY <3>5, <3>6, <1>5
      <4>2. QED
        BY <4>1 DEF Window
    <3>8. ASSUME NEW i \in 0 .. (count' - 1), NEW j \in 0 .. (count' - 1), i < j
          PROVE  <<Slot(i)', Slot(j)'>> \in older'
      <4>1. i \in 0 .. (c - 1) /\ Slot(i)' = Slot(n + i)
        BY <3>6, <3>8, <1>5
      <4>2. CASE j = c /\ Slot(j)' = k
        BY <4>1, <4>2, <3>5, <1>5
      <4>3. CASE j \in 0 .. (c - 1) /\ Slot(j)' = Slot(n + j)
        <5>1. n + i < n + j
          BY <3>8, <1>4
        <5>2. <<Slot(n + i), Slot(n + j)>> \in older
          BY <5>1, <4>1, <4>3, <3>3, <3>5
        <5>3. QED
          BY <5>2, <4>1, <4>3, <3>5, <1>5
      <4>4. QED
        BY <4>2, <4>3, <3>6
    <3>9. QED
      BY <3>4, <3>7, <3>8, <2>5
  <2>8. QED
    BY <2>3, <2>6, <2>7, <1>7, <1>8, <1>9, <1>10 DEF IInv
<1>12. CASE ~ (MustGrow(n) => c < GrownLen)
  <2>1. MustGrow(n) /\ c = GrownLen /\ c >= ringLen
    BY <1>0, <1>3, <1>4, <1>12 DEF GrowPanics, MustGrow
  <2>2. ringLen = Capacity /\ GrownLen = Capacity /\ c = Capacity
    <3>1. CASE ringLen < Capacity
      <4>1. count <= ringLen
        BY <1>1, <1>4, <3>1 DEF RingBound
      <4>2. GrownLen > ringLen
        BY <1>4, <3>1 DEF GrownLen
      <4>3. QED
        BY <4>1, <4>2, <2>1, <1>4
    <3>2. QED
      BY <3>1, <2>1, <1>4
  <2>3. purged
    <3>1. SUFFICES ASSUME ~ purged PROVE FALSE
      OBVIOUS
    <3>2. /\ count <= ringLen
          /\ count = Capacity => n = 1
      BY <1>0, <3>1, ExactEviction
    <3>3. QED
      BY <3>2, <2>2, <1>4
  <2>4. /\ ringLen' = Capacity /\ head' = 0 /\ count' = Capacity + 1
        /\ ring' = [GrownRing((head + n) % ringLen, c) EXCEPT ![c % GrownLen] = k]
    BY <1>3, <1>5, <2>1, <2>2 DEF Insert
  <2>5. Slot(0)' = k
    <3>1. c % GrownLen = 0 /\ (0 + 0) % Capacity = 0 /\ 0 \in 0 .. (Capacity - 1)
      BY <2>2, <1>4, ModSelf, ModSmall
    <3>2. ring'[0] = k
      BY <2>4, <3>1 DEF GrownRing
    <3>3. QED
      BY <2>4, <3>1, <3>2 DEF Slot
  <2>6. RingBound'
    BY <2>3, <2>4, <1>4, <1>5 DEF RingBound
  <2>7. OverflowInv'
    BY <2>4, <2>5, <1>5 DEF OverflowInv
  <2>8. RingMirrorsData'
    BY <2>3, <1>5 DEF RingMirrorsData
  <2>9. QED
    BY <2>6, <2>7, <2>8, <1>7, <1>8, <1>9, <1>10 DEF IInv
<1>13. QED
  BY <1>11, <1>12

\* A Put that panics changes nothing that the invariant speaks of but the
\* history: it happens only in an overflowing ring, before any eviction.
LEMMA PanicKeepsStore ==
  ASSUME IInv, NEW t \in Threads, PutPanic(t)
  PROVE  /\ UNCHANGED <<data, ring, ringLen, head, count, older, purged>>
         /\ purged
<1>0. PICK n \in 0 .. count :
        /\ GrowPanics(n)
        /\ data' = [k \in Kept(n) |-> data[k]]
        /\ head' = (head + n) % ringLen
        /\ count' = count - n
        /\ older' = older \intersect (Kept(n) \X Kept(n))
  BY DEF PutPanic
<1>1. TypeOK /\ RingBound /\ OlderInv
  BY DEF IInv
<1>2. /\ n \in Nat /\ count \in Nat /\ count <= ringLen + 1 /\ count - n \in Nat
      /\ ringLen \in Nat \ {0} /\ ringLen <= GrownLen /\ GrownLen \in Nat
      /\ head \in 0 .. (ringLen - 1) /\ head \in Nat
  BY <1>1, NumberTypes, InsertNumbers, GrownLenType
<1>3. n = 0 /\ count > ringLen
  BY <1>0, <1>2 DEF GrowPanics
<1>4. purged
  BY <1>1, <1>3 DEF RingBound
<1>5. Kept(n) = DOMAIN data
  BY <1>3, PoppedFirst DEF Kept
<1>6. data' = data
  <2>1. data \in [DOMAIN data -> Entry]
    BY <1>1 DEF TypeOK
  <2>2. QED
    BY <1>0, <1>5, <2>1
<1>7. older' = older
  <2>1. older \subseteq (DOMAIN data) \X (DOMAIN data)
    <3>1. older \subseteq Keys \X Keys
      BY <1>1 DEF TypeOK
    <3>2. QED
      BY <3>1, <1>1 DEF OlderInv
  <2>2. QED
    BY <1>0, <1>5, <2>1
<1>8. head' = head /\ count' = count
  BY <1>0, <1>2, <1>3, ModSmall
<1>9. ring' = ring /\ ringLen' = ringLen /\ purged' = purged
  BY DEF PutPanic
<1>10. QED
  BY <1>4, <1>6, <1>7, <1>8, <1>9

\* The deletion of an expired entry keeps the inductive invariant.
LEMMA PurgeInv ==
  ASSUME IInv, NEW t \in Threads, GetPurge(t), MustPurge(t), TypeOK',
         ReadTimeInv'
  PROVE  IInv'
<1> DEFINE kept == DOMAIN data \ {key[t]}
<1>1. /\ TypeOK /\ RingBound /\ CapacityBound /\ OverflowInv /\ OlderInv
      /\ PanicNeedsPurge /\ IsFiniteSet(DOMAIN data)
  BY DEF IInv
<1>2. /\ DOMAIN data' = kept /\ older' = older \intersect (kept \X kept)
      /\ purged' /\ panicked' = panicked
      /\ ring' = ring /\ ringLen' = ringLen /\ head' = head /\ count' = count
  BY DEF GetPurge, ringVars
<1>3. /\ IsFiniteSet(kept) /\ Cardinality(kept) = Cardinality(DOMAIN data) - 1
      /\ Cardinality(DOMAIN data) \in Nat /\ Capacity \in Nat
  BY <1>1, FS_RemoveElement, FS_CardinalityType, NumberTypes DEF MustPurge
<1>4. Window' = Window
  BY <1>2 DEF Window, Slot
<1>5. Cardinality(DOMAIN data') < Capacity
  BY <1>1, <1>2, <1>3 DEF CapacityBound
<1>6. CapacityBound' /\ IsFiniteSet(DOMAIN data')
  BY <1>2, <1>3, <1>5 DEF CapacityBound
<1>7. RingBound'
  BY <1>1, <1>2 DEF RingBound
<1>8. OverflowInv'
  <2>1. ~ (DOMAIN data' \subseteq Window') => ~ (DOMAIN data \subseteq Window)
    BY <1>2, <1>4
  <2>2. QED
    BY <2>1, <1>1, <1>2, <1>5 DEF OverflowInv
<1>9. OlderInv'
  BY <1>1, <1>2 DEF OlderInv
<1>10. RingMirrorsData' /\ PanicNeedsPurge'
  BY <1>2 DEF RingMirrorsData, PanicNeedsPurge
<1>11. QED
  BY <1>6, <1>7, <1>8, <1>9, <1>10 DEF IInv

\* The invariant reads the set of stored keys, the ring and the history only.
LEMMA SameStoreInv ==
  ASSUME IInv, TypeOK', ReadTimeInv',
         DOMAIN data' = DOMAIN data,
         UNCHANGED <<ring, ringLen, head, count, older, purged>>,
         panicked' => panicked \/ purged
  PROVE  IInv'
<1>1. \A i : Slot(i)' = Slot(i)
  BY DEF Slot
<1>2. Window' = Window
  BY <1>1 DEF Window
<1>3. CapacityBound' /\ RingBound' /\ OlderInv' /\ PanicNeedsPurge'
  BY DEF IInv, CapacityBound, RingBound, OlderInv, PanicNeedsPurge
<1>4. OverflowInv'
  BY <1>1, <1>2 DEF IInv, OverflowInv
<1>5. RingMirrorsData'
  BY <1>1 DEF IInv, RingMirrorsData
<1>6. QED
  BY <1>3, <1>4, <1>5 DEF IInv

\* The inductive invariant holds at first.
LEMMA InvInit == Init => IInv
<1> SUFFICES ASSUME Init PROVE IInv
  OBVIOUS
<1>1. TypeOK
  BY TypeInit
<1>2. /\ DOMAIN data = {} /\ count = 0 /\ older = {} /\ ~ panicked
      /\ 0 .. (count - 1) = {}
  BY DEF Init
<1>3. IsFiniteSet(DOMAIN data) /\ Cardinality(DOMAIN data) = 0
  BY <1>2, FS_EmptySet
<1>4. CapacityBound /\ RingBound /\ ReadTimeInv
  BY <1>1, <1>2, <1>3, NumberTypes
     DEF CapacityBound, RingBound, ReadTimeInv, Init
<1>5. OverflowInv /\ OlderInv /\ PanicNeedsPurge
  BY <1>1, <1>2, <1>3, NumberTypes DEF OverflowInv, OlderInv, PanicNeedsPurge
<1>6. RingMirrorsData
  BY <1>2, <1>3 DEF RingMirrorsData
<1>7. QED
  BY <1>1, <1>3, <1>4, <1>5, <1>6 DEF IInv

\* Time does not run backwards, and goroutines only read the present one.
LEMMA ReadTimeStep ==
  ASSUME TypeOK, ReadTimeInv, [Next]_vars
  PROVE  ReadTimeInv'
<1>1. clock \in Nat /\ at \in [Threads -> Nat]
  BY DEF TypeOK
<1>2. CASE at' = at /\ clock' \in {clock, clock + 1}
  BY <1>1, <1>2 DEF ReadTimeInv
<1>3. ASSUME NEW t \in Threads, NEW x \in {0, clock},
             at' = [at EXCEPT ![t] = x], clock' = clock
      PROVE  ReadTimeInv'
  BY <1>1, <1>3 DEF ReadTimeInv
<1>4. CASE Tick \/ UNCHANGED vars
  BY <1>2, <1>4 DEF Tick, vars, callVars
<1>5. ASSUME NEW t \in Threads, Step(t)
      PROVE  ReadTimeInv'
  <2>1. CASE Return(t) /\ clock' = clock
    BY <1>3, <2>1 DEF Return
  <2>2. CASE at' = at /\ clock' = clock
    BY <1>2, <2>2
  <2>3. CASE GetExpired(t)
    BY <1>3, <2>3 DEF GetExpired
  <2>4. QED
    BY <1>5, <2>1, <2>2, <2>3
       DEF Step, PutBegin, PutOverwrite, PutInsert, PutPanic, GetAbsent,
           GetRead, GetHit, GetPurge, callVars
<1>6. QED
  BY <1>4, <1>5 DEF Next

\* No step breaks the inductive invariant: Put and Get with every interleaving
\* of their critical sections (inmemory.go:46-117).
LEMMA InvStep ==
  ASSUME IInv, [Next]_vars
  PROVE  IInv'
<1>1. TypeOK' /\ ReadTimeInv'
  BY TypeStep, ReadTimeStep DEF IInv
<1>2. CASE UNCHANGED <<data, ring, ringLen, head, count, older, purged, panicked>>
  BY <1>1, <1>2, SameStoreInv
<1>3. CASE Tick \/ UNCHANGED vars
  BY <1>2, <1>3 DEF Tick, vars, ringVars
<1>4. ASSUME NEW t \in Threads, Step(t)
      PROVE  IInv'
  <2>1. ASSUME NEW k \in Keys, NEW v \in Values, PutBegin(t, k, v)
        PROVE  IInv'
    BY <1>2, <2>1 DEF PutBegin, ringVars
  <2>2. CASE PutOverwrite(t)
    <3>1. DOMAIN data' = DOMAIN data
      BY <2>2 DEF PutOverwrite, IInv, TypeOK
    <3>2. QED
      BY <1>1, <2>2, <3>1, SameStoreInv DEF PutOverwrite, ringVars
  <2>3. CASE PutInsert(t)
    BY <1>1, <2>3, InsertInv
  <2>4. CASE PutPanic(t)
    BY <1>1, <2>4, PanicKeepsStore, SameStoreInv
  <2>5. ASSUME NEW k \in Keys, GetAbsent(t, k) \/ GetRead(t, k)
        PROVE  IInv'
    BY <1>2, <2>5 DEF GetAbsent, GetRead, ringVars
  <2>6. CASE GetHit(t) \/ GetExpired(t)
    BY <1>2, <2>6 DEF GetHit, GetExpired, ringVars
  <2>7. CASE GetPurge(t)
    <3>1. CASE MustPurge(t)
      BY <1>1, <2>7, <3>1, PurgeInv
    <3>2. CASE ~ MustPurge(t)
      BY <1>2, <2>7, <3>2 DEF GetPurge, ringVars
    <3>3. QED
      BY <3>1, <3>2
  <2>8. QED
    BY <1>4, <2>1, <2>2, <2>3, <2>4, <2>5, <2>6, <2>7 DEF Step
<1>5. QED
  BY <1>3, <1>4 DEF Next

\* The inductive invariant holds in every state of the store, before and after
\* Gets have left stale keys in the ring (inmemory.go:46-117).
THEOREM Inductive == Spec => []IInv
<1>1. Init => IInv
  BY InvInit
<1>2. IInv /\ [Next]_vars => IInv'
  BY InvStep
<1>3. QED
  BY <1>1, <1>2, PTL DEF Spec

-----------------------------------------------------------------------------
(* The properties *)

\* The store is capacity-bounded, whatever Gets have deleted.
THEOREM CapacityIsBounded == Spec => []CapacityBound
BY Inductive, PTL DEF IInv

\* Until the first deletion by a Get, the ring is the insertion order of the
\* map.
THEOREM RingIsExact == Spec => []RingMirrorsData
BY Inductive, PTL DEF IInv

\* No Put panics before the first deletion by a Get.
THEOREM PanicsNeedPurge == Spec => []PanicNeedsPurge
BY Inductive, PTL DEF IInv

\* What an insertion into an exact ring evicts is older than what it keeps.
LEMMA InsertEvictsOldest ==
  ASSUME IInv, ~ purged, NEW t \in Threads, PutInsert(t)
  PROVE  EvictsOldest
<1>0. PICK n \in 0 .. count :
        EvictsExactly(n) /\ Insert(key[t], ent[t], n)
  BY DEF PutInsert
<1>1. n \in {0, 1} /\ count \in Nat
  BY <1>0, ExactEviction, NumberTypes DEF IInv
<1>2. DOMAIN data' = Kept(n) \union {key[t]} /\ key[t] \notin DOMAIN data
  BY <1>0 DEF Insert, PutInsert
<1>3. SUFFICES ASSUME NEW j \in DOMAIN data \ DOMAIN data',
                      NEW k \in DOMAIN data \intersect DOMAIN data'
               PROVE  <<j, k>> \in older
  BY DEF EvictsOldest
<1>4. j \in Popped(n) /\ k \notin Popped(n)
  BY <1>2 DEF Kept
<1>5. n = 1 /\ j = Slot(0)
  BY <1>1, <1>4, PoppedFirst
<1>6. PICK i \in 0 .. (count - 1) : k = Slot(i)
  BY DEF IInv, RingMirrorsData
<1>7. i # 0
  BY <1>4, <1>5, <1>6, PoppedFirst
<1>8. 0 \in 0 .. (count - 1) /\ 0 < i
  BY <1>1, <1>7
<1>9. QED
  BY <1>5, <1>6, <1>8 DEF IInv, RingMirrorsData

\* Until the first deletion by a Get, eviction is first in, first out.
THEOREM EvictionIsFifo == Spec => FifoUntilPurged
<1>1. IInv /\ [Next]_vars => [~ purged' => EvictsOldest]_vars
  <2> SUFFICES ASSUME IInv, Next, ~ purged'
               PROVE  EvictsOldest
    BY DEF vars
  <2>1. CASE data' = data
    BY <2>1 DEF EvictsOldest
  <2>2. CASE Tick
    BY <2>1, <2>2 DEF Tick
  <2>3. ASSUME NEW t \in Threads, Step(t)
        PROVE  EvictsOldest
    <3>1. CASE PutOverwrite(t)
      <4>1. DOMAIN data' = DOMAIN data
        BY <3>1 DEF PutOverwrite, IInv, TypeOK
      <4>2. QED
        BY <4>1 DEF EvictsOldest
    <3>2. CASE PutInsert(t)
      <4>1. ~ purged
        BY <3>2 DEF PutInsert
      <4>2. QED
        BY <3>2, <4>1, InsertEvictsOldest
    <3>3. CASE PutPanic(t)
      BY <2>1, <3>3, PanicKeepsStore
    <3>4. CASE GetPurge(t)
      BY <2>1, <3>4 DEF GetPurge
    <3>5. ASSUME NEW k \in Keys, NEW v \in Values, PutBegin(t, k, v)
          PROVE  EvictsOldest
      BY <2>1, <3>5 DEF PutBegin
    <3>6. ASSUME NEW k \in Keys, GetAbsent(t, k) \/ GetRead(t, k)
          PROVE  EvictsOldest
      BY <2>1, <3>6 DEF GetAbsent, GetRead
    <3>7. CASE GetHit(t) \/ GetExpired(t)
      BY <2>1, <3>7 DEF GetHit, GetExpired
    <3>8. QED
      BY <2>3, <3>1, <3>2, <3>3, <3>4, <3>5, <3>6, <3>7 DEF Step
  <2>4. QED
    BY <2>2, <2>3 DEF Next
<1>2. QED
  BY <1>1, Inductive, PTL DEF Spec, FifoUntilPurged

\* A Get deletes no entry but an expired one of its own key, even when that
\* key was stored anew between its two locks.
THEOREM PurgeIsSafe == Spec => PurgeOnlyExpired
<1>1. ASSUME IInv, Next, NEW t \in Threads, pc[t] = "expired", pc'[t] = "idle",
             NEW k \in DOMAIN data \ DOMAIN data'
      PROVE  k = key[t] /\ clock > data[k].expiresAt
  <2>1. ~ Tick /\ pc' # pc
    BY <1>1 DEF Tick, callVars
  <2>2. PICK u \in Threads : Step(u)
    BY <1>1, <2>1 DEF Next
  <2>3. u = t
    <3>1. pc \in [Threads -> {"idle", "put", "read", "expired"}]
      BY <1>1 DEF IInv, TypeOK
    <3>2. SUFFICES ASSUME u # t PROVE FALSE
      OBVIOUS
    <3>3. ASSUME NEW x, pc' = [pc EXCEPT ![u] = x]
          PROVE  pc'[t] = pc[t]
      BY <3>1, <3>2, <3>3
    <3>4. pc' = pc \/ \E x : pc' = [pc EXCEPT ![u] = x]
      BY <2>2 DEF Step, PutBegin, PutOverwrite, PutInsert, PutPanic, GetAbsent,
           GetRead, GetHit, GetExpired, GetPurge, Return, callVars
    <3>5. QED
      BY <1>1, <2>1, <3>3, <3>4
  <2>4. GetPurge(t)
    BY <1>1, <2>1, <2>2, <2>3
       DEF Step, PutBegin, PutOverwrite, PutInsert, PutPanic, GetAbsent,
           GetRead, GetHit, GetExpired, callVars
  <2>5. MustPurge(t) /\ k = key[t]
    BY <1>1, <2>4 DEF GetPurge
  <2>6. /\ at[t] <= clock /\ at[t] \in Nat /\ clock \in Nat
        /\ data[k].expiresAt \in Nat
    BY <1>1 DEF IInv, ReadTimeInv, TypeOK, Entry
  <2>7. QED
    BY <2>5, <2>6 DEF MustPurge
<1>2. IInv /\ [Next]_vars =>
        [\A t \in Threads :
           pc[t] = "expired" /\ pc'[t] = "idle" =>
             \A k \in DOMAIN data \ DOMAIN data' :
               k = key[t] /\ clock > data[k].expiresAt]_vars
  BY <1>1
<1>3. QED
  BY <1>2, Inductive, PTL DEF Spec, PurgeOnlyExpired

-----------------------------------------------------------------------------
(* The store implements its promise *)

\* A goroutine's step changes the clients' view of its own call only.
LEMMA CallsStep ==
  ASSUME TypeOK, NEW t \in Threads, NEW p, NEW k, NEW e,
         pc' = [pc EXCEPT ![t] = p],
         key' = [key EXCEPT ![t] = k],
         ent' = [ent EXCEPT ![t] = e]
  PROVE  Calls' = [Calls EXCEPT ![t] = CallAt(p, k, e)]
<1>1. Calls' = [u \in Threads |-> CallAt(pc'[u], key'[u], ent'[u])]
  BY DEF Calls
<1>2. ASSUME NEW u \in Threads, u # t
      PROVE  pc'[u] = pc[u] /\ key'[u] = key[u] /\ ent'[u] = ent[u]
  BY <1>2 DEF TypeOK
<1>3. pc'[t] = p /\ key'[t] = k /\ ent'[t] = e
  BY DEF TypeOK
<1>4. ASSUME NEW u \in Threads
      PROVE  CallAt(pc'[u], key'[u], ent'[u]) =
               IF u = t THEN CallAt(p, k, e) ELSE CallAt(pc[u], key[u], ent[u])
  <2>1. CASE u = t
    BY <2>1, <1>3
  <2>2. CASE u # t
    <3>1. CallAt(pc'[u], key'[u], ent'[u]) = CallAt(pc[u], key[u], ent[u])
      BY <1>2, <2>2
    <3>2. QED
      BY <3>1, <2>2
  <2>3. QED
    BY <2>1, <2>2
<1>5. [Calls EXCEPT ![t] = CallAt(p, k, e)] =
        [u \in Threads |-> IF u = t THEN CallAt(p, k, e)
                                    ELSE CallAt(pc[u], key[u], ent[u])]
  BY DEF Calls
<1>6. QED
  BY <1>1, <1>4, <1>5

\* The clients' view of a goroutine, by the place it is at.
LEMMA CallAtPlaces ==
  ASSUME NEW p, NEW k, NEW e
  PROVE  /\ p = "idle" => CallAt(p, k, e) = Promise!NoCall
         /\ p = "put" => CallAt(p, k, e) = Promise!PutOf(k, e.value)
         /\ p \in {"read", "expired"} =>
              CallAt(p, k, e) = Promise!GetOf(k, e.value)
BY DEF CallAt, Promise!NoCall, Promise!PutOf, Promise!GetOf

\* The call of a goroutine, by the place it is at.
LEMMA CallsAt ==
  ASSUME NEW t \in Threads
  PROVE  /\ pc[t] = "idle" => Calls[t] = Promise!NoCall
         /\ pc[t] = "put" => Calls[t] = Promise!PutOf(key[t], ent[t].value)
         /\ pc[t] \in {"read", "expired"} =>
              Calls[t] = Promise!GetOf(key[t], ent[t].value)
BY CallAtPlaces DEF Calls

\* A goroutine that returns ends its call in the clients' view.
LEMMA CallsReturn ==
  ASSUME TypeOK, NEW t \in Threads, Return(t)
  PROVE  Promise!StoreReturn(t)
<1>1. Calls' = [Calls EXCEPT ![t] = CallAt("idle", NoKey, NoEntry)]
  BY CallsStep DEF Return
<1>2. CallAt("idle", NoKey, NoEntry) = Promise!NoCall
  BY CallAtPlaces
<1>3. QED
  BY <1>1, <1>2 DEF Promise!StoreReturn

\* The fields of a call.
LEMMA CallFields ==
  ASSUME NEW k, NEW v
  PROVE  /\ Promise!PutOf(k, v).op = "put" /\ Promise!PutOf(k, v).key = k
         /\ Promise!PutOf(k, v).val = v
         /\ Promise!GetOf(k, v).op = "get" /\ Promise!GetOf(k, v).key = k
         /\ Promise!GetOf(k, v).val = v
BY DEF Promise!PutOf, Promise!GetOf

\* Every step of the store is a step of its promise, or no step of it.
LEMMA StepImplements ==
  ASSUME IInv, Next
  PROVE  [Promise!StoreNext]_(Promise!storeVars)
<1> USE DEF Promise!storeVars
<1>1. TypeOK
  BY DEF IInv
<1>2. CASE UNCHANGED <<data, pc, key, ent, answer>>
  <2>1. Cells' = Cells /\ Calls' = Calls
    BY <1>2 DEF Cells, Calls
  <2>2. QED
    BY <1>2, <2>1
<1>3. CASE Tick
  BY <1>2, <1>3 DEF Tick, callVars
<1>4. ASSUME NEW t \in Threads, NEW k \in Keys, NEW v \in Values,
             PutBegin(t, k, v)
      PROVE  Promise!StoreNext
  <2>1. Cells' = Cells /\ answer' = answer
    BY <1>4 DEF PutBegin, Cells
  <2>2. Calls[t] = Promise!NoCall
    BY <1>4, CallsAt DEF PutBegin
  <2>3. Calls' = [Calls EXCEPT ![t] = Promise!PutOf(k, v)]
    <3>1. PICK e : /\ e = [value |-> v, expiresAt |-> clock + Ttl]
                   /\ ent' = [ent EXCEPT ![t] = e]
      BY <1>4 DEF PutBegin
    <3>2. Calls' = [Calls EXCEPT ![t] = CallAt("put", k, e)]
      BY <1>1, <1>4, <3>1, CallsStep DEF PutBegin
    <3>3. e.value = v
      BY <3>1
    <3>4. CallAt("put", k, e) = Promise!PutOf(k, e.value)
      BY CallAtPlaces
    <3>5. QED
      BY <3>2, <3>3, <3>4
  <2>4. QED
    BY <2>1, <2>2, <2>3 DEF Promise!StoreNext, Promise!StorePutCall
<1>5. ASSUME NEW t \in Threads, PutOverwrite(t) \/ PutInsert(t)
      PROVE  Promise!StoreNext
  <2>1. /\ Calls[t] = Promise!PutOf(key[t], ent[t].value)
        /\ key[t] \in Keys
    BY <1>1, <1>5, CallsAt DEF PutOverwrite, PutInsert, TypeOK
  <2>2. Promise!StoreReturn(t) /\ answer' = answer
    BY <1>1, <1>5, CallsReturn DEF PutOverwrite, PutInsert
  <2>3. PICK D \in SUBSET Keys :
          Cells' = [Promise!Dropped(D) EXCEPT ![key[t]] = ent[t].value]
    <3>1. CASE PutOverwrite(t)
      <4>1. data' = [data EXCEPT ![key[t]] = ent[t]] /\ key[t] \in DOMAIN data
        BY <3>1 DEF PutOverwrite
      <4>2. Cells' = [Promise!Dropped({}) EXCEPT ![key[t]] = ent[t].value]
        BY <4>1, <2>1 DEF Cells, Promise!Dropped
      <4>3. QED
        BY <4>2
    <3>2. CASE PutInsert(t)
      <4>1. PICK n \in 0 .. count : Insert(key[t], ent[t], n)
        BY <3>2 DEF PutInsert
      <4>2. PICK D \in SUBSET Keys : D = DOMAIN data \ Kept(n)
        BY <1>1 DEF TypeOK
      <4>3. Kept(n) \subseteq DOMAIN data
        BY DEF Kept
      <4>4. data' = [j \in Kept(n) \union {key[t]} |->
                       IF j = key[t] THEN ent[t] ELSE data[j]]
        BY <4>1 DEF Insert
      <4>5. Cells' = [Promise!Dropped(D) EXCEPT ![key[t]] = ent[t].value]
        BY <4>2, <4>3, <4>4, <2>1 DEF Cells, Promise!Dropped
      <4>6. QED
        BY <4>5
    <3>3. QED
      BY <1>5, <3>1, <3>2
  <2>4. Promise!StorePut(t, D)
    <3>1. /\ Calls[t].op = "put" /\ Calls[t].key = key[t]
          /\ Calls[t].val = ent[t].value
      BY <2>1, CallFields
    <3>2. QED
      BY <3>1, <2>2, <2>3 DEF Promise!StorePut
  <2>5. QED
    BY <2>4 DEF Promise!StoreNext
<1>6. ASSUME NEW t \in Threads, PutPanic(t)
      PROVE  Promise!StoreNext
  <2>1. Cells' = Cells
    BY <1>6, PanicKeepsStore DEF Cells
  <2>2. Calls[t].op = "put"
    BY <1>6, CallsAt, CallFields DEF PutPanic
  <2>3. Promise!StoreReturn(t) /\ answer' = [answer EXCEPT ![t] = Failed]
    BY <1>1, <1>6, CallsReturn DEF PutPanic
  <2>4. QED
    BY <2>1, <2>2, <2>3 DEF Promise!StoreNext, Promise!StoreFail
<1>7. ASSUME NEW t \in Threads, NEW k \in Keys, GetAbsent(t, k)
      PROVE  Promise!StoreNext
  <2>1. Cells' = Cells /\ Calls' = Calls /\ Cells[k] = None
    BY <1>7 DEF GetAbsent, Cells, Calls, callVars
  <2>2. Calls[t] = Promise!NoCall /\ answer' = [answer EXCEPT ![t] = None]
    BY <1>7, CallsAt DEF GetAbsent
  <2>3. QED
    BY <2>1, <2>2 DEF Promise!StoreNext, Promise!StoreAbsent
<1>8. ASSUME NEW t \in Threads, NEW k \in Keys, GetRead(t, k)
      PROVE  Promise!StoreNext
  <2>1. Cells' = Cells /\ answer' = answer
    BY <1>8 DEF GetRead, Cells
  <2>2. Cells[k] = data[k].value /\ Cells[k] # None
    BY <1>1, <1>8, StoreAssumption DEF GetRead, Cells, TypeOK, Entry
  <2>3. Calls[t] = Promise!NoCall
    BY <1>8, CallsAt DEF GetRead
  <2>4. Calls' = [Calls EXCEPT ![t] = Promise!GetOf(k, Cells[k])]
    <3>1. PICK e : e = data[k] /\ ent' = [ent EXCEPT ![t] = e]
      BY <1>8 DEF GetRead
    <3>2. Calls' = [Calls EXCEPT ![t] = CallAt("read", k, e)]
      BY <1>1, <1>8, <3>1, CallsStep DEF GetRead
    <3>3. CallAt("read", k, e) = Promise!GetOf(k, e.value)
      BY CallAtPlaces
    <3>4. QED
      BY <2>2, <3>1, <3>2, <3>3
  <2>5. QED
    BY <2>1, <2>2, <2>3, <2>4 DEF Promise!StoreNext, Promise!StoreLook
<1>9. ASSUME NEW t \in Threads, GetHit(t)
      PROVE  Promise!StoreNext
  <2>1. Cells' = Cells
    BY <1>9 DEF GetHit, Cells
  <2>2. Calls[t] = Promise!GetOf(key[t], ent[t].value)
    BY <1>9, CallsAt DEF GetHit
  <2>3. /\ Promise!StoreReturn(t)
        /\ answer' = [answer EXCEPT ![t] = ent[t].value]
    BY <1>1, <1>9, CallsReturn DEF GetHit
  <2>4. QED
    <3>1. Promise!StoreHit(t)
      <4>1. Calls[t].op = "get" /\ Calls[t].val = ent[t].value
        BY <2>2, CallFields
      <4>2. QED
        BY <4>1, <2>1, <2>3 DEF Promise!StoreHit
    <3>2. QED
      BY <3>1 DEF Promise!StoreNext
<1>10. ASSUME NEW t \in Threads, GetExpired(t)
       PROVE  UNCHANGED Promise!storeVars
  <2>1. Cells' = Cells /\ answer' = answer
    BY <1>10 DEF GetExpired, Cells
  <2>2. pc[t] = "read" /\ pc' = [pc EXCEPT ![t] = "expired"]
        /\ key' = key /\ ent' = ent
    BY <1>10 DEF GetExpired
  <2>3. \A u \in Threads :
          CallAt(pc'[u], key[u], ent[u]) = CallAt(pc[u], key[u], ent[u])
    BY <1>1, <2>2, CallAtPlaces DEF TypeOK
  <2>4. QED
    BY <2>1, <2>2, <2>3 DEF Calls
<1>11. ASSUME NEW t \in Threads, GetPurge(t)
       PROVE  Promise!StoreNext
  <2>1. /\ Calls[t] = Promise!GetOf(key[t], ent[t].value)
        /\ key[t] \in Keys
    BY <1>1, <1>11, CallsAt DEF GetPurge, TypeOK
  <2>2. Promise!StoreReturn(t) /\ answer' = [answer EXCEPT ![t] = None]
    BY <1>1, <1>11, CallsReturn DEF GetPurge
  <2>3. PICK D \in SUBSET {key[t]} : Cells' = Promise!Dropped(D)
    <3>1. CASE MustPurge(t)
      <4>1. Cells' = Promise!Dropped({key[t]})
        BY <1>11, <3>1 DEF GetPurge, Cells, Promise!Dropped
      <4>2. QED
        BY <4>1
    <3>2. CASE ~ MustPurge(t)
      <4>1. data' = data
        BY <1>11, <3>2 DEF GetPurge
      <4>2. Cells' = Promise!Dropped({})
        BY <4>1 DEF Cells, Promise!Dropped
      <4>3. QED
        BY <4>2
    <3>3. QED
      BY <3>1, <3>2
  <2>4. Promise!StoreMiss(t, D) /\ D \in SUBSET Keys
    BY <2>1, <2>2, <2>3, CallFields DEF Promise!StoreMiss
  <2>5. QED
    BY <2>4 DEF Promise!StoreNext
<1>12. QED
  BY <1>3, <1>4, <1>5, <1>6, <1>7, <1>8, <1>9, <1>10, <1>11 DEF Next, Step

\* Whatever the capacity, the time to live and the interleaving, the store
\* keeps the promise of CcrStore.
THEOREM Implements == Spec => ImplementsCcrStore
<1>1. Init => Promise!StoreInit
  <2> SUFFICES ASSUME Init PROVE Promise!StoreInit
    OBVIOUS
  <2>1. Cells = [k \in Keys |-> None]
    BY DEF Init, Cells
  <2>2. Calls = [t \in Threads |-> Promise!NoCall]
    BY DEF Init, Calls, CallAt, Promise!NoCall
  <2>3. QED
    BY <2>1, <2>2 DEF Init, Promise!StoreInit
<1>2. IInv /\ [Next]_vars => [Promise!StoreNext]_(Promise!storeVars)
  <2>1. CASE UNCHANGED vars
    BY <2>1 DEF vars, callVars, Promise!storeVars, Cells, Calls
  <2>2. QED
    BY <2>1, StepImplements
<1>3. QED
  BY <1>1, <1>2, Inductive, PTL
     DEF Spec, ImplementsCcrStore, Promise!StoreSpec
=============================================================================
