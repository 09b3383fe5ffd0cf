-------------------------- MODULE SqliteStoreProofs --------------------------
(***************************************************************************)
(* Proofs of the properties of SqliteStore, for every number of processes, *)
(* every time to live and every length of a second in ticks.               *)
(***************************************************************************)
EXTENDS SqliteStore, TLAPS

\* A whole number of seconds is cut from a time.
LEMMA UnixCuts ==
  ASSUME NEW x \in Int
  PROVE  /\ Unix(x) \in Int
         /\ Second * Unix(x) <= x
         /\ x < Second * Unix(x) + Second
BY SqliteAssumption DEF Unix

\* A later second means a later time.
LEMMA UnixReflects ==
  ASSUME NEW x \in Int, NEW y \in Int, Unix(x) > Unix(y)
  PROVE  x > y
<1> DEFINE m == Unix(x)
           n == Unix(y)
<1>1. m \in Int /\ n \in Int /\ Second * m <= x /\ y < Second * n + Second
  BY UnixCuts
<1>2. Second * (n + 1) <= Second * m
  <2> HIDE DEF m, n
  <2>1. m >= n + 1
    BY <1>1 DEF m, n
  <2>2. QED
    BY <1>1, <2>1, SqliteAssumption
<1> HIDE DEF m, n
<1>3. QED
  BY <1>1, <1>2, SqliteAssumption

\* A time later by a second is in a later second.
LEMMA UnixStep ==
  ASSUME NEW x \in Int, NEW y \in Int, y + Second <= x
  PROVE  Unix(x) > Unix(y)
<1> DEFINE m == Unix(x)
           n == Unix(y)
<1>1. m \in Int /\ n \in Int /\ x < Second * m + Second /\ Second * n <= y
  BY UnixCuts
<1> HIDE DEF m, n
<1>2. SUFFICES ASSUME m <= n PROVE FALSE
  BY <1>1 DEF m, n
<1>3. Second * m <= Second * n
  BY <1>1, <1>2, SqliteAssumption
<1>4. QED
  BY <1>1, <1>3, SqliteAssumption

-----------------------------------------------------------------------------
(* Types *)

\* What a call is after a step of process p.
LEMMA GoesTypes ==
  ASSUME TypeOK, NEW p \in Processes,
         NEW point \in {"idle", "put", "get", "scanned"},
         NEW k \in Keys \union {NoKey}, NEW v \in Values \union {None},
         NEW s \in Int, NEW t \in Nat,
         Goes(p, point, k, v, s, t),
         point # "idle" => k \in Keys,
         point \in {"put", "scanned"} => v \in Values
  PROVE  /\ pc' \in [Processes -> {"idle", "put", "get", "scanned"}]
         /\ key' \in [Processes -> Keys \union {NoKey}]
         /\ val' \in [Processes -> Values \union {None}]
         /\ stamp' \in [Processes -> Int]
         /\ at' \in [Processes -> Nat]
         /\ \A q \in Processes : pc'[q] # "idle" => key'[q] \in Keys
         /\ \A q \in Processes : pc'[q] \in {"put", "scanned"} => val'[q] \in Values
BY DEF TypeOK, Goes

\* A call that returns keeps the types.
LEMMA ReturnTypes ==
  ASSUME TypeOK, NEW p \in Processes, Return(p)
  PROVE  /\ pc' \in [Processes -> {"idle", "put", "get", "scanned"}]
         /\ key' \in [Processes -> Keys \union {NoKey}]
         /\ val' \in [Processes -> Values \union {None}]
         /\ stamp' \in [Processes -> Int]
         /\ at' \in [Processes -> Nat]
         /\ \A q \in Processes : pc'[q] # "idle" => key'[q] \in Keys
         /\ \A q \in Processes : pc'[q] \in {"put", "scanned"} => val'[q] \in Values
BY DEF TypeOK, Return, Goes

\* The types hold, for every value of the constants.
THEOREM TypeCorrect == Spec => []TypeOK
<1>1. Init => TypeOK
  BY SqliteAssumption DEF Init, TypeOK
<1>2. TypeOK /\ [Next]_vars => TypeOK'
  <2> SUFFICES ASSUME TypeOK, [Next]_vars PROVE TypeOK'
    OBVIOUS
  <2>1. CASE UNCHANGED vars
    BY <2>1 DEF vars, callVars, TypeOK
  <2>2. CASE Tick
    BY <2>2 DEF Tick, callVars, TypeOK
  <2>3. ASSUME NEW p \in Processes, NEW k \in Keys, NEW v \in Values,
               PutBegin(p, k, v)
        PROVE  TypeOK'
    <3>1. Unix(clock) \in Int /\ clock \in Nat
      BY UnixCuts DEF TypeOK
    <3>2. QED
      BY <2>3, <3>1, GoesTypes DEF PutBegin, TypeOK
  <2>4. ASSUME NEW p \in Processes, PutUpsert(p)
        PROVE  TypeOK'
    <3>1. [payload |-> val[p], inserted_at |-> stamp[p]] \in Row /\ key[p] \in Keys
      BY <2>4 DEF PutUpsert, TypeOK, Row
    <3>2. PICK r : r = [payload |-> val[p], inserted_at |-> stamp[p]]
      OBVIOUS
    <3>3. rows' = [rows EXCEPT ![key[p]] = r] /\ putAt' = [putAt EXCEPT ![key[p]] = at[p]]
      BY <2>4, <3>2 DEF PutUpsert
    <3>4. rows' \in [Keys -> Row \union {NoRow}]
      BY <3>1, <3>2, <3>3 DEF TypeOK
    <3>5. putAt' \in [Keys -> Nat]
      BY <3>3 DEF TypeOK
    <3>6. QED
      BY <2>4, <3>4, <3>5, ReturnTypes DEF PutUpsert, TypeOK
  <2>5. ASSUME NEW p \in Processes, PutLost(p)
        PROVE  TypeOK'
    BY <2>5, ReturnTypes DEF PutLost, TypeOK
  <2>6. ASSUME NEW p \in Processes, NEW k \in Keys, GetBegin(p, k)
        PROVE  TypeOK'
    <3>1. Unix(clock - Ttl) \in Int /\ clock \in Nat
      BY UnixCuts, SqliteAssumption DEF TypeOK
    <3>2. QED
      BY <2>6, <3>1, GoesTypes DEF GetBegin, TypeOK
  <2>7. ASSUME NEW p \in Processes, GetScan(p)
        PROVE  TypeOK'
    <3>1. key[p] \in Keys /\ stamp[p] \in Int /\ at[p] \in Nat
      BY <2>7 DEF GetScan, TypeOK
    <3>2. rows[key[p]] \in Row
      BY <2>7, <3>1 DEF GetScan, Selected, TypeOK
    <3>3. rows[key[p]].payload \in Values
      BY <3>2 DEF Row
    <3>4. QED
      BY <2>7, <3>1, <3>3, GoesTypes DEF GetScan, TypeOK
  <2>8. ASSUME NEW p \in Processes, GetReturn(p)
        PROVE  TypeOK'
    BY <2>8, ReturnTypes DEF GetReturn, TypeOK
  <2>9. ASSUME NEW p \in Processes, GetMiss(p) \/ Restart(p)
        PROVE  TypeOK'
    BY <2>9, ReturnTypes DEF GetMiss, Restart, TypeOK
  <2>10. QED
    BY <2>1, <2>2, <2>3, <2>4, <2>5, <2>6, <2>7, <2>8, <2>9 DEF Next, Step
<1>3. QED
  BY <1>1, <1>2, PTL DEF Spec

-----------------------------------------------------------------------------
(* The life of an entry *)

\* What a row and a pending Put say of the clock is the second they read.
StampInv ==
  /\ \A k \in Keys : rows[k] # NoRow => rows[k].inserted_at = Unix(putAt[k])
  /\ \A p \in Processes : pc[p] = "put" => stamp[p] = Unix(at[p])

\* Rows and pending Puts have the seconds of their times.
LEMMA StampsAreRead == Spec => []StampInv
<1>1. Init => StampInv
  BY DEF Init, StampInv
<1>2. TypeOK /\ StampInv /\ [Next]_vars => StampInv'
  <2> SUFFICES ASSUME TypeOK, StampInv, [Next]_vars PROVE StampInv'
    OBVIOUS
  <2> USE DEF StampInv
  <2>1. CASE UNCHANGED vars
    BY <2>1 DEF vars, callVars
  <2>2. CASE Tick
    BY <2>2 DEF Tick, callVars
  <2>3. ASSUME NEW p \in Processes, NEW k \in Keys, NEW v \in Values,
               PutBegin(p, k, v)
        PROVE  StampInv'
    BY <2>3 DEF PutBegin, Goes, TypeOK
  <2>4. ASSUME NEW p \in Processes, PutUpsert(p)
        PROVE  StampInv'
    <3>1. stamp[p] = Unix(at[p]) /\ key[p] \in Keys
      BY <2>4 DEF PutUpsert, TypeOK
    <3>2. \A k \in Keys : rows'[k] # NoRow => rows'[k].inserted_at = Unix(putAt'[k])
      BY <2>4, <3>1 DEF PutUpsert, TypeOK
    <3>3. QED
      BY <2>4, <3>2 DEF PutUpsert, Return, Goes, TypeOK
  <2>5. ASSUME NEW p \in Processes, PutLost(p) \/ GetReturn(p) \/ GetMiss(p) \/ Restart(p)
        PROVE  StampInv'
    BY <2>5 DEF PutLost, GetReturn, GetMiss, Restart, Return, Goes, TypeOK
  <2>6. ASSUME NEW p \in Processes, NEW k \in Keys, GetBegin(p, k)
        PROVE  StampInv'
    BY <2>6 DEF GetBegin, Goes, TypeOK
  <2>7. ASSUME NEW p \in Processes, GetScan(p)
        PROVE  StampInv'
    BY <2>7 DEF GetScan, Goes, TypeOK
  <2>8. QED
    BY <2>1, <2>2, <2>3, <2>4, <2>5, <2>6, <2>7 DEF Next, Step
<1>3. QED
  BY <1>1, <1>2, TypeCorrect, PTL DEF Spec

\* No entry is served when its time to live is over, and each is served until
\* less than a second before (sqlite.go:35, 44-48).
THEOREM EntriesLiveTheirTime == Spec => []LivesItsTime
<1>1. TypeOK /\ StampInv => LivesItsTime
  <2> SUFFICES ASSUME TypeOK, StampInv, NEW k \in Keys, rows[k] # NoRow
               PROVE  /\ Selected(k, Unix(clock - Ttl)) => clock - putAt[k] < Ttl
                      /\ clock - putAt[k] <= Ttl - Second => Selected(k, Unix(clock - Ttl))
    BY DEF LivesItsTime
  <2>1. clock - Ttl \in Int /\ putAt[k] \in Int /\ clock \in Int /\ Ttl \in Int /\ Second \in Int
    BY SqliteAssumption DEF TypeOK
  <2>2. Selected(k, Unix(clock - Ttl)) <=> Unix(putAt[k]) > Unix(clock - Ttl)
    BY DEF Selected, StampInv
  <2>3. Unix(putAt[k]) > Unix(clock - Ttl) => putAt[k] > clock - Ttl
    BY <2>1, UnixReflects
  <2>4. clock - Ttl + Second <= putAt[k] => Unix(putAt[k]) > Unix(clock - Ttl)
    BY <2>1, UnixStep
  <2>5. QED
    BY <2>1, <2>2, <2>3, <2>4
<1>2. QED
  BY <1>1, TypeCorrect, StampsAreRead, PTL

-----------------------------------------------------------------------------
(* The refinement *)

\* A step of process p as its clients see it.
LEMMA CallsGo ==
  ASSUME TypeOK, NEW p \in Processes, NEW point, NEW k, NEW v, NEW s, NEW t,
         Goes(p, point, k, v, s, t)
  PROVE  Calls' = [Calls EXCEPT ![p] = CallAt(point, k, v)]
<1>1. ASSUME NEW q \in Processes
      PROVE  /\ q = p => pc'[q] = point /\ key'[q] = k /\ val'[q] = v
             /\ q # p => pc'[q] = pc[q] /\ key'[q] = key[q] /\ val'[q] = val[q]
  BY DEF Goes, TypeOK
<1>2. Calls' = [q \in Processes |-> CallAt(pc'[q], key'[q], val'[q])]
  BY DEF Calls
<1>3. ASSUME NEW q \in Processes
      PROVE  CallAt(pc'[q], key'[q], val'[q]) =
               IF q = p THEN CallAt(point, k, v) ELSE CallAt(pc[q], key[q], val[q])
  <2>1. CASE q = p
    BY <2>1, <1>1
  <2>2. CASE q # p
    <3>1. CallAt(pc'[q], key'[q], val'[q]) = CallAt(pc[q], key[q], val[q])
      BY <2>2, <1>1
    <3>2. QED
      BY <2>2, <3>1
  <2>3. QED
    BY <2>1, <2>2
<1>4. [Calls EXCEPT ![p] = CallAt(point, k, v)] =
        [q \in Processes |-> IF q = p THEN CallAt(point, k, v)
                                      ELSE CallAt(pc[q], key[q], val[q])]
  BY DEF Calls
<1>5. QED
  BY <1>2, <1>3, <1>4

\* The calls of the promise, by the place a process is at.
LEMMA CallPlaces ==
  ASSUME NEW k, NEW v
  PROVE  /\ CallAt("idle", k, v) = Promise!NoCall
         /\ CallAt("get", k, v) = Promise!NoCall
         /\ CallAt("put", k, v) = Promise!PutOf(k, v)
         /\ CallAt("scanned", k, v) = Promise!GetOf(k, v)
BY DEF CallAt, Promise!NoCall, Promise!PutOf, Promise!GetOf

\* A process's call in the abstract store, at each place of its own.
LEMMA CallsAt ==
  ASSUME NEW p \in Processes
  PROVE  /\ pc[p] \in {"idle", "get"} => Calls[p] = Promise!NoCall
         /\ pc[p] = "put" => Calls[p] = Promise!PutOf(key[p], val[p])
         /\ pc[p] = "scanned" => Calls[p] = Promise!GetOf(key[p], val[p])
BY CallPlaces DEF Calls

\* A call that returns is one that returns in the abstract store.
LEMMA CallsReturn ==
  ASSUME TypeOK, NEW p \in Processes, Return(p)
  PROVE  Promise!StoreReturn(p)
<1>1. Calls' = [Calls EXCEPT ![p] = CallAt("idle", NoKey, None)]
  BY CallsGo DEF Return
<1>2. QED
  BY <1>1, CallPlaces DEF Promise!StoreReturn

\* The fields of a call in the abstract store.
LEMMA CallFields ==
  ASSUME NEW k, NEW v
  PROVE  /\ Promise!PutOf(k, v).op = "put" /\ Promise!PutOf(k, v).key = k
         /\ Promise!PutOf(k, v).val = v
         /\ Promise!GetOf(k, v).op = "get" /\ Promise!GetOf(k, v).val = v
BY DEF Promise!PutOf, Promise!GetOf

\* The cells after an upsert, the others as they were.
LEMMA PayloadsUpsert ==
  ASSUME TypeOK, NEW p \in Processes, PutUpsert(p)
  PROVE  Payloads' = [Promise!Dropped({}) EXCEPT ![key[p]] = val[p]]
<1>1. PICK r : r = [payload |-> val[p], inserted_at |-> stamp[p]]
  OBVIOUS
<1>2. rows' = [rows EXCEPT ![key[p]] = r] /\ r.payload = val[p] /\ key[p] \in Keys
  BY <1>1 DEF PutUpsert, TypeOK
<1>3. \A k \in Keys : rows'[k].payload = IF k = key[p] THEN val[p] ELSE rows[k].payload
  BY <1>2 DEF TypeOK
<1>4. Promise!Dropped({}) = Payloads
  BY DEF Promise!Dropped, Payloads
<1>5. QED
  BY <1>2, <1>3, <1>4 DEF Payloads

\* Every step of the store is a step of its promise, or no step of it.
LEMMA StepImplements ==
  ASSUME TypeOK, Next
  PROVE  [Promise!LossyNext]_(Promise!storeVars)
<1> USE DEF Promise!storeVars
<1>1. CASE Tick
  BY <1>1 DEF Tick, callVars, Payloads, Calls
<1>2. ASSUME NEW p \in Processes, NEW k \in Keys, NEW v \in Values,
             PutBegin(p, k, v)
      PROVE  Promise!LossyNext
  <2>1. Calls[p] = Promise!NoCall
    BY <1>2, CallsAt DEF PutBegin
  <2>2. Calls' = [Calls EXCEPT ![p] = Promise!PutOf(k, v)]
    BY <1>2, CallsGo, CallPlaces DEF PutBegin
  <2>3. Payloads' = Payloads /\ answer' = answer
    BY <1>2 DEF PutBegin, Payloads
  <2>4. QED
    BY <2>1, <2>2, <2>3
    DEF Promise!LossyNext, Promise!StoreNext, Promise!StorePutCall
<1>3. ASSUME NEW p \in Processes, PutUpsert(p)
      PROVE  Promise!LossyNext
  <2>1. Calls[p] = Promise!PutOf(key[p], val[p])
    BY <1>3, CallsAt DEF PutUpsert
  <2>2. Calls[p].op = "put" /\ Calls[p].key = key[p] /\ Calls[p].val = val[p]
    BY <2>1, CallFields
  <2>3. Promise!StoreReturn(p) /\ answer' = answer
    BY <1>3, CallsReturn DEF PutUpsert
  <2>4. Promise!StorePut(p, {})
    BY <1>3, <2>2, <2>3, PayloadsUpsert DEF Promise!StorePut
  <2>5. QED
    BY <2>4 DEF Promise!LossyNext, Promise!StoreNext
<1>4. ASSUME NEW p \in Processes, PutLost(p)
      PROVE  Promise!LossyNext
  <2>1. Calls[p].op = "put"
    BY <1>4, CallsAt, CallFields DEF PutLost
  <2>2. Promise!StoreReturn(p) /\ Payloads' = Payloads /\ answer' = answer
    BY <1>4, CallsReturn DEF PutLost, Payloads
  <2>3. QED
    BY <2>1, <2>2 DEF Promise!LossyNext, Promise!StoreLose
<1>5. ASSUME NEW p \in Processes, NEW k \in Keys, GetBegin(p, k)
      PROVE  UNCHANGED Promise!storeVars
  <2>1. Calls[p] = Promise!NoCall
    BY <1>5, CallsAt DEF GetBegin
  <2>2. Calls' = [Calls EXCEPT ![p] = Promise!NoCall]
    BY <1>5, CallsGo, CallPlaces DEF GetBegin
  <2>3. Calls' = Calls
    BY <2>1, <2>2 DEF Calls
  <2>4. QED
    BY <1>5, <2>3 DEF GetBegin, Payloads
<1>6. ASSUME NEW p \in Processes, GetScan(p)
      PROVE  Promise!LossyNext
  <2>1. Calls[p] = Promise!NoCall
    BY <1>6, CallsAt DEF GetScan
  <2>2. key[p] \in Keys /\ rows[key[p]] \in Row
    BY <1>6 DEF GetScan, Selected, TypeOK
  <2>3. Payloads[key[p]] = rows[key[p]].payload /\ rows[key[p]].payload # None
    BY <2>2, SqliteAssumption DEF Payloads, Row
  <2>4. Calls' = [Calls EXCEPT ![p] = Promise!GetOf(key[p], Payloads[key[p]])]
    BY <1>6, <2>3, CallsGo, CallPlaces DEF GetScan
  <2>5. Payloads' = Payloads /\ answer' = answer
    BY <1>6 DEF GetScan, Payloads
  <2>6. Promise!StoreLook(p, key[p])
    BY <2>1, <2>3, <2>4, <2>5 DEF Promise!StoreLook
  <2>7. QED
    BY <2>2, <2>6 DEF Promise!LossyNext, Promise!StoreNext
<1>7. ASSUME NEW p \in Processes, GetReturn(p)
      PROVE  Promise!LossyNext
  <2>1. Calls[p].op = "get" /\ Calls[p].val = val[p]
    BY <1>7, CallsAt, CallFields DEF GetReturn
  <2>2. Promise!StoreReturn(p) /\ Payloads' = Payloads
    BY <1>7, CallsReturn DEF GetReturn, Payloads
  <2>3. Promise!StoreHit(p)
    BY <1>7, <2>1, <2>2 DEF GetReturn, Promise!StoreHit
  <2>4. QED
    BY <2>3 DEF Promise!LossyNext, Promise!StoreNext
<1>8. ASSUME NEW p \in Processes, GetMiss(p)
      PROVE  Promise!LossyNext
  <2>1. Calls[p] = Promise!NoCall
    BY <1>8, CallsAt DEF GetMiss
  <2>2. Calls' = [Calls EXCEPT ![p] = Promise!NoCall]
    BY <1>8, CallsReturn DEF GetMiss, Promise!StoreReturn
  <2>3. Calls' = Calls /\ Payloads' = Payloads
    BY <1>8, <2>1, <2>2 DEF GetMiss, Calls, Payloads
  <2>4. Promise!StoreMissBlind(p)
    BY <1>8, <2>1, <2>3 DEF GetMiss, Promise!StoreMissBlind
  <2>5. QED
    BY <2>4 DEF Promise!LossyNext
<1>9. ASSUME NEW p \in Processes, Restart(p)
      PROVE  Promise!LossyNext
  <2>1. Promise!StoreReturn(p) /\ Payloads' = Payloads
    BY <1>9, CallsReturn DEF Restart, Payloads
  <2>2. Promise!StoreForget(p)
    BY <1>9, <2>1 DEF Restart, Promise!StoreForget
  <2>3. QED
    BY <2>2 DEF Promise!LossyNext
<1>10. QED
  BY <1>1, <1>2, <1>3, <1>4, <1>5, <1>6, <1>7, <1>8, <1>9 DEF Next, Step

\* Up to Puts that are lost, the table keeps the promise of every store,
\* between any number of processes that die and come back (sqlite.go:34-54).
THEOREM Implements == Spec => ImplementsLossyStore
<1>1. Init => Promise!StoreInit
  BY CallPlaces DEF Init, Promise!StoreInit, Payloads, Calls, NoRow
<1>2. TypeOK /\ [Next]_vars => [Promise!LossyNext]_(Promise!storeVars)
  <2>1. CASE UNCHANGED vars
    BY <2>1 DEF vars, callVars, Promise!storeVars, Payloads, Calls
  <2>2. QED
    BY <2>1, StepImplements
<1>3. QED
  BY <1>1, <1>2, TypeCorrect, PTL DEF Spec, ImplementsLossyStore, Promise!LossySpec
=============================================================================
