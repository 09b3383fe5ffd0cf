---------------------- MODULE TokenizerRegistryProofs ----------------------
(***************************************************************************)
(* Proofs about TokenizerRegistry, for any callers, models and encodings   *)
(* and any number of tokenizers.                                           *)
(***************************************************************************)
EXTENDS TokenizerRegistry, TLAPS

\* The next tokenizer made is a tokenizer, and no other has its number.
LEMMA NewIsNew ==
  ASSUME TypeOK, made < MaxMade, NEW b \in Backends
  PROVE  /\ New(b) \in Tokenizers
         /\ New(b) # None
         /\ New(b).id = made + 1
         /\ made + 1 \in 0 .. MaxMade
  BY RegistryAssumption DEF TypeOK, New, Tokenizers, None, Backends

-----------------------------------------------------------------------------
(* Types *)

\* Every step keeps the types.
LEMMA TypeStep == TypeOK /\ [Next]_vars => TypeOK'
<1> SUFFICES ASSUME TypeOK, [Next]_vars PROVE TypeOK'
  OBVIOUS
<1> USE DEF TypeOK
<1>1. ASSUME NEW c \in Callers, NEW m \in Models, Hit(c, m) PROVE TypeOK'
  BY <1>1 DEF Hit
<1>2. ASSUME NEW c \in Callers, NEW m \in Models, Miss(c, m) PROVE TypeOK'
  BY <1>2 DEF Miss
<1>3. ASSUME NEW c \in Callers, ResolveTiktoken(c) PROVE TypeOK'
  BY <1>3, NewIsNew DEF ResolveTiktoken, MakeOne, Backends
<1>4. ASSUME NEW c \in Callers, NoTiktoken(c) PROVE TypeOK'
  BY <1>4 DEF NoTiktoken
<1>5. ASSUME NEW c \in Callers, ResolveHf(c) PROVE TypeOK'
  BY <1>5 DEF ResolveHf
<1>6. ASSUME NEW c \in Callers, ResolveEstimator(c) PROVE TypeOK'
  BY <1>6, NewIsNew DEF ResolveEstimator, MakeOne, Backends
<1>7. ASSUME NEW c \in Callers, Store(c) PROVE TypeOK'
  BY <1>7 DEF Store
<1>8. ASSUME NEW m \in Models, RegisterHf(m) PROVE TypeOK'
  BY <1>8, NewIsNew DEF RegisterHf, MakeOne, Backends
<1>9. CASE ClearHfRegistrations
  BY <1>9 DEF ClearHfRegistrations
<1>10. CASE UNCHANGED vars
  BY <1>10 DEF vars
<1> QED
  BY <1>1, <1>2, <1>3, <1>4, <1>5, <1>6, <1>7, <1>8, <1>9, <1>10 DEF Next, GetTokenizer

\* Types are correct.
THEOREM TypeCorrect == Spec => []TypeOK
<1>1. Init => TypeOK
  BY RegistryAssumption DEF Init, TypeOK
<1> QED
  BY <1>1, TypeStep, PTL DEF Spec

-----------------------------------------------------------------------------
(* What the cache and a resolver promise *)

\* Only a caller that resolves a model writes its place in the cache
\* (registry.go:12-24).
THEOREM SettlesForGood == Spec => SettledForGood
<1>1. TypeOK /\ [Next]_vars =>
        [\A m \in Models : Settled(m) /\ cache[m] # None => cache'[m] = cache[m]]_vars
  <2> SUFFICES ASSUME TypeOK, Next, NEW m \in Models, Settled(m)
               PROVE  cache'[m] = cache[m]
    OBVIOUS
  <2>1. ASSUME NEW c \in Callers, Store(c) PROVE cache'[m] = cache[m]
    <3>1. model[c] # m
      BY <2>1 DEF Store, Settled
    <3> QED
      BY <2>1, <3>1 DEF Store, TypeOK
  <2>2. ASSUME NEW c \in Callers, GetTokenizer(c) PROVE cache'[m] = cache[m]
    BY <2>1, <2>2 DEF GetTokenizer, Hit, Miss, ResolveTiktoken, NoTiktoken, ResolveHf, ResolveEstimator
  <2>3. ASSUME NEW n \in Models, RegisterHf(n) PROVE cache'[m] = cache[m]
    BY <2>3 DEF RegisterHf
  <2>4. CASE ClearHfRegistrations
    BY <2>4 DEF ClearHfRegistrations
  <2> QED
    BY <2>2, <2>3, <2>4 DEF Next
<1> QED
  BY <1>1, TypeCorrect, PTL DEF Spec, SettledForGood

\* What a caller saw registered has been made, so that a later registration is
\* never mistaken for it.
SeenIsOld == \A c \in Callers : seen[c].id <= made

RegisteredIsOld == \A m \in Models : hfRegistry[m].id <= made

\* A caller that did not hit the cache has the registered tokenizer already when
\* it is about to store it.
ResolverUsesRegistration ==
  \A c \in Callers :
    /\ pc[c] \in {"store", "stored"} /\ model[c] \notin Known
    /\ seen[c] # None /\ seen[c] = hfRegistry[model[c]]
    => tok[c] = seen[c]

IInv == TypeOK /\ SeenIsOld /\ RegisteredIsOld /\ ResolverUsesRegistration

\* Numbers only grow.
LEMMA OldStep == TypeOK /\ SeenIsOld /\ RegisteredIsOld /\ [Next]_vars => SeenIsOld' /\ RegisteredIsOld'
<1> SUFFICES ASSUME TypeOK, SeenIsOld, RegisteredIsOld, [Next]_vars
             PROVE  SeenIsOld' /\ RegisteredIsOld'
  OBVIOUS
<1>0. /\ made \in Nat
      /\ \A c \in Callers : seen[c] \in Tokenizers \union {None}
      /\ \A m \in Models : hfRegistry[m] \in Tokenizers \union {None}
      /\ \A t \in Tokenizers \union {None} : t.id \in Nat
  BY RegistryAssumption DEF TypeOK, Tokenizers, None
<1>1. ASSUME NEW c \in Callers, NEW m \in Models, Hit(c, m) \/ Miss(c, m)
      PROVE  SeenIsOld' /\ RegisteredIsOld'
  BY <1>1 DEF Hit, Miss, SeenIsOld, RegisteredIsOld, TypeOK
<1>2. ASSUME NEW c \in Callers, ResolveTiktoken(c) \/ ResolveEstimator(c)
      PROVE  SeenIsOld' /\ RegisteredIsOld'
  <2>1. made' = made + 1 /\ seen' = seen /\ hfRegistry' = hfRegistry
    BY <1>2 DEF ResolveTiktoken, ResolveEstimator, MakeOne
  <2> QED
    BY <1>0, <2>1 DEF SeenIsOld, RegisteredIsOld
<1>3. ASSUME NEW c \in Callers, NoTiktoken(c) \/ ResolveHf(c) \/ Store(c)
      PROVE  SeenIsOld' /\ RegisteredIsOld'
  BY <1>3 DEF NoTiktoken, ResolveHf, Store, SeenIsOld, RegisteredIsOld
<1>4. ASSUME NEW m \in Models, RegisterHf(m) PROVE SeenIsOld' /\ RegisteredIsOld'
  <2>1. made' = made + 1 /\ seen' = seen
        /\ \A n \in Models : hfRegistry'[n] = hfRegistry[n] \/ hfRegistry'[n].id = made + 1
    BY <1>4, NewIsNew DEF RegisterHf, MakeOne, TypeOK, Backends
  <2> QED
    BY <1>0, <2>1 DEF SeenIsOld, RegisteredIsOld
<1>5. CASE ClearHfRegistrations
  <2>1. made' = made /\ seen' = seen /\ \A n \in Models : hfRegistry'[n].id = 0
    BY <1>5 DEF ClearHfRegistrations, None
  <2> QED
    BY <1>0, <2>1 DEF SeenIsOld, RegisteredIsOld
<1>6. CASE UNCHANGED vars
  BY <1>6 DEF vars, SeenIsOld, RegisteredIsOld
<1> QED
  BY <1>1, <1>2, <1>3, <1>4, <1>5, <1>6 DEF Next, GetTokenizer

\* A resolver takes what is registered, and no later change puts it back.
LEMMA ResolverStep == IInv /\ [Next]_vars => ResolverUsesRegistration'
<1> SUFFICES ASSUME IInv, [Next]_vars,
                    NEW d \in Callers, pc'[d] \in {"store", "stored"}, model'[d] \notin Known,
                    seen'[d] # None, seen'[d] = hfRegistry'[model'[d]]
             PROVE  tok'[d] = seen'[d]
  BY DEF ResolverUsesRegistration, None
<1>0. TypeOK /\ (pc[d] \in {"store", "stored"} /\ model[d] \notin Known /\ seen[d] # None
                 /\ seen[d] = hfRegistry[model[d]] => tok[d] = seen[d])
  BY DEF IInv, ResolverUsesRegistration
<1>1. ASSUME NEW c \in Callers, NEW m \in Models, Hit(c, m) \/ Miss(c, m) PROVE tok'[d] = seen'[d]
  <2>1. d # c
    BY <1>0, <1>1 DEF Hit, Miss, TypeOK
  <2> QED
    BY <1>0, <1>1, <2>1 DEF Hit, Miss, TypeOK
<1>2. ASSUME NEW c \in Callers, ResolveTiktoken(c) PROVE tok'[d] = seen'[d]
  <2>1. d # c
    BY <1>2 DEF ResolveTiktoken
  <2> QED
    BY <1>0, <1>2, <2>1 DEF ResolveTiktoken, TypeOK
<1>3. ASSUME NEW c \in Callers, NoTiktoken(c) PROVE tok'[d] = seen'[d]
  BY <1>0, <1>3 DEF NoTiktoken, TypeOK
<1>4. ASSUME NEW c \in Callers, ResolveHf(c) PROVE tok'[d] = seen'[d]
  BY <1>0, <1>4 DEF ResolveHf, TypeOK
<1>5. ASSUME NEW c \in Callers, ResolveEstimator(c) PROVE tok'[d] = seen'[d]
  <2>1. d # c
    BY <1>5 DEF ResolveEstimator
  <2> QED
    BY <1>0, <1>5, <2>1 DEF ResolveEstimator, TypeOK
<1>6. ASSUME NEW c \in Callers, Store(c) PROVE tok'[d] = seen'[d]
  BY <1>0, <1>6 DEF Store, TypeOK
<1>7. ASSUME NEW m \in Models, RegisterHf(m) PROVE tok'[d] = seen'[d]
  <2>1. seen[d].id <= made /\ made \in Nat
    BY RegistryAssumption DEF IInv, SeenIsOld, TypeOK
  <2>2. New("huggingface").id = made + 1 /\ seen' = seen /\ model' = model /\ pc' = pc /\ tok' = tok
    BY <1>0, <1>7, NewIsNew DEF RegisterHf, MakeOne, Backends
  <2>3. seen[d] # New("huggingface")
    BY <2>1, <2>2
  <2>4. model[d] # m
    BY <1>0, <1>7, <2>2, <2>3 DEF RegisterHf, TypeOK
  <2> QED
    BY <1>0, <1>7, <2>2, <2>4 DEF RegisterHf, TypeOK
<1>8. CASE ClearHfRegistrations
  BY <1>0, <1>8 DEF ClearHfRegistrations, TypeOK
<1>9. CASE UNCHANGED vars
  BY <1>0, <1>9 DEF vars
<1> QED
  BY <1>1, <1>2, <1>3, <1>4, <1>5, <1>6, <1>7, <1>8, <1>9 DEF Next, GetTokenizer

\* A registration that lasts through a call which misses the cache is what the
\* call returns (registry.go:26-44).
THEOREM MissesUseRegistration == Spec => []MissUsesRegistration
<1>1. Init => IInv
  <2> SUFFICES ASSUME Init PROVE IInv
    OBVIOUS
  <2>1. TypeOK
    BY RegistryAssumption DEF Init, TypeOK
  <2>2. SeenIsOld /\ RegisteredIsOld
    BY DEF Init, SeenIsOld, RegisteredIsOld, None
  <2>3. ResolverUsesRegistration
    BY DEF Init, ResolverUsesRegistration
  <2> QED
    BY <2>1, <2>2, <2>3 DEF IInv
<1>2. IInv /\ [Next]_vars => IInv'
  BY TypeStep, OldStep, ResolverStep DEF IInv
<1>3. IInv => MissUsesRegistration
  BY DEF IInv, ResolverUsesRegistration, MissUsesRegistration
<1> QED
  BY <1>1, <1>2, <1>3, PTL DEF Spec
=============================================================================
