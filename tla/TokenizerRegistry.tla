-------------------------- MODULE TokenizerRegistry --------------------------
(***************************************************************************)
(* GetTokenizer and its cache (core/tokenizer/registry.go): goroutines that *)
(* look models up while others register and clear HuggingFace tokenizers.  *)
(* A step is what happens under one lock, with the local work around it.   *)
(*                                                                         *)
(* A tokenizer is a pointer: its backend and a number of its own.  The two *)
(* implementations of tiktoken (C and Go) are one: both keep the encodings *)
(* they have loaded, and loading one may fail, for it is read from a file  *)
(* or from the network.  A registration is of a tokenizer made for it.     *)
(***************************************************************************)
EXTENDS Integers

CONSTANTS
  Callers,   \* goroutines that call GetTokenizer
  Models,    \* names of models
  Known,     \* those with a tiktoken encoding
  Encoding,  \* known model -> its encoding
  MaxMade    \* bound on the number of tokenizers made

ASSUME RegistryAssumption ==
  /\ Known \subseteq Models
  /\ DOMAIN Encoding = Known
  /\ MaxMade \in Nat

Backends == {"tiktoken", "huggingface", "estimator"}
Tokenizers == [backend : Backends, id : 1 .. MaxMade]
None == [backend |-> "none", id |-> 0]

VARIABLES
  cache,       \* model -> tokenizer
  hfRegistry,  \* model -> registered tokenizer
  loaded,      \* the encodings that have been loaded
  made,        \* the number of tokenizers made
  pc,          \* caller -> "idle", "resolve", "registry", "store", "hit" or "stored"
  model,       \* caller -> the model it asks for
  tok,         \* caller -> the tokenizer it has
  seen         \* caller -> what was registered for the model when it asked

vars == <<cache, hfRegistry, loaded, made, pc, model, tok, seen>>

TypeOK ==
  /\ cache \in [Models -> Tokenizers \union {None}]
  /\ hfRegistry \in [Models -> Tokenizers \union {None}]
  /\ loaded \subseteq {Encoding[m] : m \in Known}
  /\ made \in 0 .. MaxMade
  /\ pc \in [Callers -> {"idle", "resolve", "registry", "store", "hit", "stored"}]
  /\ model \in [Callers -> Models]
  /\ tok \in [Callers -> Tokenizers \union {None}]
  /\ seen \in [Callers -> Tokenizers \union {None}]
  /\ \A c \in Callers : pc[c] \in {"store", "hit", "stored"} => tok[c] # None

Init ==
  /\ cache = [m \in Models |-> None]
  /\ hfRegistry = [m \in Models |-> None]
  /\ loaded = {}
  /\ made = 0
  /\ pc = [c \in Callers |-> "idle"]
  /\ model \in [Callers -> Models]
  /\ tok = [c \in Callers |-> None]
  /\ seen = [c \in Callers |-> None]

\* The next tokenizer made.
New(backend) == [backend |-> backend, id |-> made + 1]
MakeOne == made < MaxMade /\ made' = made + 1

-----------------------------------------------------------------------------
(* GetTokenizer *)

Free(c) == pc[c] \in {"idle", "hit", "stored"}

\* The model is in the cache.
Hit(c, m) ==
  /\ Free(c)
  /\ cache[m] # None
  /\ pc' = [pc EXCEPT ![c] = "hit"]
  /\ model' = [model EXCEPT ![c] = m]
  /\ tok' = [tok EXCEPT ![c] = cache[m]]
  /\ seen' = [seen EXCEPT ![c] = hfRegistry[m]]
  /\ UNCHANGED <<cache, hfRegistry, loaded, made>>

\* It is not, and the read lock is given back before the model is resolved.
Miss(c, m) ==
  /\ Free(c)
  /\ cache[m] = None
  /\ pc' = [pc EXCEPT ![c] = "resolve"]
  /\ model' = [model EXCEPT ![c] = m]
  /\ seen' = [seen EXCEPT ![c] = hfRegistry[m]]
  /\ UNCHANGED <<cache, hfRegistry, loaded, made, tok>>

\* Tiktoken has the encoding, or loads it now.
ResolveTiktoken(c) ==
  /\ pc[c] = "resolve"
  /\ model[c] \in Known
  /\ MakeOne
  /\ loaded' = loaded \union {Encoding[model[c]]}
  /\ tok' = [tok EXCEPT ![c] = New("tiktoken")]
  /\ pc' = [pc EXCEPT ![c] = "store"]
  /\ UNCHANGED <<cache, hfRegistry, model, seen>>

\* There is no encoding, or it cannot be loaded.
NoTiktoken(c) ==
  /\ pc[c] = "resolve"
  /\ model[c] \in Known => Encoding[model[c]] \notin loaded
  /\ pc' = [pc EXCEPT ![c] = "registry"]
  /\ UNCHANGED <<cache, hfRegistry, loaded, made, model, tok, seen>>

\* A tokenizer is registered.
ResolveHf(c) ==
  /\ pc[c] = "registry"
  /\ hfRegistry[model[c]] # None
  /\ tok' = [tok EXCEPT ![c] = hfRegistry[model[c]]]
  /\ pc' = [pc EXCEPT ![c] = "store"]
  /\ UNCHANGED <<cache, hfRegistry, loaded, made, model, seen>>

\* Mutant of ResolveEstimator: it does not look for a registration.
ResolveEstimatorAnyway(c) ==
  /\ pc[c] = "registry"
  /\ MakeOne
  /\ tok' = [tok EXCEPT ![c] = New("estimator")]
  /\ pc' = [pc EXCEPT ![c] = "store"]
  /\ UNCHANGED <<cache, hfRegistry, loaded, model, seen>>

\* None is, and the tokens will be estimated.
ResolveEstimator(c) ==
  /\ pc[c] = "registry"
  /\ hfRegistry[model[c]] = None
  /\ MakeOne
  /\ tok' = [tok EXCEPT ![c] = New("estimator")]
  /\ pc' = [pc EXCEPT ![c] = "store"]
  /\ UNCHANGED <<cache, hfRegistry, loaded, model, seen>>

\* The write lock: the cache is not looked at again.
Store(c) ==
  /\ pc[c] = "store"
  /\ cache' = [cache EXCEPT ![model[c]] = tok[c]]
  /\ pc' = [pc EXCEPT ![c] = "stored"]
  /\ UNCHANGED <<hfRegistry, loaded, made, model, tok, seen>>

GetTokenizer(c) ==
  \/ \E m \in Models : Hit(c, m) \/ Miss(c, m)
  \/ ResolveTiktoken(c) \/ NoTiktoken(c) \/ ResolveHf(c) \/ ResolveEstimator(c)
  \/ Store(c)

-----------------------------------------------------------------------------
(* Registrations *)

\* Mutant of RegisterHf: the model is taken out of the cache, too.
RegisterHfInvalidates(m) ==
  /\ MakeOne
  /\ hfRegistry' = [hfRegistry EXCEPT ![m] = New("huggingface")]
  /\ cache' = [cache EXCEPT ![m] = None]
  /\ UNCHANGED <<loaded, pc, model, tok, seen>>

RegisterHf(m) ==
  /\ MakeOne
  /\ hfRegistry' = [hfRegistry EXCEPT ![m] = New("huggingface")]
  /\ UNCHANGED <<cache, loaded, pc, model, tok, seen>>

ClearHfRegistrations ==
  /\ hfRegistry' = [m \in Models |-> None]
  /\ UNCHANGED <<cache, loaded, made, pc, model, tok, seen>>

Next ==
  \/ \E c \in Callers : GetTokenizer(c)
  \/ \E m \in Models : RegisterHf(m)
  \/ ClearHfRegistrations

Spec == Init /\ [][Next]_vars

-----------------------------------------------------------------------------
(* Properties *)

\* No caller is between its look into the cache and its write.
Settled(m) == \A c \in Callers : pc[c] \in {"resolve", "registry", "store"} => model[c] # m

\* Once a model is cached and no caller is resolving it any more, everybody gets
\* the same tokenizer for good, whatever is registered or cleared
\* (registry.go:12-24).
SettledForGood ==
  [][\A m \in Models : Settled(m) /\ cache[m] # None => cache'[m] = cache[m]]_vars

\* A call that misses the cache returns the tokenizer that was registered all
\* the while, unless tiktoken knows the model (registry.go:26-44).
MissUsesRegistration ==
  \A c \in Callers :
    /\ pc[c] = "stored" /\ model[c] \notin Known
    /\ seen[c] # None /\ seen[c] = hfRegistry[model[c]]
    => tok[c] = seen[c]
=============================================================================
