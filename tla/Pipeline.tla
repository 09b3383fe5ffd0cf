------------------------------ MODULE Pipeline ------------------------------
(***************************************************************************)
(* The compression pipeline of core/transforms/pipeline/orchestrator.go.   *)
(* A Run forks: one goroutine applies the reformats one after the other,   *)
(* one goroutine per offload estimates its bloat on the input.  After the  *)
(* join the Run applies the offloads that the estimates, or a disappointing*)
(* reformat phase, demand.  An offload stashes its input in the CCR store  *)
(* and appends a marker with the key to what it keeps; several Runs share  *)
(* the store.                                                              *)
(*                                                                         *)
(* A content is a record with its size in bytes and its mark, the key in   *)
(* the CCR marker at its end (NoKey without one).  A key is the kind of    *)
(* hash (blake3 or md5, it depends on the offload) and the content hashed: *)
(* hashes do not collide.  What a transform makes of a content is any      *)
(* content its checks let through.                                         *)
(***************************************************************************)
EXTENDS Integers, Sequences, FiniteSets

CONSTANTS
  Runs,          \* the calls of Run
  Contents,      \* the contents
  Inputs,        \* the contents Run is called with
  NoContent, NoKey,
  NumReformats,  \* the reformats and the offloads registered for the
  NumOffloads,   \* content type, by their place in the registration order
  HashOf,        \* offload -> its kind of hash
  Scores,        \* the bloat scores, in percent
  TargetPct,     \* reformat_target_ratio, in percent
  FallbackPct,   \* offload_fallback_ratio, in percent
  BloatThreshold,\* bloat_threshold, in percent
  Capacity       \* of the store

Offloads == 1 .. NumOffloads
Hashes   == {"blake3", "md5"}
Keys     == Hashes \X Contents

\* The content that was stashed under a key.
Payload(k) == k[2]

ASSUME PipelineAssumption ==
  /\ Inputs \subseteq Contents
  /\ NoContent \notin Contents
  /\ NoKey \notin Keys
  /\ NumReformats \in Nat
  /\ NumOffloads \in Nat
  /\ HashOf \in [Offloads -> Hashes]
  /\ Scores \subseteq Nat
  /\ 0 \in Scores
  /\ TargetPct \in Nat
  /\ FallbackPct \in Nat
  /\ BloatThreshold \in Nat
  /\ Capacity \in Nat \ {0}

\* A content is never an index out of its own past: its mark is a key or none.
ASSUME ContentAssumption ==
  \A c \in Contents : c.size \in Nat /\ c.mark \in Keys \union {NoKey}

VARIABLES
  pc,        \* where each Run is
  input,     \* its argument
  current,   \* the content so far; in the fork, the reformat goroutine's
  base,      \* the content after the reformats
  rnext,     \* the reformat goroutine's next reformat, NumReformats + 1 when
             \* there is no such goroutine or it has returned
  running,   \* the estimators at work
  score,     \* the bloat scores
  onext,     \* the next offload
  saved,     \* totalSaved
  steps,     \* StepsApplied: reformat i is step i, offload i step
             \* NumReformats + i
  keys,      \* CacheKeys
  store,     \* the keys in the CCR store, the next to evict first
  evicted,   \* history: the keys the store has evicted
  skipped    \* history: the offloads that a Run has passed over

runVars == <<pc, input, current, base, rnext, running, score, onext, saved,
             steps, keys, skipped>>
vars == <<runVars, store, evicted>>

SeqRange(s) == {s[i] : i \in DOMAIN s}
Stored == SeqRange(store)

TypeOK ==
  /\ pc \in [Runs -> {"idle", "fork", "offload", "stashed", "done"}]
  /\ input \in [Runs -> Contents \union {NoContent}]
  /\ current \in [Runs -> Contents \union {NoContent}]
  /\ base \in [Runs -> Contents \union {NoContent}]
  /\ rnext \in [Runs -> 1 .. (NumReformats + 1)]
  /\ running \in [Runs -> SUBSET Offloads]
  /\ score \in [Runs -> [Offloads -> Scores]]
  /\ onext \in [Runs -> 1 .. (NumOffloads + 1)]
  /\ saved \in [Runs -> Int]
  /\ steps \in [Runs -> Seq(1 .. (NumReformats + NumOffloads))]
  /\ keys \in [Runs -> Seq(Keys)]
  /\ store \in Seq(Keys)
  /\ evicted \subseteq Keys
  /\ skipped \in [Runs -> SUBSET Offloads]
  /\ \A r \in Runs : pc[r] # "idle" => input[r] \in Contents /\ current[r] \in Contents
  /\ \A r \in Runs : pc[r] \in {"offload", "stashed"} => base[r] \in Contents
  /\ \A r \in Runs : pc[r] = "stashed" => onext[r] \in Offloads

Init ==
  /\ pc = [r \in Runs |-> "idle"]
  /\ input = [r \in Runs |-> NoContent]
  /\ current = [r \in Runs |-> NoContent]
  /\ base = [r \in Runs |-> NoContent]
  /\ rnext = [r \in Runs |-> NumReformats + 1]
  /\ running = [r \in Runs |-> {}]
  /\ score = [r \in Runs |-> [o \in Offloads |-> 0]]
  /\ onext = [r \in Runs |-> 1]
  /\ saved = [r \in Runs |-> 0]
  /\ steps = [r \in Runs |-> << >>]
  /\ keys = [r \in Runs |-> << >>]
  /\ store = << >>
  /\ evicted = {}
  /\ skipped = [r \in Runs |-> {}]

-----------------------------------------------------------------------------
(* Run until the fork *)

\* Empty content is returned as it is.
ReturnEmpty(r, c) ==
  /\ pc[r] = "idle"
  /\ c.size = 0
  /\ pc' = [pc EXCEPT ![r] = "done"]
  /\ input' = [input EXCEPT ![r] = c]
  /\ current' = [current EXCEPT ![r] = c]
  /\ UNCHANGED <<base, rnext, running, score, onext, saved, steps, keys,
                 skipped, store, evicted>>

Fork(r, c) ==
  /\ pc[r] = "idle"
  /\ c.size # 0
  /\ pc' = [pc EXCEPT ![r] = "fork"]
  /\ input' = [input EXCEPT ![r] = c]
  /\ current' = [current EXCEPT ![r] = c]
  /\ rnext' = [rnext EXCEPT ![r] = 1]
  /\ running' = [running EXCEPT ![r] = Offloads]
  /\ UNCHANGED <<base, score, onext, saved, steps, keys, skipped, store,
                 evicted>>

-----------------------------------------------------------------------------
(* The reformat goroutine (runReformats) *)

\* At the head of the loop, with a reformat left.
Reformatting(r) == rnext[r] <= NumReformats

\* The content has shrunk enough.
TargetReached(r) == current[r].size * 100 <= TargetPct * input[r].size

ReformatBreak(r) ==
  /\ Reformatting(r)
  /\ TargetReached(r)
  /\ rnext' = [rnext EXCEPT ![r] = NumReformats + 1]
  /\ UNCHANGED <<pc, input, current, base, running, score, onext, saved, steps,
                 keys, skipped, store, evicted>>

\* An error, or an output that is not shorter.
ReformatSkip(r) ==
  /\ Reformatting(r)
  /\ ~ TargetReached(r)
  /\ rnext' = [rnext EXCEPT ![r] = @ + 1]
  /\ UNCHANGED <<pc, input, current, base, running, score, onext, saved, steps,
                 keys, skipped, store, evicted>>

\* BytesSaved of an output: never negative.
BytesSaved(before, after) ==
  IF before.size > after.size THEN before.size - after.size ELSE 0

\* Mutant of ReformatAccept: the savings are counted from the input.
ReformatAcceptFromInput(r, c) ==
  /\ Reformatting(r)
  /\ ~ TargetReached(r)
  /\ BytesSaved(current[r], c) # 0
  /\ saved' = [saved EXCEPT ![r] = @ + BytesSaved(input[r], c)]
  /\ current' = [current EXCEPT ![r] = c]
  /\ steps' = [steps EXCEPT ![r] = Append(@, rnext[r])]
  /\ rnext' = [rnext EXCEPT ![r] = @ + 1]
  /\ UNCHANGED <<pc, input, base, running, score, onext, keys, skipped, store,
                 evicted>>

ReformatAccept(r, c) ==
  /\ Reformatting(r)
  /\ ~ TargetReached(r)
  /\ BytesSaved(current[r], c) # 0
  /\ saved' = [saved EXCEPT ![r] = @ + BytesSaved(current[r], c)]
  /\ current' = [current EXCEPT ![r] = c]
  /\ steps' = [steps EXCEPT ![r] = Append(@, rnext[r])]
  /\ rnext' = [rnext EXCEPT ![r] = @ + 1]
  /\ UNCHANGED <<pc, input, base, running, score, onext, keys, skipped, store,
                 evicted>>

-----------------------------------------------------------------------------
(* The estimators (estimateBloats), one goroutine each, and the join *)

Estimate(r, o, s) ==
  /\ o \in running[r]
  /\ score' = [score EXCEPT ![r] = [@ EXCEPT ![o] = s]]
  /\ running' = [running EXCEPT ![r] = @ \ {o}]
  /\ UNCHANGED <<pc, input, current, base, rnext, onext, saved, steps, keys,
                 skipped, store, evicted>>

\* Both phases are over.
Joinable(r) == rnext[r] = NumReformats + 1 /\ running[r] = {}

\* Mutant of Join: only the reformats are waited for.
JoinEarly(r) ==
  /\ pc[r] = "fork"
  /\ rnext[r] = NumReformats + 1
  /\ pc' = [pc EXCEPT ![r] = "offload"]
  /\ base' = [base EXCEPT ![r] = current[r]]
  /\ UNCHANGED <<input, current, rnext, running, score, onext, saved, steps,
                 keys, skipped, store, evicted>>

Join(r) ==
  /\ pc[r] = "fork"
  /\ Joinable(r)
  /\ pc' = [pc EXCEPT ![r] = "offload"]
  /\ base' = [base EXCEPT ![r] = current[r]]
  /\ UNCHANGED <<input, current, rnext, running, score, onext, saved, steps,
                 keys, skipped, store, evicted>>

-----------------------------------------------------------------------------
(* The offload loop *)

Offloading(r) == pc[r] = "offload" /\ onext[r] <= NumOffloads

AboveThreshold(r, o) == score[r][o] >= BloatThreshold

\* Mutant of Underwhelmed: any bloat will do.
UnderwhelmedAlways(r, o) == score[r][o] > 0

\* The ratio is that of the reformat phase: offloads do not change it.
Underwhelmed(r, o) ==
  base[r].size * 100 > FallbackPct * input[r].size /\ score[r][o] > 0

Demanded(r, o) == AboveThreshold(r, o) \/ Underwhelmed(r, o)

\* The main goroutine goes on to the next offload.
OffloadNext(r) ==
  /\ onext' = [onext EXCEPT ![r] = @ + 1]
  /\ UNCHANGED <<input, current, base, rnext, running, score, saved, steps,
                 keys, store, evicted>>

\* Nothing demands the offload.
OffloadSkip(r) ==
  /\ Offloading(r)
  /\ ~ Demanded(r, onext[r])
  /\ OffloadNext(r)
  /\ skipped' = [skipped EXCEPT ![r] = @ \union {onext[r]}]
  /\ UNCHANGED pc

\* Apply returns an error, before it stashes anything.
OffloadFail(r) ==
  /\ Offloading(r)
  /\ Demanded(r, onext[r])
  /\ OffloadNext(r)
  /\ UNCHANGED <<pc, skipped>>

\* Mutant of KeyOf: the argument of Run is hashed, not that of Apply.
KeyOfInput(r) == <<HashOf[onext[r]], input[r]>>

\* The key under which the next offload stashes its input.
KeyOf(r) == <<HashOf[onext[r]], current[r]>>

\* Mutant of StorePut: a full store refuses.
StorePutRefused(k) ==
  /\ store' = IF k \in Stored \/ Len(store) >= Capacity THEN store
              ELSE Append(store, k)
  /\ UNCHANGED evicted

\* Put of the in-memory store while no entry expires: a stored key keeps its
\* place, a new one goes to the end and the first makes room.
StorePut(k) ==
  IF k \in Stored
  THEN UNCHANGED <<store, evicted>>
  ELSE IF Len(store) >= Capacity
       THEN /\ store' = Append(Tail(store), k)
            /\ evicted' = evicted \union {Head(store)}
       ELSE /\ store' = Append(store, k)
            /\ UNCHANGED evicted

\* Mutant of OffloadStash: the input is not stashed.
OffloadStashNothing(r) ==
  /\ Offloading(r)
  /\ Demanded(r, onext[r])
  /\ pc' = [pc EXCEPT ![r] = "stashed"]
  /\ UNCHANGED <<input, current, base, rnext, running, score, onext, saved,
                 steps, keys, skipped, store, evicted>>

\* Apply stashes its input.
OffloadStash(r) ==
  /\ Offloading(r)
  /\ Demanded(r, onext[r])
  /\ StorePut(KeyOf(r))
  /\ pc' = [pc EXCEPT ![r] = "stashed"]
  /\ UNCHANGED <<input, current, base, rnext, running, score, onext, saved,
                 steps, keys, skipped>>

\* Mutant of OffloadAccept: the key is not reported.
OffloadAcceptKeyless(r, c) ==
  /\ pc[r] = "stashed"
  /\ c.mark = KeyOf(r)
  /\ BytesSaved(current[r], c) # 0
  /\ saved' = [saved EXCEPT ![r] = @ + BytesSaved(current[r], c)]
  /\ current' = [current EXCEPT ![r] = c]
  /\ steps' = [steps EXCEPT ![r] = Append(@, NumReformats + onext[r])]
  /\ onext' = [onext EXCEPT ![r] = @ + 1]
  /\ pc' = [pc EXCEPT ![r] = "offload"]
  /\ UNCHANGED <<input, base, rnext, running, score, keys, skipped, store,
                 evicted>>

\* Apply returns an output that is shorter, marker included.
OffloadAccept(r, c) ==
  /\ pc[r] = "stashed"
  /\ c.mark = KeyOf(r)
  /\ BytesSaved(current[r], c) # 0
  /\ saved' = [saved EXCEPT ![r] = @ + BytesSaved(current[r], c)]
  /\ current' = [current EXCEPT ![r] = c]
  /\ steps' = [steps EXCEPT ![r] = Append(@, NumReformats + onext[r])]
  /\ keys' = [keys EXCEPT ![r] = Append(@, KeyOf(r))]
  /\ onext' = [onext EXCEPT ![r] = @ + 1]
  /\ pc' = [pc EXCEPT ![r] = "offload"]
  /\ UNCHANGED <<input, base, rnext, running, score, skipped, store, evicted>>

\* Mutant of OffloadDiscard: the same offload is tried again.
OffloadDiscardRetries(r) ==
  /\ pc[r] = "stashed"
  /\ pc' = [pc EXCEPT ![r] = "offload"]
  /\ UNCHANGED <<input, current, base, rnext, running, score, onext, saved,
                 steps, keys, skipped, store, evicted>>

\* The marker has eaten the savings: the output is dropped, the stashed
\* content stays in the store.
OffloadDiscard(r) ==
  /\ pc[r] = "stashed"
  /\ OffloadNext(r)
  /\ pc' = [pc EXCEPT ![r] = "offload"]
  /\ UNCHANGED skipped

Return(r) ==
  /\ pc[r] = "offload"
  /\ onext[r] > NumOffloads
  /\ pc' = [pc EXCEPT ![r] = "done"]
  /\ UNCHANGED <<input, current, base, rnext, running, score, onext, saved,
                 steps, keys, skipped, store, evicted>>

-----------------------------------------------------------------------------
ReformatStep(r) ==
  \/ ReformatBreak(r)
  \/ ReformatSkip(r)
  \/ \E c \in Contents : ReformatAccept(r, c)

OffloadStep(r) ==
  \/ OffloadSkip(r)
  \/ OffloadFail(r)
  \/ OffloadStash(r)
  \/ \E c \in Contents : OffloadAccept(r, c)
  \/ OffloadDiscard(r)
  \/ Return(r)

Step(r) ==
  \/ \E c \in Inputs : ReturnEmpty(r, c) \/ Fork(r, c)
  \/ ReformatStep(r)
  \/ \E o \in Offloads, s \in Scores : Estimate(r, o, s)
  \/ Join(r)
  \/ OffloadStep(r)

Next == \E r \in Runs : Step(r)

Spec == Init /\ [][Next]_vars

\* Each goroutine of a Run that has begun goes on: the transforms are loops
\* over their input, and no goroutine waits for anything but the join.
Fairness ==
  \A r \in Runs :
    /\ WF_vars(ReformatStep(r))
    /\ \A o \in Offloads : WF_vars(\E s \in Scores : Estimate(r, o, s))
    /\ WF_vars(Join(r))
    /\ WF_vars(OffloadStep(r))

FairSpec == Spec /\ Fairness

-----------------------------------------------------------------------------
(* Properties *)

\* The bytes a Run reports as saved are the bytes its output is shorter,
\* though they are summed over outputs that were clamped, skipped and made by
\* two goroutines (orchestrator.go:58, 85, 124; traits.go:75, 94).
Accounting ==
  \A r \in Runs :
    pc[r] # "idle" => saved[r] = input[r].size - current[r].size

\* StepsApplied names each transform once, in registration order, and its last
\* names, one for each of CacheKeys, are the offloads (orchestrator.go:57,
\* 87-88).
StepsInOrder ==
  \A r \in Runs :
    /\ \A i, j \in DOMAIN steps[r] : i < j => steps[r][i] < steps[r][j]
    /\ Len(keys[r]) <= Len(steps[r])
    /\ \A i \in DOMAIN steps[r] :
         steps[r][i] > NumReformats <=> i > Len(steps[r]) - Len(keys[r])

\* The markers unwind: the output ends with the marker of the last key, the
\* content stashed under each key ends with the marker of the key before it,
\* and the first key gives what the reformats made (traits.go:82-88).
Unwinds ==
  \A r \in Runs :
    keys[r] # << >> =>
      /\ current[r].mark = keys[r][Len(keys[r])]
      /\ \A i \in 2 .. Len(keys[r]) : Payload(keys[r][i]).mark = keys[r][i - 1]
      /\ Payload(keys[r][1]) = base[r]

\* Bytes leave a content only after it has been stashed: a reported key is in
\* the store, unless the store has evicted it since (traits.go:154).
StashedFirst ==
  \A r \in Runs : SeqRange(keys[r]) \subseteq Stored \union evicted

\* What the main goroutine decides stands: by the scores that all estimators
\* have given in the end and by the ratio of the reformat phase, no offload was
\* passed over that they demand and none was applied that they do not demand,
\* whenever each goroutine returned and whatever the offloads have made of the
\* content (orchestrator.go:43-55, 61-75).
DecisionsStand ==
  \A r \in Runs, o \in Offloads :
    /\ o \in skipped[r] => ~ Demanded(r, o)
    /\ NumReformats + o \in SeqRange(steps[r]) => Demanded(r, o)

\* When the reformats alone reach their target, only offloads whose estimator
\* is above the threshold get to drop bytes, as long as the fallback ratio is
\* not below the target (pipeline.toml:24-27; orchestrator.go:62-73).
SuccessSparesOffloads ==
  TargetPct <= FallbackPct =>
    \A r \in Runs :
      keys[r] # << >> /\ base[r].size * 100 <= TargetPct * input[r].size =>
        \A o \in Offloads :
          NumReformats + o \in SeqRange(steps[r]) => score[r][o] >= BloatThreshold

\* Every Run that is called returns.
Returns == \A r \in Runs : pc[r] = "fork" ~> pc[r] = "done"

\* The Runs keep the promise of Compression, with the fork, the estimates and
\* the orphans that discarded offloads leave in the store.
Promise ==
  INSTANCE Compression WITH
    phase   <- [r \in Runs |-> IF pc[r] \in {"idle", "done"} THEN pc[r]
                               ELSE "running"],
    wire    <- current,
    trail   <- keys,
    archive <- Stored \union evicted

ImplementsCompression == Promise!CompressionSpec

-----------------------------------------------------------------------------
(* The inductive invariant *)

\* A Run has keys only after the fork, and none as long as no offload has
\* changed what the reformats made.
KeysInv ==
  \A r \in Runs :
    /\ pc[r] \in {"idle", "fork"} => keys[r] = << >>
    /\ pc[r] \in {"offload", "stashed"} /\ keys[r] = << >> => current[r] = base[r]

\* The transforms named so far come before the next one.
StepsInv ==
  \A r \in Runs :
    /\ pc[r] = "idle" => steps[r] = << >> /\ saved[r] = 0
    /\ pc[r] = "fork" => \A i \in DOMAIN steps[r] : steps[r][i] < rnext[r]
    /\ pc[r] \in {"idle", "fork"} => onext[r] = 1
    /\ pc[r] \in {"offload", "stashed"} =>
         \A i \in DOMAIN steps[r] : steps[r][i] < NumReformats + onext[r]

\* Between its Put and its return an offload has its input in the store,
\* unless evicted.
StashedInv ==
  \A r \in Runs : pc[r] = "stashed" => KeyOf(r) \in Stored \union evicted

\* The goroutines of a Run work in its fork only.
JoinInv == \A r \in Runs : pc[r] # "fork" => Joinable(r)

\* An offload was demanded when it stashed its input, and no offload was decided
\* on before the join: after it, neither the scores nor the content that the
\* reformats made change.
DemandInv ==
  \A r \in Runs :
    /\ pc[r] = "stashed" => Demanded(r, onext[r])
    /\ pc[r] \in {"idle", "fork"} => skipped[r] = {}
    /\ \A o \in Offloads :
         NumReformats + o \in SeqRange(steps[r]) => pc[r] \notin {"idle", "fork"}

IInv ==
  /\ TypeOK
  /\ Accounting
  /\ KeysInv
  /\ StepsInv
  /\ StashedInv
  /\ StepsInOrder
  /\ Unwinds
  /\ StashedFirst
  /\ JoinInv
  /\ DemandInv
  /\ DecisionsStand
=============================================================================
