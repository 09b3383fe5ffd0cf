--------------------------- MODULE PipelineProofs ---------------------------
(***************************************************************************)
(* Proofs about Pipeline, for any number of Runs, reformats and offloads,  *)
(* any contents and any capacity of the store.                             *)
(***************************************************************************)
EXTENDS Pipeline, SequenceTheorems, TLAPS

-----------------------------------------------------------------------------
(* Facts about the constants and the operators *)

\* The bounds on indices and capacity are numbers.
LEMMA Numbers ==
  /\ NumReformats \in Nat
  /\ NumOffloads \in Nat
  /\ Capacity \in Nat \ {0}
  /\ 0 \in Scores
  BY PipelineAssumption

\* Inputs are contents, and sizes are numbers.
LEMMA Sizes ==
  /\ Inputs \subseteq Contents
  /\ \A c \in Contents : c.size \in Nat
  BY PipelineAssumption, ContentAssumption

\* What BytesSaved says when it is not zero: the output is shorter.
LEMMA SavedShorter ==
  ASSUME NEW b \in Contents, NEW a \in Contents, BytesSaved(b, a) # 0
  PROVE  a.size < b.size /\ BytesSaved(b, a) = b.size - a.size
  BY Sizes, SMT DEF BytesSaved

\* The key of the next offload is a key.
LEMMA KeyOfType ==
  ASSUME TypeOK, NEW r \in Runs, current[r] \in Contents, onext[r] \in Offloads
  PROVE  KeyOf(r) \in Keys /\ Payload(KeyOf(r)) = current[r]
  BY PipelineAssumption DEF KeyOf, Keys, Payload

\* The range of a sequence with one element more.
LEMMA RangeAppend ==
  ASSUME NEW S, NEW s \in Seq(S), NEW e \in S
  PROVE  SeqRange(Append(s, e)) = SeqRange(s) \union {e}
<1>1. DOMAIN Append(s, e) = 1 .. (Len(s) + 1) /\ DOMAIN s = 1 .. Len(s)
  BY SMT
<1>2. \A i \in 1 .. Len(s) : Append(s, e)[i] = s[i]
  BY SMT
<1>3. Append(s, e)[Len(s) + 1] = e
  BY SMT
<1>4. Len(s) \in Nat
  OBVIOUS
<1> QED
  BY <1>1, <1>2, <1>3, <1>4, SMT DEF SeqRange

\* The range of a sequence is that of its tail and its head.
LEMMA RangeTail ==
  ASSUME NEW S, NEW s \in Seq(S), Len(s) > 0
  PROVE  SeqRange(s) = SeqRange(Tail(s)) \union {Head(s)}
<1>1. DOMAIN Tail(s) = 1 .. (Len(s) - 1) /\ DOMAIN s = 1 .. Len(s)
  BY SMT
<1>2. \A i \in 1 .. (Len(s) - 1) : Tail(s)[i] = s[i + 1]
  BY SMT
<1>3. Head(s) = s[1] /\ Len(s) \in Nat
  BY SMT
<1>4. SeqRange(s) = {s[i] : i \in 1 .. Len(s)}
  BY <1>1 DEF SeqRange
<1>5. SeqRange(Tail(s)) = {s[i + 1] : i \in 1 .. (Len(s) - 1)}
  BY <1>1, <1>2 DEF SeqRange
<1>6. \A i \in 1 .. Len(s) : i = 1 \/ \E j \in 1 .. (Len(s) - 1) : i = j + 1
  BY <1>3, SMT
<1>7. 1 \in 1 .. Len(s) /\ \A j \in 1 .. (Len(s) - 1) : j + 1 \in 1 .. Len(s)
  BY <1>3, SMT
<1> QED
  BY <1>3, <1>4, <1>5, <1>6, <1>7

\* A Put keeps the types, and archives its key: nothing that was ever in the
\* store leaves the union of the stored and the evicted keys.
LEMMA StorePutArchives ==
  ASSUME TypeOK, NEW k \in Keys, StorePut(k)
  PROVE  /\ store' \in Seq(Keys)
         /\ evicted' \subseteq Keys
         /\ (Stored \union evicted)' = Stored \union evicted \union {k}
<1>0. store \in Seq(Keys) /\ evicted \subseteq Keys
  BY DEF TypeOK
<1>1. CASE k \in Stored
  BY <1>0, <1>1 DEF StorePut, Stored, SeqRange
<1>2. CASE k \notin Stored /\ Len(store) >= Capacity
  <2>1. Len(store) > 0 /\ Len(store) \in Nat
    BY <1>0, <1>2, Numbers, SMT
  <2>2. Tail(store) \in Seq(Keys) /\ Head(store) \in Keys
    BY <1>0, <2>1, SMT
  <2>3. store' = Append(Tail(store), k) /\ evicted' = evicted \union {Head(store)}
    BY <1>2 DEF StorePut
  <2>p. PICK t \in Seq(Keys) : t = Tail(store)
    BY <2>2
  <2>a. SeqRange(Append(t, k)) = SeqRange(t) \union {k}
    BY RangeAppend
  <2>4. SeqRange(store') = SeqRange(Tail(store)) \union {k}
    BY <2>3, <2>a, <2>p
  <2>5. SeqRange(store) = SeqRange(Tail(store)) \union {Head(store)}
    BY <1>0, <2>1, RangeTail
  <2>6. store' \in Seq(Keys) /\ evicted' \subseteq Keys
    BY <1>0, <2>2, <2>3, SMT
  <2> QED
    BY <2>3, <2>4, <2>5, <2>6 DEF Stored
<1>3. CASE k \notin Stored /\ ~ (Len(store) >= Capacity)
  <2>1. store' = Append(store, k) /\ evicted' = evicted
    BY <1>3 DEF StorePut
  <2>2. SeqRange(store') = SeqRange(store) \union {k}
    BY <1>0, <2>1, RangeAppend
  <2>3. store' \in Seq(Keys)
    BY <1>0, <2>1, SMT
  <2> QED
    BY <1>0, <2>1, <2>2, <2>3 DEF Stored
<1> QED
  BY <1>1, <1>2, <1>3

-----------------------------------------------------------------------------
(* Type correctness *)

\* The initial state has the types.
LEMMA TypeInit == Init => TypeOK
<1> SUFFICES ASSUME Init PROVE TypeOK
  OBVIOUS
<1>1. \A S : << >> \in Seq(S)
  OBVIOUS
<1> QED
  BY <1>1, Numbers, SMT DEF Init, TypeOK

\* So does going on to the next offload.
LEMMA NextOffloadType ==
  ASSUME TypeOK, NEW r \in Runs, OffloadNext(r), onext[r] \in Offloads,
         pc[r] # "idle", pc' = [pc EXCEPT ![r] = "offload"], base[r] \in Contents,
         skipped' \in [Runs -> SUBSET Offloads]
  PROVE  TypeOK'
<1>1. onext[r] + 1 \in 1 .. (NumOffloads + 1)
  BY Numbers DEF Offloads
<1>2. onext' \in [Runs -> 1 .. (NumOffloads + 1)]
  BY <1>1 DEF OffloadNext, TypeOK
<1>3. \A q \in Runs : pc'[q] = "stashed" => onext'[q] \in Offloads
  BY DEF OffloadNext, TypeOK
<1>4. pc' \in [Runs -> {"idle", "fork", "offload", "stashed", "done"}]
  BY DEF TypeOK
<1>5. \A q \in Runs : (pc'[q] # "idle" => pc[q] # "idle") /\ (pc'[q] \in {"offload", "stashed"} => q = r \/ pc[q] \in {"offload", "stashed"})
  BY DEF TypeOK
<1> QED
  BY <1>2, <1>3, <1>4, <1>5 DEF OffloadNext, TypeOK

\* A Run whose reformats or estimators work is in its fork.
LEMMA InFork ==
  ASSUME TypeOK, JoinInv, NEW r \in Runs
  PROVE  /\ rnext[r] <= NumReformats => pc[r] = "fork"
         /\ running[r] # {} => pc[r] = "fork"
<1>1. pc[r] # "fork" => rnext[r] = NumReformats + 1 /\ running[r] = {}
  BY DEF JoinInv, Joinable
<1> QED
  BY <1>1, Numbers

\* What an accepted reformat does to its Run.
LEMMA AcceptStep ==
  ASSUME TypeOK, JoinInv, NEW r \in Runs, NEW c \in Contents, ReformatAccept(r, c)
  PROVE  /\ pc[r] = "fork" /\ pc' = pc /\ onext' = onext /\ keys' = keys
         /\ steps'[r] = Append(steps[r], rnext[r]) /\ rnext'[r] = rnext[r] + 1
         /\ rnext[r] \in 1 .. (NumReformats + NumOffloads) /\ rnext[r] <= NumReformats
<1>1. rnext[r] <= NumReformats /\ pc' = pc /\ onext' = onext /\ keys' = keys
  BY DEF ReformatAccept, Reformatting
<1>2. rnext[r] \in 1 .. (NumReformats + 1)
  BY DEF TypeOK
<1>3. rnext[r] \in 1 .. (NumReformats + NumOffloads)
  BY <1>1, <1>2, Numbers
<1>4. pc[r] = "fork"
  BY <1>1, InFork
<1>5. DOMAIN steps = Runs /\ DOMAIN rnext = Runs
  BY DEF TypeOK
<1>6. steps'[r] = Append(steps[r], rnext[r]) /\ rnext'[r] = rnext[r] + 1
  BY <1>5 DEF ReformatAccept
<1> QED
  BY <1>1, <1>3, <1>4, <1>6

\* A step of a Run keeps the types.
LEMMA TypeStep ==
  ASSUME TypeOK, JoinInv, NEW r \in Runs, Step(r)
  PROVE  TypeOK'
<1> USE Numbers DEF TypeOK
<1>1. CASE \E c \in Inputs : ReturnEmpty(r, c)
  BY <1>1, Sizes DEF ReturnEmpty
<1>2. CASE \E c \in Inputs : Fork(r, c)
  BY <1>2, Sizes DEF Fork
<1>3. CASE ReformatBreak(r)
  BY <1>3 DEF ReformatBreak, Reformatting
<1>4. CASE ReformatSkip(r)
  BY <1>4 DEF ReformatSkip, Reformatting
<1>5. ASSUME NEW c \in Contents, ReformatAccept(r, c)
      PROVE  TypeOK'
  <2>0. current[r] \in Contents
    BY <1>5, InFork DEF ReformatAccept, Reformatting
  <2>1. BytesSaved(current[r], c) \in Int
    BY <2>0, Sizes DEF BytesSaved
  <2>2. rnext[r] \in 1 .. (NumReformats + NumOffloads) /\ rnext[r] + 1 \in 1 .. (NumReformats + 1)
    BY <1>5 DEF ReformatAccept, Reformatting
  <2>3. Append(steps[r], rnext[r]) \in Seq(1 .. (NumReformats + NumOffloads))
    BY <2>2
  <2>4. steps' \in [Runs -> Seq(1 .. (NumReformats + NumOffloads))]
    BY <1>5, <2>3 DEF ReformatAccept
  <2>5. saved' \in [Runs -> Int]
    BY <1>5, <2>1, SMTT(20) DEF ReformatAccept
  <2>6. rnext' \in [Runs -> 1 .. (NumReformats + 1)]
    BY <1>5, <2>2 DEF ReformatAccept
  <2>7. /\ current' \in [Runs -> Contents \union {NoContent}]
        /\ \A q \in Runs : current[q] \in Contents => current'[q] \in Contents
    BY <1>5 DEF ReformatAccept
  <2>8. UNCHANGED <<pc, input, base, running, score, onext, keys, skipped, store, evicted>>
    BY <1>5 DEF ReformatAccept
  <2> QED
    BY <2>4, <2>5, <2>6, <2>7, <2>8
<1>6. CASE \E o \in Offloads, s \in Scores : Estimate(r, o, s)
  BY <1>6 DEF Estimate
<1>7. CASE Join(r)
  BY <1>7 DEF Join
<1>8. CASE OffloadSkip(r)
  <2>1. pc' = [pc EXCEPT ![r] = "offload"] /\ onext[r] \in Offloads /\ base[r] \in Contents
    BY <1>8 DEF OffloadSkip, Offloading, Offloads
  <2>2. skipped' \in [Runs -> SUBSET Offloads]
    BY <1>8, <2>1 DEF OffloadSkip
  <2> QED
    BY <1>8, <2>1, <2>2, NextOffloadType DEF OffloadSkip, Offloading
<1>9. CASE OffloadFail(r)
  <2>1. pc' = [pc EXCEPT ![r] = "offload"] /\ onext[r] \in Offloads /\ base[r] \in Contents
    BY <1>9 DEF OffloadFail, Offloading, Offloads
  <2> QED
    BY <1>9, <2>1, NextOffloadType DEF OffloadFail, Offloading
<1>10. CASE OffloadStash(r)
  <2>1. onext[r] \in Offloads /\ current[r] \in Contents
    BY <1>10 DEF OffloadStash, Offloading, Offloads
  <2>2. store' \in Seq(Keys) /\ evicted' \subseteq Keys
    BY <1>10, <2>1, KeyOfType, StorePutArchives DEF OffloadStash
  <2>3. pc' \in [Runs -> {"idle", "fork", "offload", "stashed", "done"}]
    BY <1>10 DEF OffloadStash
  <2>4. \A q \in Runs : (pc'[q] # "idle" => pc[q] # "idle") /\ (pc'[q] \in {"offload", "stashed"} => pc[q] \in {"offload", "stashed"})
                         /\ (pc'[q] = "stashed" => q = r \/ pc[q] = "stashed")
    BY <1>10 DEF OffloadStash, Offloading
  <2> QED
    BY <1>10, <2>1, <2>2, <2>3, <2>4 DEF OffloadStash
<1>11. ASSUME NEW c \in Contents, OffloadAccept(r, c)
       PROVE  TypeOK'
  <2>1. onext[r] \in Offloads /\ current[r] \in Contents
    BY <1>11 DEF OffloadAccept
  <2>2. KeyOf(r) \in Keys
    BY <2>1, KeyOfType
  <2>3. BytesSaved(current[r], c) \in Int
    BY <2>1, Sizes DEF BytesSaved
  <2>4. NumReformats + onext[r] \in 1 .. (NumReformats + NumOffloads) /\ onext[r] + 1 \in 1 .. (NumOffloads + 1)
    BY <2>1 DEF Offloads
  <2>5. steps' \in [Runs -> Seq(1 .. (NumReformats + NumOffloads))]
    BY <1>11, <2>4 DEF OffloadAccept
  <2>6. keys' \in [Runs -> Seq(Keys)]
    BY <1>11, <2>2 DEF OffloadAccept
  <2>7. pc' \in [Runs -> {"idle", "fork", "offload", "stashed", "done"}]
    BY <1>11 DEF OffloadAccept
  <2>8. \A q \in Runs : /\ pc'[q] # "idle" => pc[q] # "idle"
                        /\ pc'[q] \in {"offload", "stashed"} => pc[q] \in {"offload", "stashed"}
                        /\ pc'[q] = "stashed" => q # r /\ pc[q] = "stashed"
    BY <1>11 DEF OffloadAccept
  <2>9. saved' \in [Runs -> Int]
    BY <1>11, <2>3, SMTT(20) DEF OffloadAccept
  <2>d. onext' \in [Runs -> 1 .. (NumOffloads + 1)]
    BY <1>11, <2>4 DEF OffloadAccept
  <2>e. current' \in [Runs -> Contents \union {NoContent}]
    BY <1>11 DEF OffloadAccept
  <2>a. current \in [Runs -> Contents \union {NoContent}] /\ current' = [current EXCEPT ![r] = c]
    BY <1>11 DEF OffloadAccept
  <2>b. \A q \in Runs : current[q] \in Contents => current'[q] \in Contents
    BY <2>a, Zenon
  <2>c. \A q \in Runs : q # r => onext'[q] = onext[q]
    BY <1>11 DEF OffloadAccept
  <2> QED
    BY <1>11, <2>5, <2>6, <2>7, <2>8, <2>9, <2>b, <2>c, <2>d, <2>e DEF OffloadAccept
<1>12. CASE OffloadDiscard(r)
  BY <1>12, NextOffloadType DEF OffloadDiscard
<1>13. CASE Return(r)
  BY <1>13 DEF Return
<1> QED
  BY <1>1, <1>2, <1>3, <1>4, <1>5, <1>6, <1>7, <1>8, <1>9, <1>10, <1>11, <1>12, <1>13
  DEF Step, ReformatStep, OffloadStep

-----------------------------------------------------------------------------
(* The steps of a Run by what they disturb *)

\* A turn of the reformat loop that accepts nothing, or an estimate.
ForkTurn(r) ==
  /\ pc[r] = "fork"
  /\ UNCHANGED <<pc, input, current, base, onext, saved, steps, keys, skipped,
                 store, evicted>>
  /\ \A q \in Runs : q # r => rnext'[q] = rnext[q] /\ running'[q] = running[q]
  /\ rnext'[r] >= rnext[r]

\* A turn of the offload loop that accepts nothing, or the return.
OffloadTurn(r) ==
  /\ pc[r] \in {"offload", "stashed"}
  /\ UNCHANGED <<input, current, base, rnext, running, saved, steps, keys,
                 store, evicted>>
  /\ \A q \in Runs : q # r => pc'[q] = pc[q] /\ onext'[q] = onext[q]
  /\ pc'[r] \in {"offload", "done"}
  /\ onext'[r] >= onext[r]

\* The cases of a step.
LEMMA StepKinds ==
  ASSUME TypeOK, JoinInv, NEW r \in Runs, Step(r)
  PROVE  \/ \E c \in Inputs : ReturnEmpty(r, c) \/ Fork(r, c)
         \/ ForkTurn(r)
         \/ \E c \in Contents : ReformatAccept(r, c)
         \/ Join(r)
         \/ OffloadTurn(r)
         \/ OffloadStash(r)
         \/ \E c \in Contents : OffloadAccept(r, c)
<1>0. rnext \in [Runs -> 1 .. (NumReformats + 1)] /\ onext \in [Runs -> 1 .. (NumOffloads + 1)]
      /\ running \in [Runs -> SUBSET Offloads] /\ pc \in [Runs -> {"idle", "fork", "offload", "stashed", "done"}]
  BY DEF TypeOK
<1>1. CASE ReformatBreak(r)
  BY <1>0, <1>1, Numbers, InFork DEF ReformatBreak, Reformatting, ForkTurn
<1>2. CASE ReformatSkip(r)
  BY <1>0, <1>2, Numbers, InFork DEF ReformatSkip, Reformatting, ForkTurn
<1>3. CASE \E o \in Offloads, s \in Scores : Estimate(r, o, s)
  BY <1>0, <1>3, Numbers, InFork DEF Estimate, ForkTurn
<1>4. CASE OffloadSkip(r) \/ OffloadFail(r) \/ OffloadDiscard(r)
  <2>1. OffloadNext(r) /\ pc[r] \in {"offload", "stashed"}
    BY <1>4 DEF OffloadSkip, OffloadFail, OffloadDiscard, Offloading
  <2>2. pc' = [pc EXCEPT ![r] = "offload"]
    BY <1>0, <1>4 DEF OffloadSkip, OffloadFail, OffloadDiscard, Offloading
  <2>3. onext' = [onext EXCEPT ![r] = @ + 1]
    BY <2>1 DEF OffloadNext
  <2>4. onext'[r] >= onext[r] /\ \A q \in Runs : q # r => onext'[q] = onext[q]
    BY <1>0, <2>3, Numbers
  <2>5. pc'[r] = "offload" /\ \A q \in Runs : q # r => pc'[q] = pc[q]
    BY <1>0, <2>2
  <2> QED
    BY <2>1, <2>4, <2>5 DEF OffloadNext, OffloadTurn
<1>5. CASE Return(r)
  BY <1>0, <1>5, Numbers DEF Return, OffloadTurn
<1> QED
  BY <1>1, <1>2, <1>3, <1>4, <1>5 DEF Step, ReformatStep, OffloadStep

-----------------------------------------------------------------------------
(* The inductive invariant *)

\* The sum of the savings.
LEMMA AccountingStep ==
  ASSUME TypeOK, JoinInv, Accounting, StepsInv, NEW r \in Runs, Step(r)
  PROVE  Accounting'
<1> SUFFICES ASSUME NEW q \in Runs, pc'[q] # "idle"
             PROVE  saved'[q] = input'[q].size - current'[q].size
  BY DEF Accounting
<1>0. pc[q] # "idle" => saved[q] = input[q].size - current[q].size
  BY DEF Accounting
<1>1. ASSUME NEW c \in Inputs, ReturnEmpty(r, c) \/ Fork(r, c)
      PROVE  saved'[q] = input'[q].size - current'[q].size
  <2>1. saved' = saved /\ pc[r] = "idle" /\ saved[r] = 0
    BY <1>1 DEF ReturnEmpty, Fork, StepsInv
  <2>2. q = r => input'[q] = c /\ current'[q] = c
    BY <1>1 DEF ReturnEmpty, Fork, TypeOK
  <2>3. q # r => input'[q] = input[q] /\ current'[q] = current[q] /\ pc'[q] = pc[q]
    BY <1>1 DEF ReturnEmpty, Fork, TypeOK
  <2>4. c.size - c.size = 0
    BY Sizes
  <2> QED
    BY <1>0, <2>1, <2>2, <2>3, <2>4
<1>2. CASE ForkTurn(r)
  BY <1>0, <1>2 DEF ForkTurn
<1>3. ASSUME NEW c \in Contents, ReformatAccept(r, c) \/ OffloadAccept(r, c)
      PROVE  saved'[q] = input'[q].size - current'[q].size
  <2>1. current[r] \in Contents /\ input[r] \in Contents /\ pc[r] # "idle"
    BY <1>3, InFork DEF ReformatAccept, Reformatting, OffloadAccept, TypeOK
  <2>2. BytesSaved(current[r], c) = current[r].size - c.size
    BY <1>3, <2>1, SavedShorter DEF ReformatAccept, OffloadAccept
  <2>3. q # r => input'[q] = input[q] /\ current'[q] = current[q] /\ pc'[q] = pc[q]
                 /\ saved'[q] = saved[q]
    BY <1>3 DEF ReformatAccept, OffloadAccept, TypeOK
  <2>4. input'[r] = input[r] /\ current'[r] = c /\ saved'[r] = saved[r] + BytesSaved(current[r], c)
    BY <1>3 DEF ReformatAccept, OffloadAccept, TypeOK
  <2>5. saved[r] = input[r].size - current[r].size
    BY <2>1 DEF Accounting
  <2>6. saved[r] + (current[r].size - c.size) = input[r].size - c.size
    BY <2>1, <2>5, Sizes
  <2> QED
    BY <1>0, <2>2, <2>3, <2>4, <2>6
<1>4. CASE Join(r)
  BY <1>0, <1>4 DEF Join, TypeOK
<1>5. CASE OffloadTurn(r)
  BY <1>0, <1>5 DEF OffloadTurn
<1>6. CASE OffloadStash(r)
  BY <1>0, <1>6 DEF OffloadStash, Offloading, TypeOK
<1> QED
  BY <1>1, <1>2, <1>3, <1>4, <1>5, <1>6, StepKinds

\* Keys and base.
LEMMA KeysStep ==
  ASSUME TypeOK, JoinInv, KeysInv, NEW r \in Runs, Step(r)
  PROVE  KeysInv'
<1> SUFFICES ASSUME NEW q \in Runs
             PROVE  /\ pc'[q] \in {"idle", "fork"} => keys'[q] = << >>
                    /\ pc'[q] \in {"offload", "stashed"} /\ keys'[q] = << >> => current'[q] = base'[q]
  BY DEF KeysInv
<1>0. /\ pc[q] \in {"idle", "fork"} => keys[q] = << >>
      /\ pc[q] \in {"offload", "stashed"} /\ keys[q] = << >> => current[q] = base[q]
  BY DEF KeysInv
<1>1. CASE \E c \in Inputs : ReturnEmpty(r, c) \/ Fork(r, c)
  BY <1>0, <1>1 DEF ReturnEmpty, Fork, TypeOK
<1>2. CASE ForkTurn(r)
  BY <1>0, <1>2 DEF ForkTurn
<1>3. CASE \E c \in Contents : ReformatAccept(r, c)
  BY <1>0, <1>3, InFork DEF ReformatAccept, Reformatting, TypeOK
<1>4. CASE Join(r)
  BY <1>0, <1>4 DEF Join, TypeOK
<1>5. CASE OffloadTurn(r)
  BY <1>0, <1>5 DEF OffloadTurn
<1>6. CASE OffloadStash(r)
  BY <1>0, <1>6 DEF OffloadStash, Offloading, TypeOK
<1>7. ASSUME NEW c \in Contents, OffloadAccept(r, c)
      PROVE  /\ pc'[q] \in {"idle", "fork"} => keys'[q] = << >>
             /\ pc'[q] \in {"offload", "stashed"} /\ keys'[q] = << >> => current'[q] = base'[q]
  <2>1. q # r => pc'[q] = pc[q] /\ keys'[q] = keys[q] /\ current'[q] = current[q] /\ base'[q] = base[q]
    BY <1>7 DEF OffloadAccept, TypeOK
  <2>2. keys'[r] = Append(keys[r], KeyOf(r)) /\ pc'[r] = "offload" /\ keys[r] \in Seq(Keys)
    BY <1>7 DEF OffloadAccept, TypeOK
  <2>3. keys'[r] # << >>
    BY <2>2, SMTT(20)
  <2> QED
    BY <1>0, <2>1, <2>2, <2>3
<1> QED
  BY <1>1, <1>2, <1>3, <1>4, <1>5, <1>6, <1>7, StepKinds

\* What a Run has after one more accepted transform.
LEMMA AppendStep ==
  ASSUME NEW S, NEW s \in Seq(S), NEW e \in S
  PROVE  /\ DOMAIN s = 1 .. Len(s) /\ Len(s) \in Nat
         /\ DOMAIN Append(s, e) = 1 .. (Len(s) + 1)
         /\ Len(Append(s, e)) = Len(s) + 1
         /\ \A i \in 1 .. Len(s) : Append(s, e)[i] = s[i]
         /\ Append(s, e)[Len(s) + 1] = e
         /\ \A i \in 1 .. Len(s) : s[i] \in S
  BY SMT

\* The steps named come before the next transform.
LEMMA StepsStep ==
  ASSUME TypeOK, JoinInv, StepsInv, NEW r \in Runs, Step(r)
  PROVE  StepsInv'
<1> DEFINE P(q) == /\ pc[q] = "idle" => steps[q] = << >> /\ saved[q] = 0
                   /\ pc[q] = "fork" => \A i \in DOMAIN steps[q] : steps[q][i] < rnext[q]
                   /\ pc[q] \in {"idle", "fork"} => onext[q] = 1
                   /\ pc[q] \in {"offload", "stashed"} =>
                        \A i \in DOMAIN steps[q] : steps[q][i] < NumReformats + onext[q]
<1> SUFFICES ASSUME NEW q \in Runs PROVE P(q)'
  BY DEF StepsInv
<1>0. P(q)
  BY DEF StepsInv
<1>y. rnext'[q] \in Nat /\ onext'[q] \in Nat
  <2>1. TypeOK'
    BY TypeStep
  <2>2. rnext'[q] \in 1 .. (NumReformats + 1) /\ onext'[q] \in 1 .. (NumOffloads + 1)
    BY <2>1 DEF TypeOK
  <2> QED
    BY <2>2, Numbers
<1>t. rnext[q] \in Nat /\ onext[q] \in Nat /\ steps[q] \in Seq(1 .. (NumReformats + NumOffloads))
  BY Numbers DEF TypeOK
<1>n. \A i \in DOMAIN steps[q] : steps[q][i] \in Nat
  BY <1>t, Numbers
<1>1. CASE \E c \in Inputs : ReturnEmpty(r, c) \/ Fork(r, c)
  BY <1>0, <1>1 DEF ReturnEmpty, Fork, TypeOK
<1>2. CASE ForkTurn(r)
  <2>1. CASE q # r
    BY <1>0, <1>2, <2>1 DEF ForkTurn
  <2>2. CASE q = r
    <3>1. pc[q] = "fork" /\ pc' = pc /\ steps' = steps /\ onext' = onext /\ rnext'[q] >= rnext[q]
      BY <1>2, <2>2 DEF ForkTurn
    <3> QED
      BY <1>0, <1>t, <1>n, <1>y, <3>1
  <2> QED
    BY <2>1, <2>2
<1>3. ASSUME NEW c \in Contents, ReformatAccept(r, c) PROVE P(q)'
  <2>1. CASE q # r
    BY <1>0, <1>3, <2>1 DEF ReformatAccept, TypeOK
  <2>2. CASE q = r
    <3>1. /\ pc[q] = "fork" /\ pc' = pc /\ onext' = onext
          /\ steps'[q] = Append(steps[q], rnext[q]) /\ rnext'[q] = rnext[q] + 1
          /\ rnext[q] \in 1 .. (NumReformats + NumOffloads)
      BY <1>3, <2>2, AcceptStep
    <3>2. \A i \in DOMAIN steps'[q] : steps'[q][i] < rnext'[q]
      BY <1>0, <1>t, <1>n, <3>1, AppendStep
    <3> QED
      BY <1>0, <3>1, <3>2
  <2> QED
    BY <2>1, <2>2
<1>4. CASE Join(r)
  <2>1. CASE q # r
    BY <1>0, <1>4, <2>1 DEF Join, TypeOK
  <2>2. CASE q = r
    <3>1. pc[q] = "fork" /\ pc'[q] = "offload" /\ onext[q] = 1 /\ onext' = onext /\ steps' = steps
          /\ rnext[q] = NumReformats + 1
      BY <1>0, <1>4, <2>2 DEF Join, Joinable, TypeOK
    <3> QED
      BY <1>0, <3>1
  <2> QED
    BY <2>1, <2>2
<1>5. CASE OffloadTurn(r)
  <2>1. CASE q # r
    BY <1>0, <1>5, <2>1 DEF OffloadTurn
  <2>2. CASE q = r
    <3>1. pc[q] \in {"offload", "stashed"} /\ pc'[q] \in {"offload", "done"} /\ steps' = steps /\ onext'[q] >= onext[q]
      BY <1>5, <2>2 DEF OffloadTurn
    <3>2. \A m, n, x, k \in Nat : x < k + m /\ n >= m => x < k + n
      OBVIOUS
    <3>3. \A i \in DOMAIN steps[q] : steps[q][i] < NumReformats + onext[q]
      BY <1>0, <3>1
    <3>4. \A i \in DOMAIN steps[q] : steps[q][i] < NumReformats + onext'[q]
      BY <1>t, <1>n, <1>y, <3>1, <3>2, <3>3, Numbers
    <3> QED
      BY <3>1, <3>4
  <2> QED
    BY <2>1, <2>2
<1>6. CASE OffloadStash(r)
  BY <1>0, <1>6 DEF OffloadStash, Offloading, TypeOK
<1>7. ASSUME NEW c \in Contents, OffloadAccept(r, c) PROVE P(q)'
  <2>1. CASE q # r
    BY <1>0, <1>7, <2>1 DEF OffloadAccept, TypeOK
  <2>2. CASE q = r
    <3>1. /\ pc[q] = "stashed" /\ pc'[q] = "offload" /\ onext'[q] = onext[q] + 1
          /\ steps'[q] = Append(steps[q], NumReformats + onext[q])
          /\ NumReformats + onext[q] \in 1 .. (NumReformats + NumOffloads)
      BY <1>7, <2>2, Numbers, SMTT(20) DEF OffloadAccept, TypeOK, Offloads
    <3>p. PICK e \in 1 .. (NumReformats + NumOffloads) : e = NumReformats + onext[q]
      BY <3>1
    <3>a. steps'[q] = Append(steps[q], e) /\ NumReformats + onext'[q] = e + 1 /\ e \in Nat
      <4>1. steps'[q] = Append(steps[q], e)
        BY <3>1, <3>p
      <4>2. NumReformats + onext'[q] = e + 1 /\ e \in Nat
        <5>1. \A m, n \in Nat : m + (n + 1) = (m + n) + 1 /\ m + n \in Nat
          OBVIOUS
        <5>2. onext'[q] = onext[q] + 1
          BY <3>1
        <5> QED
          BY <5>1, <5>2, <3>p, <1>t, Numbers
      <4> QED
        BY <4>1, <4>2
    <3>b. \A i \in DOMAIN steps[q] : steps[q][i] < e
      BY <1>0, <3>1, <3>p
    <3>2. \A i \in DOMAIN steps'[q] : steps'[q][i] < NumReformats + onext'[q]
      <4>s. PICK s \in Seq(1 .. (NumReformats + NumOffloads)) : s = steps[q]
        BY <1>t
      <4>1. /\ DOMAIN s = 1 .. Len(s) /\ Len(s) \in Nat
            /\ DOMAIN Append(s, e) = 1 .. (Len(s) + 1)
            /\ \A i \in 1 .. Len(s) : Append(s, e)[i] = s[i]
            /\ Append(s, e)[Len(s) + 1] = e
        BY AppendStep
      <4>2. \A i \in 1 .. (Len(s) + 1) : i \in 1 .. Len(s) \/ i = Len(s) + 1
        BY <4>1
      <4>3. \A i \in 1 .. Len(s) : s[i] \in Nat /\ s[i] < e
        BY <1>n, <3>b, <4>s, <4>1
      <4>4. \A i \in 1 .. (Len(s) + 1) : Append(s, e)[i] < e + 1
        BY <3>a, <4>1, <4>2, <4>3
      <4> QED
        BY <3>a, <4>s, <4>1, <4>4
    <3> QED
      BY <3>1, <3>2
  <2> QED
    BY <2>1, <2>2
<1> QED
  BY <1>1, <1>2, <1>3, <1>4, <1>5, <1>6, <1>7, StepKinds

\* Only an accepted output names a transform or adds a key.
LEMMA OnlyAccepts ==
  ASSUME TypeOK, JoinInv, NEW r \in Runs, Step(r), NEW q \in Runs
  PROVE  \/ keys'[q] = keys[q] /\ steps'[q] = steps[q]
         \/ q = r /\ \E c \in Contents : ReformatAccept(r, c) \/ OffloadAccept(r, c)
<1>1. CASE \E c \in Inputs : ReturnEmpty(r, c) \/ Fork(r, c)
  BY <1>1 DEF ReturnEmpty, Fork
<1>2. CASE ForkTurn(r)
  BY <1>2 DEF ForkTurn
<1>3. CASE \E c \in Contents : ReformatAccept(r, c)
  BY <1>3 DEF ReformatAccept, TypeOK
<1>4. CASE Join(r)
  BY <1>4 DEF Join
<1>5. CASE OffloadTurn(r)
  BY <1>5 DEF OffloadTurn
<1>6. CASE OffloadStash(r)
  BY <1>6 DEF OffloadStash
<1>7. CASE \E c \in Contents : OffloadAccept(r, c)
  <2>1. PICK c \in Contents : OffloadAccept(r, c)
    BY <1>7
  <2>2. q # r => keys'[q] = keys[q] /\ steps'[q] = steps[q]
    BY <2>1 DEF OffloadAccept, TypeOK
  <2> QED
    BY <2>1, <2>2
<1> QED
  BY <1>1, <1>2, <1>3, <1>4, <1>5, <1>6, <1>7, StepKinds

\* The goroutines of a fork end before the join and work in no other phase.
LEMMA JoinStep ==
  ASSUME TypeOK, JoinInv, NEW r \in Runs, Step(r)
  PROVE  JoinInv'
<1> DEFINE P(q) == pc[q] # "fork" => rnext[q] = NumReformats + 1 /\ running[q] = {}
<1> SUFFICES ASSUME NEW q \in Runs PROVE P(q)'
  BY DEF JoinInv, Joinable
<1>0. P(q)
  BY DEF JoinInv, Joinable
<1>1. ASSUME NEW c \in Inputs, ReturnEmpty(r, c) \/ Fork(r, c) PROVE P(q)'
  <2>1. CASE q # r
    BY <1>0, <1>1, <2>1 DEF ReturnEmpty, Fork, TypeOK
  <2>2. CASE q = r /\ ReturnEmpty(r, c)
    BY <1>0, <2>2 DEF ReturnEmpty, TypeOK
  <2>3. CASE q = r /\ Fork(r, c)
    BY <2>3 DEF Fork, TypeOK
  <2> QED
    BY <1>1, <2>1, <2>2, <2>3
<1>2. CASE ForkTurn(r)
  BY <1>0, <1>2 DEF ForkTurn
<1>3. ASSUME NEW c \in Contents, ReformatAccept(r, c) PROVE P(q)'
  <2>1. pc' = pc /\ running' = running /\ pc[r] = "fork"
    BY <1>3, InFork DEF ReformatAccept, Reformatting
  <2>2. q # r => rnext'[q] = rnext[q]
    BY <1>3 DEF ReformatAccept, TypeOK
  <2> QED
    BY <1>0, <2>1, <2>2
<1>4. CASE Join(r)
  BY <1>0, <1>4 DEF Join, Joinable, TypeOK
<1>5. CASE OffloadTurn(r)
  BY <1>0, <1>5 DEF OffloadTurn
<1>6. CASE OffloadStash(r)
  BY <1>0, <1>6 DEF OffloadStash, Offloading, TypeOK
<1>7. ASSUME NEW c \in Contents, OffloadAccept(r, c) PROVE P(q)'
  <2>1. rnext' = rnext /\ running' = running
    BY <1>7 DEF OffloadAccept
  <2>2. q # r => pc'[q] = pc[q]
    BY <1>7 DEF OffloadAccept, TypeOK
  <2>3. pc[r] = "stashed"
    BY <1>7 DEF OffloadAccept
  <2> QED
    BY <1>0, <2>1, <2>2, <2>3
<1> QED
  BY <1>1, <1>2, <1>3, <1>4, <1>5, <1>6, <1>7, StepKinds

\* A score changes only while its Run is in the fork.
LEMMA ScoreStep ==
  ASSUME TypeOK, JoinInv, NEW r \in Runs, Step(r), NEW q \in Runs,
         q # r \/ pc[q] # "fork"
  PROVE  score'[q] = score[q]
<1>1. ASSUME NEW o \in Offloads, NEW s \in Scores, Estimate(r, o, s) PROVE score'[q] = score[q]
  <2>1. q # r
    BY <1>1, InFork DEF Estimate
  <2> QED
    BY <1>1, <2>1 DEF Estimate, TypeOK
<1>2. ASSUME ~ \E o \in Offloads, s \in Scores : Estimate(r, o, s) PROVE score' = score
  BY <1>2 DEF Step, ReturnEmpty, Fork, ReformatStep, ReformatBreak, ReformatSkip, ReformatAccept, Join,
    OffloadStep, OffloadSkip, OffloadFail, OffloadNext, OffloadStash, OffloadAccept, OffloadDiscard, Return
<1> QED
  BY <1>1, <1>2

\* Once a Run has joined, what it decides on stays as it is.
LEMMA FixedStep ==
  ASSUME TypeOK, JoinInv, NEW r \in Runs, Step(r), NEW q \in Runs,
         pc[q] \notin {"idle", "fork"}
  PROVE  /\ pc'[q] \notin {"idle", "fork"}
         /\ \A o \in Offloads : Demanded(q, o)' <=> Demanded(q, o)
<1>1. pc'[q] \notin {"idle", "fork"} /\ base'[q] = base[q] /\ input'[q] = input[q]
  <2>1. CASE \E c \in Inputs : ReturnEmpty(r, c) \/ Fork(r, c)
    BY <2>1 DEF ReturnEmpty, Fork, TypeOK
  <2>2. CASE ForkTurn(r)
    BY <2>2 DEF ForkTurn
  <2>3. CASE \E c \in Contents : ReformatAccept(r, c)
    BY <2>3 DEF ReformatAccept
  <2>4. CASE Join(r)
    BY <2>4 DEF Join, TypeOK
  <2>5. CASE OffloadTurn(r)
    BY <2>5 DEF OffloadTurn
  <2>6. CASE OffloadStash(r)
    BY <2>6 DEF OffloadStash, TypeOK
  <2>7. CASE \E c \in Contents : OffloadAccept(r, c)
    BY <2>7 DEF OffloadAccept, TypeOK
  <2> QED
    BY <2>1, <2>2, <2>3, <2>4, <2>5, <2>6, <2>7, StepKinds
<1>2. score'[q] = score[q]
  BY ScoreStep
<1> QED
  BY <1>1, <1>2 DEF Demanded, AboveThreshold, Underwhelmed

\* What a Run passes over is the next offload, which nothing demands.
LEMMA SkippedStep ==
  ASSUME TypeOK, JoinInv, NEW r \in Runs, Step(r), NEW q \in Runs
  PROVE  \/ skipped'[q] = skipped[q]
         \/ /\ pc[q] = "offload"
            /\ ~ Demanded(q, onext[q])
            /\ skipped'[q] = skipped[q] \union {onext[q]}
<1>1. CASE OffloadSkip(r)
  BY <1>1 DEF OffloadSkip, Offloading, TypeOK
<1>2. CASE ~ OffloadSkip(r)
  BY <1>2 DEF Step, ReturnEmpty, Fork, ReformatStep, ReformatBreak, ReformatSkip, ReformatAccept, Estimate,
    Join, OffloadStep, OffloadFail, OffloadNext, OffloadStash, OffloadAccept, OffloadDiscard, Return
<1> QED
  BY <1>1, <1>2

\* An offload is between its Put and its return since this step, or has been.
LEMMA StashKinds ==
  ASSUME TypeOK, JoinInv, NEW r \in Runs, Step(r), NEW q \in Runs, pc'[q] = "stashed"
  PROVE  \/ OffloadStash(r) /\ q = r
         \/ pc[q] = "stashed" /\ onext'[q] = onext[q] /\ current'[q] = current[q]
<1>1. CASE \E c \in Inputs : ReturnEmpty(r, c) \/ Fork(r, c)
  BY <1>1 DEF ReturnEmpty, Fork, TypeOK
<1>2. CASE ForkTurn(r)
  BY <1>2 DEF ForkTurn
<1>3. CASE \E c \in Contents : ReformatAccept(r, c)
  BY <1>3, InFork DEF ReformatAccept, Reformatting, TypeOK
<1>4. CASE Join(r)
  BY <1>4 DEF Join, TypeOK
<1>5. CASE OffloadTurn(r)
  BY <1>5 DEF OffloadTurn
<1>6. CASE OffloadStash(r)
  BY <1>6 DEF OffloadStash, Offloading, TypeOK
<1>7. CASE \E c \in Contents : OffloadAccept(r, c)
  BY <1>7 DEF OffloadAccept, TypeOK
<1> QED
  BY <1>1, <1>2, <1>3, <1>4, <1>5, <1>6, <1>7, StepKinds

\* The steps of a Run after one more accepted transform.
LEMMA NamedStep ==
  ASSUME TypeOK, JoinInv, NEW r \in Runs, Step(r), NEW q \in Runs, NEW o \in Offloads,
         NumReformats + o \in SeqRange(steps'[q])
  PROVE  \/ NumReformats + o \in SeqRange(steps[q])
         \/ pc[q] = "stashed" /\ o = onext[q]
<1> DEFINE T == 1 .. (NumReformats + NumOffloads)
<1>0. steps[q] \in Seq(T)
  BY DEF TypeOK
<1>1. CASE steps'[q] = steps[q]
  BY <1>1
<1>2. ASSUME NEW c \in Contents, q = r, ReformatAccept(r, c)
      PROVE  NumReformats + o \in SeqRange(steps[q])
  <2>1. steps'[q] = Append(steps[q], rnext[q]) /\ rnext[q] <= NumReformats /\ rnext[q] \in T
    BY <1>2, Numbers, InFork DEF ReformatAccept, Reformatting, TypeOK
  <2>2. SeqRange(steps'[q]) = SeqRange(steps[q]) \union {rnext[q]}
    <3> HIDE DEF T
    <3> QED
      BY <1>0, <2>1, RangeAppend
  <2>3. NumReformats + o # rnext[q]
    BY <2>1, Numbers DEF Offloads
  <2> QED
    BY <2>2, <2>3
<1>3. ASSUME NEW c \in Contents, q = r, OffloadAccept(r, c)
      PROVE  \/ NumReformats + o \in SeqRange(steps[q])
             \/ pc[q] = "stashed" /\ o = onext[q]
  <2>1. pc[q] = "stashed" /\ onext[q] \in Offloads
    BY <1>3 DEF OffloadAccept, TypeOK
  <2>2. steps'[q] = Append(steps[q], NumReformats + onext[q])
    BY <1>3 DEF OffloadAccept, TypeOK
  <2>3. NumReformats + onext[q] \in T
    BY <2>1, Numbers DEF Offloads
  <2>4. SeqRange(steps'[q]) = SeqRange(steps[q]) \union {NumReformats + onext[q]}
    <3> HIDE DEF T
    <3> QED
      BY <1>0, <2>2, <2>3, RangeAppend
  <2>5. NumReformats + o = NumReformats + onext[q] => o = onext[q]
    BY <2>1, Numbers DEF Offloads
  <2> QED
    BY <2>1, <2>4, <2>5
<1> QED
  BY <1>1, <1>2, <1>3, OnlyAccepts

\* An offload stashes when it is demanded, and none is decided on before the
\* join.
LEMMA DemandStep ==
  ASSUME TypeOK, JoinInv, DemandInv, NEW r \in Runs, Step(r)
  PROVE  DemandInv'
<1> SUFFICES ASSUME NEW q \in Runs
             PROVE  /\ pc'[q] = "stashed" => Demanded(q, onext[q])'
                    /\ pc'[q] \in {"idle", "fork"} => skipped'[q] = {}
                    /\ \A o \in Offloads :
                         NumReformats + o \in SeqRange(steps'[q]) => pc'[q] \notin {"idle", "fork"}
  BY DEF DemandInv
<1>1. ASSUME pc'[q] = "stashed" PROVE Demanded(q, onext[q])'
  <2>1. pc[q] \in {"offload", "stashed"} /\ Demanded(q, onext[q]) /\ onext'[q] = onext[q]
    <3>1. CASE OffloadStash(r) /\ q = r
      BY <3>1 DEF OffloadStash, Offloading
    <3>2. CASE pc[q] = "stashed" /\ onext'[q] = onext[q]
      BY <3>2 DEF DemandInv
    <3> QED
      BY <1>1, <3>1, <3>2, StashKinds
  <2>2. onext[q] \in Offloads
    BY <1>1, <2>1, TypeStep DEF TypeOK
  <2>3. PICK o \in Offloads : o = onext[q]
    BY <2>2
  <2>4. Demanded(q, o)' /\ onext'[q] = o
    BY <2>1, <2>3, FixedStep
  <2> QED
    BY <2>4 DEF Demanded, AboveThreshold, Underwhelmed
<1>2. ASSUME pc'[q] \in {"idle", "fork"} PROVE skipped'[q] = {} /\ pc[q] \in {"idle", "fork"}
  <2>1. pc[q] \in {"idle", "fork"}
    BY <1>2, FixedStep
  <2> QED
    BY <2>1, SkippedStep DEF DemandInv
<1>3. ASSUME NEW o \in Offloads, NumReformats + o \in SeqRange(steps'[q])
      PROVE  pc'[q] \notin {"idle", "fork"}
  BY <1>2, <1>3, NamedStep DEF DemandInv
<1> QED
  BY <1>1, <1>2, <1>3

\* What was decided stands, and the next decision is right.
LEMMA DecisionStep ==
  ASSUME TypeOK, JoinInv, DemandInv, DecisionsStand, NEW r \in Runs, Step(r)
  PROVE  DecisionsStand'
<1> SUFFICES ASSUME NEW q \in Runs, NEW o \in Offloads
             PROVE  /\ o \in skipped'[q] => ~ Demanded(q, o)'
                    /\ NumReformats + o \in SeqRange(steps'[q]) => Demanded(q, o)'
  BY DEF DecisionsStand
<1>0. /\ o \in skipped[q] => ~ Demanded(q, o)
      /\ NumReformats + o \in SeqRange(steps[q]) => Demanded(q, o)
  BY DEF DecisionsStand
<1>1. CASE pc[q] \in {"idle", "fork"}
  BY <1>1, SkippedStep, NamedStep DEF DemandInv
<1>2. CASE pc[q] \notin {"idle", "fork"}
  <2>1. Demanded(q, o)' <=> Demanded(q, o)
    BY <1>2, FixedStep
  <2>2. ASSUME o \in skipped'[q] PROVE ~ Demanded(q, o)
    BY <1>0, <2>2, SkippedStep
  <2>3. ASSUME NumReformats + o \in SeqRange(steps'[q]) PROVE Demanded(q, o)
    BY <1>0, <2>3, NamedStep DEF DemandInv
  <2> QED
    BY <2>1, <2>2, <2>3
<1> QED
  BY <1>1, <1>2

\* What was archived stays archived: stored or evicted.
LEMMA ArchiveGrows ==
  ASSUME TypeOK, JoinInv, NEW r \in Runs, Step(r)
  PROVE  Stored \union evicted \subseteq (Stored \union evicted)'
<1>1. CASE OffloadStash(r)
  <2>1. onext[r] \in Offloads /\ current[r] \in Contents /\ StorePut(KeyOf(r))
    BY <1>1, Numbers DEF OffloadStash, Offloading, Offloads, TypeOK
  <2> QED
    BY <2>1, KeyOfType, StorePutArchives
<1>2. CASE store' = store /\ evicted' = evicted
  BY <1>2 DEF Stored
<1>3. OffloadStash(r) \/ (store' = store /\ evicted' = evicted)
  BY StepKinds DEF ReturnEmpty, Fork, ForkTurn, ReformatAccept, Join, OffloadTurn, OffloadAccept
<1> QED
  BY <1>1, <1>2, <1>3

\* Stash first, report later.
LEMMA StashedStep ==
  ASSUME TypeOK, JoinInv, StashedFirst, StashedInv, NEW r \in Runs, Step(r)
  PROVE  StashedFirst' /\ StashedInv'
<1> DEFINE A == Stored \union evicted
<1>g. A \subseteq A'
  BY ArchiveGrows
<1>f. ASSUME NEW q \in Runs PROVE SeqRange(keys'[q]) \subseteq A'
  <2>0. SeqRange(keys[q]) \subseteq A
    BY DEF StashedFirst
  <2>1. CASE keys'[q] = keys[q]
    BY <1>g, <2>0, <2>1
  <2>2. ASSUME NEW c \in Contents, OffloadAccept(r, c), q = r
        PROVE  SeqRange(keys'[q]) \subseteq A'
    <3>1. pc[r] = "stashed" /\ keys'[r] = Append(keys[r], KeyOf(r)) /\ keys[r] \in Seq(Keys)
      BY <2>2 DEF OffloadAccept, TypeOK
    <3>2. KeyOf(r) \in A
      BY <3>1 DEF StashedInv
    <3>3. KeyOf(r) \in Keys
      BY <3>1, KeyOfType DEF TypeOK
    <3>4. SeqRange(Append(keys[r], KeyOf(r))) = SeqRange(keys[r]) \union {KeyOf(r)}
      BY <3>1, <3>3, RangeAppend
    <3> QED
      BY <1>g, <2>0, <2>2, <3>1, <3>2, <3>4
  <2>3. keys'[q] = keys[q] \/ (q = r /\ \E c \in Contents : OffloadAccept(r, c))
    <3>1. (\E c \in Contents : ReformatAccept(r, c)) => keys' = keys
      BY DEF ReformatAccept
    <3> QED
      BY <3>1, OnlyAccepts
  <2> QED
    BY <2>1, <2>2, <2>3
<1>s. ASSUME NEW q \in Runs, pc'[q] = "stashed" PROVE KeyOf(q)' \in A'
  <2>1. CASE OffloadStash(r) /\ q = r
    <3>1. onext[r] \in Offloads /\ current[r] \in Contents /\ StorePut(KeyOf(r))
      BY <2>1, Numbers DEF OffloadStash, Offloading, Offloads, TypeOK
    <3>2. KeyOf(r) \in A'
      BY <3>1, KeyOfType, StorePutArchives
    <3>3. KeyOf(r)' = KeyOf(r)
      BY <2>1 DEF OffloadStash, KeyOf
    <3> QED
      BY <2>1, <3>2, <3>3
  <2>2. CASE pc[q] = "stashed" /\ onext'[q] = onext[q] /\ current'[q] = current[q]
    <3>1. KeyOf(q) \in A
      BY <2>2 DEF StashedInv
    <3>2. KeyOf(q)' = KeyOf(q)
      BY <2>2 DEF KeyOf
    <3> QED
      BY <1>g, <3>1, <3>2
  <2>3. (OffloadStash(r) /\ q = r) \/ (pc[q] = "stashed" /\ onext'[q] = onext[q] /\ current'[q] = current[q])
    BY <1>s, StashKinds
  <2> QED
    BY <2>1, <2>2, <2>3
<1> QED
  BY <1>f, <1>s DEF StashedFirst, StashedInv

\* The chain of markers gets one more link.
LEMMA UnwindStep ==
  ASSUME TypeOK, JoinInv, KeysInv, Unwinds, NEW r \in Runs, Step(r)
  PROVE  Unwinds'
<1> DEFINE P(q) == keys[q] # << >> =>
      /\ current[q].mark = keys[q][Len(keys[q])]
      /\ \A i \in 2 .. Len(keys[q]) : Payload(keys[q][i]).mark = keys[q][i - 1]
      /\ Payload(keys[q][1]) = base[q]
<1> SUFFICES ASSUME NEW q \in Runs PROVE P(q)'
  BY DEF Unwinds
<1>0. P(q)
  BY DEF Unwinds
<1>1. CASE keys'[q] = << >>
  BY <1>1
<1>2. CASE keys'[q] = keys[q] /\ current'[q] = current[q] /\ base'[q] = base[q]
  BY <1>0, <1>2
<1>3. ASSUME NEW c \in Contents, OffloadAccept(r, c), q = r
      PROVE  P(q)'
  <2>1. /\ pc[r] = "stashed" /\ current[r] \in Contents
        /\ keys'[r] = Append(keys[r], KeyOf(r)) /\ current'[r] = c /\ base'[r] = base[r]
        /\ c.mark = KeyOf(r)
    BY <1>3 DEF OffloadAccept, TypeOK
  <2>2. KeyOf(r) \in Keys /\ Payload(KeyOf(r)) = current[r]
    BY <2>1, KeyOfType DEF TypeOK
  <2>p. PICK k \in Keys : k = KeyOf(r)
    BY <2>2
  <2>s. PICK s \in Seq(Keys) : s = keys[r]
    BY DEF TypeOK
  <2>3. /\ Len(s) \in Nat
        /\ Len(Append(s, k)) = Len(s) + 1
        /\ \A i \in 1 .. Len(s) : Append(s, k)[i] = s[i]
        /\ Append(s, k)[Len(s) + 1] = k
    BY AppendStep
  <2>4. CASE Len(s) = 0
    <3>1. s = << >>
      BY <2>4
    <3>2. current[r] = base[r]
      BY <2>1, <2>s, <3>1 DEF KeysInv
    <3>3. Append(s, k)[1] = k /\ Len(Append(s, k)) = 1
      BY <2>3, <2>4
    <3>4. 2 .. 1 = {}
      OBVIOUS
    <3> QED
      BY <1>3, <2>1, <2>2, <2>p, <2>s, <3>2, <3>3, <3>4
  <2>5. CASE Len(s) # 0
    <3>1. s # << >>
      BY <2>5
    <3>2. /\ current[r].mark = s[Len(s)]
          /\ \A i \in 2 .. Len(s) : Payload(s[i]).mark = s[i - 1]
          /\ Payload(s[1]) = base[r]
      BY <1>0, <1>3, <2>s, <3>1
    <3>3. ASSUME NEW i \in 2 .. (Len(s) + 1)
          PROVE  Payload(Append(s, k)[i]).mark = Append(s, k)[i - 1]
      <4>1. CASE i = Len(s) + 1
        <5>1. i - 1 = Len(s) /\ Len(s) \in 1 .. Len(s)
          BY <2>3, <2>5, <4>1
        <5> QED
          BY <2>2, <2>3, <2>p, <3>2, <4>1, <5>1
      <4>2. CASE i # Len(s) + 1
        <5>1. i \in 1 .. Len(s) /\ i - 1 \in 1 .. Len(s) /\ i \in 2 .. Len(s)
          BY <2>3, <4>2
        <5> QED
          BY <2>3, <3>2, <5>1
      <4> QED
        BY <4>1, <4>2
    <3>4. Append(s, k)[1] = s[1]
      BY <2>3, <2>5
    <3> QED
      BY <1>3, <2>1, <2>2, <2>3, <2>p, <2>s, <3>2, <3>3, <3>4
  <2> QED
    BY <2>4, <2>5
<1>4. \/ keys'[q] = << >>
      \/ keys'[q] = keys[q] /\ current'[q] = current[q] /\ base'[q] = base[q]
      \/ q = r /\ \E c \in Contents : OffloadAccept(r, c)
  <2>1. CASE \E c \in Inputs : ReturnEmpty(r, c) \/ Fork(r, c)
    BY <2>1 DEF ReturnEmpty, Fork, TypeOK, KeysInv
  <2>2. CASE ForkTurn(r)
    BY <2>2 DEF ForkTurn
  <2>3. CASE \E c \in Contents : ReformatAccept(r, c)
    BY <2>3, InFork DEF ReformatAccept, Reformatting, TypeOK, KeysInv
  <2>4. CASE Join(r)
    BY <2>4 DEF Join, TypeOK, KeysInv
  <2>5. CASE OffloadTurn(r)
    BY <2>5 DEF OffloadTurn
  <2>6. CASE OffloadStash(r)
    BY <2>6 DEF OffloadStash
  <2>7. CASE \E c \in Contents : OffloadAccept(r, c)
    <3>1. PICK c \in Contents : OffloadAccept(r, c)
      BY <2>7
    <3>2. q # r => keys'[q] = keys[q] /\ current'[q] = current[q] /\ base'[q] = base[q]
      BY <3>1 DEF OffloadAccept, TypeOK
    <3> QED
      BY <3>1, <3>2
  <2> QED
    BY <2>1, <2>2, <2>3, <2>4, <2>5, <2>6, <2>7, StepKinds
<1> QED
  BY <1>1, <1>2, <1>3, <1>4

\* Registration order, and one key per offload named.
LEMMA OrderStep ==
  ASSUME TypeOK, JoinInv, KeysInv, StepsInv, StepsInOrder, NEW r \in Runs, Step(r)
  PROVE  StepsInOrder'
<1> DEFINE P(q) ==
      /\ \A i, j \in DOMAIN steps[q] : i < j => steps[q][i] < steps[q][j]
      /\ Len(keys[q]) <= Len(steps[q])
      /\ \A i \in DOMAIN steps[q] :
           steps[q][i] > NumReformats <=> i > Len(steps[q]) - Len(keys[q])
<1> SUFFICES ASSUME NEW q \in Runs PROVE P(q)'
  BY DEF StepsInOrder
<1>0. P(q)
  BY DEF StepsInOrder
<1>1. CASE keys'[q] = keys[q] /\ steps'[q] = steps[q]
  BY <1>0, <1>1
<1>2. ASSUME NEW e \in 1 .. (NumReformats + NumOffloads),
             steps'[q] = Append(steps[q], e),
             \A i \in DOMAIN steps[q] : steps[q][i] < e,
             \/ e <= NumReformats /\ keys[q] = << >> /\ keys'[q] = << >>
             \/ e > NumReformats /\ Len(keys'[q]) = Len(keys[q]) + 1
      PROVE  P(q)'
  <2>s. PICK s \in Seq(1 .. (NumReformats + NumOffloads)) : s = steps[q]
    BY DEF TypeOK
  <2>n. Len(keys[q]) \in Nat /\ Len(keys'[q]) \in Nat
    <3>1. keys[q] \in Seq(Keys)
      BY DEF TypeOK
    <3>2. TypeOK'
      BY TypeStep
    <3>3. keys'[q] \in Seq(Keys)
      BY <3>2 DEF TypeOK
    <3> QED
      BY <3>1, <3>3
  <2>p. PICK m \in Nat, n \in Nat : m = Len(keys[q]) /\ n = Len(keys'[q])
    BY <2>n
  <2>1. /\ DOMAIN s = 1 .. Len(s) /\ Len(s) \in Nat
        /\ DOMAIN Append(s, e) = 1 .. (Len(s) + 1)
        /\ Len(Append(s, e)) = Len(s) + 1
        /\ \A i \in 1 .. Len(s) : Append(s, e)[i] = s[i]
        /\ Append(s, e)[Len(s) + 1] = e
    BY AppendStep
  <2>a. \A i \in 1 .. Len(s) : s[i] \in 1 .. (NumReformats + NumOffloads)
    BY AppendStep
  <2>2. \A i \in 1 .. Len(s) : s[i] \in Nat /\ s[i] < e
    <3>1. \A i \in 1 .. Len(s) : s[i] < e
      BY <1>2, <2>s, <2>1
    <3> QED
      BY <2>a, <3>1, Numbers
  <2>3. \A i \in 1 .. (Len(s) + 1) : i \in 1 .. Len(s) \/ i = Len(s) + 1
    BY <2>1
  <2>4. \A i, j \in 1 .. (Len(s) + 1) : i < j => Append(s, e)[i] < Append(s, e)[j]
    <3>1. \A i, j \in 1 .. Len(s) : i < j => s[i] < s[j]
      BY <1>0, <2>s, <2>1
    <3>2. \A i, j \in 1 .. (Len(s) + 1) : i < j => i \in 1 .. Len(s)
      BY <2>1
    <3> QED
      BY <2>1, <2>2, <2>3, <3>1, <3>2
  <2>5. m <= Len(s) /\ \A i \in 1 .. Len(s) : s[i] > NumReformats <=> i > Len(s) - m
    BY <1>0, <2>s, <2>1, <2>p
  <2>6. CASE e <= NumReformats /\ m = 0 /\ n = 0
    <3>1. \A i \in 1 .. (Len(s) + 1) : Append(s, e)[i] > NumReformats <=> i > (Len(s) + 1) - n
      BY <2>1, <2>2, <2>3, <2>6, Numbers
    <3>2. n <= Len(s) + 1
      BY <2>1, <2>6
    <3> QED
      BY <1>2, <2>s, <2>p, <2>1, <2>4, <3>1, <3>2
  <2>7. CASE e > NumReformats /\ n = m + 1
    <3>1. \A i \in 1 .. (Len(s) + 1) : Append(s, e)[i] > NumReformats <=> i > (Len(s) + 1) - n
      BY <2>1, <2>2, <2>3, <2>5, <2>7, Numbers
    <3>2. n <= Len(s) + 1
      BY <2>1, <2>5, <2>7
    <3> QED
      BY <1>2, <2>s, <2>p, <2>1, <2>4, <3>1, <3>2
  <2>8. Len(<< >>) = 0
    OBVIOUS
  <2> QED
    BY <1>2, <2>p, <2>6, <2>7, <2>8
<1>3. ASSUME NEW c \in Contents, ReformatAccept(r, c), q = r PROVE P(q)'
  <2>1. /\ keys[q] = << >> /\ keys'[q] = << >> /\ steps'[q] = Append(steps[q], rnext[q])
        /\ rnext[q] \in 1 .. (NumReformats + NumOffloads) /\ rnext[q] <= NumReformats
    <3>1. keys[r] = << >>
      BY <1>3, AcceptStep DEF KeysInv
    <3> QED
      BY <1>3, <3>1, AcceptStep
  <2>2. \A i \in DOMAIN steps[q] : steps[q][i] < rnext[q]
    BY <1>3, AcceptStep DEF StepsInv
  <2> QED
    BY <1>2, <2>1, <2>2
<1>4. ASSUME NEW c \in Contents, OffloadAccept(r, c), q = r PROVE P(q)'
  <2>1. /\ pc[q] = "stashed" /\ keys'[q] = Append(keys[q], KeyOf(q))
        /\ steps'[q] = Append(steps[q], NumReformats + onext[q]) /\ onext[q] \in 1 .. NumOffloads
        /\ keys[q] \in Seq(Keys) /\ current[q] \in Contents
    BY <1>4 DEF OffloadAccept, TypeOK, Offloads
  <2>2. \A i \in DOMAIN steps[q] : steps[q][i] < NumReformats + onext[q]
    BY <2>1 DEF StepsInv
  <2>3. KeyOf(q) \in Keys
    BY <2>1, KeyOfType DEF Offloads
  <2>4. Len(Append(keys[q], KeyOf(q))) = Len(keys[q]) + 1
    BY <2>1, <2>3, AppendStep
  <2>5. NumReformats + onext[q] \in 1 .. (NumReformats + NumOffloads)
        /\ NumReformats + onext[q] > NumReformats
    BY <2>1, Numbers
  <2>p. PICK e \in 1 .. (NumReformats + NumOffloads) : e = NumReformats + onext[q]
    BY <2>5
  <2>6. Len(keys'[q]) = Len(keys[q]) + 1 /\ e > NumReformats /\ steps'[q] = Append(steps[q], e)
        /\ \A i \in DOMAIN steps[q] : steps[q][i] < e
    BY <2>1, <2>2, <2>4, <2>5, <2>p
  <2> QED
    BY <1>2, <2>6
<1>5. \/ keys'[q] = keys[q] /\ steps'[q] = steps[q]
      \/ q = r /\ \E c \in Contents : ReformatAccept(r, c) \/ OffloadAccept(r, c)
  BY OnlyAccepts
<1> QED
  BY <1>1, <1>3, <1>4, <1>5

\* The invariant holds at first.
LEMMA InvInit == Init => IInv
<1> SUFFICES ASSUME Init PROVE IInv
  OBVIOUS
<1>1. TypeOK
  BY TypeInit
<1>2. SeqRange(<< >>) = {}
  BY DEF SeqRange
<1>3. Accounting /\ KeysInv /\ StashedInv /\ Unwinds /\ JoinInv
  BY DEF Init, Accounting, KeysInv, StashedInv, Unwinds, JoinInv, Joinable
<1>4. StashedFirst
  BY <1>2 DEF Init, StashedFirst
<1>5. StepsInv
  BY DEF Init, StepsInv
<1>6. StepsInOrder
  BY DEF Init, StepsInOrder
<1>7. DemandInv /\ DecisionsStand
  BY <1>2 DEF Init, DemandInv, DecisionsStand
<1> QED
  BY <1>1, <1>3, <1>4, <1>5, <1>6, <1>7 DEF IInv

\* Every step keeps it.
LEMMA InvStep == IInv /\ [Next]_vars => IInv'
<1> SUFFICES ASSUME IInv, [Next]_vars PROVE IInv'
  OBVIOUS
<1>1. ASSUME NEW r \in Runs, Step(r) PROVE IInv'
  BY <1>1, TypeStep, AccountingStep, KeysStep, StepsStep, StashedStep, OrderStep, UnwindStep,
     JoinStep, DemandStep, DecisionStep DEF IInv
<1>2. CASE UNCHANGED vars
  BY <1>2 DEF vars, runVars, IInv, TypeOK, Accounting, KeysInv, StepsInv, StashedInv,
     StepsInOrder, Unwinds, StashedFirst, JoinInv, Joinable, KeyOf, Stored,
     DemandInv, DecisionsStand, Demanded, AboveThreshold, Underwhelmed
<1> QED
  BY <1>1, <1>2 DEF Next

\* The inductive invariant: the theorems below follow from its
\* conjuncts.
THEOREM Inductive == Spec => []IInv
  BY InvInit, InvStep, PTL DEF Spec

\* Every variable has its type in every state (orchestrator.go:32-149).
THEOREM TypeCorrect == Spec => []TypeOK
<1>1. IInv => TypeOK
  BY DEF IInv
<1> QED
  BY <1>1, Inductive, PTL

\* The reported savings are exact (orchestrator.go:58, 85, 124).
THEOREM AccountingIsExact == Spec => []Accounting
<1>1. IInv => Accounting
  BY DEF IInv
<1> QED
  BY <1>1, Inductive, PTL

\* StepsApplied and CacheKeys agree (orchestrator.go:57, 87-88).
THEOREM StepsAreOrdered == Spec => []StepsInOrder
<1>1. IInv => StepsInOrder
  BY DEF IInv
<1> QED
  BY <1>1, Inductive, PTL

\* The markers of any number of offloads lead back to what the reformats made
\* (traits.go:82-88).
THEOREM MarkersUnwind == Spec => []Unwinds
<1>1. IInv => Unwinds
  BY DEF IInv
<1> QED
  BY <1>1, Inductive, PTL

\* No bytes leave a content that is not stashed (traits.go:154).
THEOREM StashComesFirst == Spec => []StashedFirst
<1>1. IInv => StashedFirst
  BY DEF IInv
<1> QED
  BY <1>1, Inductive, PTL

\* In whatever order the goroutines of a fork return, and whatever the other
\* Runs do, each offload is passed over or applied as all the scores and the
\* outcome of the reformats demand (orchestrator.go:43-75).
THEOREM DecisionsAlwaysStand == Spec => []DecisionsStand
<1>1. IInv => DecisionsStand
  BY DEF IInv
<1> QED
  BY <1>1, Inductive, PTL

\* A product grows with its factor.
LEMMA TimesGrows ==
  ASSUME NEW a \in Nat, NEW b \in Nat, NEW n \in Nat, a <= b
  PROVE  a * n <= b * n
<1>1. b - a \in Nat /\ b = a + (b - a)
  OBVIOUS
<1>p. PICK d \in Nat : b = a + d
  BY <1>1
<1>2. d * n \in Nat /\ (a + d) * n = a * n + d * n
  OBVIOUS
<1> QED
  BY <1>p, <1>2

\* When the reformats reach their target, bloat is the only reason to drop bytes
\* (pipeline.toml:24-27; orchestrator.go:62-73).
THEOREM SuccessIsSpared == Spec => []SuccessSparesOffloads
<1>1. IInv => SuccessSparesOffloads
  <2> SUFFICES ASSUME IInv, TargetPct <= FallbackPct, NEW r \in Runs, keys[r] # << >>,
                      base[r].size * 100 <= TargetPct * input[r].size,
                      NEW o \in Offloads, NumReformats + o \in SeqRange(steps[r])
               PROVE  score[r][o] >= BloatThreshold
    BY DEF SuccessSparesOffloads
  <2>1. pc[r] # "idle" /\ Demanded(r, o)
    BY DEF IInv, DemandInv, DecisionsStand
  <2>2. keys[r] \in Seq(Keys) /\ input[r] \in Contents
    BY <2>1 DEF IInv, TypeOK
  <2>3. keys[r][1] \in Keys
    BY <2>2
  <2>4. base[r] = Payload(keys[r][1])
    BY DEF IInv, Unwinds
  <2>5. base[r] \in Contents
    BY <2>3, <2>4 DEF Keys, Payload
  <2>p. PICK b \in Nat, n \in Nat : b = base[r].size /\ n = input[r].size
    BY <2>2, <2>5, Sizes
  <2>6. TargetPct \in Nat /\ FallbackPct \in Nat
    BY PipelineAssumption
  <2>7. TargetPct * n <= FallbackPct * n
    BY <2>6, TimesGrows
  <2>8. TargetPct * n \in Nat /\ FallbackPct * n \in Nat /\ b * 100 \in Nat
    BY <2>6
  <2>9. ~ (b * 100 > FallbackPct * n)
    BY <2>p, <2>7, <2>8
  <2> QED
    BY <2>1, <2>p, <2>9 DEF Demanded, AboveThreshold, Underwhelmed
<1> QED
  BY <1>1, Inductive, PTL

-----------------------------------------------------------------------------
(* Refinement *)

\* The phase of a Run as its caller sees it.
PhaseOf(p) == IF p \in {"idle", "done"} THEN p ELSE "running"

\* The mapped phases.
Phases == [r \in Runs |-> IF pc[r] \in {"idle", "done"} THEN pc[r] ELSE "running"]

\* The mapped phases, one by one.
LEMMA PhaseAt ==
  \A q \in Runs : Phases[q] = PhaseOf(pc[q])
  BY DEF Phases, PhaseOf

\* A step that leaves the phase of every Run alone.
LEMMA PhasesSame ==
  ASSUME \A q \in Runs : PhaseOf(pc'[q]) = PhaseOf(pc[q])
  PROVE  Phases' = Phases
  BY DEF Phases, PhaseOf

\* A step that changes the phase of one Run.
LEMMA PhasesExcept ==
  ASSUME NEW r \in Runs, NEW p,
         PhaseOf(pc'[r]) = p,
         \A q \in Runs : q # r => pc'[q] = pc[q]
  PROVE  Phases' = [Phases EXCEPT ![r] = p]
  BY DEF Phases, PhaseOf

\* Each step of a Run is a step of Compression or changes nothing there.
LEMMA StepImplements ==
  ASSUME IInv, NEW r \in Runs, Step(r)
  PROVE  [Promise!CompressionNext]_<<Phases, current, keys, Stored \union evicted>>
<1> DEFINE A == Stored \union evicted
<1> DEFINE Goal == [Promise!CompressionNext]_<<Phases, current, keys, A>>
<1>0. TypeOK /\ JoinInv
  BY DEF IInv
<1>e. ASSUME NEW c \in Inputs, ReturnEmpty(r, c) PROVE Goal
  <2>1. Phases' = [Phases EXCEPT ![r] = "done"]
    BY <1>0, <1>e, PhasesExcept DEF ReturnEmpty, TypeOK, PhaseOf
  <2>2. Phases[r] = "idle"
    BY <1>e, PhaseAt DEF ReturnEmpty, PhaseOf
  <2>3. A' = A
    BY <1>e DEF ReturnEmpty, Stored
  <2>4. Promise!AskEmpty(r, c)
    BY <1>e, <2>1, <2>2, <2>3 DEF ReturnEmpty, Promise!AskEmpty, Phases
  <2> QED
    BY <2>4, Sizes DEF Promise!CompressionNext
<1>f. ASSUME NEW c \in Inputs, Fork(r, c) PROVE Goal
  <2>1. Phases' = [Phases EXCEPT ![r] = "running"]
    BY <1>0, <1>f, PhasesExcept DEF Fork, TypeOK, PhaseOf
  <2>2. Phases[r] = "idle"
    BY <1>f, PhaseAt DEF Fork, PhaseOf
  <2>3. A' = A
    BY <1>f DEF Fork, Stored
  <2>4. Promise!Ask(r, c)
    BY <1>f, <2>1, <2>2, <2>3 DEF Fork, Promise!Ask, Phases
  <2> QED
    BY <2>4, Sizes DEF Promise!CompressionNext
<1>t. CASE ForkTurn(r)
  BY <1>t DEF ForkTurn, Phases, Stored
<1>a. ASSUME NEW c \in Contents, ReformatAccept(r, c) PROVE Goal
  <2>1. Phases' = Phases /\ A' = A /\ keys' = keys /\ current' = [current EXCEPT ![r] = c]
    BY <1>a DEF ReformatAccept, Phases, Stored
  <2>2. Phases[r] = "running" /\ keys[r] = << >> /\ current[r] \in Contents
    BY <1>0, <1>a, PhaseAt, InFork DEF ReformatAccept, Reformatting, IInv, KeysInv, TypeOK, PhaseOf
  <2>3. c.size < current[r].size
    BY <1>a, <2>2, SavedShorter DEF ReformatAccept
  <2>4. Promise!Shorten(r, c)
    BY <2>1, <2>2, <2>3 DEF Promise!Shorten, Phases
  <2> QED
    BY <2>4 DEF Promise!CompressionNext
<1>j. CASE Join(r)
  <2>1. Phases' = Phases
    BY <1>0, <1>j, PhasesSame DEF Join, TypeOK, PhaseOf
  <2> QED
    BY <1>j, <2>1 DEF Join, Stored
<1>o. CASE OffloadTurn(r)
  <2>1. current' = current /\ keys' = keys /\ A' = A
    BY <1>o DEF OffloadTurn, Stored
  <2>2. CASE pc'[r] = "offload"
    <3>1. Phases' = Phases
      BY <1>0, <1>o, <2>2, PhasesSame DEF OffloadTurn, TypeOK, PhaseOf
    <3> QED
      BY <2>1, <3>1
  <2>3. CASE pc'[r] = "done"
    <3>1. PhaseOf(pc'[r]) = "done" /\ PhaseOf(pc[r]) = "running"
      BY <1>o, <2>3 DEF OffloadTurn, PhaseOf
    <3>2. \A q \in Runs : q # r => pc'[q] = pc[q]
      BY <1>o DEF OffloadTurn
    <3>3. Phases' = [Phases EXCEPT ![r] = "done"]
      BY <3>1, <3>2, PhasesExcept
    <3>4. Phases[r] = "running"
      BY <3>1, PhaseAt
    <3>5. Promise!Answer(r)
      BY <2>1, <3>3, <3>4 DEF Promise!Answer, Phases
    <3> QED
      BY <3>5 DEF Promise!CompressionNext
  <2> QED
    BY <1>o, <2>2, <2>3 DEF OffloadTurn
<1>s. CASE OffloadStash(r)
  <2>1. onext[r] \in Offloads /\ current[r] \in Contents /\ StorePut(KeyOf(r)) /\ pc[r] = "offload"
    BY <1>0, <1>s, Numbers DEF OffloadStash, Offloading, Offloads, TypeOK
  <2>2. KeyOf(r) \in Keys /\ Payload(KeyOf(r)) = current[r]
    BY <1>0, <2>1, KeyOfType
  <2>3. A' = A \union {KeyOf(r)}
    BY <1>0, <2>1, <2>2, StorePutArchives
  <2>4. Phases' = Phases
    BY <1>0, <1>s, <2>1, PhasesSame DEF OffloadStash, TypeOK, PhaseOf
  <2>5. Phases[r] = "running"
    BY <2>1, PhaseAt DEF PhaseOf
  <2>6. Promise!Archive(r, KeyOf(r))
    BY <1>s, <2>2, <2>3, <2>4, <2>5 DEF OffloadStash, Promise!Archive, Promise!Payload, Payload, Phases
  <2> QED
    BY <2>2, <2>6 DEF Promise!CompressionNext
<1>k. ASSUME NEW c \in Contents, OffloadAccept(r, c) PROVE Goal
  <2>1. pc[r] = "stashed" /\ current[r] \in Contents /\ onext[r] \in Offloads /\ c.mark = KeyOf(r)
    BY <1>0, <1>k DEF OffloadAccept, TypeOK
  <2>2. Payload(KeyOf(r)) = current[r] /\ KeyOf(r) \in A
    BY <1>0, <2>1, KeyOfType DEF IInv, StashedInv
  <2>3. Phases' = Phases
    BY <1>0, <1>k, <2>1, PhasesSame DEF OffloadAccept, TypeOK, PhaseOf
  <2>4. Phases[r] = "running" /\ A' = A
    BY <1>k, <2>1, PhaseAt DEF PhaseOf, OffloadAccept, Stored
  <2>5. c.size < current[r].size
    BY <1>k, <2>1, SavedShorter DEF OffloadAccept
  <2>6. current' = [current EXCEPT ![r] = c] /\ keys' = [keys EXCEPT ![r] = Append(@, c.mark)]
    BY <1>k, <2>1 DEF OffloadAccept
  <2>7. Promise!Replace(r, c)
    BY <2>1, <2>2, <2>3, <2>4, <2>5, <2>6 DEF Promise!Replace, Promise!Payload, Payload, Phases
  <2> QED
    BY <2>7 DEF Promise!CompressionNext
<1> QED
  BY <1>0, <1>e, <1>f, <1>t, <1>a, <1>j, <1>o, <1>s, <1>k, StepKinds

\* The pipeline implements its promise, for any number of concurrent Runs and
\* any capacity of the store (orchestrator.go:32-97).
THEOREM Implements == Spec => ImplementsCompression
<1>1. Init => Promise!CompressionInit
  <2> SUFFICES ASSUME Init PROVE Promise!CompressionInit
    OBVIOUS
  <2>1. Stored \union evicted = {}
    BY DEF Init, Stored, SeqRange
  <2>2. Phases = [r \in Runs |-> "idle"]
    BY DEF Init, Phases
  <2> QED
    BY <2>1, <2>2 DEF Init, Promise!CompressionInit, Phases
<1>2. IInv /\ [Next]_vars => [Promise!CompressionNext]_(Promise!compressionVars)
  <2> SUFFICES ASSUME IInv, [Next]_vars
               PROVE  [Promise!CompressionNext]_<<Phases, current, keys, Stored \union evicted>>
    BY DEF Promise!compressionVars, Phases
  <2>1. CASE Next
    BY <2>1, StepImplements DEF Next
  <2>2. CASE UNCHANGED vars
    BY <2>2 DEF vars, runVars, Phases, Stored
  <2> QED
    BY <2>1, <2>2
<1> QED
  BY <1>1, <1>2, Inductive, PTL DEF Spec, ImplementsCompression, Promise!CompressionSpec
=============================================================================
