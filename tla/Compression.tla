---------------------------- MODULE Compression ----------------------------
(***************************************************************************)
(* What a compression of the pipeline promises the caller who puts its     *)
(* result on the wire (core/transforms/pipeline, traits.go): the content   *)
(* only shrinks; a lossless step may shorten it until the first lossy one; *)
(* a lossy step replaces it by a shorter content that ends with the key of *)
(* exactly what it replaced, and that key has been archived before.        *)
(*                                                                         *)
(* A content is a record with its size and its mark: the key in the CCR    *)
(* marker it ends with.  A key is the hash kind and the content hashed.    *)
(***************************************************************************)
EXTENDS Integers, Sequences

CONSTANTS
  Runs,      \* the compressions
  Contents,  \* the contents
  Keys,      \* the keys: pairs of a hash kind and a content
  NoContent  \* no content

VARIABLES
  phase,     \* "idle", "running" or "done"
  wire,      \* the content as it stands
  trail,     \* the keys of the lossy steps, in their order
  archive    \* every key that has been archived

compressionVars == <<phase, wire, trail, archive>>

Payload(k) == k[2]

CompressionInit ==
  /\ phase = [r \in Runs |-> "idle"]
  /\ wire = [r \in Runs |-> NoContent]
  /\ trail = [r \in Runs |-> << >>]
  /\ archive = {}

\* A compression is asked for.
Ask(r, c) ==
  /\ phase[r] = "idle"
  /\ phase' = [phase EXCEPT ![r] = "running"]
  /\ wire' = [wire EXCEPT ![r] = c]
  /\ UNCHANGED <<trail, archive>>

\* Empty content needs no compression.
AskEmpty(r, c) ==
  /\ phase[r] = "idle"
  /\ c.size = 0
  /\ phase' = [phase EXCEPT ![r] = "done"]
  /\ wire' = [wire EXCEPT ![r] = c]
  /\ UNCHANGED <<trail, archive>>

\* A lossless step.
Shorten(r, c) ==
  /\ phase[r] = "running"
  /\ trail[r] = << >>
  /\ c.size < wire[r].size
  /\ wire' = [wire EXCEPT ![r] = c]
  /\ UNCHANGED <<phase, trail, archive>>

\* The content of a running compression is archived, maybe to no purpose.
Archive(r, k) ==
  /\ phase[r] = "running"
  /\ Payload(k) = wire[r]
  /\ archive' = archive \union {k}
  /\ UNCHANGED <<phase, wire, trail>>

\* A lossy step.
Replace(r, c) ==
  /\ phase[r] = "running"
  /\ c.size < wire[r].size
  /\ c.mark \in archive
  /\ Payload(c.mark) = wire[r]
  /\ wire' = [wire EXCEPT ![r] = c]
  /\ trail' = [trail EXCEPT ![r] = Append(@, c.mark)]
  /\ UNCHANGED <<phase, archive>>

\* The result is returned.
Answer(r) ==
  /\ phase[r] = "running"
  /\ phase' = [phase EXCEPT ![r] = "done"]
  /\ UNCHANGED <<wire, trail, archive>>

CompressionNext ==
  \E r \in Runs :
    \/ \E c \in Contents :
         Ask(r, c) \/ AskEmpty(r, c) \/ Shorten(r, c) \/ Replace(r, c)
    \/ \E k \in Keys : Archive(r, k)
    \/ Answer(r)

CompressionSpec == CompressionInit /\ [][CompressionNext]_compressionVars
=============================================================================
