-------------------------- MODULE DivergenceHistory --------------------------
(***************************************************************************)
(* What DeterminismValidator promises about a whole run: its few fields    *)
(* against the complete history of the output hashes of the slices.  The   *)
(* run feeds one hash per slice, then validates (SequentialRunner.h, run). *)
(***************************************************************************)
EXTENDS DeterminismValidator

CONSTANT SliceLimit  \* bound on the slices of a run

ASSUME SliceLimitAssumption == SliceLimit \in Nat

VARIABLES
  history,  \* history: the hash of every slice validated so far, in order
  fed       \* the hash fed for the slice in progress, in a sequence of at most one

hvars == <<validator, history, fed>>

HInit == ValidatorInit /\ history = <<>> /\ fed = <<>>

FeedHash(h) ==
  /\ fed = <<>> /\ Len(history) < SliceLimit
  /\ FeedThreadHash(h)
  /\ fed' = <<h>>
  /\ UNCHANGED history

Validate ==
  /\ fed # <<>>
  /\ ValidateSlice
  /\ history' = history \o fed
  /\ fed' = <<>>

HNext == (\E h \in Hashes : FeedHash(h)) \/ Validate

HSpec == HInit /\ [][HNext]_hvars

-----------------------------------------------------------------------------
\* Every variable keeps its type, and the tracked hashes fit into m_uniqueHashes.
HTypeOK ==
  /\ accumulator \in Hashes /\ referenceHash \in Hashes
  /\ hasReference \in BOOLEAN /\ deterministic \in BOOLEAN
  /\ uniqueHashes \in Seq(Hashes) /\ uniqueHashCount <= MaxUniqueHashes
  /\ firstDivergenceSlice \in Nat /\ currentSlice \in Nat
  /\ history \in Seq(Hashes)
  /\ fed \in {<<>>} \union {<<h>> : h \in Hashes}

Diverging == {n \in DOMAIN history : history[n] # history[1]}

\* The run is reported deterministic exactly when no slice hashed differently from the
\* first: no divergence is missed or undone, and no leftover of an earlier slice in the
\* accumulator raises a false alarm.
DeterministicIffAllAgree == deterministic <=> Diverging = {}

\* firstDivergenceSlice names the earliest diverging slice, counted from zero; zero, the
\* slice that set the reference, is free to mean that there is none.
FirstDivergenceIsEarliest ==
  IF Diverging = {} THEN firstDivergenceSlice = 0
  ELSE /\ firstDivergenceSlice + 1 \in Diverging
       /\ \A n \in Diverging : firstDivergenceSlice + 1 <= n

\* uniqueHashCount counts each hash of the run once, reference included, and saturates
\* at the capacity of the array instead of writing past it.
UniqueHashesAreCounted ==
  LET distinct == {history[n] : n \in DOMAIN history}
      seen     == {uniqueHashes[n] : n \in DOMAIN uniqueHashes}
  IN  /\ seen \subseteq distinct
      /\ uniqueHashCount = Cardinality(seen)
      /\ uniqueHashCount < MaxUniqueHashes => seen = distinct
=============================================================================
