------------------------ MODULE DeterminismValidator ------------------------
(***************************************************************************)
(* DeterminismValidator<A> with the XOR accumulator it is used with        *)
(* (src/src/Core/src/Public/Validator.h and HadesHash.h).                  *)
(*                                                                         *)
(* Each slice feeds the hash of the fixture's output into the accumulator; *)
(* validateSlice takes the combined hash out, makes the first one the      *)
(* reference and compares every later one with it.  A hash is the set of   *)
(* its one bits, so XOR is the symmetric difference.                       *)
(***************************************************************************)
EXTENDS Naturals, SequencesExt, FiniteSetsExt

CONSTANTS
  Bits,            \* the bits of a hash
  MaxUniqueHashes  \* MAX_UNIQUE_HASHES

ASSUME ValidatorAssumption == MaxUniqueHashes \in Nat \ {0}

Hashes == SUBSET Bits
EmptyHash == {}

VARIABLES
  accumulator,           \* m_state of the XorHashAccumulator
  referenceHash,
  hasReference,
  deterministic,
  uniqueHashes,          \* m_uniqueHashes[0 .. m_uniqueHashCount - 1]
  firstDivergenceSlice,
  currentSlice

validator == <<accumulator, referenceHash, hasReference, deterministic, uniqueHashes,
               firstDivergenceSlice, currentSlice>>

ValidatorInit ==
  /\ accumulator = EmptyHash
  /\ referenceHash = EmptyHash /\ hasReference = FALSE
  /\ deterministic = TRUE
  /\ uniqueHashes = <<>>
  /\ firstDivergenceSlice = 0 /\ currentSlice = 0

uniqueHashCount == Len(uniqueHashes)

\* Slip: a hash beyond the capacity is written past the array.
Track_Unbounded(hashes, h) == IF Contains(hashes, h) THEN hashes ELSE Append(hashes, h)

\* Slip: a hash already tracked is tracked again.
Track_Duplicates(hashes, h) ==
  IF Len(hashes) = MaxUniqueHashes THEN hashes ELSE Append(hashes, h)

\* internalTrackUniqueHash: hashes beyond the capacity are dropped silently.
Track(hashes, h) ==
  IF Contains(hashes, h) \/ Len(hashes) = MaxUniqueHashes THEN hashes ELSE Append(hashes, h)

FeedThreadHash(h) ==
  /\ accumulator' = SymDiff(accumulator, h)
  /\ UNCHANGED <<referenceHash, hasReference, deterministic, uniqueHashes,
                 firstDivergenceSlice, currentSlice>>

\* Slip: finalize returns the combined hash and keeps it.
Finalize_Kept ==
  /\ UNCHANGED accumulator
  /\ currentSlice' = currentSlice + 1

\* Every validateSlice empties the accumulator and counts the slice.
Finalize ==
  /\ accumulator' = EmptyHash
  /\ currentSlice' = currentSlice + 1

SetReference ==
  /\ ~hasReference
  /\ Finalize
  /\ referenceHash' = accumulator /\ hasReference' = TRUE
  /\ uniqueHashes' = Track(uniqueHashes, accumulator)
  /\ UNCHANGED <<deterministic, firstDivergenceSlice>>

\* Slip: a slice that matches the reference is not counted.
MatchReference_Uncounted ==
  /\ hasReference /\ accumulator = referenceHash
  /\ accumulator' = EmptyHash
  /\ UNCHANGED <<referenceHash, hasReference, deterministic, uniqueHashes,
                 firstDivergenceSlice, currentSlice>>

MatchReference ==
  /\ hasReference /\ accumulator = referenceHash
  /\ Finalize
  /\ UNCHANGED <<referenceHash, hasReference, deterministic, uniqueHashes,
                 firstDivergenceSlice>>

\* Slip: every divergence is taken for the first.
Diverge_Latest ==
  /\ hasReference /\ accumulator # referenceHash
  /\ Finalize
  /\ deterministic' = FALSE
  /\ firstDivergenceSlice' = currentSlice
  /\ uniqueHashes' = Track(uniqueHashes, accumulator)
  /\ UNCHANGED <<referenceHash, hasReference>>

\* Slip: only the first divergence is tracked.
Diverge_TrackedOnce ==
  /\ hasReference /\ accumulator # referenceHash
  /\ Finalize
  /\ deterministic' = FALSE
  /\ firstDivergenceSlice' = IF deterministic THEN currentSlice ELSE firstDivergenceSlice
  /\ uniqueHashes' = IF deterministic THEN Track(uniqueHashes, accumulator) ELSE uniqueHashes
  /\ UNCHANGED <<referenceHash, hasReference>>

Diverge ==
  /\ hasReference /\ accumulator # referenceHash
  /\ Finalize
  /\ deterministic' = FALSE
  /\ firstDivergenceSlice' = IF deterministic THEN currentSlice ELSE firstDivergenceSlice
  /\ uniqueHashes' = Track(uniqueHashes, accumulator)
  /\ UNCHANGED <<referenceHash, hasReference>>

ValidateSlice == SetReference \/ MatchReference \/ Diverge
=============================================================================
