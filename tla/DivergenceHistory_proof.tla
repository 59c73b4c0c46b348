---------------------- MODULE DivergenceHistory_proof ----------------------
(***************************************************************************)
(* The verdict of DeterminismValidator is that of the whole history, for   *)
(* every set of bits, every capacity and every number of slices.           *)
(***************************************************************************)
EXTENDS DivergenceHistory, FiniteSetTheorems, TLAPS

-----------------------------------------------------------------------------
(* Tracking the distinct hashes in an array of fixed size                  *)
(* (internalTrackUniqueHash of Validator.h), for any hashes and capacity.  *)

Elements(s) == {s[n] : n \in DOMAIN s}

\* Appending adds one element.
LEMMA ElementsOfAppend ==
  ASSUME NEW s \in Seq(Hashes), NEW h \in Hashes
  PROVE  /\ Append(s, h) \in Seq(Hashes)
         /\ Len(Append(s, h)) = Len(s) + 1
         /\ Elements(Append(s, h)) = Elements(s) \union {h}
         /\ \A n \in DOMAIN s : Append(s, h)[n] = s[n]
         /\ Append(s, h)[Len(s) + 1] = h
BY DEF Elements

\* Track keeps the hashes distinct, within the capacity, and drops none while there is room.
LEMMA TrackCounts ==
  ASSUME NEW s \in Seq(Hashes), NEW h \in Hashes,
         IsFiniteSet(Elements(s)), Len(s) = Cardinality(Elements(s)), Len(s) <= MaxUniqueHashes
  PROVE  LET t == Track(s, h)
         IN  /\ t \in Seq(Hashes)
             /\ IsFiniteSet(Elements(t)) /\ Len(t) = Cardinality(Elements(t))
             /\ Len(t) <= MaxUniqueHashes
             /\ Elements(s) \subseteq Elements(t)
             /\ Elements(t) \subseteq Elements(s) \union {h}
             /\ Len(t) < MaxUniqueHashes => Len(s) < MaxUniqueHashes /\ h \in Elements(t)
<1>1. CASE Contains(s, h)
  <2>1. h \in Elements(s)
    BY <1>1 DEF Contains, Elements
  <2>2. Track(s, h) = s
    BY <1>1 DEF Track
  <2> QED
    BY <2>1, <2>2
<1>2. CASE ~Contains(s, h) /\ Len(s) = MaxUniqueHashes
  <2>1. Track(s, h) = s
    BY <1>2 DEF Track
  <2>2. ~(Len(s) < MaxUniqueHashes)
    BY <1>2, ValidatorAssumption
  <2> QED
    BY <2>1, <2>2
<1>3. CASE ~Contains(s, h) /\ Len(s) # MaxUniqueHashes
  <2>1. Track(s, h) = Append(s, h)
    BY <1>3 DEF Track
  <2>2. h \notin Elements(s)
    <3>1. \A i \in 1 .. Len(s) : s[i] # h
      BY <1>3 DEF Contains
    <3>2. DOMAIN s = 1 .. Len(s)
      OBVIOUS
    <3> QED
      BY <3>1, <3>2 DEF Elements
  <2>3. /\ IsFiniteSet(Elements(s) \union {h})
        /\ Cardinality(Elements(s) \union {h}) = Cardinality(Elements(s)) + 1
    BY <2>2, FS_AddElement
  <2>4. Len(s) < MaxUniqueHashes /\ Len(s) + 1 <= MaxUniqueHashes
    BY <1>3, ValidatorAssumption
  <2>5. /\ Append(s, h) \in Seq(Hashes)
        /\ Len(Append(s, h)) = Len(s) + 1
        /\ Elements(Append(s, h)) = Elements(s) \union {h}
    BY ElementsOfAppend
  <2> QED
    BY <2>1, <2>2, <2>3, <2>4, <2>5
<1> QED
  BY <1>1, <1>2, <1>3

-----------------------------------------------------------------------------
(* What the fields say of the history.                                     *)
Distinct == {history[n] : n \in DOMAIN history}
Seen     == {uniqueHashes[n] : n \in DOMAIN uniqueHashes}

\* What the fields of the validator say of the history between two calls.
FieldsFollowHistory ==
  /\ accumulator = IF fed = <<>> THEN EmptyHash ELSE fed[1]
  /\ currentSlice = Len(history)
  /\ hasReference <=> history # <<>>
  /\ history # <<>> => referenceHash = history[1]
  /\ IsFiniteSet(Seen)
  /\ ~hasReference => uniqueHashes = <<>>

HInv ==
  /\ HTypeOK
  /\ FieldsFollowHistory
  /\ DeterministicIffAllAgree
  /\ FirstDivergenceIsEarliest
  /\ UniqueHashesAreCounted

-----------------------------------------------------------------------------
(* HInv is inductive. *)

LEMMA InitHInv == HInit => HInv
<1> SUFFICES ASSUME HInit PROVE HInv
  OBVIOUS
<1>1. HTypeOK
  <2>1. accumulator \in Hashes /\ referenceHash \in Hashes
    BY DEF HInit, ValidatorInit, Hashes, EmptyHash
  <2>2. hasReference \in BOOLEAN /\ deterministic \in BOOLEAN
    BY DEF HInit, ValidatorInit
  <2>3. uniqueHashes \in Seq(Hashes) /\ history \in Seq(Hashes)
    BY DEF HInit, ValidatorInit
  <2>4. uniqueHashCount <= MaxUniqueHashes
    BY ValidatorAssumption DEF HInit, ValidatorInit, uniqueHashCount
  <2> QED
    BY <2>1, <2>2, <2>3, <2>4 DEF HInit, ValidatorInit, HTypeOK
<1>2. Seen = {} /\ Distinct = {} /\ Diverging = {}
  BY DEF HInit, ValidatorInit, Seen, Distinct, Diverging
<1>3. FieldsFollowHistory
  BY <1>2, FS_EmptySet DEF HInit, ValidatorInit, FieldsFollowHistory
<1>4. DeterministicIffAllAgree /\ FirstDivergenceIsEarliest
  BY <1>2 DEF HInit, ValidatorInit, DeterministicIffAllAgree, FirstDivergenceIsEarliest
<1>5. UniqueHashesAreCounted
  BY <1>2, FS_EmptySet
  DEF HInit, ValidatorInit, UniqueHashesAreCounted, uniqueHashCount, Seen, Distinct
<1> QED
  BY <1>1, <1>3, <1>4, <1>5 DEF HInv

LEMMA FeedHashHInv ==
  ASSUME HInv, NEW h \in Hashes, FeedHash(h)
  PROVE  HInv'
<1> USE DEF FeedHash, FeedThreadHash
<1>1. accumulator' = h
  BY DEF HInv, FieldsFollowHistory, SymDiff, EmptyHash, Hashes
<1>2. fed' = <<h>> /\ fed' # <<>> /\ fed'[1] = h
  OBVIOUS
<1>3. HTypeOK'
  BY <1>1 DEF HInv, HTypeOK, uniqueHashCount
<1>4. FieldsFollowHistory'
  BY <1>1, <1>2 DEF HInv, FieldsFollowHistory, Seen
<1>5. Diverging' = Diverging
  BY DEF Diverging
<1>6. DeterministicIffAllAgree' /\ FirstDivergenceIsEarliest'
  BY <1>5 DEF HInv, DeterministicIffAllAgree, FirstDivergenceIsEarliest
<1>7. UniqueHashesAreCounted'
  BY DEF HInv, UniqueHashesAreCounted, uniqueHashCount
<1> QED
  BY <1>3, <1>4, <1>6, <1>7 DEF HInv

\* Validate appends the hash in the accumulator to the history and empties the accumulator.
LEMMA ValidateAppends ==
  ASSUME HInv, Validate
  PROVE  /\ accumulator \in Hashes
         /\ history' = Append(history, accumulator)
         /\ history' \in Seq(Hashes) /\ history' # <<>>
         /\ Len(history') = Len(history) + 1 /\ Len(history) \in Nat
         /\ \A n \in DOMAIN history : history'[n] = history[n]
         /\ history'[Len(history')] = accumulator
         /\ history # <<>> => history'[1] = history[1]
         /\ DOMAIN history = 1 .. Len(history) /\ DOMAIN history' = 1 .. Len(history')
         /\ Distinct' = Distinct \union {accumulator}
         /\ fed' = <<>>
<1>1. accumulator \in Hashes /\ history \in Seq(Hashes)
  BY DEF HInv, HTypeOK
<1>2. fed = <<accumulator>>
  BY DEF Validate, HInv, HTypeOK, FieldsFollowHistory
<1>3. history' = Append(history, accumulator)
  BY <1>1, <1>2 DEF Validate
<1>4. Distinct' = Distinct \union {accumulator}
  BY <1>1, <1>3, ElementsOfAppend DEF Distinct, Elements
<1> QED
  BY <1>1, <1>3, <1>4, ElementsOfAppend DEF Validate

\* How the set of diverging slices grows.
LEMMA DivergingGrows ==
  ASSUME HInv, Validate
  PROVE  Diverging' = IF ~hasReference \/ accumulator = referenceHash THEN Diverging
                      ELSE Diverging \union {Len(history) + 1}
<1>1. CASE ~hasReference
  <2>1. history = <<>>
    BY <1>1 DEF HInv, FieldsFollowHistory
  <2>2. Len(history') = 1
    BY <2>1, ValidateAppends
  <2> QED
    BY <1>1, <2>1, <2>2, ValidateAppends DEF Diverging
<1>2. CASE hasReference
  <2>1. history # <<>> /\ referenceHash = history[1] /\ history'[1] = history[1]
    BY <1>2, ValidateAppends DEF HInv, FieldsFollowHistory
  <2>2. ASSUME NEW n \in DOMAIN history'
        PROVE  n \in Diverging' <=>
                 \/ n \in Diverging
                 \/ n = Len(history) + 1 /\ accumulator # referenceHash
    BY <2>1, ValidateAppends DEF Diverging
  <2>3. Diverging' \subseteq DOMAIN history' /\ Diverging \subseteq DOMAIN history
    BY DEF Diverging
  <2>4. DOMAIN history' = DOMAIN history \union {Len(history) + 1}
    BY ValidateAppends
  <2> QED
    BY <1>2, <2>2, <2>3, <2>4
<1> QED
  BY <1>1, <1>2

\* The reading of UniqueHashesAreCounted with the names of this module.
LEMMA CountedMeans ==
  UniqueHashesAreCounted <=>
    /\ Seen \subseteq Distinct
    /\ Len(uniqueHashes) = Cardinality(Seen)
    /\ Len(uniqueHashes) < MaxUniqueHashes => Seen = Distinct
BY DEF UniqueHashesAreCounted, Seen, Distinct, uniqueHashCount

\* What SetReference and Diverge do to the tracked hashes.
LEMMA TrackedHInv ==
  ASSUME HInv, Validate, uniqueHashes' = Track(uniqueHashes, accumulator)
  PROVE  /\ uniqueHashes' \in Seq(Hashes) /\ Len(uniqueHashes') <= MaxUniqueHashes
         /\ IsFiniteSet(Seen')
         /\ UniqueHashesAreCounted'
<1>1. /\ Seen \subseteq Distinct
      /\ Len(uniqueHashes) = Cardinality(Seen)
      /\ Len(uniqueHashes) < MaxUniqueHashes => Seen = Distinct
  BY CountedMeans DEF HInv
<1>2. /\ uniqueHashes \in Seq(Hashes) /\ Len(uniqueHashes) <= MaxUniqueHashes
      /\ accumulator \in Hashes /\ IsFiniteSet(Seen)
  BY DEF HInv, HTypeOK, FieldsFollowHistory, uniqueHashCount
<1>3. Seen = Elements(uniqueHashes) /\ Seen' = Elements(uniqueHashes')
  BY DEF Seen, Elements
<1>4. /\ uniqueHashes' \in Seq(Hashes)
      /\ IsFiniteSet(Seen') /\ Len(uniqueHashes') = Cardinality(Seen')
      /\ Len(uniqueHashes') <= MaxUniqueHashes
      /\ Seen \subseteq Seen' /\ Seen' \subseteq Seen \union {accumulator}
      /\ Len(uniqueHashes') < MaxUniqueHashes =>
            Len(uniqueHashes) < MaxUniqueHashes /\ accumulator \in Seen'
  BY <1>1, <1>2, <1>3, TrackCounts
<1>5. Distinct' = Distinct \union {accumulator}
  BY ValidateAppends
<1>6. Len(uniqueHashes') < MaxUniqueHashes => Seen' = Distinct'
  BY <1>1, <1>4, <1>5
<1>7. (/\ Seen \subseteq Distinct
       /\ Len(uniqueHashes) = Cardinality(Seen)
       /\ Len(uniqueHashes) < MaxUniqueHashes => Seen = Distinct)'
  BY <1>1, <1>4, <1>5, <1>6
<1>8. UniqueHashesAreCounted'
  BY <1>7, CountedMeans, PTL
<1> QED
  BY <1>4, <1>8

LEMMA SetReferenceHInv ==
  ASSUME HInv, Validate, SetReference
  PROVE  HInv'
<1> USE DEF SetReference, Finalize
<1>1. HTypeOK'
  BY TrackedHInv, ValidateAppends DEF HInv, HTypeOK, uniqueHashCount, Hashes, EmptyHash
<1>2. FieldsFollowHistory'
  <2>1. history = <<>>
    BY DEF HInv, FieldsFollowHistory
  <2>2. history'[1] = accumulator
    BY <2>1, ValidateAppends
  <2> QED
    BY <2>2, TrackedHInv, ValidateAppends DEF HInv, FieldsFollowHistory
<1>3. Diverging' = Diverging
  BY DivergingGrows
<1>4. DeterministicIffAllAgree' /\ FirstDivergenceIsEarliest'
  BY <1>3 DEF HInv, DeterministicIffAllAgree, FirstDivergenceIsEarliest
<1> QED
  BY <1>1, <1>2, <1>4, TrackedHInv DEF HInv

LEMMA MatchReferenceHInv ==
  ASSUME HInv, Validate, MatchReference
  PROVE  HInv'
<1> USE DEF MatchReference, Finalize
<1>1. HTypeOK'
  BY ValidateAppends DEF HInv, HTypeOK, uniqueHashCount, Hashes, EmptyHash
<1>2. history # <<>> /\ referenceHash = history[1]
  BY DEF HInv, FieldsFollowHistory
<1>3. FieldsFollowHistory'
  BY <1>2, ValidateAppends DEF HInv, FieldsFollowHistory, Seen
<1>4. Diverging' = Diverging
  BY DivergingGrows
<1>5. DeterministicIffAllAgree' /\ FirstDivergenceIsEarliest'
  BY <1>4 DEF HInv, DeterministicIffAllAgree, FirstDivergenceIsEarliest
<1>6. Distinct' = Distinct /\ Seen' = Seen
  <2>1. 1 \in DOMAIN history
    BY <1>2 DEF HInv, HTypeOK
  <2>2. accumulator \in Distinct
    BY <1>2, <2>1 DEF Distinct
  <2> QED
    BY <2>2, ValidateAppends DEF Seen
<1>7. (/\ Seen \subseteq Distinct
       /\ Len(uniqueHashes) = Cardinality(Seen)
       /\ Len(uniqueHashes) < MaxUniqueHashes => Seen = Distinct)'
  BY <1>6, CountedMeans DEF HInv
<1>8. UniqueHashesAreCounted'
  BY <1>7, CountedMeans, PTL
<1> QED
  BY <1>1, <1>3, <1>5, <1>8 DEF HInv

LEMMA DivergeHInv ==
  ASSUME HInv, Validate, Diverge
  PROVE  HInv'
<1> USE DEF Diverge, Finalize
<1>1. HTypeOK'
  <2>1. accumulator' \in Hashes
    BY DEF Hashes, EmptyHash
  <2>2. /\ referenceHash' \in Hashes /\ currentSlice' \in Nat
        /\ firstDivergenceSlice' \in Nat
    BY DEF HInv, HTypeOK
  <2>3. hasReference' \in BOOLEAN /\ deterministic' \in BOOLEAN
    BY DEF HInv, HTypeOK
  <2>4. uniqueHashes' \in Seq(Hashes) /\ Len(uniqueHashes') <= MaxUniqueHashes
    BY TrackedHInv
  <2> QED
    BY <2>1, <2>2, <2>3, <2>4, ValidateAppends DEF HTypeOK, uniqueHashCount
<1>2. FieldsFollowHistory'
  BY TrackedHInv, ValidateAppends DEF HInv, FieldsFollowHistory
<1>3. Diverging' = Diverging \union {Len(history) + 1}
  BY DivergingGrows
<1>4. DeterministicIffAllAgree'
  BY <1>3 DEF DeterministicIffAllAgree
<1>5. FirstDivergenceIsEarliest'
  <2>1. /\ currentSlice = Len(history) /\ Len(history) \in Nat
        /\ Diverging \subseteq 1 .. Len(history)
    BY ValidateAppends DEF HInv, FieldsFollowHistory, Diverging
  <2>2. deterministic <=> Diverging = {}
    BY DEF HInv, DeterministicIffAllAgree
  <2>3. firstDivergenceSlice \in Nat /\ firstDivergenceSlice' \in Nat
    BY <1>1 DEF HInv, HTypeOK
  <2>4. CASE deterministic
    BY <1>3, <2>1, <2>2, <2>4 DEF FirstDivergenceIsEarliest
  <2>5. CASE ~deterministic
    BY <1>3, <2>1, <2>2, <2>3, <2>5 DEF HInv, FirstDivergenceIsEarliest
  <2> QED
    BY <2>4, <2>5
<1> QED
  BY <1>1, <1>2, <1>4, <1>5, TrackedHInv DEF HInv

LEMMA NextHInv == HInv /\ [HNext]_hvars => HInv'
<1> SUFFICES ASSUME HInv, [HNext]_hvars PROVE HInv'
  OBVIOUS
<1>1. CASE \E h \in Hashes : FeedHash(h)
  BY <1>1, FeedHashHInv
<1>2. CASE Validate
  BY <1>2, SetReferenceHInv, MatchReferenceHInv, DivergeHInv DEF Validate, ValidateSlice
<1>3. CASE UNCHANGED hvars
  <2> USE <1>3 DEF hvars, validator
  <2>1. Diverging' = Diverging /\ Seen' = Seen
    BY DEF Diverging, Seen
  <2>2. HTypeOK' /\ FieldsFollowHistory'
    BY <2>1 DEF HInv, HTypeOK, FieldsFollowHistory, uniqueHashCount
  <2>3. DeterministicIffAllAgree' /\ FirstDivergenceIsEarliest'
    BY <2>1 DEF HInv, DeterministicIffAllAgree, FirstDivergenceIsEarliest
  <2>4. UniqueHashesAreCounted'
    BY DEF HInv, UniqueHashesAreCounted, uniqueHashCount
  <2> QED
    BY <2>2, <2>3, <2>4 DEF HInv
<1> QED
  BY <1>1, <1>2, <1>3 DEF HNext

-----------------------------------------------------------------------------
LEMMA AlwaysHInv == HSpec => []HInv
BY InitHInv, NextHInv, PTL DEF HSpec

\* The validator's fields keep their types; no tracked hash is ever written past the array.
THEOREM HistoryTypeCorrect == HSpec => []HTypeOK
<1>1. HInv => HTypeOK
  BY DEF HInv
<1> QED
  BY <1>1, AlwaysHInv, PTL

\* A run is called deterministic exactly when all its slices hashed alike.
THEOREM VerdictIsExact == HSpec => []DeterministicIffAllAgree
<1>1. HInv => DeterministicIffAllAgree
  BY DEF HInv
<1> QED
  BY <1>1, AlwaysHInv, PTL

\* The first divergence reported is the earliest there was.
THEOREM FirstDivergenceIsExact == HSpec => []FirstDivergenceIsEarliest
<1>1. HInv => FirstDivergenceIsEarliest
  BY DEF HInv
<1> QED
  BY <1>1, AlwaysHInv, PTL

\* The distinct hashes are counted exactly up to the capacity of the array.
THEOREM UniqueHashCountIsExact == HSpec => []UniqueHashesAreCounted
<1>1. HInv => UniqueHashesAreCounted
  BY DEF HInv
<1> QED
  BY <1>1, AlwaysHInv, PTL
=============================================================================
