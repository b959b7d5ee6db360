---------------------------- MODULE BufferProofs ----------------------------
(***************************************************************************)
(* Proofs about the two buffers that keep bytes and drop the oldest:       *)
(* CacheZone and the sliding window of ADCDecompressor.                    *)
(*                                                                         *)
(* CacheZone, for every set of keys, every value of the data, every limit  *)
(* and an age list of any length: every entry has a live node of its own   *)
(* key in the age list (IteratorsValid), so popping the whole list would   *)
(* empty the map, so the loop of evictCache ends at some first count that  *)
(* fits (EvictCountFits), and an entry that stays has a node beyond that   *)
(* count (EvictCacheCorrect).                                              *)
(*                                                                         *)
(* ADCDecompressor, for every size of the window and of the reads, every   *)
(* run and every call: whenever more input is wanted, the window holds two *)
(* halves at most (WindowInv): it has just moved on, from at most a phrase *)
(* more than that, or it was not yet due to.  What is in it is a piece of  *)
(* the run that ends where the next phrase begins (LookbackInv); a half is *)
(* dropped only if there are two, so W bytes are left to copy from.  And   *)
(* what has been delivered, with the offset into the window, says which    *)
(* byte is next (OutInv).                                                  *)
(*                                                                         *)
(* What the input must be: SoundStreams, no phrase copies from before the  *)
(* start of the run.  What the call must be: Reachable, see there; the     *)
(* code returns too few bytes for others, because it clears the offset     *)
(* before it takes it off what is left.                                    *)
(***************************************************************************)
EXTENDS CacheZone, ADCDecompressor, ProofLemmas, FiniteSetTheorems, SequenceTheorems

----------------------------------------------------------------------------
(* CacheZone.                                                              *)

\* The keys of an age list, and of a part of it, are keys.
LEMMA OldestKeysFinite ==
  ASSUME NEW D, IsFiniteSet(D), NEW age, NEW n
  PROVE  /\ IsFiniteSet(D \ OldestKeys(age, n))
         /\ Cardinality(D \ OldestKeys(age, n)) \in Nat
BY FS_Difference, FS_CardinalityType

\* evictCache's loop ends: popping every node would empty the map, and the
\* count at which it stops is the first that fits.
LEMMA EvictCountFits ==
  ASSUME NEW D, IsFiniteSet(D), NEW age \in Seq(Keys), NEW limit \in Nat,
         \A k \in D : \E i \in 1 .. Len(age) : age[i] = k
  PROVE  /\ EvictCount(D, age, limit) \in 0 .. Len(age)
         /\ Cardinality(D \ OldestKeys(age, EvictCount(D, age, limit))) <= limit
         /\ \A m \in 0 .. Len(age) :
              Cardinality(D \ OldestKeys(age, m)) <= limit => EvictCount(D, age, limit) <= m
<1> DEFINE FitsIn == {n \in 0 .. Len(age) : Cardinality(D \ OldestKeys(age, n)) <= limit}
<1>1. D \ OldestKeys(age, Len(age)) = {}
  BY DEF OldestKeys
<1>2. Len(age) \in FitsIn
  <2>1. Cardinality(D \ OldestKeys(age, Len(age))) = 0
    BY <1>1, FS_EmptySet, Zenon
  <2>2. Len(age) \in 0 .. Len(age)
    BY LenProperties
  <2>3. Cardinality(D \ OldestKeys(age, Len(age))) <= limit
    BY <2>1
  <2> QED BY <2>2, <2>3
<1>3. FitsIn \in SUBSET Nat /\ FitsIn # {}
  <2>1. 0 .. Len(age) \subseteq Nat
    BY LenProperties
  <2> QED BY <1>2, <2>1
<1>4. Min(FitsIn) \in FitsIn /\ \A m \in FitsIn : Min(FitsIn) <= m
  <2> HIDE DEF FitsIn
  <2> QED BY <1>3, MinNat
<1>5. EvictCount(D, age, limit) = Min(FitsIn)
  BY DEF EvictCount
<1> QED
  <2> HIDE DEF EvictCount
  <2> QED BY <1>4, <1>5

\* evictCache keeps the map within the limit, keeps the types, and leaves
\* every entry that stays with an iterator to a live node of its own key.
LEMMA EvictCacheCorrect ==
  ASSUME NEW D \in SUBSET Keys, IsFiniteSet(D),
         NEW entries \in [D -> Data], NEW ages \in [D -> Nat],
         NEW age \in Seq(Keys), NEW limit \in Nat,
         \A k \in D : ages[k] \in 1 .. Len(age) /\ age[ages[k]] = k,
         EvictCache(entries, ages, age, limit)
  PROVE  /\ Cached' \subseteq D
         /\ cache' \in [Cached' -> Data]
         /\ itAge' \in [Cached' -> Nat]
         /\ cacheAge' \in Seq(Keys)
         /\ Cardinality(Cached') <= limit
         /\ IteratorsValid'
         /\ \A k \in Cached' : cache'[k] = entries[k]
<1> DEFINE n    == EvictCount(D, age, limit)
           kept == D \ OldestKeys(age, n)
<1>1. DOMAIN entries = D
  OBVIOUS
<1>2. /\ n \in 0 .. Len(age)
      /\ Cardinality(kept) <= limit
  BY EvictCountFits
<1>3. /\ cache'    = [k \in kept |-> entries[k]]
      /\ itAge'    = [k \in kept |-> IF ages[k] > n THEN ages[k] - n ELSE 0]
      /\ cacheAge' = SubSeq(age, n + 1, Len(age))
  BY <1>1 DEF EvictCache
<1> HIDE DEF n
<1>4. Cached' = kept
  BY <1>3 DEF Cached
<1>5. \A k \in kept : ages[k] > n
  BY <1>2, LenProperties DEF OldestKeys
<1>6. /\ cacheAge' \in Seq(Keys)
      /\ Len(cacheAge') = Len(age) - n
      /\ \A i \in 1 .. Len(age) - n : cacheAge'[i] = age[n + i]
  <2>1. \A i \in n + 1 .. Len(age) : age[i] \in Keys
    BY <1>2, ElementOfSeq, LenProperties
  <2>2. Len(age) \in Nat /\ n \in Nat
    BY <1>2, LenProperties
  <2>3. /\ SubSeq(age, n + 1, Len(age)) \in Seq(Keys)
        /\ Len(SubSeq(age, n + 1, Len(age))) =
             IF n + 1 <= Len(age) THEN Len(age) - (n + 1) + 1 ELSE 0
        /\ \A i \in 1 .. Len(age) - (n + 1) + 1 :
             SubSeq(age, n + 1, Len(age))[i] = age[(n + 1) + i - 1]
    BY <2>1, <2>2, SubSeqProperties
  <2> QED BY <1>2, <1>3, <2>2, <2>3
<1>7. IteratorsValid'
  BY <1>2, <1>3, <1>4, <1>5, <1>6, LenProperties DEF IteratorsValid
<1>8. itAge' \in [kept -> Nat]
  BY <1>2, <1>3, <1>5, LenProperties
<1>9. \A k \in kept : cache'[k] = entries[k] /\ entries[k] \in Data
  BY <1>3
<1>10. cache' \in [kept -> Data]
  BY <1>3, <1>9
<1> QED BY <1>2, <1>4, <1>6, <1>7, <1>8, <1>9, <1>10

\* evictCache drops an entry only from a map that is over the limit: what is
\* left when it has dropped one fills the limit exactly.
LEMMA EvictCacheMinimal ==
  ASSUME NEW D \in SUBSET Keys, IsFiniteSet(D),
         NEW entries \in [D -> Data], NEW ages \in [D -> Nat],
         NEW age \in Seq(Keys), NEW limit \in Nat,
         \A k \in D : ages[k] \in 1 .. Len(age) /\ age[ages[k]] = k,
         EvictCache(entries, ages, age, limit),
         D \ Cached' # {}
  PROVE  Cardinality(Cached') = limit
<1> DEFINE n    == EvictCount(D, age, limit)
           Left(i) == D \ OldestKeys(age, i)
<1>1. /\ n \in 0 .. Len(age) /\ Len(age) \in Nat
      /\ Cardinality(Left(n)) <= limit
      /\ \A m \in 0 .. Len(age) : Cardinality(Left(m)) <= limit => n <= m
  BY EvictCountFits, LenProperties
<1>2. Cached' = Left(n)
  <2>1. DOMAIN entries = D
    OBVIOUS
  <2> QED BY <2>1 DEF EvictCache, Cached
<1> HIDE DEF n
<1>3. n # 0
  BY <1>2 DEF OldestKeys
<1>4. n - 1 \in 0 .. Len(age) /\ ~ (n <= n - 1)
  BY <1>1, <1>3
<1>5. ~ (Cardinality(Left(n - 1)) <= limit)
  BY <1>1, <1>4
<1>6. Left(n) = Left(n - 1) \ {age[n]}
  <2>1. 1 .. n = (1 .. n - 1) \cup {n}
    BY <1>1, <1>3
  <2> QED BY <2>1 DEF OldestKeys
<1>7. IsFiniteSet(Left(n - 1)) /\ Cardinality(Left(n - 1)) \in Nat /\ Cardinality(Left(n)) \in Nat
  BY OldestKeysFinite
<1>8. Cardinality(Left(n)) >= Cardinality(Left(n - 1)) - 1
  <2> HIDE DEF Left
  <2>1. CASE age[n] \in Left(n - 1)
    <3>1. Cardinality(Left(n - 1) \ {age[n]}) =
            IF age[n] \in Left(n - 1) THEN Cardinality(Left(n - 1)) - 1
            ELSE Cardinality(Left(n - 1))
      BY <1>7, FS_RemoveElement, Zenon
    <3> QED BY <1>6, <1>7, <2>1, <3>1
  <2>2. CASE age[n] \notin Left(n - 1)
    <3>1. Left(n) = Left(n - 1)
      BY <1>6, <2>2
    <3> QED BY <1>7, <3>1
  <2> QED BY <2>1, <2>2
<1> HIDE DEF Left
<1> QED BY <1>1, <1>2, <1>5, <1>7, <1>8

\* evictCache does not drop the youngest key if that has no older node.
LEMMA EvictCacheKeepsYoungest ==
  ASSUME NEW D \in SUBSET Keys, IsFiniteSet(D), NEW key \in D,
         NEW entries \in [D -> Data], NEW ages \in [D -> Nat],
         NEW age \in Seq(Keys), NEW limit \in Nat, limit > 0,
         \A k \in D : ages[k] \in 1 .. Len(age) /\ age[ages[k]] = k,
         \A i \in 1 .. Len(age) : (age[i] = key) <=> (i = Len(age)),
         EvictCache(entries, ages, age, limit)
  PROVE  key \in Cached'
<1> DEFINE n    == EvictCount(D, age, limit)
           most == Len(age) - 1
<1>1. /\ n \in 0 .. Len(age) /\ Len(age) \in Nat
      /\ \A m \in 0 .. Len(age) :
           Cardinality(D \ OldestKeys(age, m)) <= limit => n <= m
  BY EvictCountFits, LenProperties
<1>2. Cached' = D \ OldestKeys(age, n)
  <2>1. DOMAIN entries = D
    OBVIOUS
  <2> QED BY <2>1 DEF EvictCache, Cached
<1> HIDE DEF n
<1>3. most \in 0 .. Len(age)
  BY <1>1
<1>4. D \ OldestKeys(age, most) = {key}
  <2>1. \A k \in D : k # key => ages[k] \in 1 .. most
    BY <1>1
  <2>2. \A i \in 1 .. most : age[i] # key
    BY <1>1
  <2> HIDE DEF most
  <2> QED BY <2>1, <2>2 DEF OldestKeys
<1>5. n <= most
  <2>1. Cardinality({key}) = 1
    BY FS_Singleton
  <2>2. Cardinality(D \ OldestKeys(age, most)) <= limit
    <3> HIDE DEF most
    <3>1. Cardinality(D \ OldestKeys(age, most)) = 1
      BY <1>4, <2>1, Zenon
    <3> QED BY <3>1
  <2> HIDE DEF most
  <2> QED BY <1>1, <1>3, <2>2
<1>6. \A i \in 1 .. n : age[i] # key
  BY <1>1, <1>5
<1> QED BY <1>2, <1>6 DEF OldestKeys

----------------------------------------------------------------------------
(* The inductive invariant: the three parts need each other.  The types    *)
(* alone do not keep evictCache within the age list, and the bound on the  *)
(* size is only restored if evictCache can always pop down to it.          *)

ZoneInv == TypeOK /\ IteratorsValid /\ SizeBounded

\* A subset of the keys is finite.
LEMMA KeysFinite == ASSUME NEW D \in SUBSET Keys PROVE IsFiniteSet(D)
BY KeysAssumption, FS_Subset

\* An empty cache satisfies the invariant.
LEMMA ZoneInvInit == Init => ZoneInv
<1> SUFFICES ASSUME Init PROVE ZoneInv
  OBVIOUS
<1>1. Cached = {}
  BY DEF Init, Cached
<1>2. Cardinality(Cached) = 0
  BY <1>1, FS_EmptySet, Zenon
<1>3. cacheAge \in Seq(Keys)
  BY EmptySeq DEF Init
<1>4. maxBlocks \in Nat
  BY LimitsAssumption DEF Init
<1>5. cache \in [Cached -> Data] /\ itAge \in [Cached -> Nat]
  BY <1>1 DEF Init
<1> QED BY <1>1, <1>2, <1>3, <1>4, <1>5 DEF ZoneInv, TypeOK, IteratorsValid, SizeBounded

\* setMaxBlocks keeps the invariant, whatever the new limit.
LEMMA SetMaxBlocksInv ==
  ASSUME ZoneInv, NEW limit \in Nat, SetMaxBlocks(limit)
  PROVE  ZoneInv'
<1>1. Cached \in SUBSET Keys /\ IsFiniteSet(Cached)
  BY KeysFinite DEF ZoneInv, TypeOK
<1>2. EvictCache(cache, itAge, cacheAge, limit) /\ maxBlocks' = limit
  BY DEF SetMaxBlocks
<1>3. /\ cache \in [Cached -> Data] /\ itAge \in [Cached -> Nat]
      /\ cacheAge \in Seq(Keys)
      /\ \A k \in Cached : itAge[k] \in 1 .. Len(cacheAge) /\ cacheAge[itAge[k]] = k
  BY DEF ZoneInv, TypeOK, IteratorsValid
<1>4. /\ Cached' \subseteq Cached
      /\ cache' \in [Cached' -> Data] /\ itAge' \in [Cached' -> Nat]
      /\ cacheAge' \in Seq(Keys)
      /\ Cardinality(Cached') <= limit
      /\ IteratorsValid'
  BY <1>1, <1>2, <1>3, EvictCacheCorrect
<1> QED BY <1>1, <1>2, <1>4 DEF ZoneInv, TypeOK, SizeBounded

\* store keeps the invariant, for a key that is new and for one that is not.
LEMMA StoreInv ==
  ASSUME ZoneInv, NEW key \in Keys, NEW data \in Data, Store(key, data)
  PROVE  ZoneInv'
<1> DEFINE keys    == Cached \cup {key}
           age     == Append(cacheAge, key)
           entries == [k \in keys |-> IF k \in Cached THEN cache[k] ELSE data]
           ages    == [k \in keys |-> IF k = key THEN Len(age) ELSE itAge[k]]
<1>1. keys \in SUBSET Keys /\ IsFiniteSet(keys)
  BY KeysFinite DEF ZoneInv, TypeOK
<1>2. /\ age \in Seq(Keys)
      /\ Len(age) = Len(cacheAge) + 1 /\ Len(cacheAge) \in Nat
      /\ \A i \in 1 .. Len(cacheAge) : age[i] = cacheAge[i]
      /\ age[Len(age)] = key
  BY AppendProperties, LenProperties DEF ZoneInv, TypeOK
<1>3. entries \in [keys -> Data] /\ ages \in [keys -> Nat]
  BY <1>2 DEF ZoneInv, TypeOK
<1>4. \A k \in keys : ages[k] \in 1 .. Len(age) /\ age[ages[k]] = k
  BY <1>2 DEF ZoneInv, IteratorsValid
<1>5. EvictCache(entries, ages, age, maxBlocks) /\ maxBlocks' = maxBlocks /\ maxBlocks \in Nat
  BY DEF Store, ZoneInv, TypeOK
<1> HIDE DEF keys, age, entries, ages
<1>6. /\ Cached' \subseteq keys
      /\ cache' \in [Cached' -> Data] /\ itAge' \in [Cached' -> Nat]
      /\ cacheAge' \in Seq(Keys)
      /\ Cardinality(Cached') <= maxBlocks
      /\ IteratorsValid'
  BY <1>1, <1>2, <1>3, <1>4, <1>5, EvictCacheCorrect
<1> QED BY <1>1, <1>5, <1>6 DEF ZoneInv, TypeOK, SizeBounded

\* Taking a node out of a list moves the later nodes down by one.
LEMMA RemoveAtProperties ==
  ASSUME NEW s \in Seq(Keys), NEW p \in 1 .. Len(s)
  PROVE  /\ RemoveAt(s, p) \in Seq(Keys)
         /\ Len(RemoveAt(s, p)) = Len(s) - 1
         /\ \A i \in 1 .. Len(s) - 1 :
              RemoveAt(s, p)[i] = IF i < p THEN s[i] ELSE s[i + 1]
<1> DEFINE front == SubSeq(s, 1, p - 1)
           back  == SubSeq(s, p + 1, Len(s))
<1>1. Len(s) \in Nat /\ p \in Nat /\ 1 <= p /\ p <= Len(s)
  BY LenProperties
<1>2. \A i \in 1 .. Len(s) : s[i] \in Keys
  BY ElementOfSeq
<1>3. /\ front \in Seq(Keys) /\ Len(front) = p - 1
      /\ \A i \in 1 .. p - 1 : front[i] = s[i]
  <2>1. \A i \in 1 .. p - 1 : s[i] \in Keys
    BY <1>1, <1>2
  <2>2. /\ front \in Seq(Keys)
        /\ Len(front) = IF 1 <= p - 1 THEN (p - 1) - 1 + 1 ELSE 0
        /\ \A i \in 1 .. (p - 1) - 1 + 1 : front[i] = s[1 + i - 1]
    BY <1>1, <2>1, SubSeqProperties
  <2> QED BY <1>1, <2>2
<1>4. /\ back \in Seq(Keys) /\ Len(back) = Len(s) - p
      /\ \A i \in 1 .. Len(s) - p : back[i] = s[p + i]
  <2>1. \A i \in p + 1 .. Len(s) : s[i] \in Keys
    BY <1>1, <1>2
  <2>2. /\ back \in Seq(Keys)
        /\ Len(back) = IF p + 1 <= Len(s) THEN Len(s) - (p + 1) + 1 ELSE 0
        /\ \A i \in 1 .. Len(s) - (p + 1) + 1 : back[i] = s[(p + 1) + i - 1]
    BY <1>1, <2>1, SubSeqProperties
  <2> QED BY <1>1, <2>2
<1>5. RemoveAt(s, p) = front \o back
  BY DEF RemoveAt
<1> HIDE DEF front, back
<1>6. /\ front \o back \in Seq(Keys)
      /\ Len(front \o back) = Len(front) + Len(back)
      /\ \A i \in 1 .. Len(front) + Len(back) :
           (front \o back)[i] = IF i <= Len(front) THEN front[i] ELSE back[i - Len(front)]
  BY <1>3, <1>4, ConcatProperties
<1> QED BY <1>1, <1>3, <1>4, <1>5, <1>6

\* get keeps the invariant: no entry but the one that is hit changes node.
LEMMA GetInv ==
  ASSUME ZoneInv, NEW key \in Keys, Get(key)
  PROVE  ZoneInv'
<1> DEFINE rest == RemoveAt(cacheAge, itAge[key])
<1>1. key \in Cached /\ cache' = cache /\ Cached' = Cached /\ maxBlocks' = maxBlocks
  BY DEF Get, Cached
<1>2. /\ cacheAge \in Seq(Keys) /\ Len(cacheAge) \in Nat
      /\ \A k \in Cached : itAge[k] \in 1 .. Len(cacheAge) /\ cacheAge[itAge[k]] = k
  BY LenProperties DEF ZoneInv, TypeOK, IteratorsValid
<1>3. /\ rest \in Seq(Keys) /\ Len(rest) = Len(cacheAge) - 1
      /\ \A i \in 1 .. Len(cacheAge) - 1 :
           rest[i] = IF i < itAge[key] THEN cacheAge[i] ELSE cacheAge[i + 1]
  BY <1>1, <1>2, RemoveAtProperties
<1>4. cacheAge' = Append(rest, key)
  BY DEF Get
<1> HIDE DEF rest
<1>5. /\ cacheAge' \in Seq(Keys) /\ Len(cacheAge') = Len(cacheAge)
      /\ \A i \in 1 .. Len(cacheAge) - 1 : cacheAge'[i] = rest[i]
      /\ cacheAge'[Len(cacheAge)] = key
  BY <1>2, <1>3, <1>4, AppendProperties
<1>6. itAge' = [k \in Cached |->
                  CASE k = key               -> Len(cacheAge)
                    [] itAge[k] > itAge[key] -> itAge[k] - 1
                    [] OTHER                 -> itAge[k]]
  BY DEF Get
<1>7. \A k \in Cached : itAge'[k] \in 1 .. Len(cacheAge) /\ cacheAge'[itAge'[k]] = k
  <2> SUFFICES ASSUME NEW k \in Cached
               PROVE  itAge'[k] \in 1 .. Len(cacheAge) /\ cacheAge'[itAge'[k]] = k
    OBVIOUS
  <2>1. CASE k = key
    BY <1>1, <1>2, <1>5, <1>6, <2>1
  <2>2. CASE k # key /\ itAge[k] > itAge[key]
    <3>1. itAge'[k] = itAge[k] - 1
      BY <1>6, <2>2
    <3>2. itAge[k] - 1 \in 1 .. Len(cacheAge) - 1 /\ itAge[k] - 1 >= itAge[key]
      BY <1>1, <1>2, <2>2
    <3> QED BY <1>1, <1>2, <1>3, <1>5, <3>1, <3>2
  <2>3. CASE k # key /\ ~ (itAge[k] > itAge[key])
    <3>1. itAge'[k] = itAge[k]
      BY <1>6, <2>3
    <3>2. itAge[k] # itAge[key]
      BY <1>1, <1>2, <2>3
    <3>3. itAge[k] \in 1 .. Len(cacheAge) - 1 /\ itAge[k] < itAge[key]
      BY <1>1, <1>2, <2>3, <3>2
    <3> QED BY <1>1, <1>2, <1>3, <1>5, <3>1, <3>3
  <2> QED BY <2>1, <2>2, <2>3
<1>8. itAge' \in [Cached -> Nat]
  BY <1>2, <1>6, <1>7
<1> QED BY <1>1, <1>5, <1>7, <1>8 DEF ZoneInv, TypeOK, IteratorsValid, SizeBounded

\* Every step of the zone keeps the invariant.
LEMMA ZoneInvNext == ZoneInv /\ [Next]_vars => ZoneInv'
<1> SUFFICES ASSUME ZoneInv, [Next]_vars PROVE ZoneInv'
  OBVIOUS
<1>1. ASSUME NEW key \in Keys, NEW data \in Data, Store(key, data) PROVE ZoneInv'
  BY <1>1, StoreInv
<1>2. ASSUME NEW key \in Keys, Get(key) PROVE ZoneInv'
  BY <1>2, GetInv
<1>3. ASSUME NEW limit \in Limits, SetMaxBlocks(limit) PROVE ZoneInv'
  BY <1>3, SetMaxBlocksInv, LimitsAssumption
<1>4. CASE UNCHANGED vars
  BY <1>4 DEF ZoneInv, TypeOK, IteratorsValid, SizeBounded, Cached, vars
<1> QED BY <1>1, <1>2, <1>3, <1>4 DEF Next

----------------------------------------------------------------------------
(* What a step may never do.  A step of store or of setMaxBlocks is a call *)
(* of evictCache on a map and an age list that are in order.               *)

\* A call of evictCache on the keys D, their entries and an age list that
\* are in order.
EvictsFrom(D, entries, ages, age, limit) ==
  /\ D \in SUBSET Keys /\ IsFiniteSet(D)
  /\ entries \in [D -> Data] /\ ages \in [D -> Nat]
  /\ age \in Seq(Keys) /\ limit \in Nat
  /\ \A k \in D : ages[k] \in 1 .. Len(age) /\ age[ages[k]] = k
  /\ EvictCache(entries, ages, age, limit)

\* The keys, entries and age list store(key) hands to evictCache: what was
\* there, and the key with a new node.
Stored(key, D, entries, ages, age) ==
  /\ EvictsFrom(D, entries, ages, age, maxBlocks)
  /\ Cached \subseteq D /\ key \in D
  /\ \A k \in Cached : entries[k] = cache[k]
  /\ age = Append(cacheAge, key)

\* What store hands to evictCache is in order.
LEMMA StoreEvicts ==
  ASSUME ZoneInv, NEW key \in Keys, NEW data \in Data, Store(key, data)
  PROVE  /\ \E D, entries, ages, age : Stored(key, D, entries, ages, age)
         /\ maxBlocks' = maxBlocks
<1> DEFINE keys    == Cached \cup {key}
           age     == Append(cacheAge, key)
           entries == [k \in keys |-> IF k \in Cached THEN cache[k] ELSE data]
           ages    == [k \in keys |-> IF k = key THEN Len(age) ELSE itAge[k]]
<1>1. keys \in SUBSET Keys /\ IsFiniteSet(keys) /\ Cached \subseteq keys /\ key \in keys
  BY KeysFinite DEF ZoneInv, TypeOK
<1>2. /\ age \in Seq(Keys)
      /\ Len(age) = Len(cacheAge) + 1 /\ Len(cacheAge) \in Nat
      /\ \A i \in 1 .. Len(cacheAge) : age[i] = cacheAge[i]
      /\ age[Len(age)] = key
  BY AppendProperties, LenProperties DEF ZoneInv, TypeOK
<1>3. entries \in [keys -> Data] /\ ages \in [keys -> Nat]
  BY <1>2 DEF ZoneInv, TypeOK
<1>4. \A k \in keys : ages[k] \in 1 .. Len(age) /\ age[ages[k]] = k
  BY <1>2 DEF ZoneInv, IteratorsValid
<1>5. EvictCache(entries, ages, age, maxBlocks) /\ maxBlocks' = maxBlocks /\ maxBlocks \in Nat
  BY DEF Store, ZoneInv, TypeOK
<1>6. \A k \in Cached : entries[k] = cache[k]
  OBVIOUS
<1>7. age = Append(cacheAge, key)
  OBVIOUS
<1> HIDE DEF keys, age, entries, ages
<1>8. EvictsFrom(keys, entries, ages, age, maxBlocks)
  BY <1>1, <1>2, <1>3, <1>4, <1>5 DEF EvictsFrom
<1>9. Stored(key, keys, entries, ages, age)
  BY <1>1, <1>6, <1>7, <1>8 DEF Stored
<1> QED BY <1>5, <1>9

\* What setMaxBlocks hands to evictCache is in order.
LEMMA SetMaxBlocksEvicts ==
  ASSUME ZoneInv, NEW limit \in Nat, SetMaxBlocks(limit)
  PROVE  EvictsFrom(Cached, cache, itAge, cacheAge, limit) /\ maxBlocks' = limit
BY KeysFinite DEF ZoneInv, TypeOK, IteratorsValid, SetMaxBlocks, EvictsFrom

\* No step changes the bytes of a key that stays.
LEMMA StepKeepsEntries ==
  ASSUME ZoneInv, Next, NEW k \in Keys, k \in Cached, k \in Cached'
  PROVE  cache'[k] = cache[k]
<1>1. ASSUME NEW key \in Keys, NEW data \in Data, Store(key, data)
      PROVE  cache'[k] = cache[k]
  <2>1. PICK D, entries, ages, age : Stored(key, D, entries, ages, age)
    BY <1>1, StoreEvicts
  <2>2. cache'[k] = entries[k]
    BY <2>1, EvictCacheCorrect DEF Stored, EvictsFrom
  <2> QED BY <2>1, <2>2 DEF Stored
<1>2. ASSUME NEW key \in Keys, Get(key) PROVE cache'[k] = cache[k]
  BY <1>2 DEF Get
<1>3. ASSUME NEW limit \in Limits, SetMaxBlocks(limit) PROVE cache'[k] = cache[k]
  <2>1. EvictsFrom(Cached, cache, itAge, cacheAge, limit)
    BY <1>3, SetMaxBlocksEvicts, LimitsAssumption
  <2> QED BY <2>1, EvictCacheCorrect DEF EvictsFrom
<1> QED BY <1>1, <1>2, <1>3 DEF Next

\* A step that drops an entry leaves the map full.
LEMMA StepEvictsOnlyToFit ==
  ASSUME ZoneInv, Next, Cached \ Cached' # {}
  PROVE  Cardinality(Cached') = maxBlocks'
<1>1. ASSUME NEW key \in Keys, NEW data \in Data, Store(key, data)
      PROVE  Cardinality(Cached') = maxBlocks'
  <2>1. PICK D, entries, ages, age : Stored(key, D, entries, ages, age)
    BY <1>1, StoreEvicts
  <2>2. D \ Cached' # {}
    BY <2>1 DEF Stored
  <2>3. Cardinality(Cached') = maxBlocks
    BY <2>1, <2>2, EvictCacheMinimal DEF Stored, EvictsFrom
  <2> QED BY <1>1, <2>3, StoreEvicts
<1>2. ASSUME NEW key \in Keys, Get(key) PROVE FALSE
  BY <1>2 DEF Get, Cached
<1>3. ASSUME NEW limit \in Limits, SetMaxBlocks(limit)
      PROVE  Cardinality(Cached') = maxBlocks'
  <2>1. EvictsFrom(Cached, cache, itAge, cacheAge, limit) /\ maxBlocks' = limit
    BY <1>3, SetMaxBlocksEvicts, LimitsAssumption
  <2>2. Cardinality(Cached') = limit
    BY <2>1, EvictCacheMinimal DEF EvictsFrom
  <2> QED BY <2>1, <2>2
<1> QED BY <1>1, <1>2, <1>3 DEF Next

\* A key without a node survives its store, if the cache holds anything.
LEMMA StoreKeepsFresh ==
  ASSUME ZoneInv, NEW k \in Keys, NEW d \in Data, Store(k, d),
         k \notin ToSet(cacheAge), maxBlocks > 0
  PROVE  k \in Cached'
<1>1. PICK D, entries, ages, age : Stored(k, D, entries, ages, age)
  BY StoreEvicts
<1>2. /\ Len(age) = Len(cacheAge) + 1 /\ Len(cacheAge) \in Nat
      /\ \A i \in 1 .. Len(cacheAge) : age[i] = cacheAge[i]
      /\ age[Len(age)] = k
  BY <1>1, AppendProperties, LenProperties DEF ZoneInv, TypeOK, Stored
<1>3. \A i \in 1 .. Len(cacheAge) : cacheAge[i] # k
  <2>1. DOMAIN cacheAge = 1 .. Len(cacheAge)
    BY LenProperties DEF ZoneInv, TypeOK
  <2> QED BY <2>1 DEF ToSet
<1>4. \A i \in 1 .. Len(age) : (age[i] = k) <=> (i = Len(age))
  BY <1>2, <1>3
<1>5. /\ EvictsFrom(D, entries, ages, age, maxBlocks) /\ k \in D
      /\ \A x \in D : ages[x] \in 1 .. Len(age) /\ age[ages[x]] = x
  BY <1>1 DEF Stored, EvictsFrom
<1>6. IsFiniteSet(D) /\ EvictCache(entries, ages, age, maxBlocks)
  BY <1>5 DEF EvictsFrom
<1> QED BY <1>4, <1>5, <1>6, EvictCacheKeepsYoungest DEF EvictsFrom

----------------------------------------------------------------------------
(* The theorems.                                                           *)

\* The zone's state always has its types, whatever is stored (TypeOK).
THEOREM ZoneTypeCorrect == Spec => []TypeOK
<1>1. ZoneInv => TypeOK
  BY DEF ZoneInv
<1> QED BY <1>1, ZoneInvInit, ZoneInvNext, PTL DEF Spec

\* get() never erases through a dangling iterator and evictCache() never
\* reaches front() of an empty list: every entry has its own live node.
THEOREM ZoneIteratorsValid == Spec => []IteratorsValid
<1>1. ZoneInv => IteratorsValid
  BY DEF ZoneInv
<1> QED BY <1>1, ZoneInvInit, ZoneInvNext, PTL DEF Spec

\* The map never holds more than m_maxBlocks entries between operations.
THEOREM ZoneSizeBounded == Spec => []SizeBounded
<1>1. ZoneInv => SizeBounded
  BY DEF ZoneInv
<1> QED BY <1>1, ZoneInvInit, ZoneInvNext, PTL DEF Spec

\* While a key stays cached its bytes never change: neither a second store of
\* it, nor get, nor the eviction of others writes to them.
THEOREM ZoneEntriesImmutable == Spec => EntriesImmutable
<1>1. ZoneInv /\ [Next]_vars =>
        [\A k \in Keys : k \in Cached /\ k \in Cached' => cache'[k] = cache[k]]_vars
  BY StepKeepsEntries
<1> QED BY <1>1, ZoneInvInit, ZoneInvNext, PTL DEF Spec, EntriesImmutable

\* evictCache drops no more than it must.
THEOREM ZoneEvictsOnlyToFit == Spec => EvictsOnlyToFit
<1>1. ZoneInv /\ [Next]_vars =>
        [Cached \ Cached' # {} => Cardinality(Cached') = maxBlocks']_vars
  BY StepEvictsOnlyToFit
<1> QED BY <1>1, ZoneInvInit, ZoneInvNext, PTL DEF Spec, EvictsOnlyToFit

\* A block that has no node in the age list is there after its own store.
THEOREM ZoneFreshStoreSurvives == Spec => FreshStoreSurvives
<1>1. ZoneInv /\ [Next]_vars =>
        [\A k \in Keys, d \in Data :
           Store(k, d) /\ k \notin ToSet(cacheAge) /\ maxBlocks > 0 => k \in Cached']_vars
  BY StoreKeepsFresh
<1> QED BY <1>1, ZoneInvInit, ZoneInvNext, PTL DEF Spec, FreshStoreSurvives

----------------------------------------------------------------------------
(* ADCDecompressor.                                                        *)

\* The sizes, and the numbers of the phrase at hand.
LEMMA Sizes ==
  /\ W \in Nat /\ W > 0 /\ MaxChunk \in Nat /\ MaxChunk > 0 /\ MaxChunk <= W
  /\ BufferSize = 2 * W + MaxChunk
BY WindowAssumption DEF BufferSize

\* Joining two sequences of anything adds up their lengths.
LEMMA JoinedLength ==
  ASSUME NEW S, NEW T, NEW s \in Seq(S), NEW n \in Nat, NEW e \in [1 .. n -> T]
  PROVE  s \o e \in Seq(S \cup T) /\ Len(s \o e) = Len(s) + n
<1>1. e \in Seq(S \cup T) /\ Len(e) = n
  OBVIOUS
<1>2. s \in Seq(S \cup T)
  OBVIOUS
<1> QED BY <1>1, <1>2, ConcatProperties

----------------------------------------------------------------------------
(* The inductive invariant.                                                *)

WindowInv ==
  /\ stream \in Streams /\ phrase \in Nat \ {0} /\ inp \in Nat
  /\ \E S : window \in Seq(S)
  /\ Len(window) <= BufferSize
  /\ pc = "idle" => window = <<>>
  /\ pc = "read" => Len(window) <= 2 * W
  /\ pc = "phrases" /\ inp = 0 => Len(window) <= 2 * W

\* An empty window satisfies the invariant.
LEMMA WindowInvInit == ADCInit => WindowInv
<1> SUFFICES ASSUME ADCInit PROVE WindowInv
  OBVIOUS
<1>1. window \in Seq({}) /\ Len(window) = 0
  BY DEF ADCInit
<1> QED BY <1>1, Sizes DEF ADCInit, WindowInv

\* A phrase is unpacked only if there is room, and takes in input.
LEMMA UnpackInv == ASSUME WindowInv, Unpack PROVE WindowInv'
<1>1. /\ phrase \in 1 .. Len(stream) /\ Len(stream) \in Nat /\ DOMAIN stream = 1 .. Len(stream)
  BY WindowAssumption DEF WindowInv, Unpack, InputThere
<1> DEFINE n == stream[phrase].out
<1>2. stream[phrase].in \in Nat \ {0} /\ n \in Nat /\ Len(window) + n <= BufferSize
  BY <1>1, WindowAssumption DEF WindowInv, Unpack, Fits
<1>3. PICK S : window \in Seq(S)
  BY DEF WindowInv
<1> DEFINE T == {Unpacked(i - 1) : i \in 1 .. n}
           e == [i \in 1 .. n |-> Unpacked(i - 1)]
<1>4. window' = window \o e /\ e \in [1 .. n -> T]
  BY DEF Unpack
<1> HIDE DEF n, T, e
<1>5. window' \in Seq(S \cup T) /\ Len(window') = Len(window) + n
  <2>1. n \in Nat
    BY <1>2
  <2>2. window \o e \in Seq(S \cup T) /\ Len(window \o e) = Len(window) + n
    <3>1. window \in Seq(S)
      BY <1>3
    <3>2. e \in [1 .. n -> T]
      BY <1>4
    <3> QED BY <2>1, <3>1, <3>2, JoinedLength
  <2> QED BY <1>4, <2>2, Zenon
<1>6. /\ inp' \in Nat \ {0} /\ phrase' \in Nat \ {0} /\ stream' = stream /\ pc' = "phrases"
  BY <1>2 DEF WindowInv, Unpack, call
<1> QED BY <1>2, <1>5, <1>6, Sizes DEF WindowInv

\* Moving on drops a half of the window, and what is left fits two halves.
LEMMA SlideInv == ASSUME WindowInv, Slide PROVE WindowInv'
<1>1. PICK S : window \in Seq(S)
  BY DEF WindowInv
<1>2. Len(window) \in Nat /\ 2 * W <= Len(window) /\ Len(window) <= 2 * W + MaxChunk
  BY <1>1, LenProperties, Sizes DEF Slide, Slides, WindowInv
<1>3. /\ window' \in Seq(S)
      /\ Len(window') = Len(window) - W
  <2>1. \A i \in W + 1 .. Len(window) : window[i] \in S
    BY <1>1, <1>2, Sizes, ElementOfSeq
  <2>2. /\ SubSeq(window, W + 1, Len(window)) \in Seq(S)
        /\ Len(SubSeq(window, W + 1, Len(window))) =
             IF W + 1 <= Len(window) THEN Len(window) - (W + 1) + 1 ELSE 0
    BY <1>2, <2>1, Sizes, SubSeqProperties
  <2> QED BY <1>2, <2>2, Sizes DEF Slide, Kept
<1>4. /\ stream' = stream /\ phrase' = phrase /\ inp' = inp /\ pc' = "read"
  BY DEF Slide, call
<1> QED BY <1>2, <1>3, <1>4, Sizes DEF WindowInv

\* Every step keeps the invariant.
LEMMA WindowInvNext == WindowInv /\ [ADCNext]_adcVars => WindowInv'
<1> SUFFICES ASSUME WindowInv, [ADCNext]_adcVars PROVE WindowInv'
  OBVIOUS
<1>1. ASSUME Decompress PROVE WindowInv'
  <2>1. Len(window) = 0
    BY <1>1 DEF Decompress, WindowInv
  <2> QED BY <1>1, <2>1, Sizes DEF Decompress, WindowInv, call
<1>2. ASSUME ReadSome PROVE WindowInv'
  BY <1>2 DEF ReadSome, Fail, WindowInv, call
<1>3. ASSUME Stop \/ Deliver \/ Stuck PROVE WindowInv'
  BY <1>3 DEF Stop, Deliver, Stuck, Fail, WindowInv, call
<1>4. ASSUME GoOn PROVE WindowInv'
  <2>1. PICK S : window \in Seq(S)
    BY DEF WindowInv
  <2>2. Len(window) < 2 * W
    BY <1>4, <2>1, LenProperties, Sizes DEF GoOn, Slides
  <2> QED BY <1>4, <2>2, Sizes DEF GoOn, WindowInv, call
<1>5. ASSUME Leave PROVE WindowInv'
  <2>1. window' \in Seq({}) /\ Len(window') = 0
    BY <1>5 DEF Leave
  <2> QED BY <1>5, <2>1, Sizes DEF Leave, WindowInv
<1>6. CASE UNCHANGED adcVars
  BY <1>6 DEF WindowInv, adcVars, call
<1> QED BY <1>1, <1>2, <1>3, <1>4, <1>5, <1>6, UnpackInv, SlideInv DEF ADCNext, Step

----------------------------------------------------------------------------
(* The room for a phrase.                                                  *)

\* No phrase is unpacked beyond the end of decrompressBuffer, and the first
\* phrase of a read always finds room in it, however often the window has
\* moved on.
THEOREM ADCRoomForPhrase == ADCSpec => []RoomForPhrase
<1>1. WindowInv => RoomForPhrase
  BY Sizes DEF WindowInv, RoomForPhrase
<1> QED BY <1>1, WindowInvInit, WindowInvNext, PTL DEF ADCSpec

----------------------------------------------------------------------------
(* What is in the window.                                                  *)

\* No phrase copies from before the start of the run.
SoundStreams ==
  \A s \in Streams : \A i \in DOMAIN s : s[i].back # Own => s[i].back < OutputUpTo(s, i - 1)

\* The output of the phrases adds up.
LEMMA OutputAddsUp ==
  ASSUME NEW s \in Streams
  PROVE  /\ OutputUpTo(s, 0) = 0
         /\ \A k \in 0 .. Len(s) : OutputUpTo(s, k) \in Nat
         /\ \A k \in 1 .. Len(s) : OutputUpTo(s, k) = OutputUpTo(s, k - 1) + s[k].out
<1> DEFINE N   == Len(s)
           c   == [n \in 1 .. N |-> s[n].out]
           sum == CHOOSE f : f = [n \in 0 .. N |-> IF n = 0 THEN 0 ELSE f[n - 1] + s[n].out]
<1>1. N \in Nat /\ c \in [1 .. N -> Nat] /\ \A n \in 1 .. N : c[n] = s[n].out
  BY WindowAssumption
<1>2. \A k : OutputUpTo(s, k) = sum[k]
  BY DEF OutputUpTo
<1> HIDE DEF N, c
<1>3. PICK f : AddsUp(f, N, c)
  BY <1>1, SumOfNaturals
<1>4. f = [n \in 0 .. N |-> IF n = 0 THEN 0 ELSE f[n - 1] + s[n].out]
  BY <1>1, <1>3 DEF AddsUp
<1>5. sum = [n \in 0 .. N |-> IF n = 0 THEN 0 ELSE sum[n - 1] + s[n].out]
  BY <1>4, Zenon
<1> HIDE DEF sum
<1>6. AddsUp(sum, N, c)
  <2>1. [n \in 0 .. N |-> IF n = 0 THEN 0 ELSE sum[n - 1] + s[n].out]
          = [n \in 0 .. N |-> IF n = 0 THEN 0 ELSE sum[n - 1] + c[n]]
    BY <1>1
  <2> QED BY <1>5, <2>1, Zenon DEF AddsUp
<1>7. /\ sum[0] = 0 /\ \A n \in 0 .. N : sum[n] \in Nat
      /\ \A n \in 1 .. N : sum[n] = sum[n - 1] + s[n].out
  <2>1. /\ sum[0] = 0 /\ \A n \in 0 .. N : sum[n] \in Nat
        /\ \A n \in 1 .. N : sum[n] = sum[n - 1] + c[n]
    BY <1>1, <1>6, SumOfNaturals
  <2> QED BY <1>1, <2>1
<1> QED BY <1>2, <1>7 DEF N

\* How much has been unpacked, and the position of the window in it.
Produced == OutputUpTo(stream, phrase - 1)
Base     == Produced - Len(window)

\* The window is a piece of the run, and reaches back far enough.
LookbackInv ==
  pc \in {"idle", "read", "phrases", "drain"} =>
    /\ phrase - 1 \in 0 .. Len(stream)
    /\ Base \in Nat /\ Smaller(W, Produced) <= Len(window)
    /\ window = [i \in 1 .. Len(window) |-> Base + i - 1]

\* The n numbers from first on.
Numbers(first, n) == [i \in 1 .. n |-> first + i - 1]

\* What has been delivered are the first bytes asked for, and the next is at
\* the offset in the window.  Before the half of the window it is in is
\* dropped, all is delivered, unless it is at the start of that half.
OutInv ==
  /\ pc \in {"idle", "read", "phrases", "drain"} =>
       /\ offset \in Nat /\ left \in Nat /\ request.count - left \in Nat
       /\ out = Numbers(request.offset, request.count - left)
       /\ request.offset + (request.count - left) = Base + offset
       /\ offset % W = 0 \/ (offset % W) + left <= 2 * W
  /\ DeliversClaimed

\* The calls whose bytes end before the half of the window in which they
\* start is dropped, or start where a half does.
Reachable == \A r \in Requests : r.offset % W = 0 \/ (r.offset % W) + r.count <= 2 * W

\* The phrase at hand and what it gives out.
LEMMA PhraseTyped ==
  ASSUME WindowInv, LookbackInv, pc = "phrases", InputThere
  PROVE  /\ phrase \in 1 .. Len(stream) /\ stream[phrase].out \in Nat /\ Produced \in Nat
         /\ OutputUpTo(stream, phrase) = Produced + stream[phrase].out
         /\ stream[phrase].back \in 0 .. W - 1 \cup {Own}
         /\ SoundStreams /\ stream[phrase].back # Own => stream[phrase].back < Produced
<1>1. stream \in Streams /\ phrase \in 1 .. Len(stream) /\ DOMAIN stream = 1 .. Len(stream)
      /\ Len(stream) \in Nat /\ phrase - 1 \in 0 .. Len(stream)
  BY WindowAssumption DEF WindowInv, LookbackInv, InputThere
<1>2. stream[phrase].out \in Nat /\ stream[phrase].back \in 0 .. W - 1 \cup {Own}
  BY <1>1, WindowAssumption
<1>3. Produced \in Nat /\ OutputUpTo(stream, phrase) = Produced + stream[phrase].out
  BY <1>1, OutputAddsUp DEF Produced
<1>4. SoundStreams /\ stream[phrase].back # Own => stream[phrase].back < Produced
  BY <1>1 DEF SoundStreams, Produced
<1> QED BY <1>1, <1>2, <1>3, <1>4

\* A copy finds what it is to repeat in the window.
LEMMA UnpackedRight ==
  ASSUME WindowInv, LookbackInv, SoundStreams, pc = "phrases", InputThere,
         NEW i \in 0 .. stream[phrase].out - 1
  PROVE  Unpacked(i) = Produced + i
<1> DEFINE p    == Produced + i
           back == stream[phrase].back
           at   == Len(window) + i - back - 1
<1>1. /\ Produced \in Nat /\ stream[phrase].out \in Nat /\ i \in Nat
      /\ back \in 0 .. W - 1 \cup {Own} /\ (back # Own => back < Produced)
  BY PhraseTyped
<1>2. /\ Len(window) \in Nat /\ Produced - Len(window) \in Nat
      /\ Smaller(W, Produced) <= Len(window)
      /\ window = [k \in 1 .. Len(window) |-> Produced - Len(window) + k - 1]
  <2>1. Len(window) \in Nat
    BY DEF WindowInv
  <2> QED BY <2>1 DEF LookbackInv, Base
<1>3. CASE back = Own
  BY <1>3 DEF Unpacked, Produced
<1>4. CASE back # Own /\ at >= Len(window)
  BY <1>4 DEF Unpacked, Produced
<1>5. CASE back # Own /\ ~ (at >= Len(window))
  <2>1. back \in Nat /\ back < W /\ back < Produced
    BY <1>1, <1>5, Sizes
  <2> HIDE DEF back
  <2>2. back < Len(window)
    BY <1>1, <1>2, <2>1, Sizes DEF Smaller
  <2>3. at >= 0 /\ at + 1 \in 1 .. Len(window)
    BY <1>1, <1>2, <1>5, <2>1, <2>2
  <2>4. window[at + 1] = Produced - Len(window) + (at + 1) - 1
    <3> HIDE DEF at
    <3> QED BY <1>2, <2>3
  <2>5. window[at + 1] = p - back - 1
    <3>1. Produced - Len(window) + (at + 1) - 1 = p - back - 1
      BY <1>1, <1>2, <2>1
    <3> QED BY <2>4, <3>1
  <2> QED BY <1>5, <2>3, <2>5, Zenon DEF Unpacked, Produced, back
<1> QED BY <1>3, <1>4, <1>5

\* A phrase goes on where the window ends.
LEMMA UnpackLookback ==
  ASSUME WindowInv, LookbackInv, SoundStreams, Unpack
  PROVE  LookbackInv' /\ Base' = Base
<1> DEFINE n == stream[phrase].out
           m == Len(window)
           e == [i \in 1 .. n |-> Unpacked(i - 1)]
<1>1. /\ phrase \in 1 .. Len(stream) /\ n \in Nat /\ Produced \in Nat /\ pc = "phrases"
      /\ OutputUpTo(stream, phrase) = Produced + n /\ InputThere
  BY PhraseTyped DEF Unpack
<1>2. /\ m \in Nat /\ Produced - m \in Nat /\ Smaller(W, Produced) <= m
      /\ window = [k \in 1 .. m |-> Produced - m + k - 1]
  <2>1. m \in Nat
    BY DEF WindowInv
  <2> QED BY <1>1, <2>1 DEF LookbackInv, Base
<1>3. /\ window' = window \o e /\ stream' = stream /\ phrase' = phrase + 1 /\ pc' = "phrases"
  BY DEF Unpack, call
<1>4. Len(stream) \in Nat
  BY WindowAssumption DEF WindowInv
<1>5. \A i \in 1 .. n : e[i] = Produced + i - 1
  <2> SUFFICES ASSUME NEW i \in 1 .. n PROVE Unpacked(i - 1) = Produced + i - 1
    OBVIOUS
  <2>1. i - 1 \in 0 .. n - 1 /\ Produced + (i - 1) = Produced + i - 1
    BY <1>1
  <2>2. Unpacked(i - 1) = Produced + (i - 1)
    BY <1>1, <2>1, UnpackedRight
  <2> QED BY <2>1, <2>2
<1>6. e \in [1 .. n -> Int]
  <2> HIDE DEF e, n
  <2>1. \A i \in 1 .. n : e[i] \in Int
    BY <1>1, <1>5
  <2>2. e = [i \in 1 .. n |-> e[i]]
    BY DEF e
  <2> QED BY <2>1, <2>2
<1> HIDE DEF n, e
<1>7. window \in Seq(Int) /\ e \in Seq(Int) /\ Len(e) = n
  <2>1. window \in [1 .. m -> Int]
    <3> HIDE DEF m
    <3> QED BY <1>1, <1>2
  <2> HIDE DEF m
  <2> QED BY <1>1, <1>2, <1>6, <2>1
<1>8. /\ Len(window \o e) = m + n
      /\ \A k \in 1 .. m + n : (window \o e)[k] = IF k <= m THEN window[k] ELSE e[k - m]
      /\ window \o e = [k \in 1 .. m + n |-> (window \o e)[k]]
  <2>1. /\ Len(window \o e) = Len(window) + Len(e) /\ window \o e \in Seq(Int)
        /\ \A k \in 1 .. Len(window) + Len(e) :
             (window \o e)[k] = IF k <= Len(window) THEN window[k] ELSE e[k - Len(window)]
    BY <1>7, SMTT(30)
  <2>2. window \o e = [k \in 1 .. Len(window \o e) |-> (window \o e)[k]]
    <3>1. \A s \in Seq(Int) : s = [k \in 1 .. Len(s) |-> s[k]]
      OBVIOUS
    <3> QED BY <2>1, <3>1, Zenon
  <2> QED BY <1>7, <2>1, <2>2
<1>9. window \o e = [k \in 1 .. m + n |-> Produced - m + k - 1]
  <2> HIDE DEF m
  <2>1. ASSUME NEW k \in 1 .. m + n PROVE (window \o e)[k] = Produced - m + k - 1
    <3>1. CASE k <= m
      <4>1. k \in 1 .. m
        BY <1>1, <1>2, <3>1
      <4>2. window[k] = Produced - m + k - 1
        BY <1>2, <4>1
      <4> QED BY <1>8, <3>1, <4>2
    <3>2. CASE ~ (k <= m)
      <4>1. k - m \in 1 .. n
        BY <1>1, <1>2, <3>2
      <4>2. e[k - m] = Produced + (k - m) - 1
        BY <1>5, <4>1
      <4>3. Produced + (k - m) - 1 = Produced - m + k - 1
        BY <1>1, <1>2
      <4> QED BY <1>8, <3>2, <4>2, <4>3
    <3> QED BY <3>1, <3>2
  <2> QED BY <1>8, <2>1
<1>10. Produced' = Produced + n /\ Len(window') = m + n /\ phrase' - 1 = phrase
  <2>1. (phrase + 1) - 1 = phrase
    BY <1>1
  <2> QED BY <1>1, <1>3, <1>8, <2>1 DEF Produced
<1> DEFINE d == (Produced + n) - (m + n)
<1>11. Base' = d /\ Base = Produced - m
  <2> DEFINE p == Produced + n
             q == m + n
  <2>1. Base' = Produced' - Len(window') /\ Base = Produced - m
    BY DEF Base
  <2>2. Produced' = p /\ Len(window') = q
    BY <1>10
  <2> HIDE DEF m, p, q
  <2>3. Produced' - Len(window') = p - q
    BY <2>2
  <2>4. Base' = p - q
    BY <2>1, <2>3, Zenon
  <2>5. p - q = d
    BY DEF p, q
  <2> HIDE DEF d
  <2> QED BY <2>1, <2>4, <2>5, Zenon
<1>12. d = Produced - m
  BY <1>1, <1>2
<1>13. Smaller(W, Produced + n) <= m + n
  BY <1>1, <1>2, Sizes DEF Smaller
<1>14. Smaller(W, Produced)' <= Len(window')
  BY <1>10, <1>13 DEF Smaller
<1>15. window' = [k \in 1 .. Len(window') |-> Base' + k - 1]
  <2> HIDE DEF d
  <2> QED BY <1>3, <1>9, <1>10, <1>11, <1>12, Zenon
<1>16. Base' \in Nat /\ phrase' - 1 \in 0 .. Len(stream')
  BY <1>1, <1>2, <1>3, <1>4, <1>10, <1>11, <1>12
<1> QED BY <1>11, <1>12, <1>14, <1>15, <1>16 DEF LookbackInv

\* The l of the n numbers from base on that come after the first o of them
\* go on where the m numbers from first on end.
GoesOn(first, m, base, n, o, l) ==
  Numbers(first, m) \o SubSeq(Numbers(base, n), o + 1, o + l) = Numbers(first, m + l)

\* They do if the next of both is the same number.
LEMMA NumbersJoined ==
  ASSUME NEW first \in Int, NEW m \in Nat, NEW base \in Int, NEW n \in Nat,
         NEW o \in Nat, NEW l \in Nat, o + l <= n, first + m = base + o
  PROVE  GoesOn(first, m, base, n, o, l)
<1> DEFINE s == Numbers(first, m)
           t == Numbers(base, n)
           e == SubSeq(t, o + 1, o + l)
<1>1. s \in Seq(Int) /\ Len(s) = m /\ \A i \in 1 .. m : s[i] = first + i - 1
  BY DEF Numbers
<1>2. t \in Seq(Int) /\ Len(t) = n /\ \A i \in 1 .. n : t[i] = base + i - 1
  BY DEF Numbers
<1> HIDE DEF s, t
<1>3. e \in Seq(Int) /\ Len(e) = l /\ \A i \in 1 .. l : e[i] = t[o + 1 + i - 1]
  <2>1. \A i \in o + 1 .. o + l : t[i] \in Int
    BY <1>2
  <2>2. /\ e \in Seq(Int)
        /\ Len(e) = IF o + 1 <= o + l THEN o + l - (o + 1) + 1 ELSE 0
        /\ \A i \in 1 .. o + l - (o + 1) + 1 : e[i] = t[o + 1 + i - 1]
    BY <2>1, SubSeqProperties
  <2>3. o + l - (o + 1) + 1 = l /\ (o + 1 <= o + l \/ l = 0)
    OBVIOUS
  <2> HIDE DEF e
  <2> QED BY <2>2, <2>3
<1>4. \A i \in 1 .. l : e[i] = first + (m + i) - 1
  <2> SUFFICES ASSUME NEW i \in 1 .. l PROVE e[i] = first + (m + i) - 1
    OBVIOUS
  <2>1. o + 1 + i - 1 = o + i /\ o + i \in 1 .. n
    OBVIOUS
  <2> HIDE DEF e
  <2>2. e[i] = base + (o + i) - 1
    BY <1>2, <1>3, <2>1
  <2> QED BY <2>2
<1> HIDE DEF e
<1>5. /\ s \o e \in Seq(Int) /\ Len(s \o e) = m + l
      /\ \A i \in 1 .. m + l : (s \o e)[i] = IF i <= m THEN s[i] ELSE e[i - m]
  <2>1. /\ s \o e \in Seq(Int) /\ Len(s \o e) = Len(s) + Len(e)
        /\ \A i \in 1 .. Len(s) + Len(e) : (s \o e)[i] = IF i <= Len(s) THEN s[i] ELSE e[i - Len(s)]
    BY <1>1, <1>3, ConcatProperties, Zenon
  <2> QED BY <1>1, <1>3, <2>1
<1>6. \A i \in 1 .. m + l : (s \o e)[i] = first + i - 1
  <2> SUFFICES ASSUME NEW i \in 1 .. m + l PROVE (s \o e)[i] = first + i - 1
    OBVIOUS
  <2>1. CASE i <= m
    BY <1>1, <1>5, <2>1
  <2>2. CASE ~ (i <= m)
    <3>1. i - m \in 1 .. l /\ m + (i - m) = i
      BY <2>2
    <3> QED BY <1>4, <1>5, <2>2, <3>1
  <2> QED BY <2>1, <2>2
<1>7. s \o e = [i \in 1 .. Len(s \o e) |-> (s \o e)[i]]
  <2>1. \A q \in Seq(Int) : q = [i \in 1 .. Len(q) |-> q[i]]
    OBVIOUS
  <2> QED BY <1>5, <2>1, Zenon
<1>8. s \o e = Numbers(first, m + l)
  BY <1>5, <1>6, <1>7 DEF Numbers
<1> QED BY <1>8 DEF s, t, e, GoesOn

\* Numbers without the first ones.
LEMMA NumbersCut ==
  ASSUME NEW base \in Int, NEW n \in Nat, NEW o \in Nat, o <= n
  PROVE  /\ SubSeq(Numbers(base, n), o + 1, n) = Numbers(base + o, n - o)
         /\ Len(Numbers(base + o, n - o)) = n - o
<1> DEFINE t == Numbers(base, n)
           e == SubSeq(t, o + 1, n)
<1>1. t \in Seq(Int) /\ Len(t) = n /\ \A i \in 1 .. n : t[i] = base + i - 1
  BY DEF Numbers
<1> HIDE DEF t
<1>2. e \in Seq(Int) /\ Len(e) = n - o /\ \A i \in 1 .. n - o : e[i] = t[o + 1 + i - 1]
  <2>1. \A i \in o + 1 .. n : t[i] \in Int
    BY <1>1
  <2>2. /\ e \in Seq(Int)
        /\ Len(e) = IF o + 1 <= n THEN n - (o + 1) + 1 ELSE 0
        /\ \A i \in 1 .. n - (o + 1) + 1 : e[i] = t[o + 1 + i - 1]
    BY <2>1, SubSeqProperties
  <2>3. n - (o + 1) + 1 = n - o /\ (o + 1 <= n \/ n - o = 0)
    OBVIOUS
  <2> HIDE DEF e
  <2> QED BY <2>2, <2>3
<1> HIDE DEF e
<1>3. \A i \in 1 .. n - o : e[i] = (base + o) + i - 1
  <2> SUFFICES ASSUME NEW i \in 1 .. n - o PROVE e[i] = (base + o) + i - 1
    OBVIOUS
  <2>1. o + 1 + i - 1 = o + i /\ o + i \in 1 .. n
    OBVIOUS
  <2>2. e[i] = base + (o + i) - 1
    BY <1>1, <1>2, <2>1
  <2> QED BY <2>2
<1>4. e = [i \in 1 .. Len(e) |-> e[i]]
  BY <1>2
<1>5. Len(Numbers(base + o, n - o)) = n - o
  BY DEF Numbers
<1> QED BY <1>2, <1>3, <1>4, <1>5 DEF t, e, Numbers

----------------------------------------------------------------------------
(* The window, step by step.                                               *)

\* What the invariants say when input is wanted, as numbers.
LEMMA WindowNumbers ==
  ASSUME WindowInv, LookbackInv, pc \in {"idle", "read", "phrases", "drain"}
  PROVE  /\ Len(window) \in Nat /\ Base \in Nat
         /\ stream \in Streams /\ phrase - 1 \in 0 .. Len(stream) /\ Produced \in Nat
         /\ Produced = Base + Len(window) /\ Smaller(W, Produced) <= Len(window)
         /\ window = Numbers(Base, Len(window))
<1>1. Len(window) \in Nat /\ stream \in Streams
  BY DEF WindowInv
<1>2. phrase - 1 \in 0 .. Len(stream) /\ Base \in Nat /\ Smaller(W, Produced) <= Len(window)
  BY DEF LookbackInv
<1>3. window = Numbers(Base, Len(window))
  BY DEF LookbackInv, Numbers
<1>4. Produced \in Nat
  BY <1>1, <1>2, OutputAddsUp DEF Produced
<1>5. Produced = Base + Len(window)
  BY <1>1, <1>4 DEF Base
<1> QED BY <1>1, <1>2, <1>3, <1>4, <1>5

\* A run starts with an empty window.
LEMMA EmptyWindow ==
  ASSUME stream \in Streams, phrase = 1, window = <<>>
  PROVE  LookbackInv /\ Base = 0
<1>1. Len(stream) \in Nat /\ phrase - 1 = 0 /\ Len(window) = 0
  BY WindowAssumption
<1>2. Produced = 0
  BY <1>1, OutputAddsUp DEF Produced
<1>3. Base = 0
  <2>1. Base = 0 - 0
    BY <1>1, <1>2, Zenon DEF Base
  <2> QED BY <2>1
<1>4. window = [i \in 1 .. Len(window) |-> Base + i - 1]
  BY <1>1
<1>5. Smaller(W, Produced) <= Len(window)
  BY <1>1, <1>2, Sizes DEF Smaller
<1> QED BY <1>1, <1>3, <1>4, <1>5 DEF LookbackInv

\* Dropping the older half moves the window on by W, and what is left
\* reaches back far enough.
LEMMA SlideLookback ==
  ASSUME WindowInv, LookbackInv, Slide
  PROVE  LookbackInv' /\ Base' = Base + W
<1> DEFINE m == Len(window)
           k == m - W
<1>1. /\ m \in Nat /\ Base \in Nat /\ Produced \in Nat /\ Produced = Base + m
      /\ phrase - 1 \in 0 .. Len(stream) /\ window = Numbers(Base, m)
  BY WindowNumbers DEF Slide
<1>2. 2 * W <= m /\ W \in Nat
  BY Sizes DEF Slide, Slides
<1>3. window' = SubSeq(window, W + 1, m) /\ stream' = stream /\ phrase' = phrase /\ pc' = "read"
  BY DEF Slide, Kept, call
<1> HIDE DEF m
<1>4. k \in Nat /\ W <= k /\ Produced - k = Base + W /\ Base + W \in Nat
  BY <1>1, <1>2
<1>5. window' = Numbers(Base + W, k) /\ Len(window') = k
  <2>1. /\ SubSeq(Numbers(Base, m), W + 1, m) = Numbers(Base + W, k)
        /\ Len(Numbers(Base + W, k)) = k
    <3>1. Base \in Int /\ W <= m
      BY <1>1, <1>2
    <3> HIDE DEF Base
    <3> QED BY <1>1, <1>2, <3>1, NumbersCut
  <2> HIDE DEF k
  <2>2. SubSeq(window, W + 1, m) = Numbers(Base + W, k)
    BY <1>1, <2>1, Zenon
  <2> QED BY <1>3, <2>1, <2>2, Zenon
<1> HIDE DEF k
<1>6. Produced' = Produced
  BY <1>3 DEF Produced
<1>7. Base' = Base + W
  <2>1. Base' = Produced' - Len(window')
    BY DEF Base
  <2>2. Produced' - Len(window') = Produced - k
    BY <1>5, <1>6, Zenon
  <2> QED BY <1>4, <2>1, <2>2
<1>8. Smaller(W, Produced)' <= Len(window')
  <2>1. Smaller(W, Produced) <= k
    BY <1>1, <1>2, <1>4 DEF Smaller
  <2> QED BY <1>5, <1>6, <2>1 DEF Smaller
<1>9. window' = [i \in 1 .. Len(window') |-> Base' + i - 1]
  <2>1. window' = Numbers(Base', Len(window'))
    BY <1>5, <1>7, Zenon
  <2> QED BY <2>1 DEF Numbers
<1>10. Base' \in Nat /\ phrase' - 1 \in 0 .. Len(stream')
  BY <1>1, <1>3, <1>4, <1>7
<1> QED BY <1>7, <1>8, <1>9, <1>10 DEF LookbackInv

\* The other steps leave the window alone.
LEMMA KeepsLookback ==
  ASSUME LookbackInv, UNCHANGED <<stream, phrase, window>>,
         pc \in {"idle", "read", "phrases", "drain"}
  PROVE  LookbackInv' /\ Base' = Base
BY DEF LookbackInv, Base, Produced, Smaller

\* Every step keeps the window a piece of the run.
LEMMA LookbackInvNext ==
  ASSUME SoundStreams, WindowInv, LookbackInv, [ADCNext]_adcVars
  PROVE  LookbackInv'
<1>1. CASE Decompress \/ ReadSome \/ Stop \/ GoOn
  <2>1. UNCHANGED <<stream, phrase, window>> /\ pc \in {"idle", "read", "phrases", "drain"}
    BY <1>1 DEF Decompress, ReadSome, Fail, Stop, GoOn, call
  <2> QED BY <2>1, KeepsLookback
<1>2. CASE Unpack
  BY <1>2, UnpackLookback
<1>3. CASE Slide
  BY <1>3, SlideLookback
<1>4. CASE Deliver \/ Stuck
  <2>1. pc' \in {"returned", "failed"}
    BY <1>4 DEF Deliver, Stuck, Fail
  <2> QED BY <2>1 DEF LookbackInv
<1>5. CASE Leave
  <2>1. (stream \in Streams /\ phrase = 1 /\ window = <<>>)'
    BY <1>5 DEF Leave
  <2> QED BY <2>1, EmptyWindow, PTL
<1>6. CASE UNCHANGED adcVars
  BY <1>6 DEF LookbackInv, Base, Produced, adcVars, call, Smaller
<1> QED BY <1>1, <1>2, <1>3, <1>4, <1>5, <1>6 DEF ADCNext, Step

\* Whatever the run and however it is read: if none of its phrases copies
\* from before its start, a copy finds what it is to repeat in
\* decrompressBuffer, however often its older half has been dropped.
THEOREM ADCLookback == ASSUME SoundStreams PROVE ADCSpec => []WindowHoldsLookback
<1>1. ADCInit => LookbackInv
  <2>1. ADCInit => (stream \in Streams /\ phrase = 1 /\ window = <<>>)
    BY DEF ADCInit
  <2> QED BY <2>1, EmptyWindow
<1>2. WindowInv /\ LookbackInv /\ [ADCNext]_adcVars => LookbackInv'
  BY LookbackInvNext
<1>3. WindowInv /\ LookbackInv => WindowHoldsLookback
  <2> SUFFICES ASSUME WindowInv, LookbackInv PROVE WindowHoldsLookback
    OBVIOUS
  <2> SUFFICES ASSUME pc \in {"read", "phrases", "drain"}
               PROVE  /\ Len(window) >= Smaller(W, Produced)
                      /\ window = [i \in 1 .. Len(window) |-> Produced - Len(window) + i - 1]
    BY DEF WindowHoldsLookback, Produced
  <2>1. Len(window) \in Nat /\ Produced \in Nat /\ Smaller(W, Produced) <= Len(window)
    BY WindowNumbers
  <2>2. window = [i \in 1 .. Len(window) |-> Produced - Len(window) + i - 1]
    BY DEF LookbackInv, Base
  <2>3. Smaller(W, Produced) \in Nat
    BY <2>1, Sizes DEF Smaller
  <2> QED BY <2>1, <2>2, <2>3
<1> QED BY <1>1, <1>2, <1>3, WindowInvInit, WindowInvNext, PTL DEF ADCSpec

----------------------------------------------------------------------------
(* What is delivered.                                                      *)

\* What OutInv says when input is wanted.
OutNumbers ==
  /\ offset \in Nat /\ left \in Nat /\ request.count - left \in Nat
  /\ out = Numbers(request.offset, request.count - left)
  /\ request.offset + (request.count - left) = Base + offset
  /\ offset % W = 0 \/ (offset % W) + left <= 2 * W

\* The call: its offset and its count.
LEMMA RequestTyped ==
  ASSUME request \in Requests
  PROVE  request.offset \in Nat /\ request.count \in Nat
BY WindowAssumption

\* A call starts with nothing delivered.
LEMMA NothingDelivered ==
  ASSUME Reachable, request \in Requests, Base = 0,
         pc = "idle", offset = request.offset, left = request.count, out = <<>>
  PROVE  OutInv
<1>1. offset \in Nat /\ left \in Nat /\ request.count - left = 0
  BY RequestTyped
<1>2. out = Numbers(request.offset, request.count - left)
  BY <1>1 DEF Numbers
<1>3. request.offset + (request.count - left) = Base + offset
  BY <1>1
<1>4. offset % W = 0 \/ (offset % W) + left <= 2 * W
  BY DEF Reachable
<1> QED BY <1>1, <1>2, <1>3, <1>4 DEF OutInv, DeliversClaimed

\* Lines 262-265: the rest of what is asked for is in the window.
LEMMA DeliverOut ==
  ASSUME request \in Requests, WindowInv, LookbackInv, OutInv, Deliver
  PROVE  OutInv'
<1> DEFINE done == request.count - left
           size    == Len(window)
<1>1. OutNumbers
  BY DEF OutInv, OutNumbers, Deliver
<1>2. size \in Nat /\ Base \in Nat /\ window = Numbers(Base, size)
  BY WindowNumbers DEF Deliver
<1>3. request.offset \in Nat /\ request.count \in Nat
  BY RequestTyped
<1>4. /\ done \in Nat /\ left \in Nat /\ offset \in Nat /\ done + left = request.count
      /\ request.offset + done = Base + offset /\ out = Numbers(request.offset, done)
  BY <1>1, <1>3 DEF OutNumbers
<1>5. /\ offset + left <= size /\ out' = out \o SubSeq(window, offset + 1, offset + left)
      /\ request' = request /\ pc' = "returned"
  BY <1>2, <1>4 DEF Deliver, call
<1>6. out' = Numbers(request.offset, request.count)
  <2> DEFINE start == request.offset
             place  == Base
  <2>1. start \in Int /\ place \in Int /\ start + done = place + offset
    BY <1>2, <1>3, <1>4
  <2>2. size \in Nat /\ done \in Nat /\ offset \in Nat /\ left \in Nat /\ offset + left <= size
    BY <1>2, <1>4, <1>5
  <2> HIDE DEF done, size, start, place
  <2>3. Numbers(start, done) \o SubSeq(Numbers(place, size), offset + 1, offset + left)
          = Numbers(start, done + left)
    <3>1. GoesOn(start, done, place, size, offset, left)
      BY <2>1, <2>2, NumbersJoined
    <3> QED BY <3>1, Zenon DEF GoesOn
  <2> QED BY <1>2, <1>4, <1>5, <2>3, Zenon DEF start, place
<1>7. DeliversClaimed'
  BY <1>5, <1>6 DEF DeliversClaimed, Numbers
<1> QED BY <1>5, <1>7 DEF OutInv

\* Lines 266-277: what is wanted of the older half is delivered before it is
\* dropped.  Inside of it a call starts only if it would have been satisfied.
LEMMA SlideOut ==
  ASSUME request \in Requests, WindowInv, LookbackInv, OutInv, Slide
  PROVE  OutInv'
<1> DEFINE done == request.count - left
           size    == Len(window)
<1>1. OutNumbers
  BY DEF OutInv, OutNumbers, Slide
<1>2. size \in Nat /\ Base \in Nat /\ window = Numbers(Base, size)
  BY WindowNumbers DEF Slide
<1>3. request.offset \in Nat /\ request.count \in Nat
  BY RequestTyped
<1>4. /\ done \in Nat /\ left \in Nat /\ offset \in Nat /\ done + left = request.count
      /\ request.offset + done = Base + offset /\ out = Numbers(request.offset, done)
      /\ offset % W = 0 \/ (offset % W) + left <= 2 * W
  BY <1>1, <1>3 DEF OutNumbers
<1>5. /\ size < offset + left /\ 2 * W <= size /\ W \in Nat /\ W > 0 /\ pc' = "read"
      /\ request' = request
      /\ out' = (IF offset < W THEN out \o SubSeq(window, offset + 1, W) ELSE out)
      /\ left' = (IF offset < W THEN left - W ELSE left)
      /\ offset' = (IF offset < W THEN 0 ELSE offset - W)
  BY <1>2, Sizes DEF Slide, Slides, OffsetLeft, call
<1>6. Base' = Base + W
  BY SlideLookback
<1> HIDE DEF size
<1>7. CASE offset < W
  <2>1. offset % W = offset
    <3>1. W \in Nat \ {0} /\ offset \in 0 .. W - 1
      BY <1>4, <1>5, <1>7
    <3> QED BY <3>1, ModSmall
  <2>2. offset = 0
    BY <1>2, <1>4, <1>5, <2>1
  <2> DEFINE rest == left - W
             new  == done + W
  <2>3. /\ rest \in Nat /\ new \in Nat /\ request.count - rest = new
        /\ request.offset + new = (Base + W) + 0
    <3>1. W <= left
      BY <1>2, <1>4, <1>5, <2>2
    <3>2. request.offset + done = Base
      BY <1>2, <1>4, <2>2
    <3>3. W \in Nat /\ left \in Nat /\ done \in Nat /\ Base \in Nat
      BY <1>2, <1>4, <1>5
    <3>4. rest \in Nat /\ new \in Nat
      BY <3>1, <3>3
    <3>5. request.count - rest = new
      BY <1>3, <3>3
    <3>6. request.offset + new = (Base + W) + 0
      <4>1. new = done + W
        OBVIOUS
      <4> HIDE DEF done, new
      <4>2. request.offset \in Nat /\ done \in Nat /\ W \in Nat /\ Base \in Nat
        BY <1>3, <3>3
      <4>3. request.offset + (done + W) = (request.offset + done) + W
        BY <4>2
      <4>4. request.offset + (done + W) = Base + W
        BY <4>2, <4>3, <3>2, Zenon
      <4>5. Base + W = (Base + W) + 0
        BY <4>2
      <4>6. request.offset + new = Base + W
        BY <4>1, <4>4, Zenon
      <4> QED BY <4>5, <4>6, Zenon
    <3> QED BY <3>4, <3>5, <3>6
  <2>4. out' = Numbers(request.offset, new)
    <3> DEFINE start == request.offset
               place  == Base
    <3>1. /\ start \in Int /\ place \in Int /\ start + done = place + 0 /\ 0 + W <= size
          /\ 0 \in Nat /\ 0 + W = W
      BY <1>2, <1>3, <1>4, <1>5, <2>2
    <3>4. size \in Nat /\ done \in Nat /\ W \in Nat
      BY <1>2, <1>4, <1>5
    <3> HIDE DEF done, start, place
    <3>2. Numbers(start, done) \o SubSeq(Numbers(place, size), 0 + 1, 0 + W) = Numbers(start, done + W)
      <4>1. GoesOn(start, done, place, size, 0, W)
        BY <3>1, <3>4, NumbersJoined
      <4> QED BY <4>1, Zenon DEF GoesOn
    <3>3. out' = out \o SubSeq(window, 0 + 1, 0 + W)
      BY <1>5, <1>7, <2>2, <3>1
    <3> QED BY <1>2, <1>4, <3>2, <3>3, Zenon DEF start, place
  <2>5. left' = rest /\ offset' = 0
    BY <1>5, <1>7
  <2> HIDE DEF rest, new, done
  <2>6. request'.count - left' = new /\ request'.offset + (request'.count - left') = Base' + offset'
    <3>1. request'.count - left' = new
      BY <1>5, <2>3, <2>5, Zenon
    <3> QED BY <1>5, <1>6, <2>3, <2>5, <3>1, Zenon
  <2>7. out' = Numbers(request'.offset, request'.count - left')
    BY <1>5, <2>4, <2>6, Zenon
  <2>8. offset' % W = 0
    BY <1>5, <2>5, ModSmall
  <2>9. offset' \in Nat /\ left' \in Nat /\ request'.count - left' \in Nat
    BY <2>3, <2>5, <2>6, Zenon
  <2>10. DeliversClaimed'
    BY <1>5 DEF DeliversClaimed
  <2> QED BY <2>6, <2>7, <2>8, <2>9, <2>10 DEF OutInv
<1>8. CASE ~ (offset < W)
  <2> DEFINE rest == offset - W
  <2>1. rest \in Nat /\ request.offset + done = (Base + W) + rest
    BY <1>2, <1>3, <1>4, <1>5, <1>8
  <2>2. rest % W = offset % W
    <3>1. offset \in Int /\ W \in Nat \ {0}
      BY <1>4, <1>5
    <3> QED BY <3>1, ModLess
  <2>3. left' = left /\ offset' = rest /\ out' = out
    BY <1>5, <1>8
  <2> HIDE DEF rest
  <2>4. request'.count - left' = done
    BY <1>5, <2>3
  <2> HIDE DEF done
  <2>5. request'.offset + (request'.count - left') = Base' + offset'
    BY <1>5, <1>6, <2>1, <2>3, <2>4, Zenon
  <2>6. out' = Numbers(request'.offset, request'.count - left')
    BY <1>4, <1>5, <2>3, <2>4, Zenon
  <2>7. offset' % W = 0 \/ (offset' % W) + left' <= 2 * W
    BY <1>4, <2>2, <2>3
  <2>8. offset' \in Nat /\ left' \in Nat /\ request'.count - left' \in Nat
    BY <1>4, <2>1, <2>3, <2>4, Zenon
  <2>9. DeliversClaimed'
    BY <1>5 DEF DeliversClaimed
  <2> QED BY <2>5, <2>6, <2>7, <2>8, <2>9 DEF OutInv
<1> QED BY <1>7, <1>8

\* Every step keeps what has been delivered right.
LEMMA OutInvNext ==
  ASSUME SoundStreams, Reachable, request \in Requests,
         WindowInv, LookbackInv, OutInv, [ADCNext]_adcVars
  PROVE  OutInv'
<1>1. CASE Decompress \/ ReadSome \/ Stop \/ GoOn \/ Unpack
  <2>1. /\ UNCHANGED <<request, offset, left, out>>
        /\ pc \in {"idle", "read", "phrases", "drain"} /\ pc' # "returned"
    BY <1>1 DEF Decompress, ReadSome, Fail, Stop, GoOn, Unpack, call
  <2>2. Base' = Base
    <3>1. CASE Unpack
      BY <3>1, UnpackLookback
    <3>2. CASE ~ Unpack
      BY <1>1, <2>1, <3>2, KeepsLookback
           DEF Decompress, ReadSome, Fail, Stop, GoOn, call
    <3> QED BY <3>1, <3>2
  <2>3. OutNumbers
    BY <2>1 DEF OutInv, OutNumbers
  <2>4. OutNumbers'
    BY <2>1, <2>2, <2>3, Zenon DEF OutNumbers
  <2> QED BY <2>1, <2>4 DEF OutInv, OutNumbers, DeliversClaimed
<1>2. CASE Deliver
  BY <1>2, DeliverOut
<1>3. CASE Slide
  BY <1>3, SlideOut
<1>4. CASE Stuck
  BY <1>4 DEF Stuck, Fail, OutInv, DeliversClaimed
<1>5. CASE Leave
  <2>1. (stream \in Streams /\ phrase = 1 /\ window = <<>>)'
    BY <1>5 DEF Leave
  <2>2. (Base = 0)'
    BY <2>1, EmptyWindow, PTL
  <2>3. (/\ request \in Requests /\ pc = "idle" /\ offset = request.offset
         /\ left = request.count /\ out = <<>>)'
    BY <1>5 DEF Leave
  <2> QED BY <2>2, <2>3, NothingDelivered, PTL
<1>6. CASE UNCHANGED adcVars
  BY <1>6 DEF OutInv, DeliversClaimed, Base, Produced, adcVars, call
<1> QED BY <1>1, <1>2, <1>3, <1>4, <1>5, <1>6 DEF ADCNext, Step

\* For every call that does not start inside a half that is dropped before
\* its end is there: when decompress() returns, the caller has as many bytes
\* as it asked for, and they are those at the offset it was given.
THEOREM ADCDeliversClaimed == ASSUME SoundStreams, Reachable PROVE ADCSpec => []DeliversClaimed
<1> DEFINE Inv == request \in Requests /\ WindowInv /\ LookbackInv /\ OutInv
<1>1. ADCInit => Inv
  <2>1. ADCInit => (stream \in Streams /\ phrase = 1 /\ window = <<>>)
    BY DEF ADCInit
  <2>2. ADCInit => LookbackInv /\ Base = 0
    BY <2>1, EmptyWindow
  <2> QED BY <2>2, WindowInvInit, NothingDelivered DEF ADCInit
<1>2. Inv /\ [ADCNext]_adcVars => Inv'
  <2> SUFFICES ASSUME Inv, [ADCNext]_adcVars PROVE Inv'
    OBVIOUS
  <2>1. request' \in Requests
    BY DEF ADCNext, Step, Decompress, ReadSome, Fail, Stop, GoOn, Unpack, Deliver, Slide,
           Stuck, Leave, adcVars, call
  <2> QED BY <2>1, WindowInvNext, LookbackInvNext, OutInvNext
<1>3. Inv => DeliversClaimed
  BY DEF OutInv
<1> QED BY <1>1, <1>2, <1>3, PTL DEF ADCSpec
=============================================================================
