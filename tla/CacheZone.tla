----------------------------- MODULE CacheZone -----------------------------
(***************************************************************************)
(* CacheZone (src/CacheZone.h, src/CacheZone.cpp): the block cache that    *)
(* several CachedReaders share.                                            *)
(*                                                                         *)
(* m_cache is an unordered_map from a CacheKey (block number, file tag) to *)
(* a CacheEntry {itAge, data}; its two fields are the functions cache and  *)
(* itAge below, which always have the same domain.  m_cacheAge is a        *)
(* std::list of keys, oldest first.  An iterator into that list is the     *)
(* position of its node: erasing a node moves the later positions down by  *)
(* one, and an iterator to a node that is gone is 0.                       *)
(*                                                                         *)
(* Left out: m_queries and m_hits, which only hitRate() reads.             *)
(***************************************************************************)
EXTENDS Integers, FiniteSets, SequencesExt

CONSTANTS
  Keys,       \* the CacheKeys that may be stored
  Data,       \* what an entry may hold
  Limits,     \* the values given to the constructor and to setMaxBlocks
  AgeBound    \* Store is not explored once m_cacheAge is this long

ASSUME KeysAssumption     == IsFiniteSet(Keys)
ASSUME LimitsAssumption   == Limits \subseteq Nat
ASSUME AgeBoundAssumption == AgeBound \in Nat

VARIABLES
  cache,      \* m_cache: key -> CacheEntry::data
  itAge,      \* m_cache: key -> CacheEntry::itAge
  cacheAge,   \* m_cacheAge
  maxBlocks   \* m_maxBlocks

vars == <<cache, itAge, cacheAge, maxBlocks>>

Cached == DOMAIN cache

----------------------------------------------------------------------------
(* Plausible bugs, each a variant of the operation it is named after; the  *)
(* properties at the end of the module tell them from the code.            *)

\* The loop of evictCache runs until the age list is empty.
EvictCount_EvictsAll(keys, age, limit) ==
  IF Cardinality(keys) <= limit THEN 0 ELSE Len(age)

\* setMaxBlocks keeps one block in reserve, also of a cache of none.
SetMaxBlocks_Reserve(limit) ==
  /\ maxBlocks' = limit - 1
  /\ cache' = [k \in {} |-> 0] /\ itAge' = [k \in {} |-> 0] /\ cacheAge' = <<>>

\* setMaxBlocks does not call evictCache.
SetMaxBlocks_NoEvict(limit) ==
  maxBlocks' = limit /\ UNCHANGED <<cache, itAge, cacheAge>>

\* get moves the node but leaves the iterator of the entry as it was.
Get_StaleIterator(key) ==
  /\ key \in Cached
  /\ cacheAge' = Append(RemoveAt(cacheAge, itAge[key]), key)
  /\ itAge' = [k \in Cached |-> IF itAge[k] > itAge[key] THEN itAge[k] - 1 ELSE itAge[k]]
  /\ UNCHANGED <<cache, maxBlocks>>

----------------------------------------------------------------------------
(* The operations on the age list.                                         *)

\* Bug: evictCache takes the key to drop from back(), the node from begin().
OldestKeys_FromBack(age, n) == {age[i] : i \in Len(age) - n + 1 .. Len(age)}

\* The keys of the first n nodes of an age list.
OldestKeys(age, n) == {age[i] : i \in 1 .. n}

\* How many nodes the loop of evictCache pops: it stops as soon as the
\* entries that are left fit.
EvictCount(keys, age, limit) ==
  Min({n \in 0 .. Len(age) : Cardinality(keys \ OldestKeys(age, n)) <= limit})

\* evictCache: pop nodes from the front, and drop the entry of each popped
\* key, until the map fits.  Popping a key that is no longer in the map
\* drops nothing.
EvictCache(entries, ages, age, limit) ==
  LET n    == EvictCount(DOMAIN entries, age, limit)
      left == DOMAIN entries \ OldestKeys(age, n)
  IN  /\ cache'    = [k \in left |-> entries[k]]
      /\ itAge'    = [k \in left |-> IF ages[k] > n THEN ages[k] - n ELSE 0]
      /\ cacheAge' = SubSeq(age, n + 1, Len(age))

----------------------------------------------------------------------------
(* The operations.                                                         *)

Init ==
  /\ cache    = [k \in {} |-> 0]
  /\ itAge    = [k \in {} |-> 0]
  /\ cacheAge = <<>>
  /\ maxBlocks \in Limits

\* setMaxBlocks
SetMaxBlocks(limit) ==
  /\ maxBlocks' = limit
  /\ EvictCache(cache, itAge, cacheAge, limit)

\* store: insert() keeps the data of a key that is already there, but a
\* second node is pushed for it and the iterator moves to that node.
Store(key, data) ==
  LET keys    == Cached \cup {key}
      age     == Append(cacheAge, key)
      entries == [k \in keys |-> IF k \in Cached THEN cache[k] ELSE data]
      ages    == [k \in keys |-> IF k = key THEN Len(age) ELSE itAge[k]]
  IN  /\ EvictCache(entries, ages, age, maxBlocks)
      /\ UNCHANGED maxBlocks

\* get, when the key is there: its node moves to the back of the list.
\* (A get that misses changes nothing.)
Get(key) ==
  /\ key \in Cached
  /\ cacheAge' = Append(RemoveAt(cacheAge, itAge[key]), key)
  /\ itAge' = [k \in Cached |->
                 CASE k = key               -> Len(cacheAge)
                   [] itAge[k] > itAge[key] -> itAge[k] - 1
                   [] OTHER                 -> itAge[k]]
  /\ UNCHANGED <<cache, maxBlocks>>

Next ==
  \/ \E key \in Keys, data \in Data : Len(cacheAge) < AgeBound /\ Store(key, data)
  \/ \E key \in Keys : Get(key)
  \/ \E limit \in Limits : SetMaxBlocks(limit)

Spec == Init /\ [][Next]_vars

----------------------------------------------------------------------------
(* Properties.                                                             *)

\* Every variable holds a value of its type; the two fields of the entries
\* are there for the same keys (src/CacheZone.h, lines 42-53).
TypeOK ==
  /\ Cached \subseteq Keys
  /\ cache \in [Cached -> Data]
  /\ itAge \in [Cached -> Nat]
  /\ cacheAge \in Seq(Keys)
  /\ maxBlocks \in Nat

\* The iterator of every entry points to a live node of m_cacheAge that
\* carries the entry's own key.  get() erases through that iterator, and
\* evictCache() relies on every entry having a node: otherwise its loop
\* reaches front() of an empty list.
IteratorsValid ==
  \A k \in Cached : itAge[k] \in 1 .. Len(cacheAge) /\ cacheAge[itAge[k]] = k

\* No operation leaves more entries in the map than m_maxBlocks.
SizeBounded == Cardinality(Cached) <= maxBlocks

\* evictCache() drops no more than it must: after a step that dropped an
\* entry, the map is exactly full.
EvictsOnlyToFit ==
  [][Cached \ Cached' # {} => Cardinality(Cached') = maxBlocks']_vars

\* A key that has no node in the age list, when it is stored, survives its
\* own store() unless the cache holds nothing at all.  A key with an orphan
\* node left by an earlier double store() has no such promise: evictCache()
\* may reach the orphan first.
FreshStoreSurvives ==
  [][\A k \in Keys, d \in Data :
       Store(k, d) /\ k \notin ToSet(cacheAge) /\ maxBlocks > 0 => k \in Cached']_vars

\* While a key stays cached, the bytes kept for it never change: a second
\* store() of the key does not overwrite, get() does not write, and eviction
\* of other keys leaves it alone.
EntriesImmutable ==
  [][\A k \in Keys : k \in Cached /\ k \in Cached' => cache'[k] = cache[k]]_vars
=============================================================================
