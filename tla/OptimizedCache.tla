---------------------------- MODULE OptimizedCache ----------------------------
(***************************************************************************)
(* OptimizedModuleCache of src/core/module/cache_opt.rs: four LruCaches    *)
(* (symbols, types, functions, constants), each behind its own RwLock, and *)
(* CacheStats behind another.  A lookup counts a hit or a miss; a put      *)
(* counts an eviction when the cache already holds max_size entries.       *)
(*                                                                         *)
(* An LruCache is a sequence of [k, v], least recently used first; get     *)
(* moves the entry to the end, put updates and moves an existing key, or   *)
(* drops the first entry of a full cache before appending (the lru crate). *)
(* Each method holds its cache's lock for its whole use of the cache, so   *)
(* methods on one cache are atomic steps; total_lookup_time and last_clear *)
(* are clock readings and are left out.                                    *)
(***************************************************************************)
EXTENDS Integers, Sequences, TLC

CONSTANTS
  Kinds,        \* the four caches
  SymbolsKind,  \* the symbols cache, whose size with_sizes keeps as max_size
  Keys,         \* Symbols
  Vals,         \* the data cached
  None,         \* what a lookup that finds nothing returns
  Sizes,        \* capacities the host passes to new, with_sizes and resize
  MaxCount      \* the host stops calling once a statistic reaches MaxCount

VARIABLES
  lru,        \* lru[kd]: the LruCache of cache kd
  cap,        \* cap[kd]: its capacity
  maxSize,    \* self.max_size
  hits, misses, evictions,  \* self.stats
  result,     \* the last lookup: [kind, key, val]
  dropped     \* ghost: entries the LruCaches dropped since stats were cleared

vars == <<lru, cap, maxSize, hits, misses, evictions, result, dropped>>

NoResult == [kind |-> None, key |-> None, val |-> None]

Entries(s) == {s[i] : i \in 1..Len(s)}
KeysOf(s) == {e.k : e \in Entries(s)}

\* OptimizedModuleCache::new(max_size) and ::with_sizes(..): empty caches,
\* CacheStats::default(); with_sizes keeps symbol_size as max_size.
Init ==
  /\ lru = [kd \in Kinds |-> <<>>]
  /\ \/ \E n \in Sizes : cap = [kd \in Kinds |-> n] /\ maxSize = n
     \/ \E c \in [Kinds -> Sizes] : cap = c /\ maxSize = c[SymbolsKind]
  /\ hits = 0 /\ misses = 0 /\ evictions = 0
  /\ result = NoResult /\ dropped = 0

\* LruCache::pop(k): the entry taken out, if any.
Pop(s, k) == SelectSeq(s, LAMBDA e : e.k /= k)

\* LruCache::get(k): the entry becomes the most recently used.
Promote(s, k) == Pop(s, k) \o SelectSeq(s, LAMBDA e : e.k = k)

\* LruCache::put(k, v): whether it drops the least recently used entry,
\* and the cache after it.
Drops(s, c, k) == k \notin KeysOf(s) /\ Len(s) = c
Put(s, c, k, v) == (IF Drops(s, c, k) THEN Tail(s) ELSE Pop(s, k)) \o <<[k |-> k, v |-> v]>>

-----------------------------------------------------------------------------
(* The methods; get_symbol, get_type, ... are one action over Kinds.      *)

\* Mutation: every get_* reads the symbols cache.
GetSymbols(kd, k) ==
  /\ hits + misses < MaxCount
  /\ IF k \in KeysOf(lru[SymbolsKind])
     THEN /\ lru' = [lru EXCEPT ![SymbolsKind] = Promote(@, k)]
          /\ hits' = hits + 1 /\ UNCHANGED misses
          /\ result' = [kind |-> kd, key |-> k,
                        val |-> (CHOOSE e \in Entries(lru[SymbolsKind]) : e.k = k).v]
     ELSE /\ misses' = misses + 1 /\ UNCHANGED <<lru, hits>>
          /\ result' = [kind |-> kd, key |-> k, val |-> None]
  /\ UNCHANGED <<cap, maxSize, evictions, dropped>>

\* get_*: self.symbols.write().get(name).cloned(), then hits or misses.
Get(kd, k) ==
  /\ hits + misses < MaxCount
  /\ IF k \in KeysOf(lru[kd])
     THEN /\ lru' = [lru EXCEPT ![kd] = Promote(@, k)]
          /\ hits' = hits + 1 /\ UNCHANGED misses
          /\ result' = [kind |-> kd, key |-> k,
                        val |-> (CHOOSE e \in Entries(lru[kd]) : e.k = k).v]
     ELSE /\ misses' = misses + 1 /\ UNCHANGED <<lru, hits>>
          /\ result' = [kind |-> kd, key |-> k, val |-> None]
  /\ UNCHANGED <<cap, maxSize, evictions, dropped>>

\* cache_*: an eviction is counted when len() >= self.max_size, then put.
Cache(kd, k, v) ==
  /\ evictions < MaxCount /\ dropped < MaxCount
  /\ evictions' = IF Len(lru[kd]) >= maxSize THEN evictions + 1 ELSE evictions
  /\ dropped' = IF Drops(lru[kd], cap[kd], k) THEN dropped + 1 ELSE dropped
  /\ lru' = [lru EXCEPT ![kd] = Put(@, cap[kd], k, v)]
  /\ UNCHANGED <<cap, maxSize, hits, misses, result>>

\* remove_*: self.symbols.write().pop(name)
Remove(kd, k) ==
  /\ lru' = [lru EXCEPT ![kd] = Pop(@, k)]
  /\ UNCHANGED <<cap, maxSize, hits, misses, evictions, result, dropped>>

\* clear: each cache cleared, then stats.clear() resets every statistic.
Clear ==
  /\ lru' = [kd \in Kinds |-> <<>>]
  /\ hits' = 0 /\ misses' = 0 /\ evictions' = 0 /\ dropped' = 0
  /\ UNCHANGED <<cap, maxSize, result>>

\* Mutation: the caches keep their entries and only their capacity changes.
ResizeKeeping(n) ==
  /\ cap' = [kd \in Kinds |-> n]
  /\ UNCHANGED <<lru, maxSize, hits, misses, evictions, result, dropped>>

\* resize(new_size): all four locks, each cache replaced by
\* LruCache::new(new_size); max_size and the stats are left as they are.
Resize(n) ==
  /\ lru' = [kd \in Kinds |-> <<>>]
  /\ cap' = [kd \in Kinds |-> n]
  /\ UNCHANGED <<maxSize, hits, misses, evictions, result, dropped>>

Next ==
  \/ \E kd \in Kinds, k \in Keys : Get(kd, k) \/ Remove(kd, k)
  \/ \E kd \in Kinds, k \in Keys, v \in Vals : Cache(kd, k, v)
  \/ Clear
  \/ \E n \in Sizes : Resize(n)

Spec == Init /\ [][Next]_vars

-----------------------------------------------------------------------------
TypeOK ==
  \A kd \in Kinds :
    /\ Len(lru[kd]) <= cap[kd]
    /\ \A i, j \in 1..Len(lru[kd]) : lru[kd][i].k = lru[kd][j].k => i = j

\* The contents of the caches as ModuleCache's maps.
View(s) == [k \in KeysOf(s) |-> (CHOOSE e \in Entries(s) : e.k = k).v]

Abstract == INSTANCE ModuleCache WITH maps <- [kd \in Kinds |-> View(lru[kd])]

\* The LRU caches behave as the plain ModuleCache of cache.rs that may
\* forget entries: a lookup returns the data last cached under that name
\* in that cache, never data that was removed or overwritten, and never
\* data of another cache.
ImplementsModuleCache == Abstract!Spec

\* CacheStats.evictions, documented as the statistic for monitoring the
\* LRU caches, counts the entries they dropped to make room since the
\* stats were last cleared.
EvictionsCounted == evictions = dropped
=============================================================================
