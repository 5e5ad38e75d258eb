----------------------------- MODULE ModuleCache -----------------------------
(***************************************************************************)
(* ModuleCache of src/core/module/cache.rs: four HashMaps (symbols, types, *)
(* functions, constants) from a Symbol to an Arc of its data, with         *)
(* get_*, cache_*, remove_* and clear.  The four maps have the same        *)
(* methods, so a map is a Kind and a method is one action over all kinds.  *)
(*                                                                         *)
(* Used as the promise a symbol cache makes to the module system: a lookup *)
(* returns the data last cached under that name, or nothing.  A cache that *)
(* bounds its size may also forget entries (Forget); ModuleCache itself    *)
(* never takes that step.                                                  *)
(***************************************************************************)
EXTENDS Integers, TLC

CONSTANTS
  Kinds,  \* the four maps
  Keys,   \* Symbols
  Vals,   \* the data cached
  None    \* what a lookup that finds nothing returns

VARIABLES
  maps,    \* maps[kd]: the map as a function from its keys to data
  result   \* the last lookup: [kind, key, val]

vars == <<maps, result>>

Empty == [k \in {} |-> None]

\* ModuleCache::new
Init ==
  /\ maps = [kd \in Kinds |-> Empty]
  /\ result = [kind |-> None, key |-> None, val |-> None]

Lookup(kd, k) == IF k \in DOMAIN maps[kd] THEN maps[kd][k] ELSE None

\* get_symbol and its kin: self.symbols.get(name).cloned()
Get(kd, k) ==
  /\ result' = [kind |-> kd, key |-> k, val |-> Lookup(kd, k)]
  /\ UNCHANGED maps

\* The submaps of m: what a bounded cache may keep of it.
Kept(m) == {[k \in D |-> m[k]] : D \in SUBSET DOMAIN m}

\* cache_symbol and its kin: self.symbols.insert(name, Arc::new(data)).
\* A bounded cache may drop other entries of the same map to make room.
Cache(kd, k, v) ==
  /\ \E m \in Kept([x \in DOMAIN maps[kd] \ {k} |-> maps[kd][x]]) :
       maps' = [maps EXCEPT ![kd] = (k :> v) @@ m]
  /\ UNCHANGED result

\* remove_symbol and its kin: self.symbols.remove(name)
Remove(kd, k) ==
  /\ maps' = [maps EXCEPT ![kd] = [x \in DOMAIN @ \ {k} |-> @[x]]]
  /\ UNCHANGED result

\* clear: every map cleared.
Clear ==
  /\ maps' = [kd \in Kinds |-> Empty]
  /\ UNCHANGED result

\* A bounded cache forgetting entries on its own.
Forget ==
  /\ \E f \in [Kinds -> {TRUE, FALSE}] :
       maps' = [kd \in Kinds |-> IF f[kd] THEN Empty ELSE maps[kd]]
  /\ UNCHANGED result

Next ==
  \/ \E kd \in Kinds, k \in Keys : Get(kd, k) \/ Remove(kd, k)
  \/ \E kd \in Kinds, k \in Keys, v \in Vals : Cache(kd, k, v)
  \/ Clear \/ Forget

Spec == Init /\ [][Next]_vars
=============================================================================
