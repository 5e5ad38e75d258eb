--------------------------- MODULE PackageResolver ---------------------------
(***************************************************************************)
(* Registry and Resolver of src/tools/package_manager/mod.rs.  The host    *)
(* adds packages to a Registry and resolves manifests against it.          *)
(* resolve walks the manifest's dependencies in HashMap order; for each    *)
(* registry dependency it takes the highest matching version, fails on a   *)
(* name already resolved to another version, and otherwise records the     *)
(* package and resolves its dependencies the same way, depth first.        *)
(*                                                                         *)
(* A version requirement is the set of versions it matches.  A package's   *)
(* dependencies are a Vec of <<name, req>>; a manifest's are a HashMap,    *)
(* given here as a sequence in one of its iteration orders, of entries     *)
(* [n, kind, req] with kind "version", "git" or "path".                    *)
(***************************************************************************)
EXTENDS Integers, Sequences, SequencesExt, FiniteSets

CONSTANTS
  Catalogue,    \* packages the host may add: [name, version, deps]
  Manifests,    \* manifests the host may resolve (dependency sequences)
  MaxPackages   \* most packages the host adds to the registry

VARIABLES
  registry,  \* Registry.packages: the Vec of packages added, per name
  result     \* the last resolve: [ok, err, pkgs] it returned, manifest m

vars == <<registry, result>>

Names == {p.name : p \in Catalogue}

Resolution(ok, err, pkgs, m) == [ok |-> ok, err |-> err, pkgs |-> pkgs, m |-> m]

\* Registry::new
Init ==
  /\ registry = [n \in Names |-> <<>>]
  /\ result = Resolution(TRUE, "none", <<>>, <<>>)

Added == FoldFunction(LAMBDA s, acc : Len(s) + acc, 0, registry)

\* Registry::add_package: push onto the name's Vec.
AddPackage(pkg) ==
  /\ Added < MaxPackages
  /\ registry' = [registry EXCEPT ![pkg.name] = Append(@, pkg)]
  /\ UNCHANGED result

\* Registry::get_package: the matching package of the highest version;
\* max_by_key returns the last of equal maxima.  None is <<>>.
GetPackage(reg, name, req) ==
  LET vec == reg[name]
      ms == {i \in 1..Len(vec) : vec[i].version \in req}
      best == {i \in ms : \A j \in ms : vec[j].version <= vec[i].version}
  IN  IF ms = {} THEN <<>> ELSE <<vec[Max(best)]>>

\* Mutation: a name met again is accepted whatever version it resolved to.
NeverConflict(visited, name, pkg) == FALSE

\* `if existing != &package.version { return Err(VersionConflict) }`
Conflict(visited, name, pkg) == visited[name] /= pkg.version

\* resolve_dependency for a registry dependency, threading visited and the
\* result through the recursion; st is [ok, err, visited, pkgs].
RECURSIVE ResolveDependency(_, _, _, _), ResolveAll(_, _, _)
ResolveDependency(reg, name, req, st) ==
  LET found == GetPackage(reg, name, req) IN
  IF found = <<>> THEN [st EXCEPT !.ok = FALSE, !.err = "PackageNotFound"]
  ELSE LET pkg == found[1] IN
       IF name \in DOMAIN st.visited
       THEN IF Conflict(st.visited, name, pkg)
            THEN [st EXCEPT !.ok = FALSE, !.err = "VersionConflict"]
            ELSE st
       ELSE ResolveAll(reg, pkg.deps,
                       [st EXCEPT !.visited = (name :> pkg.version) @@ @,
                                  !.pkgs = Append(@, pkg)])

\* for (dep_name, dep_req) in &package.dependencies: resolve_dependency(..)?
ResolveAll(reg, deps, st) ==
  IF deps = <<>> \/ ~st.ok THEN st
  ELSE ResolveAll(reg, Tail(deps), ResolveDependency(reg, Head(deps)[1], Head(deps)[2], st))

\* for (name, dep) in &manifest.dependencies: resolve_dependency(..)?, where
\* a Git or Path dependency resolves to nothing.
RECURSIVE ResolveManifest(_, _, _)
ResolveManifest(reg, m, st) ==
  IF m = <<>> \/ ~st.ok THEN st
  ELSE ResolveManifest(reg, Tail(m),
         IF Head(m).kind = "version" THEN ResolveDependency(reg, Head(m).n, Head(m).req, st)
         ELSE st)

\* Resolver::new(registry) then resolve(&manifest); check_conflicts is Ok.
Resolve(m) ==
  LET st == ResolveManifest(registry, m,
                       [ok |-> TRUE, err |-> "none", visited |-> <<>>, pkgs |-> <<>>])
  IN  /\ result' = Resolution(st.ok, st.err, IF st.ok THEN st.pkgs ELSE <<>>, m)
      /\ UNCHANGED registry

Next ==
  \/ \E pkg \in Catalogue : AddPackage(pkg)
  \/ \E m \in Manifests : Resolve(m)

Spec == Init /\ [][Next]_vars

-----------------------------------------------------------------------------
TypeOK ==
  /\ \A n \in Names : \A i \in 1..Len(registry[n]) : registry[n][i] \in Catalogue
  /\ result.ok \in BOOLEAN
  /\ result.err \in {"none", "PackageNotFound", "VersionConflict"}

\* A resolution resolve returns Ok is consistent with the registry it was
\* made against (the registry only grows, and what a package needs does not
\* change): every package is in the registry, each name has one version,
\* and every registry dependency of the resolved packages is resolved to a
\* version its requirement matches, the manifest's own included.
ResolutionConsistent ==
  result.ok =>
    LET pkgs == ToSet(result.pkgs)
        chosen(n) == {p \in pkgs : p.name = n}
        Satisfied(n, req) == \E q \in chosen(n) : q.version \in req
    IN  /\ \A p \in pkgs : p \in ToSet(registry[p.name])
        /\ \A n \in Names : Cardinality(chosen(n)) <= 1
        /\ \A i \in 1..Len(result.m) :
             result.m[i].kind = "version" => Satisfied(result.m[i].n, result.m[i].req)
        /\ \A p \in pkgs : \A i \in 1..Len(p.deps) : Satisfied(p.deps[i][1], p.deps[i][2])
=============================================================================
