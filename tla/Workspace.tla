------------------------------ MODULE Workspace ------------------------------
(***************************************************************************)
(* WorkspaceManager of src/tools/package_manager/workspace.rs.  A process  *)
(* creates the manager from <root>/Workspace.toml (or a default config     *)
(* whose one member pattern is "*"), loads it, adds and removes members,   *)
(* which rewrites Workspace.toml, and builds or tests members.  Only the   *)
(* config file outlives the process: build_member and test_member are      *)
(* unimplemented!(), so building a member panics and a new process starts *)
(* over from the file.                                                     *)
(*                                                                         *)
(* Paths are model values.  The relative path of a member directory under  *)
(* the root is the directory itself, so a config pattern is "*" or a       *)
(* directory; glob of "*" lists the root's directories in name order.      *)
(* A package's dependencies map names to the kind of Dependency.           *)
(***************************************************************************)
EXTENDS Integers, Sequences, SequencesExt, FiniteSets, Relation

CONSTANTS
  DirOrder,     \* the directories under the root, in the order glob lists them
  Outside,      \* an existing directory with a Package.toml outside the root
  Missing,      \* a path that does not exist
  Manifest,     \* Manifest[d]: [name, deps] of d/Package.toml, for d with one
  MaxPatterns   \* most member patterns add_member lets the config reach

Dirs == ToSet(DirOrder)
HasManifest(p) == p \in DOMAIN Manifest

VARIABLES
  disk,      \* Workspace.toml: "absent", or the members list it holds
  up,        \* a WorkspaceManager exists in a running process
  cfg,       \* self.config.members
  members,   \* self.members: package name -> directory
  result,    \* [op, r]: the last call and what it returned
  removed    \* ghost: directories whose member remove_member took out

vars == <<disk, up, cfg, members, result, removed>>

NoMembers == [n \in {} |-> Missing]

Init ==
  /\ disk \in {"absent", <<>>}
  /\ up = FALSE
  /\ cfg = <<>>
  /\ members = NoMembers
  /\ result = [op |-> "none", r |-> "Ok"]
  /\ removed = {}

\* WorkspaceManager::new(root): read Workspace.toml if it exists, otherwise
\* the default config with members ["*"].
New ==
  /\ ~up
  /\ up' = TRUE
  /\ cfg' = IF disk = "absent" THEN <<"*">> ELSE disk
  /\ members' = NoMembers
  /\ result' = [op |-> "new", r |-> "Ok"]
  /\ UNCHANGED <<disk, removed>>

\* glob(root/pattern) filtered by path.join("Package.toml").exists().
Glob(pat) == IF pat = "*" THEN DirOrder ELSE <<pat>>
DiscoverMembers == FoldLeft(LAMBDA acc, pat : acc \o SelectSeq(Glob(pat), HasManifest),
                            <<>>, cfg)

\* Mutation: the member keyed by its directory instead of its name.
LoadMemberByDir(ms, p) == (p :> p) @@ ms

\* load_member: members.insert(manifest.name, member); a later directory
\* with the same package name replaces an earlier one.
LoadMember(ms, p) == (Manifest[p].name :> p) @@ ms

\* create_virtual_packages: for a dependency that is no member, a
\* Dependency::Version(req) needs req.to_string().parse::<Version>(), and
\* the Display of a VersionReq ("^1.0.0", "*", "=1.2.3") never parses as a
\* Version, so any such dependency fails the call.
VirtualPackagesFail(ms) ==
  \E n \in DOMAIN ms : \E dep \in DOMAIN Manifest[ms[n]].deps :
      dep \notin DOMAIN ms /\ Manifest[ms[n]].deps[dep] = "version"

\* The dependency names of member n (WorkspaceMember.dependencies).
DepsOf(ms, n) == DOMAIN Manifest[ms[n]].deps

\* Mutation: check_cycles without visited.remove(name) on the way back.
NotBacktracked(v, n) == v

Backtracked(v, n) == v \ {n}

\* check_cycles(name, visited): visited is the current path; `?` passes the
\* first DependencyCycle up.  Deps of a member are visited in HashSet order;
\* whether an error is found does not depend on it.
RECURSIVE CheckCycles(_, _, _), CheckDeps(_, _, _)
CheckCycles(ms, n, v) ==
  IF n \in v THEN [ok |-> FALSE, v |-> v]
  ELSE LET r == IF n \in DOMAIN ms THEN CheckDeps(ms, DepsOf(ms, n), v \cup {n})
                ELSE [ok |-> TRUE, v |-> v \cup {n}]
       IN  IF r.ok THEN [ok |-> TRUE, v |-> Backtracked(r.v, n)] ELSE r
CheckDeps(ms, ds, v) ==
  IF ds = {} THEN [ok |-> TRUE, v |-> v]
  ELSE LET d == CHOOSE x \in ds : TRUE
           r == CheckCycles(ms, d, v)
       IN  IF r.ok THEN CheckDeps(ms, ds \ {d}, r.v) ELSE r

\* validate: check_cycles from every member with a fresh visited set.
Validate(ms) == \A n \in DOMAIN ms : CheckCycles(ms, n, {}).ok

\* load: discover, load every member, create virtual packages, validate.
\* Members loaded before an error stay loaded.
Load ==
  /\ up
  /\ LET ms == FoldLeft(LoadMember, members, DiscoverMembers)
     IN  /\ members' = ms
         /\ result' = [op |-> "load",
                       r |-> IF VirtualPackagesFail(ms) THEN "ParseError"
                             ELSE IF ~Validate(ms) THEN "DependencyCycle"
                             ELSE "Ok"]
  /\ UNCHANGED <<disk, up, cfg, removed>>

\* save_config: std::fs::write of the whole config, which may fail.
SaveOk(op, c) == disk' = c /\ result' = [op |-> op, r |-> "Ok"]
SaveFails(op) == UNCHANGED disk /\ result' = [op |-> op, r |-> "IoError"]

\* add_member(path): exists check, load_member, strip_prefix(root), push,
\* save_config.
AddMember(p) ==
  /\ up
  /\ CASE p = Missing ->
            result' = [op |-> "add", r |-> "PathNotFound"]
            /\ UNCHANGED <<disk, cfg, members, removed>>
       [] ~HasManifest(p) ->
            result' = [op |-> "add", r |-> "IoError"]
            /\ UNCHANGED <<disk, cfg, members, removed>>
       [] p = Outside ->
            members' = LoadMember(members, p)
            /\ result' = [op |-> "add", r |-> "StripPrefixError"]
            /\ UNCHANGED <<disk, cfg, removed>>
       [] OTHER ->
            /\ Len(cfg) < MaxPatterns
            /\ members' = LoadMember(members, p)
            /\ cfg' = Append(cfg, p)
            /\ \/ SaveOk("add", cfg') /\ removed' = removed \ {p}
               \/ SaveFails("add") /\ UNCHANGED removed
  /\ UNCHANGED up

\* remove_member(name): remove, strip_prefix, retain the other patterns,
\* save_config; Ok with nothing done for a name that is no member.
RemoveMember(n) ==
  /\ up
  /\ IF n \notin DOMAIN members
     THEN result' = [op |-> "remove", r |-> "Ok"] /\ UNCHANGED <<disk, cfg, members, removed>>
     ELSE LET p == members[n] IN
          /\ members' = [x \in DOMAIN members \ {n} |-> members[x]]
          /\ IF p = Outside
             THEN result' = [op |-> "remove", r |-> "StripPrefixError"]
                  /\ UNCHANGED <<disk, cfg, removed>>
             ELSE /\ cfg' = SelectSeq(cfg, LAMBDA pat : pat /= p)
                  /\ \/ SaveOk("remove", cfg') /\ removed' = removed \cup {p}
                     \/ SaveFails("remove") /\ UNCHANGED removed
  /\ UNCHANGED up

\* build(targets) and test(targets): targets default to every member name;
\* the first one that is a member reaches unimplemented!() and the process
\* dies, leaving only Workspace.toml.
\* targets is given (Some) or not (None).
BuildOrTest(op, given, targets) ==
  /\ up
  /\ LET ts == IF given THEN targets ELSE DOMAIN members IN
     IF ts \cap DOMAIN members = {}
     THEN result' = [op |-> op, r |-> "Ok"] /\ UNCHANGED <<up, cfg, members>>
     ELSE /\ result' = [op |-> op, r |-> "panic"]
          /\ up' = FALSE /\ cfg' = <<>> /\ members' = NoMembers
  /\ UNCHANGED <<disk, removed>>

Names == {Manifest[p].name : p \in DOMAIN Manifest}

Next ==
  \/ New \/ Load
  \/ \E p \in Dirs \cup {Outside, Missing} : AddMember(p)
  \/ \E n \in Names : RemoveMember(n)
  \/ \E op \in {"build", "test"} :
       \/ BuildOrTest(op, FALSE, {})
       \/ \E ts \in {{}} \cup {{n} : n \in Names} : BuildOrTest(op, TRUE, ts)

Spec == Init /\ [][Next]_vars

-----------------------------------------------------------------------------
TypeOK ==
  /\ disk = "absent" \/ disk \in Seq(Dirs \cup {"*"})
  /\ cfg \in Seq(Dirs \cup {"*"}) /\ Len(cfg) <= MaxPatterns + 1
  /\ \A n \in DOMAIN members : members[n] \in DOMAIN Manifest /\ Manifest[members[n]].name = n
  /\ removed \subseteq Dirs

\* The member dependency graph, and whether it has a cycle, by the
\* transitive closure of Relation rather than by search.
DependsOn(ms) == [x, y \in DOMAIN ms |-> y \in DepsOf(ms, x)]
Cyclic(ms) ==
  LET tc == TransitiveClosure(DependsOn(ms), DOMAIN ms) IN \E x \in DOMAIN ms : tc[x, x]

\* What load returns matches the members it leaves: Ok only for a member
\* graph without a cycle (and no dependency outside the workspace that
\* needs a virtual package), DependencyCycle only for one with a cycle.
\* check_cycles shares one visited set across siblings and must take each
\* name out again on the way back, or a diamond reads as a cycle.
LoadVerdictMatchesGraph ==
  result.op = "load" =>
    /\ result.r = "Ok" => ~Cyclic(members) /\ ~VirtualPackagesFail(members)
    /\ result.r = "DependencyCycle" => Cyclic(members)

\* remove_member takes the member out of self.members and of the config
\* it saves; a later load does not bring the removed directory back.
RemovedMemberStaysRemoved ==
  result.op = "load" => \A n \in DOMAIN members : members[n] \notin removed
=============================================================================
