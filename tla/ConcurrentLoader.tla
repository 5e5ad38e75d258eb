-------------------------- MODULE ConcurrentLoader --------------------------
(***************************************************************************)
(* ConcurrentModuleLoader (src/core/module/concurrent.rs) driven by host   *)
(* tasks and by HotReloadManager::check_updates (hot_reload.rs), on a      *)
(* multi-threaded runtime: every lock section is one step, and tasks       *)
(* interleave between them and across every .await.                      *)
(*                                                                         *)
(* A module is the Arc<RwLock<Module>> load_module builds: insts[i] holds  *)
(* its id, the modification time of the source it read, and the           *)
(* dependencies callers added through the Arc.  Module::with_source       *)
(* starts with no dependencies, so load_module's dependency loop and       *)
(* join_all run over an empty list and take no step of their own.        *)
(* The file system is the environment: files[id] is the modification time *)
(* of <id>.strm on the one search path (0: no such file).                  *)
(***************************************************************************)
EXTENDS Integers, Sequences, FiniteSets

CONSTANTS
  Ids,       \* module ids
  Tasks,     \* host tasks calling into the loader concurrently
  Permits,   \* Semaphore::new(32), scaled
  Rejected,  \* source versions (mtimes) the validator refuses
  MaxTime,   \* bound on file modifications
  MaxCalls,  \* bound on host calls that can build modules
  None

VARIABLES
  modules,    \* self.modules: id -> index into insts, or None
  insts,      \* every Module built: [id, ver, deps]
  files,      \* mtime of <id>.strm, 0 if absent
  now,        \* the file system clock
  permits,    \* free permits of max_concurrent_loads
  watched,    \* HotReloadManager.watched_paths (one path per id)
  fileTimes,  \* HotReloadManager.file_times: id -> mtime, or None
  task,       \* per task: the async call in progress and its locals
  reloaded,   \* ghost: per id, [inst, modified] of the last Reloaded event
  calls       \* host calls made that can build modules (bounded)

vars == <<modules, insts, files, now, permits, watched, fileTimes, task, reloaded,
          calls>>

Ok(i) == [ok |-> TRUE, inst |-> i, err |-> "none"]
Err(e) == [ok |-> FALSE, inst |-> 0, err |-> e]

\* A task between calls: only the module it was handed survives.
IdleTask(held) == [pc |-> "idle", want |-> None, ver |-> 0, caller |-> "none",
                   todo |-> {}, modified |-> 0, permit |-> FALSE, held |-> held]

\* ConcurrentModuleLoader::new and HotReloadManager::new; the files exist.
Init ==
  /\ modules = [id \in Ids |-> None]
  /\ insts = <<>>
  /\ files = [id \in Ids |-> 1]
  /\ now = 1
  /\ permits = Permits
  /\ watched = {}
  /\ fileTimes = [id \in Ids |-> None]
  /\ task = [t \in Tasks |-> IdleTask(0)]
  /\ reloaded = [id \in Ids |-> None]
  /\ calls = 0

Idle(t) == task[t].pc = "idle"
Goto(t, p) == task' = [task EXCEPT ![t].pc = p]
Loaded(id) == modules[id] /= None

Fs == <<files, now>>
Hot == <<watched, fileTimes, reloaded, calls>>

\* A call that may build modules is counted against MaxCalls.
Count == calls < MaxCalls /\ calls' = calls + 1

\* Mutation: the permit is released whether or not it was taken.
ReleasedAlways(k, r) == permits + 1

\* Mutation: the permit is released only on the Ok paths.
ReleasedOnOk(k, r) == IF k.permit /\ r.ok THEN permits + 1 ELSE permits

\* Dropping `_permit` when load_module returns r from task state k.
Released(k, r) == IF k.permit THEN permits + 1 ELSE permits

\* A load_module call returns r: the permit (if taken) is dropped.  Called
\* from check_updates, reload_module's result becomes a Reloaded event and
\* file_times takes the mtime probed, or an Error event, and the loop goes
\* on; otherwise a loaded module is handed to the caller.
Return(t, r) ==
  LET k == task[t] IN
  /\ task' = [task EXCEPT ![t] =
                IF k.caller = "hot"
                THEN [k EXCEPT !.pc = "probe", !.permit = FALSE, !.want = None,
                               !.ver = 0, !.modified = 0]
                ELSE IdleTask(IF r.ok THEN r.inst ELSE k.held)]
  /\ permits' = Released(k, r)
  /\ IF k.caller = "hot" /\ r.ok
     THEN /\ fileTimes' = [fileTimes EXCEPT ![k.want] = k.modified]
          /\ reloaded' = [reloaded EXCEPT ![k.want] =
                            [inst |-> r.inst, modified |-> k.modified]]
     ELSE UNCHANGED <<fileTimes, reloaded>>
  /\ UNCHANGED <<watched, calls>>

-----------------------------------------------------------------------------
(* Host calls.                                                             *)

\* load_module(id) is called.
CallLoad(t, id) ==
  /\ Idle(t)
  /\ task' = [task EXCEPT ![t] = [@ EXCEPT !.pc = "check1", !.want = id,
                                           !.caller = "load"]]
  /\ Count
  /\ UNCHANGED <<modules, insts, Fs, permits, watched, fileTimes, reloaded>>

\* The loaded modules other than id whose dependencies name id.
Dependents(id) == {j \in Ids \ {id} : Loaded(j) /\ id \in insts[modules[j]].deps}

\* unload_module(id) under the modules write lock: the entry is removed
\* first, and a dependent found afterwards only turns the result into Err.
UnloadResult(id) ==
  IF Loaded(id) /\ Dependents(id) /= {} THEN Err("ValidationError") ELSE Ok(0)

CallUnload(t, id) ==
  /\ Idle(t)
  /\ modules' = [modules EXCEPT ![id] = None]
  /\ UNCHANGED <<insts, Fs, permits, task, Hot>>

\* ConcurrentModuleLoader::reload_module(id): remove, then load_module.
CallReload(t, id) ==
  /\ Idle(t)
  /\ modules' = [modules EXCEPT ![id] = None]
  /\ task' = [task EXCEPT ![t] = [@ EXCEPT !.pc = "check1", !.want = id,
                                           !.caller = "reload"]]
  /\ Count
  /\ UNCHANGED <<insts, Fs, permits, watched, fileTimes, reloaded>>

\* module.write().add_dependency(d) through the Arc the caller holds.
AddDependency(t, d) ==
  /\ Idle(t) /\ task[t].held /= 0
  /\ insts' = [insts EXCEPT ![task[t].held].deps = @ \cup {d}]
  /\ UNCHANGED <<modules, Fs, permits, task, Hot>>

\* watch_module(&module.read()): record the path, and its mtime if the
\* metadata can be read.
WatchModule(t) ==
  /\ Idle(t) /\ task[t].held /= 0
  /\ LET id == insts[task[t].held].id IN
       /\ watched' = watched \cup {id}
       /\ fileTimes' = IF files[id] /= 0 THEN [fileTimes EXCEPT ![id] = files[id]]
                       ELSE fileTimes
  /\ UNCHANGED <<modules, insts, Fs, permits, task, reloaded, calls>>

\* unwatch_module(&module.read()).
UnwatchModule(t) ==
  /\ Idle(t) /\ task[t].held /= 0
  /\ LET id == insts[task[t].held].id IN
       /\ watched' = watched \ {id}
       /\ fileTimes' = [fileTimes EXCEPT ![id] = None]
  /\ UNCHANGED <<modules, insts, Fs, permits, task, reloaded, calls>>

\* check_updates() starts its loop over a copy of watched_paths.
CallCheckUpdates(t) ==
  /\ Idle(t)
  /\ task' = [task EXCEPT ![t] = [@ EXCEPT !.pc = "probe", !.caller = "hot",
                                           !.todo = watched]]
  /\ Count
  /\ UNCHANGED <<modules, insts, Fs, permits, watched, fileTimes, reloaded>>

\* stop_watching(): unwatch every path, clear both maps.
StopWatching(t) ==
  /\ Idle(t)
  /\ watched' = {}
  /\ fileTimes' = [id \in Ids |-> None]
  /\ UNCHANGED <<modules, insts, Fs, permits, task, reloaded, calls>>

-----------------------------------------------------------------------------
(* Steps of a call in progress.                                            *)

\* `for (path, module_id) in paths` moves on to the next path.
Advance(todo, id) == todo \ {id}

\* One turn of check_updates' loop: metadata(path) and file_times[path];
\* a newer mtime calls HotReloadManager::reload_module.  With no path
\* left, the loop returns Ok(events).
Probe(t) ==
  /\ task[t].pc = "probe"
  /\ IF task[t].todo = {}
     THEN task' = [task EXCEPT ![t] = IdleTask(@.held)]
     ELSE \E id \in task[t].todo :
            LET stale == files[id] /= 0 /\ fileTimes[id] /= None
                         /\ files[id] > fileTimes[id]
            IN task' = [task EXCEPT ![t] =
                          [@ EXCEPT !.todo = Advance(@, id),
                                    !.pc = IF stale THEN "unload" ELSE "probe",
                                    !.want = id, !.modified = files[id]]]
  /\ UNCHANGED <<modules, insts, Fs, permits, Hot>>

\* HotReloadManager::reload_module: unload_module(id).await?, then
\* load_module(id).
HotUnload(t) ==
  /\ task[t].pc = "unload"
  /\ LET r == UnloadResult(task[t].want) IN
       /\ modules' = [modules EXCEPT ![task[t].want] = None]
       /\ task' = [task EXCEPT ![t] = [@ EXCEPT !.pc = IF r.ok THEN "check1" ELSE "probe"]]
  /\ UNCHANGED <<insts, Fs, permits, Hot>>

\* load_module: the first look under the read lock.
Check1(t) ==
  /\ task[t].pc = "check1"
  /\ IF Loaded(task[t].want)
     THEN Return(t, Ok(modules[task[t].want]))
     ELSE Goto(t, "acquire") /\ UNCHANGED <<permits, Hot>>
  /\ UNCHANGED <<modules, insts, Fs>>

\* max_concurrent_loads.acquire().await
Acquire(t) ==
  /\ task[t].pc = "acquire"
  /\ permits > 0
  /\ permits' = permits - 1
  /\ task' = [task EXCEPT ![t] = [@ EXCEPT !.pc = "check2", !.permit = TRUE]]
  /\ UNCHANGED <<modules, insts, Fs, Hot>>

\* The double check, then find_module: the path must exist.
Check2(t) ==
  /\ task[t].pc = "check2"
  /\ LET id == task[t].want IN
     CASE Loaded(id) -> Return(t, Ok(modules[id]))
       [] files[id] = 0 -> Return(t, Err("NotFound"))
       [] OTHER -> Goto(t, "read") /\ UNCHANGED <<permits, Hot>>
  /\ UNCHANGED <<modules, insts, Fs>>

\* read_to_string(&path).await, then validator.validate(&module).
ReadSource(t) ==
  /\ task[t].pc = "read"
  /\ LET id == task[t].want IN
     CASE files[id] = 0 -> Return(t, Err("IoError"))
       [] files[id] \in Rejected -> Return(t, Err("ValidationError"))
       [] OTHER -> task' = [task EXCEPT ![t] = [@ EXCEPT !.pc = "insert",
                                                         !.ver = files[id]]]
                   /\ UNCHANGED <<permits, Hot>>
  /\ UNCHANGED <<modules, insts, Fs>>

\* The (empty) dependency loop, then modules.write().insert(id, module):
\* whatever another load put there meanwhile is replaced.
Insert(t) ==
  /\ task[t].pc = "insert"
  /\ LET id == task[t].want IN
       /\ insts' = Append(insts, [id |-> id, ver |-> task[t].ver, deps |-> {}])
       /\ modules' = [modules EXCEPT ![id] = Len(insts) + 1]
       /\ Return(t, Ok(Len(insts) + 1))
  /\ UNCHANGED Fs

-----------------------------------------------------------------------------
(* The file system.                                                        *)

\* <id>.strm is written (created or modified): its mtime moves forward.
FileWrite(id) ==
  /\ now < MaxTime
  /\ now' = now + 1
  /\ files' = [files EXCEPT ![id] = now + 1]
  /\ UNCHANGED <<modules, insts, permits, task, Hot>>

\* <id>.strm is deleted.
FileRemove(id) ==
  /\ files[id] /= 0
  /\ files' = [files EXCEPT ![id] = 0]
  /\ UNCHANGED <<modules, insts, now, permits, task, Hot>>

-----------------------------------------------------------------------------
Step(t) ==
  \/ Probe(t) \/ HotUnload(t) \/ Check1(t) \/ Check2(t) \/ ReadSource(t)
  \/ Insert(t)

Host(t) ==
  \/ \E id \in Ids : CallLoad(t, id) \/ CallUnload(t, id) \/ CallReload(t, id)
  \/ \E d \in Ids : AddDependency(t, d)
  \/ WatchModule(t) \/ UnwatchModule(t) \/ StopWatching(t) \/ CallCheckUpdates(t)

Next ==
  \/ \E t \in Tasks : Host(t) \/ Step(t) \/ Acquire(t)
  \/ \E id \in Ids : FileWrite(id) \/ FileRemove(id)

\* Each task is a future the runtime keeps polling: a step it can take is
\* eventually taken.  tokio's Semaphore hands permits out in FIFO order, so
\* a waiting acquire that is enabled again and again is eventually served.
Spec ==
  /\ Init /\ [][Next]_vars
  /\ \A t \in Tasks : WF_vars(Step(t)) /\ SF_vars(Acquire(t))

-----------------------------------------------------------------------------
TypeOK ==
  /\ modules \in [Ids -> (1..Len(insts)) \cup {None}]
  /\ permits \in 0..Permits
  /\ \A t \in Tasks : task[t].pc \in
        {"idle", "probe", "unload", "check1", "acquire", "check2", "read", "insert"}

\* Every permit of max_concurrent_loads is either free or held by exactly
\* one load in progress: `_permit` is dropped on every return of
\* load_module, the early Ok of the double check and each `?` included.
PermitsAccounted ==
  permits + Cardinality({t \in Tasks : task[t].permit}) = Permits

\* Every call into the loader returns: a load waiting for a permit is
\* eventually served, and check_updates' loop, reloads included, ends.
LoadReturns == \A t \in Tasks : task[t].pc /= "idle" ~> task[t].pc = "idle"

\* unload_module validates that no other module depends on the one it
\* unloads: while another loaded module's dependencies name it, the call
\* returns Err(ValidationError) and the module stays registered.  The code
\* removes the entry under the write lock before it looks for dependents.
DependedOnKept ==
  \A t \in Tasks, id \in Ids :
    CallUnload(t, id) /\ Loaded(id) /\ Dependents(id) /= {} => modules'[id] /= None
UnloadKeepsDependedOn == [][DependedOnKept]_vars

\* When check_updates reports Reloaded(id), the module then registered for
\* id was built from a source at least as new as the modification that
\* triggered the reload.
ReloadServesCurrentSource ==
  \A id \in Ids : reloaded[id] /= None =>
    insts[reloaded[id].inst].ver >= reloaded[id].modified

\* load_module builds and inserts a module only for an id that no other
\* load has registered: the double check after acquiring the permit is
\* there so that two loads of one module do not both read, validate and
\* insert it, the second insert replacing the Arc the first caller holds.
LoadsDeduplicated ==
  [][\A t \in Tasks : Insert(t) => ~Loaded(task[t].want)]_vars
=============================================================================
