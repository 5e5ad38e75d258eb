----------------------------- MODULE ModuleLoader -----------------------------
(***************************************************************************)
(* The synchronous ModuleLoader of src/core/module/loader.rs.  load_module *)
(* returns a loaded module from the map, or finds the file, builds the     *)
(* Module, runs every hook's on_load (which may add dependencies or fail), *)
(* loads each dependency by a recursive call and only then inserts the     *)
(* module.  The recursion is an explicit stack of frames; a stack deeper   *)
(* is as deep as the longest dependency chain (a cycle would grow it      *)
(* until the thread's stack overflows; HookDeps is acyclic).  The hooks    *)
(* of a loader are abstracted to what they do to each module: HookDeps     *)
(* lists the dependencies on_load adds, LoadFails the modules on_load      *)
(* rejects, UnloadFails those on_unload rejects.                           *)
(***************************************************************************)
EXTENDS Integers, Sequences, FiniteSets

CONSTANTS
  Ids,          \* module ids
  OnDisk,       \* ids find_module finds a readable <id>.strm for
  HookDeps,     \* HookDeps[id]: the dependencies on_load adds, in order
  LoadFails,    \* ids some hook's on_load returns Err for
  UnloadFails   \* ids some hook's on_unload returns Err for

VARIABLES
  modules,  \* self.modules: the ids loaded
  stack,    \* the load_module frames: [id, pc, todo, ret]
  result    \* what the last host call returned

vars == <<modules, stack, result>>

Ok(id) == [ok |-> TRUE, id |-> id]
Err(id) == [ok |-> FALSE, id |-> id]

Frame(id) == [id |-> id, pc |-> "enter", todo |-> <<>>, ret |-> Ok(id)]
Top == stack[Len(stack)]
SetTop(f) == stack' = [stack EXCEPT ![Len(stack)] = f]

\* ModuleLoader::new
Init ==
  /\ modules = {}
  /\ stack = <<>>
  /\ result = Ok("none")

Idle == stack = <<>>

\* The host calls load_module(id); the call runs to completion before the
\* next host call (&mut self).
LoadModule(id) ==
  /\ Idle
  /\ stack' = <<Frame(id)>>
  /\ UNCHANGED <<modules, result>>

\* unload_module(id): remove the entry, then run on_unload, whose error is
\* returned with the module already gone.
UnloadModule(id) ==
  /\ Idle
  /\ modules' = modules \ {id}
  /\ result' = IF id \in modules /\ id \in UnloadFails THEN Err(id) ELSE Ok(id)
  /\ UNCHANGED stack

\* Return r from the top frame: to the host, or into the caller's frame.
Return(r) ==
  IF Len(stack) = 1
  THEN stack' = <<>> /\ result' = r
  ELSE /\ stack' = [SubSeq(stack, 1, Len(stack) - 1)
                     EXCEPT ![Len(stack) - 1].ret = r, ![Len(stack) - 1].pc = "resume"]
       /\ UNCHANGED result

\* load_module, up to its dependency loop: the cache check, find_module
\* and read_to_string, then the hooks.
Enter ==
  /\ stack /= <<>> /\ Top.pc = "enter"
  /\ LET id == Top.id IN
     CASE id \in modules -> Return(Ok(id))
       [] id \notin OnDisk \/ id \in LoadFails -> Return(Err(id))
       [] OTHER -> SetTop([Top EXCEPT !.pc = "deps", !.todo = HookDeps[id]]) /\ UNCHANGED result
  /\ UNCHANGED modules

\* for dep_id in deps { self.load_module(dep_id)?; }, then insert the module.
Deps ==
  /\ stack /= <<>> /\ Top.pc = "deps"
  /\ IF Top.todo = <<>>
     THEN modules' = modules \cup {Top.id} /\ Return(Ok(Top.id))
     ELSE /\ stack' = Append(stack, Frame(Head(Top.todo)))
          /\ UNCHANGED <<modules, result>>

\* Mutation: the dependency's error ignored (`let _ =` for `?`).
ResumeIgnoringErr ==
  /\ stack /= <<>> /\ Top.pc = "resume"
  /\ SetTop([Top EXCEPT !.pc = "deps", !.todo = Tail(@)]) /\ UNCHANGED result
  /\ UNCHANGED modules

\* A dependency's load returned: `?` passes its error up, and
\* module.add_dependency(dep.id()) finds the id already listed.
Resume ==
  /\ stack /= <<>> /\ Top.pc = "resume"
  /\ IF Top.ret.ok
     THEN SetTop([Top EXCEPT !.pc = "deps", !.todo = Tail(@)]) /\ UNCHANGED result
     ELSE Return(Top.ret)
  /\ UNCHANGED modules

Step == Enter \/ Deps \/ Resume

Next ==
  \/ \E id \in Ids : LoadModule(id) \/ UnloadModule(id)
  \/ Step

\* load_module runs on the caller's thread without yielding.
Spec == Init /\ [][Next]_vars /\ WF_vars(Step)

-----------------------------------------------------------------------------
TypeOK ==
  /\ modules \subseteq Ids
  /\ Len(stack) <= Cardinality(Ids)
  /\ \A i \in 1..Len(stack) : stack[i].id \in Ids /\ stack[i].pc \in {"enter", "deps", "resume"}
  /\ result.ok \in BOOLEAN

DepSet(s) == {s[i] : i \in 1..Len(s)}

\* A module enters self.modules only when every dependency its hooks gave
\* it is loaded at that moment: the dependency loop completes, and no
\* failed or aborted dependency load lets the insert happen anyway.
DepsLoadedFirst ==
  [][\A id \in Ids : id \notin modules /\ id \in modules' => DepSet(HookDeps[id]) \subseteq modules]_vars

=============================================================================
