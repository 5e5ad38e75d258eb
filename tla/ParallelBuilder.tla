--------------------------- MODULE ParallelBuilder ---------------------------
(***************************************************************************)
(* ParallelBuilder::build of src/tools/build/parallel.rs: the build task   *)
(* fills the TaskQueue, creates a task channel and a result channel of     *)
(* capacity worker_count, spawns the workers and the scheduler, and drains *)
(* the result channel until it is closed; then it joins every task and     *)
(* checks the collected errors.  The scheduler moves tasks from the queue  *)
(* into the task channel; each worker receives a task, runs execute_task   *)
(* and sends the result.                                                   *)
(*                                                                         *)
(* A channel is closed to receivers when every sender has been dropped,    *)
(* and to senders when every receiver has.  build keeps its own task_tx    *)
(* and result_tx (and task_rx, of which each worker gets a clone) until it *)
(* returns.  execute_task is unimplemented!() for every task type: the     *)
(* worker running it panics, and a panicked tokio task drops what it owns. *)
(***************************************************************************)
EXTENDS Integers, Sequences, SequencesExt, FiniteSets

CONSTANTS
  Targets,  \* the targets passed to build, a sequence of paths
  Workers   \* worker ids; worker_count = Cardinality(Workers)

VARIABLES
  ready,          \* TaskQueue.ready: a sequence of [path, priority]
  inProgress,     \* TaskQueue.in_progress
  completed,      \* TaskQueue.completed
  dependencies,   \* TaskQueue.dependencies: path -> set of paths
  totalTasks,     \* results.metrics.total_tasks
  taskCh,         \* tasks sent and not yet received
  resultCh,       \* results sent and not yet received
  pc,             \* pc["build"], pc["scheduler"], pc[w] for each worker
  current,        \* the task the scheduler or a worker holds
  outcome         \* what build returned, or "none" before it returns

vars == <<ready, inProgress, completed, dependencies, totalTasks, taskCh,
          resultCh, pc, current, outcome>>

Capacity == Cardinality(Workers)
Priorities == <<"Critical", "High", "Normal", "Low">>
NoTask == [path |-> "none", priority |-> "none"]

\* extract_dependencies: Ok(HashSet::new()) for every path.
ExtractDependencies(p) == {}

\* add_target_tasks, unrolled over targets and the (empty) dependency sets:
\* a Normal compile task per target, and its entry in dependencies.
RECURSIVE AddTargetTasks(_, _)
AddTargetTasks(q, p) ==
  LET q1 == [q EXCEPT !.ready = Append(@, [path |-> p, priority |-> "Normal"]),
                      !.deps = (p :> ExtractDependencies(p)) @@ @]
  IN  FoldSet(LAMBDA d, acc : AddTargetTasks(acc, d), q1, ExtractDependencies(p))

\* Who holds each end of the two channels.  A worker owns clones until it
\* returns or panics; the scheduler owns a task_tx clone until it returns.
Running(w) == pc[w] \in {"recv", "exec"}
TaskSenders == {"build"} \cup (IF pc["scheduler"] \in {"loop", "send"} THEN {"scheduler"} ELSE {})
TaskReceivers == {"build"} \cup {w \in Workers : Running(w)}
ResultSenders == {"build"} \cup {w \in Workers : Running(w)}

Init ==
  /\ ready = <<>> /\ inProgress = {} /\ completed = {} /\ dependencies = <<>>
  /\ totalTasks = 0
  /\ taskCh = <<>> /\ resultCh = <<>>
  /\ pc = [x \in {"build", "scheduler"} \cup Workers |->
             IF x = "build" THEN "init" ELSE "unspawned"]
  /\ current = [x \in {"scheduler"} \cup Workers |-> NoTask]
  /\ outcome = "none"

Goto(x, l) == pc' = [pc EXCEPT ![x] = l]

\* build steps 1-4: initialize_build under the queue lock (total_tasks is
\* the length of ready), create the channels, spawn workers and scheduler.
Initialize ==
  /\ pc["build"] = "init"
  /\ LET q == FoldSeq(LAMBDA p, acc : AddTargetTasks(acc, p),
                      [ready |-> ready, deps |-> dependencies], Targets)
     IN /\ ready' = q.ready
        /\ dependencies' = q.deps
        /\ totalTasks' = Len(q.ready)
  /\ pc' = [x \in DOMAIN pc |-> IF x = "build" THEN "recv" ELSE
                                 IF x = "scheduler" THEN "loop" ELSE "recv"]
  /\ UNCHANGED <<inProgress, completed, taskCh, resultCh, current, outcome>>

\* are_dependencies_satisfied: every dependency is in completed.
Satisfied(p) == p \notin DOMAIN dependencies \/ dependencies[p] \subseteq completed

\* get_next_task: the first ready task of the highest priority whose
\* dependencies are satisfied, or None.
NextIndex ==
  LET cands == {i \in 1..Len(ready) : Satisfied(ready[i].path)}
      rank(i) == CHOOSE r \in 1..4 : Priorities[r] = ready[i].priority
      best == {i \in cands : \A j \in cands : rank(i) <= rank(j)}
  IN  IF best = {} THEN 0 ELSE CHOOSE i \in best : \A j \in best : i <= j

\* scheduler_loop: take the next task under the lock, or return when there
\* is none.
SchedulerTake ==
  /\ pc["scheduler"] = "loop"
  /\ LET i == NextIndex IN
     IF i = 0
     THEN Goto("scheduler", "done") /\ UNCHANGED <<ready, inProgress, current>>
     ELSE /\ ready' = RemoveAt(ready, i)
          /\ inProgress' = inProgress \cup {ready[i].path}
          /\ current' = [current EXCEPT !["scheduler"] = ready[i]]
          /\ Goto("scheduler", "send")
  /\ UNCHANGED <<completed, dependencies, totalTasks, taskCh, resultCh, outcome>>

\* task_tx.send(task).await: wait for room; with no receiver left the send
\* fails and the scheduler returns.
SchedulerSend ==
  /\ pc["scheduler"] = "send"
  /\ \/ /\ TaskReceivers /= {} /\ Len(taskCh) < Capacity
        /\ taskCh' = Append(taskCh, current["scheduler"])
        /\ Goto("scheduler", "loop")
     \/ /\ TaskReceivers = {}
        /\ Goto("scheduler", "done") /\ UNCHANGED taskCh
  /\ current' = [current EXCEPT !["scheduler"] = NoTask]
  /\ UNCHANGED <<ready, inProgress, completed, dependencies, totalTasks, resultCh, outcome>>

\* worker_loop: task_rx.recv().await; None once every task sender is gone.
WorkerRecv(w) ==
  /\ pc[w] = "recv"
  /\ \/ /\ taskCh /= <<>>
        /\ current' = [current EXCEPT ![w] = Head(taskCh)]
        /\ taskCh' = Tail(taskCh)
        /\ Goto(w, "exec")
     \/ /\ taskCh = <<>> /\ TaskSenders = {}
        /\ Goto(w, "done") /\ UNCHANGED <<taskCh, current>>
  /\ UNCHANGED <<ready, inProgress, completed, dependencies, totalTasks, resultCh, outcome>>

\* execute_task: unimplemented!() panics, ending the worker's task; the
\* result_tx.send that follows it in worker_loop is never reached.
WorkerExecute(w) ==
  /\ pc[w] = "exec"
  /\ Goto(w, "panicked")
  /\ current' = [current EXCEPT ![w] = NoTask]
  /\ UNCHANGED <<ready, inProgress, completed, dependencies, totalTasks, taskCh, resultCh, outcome>>

\* build step 5: while let Some(result) = result_rx.recv().await, with
\* process_result for each; the loop ends when every result sender is gone.
BuildRecv ==
  /\ pc["build"] = "recv"
  /\ \/ resultCh /= <<>> /\ resultCh' = Tail(resultCh) /\ UNCHANGED pc
     \/ resultCh = <<>> /\ ResultSenders = {} /\ Goto("build", "join") /\ UNCHANGED resultCh
  /\ UNCHANGED <<ready, inProgress, completed, dependencies, totalTasks, taskCh, current, outcome>>

\* build steps 6-7: handle.await? for every worker and the scheduler (a
\* panicked worker's JoinError is returned), then finalize_build.
BuildJoin ==
  /\ pc["build"] = "join"
  /\ \A x \in DOMAIN pc \ {"build"} : pc[x] \in {"done", "panicked"}
  /\ outcome' = IF \E w \in Workers : pc[w] = "panicked" THEN "JoinError" ELSE "Ok"
  /\ Goto("build", "done")
  /\ UNCHANGED <<ready, inProgress, completed, dependencies, totalTasks, taskCh, resultCh, current>>

Step ==
  \/ Initialize \/ BuildRecv \/ BuildJoin
  \/ SchedulerTake \/ SchedulerSend
  \/ \E w \in Workers : WorkerRecv(w) \/ WorkerExecute(w)

Next == Step

\* Every task is a tokio task driven by the runtime: each one that can
\* make progress eventually does.
Fairness ==
  /\ WF_vars(Initialize) /\ WF_vars(BuildRecv) /\ WF_vars(BuildJoin)
  /\ WF_vars(SchedulerTake) /\ WF_vars(SchedulerSend)
  /\ \A w \in Workers : WF_vars(WorkerRecv(w)) /\ WF_vars(WorkerExecute(w))

Spec == Init /\ [][Next]_vars /\ Fairness

-----------------------------------------------------------------------------
TypeOK ==
  /\ Len(taskCh) <= Capacity /\ Len(resultCh) <= Capacity
  /\ inProgress \subseteq Range(Targets)
  /\ outcome \in {"none", "Ok", "JoinError"}

\* build returns: once started, ParallelBuilder::build eventually finishes
\* with Ok or an error, rather than awaiting its result channel forever.
BuildReturns == pc["build"] = "init" ~> pc["build"] = "done"
=============================================================================
