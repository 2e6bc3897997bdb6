------------------------------ MODULE TaskGraph ------------------------------
(***************************************************************************)
(* The task DAG of omt (bins/omt/src/task.rs) as operators on two          *)
(* functions: depends_on maps a task to the set of tasks it waits for, and *)
(* st maps a task to its TaskState.  There is no variable here: the        *)
(* scheduler (OmtScheduler) and the contract it implements (DurableRun)    *)
(* both apply these operators to their own state.                          *)
(***************************************************************************)
EXTENDS Integers

CONSTANT Task       \* the ids of the tasks of one run

TaskState == {"Pending", "Queued", "Running", "Retrying",
              "Completed", "Failed", "Cancelled"}

Terminal == {"Completed", "Failed", "Cancelled"}

(***************************************************************************)
(* TaskGraph::new accepts a plan only if Kahn's algorithm orders it, that  *)
(* is, if every nonempty set of tasks has one with no dependency inside it.*)
(***************************************************************************)
Acyclic(depends_on) ==
  \A S \in SUBSET Task : S # {} => \E t \in S : depends_on[t] \cap S = {}

Plan == {d \in [Task -> SUBSET Task] : Acyclic(d)}

DependenciesDone(depends_on, st, t) ==
  \A d \in depends_on[t] : st[d] = "Completed"

\* ready_tasks: Pending, and every dependency Completed.
ReadyTasks(depends_on, st) ==
  {t \in Task : st[t] = "Pending" /\ DependenciesDone(depends_on, st, t)}

\* retryable_tasks: Retrying, and next_retry_at is past.  cooling is the set of
\* tasks whose next_retry_at still lies in the future.
RetryableTasks(st, cooling) == {t \in Task : st[t] = "Retrying" /\ t \notin cooling}

IsComplete(st) == \A t \in Task : st[t] \in Terminal

(***************************************************************************)
(* cascade_cancel walks the dependents breadth first from the root.  It    *)
(* enters a dependent only if that is not terminal, so the walk visits the *)
(* least set that holds the root and is closed under "is a non-terminal    *)
(* dependent of"; every visited task that is not terminal is cancelled.    *)
(***************************************************************************)
ClosedUnderDependents(depends_on, st, S) ==
  \A d \in S, t \in Task : d \in depends_on[t] /\ st[t] \notin Terminal => t \in S

Visited(depends_on, st, root) ==
  {t \in Task : \A S \in SUBSET Task :
     root \in S /\ ClosedUnderDependents(depends_on, st, S) => t \in S}

\* Mutant: only the direct dependents are cancelled.
CascadeDirect(depends_on, st, root) ==
  [t \in Task |-> IF root \in depends_on[t] /\ st[t] \notin Terminal
                    THEN "Cancelled" ELSE st[t]]

CascadeCancel(depends_on, st, root) ==
  [t \in Task |-> IF t \in Visited(depends_on, st, root) /\ st[t] \notin Terminal
                    THEN "Cancelled" ELSE st[t]]

\* A task fails for good: it becomes Failed, then its dependents are cancelled.
FailTask(depends_on, st, t) ==
  CascadeCancel(depends_on, [st EXCEPT ![t] = "Failed"], t)

\* The token budget is exhausted: every task that is not terminal is cancelled.
CancelRest(st) == [t \in Task |-> IF st[t] \in Terminal THEN st[t] ELSE "Cancelled"]

\* Mutant: failed tasks get another chance too.
RequeueFailed(st) ==
  [t \in Task |-> IF st[t] \in {"Running", "Queued", "Failed"} THEN "Pending" ELSE st[t]]

\* Interrupted and crashed runs: what was running or queued is pending again.
Requeue(st) ==
  [t \in Task |-> IF st[t] \in {"Running", "Queued"} THEN "Pending" ELSE st[t]]
------------------------------------------------------------------------------
(***************************************************************************)
(* What a run's task states must satisfy at every moment.                  *)
(***************************************************************************)

\* A task that was ever started, and not sent back to Pending or cancelled, has
\* all its dependencies Completed.
DependenciesMet(depends_on, st) ==
  \A t \in Task : st[t] \notin {"Pending", "Cancelled"}
                     => DependenciesDone(depends_on, st, t)

\* A task that depends on a failed or cancelled task is itself cancelled: it
\* neither runs nor stays behind as Pending for ever.
FailuresPropagated(depends_on, st) ==
  \A t \in Task : \A d \in depends_on[t] :
     st[d] \in {"Failed", "Cancelled"} => st[t] = "Cancelled"

Coherent(depends_on, st) ==
  DependenciesMet(depends_on, st) /\ FailuresPropagated(depends_on, st)
=============================================================================
