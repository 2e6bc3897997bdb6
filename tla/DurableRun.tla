------------------------------ MODULE DurableRun ------------------------------
(***************************************************************************)
(* What omt promises about a run to whoever reads its state.json: an       *)
(* abstract machine over the task states alone.  Processes, crashes,       *)
(* restarts, retries, budgets and locks do not appear; OmtScheduler        *)
(* implements this machine with st read from the file on disk.             *)
(***************************************************************************)
EXTENDS TaskGraph

VARIABLES
  depends_on,   \* the plan's dependencies, fixed when the run is created
  st,           \* the state of every task, as state.json records it
  overtaken     \* an older file may have been put in its place

vars == <<depends_on, st, overtaken>>

TypeOK ==
  /\ depends_on \in [Task -> SUBSET Task]
  /\ st \in [Task -> TaskState]
  /\ overtaken \in BOOLEAN

Init ==
  /\ depends_on \in Plan
  /\ st = [t \in Task |-> "Pending"]
  /\ overtaken = FALSE

\* An attempt starts: the first one, one after a requeue, or a retry.
Start(t) ==
  /\ st[t] \in {"Pending", "Retrying"}
  /\ DependenciesDone(depends_on, st, t)
  /\ st' = [st EXCEPT ![t] = "Running"]
  /\ UNCHANGED <<depends_on, overtaken>>

\* An attempt ends with success, or with an error that will be retried.
Settle(t) ==
  /\ st[t] = "Running"
  /\ \E s \in {"Completed", "Retrying"} : st' = [st EXCEPT ![t] = s]
  /\ UNCHANGED <<depends_on, overtaken>>

\* A task fails for good, and its dependents are cancelled in the same step.
Fail(t) ==
  /\ st[t] \in {"Pending", "Running", "Retrying"}
  /\ DependenciesDone(depends_on, st, t)
  /\ st' = FailTask(depends_on, st, t)
  /\ UNCHANGED <<depends_on, overtaken>>

\* The process that ran the attempts is gone; they will be made again.
Interrupt == st' = Requeue(st) /\ UNCHANGED <<depends_on, overtaken>>

\* The run gives up what is left.
Abandon == st' = CancelRest(st) /\ UNCHANGED <<depends_on, overtaken>>

\* A scheduler has taken the lock while the run was being marked as crashed.  From
\* then on the file may go back to what it was; it is always one that was coherent.
Overtake ==
  /\ overtaken'
  /\ st' \in [Task -> TaskState] /\ Coherent(depends_on, st')
  /\ UNCHANGED depends_on

Next ==
  \/ \E t \in Task : Start(t) \/ Settle(t) \/ Fail(t)
  \/ Interrupt
  \/ Abandon
  \/ Overtake

Spec == Init /\ [][Next]_vars
------------------------------------------------------------------------------
\* No attempt starts before everything it depends on is Completed, and nothing
\* that depends on a failed task is left waiting for it.
AlwaysCoherent == Coherent(depends_on, st)

\* Finished work is never done twice and a verdict is never withdrawn, as long as
\* no older file comes back.
TerminalForever ==
  [][~ overtaken' => \A t \in Task : st[t] \in Terminal => st'[t] = st[t]]_vars
=============================================================================
