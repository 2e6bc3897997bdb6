--------------------------- MODULE TaskGraph_proofs ---------------------------
(***************************************************************************)
(* What the operators of TaskGraph do to a coherent run: one lemma for     *)
(* each way in which the scheduler rewrites the task states.               *)
(***************************************************************************)
EXTENDS TaskGraph, TLAPS

States == [Task -> TaskState]
Edges  == [Task -> SUBSET Task]

(***************************************************************************)
(* The walk of cascade_cancel.                                             *)
(***************************************************************************)

\* The walk reaches every non-terminal dependent of a task it visits.
LEMMA VisitedClosed ==
  ASSUME NEW deps \in Edges, NEW st \in States, NEW root \in Task,
         NEW d \in Visited(deps, st, root), NEW t \in Task,
         d \in deps[t], st[t] \notin Terminal
  PROVE  t \in Visited(deps, st, root)
BY DEF Visited, ClosedUnderDependents

\* It reaches nothing whose dependencies are all Completed, except the root.
LEMMA VisitedUnmet ==
  ASSUME NEW deps \in Edges, NEW st \in States, NEW root \in Task,
         st[root] # "Completed",
         DependenciesMet(deps, [st EXCEPT ![root] = "Pending"]),
         NEW t \in Visited(deps, st, root), t # root
  PROVE  ~ DependenciesDone(deps, st, t)
<1> DEFINE S == {root} \cup {u \in Task : ~ DependenciesDone(deps, st, u)}
<1>1. ClosedUnderDependents(deps, st, S)
  <2> SUFFICES ASSUME NEW d \in S, NEW u \in Task, d \in deps[u]
               PROVE  u \in S
    BY DEF ClosedUnderDependents
  <2>1. CASE d = root
    BY <2>1 DEF DependenciesDone
  <2>2. CASE d # root
    <3>1. d \in Task /\ ~ DependenciesDone(deps, st, d)
      BY <2>2
    <3>2. PICK e \in deps[d] : st[e] # "Completed"
      BY <3>1 DEF DependenciesDone
    <3>3. e \in Task
      BY <3>1, <3>2 DEF Edges
    <3>4. ~ DependenciesDone(deps, [st EXCEPT ![root] = "Pending"], d)
      BY <3>1, <3>2, <3>3 DEF DependenciesDone, States
    <3>5. st[d] # "Completed"
      BY <2>2, <3>1, <3>4 DEF DependenciesMet, States
    <3>. QED
      BY <3>5 DEF DependenciesDone
  <2>. QED BY <2>1, <2>2
<1>2. S \in SUBSET Task /\ root \in S
  OBVIOUS
<1>3. t \in S
  BY <1>1, <1>2 DEF Visited
<1>. QED BY <1>3

LEMMA RootVisited ==
  ASSUME NEW deps \in Edges, NEW st \in States, NEW root \in Task
  PROVE  root \in Visited(deps, st, root) /\ Visited(deps, st, root) \subseteq Task
BY DEF Visited

(***************************************************************************)
(* FailTask, seen from outside: the task is Failed, and another task       *)
(* either keeps its state or is cancelled, which never happens to a task   *)
(* whose dependencies are Completed or that is terminal.                   *)
(***************************************************************************)
LEMMA FailTaskEffect ==
  ASSUME NEW deps \in Edges, NEW st \in States, Coherent(deps, st),
         NEW t \in Task, st[t] \notin Terminal, DependenciesDone(deps, st, t)
  PROVE  /\ FailTask(deps, st, t) \in States
         /\ FailTask(deps, st, t)[t] = "Failed"
         /\ \A u \in Task \ {t} :
              \/ FailTask(deps, st, t)[u] = st[u]
              \/ /\ FailTask(deps, st, t)[u] = "Cancelled"
                 /\ st[u] \notin Terminal
                 /\ ~ DependenciesDone(deps, st, u)
<1> DEFINE mid == [st EXCEPT ![t] = "Failed"]
           new == FailTask(deps, st, t)
<1>1. mid \in States /\ mid[t] = "Failed" /\ \A u \in Task \ {t} : mid[u] = st[u]
  BY DEF States, TaskState
<1>2. new = [u \in Task |-> IF u \in Visited(deps, mid, t) /\ mid[u] \notin Terminal
                              THEN "Cancelled" ELSE mid[u]]
  BY DEF FailTask, CascadeCancel
<1>3. new \in States
  <2>1. \A u \in Task : mid[u] \in TaskState
    BY <1>1 DEF States
  <2>2. "Cancelled" \in TaskState
    BY DEF TaskState
  <2>. HIDE DEF mid, new
  <2>. QED BY <1>2, <2>1, <2>2 DEF States
<1>4. new[t] = "Failed"
  BY <1>1, <1>2 DEF Terminal
<1>5. DependenciesMet(deps, [mid EXCEPT ![t] = "Pending"])
  <2>1. \A u \in Task : \A d \in deps[u] : d \in Task
    BY DEF Edges
  <2>2. [mid EXCEPT ![t] = "Pending"] = [st EXCEPT ![t] = "Pending"]
    BY DEF States
  <2>3. \A u \in Task : t \in deps[u] => st[u] \in {"Pending", "Cancelled"}
    BY DEF Coherent, DependenciesMet, DependenciesDone, Terminal
  <2>. QED
    BY <2>1, <2>2, <2>3 DEF Coherent, DependenciesMet, DependenciesDone, States
<1>6. ASSUME NEW u \in Task \ {t}, new[u] # st[u]
      PROVE  new[u] = "Cancelled" /\ st[u] \notin Terminal /\ ~ DependenciesDone(deps, st, u)
  <2>1. u \in Visited(deps, mid, t) /\ new[u] = "Cancelled" /\ st[u] \notin Terminal
    BY <1>1, <1>2, <1>6
  <2>2. mid[t] # "Completed"
    BY <1>1
  <2>3. ~ DependenciesDone(deps, mid, u)
    BY <1>1, <1>5, <2>1, <2>2, VisitedUnmet
  <2>4. \A d \in Task : st[d] = "Completed" => mid[d] = "Completed"
    BY <1>1 DEF Terminal
  <2>. QED
    BY <2>1, <2>3, <2>4 DEF DependenciesDone, Edges
<1>. QED
  BY <1>3, <1>4, <1>6

\* Every non-terminal dependent of a task that fails or is cancelled by FailTask is
\* cancelled as well.
LEMMA FailTaskReaches ==
  ASSUME NEW deps \in Edges, NEW st \in States, NEW t \in Task,
         NEW d \in Task, FailTask(deps, st, t)[d] \in {"Failed", "Cancelled"},
         st[d] \notin {"Failed", "Cancelled"},
         NEW u \in Task, d \in deps[u], u # t, st[u] \notin Terminal
  PROVE  FailTask(deps, st, t)[u] = "Cancelled"
<1> DEFINE mid == [st EXCEPT ![t] = "Failed"]
<1>1. mid \in States /\ mid[t] = "Failed" /\ \A v \in Task \ {t} : mid[v] = st[v]
  BY DEF States, TaskState
<1>2. FailTask(deps, st, t) =
        [v \in Task |-> IF v \in Visited(deps, mid, t) /\ mid[v] \notin Terminal
                          THEN "Cancelled" ELSE mid[v]]
  BY DEF FailTask, CascadeCancel
<1>3. d \in Visited(deps, mid, t)
  <2>1. CASE d = t
    BY <1>1, <2>1, RootVisited
  <2>2. CASE d # t
    BY <1>1, <1>2, <2>2
  <2>. QED BY <2>1, <2>2
<1>4. u \in Visited(deps, mid, t)
  BY <1>1, <1>3, VisitedClosed
<1>. QED
  BY <1>1, <1>2, <1>4
-------------------------------------------------------------------------------
(***************************************************************************)
(* Each rewriting of the task states keeps the run coherent.               *)
(***************************************************************************)

\* An attempt starts.
LEMMA StartCoherent ==
  ASSUME NEW deps \in Edges, NEW st \in States, Coherent(deps, st),
         NEW t \in Task, st[t] \in {"Pending", "Retrying"}, DependenciesDone(deps, st, t)
  PROVE  /\ [st EXCEPT ![t] = "Running"] \in States
         /\ Coherent(deps, [st EXCEPT ![t] = "Running"])
<1>1. \A u \in Task : \A d \in deps[u] : d \in Task
  BY DEF Edges
<1>2. \A u \in Task : t \in deps[u] => st[u] \in {"Pending", "Cancelled"}
  BY DEF Coherent, DependenciesMet, DependenciesDone
<1>3. t \notin deps[t]
  BY DEF DependenciesDone
<1>. QED
  BY <1>1, <1>2, <1>3
  DEF Coherent, DependenciesMet, FailuresPropagated, DependenciesDone, States, TaskState

\* An attempt succeeds or will be retried.
LEMMA SettleCoherent ==
  ASSUME NEW deps \in Edges, NEW st \in States, Coherent(deps, st),
         NEW t \in Task, st[t] = "Running", NEW s \in {"Completed", "Retrying"}
  PROVE  /\ [st EXCEPT ![t] = s] \in States
         /\ Coherent(deps, [st EXCEPT ![t] = s])
<1>1. \A u \in Task : \A d \in deps[u] : d \in Task
  BY DEF Edges
<1>2. \A u \in Task : t \in deps[u] => st[u] \in {"Pending", "Cancelled"}
  BY DEF Coherent, DependenciesMet, DependenciesDone
<1>3. DependenciesDone(deps, st, t) /\ t \notin deps[t]
  BY DEF Coherent, DependenciesMet, DependenciesDone
<1>. QED
  BY <1>1, <1>2, <1>3
  DEF Coherent, DependenciesMet, FailuresPropagated, DependenciesDone, States, TaskState

\* A task fails for good and its dependents are cancelled.
LEMMA FailCoherent ==
  ASSUME NEW deps \in Edges, NEW st \in States, Coherent(deps, st),
         NEW t \in Task, st[t] \notin Terminal, DependenciesDone(deps, st, t)
  PROVE  /\ FailTask(deps, st, t) \in States
         /\ Coherent(deps, FailTask(deps, st, t))
<1> DEFINE new == FailTask(deps, st, t)
<1>1. /\ new \in States /\ new[t] = "Failed"
      /\ \A u \in Task \ {t} :
           \/ new[u] = st[u]
           \/ new[u] = "Cancelled" /\ st[u] \notin Terminal /\ ~ DependenciesDone(deps, st, u)
  BY FailTaskEffect
<1>2. \A u \in Task : \A d \in deps[u] : d \in Task
  BY DEF Edges
<1>3. \A d \in Task : st[d] = "Completed" => new[d] = "Completed"
  BY <1>1 DEF Terminal
<1>4. DependenciesMet(deps, new)
  <2> SUFFICES ASSUME NEW u \in Task, new[u] \notin {"Pending", "Cancelled"}
               PROVE  DependenciesDone(deps, new, u)
    BY DEF DependenciesMet
  <2>1. DependenciesDone(deps, st, u)
    BY <1>1 DEF Coherent, DependenciesMet
  <2>. QED
    BY <1>2, <1>3, <2>1 DEF DependenciesDone
<1>5. FailuresPropagated(deps, new)
  <2> SUFFICES ASSUME NEW u \in Task, NEW d \in deps[u], new[d] \in {"Failed", "Cancelled"}
               PROVE  new[u] = "Cancelled"
    BY DEF FailuresPropagated
  <2>1. d \in Task
    BY <1>2
  <2>2. u # t
    BY <1>3, <2>1 DEF DependenciesDone
  <2>3. CASE st[d] \in {"Failed", "Cancelled"}
    BY <1>1, <2>2, <2>3 DEF Coherent, FailuresPropagated
  <2>4. CASE st[d] \notin {"Failed", "Cancelled"} /\ st[u] \notin Terminal
    BY <2>1, <2>2, <2>4, FailTaskReaches
  <2>5. CASE st[d] \notin {"Failed", "Cancelled"} /\ st[u] \in Terminal
    <3>1. st[d] # "Completed"
      BY <1>3, <2>1
    <3>2. st[u] = "Cancelled"
      BY <2>5, <3>1 DEF Coherent, DependenciesMet, DependenciesDone, Terminal
    <3>. QED
      BY <1>1, <2>2, <3>2
  <2>. QED
    BY <2>3, <2>4, <2>5
<1>. QED
  BY <1>1, <1>4, <1>5 DEF Coherent

\* What was running is pending again.
LEMMA RequeueCoherent ==
  ASSUME NEW deps \in Edges, NEW st \in States, Coherent(deps, st)
  PROVE  Requeue(st) \in States /\ Coherent(deps, Requeue(st))
<1>1. \A u \in Task : \A d \in deps[u] : d \in Task
  BY DEF Edges
<1>2. Requeue(st) \in States
  BY DEF Requeue, States, TaskState
<1>. QED
  BY <1>1, <1>2
  DEF Coherent, DependenciesMet, FailuresPropagated, DependenciesDone, Requeue, States

\* What is not terminal is cancelled.
LEMMA CancelRestCoherent ==
  ASSUME NEW deps \in Edges, NEW st \in States, Coherent(deps, st)
  PROVE  CancelRest(st) \in States /\ Coherent(deps, CancelRest(st))
<1>1. \A u \in Task : \A d \in deps[u] : d \in Task
  BY DEF Edges
<1>2. CancelRest(st) \in States
  BY DEF CancelRest, States, TaskState, Terminal
<1>. QED
  BY <1>1, <1>2
  DEF Coherent, DependenciesMet, FailuresPropagated, DependenciesDone, CancelRest, States, Terminal
===============================================================================
