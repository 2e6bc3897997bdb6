----------------------------- MODULE MCRepository -----------------------------
(***************************************************************************)
(* Repository for TLC, over plans of one shape: every task has a name of   *)
(* its own and depends on earlier tasks only.  That leaves out what only   *)
(* renames or reorders tasks, and two tasks of one name, which share their *)
(* branch as two names that are sanitized alike do.                        *)
(***************************************************************************)
EXTENDS Repository, TLC

Ordered ==
  /\ \A t, u \in Task : t # u => item[t].name # item[u].name
  /\ \A t \in Task : \A d \in DependsOn(t) : d < t

\* All the tasks are in one run; one of them waits for another or shares its branch.
Together == Cardinality({run[t] : t \in Task}) = 1
Linked == \E t, u \in Task : t # u /\ (t \in DependsOn(u) \/ BranchOf(t) = BranchOf(u))

\* Tasks that have less to do with each other meet fewer faults.
FaultsLeft == MaxFaults - (IF Together THEN 0 ELSE 1) - (IF Linked THEN 0 ELSE 1)

OrderedInit == Init /\ Ordered
OrderedSpec == OrderedInit /\ [][Next]_vars

BoundedNext == Next /\ faults' <= FaultsLeft
BoundedSpec == OrderedInit /\ [][BoundedNext]_vars

Symmetry == Permutations(Run) \cup Permutations(Name) \cup Permutations(Branch)
=============================================================================
