------------------------------- MODULE Planner -------------------------------
(***************************************************************************)
(* From a prompt to the tasks of a run: planner::plan and the part of      *)
(* state::create_run that refuses a cyclic plan.  An item is what the LLM  *)
(* (or a prompt that is itself a JSON plan) says of a task: a name and the *)
(* names it depends on.  Names need not differ.  The ids of the tasks are  *)
(* fresh, so item i becomes task i.  The prompt sent to the LLM, its text  *)
(* around the JSON, the split of the token budget and the choice of the    *)
(* provider are left out.                                                  *)
(***************************************************************************)
EXTENDS Integers, Sequences, FiniteSets

CONSTANT
  Name       \* task names as the planner writes them

\* plan: any list of items; without a provider the one item "main".
Item == [name : Name, depends_on : SUBSET Name]

\* name_to_id: an item replaces an earlier one of the same name.
IdOf(items, n) ==
  CHOOSE i \in DOMAIN items :
    /\ items[i].name = n
    /\ \A j \in DOMAIN items : items[j].name = n => j <= i

\* items_to_tasks refuses a dependency on a name that no item has.
Resolvable(items) ==
  \A i \in DOMAIN items : \A n \in items[i].depends_on :
    \E j \in DOMAIN items : items[j].name = n

DependsOn(items) ==
  [i \in DOMAIN items |-> {IdOf(items, n) : n \in items[i].depends_on}]

\* TaskGraph::new, called by create_run.
Accepted(items) ==
  /\ Resolvable(items)
  /\ \A S \in SUBSET DOMAIN items :
       S # {} => \E i \in S : DependsOn(items)[i] \cap S = {}
=============================================================================
