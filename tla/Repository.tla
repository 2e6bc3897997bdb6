------------------------------ MODULE Repository ------------------------------
(***************************************************************************)
(* The git repository that the runs of omt share (bins/omt/src/worktree.rs,*)
(* the finalize of scheduler.rs, cleanup_stale and pick_resumable_run of   *)
(* recovery.rs, the lock of state.rs, the modes of main.rs).  OmtScheduler *)
(* has the scheduling of one run in full and no git; here scheduling is    *)
(* reduced to what git and the commands on other runs see of it.           *)
(*                                                                         *)
(* A commit is named by the task whose omh child made it.  A run is worked *)
(* on by one process at a time: it is picked by `omt resume` only after    *)
(* its process has gone.  (Two schedulers on one run are not here, nor is  *)
(* a run resumed by its id, which OmtScheduler has.)                       *)
(* Members of a team work elsewhere and never touch this repository.       *)
(***************************************************************************)
EXTENDS Integers, FiniteSets

CONSTANTS
  Run,         \* ids of runs
  Name,        \* names of tasks, as the planner writes them
  Branch,      \* branch names
  Detector,    \* processes that run detect_crashed_runs, for `omt resume` or `omt cleanup`
  MaxTasks,    \* bound of the model: tasks of all the runs
  MaxFaults    \* bound of the model: crashes, interrupts and commands that fail

ASSUME RepositoryBounds == MaxTasks \in Nat \ {0} /\ MaxFaults \in Nat

Task == 1 .. MaxTasks     \* task ids are ULIDs, never used twice

Plans == INSTANCE Planner

VARIABLES
  run,         \* the run each task belongs to
  item,        \* its plan item
  sanitized,   \* sanitize_branch: several names may have one branch
  runState,    \* state of each run in its state.json, "none" before create_run
  disk,        \* state and worktree_path of each task in state.json
  mem,         \* the same in the memory of the run's process
  lock,        \* the run's lock file: its pid is alive, dead, or there is no file
  pc,          \* where the run's process is
  todo,        \* tasks finalize has still to merge, or to clean up
  child,       \* tasks with an omh process that the run's process waits for
  orphan,      \* tasks with an omh process that has outlived its omt
  trees,       \* tasks with a worktree .omt/<task_id>
  dirty,       \* tasks with uncommitted changes in it
  commits,     \* the commits of each branch that exists, and main's at its creation
  branches,    \* the branches that exist
  main,        \* the commits of the branch the user has checked out
  mergeHead,   \* an unfinished merge in the user's checkout
  stale,       \* what an `omt cleanup` has found and not yet dealt with
  checked,     \* what of it had no uncommitted changes when it looked
  probe,       \* where each detector is with each run
  copy,        \* the task records each detector has read
  left,        \* worktrees that git refused to remove, or made for a process that died (history)
  untraced,    \* runs whose lock was released although their file was not saved (history)
  overwritten, \* runs whose file a detector has replaced with an older one (history)
  faults       \* faults so far (bookkeeping of the model)

plan == <<run, item, sanitized>>
git == <<trees, dirty, commits, branches, main, mergeHead>>
files == <<runState, disk, lock>>
commands == <<stale, checked, probe, copy>>
history == <<left, untraced, overwritten>>
vars == <<plan, files, mem, pc, todo, child, orphan, git, commands, history, faults>>

TaskStates == {"Pending", "Running", "Completed", "Failed", "Cancelled"}
Ended == {"Completed", "Failed", "Cancelled"}
TaskRecord == [state : TaskStates, worktree_path : BOOLEAN]

TypeOK ==
  /\ run \in [Task -> Run] /\ item \in [Task -> Plans!Item]
  /\ sanitized \in [Name -> Branch]
  /\ runState \in [Run -> {"none", "Planned", "Running", "Finished", "Interrupted", "Crashed"}]
  /\ disk \in [Task -> TaskRecord] /\ mem \in [Task -> TaskRecord]
  /\ lock \in [Run -> {"none", "live", "dead"}]
  /\ pc \in [Run -> {"down", "load", "lock", "loop", "save", "merge", "remove"}]
  /\ todo \in SUBSET Task /\ child \in SUBSET Task /\ orphan \in SUBSET Task
  /\ trees \in SUBSET Task /\ dirty \in SUBSET trees
  /\ branches \in SUBSET Branch /\ commits \in [Branch -> SUBSET Task]
  /\ main \in SUBSET Task /\ mergeHead \in BOOLEAN
  /\ stale \in SUBSET Task /\ checked \in SUBSET stale
  /\ probe \in [Detector -> [Run -> {"idle", "stale", "loaded", "saved"}]]
  /\ copy \in [Detector -> [Task -> TaskRecord]]
  /\ left \in SUBSET trees /\ untraced \in SUBSET Run /\ overwritten \in SUBSET Run
  /\ faults \in 0 .. MaxFaults

TasksOf(r) == {t \in Task : run[t] = r}
ItemsOf(r) == [t \in TasksOf(r) |-> item[t]]
DependsOn(t) == Plans!DependsOn(ItemsOf(run[t]))[t]
BranchOf(t) == sanitized[item[t].name]

Fresh == [t \in Task |-> [state |-> "Pending", worktree_path |-> FALSE]]

Init ==
  /\ run \in [Task -> Run] /\ item \in [Task -> Plans!Item]
  /\ sanitized \in [Name -> Branch]
  /\ \A r \in Run : Plans!Accepted(ItemsOf(r))
  /\ runState = [r \in Run |-> "none"] /\ lock = [r \in Run |-> "none"]
  /\ disk = Fresh /\ mem = Fresh
  /\ pc = [r \in Run |-> "down"] /\ todo = {} /\ child = {} /\ orphan = {}
  /\ trees = {} /\ dirty = {} /\ branches = {}
  /\ commits = [b \in Branch |-> {}]
  /\ main = {} /\ mergeHead = FALSE /\ stale = {} /\ checked = {}
  /\ probe = [d \in Detector |-> [r \in Run |-> "idle"]]
  /\ copy = [d \in Detector |-> Fresh]
  /\ left = {} /\ untraced = {} /\ overwritten = {} /\ faults = 0
------------------------------------------------------------------------------
(***************************************************************************)
(* Starting a run and saving it.                                           *)
(***************************************************************************)
Goto(r, l) == pc' = [pc EXCEPT ![r] = l]

\* What happens for no reason of the model's: it is counted.
Fault == faults < MaxFaults /\ faults' = faults + 1

\* The file of r with the task records of m.
SavedFrom(r, m) == [t \in Task |-> IF run[t] = r THEN m[t] ELSE disk[t]]

\* create_run: planned, and locked by the process that will run it.
CreateRun(r) ==
  /\ runState[r] = "none" /\ TasksOf(r) # {}
  /\ runState' = [runState EXCEPT ![r] = "Planned"]
  /\ lock' = [lock EXCEPT ![r] = "live"]
  /\ Goto(r, "load")
  /\ UNCHANGED <<plan, disk, mem, todo, child, orphan, git, commands, history, faults>>

\* scheduler::run reads the file and saves it as Running before it takes the lock.
Load(r) ==
  /\ pc[r] = "load"
  /\ mem' = [t \in Task |-> IF run[t] = r THEN disk[t] ELSE mem[t]]
  /\ runState' = [runState EXCEPT ![r] = "Running"]
  /\ Goto(r, "lock")
  /\ UNCHANGED <<plan, disk, lock, todo, child, orphan, git, commands, history, faults>>

\* Mutant: the lock is taken for granted once the run has been created.
NoLockAgain(r) ==
  /\ pc[r] = "lock"
  /\ Goto(r, "loop")
  /\ UNCHANGED <<plan, files, mem, todo, child, orphan, git, commands, history, faults>>

\* acquire_lock overwrites any lock file.
AcquireLock(r) ==
  /\ pc[r] = "lock"
  /\ lock' = [lock EXCEPT ![r] = "live"]
  /\ untraced' = untraced \ {r}
  /\ Goto(r, "loop")
  /\ UNCHANGED <<plan, runState, disk, mem, todo, child, orphan, git, commands, left,
                 overwritten, faults>>
------------------------------------------------------------------------------
(***************************************************************************)
(* A task: its worktree, its child, its outcome.                           *)
(***************************************************************************)
Eligible(r) ==
  {t \in TasksOf(r) : /\ mem[t].state = "Pending"
                      /\ \A d \in DependsOn(t) : mem[d].state = "Completed"}

CheckedOut(b) == \E u \in trees : BranchOf(u) = b

\* `git worktree add -b` needs a path and a branch that do not exist; the second
\* try, for a branch that exists, needs one that no worktree has checked out.
CanAdd(t) == t \notin trees /\ (BranchOf(t) \in branches => ~ CheckedOut(BranchOf(t)))

NewBranch(b) == branches' = branches \cup {b} /\ commits' = [commits EXCEPT ![b] = main]

\* create_worktree, when git can: a new branch starts at main, an old one goes on.
AddWorktree(t) ==
  /\ trees' = trees \cup {t}
  /\ \/ BranchOf(t) \in branches /\ UNCHANGED <<branches, commits>>
     \/ BranchOf(t) \notin branches /\ NewBranch(BranchOf(t))

\* The first launch of t.  What git did is not in the file until the next step.
LaunchNew(r, t) ==
  /\ pc[r] = "loop" /\ t \in Eligible(r) /\ ~ mem[t].worktree_path
  /\ CanAdd(t) /\ AddWorktree(t)
  /\ mem' = [mem EXCEPT ![t] = [state |-> "Running", worktree_path |-> TRUE]]
  /\ Goto(r, "save")
  /\ UNCHANGED <<plan, files, todo, child, orphan, dirty, main, mergeHead, commands, history,
                 faults>>

\* A later launch, after a retry or a resume, trusts worktree_path.
LaunchAgain(r, t) ==
  /\ pc[r] = "loop" /\ t \in Eligible(r) /\ mem[t].worktree_path
  /\ mem' = [mem EXCEPT ![t].state = "Running"]
  /\ Goto(r, "save")
  /\ UNCHANGED <<plan, files, todo, child, orphan, git, commands, history, faults>>

\* The tasks that wait for t, directly or not, are cancelled with it.
Downstream(r, t) ==
  {u \in TasksOf(r) : \A S \in SUBSET TasksOf(r) :
     (t \in S /\ \A v \in TasksOf(r) : DependsOn(v) \cap S # {} => v \in S) => u \in S}

FailIn(r, t) ==
  [u \in Task |->
     IF u = t THEN [mem[t] EXCEPT !.state = "Failed"]
     ELSE IF u \in Downstream(r, t) /\ mem[u].state \notin Ended
       THEN [mem[u] EXCEPT !.state = "Cancelled"]
     ELSE mem[u]]

\* create_worktree fails for a reason of its own at any time, and must fail where
\* git cannot add.  `git worktree add -b` may have made the branch by then.
LaunchFails(r, t) ==
  /\ pc[r] = "loop" /\ t \in Eligible(r) /\ ~ mem[t].worktree_path
  /\ IF CanAdd(t) THEN Fault ELSE UNCHANGED faults
  /\ \/ UNCHANGED <<branches, commits>>
     \/ CanAdd(t) /\ BranchOf(t) \notin branches /\ NewBranch(BranchOf(t))
  /\ mem' = FailIn(r, t)
  /\ disk' = SavedFrom(r, mem')
  /\ runState' = [runState EXCEPT ![r] = "Running"]
  /\ UNCHANGED <<plan, lock, pc, todo, child, orphan, trees, dirty, main, mergeHead, commands,
                 history>>

\* save_state, then the child is spawned; without a directory it cannot be.
SaveAndSpawn(r) ==
  /\ pc[r] = "save"
  /\ disk' = SavedFrom(r, mem)
  /\ runState' = [runState EXCEPT ![r] = "Running"]
  /\ child' = child \cup {t \in TasksOf(r) \cap trees :
                            mem[t].state = "Running" /\ disk[t].state # "Running"}
  /\ Goto(r, "loop")
  /\ UNCHANGED <<plan, lock, mem, todo, orphan, git, commands, history, faults>>

\* The agent edits files and may commit them; omt itself never commits.
Edit(t) ==
  /\ t \in (child \cup orphan) \cap trees
  /\ dirty' = dirty \cup {t}
  /\ UNCHANGED <<plan, files, mem, pc, todo, child, orphan, trees, commits, branches, main,
                 mergeHead, commands, history, faults>>

Commit(t) ==
  /\ t \in (child \cup orphan) \cap dirty
  /\ dirty' = dirty \ {t}
  /\ commits' = [commits EXCEPT ![BranchOf(t)] = @ \cup {t}]
  /\ UNCHANGED <<plan, files, mem, pc, todo, child, orphan, trees, branches, main,
                 mergeHead, commands, history, faults>>

\* The child ends, or never started: the outcome is applied and saved.  An orphan
\* that works in the same directory goes on.
TaskEnds(r, t) ==
  /\ pc[r] = "loop" /\ run[t] = r /\ mem[t].state = "Running"
  /\ \/ t \in child /\ mem' = [mem EXCEPT ![t].state = "Completed"]
     \/ mem' = [mem EXCEPT ![t].state = "Pending"]         \* to be retried
     \/ mem' = FailIn(r, t)
  /\ disk' = SavedFrom(r, mem')
  /\ runState' = [runState EXCEPT ![r] = "Running"]
  /\ child' = child \ {t}
  /\ UNCHANGED <<plan, lock, pc, todo, orphan, git, commands, history, faults>>

\* A child whose omt is gone ends by itself, whatever has become of its run.
OrphanEnds(t) ==
  /\ t \in orphan
  /\ orphan' = orphan \ {t}
  /\ UNCHANGED <<plan, files, mem, pc, todo, child, git, commands, history, faults>>
------------------------------------------------------------------------------
(***************************************************************************)
(* finalize: merge what is Completed, in topological order; then remove    *)
(* every worktree and branch of the run.                                   *)
(***************************************************************************)

\* Mutant: everything is merged, whatever became of it.
MergeAll(r) == TasksOf(r)

ToMerge(r) == {t \in TasksOf(r) : mem[t].state = "Completed"}

BeginFinalize(r) ==
  /\ pc[r] = "loop"
  /\ \A t \in TasksOf(r) : mem[t].state \in Ended
  /\ todo' = (todo \ TasksOf(r)) \cup ToMerge(r)
  /\ Goto(r, "merge")
  /\ UNCHANGED <<plan, files, mem, child, orphan, git, commands, history, faults>>

\* merge_branch.  git says CONFLICT on stdout and merge_branch reads stderr, so a
\* conflict is an error like any other: nothing is aborted, and every later merge
\* is refused until the user has put the checkout in order.  A merge is also refused,
\* with nothing begun, where it would touch files the user has changed.
MergeOutcome(b) ==
  IF mergeHead \/ b \notin branches
    THEN UNCHANGED <<main, mergeHead, faults>>
    ELSE \/ main' = main \cup commits[b] /\ UNCHANGED <<mergeHead, faults>>
         \/ ~ (commits[b] \subseteq main) /\ mergeHead' = TRUE /\ UNCHANGED <<main, faults>>
         \/ Fault /\ UNCHANGED <<main, mergeHead>>

Merge(r, t) ==
  /\ pc[r] = "merge" /\ t \in todo /\ run[t] = r
  /\ DependsOn(t) \cap todo = {}
  /\ MergeOutcome(BranchOf(t))
  /\ todo' = todo \ {t}
  /\ UNCHANGED <<plan, files, mem, pc, child, orphan, trees, dirty, commits, branches, commands,
                 history>>

\* Mutant: only what was to be merged is cleaned up.
CleanUpMerged(r) ==
  /\ pc[r] = "merge" /\ todo \cap TasksOf(r) = {}
  /\ todo' = todo \cup ToMerge(r)
  /\ Goto(r, "remove")
  /\ UNCHANGED <<plan, files, mem, child, orphan, git, commands, history, faults>>

BeginCleanup(r) ==
  /\ pc[r] = "merge" /\ todo \cap TasksOf(r) = {}
  /\ todo' = todo \cup TasksOf(r)
  /\ Goto(r, "remove")
  /\ UNCHANGED <<plan, files, mem, child, orphan, git, commands, history, faults>>

\* remove_worktree --force, which takes uncommitted changes along.
RemoveWorktree(t) ==
  /\ trees' = trees \ {t} /\ dirty' = dirty \ {t}
  /\ left' = left \ {t}

\* The branches that are no longer there take the commits only they have along.
KeepCommits == commits' = [b \in Branch |-> IF b \in branches' THEN commits[b] ELSE {}]

\* The worktree goes if the memory names one, then the branch if no worktree has it
\* checked out.  git may refuse either, and no error counts.
CleanUpTask(r, t) ==
  /\ pc[r] = "remove" /\ t \in todo /\ run[t] = r
  /\ \/ /\ IF mem[t].worktree_path THEN RemoveWorktree(t) ELSE UNCHANGED <<trees, dirty, left>>
        /\ branches' = IF \E u \in trees' : BranchOf(u) = BranchOf(t)
                         THEN branches ELSE branches \ {BranchOf(t)}
        /\ UNCHANGED faults
     \/ /\ mem[t].worktree_path /\ t \in trees /\ Fault
        /\ left' = left \cup {t}
        /\ UNCHANGED <<trees, dirty, branches>>
     \/ /\ IF mem[t].worktree_path THEN RemoveWorktree(t) ELSE UNCHANGED <<trees, dirty, left>>
        /\ BranchOf(t) \in branches /\ Fault
        /\ UNCHANGED branches
  /\ KeepCommits
  /\ todo' = todo \ {t}
  /\ UNCHANGED <<plan, files, mem, pc, child, orphan, main, mergeHead, commands, untraced,
                 overwritten>>

\* Finished is saved and the lock released.
Finish(r) ==
  /\ pc[r] = "remove" /\ todo \cap TasksOf(r) = {}
  /\ disk' = SavedFrom(r, mem)
  /\ runState' = [runState EXCEPT ![r] = "Finished"]
  /\ lock' = [lock EXCEPT ![r] = "none"]
  /\ Goto(r, "down")
  /\ UNCHANGED <<plan, mem, todo, child, orphan, git, commands, history, faults>>
------------------------------------------------------------------------------
(***************************************************************************)
(* Crashes, interrupts, `omt resume` and `omt cleanup`.                    *)
(***************************************************************************)
Requeued(task) == IF task.state = "Running" THEN [task EXCEPT !.state = "Pending"] ELSE task

\* What a dead process leaves behind: nothing in memory, its children alive.  A save
\* that fails in the loop ends the process in the same way.
Crash(r) ==
  /\ pc[r] # "down" /\ Fault
  /\ lock' = [lock EXCEPT ![r] = IF @ = "live" THEN "dead" ELSE @]
  /\ mem' = [t \in Task |-> IF run[t] = r THEN disk[t] ELSE mem[t]]
  /\ todo' = todo \ TasksOf(r)
  /\ child' = child \ TasksOf(r)
  /\ orphan' = orphan \cup (child \cap TasksOf(r))
  /\ left' = left \cup {t \in TasksOf(r) \cap trees : mem[t].worktree_path /\ ~ disk[t].worktree_path}
  /\ Goto(r, "down")
  /\ UNCHANGED <<plan, runState, disk, git, commands, untraced, overwritten>>

\* A signal at the top of the loop: the children are killed; graceful_shutdown, which
\* releases the lock even if it could not read or save the file.
Interrupt(r) ==
  /\ pc[r] = "loop" /\ Fault
  /\ child' = child \ TasksOf(r)
  /\ \/ /\ disk' = [t \in Task |-> IF run[t] = r THEN Requeued(disk[t]) ELSE disk[t]]
        /\ runState' = [runState EXCEPT ![r] = "Interrupted"]
        /\ UNCHANGED untraced
     \/ untraced' = untraced \cup {r} /\ UNCHANGED <<disk, runState>>
  /\ mem' = [t \in Task |-> IF run[t] = r THEN disk'[t] ELSE mem[t]]
  /\ lock' = [lock EXCEPT ![r] = "none"]
  /\ Goto(r, "down")
  /\ UNCHANGED <<plan, todo, orphan, git, commands, left, overwritten>>

aside == <<plan, mem, pc, todo, child, orphan, git, stale, checked, left>>

Probe(d, r, s) == probe' = [probe EXCEPT ![d][r] = s]

\* detect_crashed_runs looks at one run after the other: is its lock stale?
DetectStale(d, r) ==
  /\ \A q \in Run : probe[d][q] = "idle"
  /\ lock[r] = "dead"
  /\ Probe(d, r, "stale")
  /\ UNCHANGED <<files, copy, untraced, overwritten, faults, aside>>

\* It reads the file, and goes on if that says Running.
DetectLoad(d, r) ==
  /\ probe[d][r] = "stale" /\ runState[r] = "Running"
  /\ Probe(d, r, "loaded")
  /\ copy' = [copy EXCEPT ![d] = [t \in Task |-> IF run[t] = r THEN disk[t] ELSE Fresh[t]]]
  /\ UNCHANGED <<files, untraced, overwritten, faults, aside>>

\* The file is not the one that was read, or a process works on it again.
Outdated(d, r) ==
  \/ runState[r] # "Running" \/ pc[r] # "down"
  \/ \E t \in TasksOf(r) : disk[t] # copy[d][t]

\* It saves what it read, requeued, whatever the file holds by now.  A save that
\* fails goes unnoticed.
DetectSave(d, r) ==
  /\ probe[d][r] = "loaded"
  /\ Probe(d, r, "saved")
  /\ copy' = [copy EXCEPT ![d] = Fresh]
  /\ \/ /\ disk' = [t \in Task |-> IF run[t] = r THEN Requeued(copy[d][t]) ELSE disk[t]]
        /\ runState' = [runState EXCEPT ![r] = "Crashed"]
        /\ overwritten' = overwritten \cup (IF Outdated(d, r) THEN {r} ELSE {})
        /\ UNCHANGED faults
     \/ Fault /\ UNCHANGED <<disk, runState, overwritten>>
  /\ UNCHANGED <<lock, untraced, aside>>

\* It removes the lock, whoever holds it by now.
DetectRelease(d, r) ==
  /\ probe[d][r] = "saved"
  /\ Probe(d, r, "idle")
  /\ lock' = [lock EXCEPT ![r] = "none"]
  /\ untraced' = untraced \cup
       (IF lock[r] = "live" \/ (runState[r] = "Running" /\ pc[r] = "down") THEN {r} ELSE {})
  /\ UNCHANGED <<runState, disk, copy, overwritten, faults, aside>>

\* It goes on to the next run, because this one is not Running or cannot be read; or
\* the command is killed.
DetectEnds(d, r) ==
  /\ probe[d][r] # "idle"
  /\ IF probe[d][r] = "stale" /\ runState[r] # "Running" THEN UNCHANGED faults ELSE Fault
  /\ Probe(d, r, "idle")
  /\ copy' = [copy EXCEPT ![d] = Fresh]
  /\ UNCHANGED <<files, untraced, overwritten, aside>>

Detect(d, r) ==
  \/ DetectStale(d, r)
  \/ DetectLoad(d, r)
  \/ DetectSave(d, r)
  \/ DetectRelease(d, r)
  \/ DetectEnds(d, r)

\* pick_resumable_run lists, after the detection, what is Crashed or Interrupted, and
\* the user chooses.
Resume(r) ==
  /\ pc[r] = "down" /\ runState[r] \in {"Crashed", "Interrupted"}
  /\ Goto(r, "load")
  /\ UNCHANGED <<plan, files, mem, todo, child, orphan, git, commands, history, faults>>

\* Directories under .omt that no Running run has in its file.  The user is then
\* asked, and may take any time to answer.
Unclaimed == {t \in trees : ~ (runState[run[t]] = "Running" /\ disk[t].worktree_path)}

besides == <<plan, files, mem, pc, todo, child, orphan, probe, copy, untraced, overwritten>>

CleanupScan ==
  /\ stale = {}
  /\ stale' = Unclaimed
  /\ UNCHANGED <<checked, git, left, faults, besides>>

\* The user says no, or git cannot tell what is uncommitted in a directory.
CleanupAborted ==
  /\ stale # {}
  /\ stale' = {} /\ checked' = {}
  /\ UNCHANGED <<git, left, faults, besides>>

\* One directory after the other: with uncommitted changes it is skipped.
CleanupCheck(t) ==
  /\ t \in stale /\ checked = {}
  /\ \/ t \in dirty /\ stale' = stale \ {t} /\ UNCHANGED checked
     \/ t \notin dirty /\ checked' = {t} /\ UNCHANGED stale
  /\ UNCHANGED <<git, left, faults, besides>>

\* Mutant: the branch goes with its worktree.
KeptBy(t) == branches \ {BranchOf(t)}

\* remove_worktree leaves the branch.
BranchesAfter(t) == branches

\* Mutant: the changes of a worktree are remembered when it has gone.
RemovesTreeOnly(t) ==
  /\ t \in checked
  /\ stale' = stale \ {t} /\ checked' = {}
  /\ trees' = trees \ {t} /\ left' = left \ {t}
  /\ UNCHANGED <<dirty, commits, branches, main, mergeHead, faults, besides>>

\* Then it is removed with --force, whatever has been written in it since, or git
\* refuses.  The branch is kept.
CleanupRemove(t) ==
  /\ t \in checked
  /\ stale' = stale \ {t} /\ checked' = {}
  /\ \/ RemoveWorktree(t) /\ branches' = BranchesAfter(t) /\ UNCHANGED faults
     \/ Fault /\ UNCHANGED <<trees, dirty, left, branches>>
  /\ KeepCommits
  /\ UNCHANGED <<main, mergeHead, besides>>
------------------------------------------------------------------------------
TaskStep ==
  \E r \in Run : \E t \in TasksOf(r) :
    \/ LaunchNew(r, t)
    \/ LaunchAgain(r, t)
    \/ LaunchFails(r, t)
    \/ TaskEnds(r, t)
    \/ Merge(r, t)
    \/ CleanUpTask(r, t)

ChildStep == \E t \in Task : Edit(t) \/ Commit(t) \/ OrphanEnds(t)

RunStep ==
  \E r \in Run :
    \/ CreateRun(r)
    \/ Load(r)
    \/ AcquireLock(r)
    \/ SaveAndSpawn(r)
    \/ BeginFinalize(r)
    \/ BeginCleanup(r)
    \/ Finish(r)
    \/ Crash(r)
    \/ Interrupt(r)
    \/ Resume(r)

DetectStep == \E d \in Detector, r \in Run : Detect(d, r)

CleanupStep ==
  CleanupScan \/ CleanupAborted \/ \E t \in Task : CleanupCheck(t) \/ CleanupRemove(t)

Next == TaskStep \/ ChildStep \/ RunStep \/ DetectStep \/ CleanupStep

Spec == Init /\ [][Next]_vars
------------------------------------------------------------------------------
(***************************************************************************)
(* Properties.                                                             *)
(***************************************************************************)

\* What a task whose run has given it up, or not yet finished it, has committed is
\* not in the user's branch, unless another task of the same branch was Completed.  A
\* run whose file a detector has put back may not show what was Completed.
MainHoldsCompletedWork ==
  \A t \in main : \E u \in Task :
    BranchOf(u) = BranchOf(t) /\ (disk[u].state = "Completed" \/ run[u] \in overwritten)

Committed == main \cup UNION {commits[b] : b \in Branch}

\* Crashes, resumes, retries and cleanups never lose a commit; only the cleaning up
\* at the end of a run that has the branch does.
CommitsKeptUntilTheEnd ==
  [][\A t \in Committed :
       t \notin Committed' =>
         \E u \in todo : pc[run[u]] = "remove" /\ BranchOf(u) = BranchOf(t)]_vars

\* A finished run leaves no worktree behind, except in three ways: git refused to remove
\* it, git made it and the process died before it could save its path, or a detector
\* has put back a file that did not have the path.
FinishedLeavesNoWorktree ==
  \A t \in trees :
    runState[run[t]] = "Finished" => t \in left \/ run[t] \in overwritten

\* A run that has no process and whose file says that a task is Running can be found by
\* its stale lock.  It cannot if its lock was released over a save that failed, or by a
\* detector that was still at it when a resumed process took the lock.
CrashLeavesTrace ==
  \A r \in Run \ untraced :
    (pc[r] = "down" /\ \E t \in TasksOf(r) : disk[t].state = "Running")
      => runState[r] = "Running" /\ lock[r] = "dead"

\* "After all tasks complete, merge worktrees back and clean up": what a completed
\* task has done is still somewhere, in main, on its branch or in its worktree.
CompletedWorkMergedBack ==
  [][\A t \in Task :
       (t \in dirty \cup Committed /\ disk[t].state = "Completed")
         => t \in dirty' \cup Committed']_vars
=============================================================================
