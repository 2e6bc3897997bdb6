--------------------------- MODULE Repository_proofs ---------------------------
(***************************************************************************)
(* What the runs of omt do to the git repository they share, for any       *)
(* number of runs, tasks, names, branches and detectors.                   *)
(***************************************************************************)
EXTENDS Repository, TLAPS

Working == {"loop", "save", "merge", "remove"}
AtRest == {"none", "Planned", "Crashed", "Interrupted", "Finished"}

\* File, lock and process of a run.
RunPart(r) ==
  /\ pc[r] = "load" => runState[r] \in {"Planned", "Crashed", "Interrupted"}
  /\ pc[r] # "down" => runState[r] \notin {"none", "Finished"}
  /\ pc[r] \in Working /\ r \notin untraced => lock[r] = "live"
  /\ lock[r] = "live" => pc[r] # "down"

\* Where memory and file agree, and how they differ before a launch is saved.
CopyPart(r) ==
  r \notin overwritten =>
    /\ pc[r] \in {"lock", "loop", "merge", "remove"} => \A t \in TasksOf(r) : mem[t] = disk[t]
    /\ pc[r] = "save" =>
         \A t \in TasksOf(r) :
           mem[t] = disk[t] \/ (mem[t].state = "Running" /\ disk[t].state = "Pending")

\* No task of a run is Running in the file before its lock has been taken, or once it
\* has been requeued.
QuietPart(r) ==
  (runState[r] \in AtRest \/ pc[r] = "lock" \/ (lock[r] = "none" /\ r \notin untraced))
    => \A t \in TasksOf(r) : disk[t].state # "Running"

\* A worktree is known to the memory and, but for a launch not yet saved, to the file.
WorktreePart(r) ==
  r \notin overwritten =>
    \A t \in (TasksOf(r) \cap trees) \ left :
      mem[t].worktree_path /\ (pc[r] # "save" => disk[t].worktree_path)

\* What is left to do in finalize, and what has been done.
FinalizePart(r) ==
  /\ pc[r] \in {"merge", "remove"} => \A t \in TasksOf(r) : mem[t].state \in Ended
  /\ pc[r] = "merge" => \A t \in TasksOf(r) \cap todo : mem[t].state = "Completed"
  /\ pc[r] = "remove" /\ r \notin overwritten => (TasksOf(r) \cap trees) \ left \subseteq todo

\* A worktree has its branch; a branch has commits of its own tasks and of main.
GitPart ==
  /\ \A t \in trees : BranchOf(t) \in branches
  /\ \A b \in Branch \ branches : commits[b] = {}
  /\ \A b \in Branch : \A t \in commits[b] : BranchOf(t) = b \/ t \in main

IInv ==
  /\ TypeOK
  /\ \A r \in Run :
       RunPart(r) /\ CopyPart(r) /\ QuietPart(r) /\ WorktreePart(r) /\ FinalizePart(r)
  /\ GitPart
  /\ MainHoldsCompletedWork
  /\ FinishedLeavesNoWorktree

LEMMA BranchTyped ==
  ASSUME TypeOK, NEW t \in Task
  PROVE  BranchOf(t) \in Branch
BY DEF TypeOK, BranchOf, Plans!Item

\* A failure of t: it becomes Failed, what waits for it Cancelled, and no path changes.
LEMMA FailInEffect ==
  ASSUME TypeOK, NEW r \in Run, NEW t \in TasksOf(r)
  PROVE  /\ FailIn(r, t) \in [Task -> TaskRecord]
         /\ FailIn(r, t)[t].state = "Failed"
         /\ \A u \in Task : FailIn(r, t)[u].worktree_path = mem[u].worktree_path
         /\ \A u \in Task \ TasksOf(r) : FailIn(r, t)[u] = mem[u]
         /\ \A u \in Task \ {t} :
              \/ FailIn(r, t)[u] = mem[u]
              \/ mem[u].state \notin Ended /\ FailIn(r, t)[u].state = "Cancelled"
<1> DEFINE m == FailIn(r, t)
<1>1. mem \in [Task -> TaskRecord] /\ t \in Task
  BY DEF TypeOK, TasksOf
<1>2. m[t] = [mem[t] EXCEPT !.state = "Failed"]
  BY <1>1 DEF FailIn
<1>3. ASSUME NEW u \in Task \ {t}
      PROVE  \/ m[u] = mem[u]
             \/ u \in Downstream(r, t) /\ mem[u].state \notin Ended
                  /\ m[u] = [mem[u] EXCEPT !.state = "Cancelled"]
  BY <1>3 DEF FailIn
<1>4. Downstream(r, t) \subseteq TasksOf(r)
  BY DEF Downstream
<1>5. ASSUME NEW u \in Task PROVE m[u] \in TaskRecord /\ m[u].worktree_path = mem[u].worktree_path
  <2>1. mem[u] \in TaskRecord
    BY <1>1
  <2>2. CASE u = t
    BY <2>1, <2>2, <1>2 DEF TaskRecord, TaskStates
  <2>3. CASE u # t /\ m[u] = mem[u]
    BY <2>1, <2>3
  <2>4. CASE u # t /\ m[u] = [mem[u] EXCEPT !.state = "Cancelled"]
    BY <2>1, <2>4 DEF TaskRecord, TaskStates
  <2>5. QED
    BY <2>2, <2>3, <2>4, <1>3
<1>6. m \in [Task -> TaskRecord]
  BY <1>5 DEF FailIn
<1>7. QED
  BY <1>1, <1>2, <1>3, <1>4, <1>5, <1>6 DEF TaskRecord

LEMMA FaultTyped ==
  ASSUME faults \in 0 .. MaxFaults, Fault
  PROVE  faults' \in 0 .. MaxFaults
BY RepositoryBounds DEF Fault

\* Every task keeps its type when it is requeued, and is not Running then.
LEMMA RequeuedEffect ==
  ASSUME NEW task \in TaskRecord
  PROVE  /\ Requeued(task) \in TaskRecord /\ Requeued(task).state # "Running"
         /\ Requeued(task).worktree_path = task.worktree_path
         /\ task.state # "Running" => Requeued(task) = task
BY DEF Requeued, TaskRecord, TaskStates

LEMMA CreateRunInv ==
  ASSUME IInv, NEW r \in Run, CreateRun(r)
  PROVE  IInv'
<1> USE DEF CreateRun, Goto, TasksOf, plan, git, files, commands, history
<1>1. TypeOK'
  BY BranchTyped DEF IInv, TypeOK, TaskRecord, TaskStates, Ended, Fresh
<1>2. \A u \in Task : BranchOf(u)' = BranchOf(u)
  BY DEF BranchOf
<1>3. ASSUME NEW q \in Run PROVE RunPart(q)' /\ QuietPart(q)'
  BY <1>1 DEF IInv, TypeOK, RunPart, CopyPart, QuietPart, FinalizePart, Working, AtRest,
     TaskRecord, Ended
<1>4. ASSUME NEW q \in Run PROVE CopyPart(q)' /\ FinalizePart(q)'
  BY <1>1 DEF IInv, TypeOK, RunPart, CopyPart, WorktreePart, FinalizePart, Working, TaskRecord,
     Ended
<1>5. ASSUME NEW q \in Run PROVE WorktreePart(q)'
  BY <1>1 DEF IInv, TypeOK, RunPart, CopyPart, WorktreePart, Working, TaskRecord
<1>6. GitPart'
  BY <1>1, <1>2, BranchTyped DEF IInv, TypeOK, GitPart
<1>7. MainHoldsCompletedWork' /\ FinishedLeavesNoWorktree'
  BY <1>1, <1>2 DEF IInv, TypeOK, MainHoldsCompletedWork, FinishedLeavesNoWorktree, RunPart,
     CopyPart, FinalizePart, GitPart, Working, TaskRecord, Ended
<1>8. QED
  BY <1>1, <1>3, <1>4, <1>5, <1>6, <1>7 DEF IInv

LEMMA LoadInv ==
  ASSUME IInv, NEW r \in Run, Load(r)
  PROVE  IInv'
<1> USE DEF Load, Goto, TasksOf, plan, git, files, commands, history
<1>1. TypeOK'
  BY BranchTyped DEF IInv, TypeOK, TaskRecord, TaskStates, Ended, Fresh
<1>2. \A u \in Task : BranchOf(u)' = BranchOf(u)
  BY DEF BranchOf
<1>3. ASSUME NEW q \in Run PROVE RunPart(q)' /\ QuietPart(q)'
  BY <1>1 DEF IInv, TypeOK, RunPart, CopyPart, QuietPart, FinalizePart, Working, AtRest,
     TaskRecord, Ended
<1>4. ASSUME NEW q \in Run PROVE CopyPart(q)' /\ FinalizePart(q)'
  BY <1>1 DEF IInv, TypeOK, RunPart, CopyPart, WorktreePart, FinalizePart, Working, TaskRecord,
     Ended
<1>5. ASSUME NEW q \in Run PROVE WorktreePart(q)'
  BY <1>1 DEF IInv, TypeOK, RunPart, CopyPart, WorktreePart, Working, TaskRecord
<1>6. GitPart'
  BY <1>1, <1>2, BranchTyped DEF IInv, TypeOK, GitPart
<1>7. MainHoldsCompletedWork' /\ FinishedLeavesNoWorktree'
  BY <1>1, <1>2 DEF IInv, TypeOK, MainHoldsCompletedWork, FinishedLeavesNoWorktree, RunPart,
     CopyPart, FinalizePart, GitPart, Working, TaskRecord, Ended
<1>8. QED
  BY <1>1, <1>3, <1>4, <1>5, <1>6, <1>7 DEF IInv

LEMMA AcquireLockInv ==
  ASSUME IInv, NEW r \in Run, AcquireLock(r)
  PROVE  IInv'
<1> USE DEF AcquireLock, Goto, TasksOf, plan, git, files, commands, history
<1>1. TypeOK'
  BY BranchTyped DEF IInv, TypeOK, TaskRecord, TaskStates, Ended, Fresh
<1>2. \A u \in Task : BranchOf(u)' = BranchOf(u)
  BY DEF BranchOf
<1>3. ASSUME NEW q \in Run PROVE RunPart(q)' /\ QuietPart(q)'
  BY <1>1 DEF IInv, TypeOK, RunPart, CopyPart, QuietPart, FinalizePart, Working, AtRest,
     TaskRecord, Ended
<1>4. ASSUME NEW q \in Run PROVE CopyPart(q)' /\ FinalizePart(q)'
  BY <1>1 DEF IInv, TypeOK, RunPart, CopyPart, WorktreePart, FinalizePart, Working, TaskRecord,
     Ended
<1>5. ASSUME NEW q \in Run PROVE WorktreePart(q)'
  BY <1>1 DEF IInv, TypeOK, RunPart, CopyPart, WorktreePart, Working, TaskRecord
<1>6. GitPart'
  BY <1>1, <1>2, BranchTyped DEF IInv, TypeOK, GitPart
<1>7. MainHoldsCompletedWork' /\ FinishedLeavesNoWorktree'
  BY <1>1, <1>2 DEF IInv, TypeOK, MainHoldsCompletedWork, FinishedLeavesNoWorktree, RunPart,
     CopyPart, FinalizePart, GitPart, Working, TaskRecord, Ended
<1>8. QED
  BY <1>1, <1>3, <1>4, <1>5, <1>6, <1>7 DEF IInv

LEMMA LaunchNewInv ==
  ASSUME IInv, NEW r \in Run, NEW t \in TasksOf(r), LaunchNew(r, t)
  PROVE  IInv'
<1> USE DEF LaunchNew, AddWorktree, NewBranch, CanAdd, CheckedOut, Eligible, Goto, TasksOf,
       plan, git, files, commands, history
<1>1. TypeOK'
  BY BranchTyped DEF IInv, TypeOK, TaskRecord, TaskStates, Ended, Fresh
<1>2. \A u \in Task : BranchOf(u)' = BranchOf(u)
  BY DEF BranchOf
<1>3. ASSUME NEW q \in Run PROVE RunPart(q)' /\ QuietPart(q)'
  BY <1>1 DEF IInv, TypeOK, RunPart, CopyPart, QuietPart, FinalizePart, Working, AtRest,
     TaskRecord, Ended
<1>4. ASSUME NEW q \in Run PROVE CopyPart(q)' /\ FinalizePart(q)'
  BY <1>1 DEF IInv, TypeOK, RunPart, CopyPart, WorktreePart, FinalizePart, Working, TaskRecord,
     Ended
<1>5. ASSUME NEW q \in Run PROVE WorktreePart(q)'
  BY <1>1 DEF IInv, TypeOK, RunPart, CopyPart, WorktreePart, Working, TaskRecord
<1>6. GitPart'
  BY <1>1, <1>2, BranchTyped DEF IInv, TypeOK, GitPart
<1>7. MainHoldsCompletedWork' /\ FinishedLeavesNoWorktree'
  BY <1>1, <1>2 DEF IInv, TypeOK, MainHoldsCompletedWork, FinishedLeavesNoWorktree, RunPart,
     CopyPart, FinalizePart, GitPart, Working, TaskRecord, Ended
<1>8. QED
  BY <1>1, <1>3, <1>4, <1>5, <1>6, <1>7 DEF IInv

LEMMA LaunchAgainInv ==
  ASSUME IInv, NEW r \in Run, NEW t \in TasksOf(r), LaunchAgain(r, t)
  PROVE  IInv'
<1> USE DEF LaunchAgain, Eligible, Goto, TasksOf, plan, git, files, commands, history
<1>1. TypeOK'
  BY BranchTyped DEF IInv, TypeOK, TaskRecord, TaskStates, Ended, Fresh
<1>2. \A u \in Task : BranchOf(u)' = BranchOf(u)
  BY DEF BranchOf
<1>3. ASSUME NEW q \in Run PROVE RunPart(q)' /\ QuietPart(q)'
  BY <1>1 DEF IInv, TypeOK, RunPart, CopyPart, QuietPart, FinalizePart, Working, AtRest,
     TaskRecord, Ended
<1>4. ASSUME NEW q \in Run PROVE CopyPart(q)' /\ FinalizePart(q)'
  BY <1>1 DEF IInv, TypeOK, RunPart, CopyPart, WorktreePart, FinalizePart, Working, TaskRecord,
     Ended
<1>5. ASSUME NEW q \in Run PROVE WorktreePart(q)'
  BY <1>1 DEF IInv, TypeOK, RunPart, CopyPart, WorktreePart, Working, TaskRecord
<1>6. GitPart'
  BY <1>1, <1>2, BranchTyped DEF IInv, TypeOK, GitPart
<1>7. MainHoldsCompletedWork' /\ FinishedLeavesNoWorktree'
  BY <1>1, <1>2 DEF IInv, TypeOK, MainHoldsCompletedWork, FinishedLeavesNoWorktree, RunPart,
     CopyPart, FinalizePart, GitPart, Working, TaskRecord, Ended
<1>8. QED
  BY <1>1, <1>3, <1>4, <1>5, <1>6, <1>7 DEF IInv

LEMMA LaunchFailsInv ==
  ASSUME IInv, NEW r \in Run, NEW t \in TasksOf(r), LaunchFails(r, t)
  PROVE  IInv'
<1> USE DEF TasksOf
<1>0. /\ pc[r] = "loop" /\ t \in Task /\ mem[t].state = "Pending"
      /\ mem' = FailIn(r, t) /\ disk' = SavedFrom(r, mem')
      /\ runState' = [runState EXCEPT ![r] = "Running"]
      /\ UNCHANGED <<run, item, sanitized, lock, pc, todo, child, orphan, trees, dirty, main,
                     mergeHead, stale, checked, probe, copy, left, untraced, overwritten>>
  BY DEF LaunchFails, Eligible, plan, commands, history
<1>1. \/ UNCHANGED <<branches, commits>>
      \/ /\ BranchOf(t) \notin branches
         /\ branches' = branches \cup {BranchOf(t)}
         /\ commits' = [commits EXCEPT ![BranchOf(t)] = main]
  BY DEF LaunchFails, NewBranch
<1>2. faults' \in 0 .. MaxFaults
  BY FaultTyped DEF LaunchFails, IInv, TypeOK
<1>3. /\ mem' \in [Task -> TaskRecord]
      /\ \A u \in Task : mem'[u].worktree_path = mem[u].worktree_path
      /\ \A u \in Task \ TasksOf(r) : mem'[u] = mem[u]
      /\ \A u \in Task : mem'[u] = mem[u] \/ mem[u].state \notin Ended
  BY <1>0, FailInEffect DEF IInv, Ended
<1>4. TypeOK'
  <2>1. disk' \in [Task -> TaskRecord]
    BY <1>0, <1>3 DEF IInv, TypeOK, SavedFrom
  <2>2. branches' \in SUBSET Branch /\ commits' \in [Branch -> SUBSET Task]
    BY <1>0, <1>1, BranchTyped DEF IInv, TypeOK
  <2>3. runState' \in [Run -> {"none", "Planned", "Running", "Finished", "Interrupted", "Crashed"}]
    BY <1>0 DEF IInv, TypeOK
  <2>4. QED
    BY <1>0, <1>2, <1>3, <2>1, <2>2, <2>3 DEF IInv, TypeOK
<1>5. \A u \in Task : BranchOf(u)' = BranchOf(u)
  BY <1>0 DEF BranchOf
<1>6. \A u \in Task : disk'[u] = IF run[u] = r THEN mem'[u] ELSE disk[u]
  BY <1>0 DEF SavedFrom
<1>7. ASSUME NEW q \in Run PROVE RunPart(q)' /\ QuietPart(q)'
  BY <1>0, <1>3, <1>6 DEF IInv, TypeOK, RunPart, QuietPart, Working, AtRest
<1>8. ASSUME NEW q \in Run PROVE CopyPart(q)' /\ FinalizePart(q)' /\ WorktreePart(q)'
  BY <1>0, <1>3, <1>6 DEF IInv, TypeOK, CopyPart, FinalizePart, WorktreePart
<1>9. GitPart'
  <2>1. /\ \A u \in trees' : BranchOf(u) \in branches'
        /\ \A b \in Branch \ branches' : commits'[b] = {}
    BY <1>0, <1>1, BranchTyped DEF IInv, TypeOK, GitPart
  <2>2. ASSUME NEW b \in Branch, NEW u \in commits'[b] PROVE BranchOf(u) = b \/ u \in main'
    BY <1>0, <1>1, <2>2, BranchTyped DEF IInv, TypeOK, GitPart
  <2>3. main' \in SUBSET Task /\ trees' \in SUBSET Task /\ commits' \in [Branch -> SUBSET Task]
    BY <1>4 DEF TypeOK
  <2>4. QED
    BY <1>5, <2>1, <2>2, <2>3 DEF GitPart
<1>10. MainHoldsCompletedWork'
  <2>1. ASSUME NEW u \in Task, disk[u].state = "Completed" \/ run[u] \in overwritten
        PROVE  disk'[u].state = "Completed" \/ run'[u] \in overwritten'
    BY <1>0, <1>3, <1>6, <2>1 DEF IInv, CopyPart, Ended
  <2>2. QED
    BY <1>0, <1>5, <2>1 DEF IInv, TypeOK, MainHoldsCompletedWork
<1>11. FinishedLeavesNoWorktree'
  BY <1>0 DEF IInv, TypeOK, FinishedLeavesNoWorktree
<1>12. QED
  BY <1>4, <1>7, <1>8, <1>9, <1>10, <1>11 DEF IInv

LEMMA SaveAndSpawnInv ==
  ASSUME IInv, NEW r \in Run, SaveAndSpawn(r)
  PROVE  IInv'
<1> USE DEF SaveAndSpawn, SavedFrom, Goto, TasksOf, plan, git, files, commands, history
<1>1. TypeOK'
  BY BranchTyped DEF IInv, TypeOK, TaskRecord, TaskStates, Ended, Fresh
<1>2. \A u \in Task : BranchOf(u)' = BranchOf(u)
  BY DEF BranchOf
<1>3. ASSUME NEW q \in Run PROVE RunPart(q)' /\ QuietPart(q)'
  BY <1>1 DEF IInv, TypeOK, RunPart, CopyPart, QuietPart, FinalizePart, Working, AtRest,
     TaskRecord, Ended
<1>4. ASSUME NEW q \in Run PROVE CopyPart(q)' /\ FinalizePart(q)'
  BY <1>1 DEF IInv, TypeOK, RunPart, CopyPart, WorktreePart, FinalizePart, Working, TaskRecord,
     Ended
<1>5. ASSUME NEW q \in Run PROVE WorktreePart(q)'
  BY <1>1 DEF IInv, TypeOK, RunPart, CopyPart, WorktreePart, Working, TaskRecord
<1>6. GitPart'
  BY <1>1, <1>2, BranchTyped DEF IInv, TypeOK, GitPart
<1>7. MainHoldsCompletedWork' /\ FinishedLeavesNoWorktree'
  BY <1>1, <1>2 DEF IInv, TypeOK, MainHoldsCompletedWork, FinishedLeavesNoWorktree, RunPart,
     CopyPart, FinalizePart, GitPart, Working, TaskRecord, Ended
<1>8. QED
  BY <1>1, <1>3, <1>4, <1>5, <1>6, <1>7 DEF IInv

LEMMA EditInv ==
  ASSUME IInv, NEW t \in Task, Edit(t)
  PROVE  IInv'
<1> USE DEF Edit, TasksOf, plan, git, files, commands, history
<1>1. TypeOK'
  BY BranchTyped DEF IInv, TypeOK, TaskRecord, TaskStates, Ended, Fresh
<1>2. \A u \in Task : BranchOf(u)' = BranchOf(u)
  BY DEF BranchOf
<1>3. ASSUME NEW q \in Run PROVE RunPart(q)' /\ QuietPart(q)'
  BY <1>1 DEF IInv, TypeOK, RunPart, CopyPart, QuietPart, FinalizePart, Working, AtRest,
     TaskRecord, Ended
<1>4. ASSUME NEW q \in Run PROVE CopyPart(q)' /\ FinalizePart(q)'
  BY <1>1 DEF IInv, TypeOK, RunPart, CopyPart, WorktreePart, FinalizePart, Working, TaskRecord,
     Ended
<1>5. ASSUME NEW q \in Run PROVE WorktreePart(q)'
  BY <1>1 DEF IInv, TypeOK, RunPart, CopyPart, WorktreePart, Working, TaskRecord
<1>6. GitPart'
  BY <1>1, <1>2, BranchTyped DEF IInv, TypeOK, GitPart
<1>7. MainHoldsCompletedWork' /\ FinishedLeavesNoWorktree'
  BY <1>1, <1>2 DEF IInv, TypeOK, MainHoldsCompletedWork, FinishedLeavesNoWorktree, RunPart,
     CopyPart, FinalizePart, GitPart, Working, TaskRecord, Ended
<1>8. QED
  BY <1>1, <1>3, <1>4, <1>5, <1>6, <1>7 DEF IInv

LEMMA CommitInv ==
  ASSUME IInv, NEW t \in Task, Commit(t)
  PROVE  IInv'
<1> USE DEF Commit, TasksOf, plan, git, files, commands, history
<1>1. TypeOK'
  BY BranchTyped DEF IInv, TypeOK, TaskRecord, TaskStates, Ended, Fresh
<1>2. \A u \in Task : BranchOf(u)' = BranchOf(u)
  BY DEF BranchOf
<1>3. ASSUME NEW q \in Run PROVE RunPart(q)' /\ QuietPart(q)'
  BY <1>1 DEF IInv, TypeOK, RunPart, CopyPart, QuietPart, FinalizePart, Working, AtRest,
     TaskRecord, Ended
<1>4. ASSUME NEW q \in Run PROVE CopyPart(q)' /\ FinalizePart(q)'
  BY <1>1 DEF IInv, TypeOK, RunPart, CopyPart, WorktreePart, FinalizePart, Working, TaskRecord,
     Ended
<1>5. ASSUME NEW q \in Run PROVE WorktreePart(q)'
  BY <1>1 DEF IInv, TypeOK, RunPart, CopyPart, WorktreePart, Working, TaskRecord
<1>6. GitPart'
  BY <1>1, <1>2, BranchTyped DEF IInv, TypeOK, GitPart
<1>7. MainHoldsCompletedWork' /\ FinishedLeavesNoWorktree'
  BY <1>1, <1>2 DEF IInv, TypeOK, MainHoldsCompletedWork, FinishedLeavesNoWorktree, RunPart,
     CopyPart, FinalizePart, GitPart, Working, TaskRecord, Ended
<1>8. QED
  BY <1>1, <1>3, <1>4, <1>5, <1>6, <1>7 DEF IInv

LEMMA TaskEndsInv ==
  ASSUME IInv, NEW r \in Run, NEW t \in TasksOf(r), TaskEnds(r, t)
  PROVE  IInv'
<1> USE DEF TasksOf, SavedFrom
<1>1. /\ pc[r] = "loop" /\ t \in Task /\ mem[t].state = "Running"
      /\ disk' = SavedFrom(r, mem') /\ runState' = [runState EXCEPT ![r] = "Running"]
      /\ child' = child \ {t} /\ mem \in [Task -> TaskRecord]
      /\ UNCHANGED <<run, item, sanitized, lock, pc, todo, orphan, trees, dirty, commits, branches,
                     main, mergeHead, stale, checked, probe, copy, left, untraced, overwritten,
                     faults>>
  BY DEF TaskEnds, plan, git, commands, history, IInv, TypeOK
<1>2. /\ mem' \in [Task -> TaskRecord]
      /\ \A u \in Task : mem'[u].worktree_path = mem[u].worktree_path
      /\ \A u \in Task \ TasksOf(r) : mem'[u] = mem[u]
      /\ \A u \in Task : mem'[u] = mem[u] \/ mem[u].state \notin Ended
  <2>1. ASSUME NEW s \in {"Completed", "Pending"}, mem' = [mem EXCEPT ![t].state = s]
        PROVE  mem' \in [Task -> TaskRecord] /\ mem'[t].worktree_path = mem[t].worktree_path
    BY <1>1, <2>1 DEF TaskRecord, TaskStates
  <2>2. ASSUME NEW s \in {"Completed", "Pending"}, mem' = [mem EXCEPT ![t].state = s]
        PROVE  \A u \in Task \ {t} : mem'[u] = mem[u]
    BY <1>1, <2>2
  <2>3. CASE mem' = FailIn(r, t)
    BY <1>1, <2>3, FailInEffect DEF IInv, Ended
  <2>4. mem' = FailIn(r, t) \/ \E s \in {"Completed", "Pending"} : mem' = [mem EXCEPT ![t].state = s]
    BY DEF TaskEnds
  <2>5. QED
    BY <1>1, <2>1, <2>2, <2>3, <2>4 DEF Ended
<1>3. TypeOK'
  BY <1>1, <1>2 DEF IInv, TypeOK
<1>4. \A u \in Task : BranchOf(u)' = BranchOf(u)
  BY <1>1 DEF BranchOf
<1>5. ASSUME NEW q \in Run PROVE RunPart(q)' /\ QuietPart(q)'
  BY <1>1, <1>2, <1>3 DEF IInv, TypeOK, RunPart, CopyPart, QuietPart, Working, AtRest
<1>6. ASSUME NEW q \in Run PROVE CopyPart(q)' /\ FinalizePart(q)' /\ WorktreePart(q)'
  BY <1>1, <1>2, <1>3 DEF IInv, TypeOK, RunPart, CopyPart, FinalizePart, WorktreePart, Working
<1>7. GitPart'
  BY <1>1, <1>4 DEF IInv, TypeOK, GitPart
<1>8. MainHoldsCompletedWork' /\ FinishedLeavesNoWorktree'
  BY <1>1, <1>2, <1>3, <1>4 DEF IInv, TypeOK, MainHoldsCompletedWork, FinishedLeavesNoWorktree,
     RunPart, CopyPart, Working, Ended
<1>9. QED
  BY <1>3, <1>5, <1>6, <1>7, <1>8 DEF IInv

LEMMA OrphanEndsInv ==
  ASSUME IInv, NEW t \in Task, OrphanEnds(t)
  PROVE  IInv'
<1> USE DEF OrphanEnds, TasksOf, plan, git, files, commands, history
<1>1. TypeOK'
  BY BranchTyped DEF IInv, TypeOK, TaskRecord, TaskStates, Ended, Fresh
<1>2. \A u \in Task : BranchOf(u)' = BranchOf(u)
  BY DEF BranchOf
<1>3. ASSUME NEW q \in Run PROVE RunPart(q)' /\ QuietPart(q)'
  BY <1>1 DEF IInv, TypeOK, RunPart, CopyPart, QuietPart, FinalizePart, Working, AtRest,
     TaskRecord, Ended
<1>4. ASSUME NEW q \in Run PROVE CopyPart(q)' /\ FinalizePart(q)'
  BY <1>1 DEF IInv, TypeOK, RunPart, CopyPart, WorktreePart, FinalizePart, Working, TaskRecord,
     Ended
<1>5. ASSUME NEW q \in Run PROVE WorktreePart(q)'
  BY <1>1 DEF IInv, TypeOK, RunPart, CopyPart, WorktreePart, Working, TaskRecord
<1>6. GitPart'
  BY <1>1, <1>2, BranchTyped DEF IInv, TypeOK, GitPart
<1>7. MainHoldsCompletedWork' /\ FinishedLeavesNoWorktree'
  BY <1>1, <1>2 DEF IInv, TypeOK, MainHoldsCompletedWork, FinishedLeavesNoWorktree, RunPart,
     CopyPart, FinalizePart, GitPart, Working, TaskRecord, Ended
<1>8. QED
  BY <1>1, <1>3, <1>4, <1>5, <1>6, <1>7 DEF IInv

LEMMA BeginFinalizeInv ==
  ASSUME IInv, NEW r \in Run, BeginFinalize(r)
  PROVE  IInv'
<1> USE DEF BeginFinalize, ToMerge, Goto, TasksOf, plan, git, files, commands, history
<1>1. TypeOK'
  BY BranchTyped DEF IInv, TypeOK, TaskRecord, TaskStates, Ended, Fresh
<1>2. \A u \in Task : BranchOf(u)' = BranchOf(u)
  BY DEF BranchOf
<1>3. ASSUME NEW q \in Run PROVE RunPart(q)' /\ QuietPart(q)'
  BY <1>1 DEF IInv, TypeOK, RunPart, CopyPart, QuietPart, FinalizePart, Working, AtRest,
     TaskRecord, Ended
<1>4. ASSUME NEW q \in Run PROVE CopyPart(q)' /\ FinalizePart(q)'
  BY <1>1 DEF IInv, TypeOK, RunPart, CopyPart, WorktreePart, FinalizePart, Working, TaskRecord,
     Ended
<1>5. ASSUME NEW q \in Run PROVE WorktreePart(q)'
  BY <1>1 DEF IInv, TypeOK, RunPart, CopyPart, WorktreePart, Working, TaskRecord
<1>6. GitPart'
  BY <1>1, <1>2, BranchTyped DEF IInv, TypeOK, GitPart
<1>7. MainHoldsCompletedWork' /\ FinishedLeavesNoWorktree'
  BY <1>1, <1>2 DEF IInv, TypeOK, MainHoldsCompletedWork, FinishedLeavesNoWorktree, RunPart,
     CopyPart, FinalizePart, GitPart, Working, TaskRecord, Ended
<1>8. QED
  BY <1>1, <1>3, <1>4, <1>5, <1>6, <1>7 DEF IInv

LEMMA MergeInv ==
  ASSUME IInv, NEW r \in Run, NEW t \in TasksOf(r), Merge(r, t)
  PROVE  IInv'
<1> USE DEF Merge, MergeOutcome, TasksOf, plan, git, files, commands, history
<1>1. TypeOK'
  <2>1. main' \in SUBSET Task /\ mergeHead' \in BOOLEAN
    BY BranchTyped DEF IInv, TypeOK
  <2>2. faults' \in 0 .. MaxFaults
    BY FaultTyped DEF IInv, TypeOK
  <2>3. QED
    BY <2>1, <2>2 DEF IInv, TypeOK
<1>2. \A u \in Task : BranchOf(u)' = BranchOf(u)
  BY DEF BranchOf
<1>3. ASSUME NEW q \in Run PROVE RunPart(q)' /\ QuietPart(q)'
  BY <1>1 DEF IInv, TypeOK, RunPart, CopyPart, QuietPart, FinalizePart, Working, AtRest,
     TaskRecord, Ended
<1>4. ASSUME NEW q \in Run PROVE CopyPart(q)' /\ FinalizePart(q)'
  BY <1>1 DEF IInv, TypeOK, RunPart, CopyPart, WorktreePart, FinalizePart, Working, TaskRecord,
     Ended
<1>5. ASSUME NEW q \in Run PROVE WorktreePart(q)'
  BY <1>1 DEF IInv, TypeOK, RunPart, CopyPart, WorktreePart, Working, TaskRecord
<1>6. GitPart'
  BY <1>1, <1>2, BranchTyped DEF IInv, TypeOK, GitPart
<1>7. MainHoldsCompletedWork' /\ FinishedLeavesNoWorktree'
  BY <1>1, <1>2 DEF IInv, TypeOK, MainHoldsCompletedWork, FinishedLeavesNoWorktree, RunPart,
     CopyPart, FinalizePart, GitPart, Working, TaskRecord, Ended
<1>8. QED
  BY <1>1, <1>3, <1>4, <1>5, <1>6, <1>7 DEF IInv

LEMMA BeginCleanupInv ==
  ASSUME IInv, NEW r \in Run, BeginCleanup(r)
  PROVE  IInv'
<1> USE DEF BeginCleanup, Goto, TasksOf, plan, git, files, commands, history
<1>1. TypeOK'
  BY BranchTyped DEF IInv, TypeOK, TaskRecord, TaskStates, Ended, Fresh
<1>2. \A u \in Task : BranchOf(u)' = BranchOf(u)
  BY DEF BranchOf
<1>3. ASSUME NEW q \in Run PROVE RunPart(q)' /\ QuietPart(q)'
  BY <1>1 DEF IInv, TypeOK, RunPart, CopyPart, QuietPart, FinalizePart, Working, AtRest,
     TaskRecord, Ended
<1>4. ASSUME NEW q \in Run PROVE CopyPart(q)' /\ FinalizePart(q)'
  BY <1>1 DEF IInv, TypeOK, RunPart, CopyPart, WorktreePart, FinalizePart, Working, TaskRecord,
     Ended
<1>5. ASSUME NEW q \in Run PROVE WorktreePart(q)'
  BY <1>1 DEF IInv, TypeOK, RunPart, CopyPart, WorktreePart, Working, TaskRecord
<1>6. GitPart'
  BY <1>1, <1>2, BranchTyped DEF IInv, TypeOK, GitPart
<1>7. MainHoldsCompletedWork' /\ FinishedLeavesNoWorktree'
  BY <1>1, <1>2 DEF IInv, TypeOK, MainHoldsCompletedWork, FinishedLeavesNoWorktree, RunPart,
     CopyPart, FinalizePart, GitPart, Working, TaskRecord, Ended
<1>8. QED
  BY <1>1, <1>3, <1>4, <1>5, <1>6, <1>7 DEF IInv

LEMMA CleanUpTaskInv ==
  ASSUME IInv, NEW r \in Run, NEW t \in TasksOf(r), CleanUpTask(r, t)
  PROVE  IInv'
<1> USE DEF CleanUpTask, RemoveWorktree, KeepCommits, Fault, TasksOf, plan, git, files,
       commands, history
<1>1. TypeOK'
  BY RepositoryBounds, BranchTyped DEF IInv, TypeOK, TaskRecord, TaskStates, Ended, Fresh
<1>2. \A u \in Task : BranchOf(u)' = BranchOf(u)
  BY DEF BranchOf
<1>3. ASSUME NEW q \in Run PROVE RunPart(q)' /\ QuietPart(q)'
  BY <1>1 DEF IInv, TypeOK, RunPart, CopyPart, QuietPart, FinalizePart, Working, AtRest,
     TaskRecord, Ended
<1>4. ASSUME NEW q \in Run PROVE CopyPart(q)' /\ FinalizePart(q)'
  BY <1>1 DEF IInv, TypeOK, RunPart, CopyPart, WorktreePart, FinalizePart, Working, TaskRecord,
     Ended
<1>5. ASSUME NEW q \in Run PROVE WorktreePart(q)'
  BY <1>1 DEF IInv, TypeOK, RunPart, CopyPart, WorktreePart, Working, TaskRecord
<1>6. GitPart'
  BY <1>1, <1>2, BranchTyped DEF IInv, TypeOK, GitPart
<1>7. MainHoldsCompletedWork' /\ FinishedLeavesNoWorktree'
  BY <1>1, <1>2 DEF IInv, TypeOK, MainHoldsCompletedWork, FinishedLeavesNoWorktree, RunPart,
     CopyPart, FinalizePart, GitPart, Working, TaskRecord, Ended
<1>8. QED
  BY <1>1, <1>3, <1>4, <1>5, <1>6, <1>7 DEF IInv

LEMMA FinishInv ==
  ASSUME IInv, NEW r \in Run, Finish(r)
  PROVE  IInv'
<1> USE DEF Finish, SavedFrom, Goto, TasksOf, plan, git, files, commands, history
<1>1. TypeOK'
  BY BranchTyped DEF IInv, TypeOK, TaskRecord, TaskStates, Ended, Fresh
<1>2. \A u \in Task : BranchOf(u)' = BranchOf(u)
  BY DEF BranchOf
<1>3. ASSUME NEW q \in Run PROVE RunPart(q)' /\ QuietPart(q)'
  <2>1. \A u \in TasksOf(r) : mem[u].state # "Running" /\ disk'[u] = mem[u]
    BY DEF IInv, TypeOK, FinalizePart, Ended
  <2>2. QED
    BY <2>1 DEF IInv, TypeOK, RunPart, QuietPart, Working, AtRest
<1>4. ASSUME NEW q \in Run PROVE CopyPart(q)' /\ FinalizePart(q)'
  BY <1>1 DEF IInv, TypeOK, RunPart, CopyPart, WorktreePart, FinalizePart, Working, TaskRecord,
     Ended
<1>5. ASSUME NEW q \in Run PROVE WorktreePart(q)'
  BY <1>1 DEF IInv, TypeOK, RunPart, CopyPart, WorktreePart, Working, TaskRecord
<1>6. GitPart'
  BY <1>1, <1>2, BranchTyped DEF IInv, TypeOK, GitPart
<1>7. MainHoldsCompletedWork' /\ FinishedLeavesNoWorktree'
  BY <1>1, <1>2 DEF IInv, TypeOK, MainHoldsCompletedWork, FinishedLeavesNoWorktree, RunPart,
     CopyPart, FinalizePart, GitPart, Working, TaskRecord, Ended
<1>8. QED
  BY <1>1, <1>3, <1>4, <1>5, <1>6, <1>7 DEF IInv

LEMMA CrashInv ==
  ASSUME IInv, NEW r \in Run, Crash(r)
  PROVE  IInv'
<1> USE DEF Crash, Fault, Goto, TasksOf, plan, git, files, commands, history
<1>1. TypeOK'
  BY RepositoryBounds, BranchTyped DEF IInv, TypeOK, TaskRecord, TaskStates, Ended, Fresh
<1>2. \A u \in Task : BranchOf(u)' = BranchOf(u)
  BY DEF BranchOf
<1>3. ASSUME NEW q \in Run PROVE RunPart(q)' /\ QuietPart(q)'
  BY <1>1 DEF IInv, TypeOK, RunPart, CopyPart, QuietPart, FinalizePart, Working, AtRest,
     TaskRecord, Ended
<1>4. ASSUME NEW q \in Run PROVE CopyPart(q)' /\ FinalizePart(q)'
  BY <1>1 DEF IInv, TypeOK, RunPart, CopyPart, WorktreePart, FinalizePart, Working, TaskRecord,
     Ended
<1>5. ASSUME NEW q \in Run PROVE WorktreePart(q)'
  BY <1>1 DEF IInv, TypeOK, RunPart, CopyPart, WorktreePart, Working, TaskRecord
<1>6. GitPart'
  BY <1>1, <1>2, BranchTyped DEF IInv, TypeOK, GitPart
<1>7. MainHoldsCompletedWork' /\ FinishedLeavesNoWorktree'
  BY <1>1, <1>2 DEF IInv, TypeOK, MainHoldsCompletedWork, FinishedLeavesNoWorktree, RunPart,
     CopyPart, FinalizePart, GitPart, Working, TaskRecord, Ended
<1>8. QED
  BY <1>1, <1>3, <1>4, <1>5, <1>6, <1>7 DEF IInv

LEMMA InterruptInv ==
  ASSUME IInv, NEW r \in Run, Interrupt(r)
  PROVE  IInv'
<1> USE DEF Interrupt, Goto, TasksOf, plan, git, files, commands, history
<1>0. disk' \in [Task -> TaskRecord] /\ mem' \in [Task -> TaskRecord]
  BY RequeuedEffect DEF IInv, TypeOK
<1>1. TypeOK'
  BY <1>0, FaultTyped DEF IInv, TypeOK
<1>2. \A u \in Task : BranchOf(u)' = BranchOf(u)
  BY DEF BranchOf
<1>3. ASSUME NEW q \in Run PROVE RunPart(q)' /\ QuietPart(q)'
  BY <1>1, RequeuedEffect DEF IInv, TypeOK, RunPart, CopyPart, QuietPart, FinalizePart, Working,
     AtRest,
     TaskRecord, Ended
<1>4. ASSUME NEW q \in Run PROVE CopyPart(q)' /\ FinalizePart(q)'
  BY <1>1, RequeuedEffect DEF IInv, TypeOK, RunPart, CopyPart, WorktreePart, FinalizePart,
     Working, TaskRecord,
     Ended
<1>5. ASSUME NEW q \in Run PROVE WorktreePart(q)'
  BY <1>1, RequeuedEffect DEF IInv, TypeOK, RunPart, CopyPart, WorktreePart, Working, TaskRecord
<1>6. GitPart'
  BY <1>1, <1>2, BranchTyped DEF IInv, TypeOK, GitPart
<1>7. MainHoldsCompletedWork' /\ FinishedLeavesNoWorktree'
  <2>1. ASSUME NEW u \in Task, disk[u].state = "Completed" \/ run[u] \in overwritten
        PROVE  disk'[u].state = "Completed" \/ run'[u] \in overwritten'
    <3>1. disk[u] \in TaskRecord /\ (disk'[u] = disk[u] \/ disk'[u] = Requeued(disk[u]))
      BY DEF IInv, TypeOK
    <3>2. disk[u].state = "Completed" => disk'[u].state = "Completed"
      BY <3>1, RequeuedEffect
    <3>3. UNCHANGED <<run, overwritten>>
      OBVIOUS
    <3>4. QED
      BY <2>1, <3>2, <3>3
  <2>2. MainHoldsCompletedWork'
    BY <1>2, <2>1 DEF IInv, TypeOK, MainHoldsCompletedWork
  <2>3. FinishedLeavesNoWorktree'
    BY DEF IInv, TypeOK, FinishedLeavesNoWorktree
  <2>4. QED
    BY <2>2, <2>3
<1>8. QED
  BY <1>1, <1>3, <1>4, <1>5, <1>6, <1>7 DEF IInv

LEMMA DetectStaleInv ==
  ASSUME IInv, NEW d \in Detector, NEW r \in Run, DetectStale(d, r)
  PROVE  IInv'
<1> USE DEF DetectStale, Probe, aside, TasksOf, plan, git, files, commands, history
<1>1. TypeOK'
  BY BranchTyped DEF IInv, TypeOK, TaskRecord, TaskStates, Ended, Fresh
<1>2. \A u \in Task : BranchOf(u)' = BranchOf(u)
  BY DEF BranchOf
<1>3. ASSUME NEW q \in Run PROVE RunPart(q)' /\ QuietPart(q)'
  BY <1>1 DEF IInv, TypeOK, RunPart, CopyPart, QuietPart, FinalizePart, Working, AtRest,
     TaskRecord, Ended
<1>4. ASSUME NEW q \in Run PROVE CopyPart(q)' /\ FinalizePart(q)'
  BY <1>1 DEF IInv, TypeOK, RunPart, CopyPart, WorktreePart, FinalizePart, Working, TaskRecord,
     Ended
<1>5. ASSUME NEW q \in Run PROVE WorktreePart(q)'
  BY <1>1 DEF IInv, TypeOK, RunPart, CopyPart, WorktreePart, Working, TaskRecord
<1>6. GitPart'
  BY <1>1, <1>2, BranchTyped DEF IInv, TypeOK, GitPart
<1>7. MainHoldsCompletedWork' /\ FinishedLeavesNoWorktree'
  BY <1>1, <1>2 DEF IInv, TypeOK, MainHoldsCompletedWork, FinishedLeavesNoWorktree, RunPart,
     CopyPart, FinalizePart, GitPart, Working, TaskRecord, Ended
<1>8. QED
  BY <1>1, <1>3, <1>4, <1>5, <1>6, <1>7 DEF IInv

LEMMA DetectLoadInv ==
  ASSUME IInv, NEW d \in Detector, NEW r \in Run, DetectLoad(d, r)
  PROVE  IInv'
<1> USE DEF DetectLoad, Probe, aside, TasksOf, plan, git, files, commands, history
<1>1. TypeOK'
  BY BranchTyped DEF IInv, TypeOK, TaskRecord, TaskStates, Ended, Fresh
<1>2. \A u \in Task : BranchOf(u)' = BranchOf(u)
  BY DEF BranchOf
<1>3. ASSUME NEW q \in Run PROVE RunPart(q)' /\ QuietPart(q)'
  BY <1>1 DEF IInv, TypeOK, RunPart, CopyPart, QuietPart, FinalizePart, Working, AtRest,
     TaskRecord, Ended
<1>4. ASSUME NEW q \in Run PROVE CopyPart(q)' /\ FinalizePart(q)'
  BY <1>1 DEF IInv, TypeOK, RunPart, CopyPart, WorktreePart, FinalizePart, Working, TaskRecord,
     Ended
<1>5. ASSUME NEW q \in Run PROVE WorktreePart(q)'
  BY <1>1 DEF IInv, TypeOK, RunPart, CopyPart, WorktreePart, Working, TaskRecord
<1>6. GitPart'
  BY <1>1, <1>2, BranchTyped DEF IInv, TypeOK, GitPart
<1>7. MainHoldsCompletedWork' /\ FinishedLeavesNoWorktree'
  BY <1>1, <1>2 DEF IInv, TypeOK, MainHoldsCompletedWork, FinishedLeavesNoWorktree, RunPart,
     CopyPart, FinalizePart, GitPart, Working, TaskRecord, Ended
<1>8. QED
  BY <1>1, <1>3, <1>4, <1>5, <1>6, <1>7 DEF IInv

LEMMA DetectSaveInv ==
  ASSUME IInv, NEW d \in Detector, NEW r \in Run, DetectSave(d, r)
  PROVE  IInv'
<1> USE DEF DetectSave, Probe, aside, Outdated,  TasksOf, plan, git, files,
       commands, history
<1>0. disk' \in [Task -> TaskRecord] /\ copy' \in [Detector -> [Task -> TaskRecord]]
  <2>1. Fresh \in [Task -> TaskRecord]
    BY DEF Fresh, TaskRecord, TaskStates
  <2>2. copy' \in [Detector -> [Task -> TaskRecord]]
    BY <2>1 DEF IInv, TypeOK
  <2>3. copy[d] \in [Task -> TaskRecord] /\ disk \in [Task -> TaskRecord]
    BY DEF IInv, TypeOK
  <2>4. [u \in Task |-> IF run[u] = r THEN Requeued(copy[d][u]) ELSE disk[u]]
          \in [Task -> TaskRecord]
    BY <2>3, RequeuedEffect
  <2>5. QED
    BY <2>2, <2>3, <2>4
<1>1. TypeOK'
  <2>1. probe' \in [Detector -> [Run -> {"idle", "stale", "loaded", "saved"}]]
    BY DEF IInv, TypeOK
  <2>2. /\ runState' \in [Run -> {"none", "Planned", "Running", "Finished", "Interrupted", "Crashed"}]
        /\ overwritten' \in SUBSET Run
    BY DEF IInv, TypeOK
  <2>3. faults' \in 0 .. MaxFaults
    BY FaultTyped DEF IInv, TypeOK
  <2>4. QED
    BY <1>0, <2>1, <2>2, <2>3 DEF IInv, TypeOK
<1>2. \A u \in Task : BranchOf(u)' = BranchOf(u)
  BY DEF BranchOf
<1>3. ASSUME NEW q \in Run PROVE RunPart(q)' /\ QuietPart(q)'
  BY <1>1, RequeuedEffect DEF IInv, TypeOK, RunPart, CopyPart, QuietPart, FinalizePart, Working,
     AtRest,
     TaskRecord, Ended
<1>4. ASSUME NEW q \in Run PROVE CopyPart(q)' /\ FinalizePart(q)'
  BY <1>1, RequeuedEffect DEF IInv, TypeOK, RunPart, CopyPart, WorktreePart, FinalizePart,
     Working, TaskRecord,
     Ended
<1>5. ASSUME NEW q \in Run PROVE WorktreePart(q)'
  BY <1>1, RequeuedEffect DEF IInv, TypeOK, RunPart, CopyPart, WorktreePart, Working, TaskRecord
<1>6. GitPart'
  BY <1>1, <1>2, BranchTyped DEF IInv, TypeOK, GitPart
<1>7. MainHoldsCompletedWork' /\ FinishedLeavesNoWorktree'
  BY <1>1, <1>2, RequeuedEffect DEF IInv, TypeOK, MainHoldsCompletedWork,
     FinishedLeavesNoWorktree, RunPart,
     CopyPart, FinalizePart, GitPart, Working, TaskRecord, Ended
<1>8. QED
  BY <1>1, <1>3, <1>4, <1>5, <1>6, <1>7 DEF IInv

LEMMA DetectReleaseInv ==
  ASSUME IInv, NEW d \in Detector, NEW r \in Run, DetectRelease(d, r)
  PROVE  IInv'
<1> USE DEF DetectRelease, Probe, aside, TasksOf, plan, git, files, commands, history
<1>1. TypeOK'
  BY BranchTyped DEF IInv, TypeOK, TaskRecord, TaskStates, Ended, Fresh
<1>2. \A u \in Task : BranchOf(u)' = BranchOf(u)
  BY DEF BranchOf
<1>3. ASSUME NEW q \in Run PROVE RunPart(q)' /\ QuietPart(q)'
  BY <1>1 DEF IInv, TypeOK, RunPart, CopyPart, QuietPart, FinalizePart, Working, AtRest,
     TaskRecord, Ended
<1>4. ASSUME NEW q \in Run PROVE CopyPart(q)' /\ FinalizePart(q)'
  BY <1>1 DEF IInv, TypeOK, RunPart, CopyPart, WorktreePart, FinalizePart, Working, TaskRecord,
     Ended
<1>5. ASSUME NEW q \in Run PROVE WorktreePart(q)'
  BY <1>1 DEF IInv, TypeOK, RunPart, CopyPart, WorktreePart, Working, TaskRecord
<1>6. GitPart'
  BY <1>1, <1>2, BranchTyped DEF IInv, TypeOK, GitPart
<1>7. MainHoldsCompletedWork' /\ FinishedLeavesNoWorktree'
  BY <1>1, <1>2 DEF IInv, TypeOK, MainHoldsCompletedWork, FinishedLeavesNoWorktree, RunPart,
     CopyPart, FinalizePart, GitPart, Working, TaskRecord, Ended
<1>8. QED
  BY <1>1, <1>3, <1>4, <1>5, <1>6, <1>7 DEF IInv

LEMMA DetectEndsInv ==
  ASSUME IInv, NEW d \in Detector, NEW r \in Run, DetectEnds(d, r)
  PROVE  IInv'
<1> USE DEF DetectEnds, Probe, aside, Fault, TasksOf, plan, git, files, commands, history
<1>1. TypeOK'
  BY RepositoryBounds, BranchTyped DEF IInv, TypeOK, TaskRecord, TaskStates, Ended, Fresh
<1>2. \A u \in Task : BranchOf(u)' = BranchOf(u)
  BY DEF BranchOf
<1>3. ASSUME NEW q \in Run PROVE RunPart(q)' /\ QuietPart(q)'
  BY <1>1 DEF IInv, TypeOK, RunPart, CopyPart, QuietPart, FinalizePart, Working, AtRest,
     TaskRecord, Ended
<1>4. ASSUME NEW q \in Run PROVE CopyPart(q)' /\ FinalizePart(q)'
  BY <1>1 DEF IInv, TypeOK, RunPart, CopyPart, WorktreePart, FinalizePart, Working, TaskRecord,
     Ended
<1>5. ASSUME NEW q \in Run PROVE WorktreePart(q)'
  BY <1>1 DEF IInv, TypeOK, RunPart, CopyPart, WorktreePart, Working, TaskRecord
<1>6. GitPart'
  BY <1>1, <1>2, BranchTyped DEF IInv, TypeOK, GitPart
<1>7. MainHoldsCompletedWork' /\ FinishedLeavesNoWorktree'
  BY <1>1, <1>2 DEF IInv, TypeOK, MainHoldsCompletedWork, FinishedLeavesNoWorktree, RunPart,
     CopyPart, FinalizePart, GitPart, Working, TaskRecord, Ended
<1>8. QED
  BY <1>1, <1>3, <1>4, <1>5, <1>6, <1>7 DEF IInv

LEMMA ResumeInv ==
  ASSUME IInv, NEW r \in Run, Resume(r)
  PROVE  IInv'
<1> USE DEF Resume, Goto, TasksOf, plan, git, files, commands, history
<1>1. TypeOK'
  BY BranchTyped DEF IInv, TypeOK, TaskRecord, TaskStates, Ended, Fresh
<1>2. \A u \in Task : BranchOf(u)' = BranchOf(u)
  BY DEF BranchOf
<1>3. ASSUME NEW q \in Run PROVE RunPart(q)' /\ QuietPart(q)'
  BY <1>1 DEF IInv, TypeOK, RunPart, CopyPart, QuietPart, FinalizePart, Working, AtRest,
     TaskRecord, Ended
<1>4. ASSUME NEW q \in Run PROVE CopyPart(q)' /\ FinalizePart(q)'
  BY <1>1 DEF IInv, TypeOK, RunPart, CopyPart, WorktreePart, FinalizePart, Working, TaskRecord,
     Ended
<1>5. ASSUME NEW q \in Run PROVE WorktreePart(q)'
  BY <1>1 DEF IInv, TypeOK, RunPart, CopyPart, WorktreePart, Working, TaskRecord
<1>6. GitPart'
  BY <1>1, <1>2, BranchTyped DEF IInv, TypeOK, GitPart
<1>7. MainHoldsCompletedWork' /\ FinishedLeavesNoWorktree'
  BY <1>1, <1>2 DEF IInv, TypeOK, MainHoldsCompletedWork, FinishedLeavesNoWorktree, RunPart,
     CopyPart, FinalizePart, GitPart, Working, TaskRecord, Ended
<1>8. QED
  BY <1>1, <1>3, <1>4, <1>5, <1>6, <1>7 DEF IInv

LEMMA CleanupScanInv ==
  ASSUME IInv, CleanupScan
  PROVE  IInv'
<1> USE DEF CleanupScan, Unclaimed, besides, TasksOf, plan, git, files, commands, history
<1>1. TypeOK'
  BY BranchTyped DEF IInv, TypeOK, TaskRecord, TaskStates, Ended, Fresh
<1>2. \A u \in Task : BranchOf(u)' = BranchOf(u)
  BY DEF BranchOf
<1>3. ASSUME NEW q \in Run PROVE RunPart(q)' /\ QuietPart(q)'
  BY <1>1 DEF IInv, TypeOK, RunPart, CopyPart, QuietPart, FinalizePart, Working, AtRest,
     TaskRecord, Ended
<1>4. ASSUME NEW q \in Run PROVE CopyPart(q)' /\ FinalizePart(q)'
  BY <1>1 DEF IInv, TypeOK, RunPart, CopyPart, WorktreePart, FinalizePart, Working, TaskRecord,
     Ended
<1>5. ASSUME NEW q \in Run PROVE WorktreePart(q)'
  BY <1>1 DEF IInv, TypeOK, RunPart, CopyPart, WorktreePart, Working, TaskRecord
<1>6. GitPart'
  BY <1>1, <1>2, BranchTyped DEF IInv, TypeOK, GitPart
<1>7. MainHoldsCompletedWork' /\ FinishedLeavesNoWorktree'
  BY <1>1, <1>2 DEF IInv, TypeOK, MainHoldsCompletedWork, FinishedLeavesNoWorktree, RunPart,
     CopyPart, FinalizePart, GitPart, Working, TaskRecord, Ended
<1>8. QED
  BY <1>1, <1>3, <1>4, <1>5, <1>6, <1>7 DEF IInv

LEMMA CleanupAbortedInv ==
  ASSUME IInv, CleanupAborted
  PROVE  IInv'
<1> USE DEF CleanupAborted, besides, TasksOf, plan, git, files, commands, history
<1>1. TypeOK'
  BY BranchTyped DEF IInv, TypeOK, TaskRecord, TaskStates, Ended, Fresh
<1>2. \A u \in Task : BranchOf(u)' = BranchOf(u)
  BY DEF BranchOf
<1>3. ASSUME NEW q \in Run PROVE RunPart(q)' /\ QuietPart(q)'
  BY <1>1 DEF IInv, TypeOK, RunPart, CopyPart, QuietPart, FinalizePart, Working, AtRest,
     TaskRecord, Ended
<1>4. ASSUME NEW q \in Run PROVE CopyPart(q)' /\ FinalizePart(q)'
  BY <1>1 DEF IInv, TypeOK, RunPart, CopyPart, WorktreePart, FinalizePart, Working, TaskRecord,
     Ended
<1>5. ASSUME NEW q \in Run PROVE WorktreePart(q)'
  BY <1>1 DEF IInv, TypeOK, RunPart, CopyPart, WorktreePart, Working, TaskRecord
<1>6. GitPart'
  BY <1>1, <1>2, BranchTyped DEF IInv, TypeOK, GitPart
<1>7. MainHoldsCompletedWork' /\ FinishedLeavesNoWorktree'
  BY <1>1, <1>2 DEF IInv, TypeOK, MainHoldsCompletedWork, FinishedLeavesNoWorktree, RunPart,
     CopyPart, FinalizePart, GitPart, Working, TaskRecord, Ended
<1>8. QED
  BY <1>1, <1>3, <1>4, <1>5, <1>6, <1>7 DEF IInv

LEMMA CleanupCheckInv ==
  ASSUME IInv, NEW t \in Task, CleanupCheck(t)
  PROVE  IInv'
<1> USE DEF CleanupCheck, besides, TasksOf, plan, git, files, commands, history
<1>1. TypeOK'
  BY BranchTyped DEF IInv, TypeOK, TaskRecord, TaskStates, Ended, Fresh
<1>2. \A u \in Task : BranchOf(u)' = BranchOf(u)
  BY DEF BranchOf
<1>3. ASSUME NEW q \in Run PROVE RunPart(q)' /\ QuietPart(q)'
  BY <1>1 DEF IInv, TypeOK, RunPart, CopyPart, QuietPart, FinalizePart, Working, AtRest,
     TaskRecord, Ended
<1>4. ASSUME NEW q \in Run PROVE CopyPart(q)' /\ FinalizePart(q)'
  BY <1>1 DEF IInv, TypeOK, RunPart, CopyPart, WorktreePart, FinalizePart, Working, TaskRecord,
     Ended
<1>5. ASSUME NEW q \in Run PROVE WorktreePart(q)'
  BY <1>1 DEF IInv, TypeOK, RunPart, CopyPart, WorktreePart, Working, TaskRecord
<1>6. GitPart'
  BY <1>1, <1>2, BranchTyped DEF IInv, TypeOK, GitPart
<1>7. MainHoldsCompletedWork' /\ FinishedLeavesNoWorktree'
  BY <1>1, <1>2 DEF IInv, TypeOK, MainHoldsCompletedWork, FinishedLeavesNoWorktree, RunPart,
     CopyPart, FinalizePart, GitPart, Working, TaskRecord, Ended
<1>8. QED
  BY <1>1, <1>3, <1>4, <1>5, <1>6, <1>7 DEF IInv

LEMMA CleanupRemoveInv ==
  ASSUME IInv, NEW t \in Task, CleanupRemove(t)
  PROVE  IInv'
<1> USE DEF CleanupRemove, RemoveWorktree, BranchesAfter, KeepCommits, Fault, besides, TasksOf,
       plan, git, files, commands, history
<1>1. TypeOK'
  BY RepositoryBounds, BranchTyped DEF IInv, TypeOK, TaskRecord, TaskStates, Ended, Fresh
<1>2. \A u \in Task : BranchOf(u)' = BranchOf(u)
  BY DEF BranchOf
<1>3. ASSUME NEW q \in Run PROVE RunPart(q)' /\ QuietPart(q)'
  BY <1>1 DEF IInv, TypeOK, RunPart, CopyPart, QuietPart, FinalizePart, Working, AtRest,
     TaskRecord, Ended
<1>4. ASSUME NEW q \in Run PROVE CopyPart(q)' /\ FinalizePart(q)'
  BY <1>1 DEF IInv, TypeOK, RunPart, CopyPart, WorktreePart, FinalizePart, Working, TaskRecord,
     Ended
<1>5. ASSUME NEW q \in Run PROVE WorktreePart(q)'
  BY <1>1 DEF IInv, TypeOK, RunPart, CopyPart, WorktreePart, Working, TaskRecord
<1>6. GitPart'
  BY <1>1, <1>2, BranchTyped DEF IInv, TypeOK, GitPart
<1>7. MainHoldsCompletedWork' /\ FinishedLeavesNoWorktree'
  BY <1>1, <1>2 DEF IInv, TypeOK, MainHoldsCompletedWork, FinishedLeavesNoWorktree, RunPart,
     CopyPart, FinalizePart, GitPart, Working, TaskRecord, Ended
<1>8. QED
  BY <1>1, <1>3, <1>4, <1>5, <1>6, <1>7 DEF IInv

LEMMA InitInv == Init => IInv
<1> SUFFICES ASSUME Init PROVE IInv
  OBVIOUS
<1> USE RepositoryBounds DEF Init, TasksOf
<1>1. TypeOK
  <2>1. Fresh \in [Task -> TaskRecord]
    BY DEF Fresh, TaskRecord, TaskStates
  <2>2. /\ disk \in [Task -> TaskRecord] /\ mem \in [Task -> TaskRecord]
        /\ copy \in [Detector -> [Task -> TaskRecord]]
    BY <2>1
  <2>3. faults \in 0 .. MaxFaults
    OBVIOUS
  <2>4. QED
    BY <2>2, <2>3 DEF TypeOK
<1>2. ASSUME NEW r \in Run PROVE RunPart(r) /\ CopyPart(r) /\ QuietPart(r)
                                    /\ WorktreePart(r) /\ FinalizePart(r)
  BY DEF RunPart, CopyPart, QuietPart, WorktreePart, FinalizePart, Working, AtRest, Fresh
<1>3. GitPart /\ MainHoldsCompletedWork /\ FinishedLeavesNoWorktree
  BY DEF GitPart, MainHoldsCompletedWork, FinishedLeavesNoWorktree
<1>4. QED
  BY <1>1, <1>2, <1>3 DEF IInv

LEMMA StutterInv ==
  ASSUME IInv, UNCHANGED vars
  PROVE  IInv'
<1> USE DEF vars, plan, git, files, commands, history, TasksOf
<1>1. TypeOK'
  BY DEF IInv, TypeOK
<1>2. ASSUME NEW r \in Run PROVE RunPart(r)' /\ CopyPart(r)' /\ QuietPart(r)'
                                    /\ WorktreePart(r)' /\ FinalizePart(r)'
  BY DEF IInv, RunPart, CopyPart, QuietPart, WorktreePart, FinalizePart
<1>3. GitPart' /\ MainHoldsCompletedWork' /\ FinishedLeavesNoWorktree'
  BY DEF IInv, GitPart, MainHoldsCompletedWork, FinishedLeavesNoWorktree, BranchOf
<1>4. QED
  BY <1>1, <1>2, <1>3 DEF IInv

LEMMA StepInv == IInv /\ [Next]_vars => IInv'
<1> SUFFICES ASSUME IInv, [Next]_vars PROVE IInv'
  OBVIOUS
<1>1. ASSUME NEW r \in Run, NEW t \in TasksOf(r),
             \/ LaunchNew(r, t) \/ LaunchAgain(r, t) \/ LaunchFails(r, t)
             \/ TaskEnds(r, t) \/ Merge(r, t) \/ CleanUpTask(r, t)
      PROVE  IInv'
  BY <1>1, LaunchNewInv, LaunchAgainInv, LaunchFailsInv, TaskEndsInv, MergeInv, CleanUpTaskInv
<1>2. ASSUME NEW t \in Task, Edit(t) \/ Commit(t) \/ OrphanEnds(t)
      PROVE  IInv'
  BY <1>2, EditInv, CommitInv, OrphanEndsInv
<1>3. ASSUME NEW r \in Run,
             \/ CreateRun(r) \/ Load(r) \/ AcquireLock(r) \/ SaveAndSpawn(r)
             \/ BeginFinalize(r) \/ BeginCleanup(r) \/ Finish(r)
      PROVE  IInv'
  BY <1>3, CreateRunInv, LoadInv, AcquireLockInv, SaveAndSpawnInv, BeginFinalizeInv,
     BeginCleanupInv, FinishInv
<1>4. ASSUME NEW r \in Run, Crash(r) \/ Interrupt(r) \/ Resume(r)
      PROVE  IInv'
  BY <1>4, CrashInv, InterruptInv, ResumeInv
<1>5. CASE DetectStep
  BY <1>5, DetectStaleInv, DetectLoadInv, DetectSaveInv, DetectReleaseInv, DetectEndsInv
     DEF DetectStep, Detect
<1>6. CASE CleanupStep
  BY <1>6, CleanupScanInv, CleanupAbortedInv, CleanupCheckInv, CleanupRemoveInv DEF CleanupStep
<1>7. CASE UNCHANGED vars
  BY <1>7, StutterInv
<1>8. QED
  BY <1>1, <1>2, <1>3, <1>4, <1>5, <1>6, <1>7 DEF Next, TaskStep, ChildStep, RunStep

THEOREM RepositoryInvariant == Spec => []IInv
  BY InitInv, StepInv, PTL DEF Spec

\* Every record, set and state of a run stays of its type, and only a worktree that is
\* there has uncommitted changes.
THEOREM RepositoryTypes == Spec => []TypeOK
<1>1. IInv => TypeOK
  BY DEF IInv
<1>2. QED
  BY <1>1, RepositoryInvariant, PTL

\* The branch the user has checked out gets work only of branches that a Completed task
\* has, whatever children, retries and other runs have committed elsewhere.
THEOREM MainOnlyCompletedWork == Spec => []MainHoldsCompletedWork
<1>1. IInv => MainHoldsCompletedWork
  BY DEF IInv
<1>2. QED
  BY <1>1, RepositoryInvariant, PTL

\* What a finished run leaves under .omt is what git refused to remove, what it made for
\* a process that died at once, or what an old file put back by a detector did not have.
THEOREM NoWorktreeLeft == Spec => []FinishedLeavesNoWorktree
<1>1. IInv => FinishedLeavesNoWorktree
  BY DEF IInv
<1>2. QED
  BY <1>1, RepositoryInvariant, PTL

\* A run with no process and a Running task in its file is Running there and has its
\* stale lock, unless that was released over a failed save or taken away by a detector.
THEOREM CrashIsFound == Spec => []CrashLeavesTrace
<1>1. ASSUME IInv, NEW r \in Run \ untraced, pc[r] = "down",
             NEW t \in TasksOf(r), disk[t].state = "Running"
      PROVE  runState[r] = "Running" /\ lock[r] = "dead"
  <2>1. runState[r] \notin AtRest /\ lock[r] # "none"
    BY <1>1 DEF IInv, QuietPart
  <2>2. lock[r] # "live"
    BY <1>1 DEF IInv, RunPart
  <2>3. runState[r] \in AtRest \cup {"Running"} /\ lock[r] \in {"none", "live", "dead"}
    BY <1>1 DEF IInv, TypeOK, AtRest
  <2>4. QED
    BY <2>1, <2>2, <2>3
<1>2. IInv => CrashLeavesTrace
  BY <1>1 DEF CrashLeavesTrace
<1>3. QED
  BY <1>2, RepositoryInvariant, PTL

\* Every other step keeps what is in main and on the branches.
LEMMA CommitsGrow ==
  ASSUME IInv, [Next]_vars,
         \A r \in Run : \A t \in TasksOf(r) : ~ CleanUpTask(r, t)
  PROVE  Committed \subseteq Committed'
<1> USE DEF git
<1> SUFFICES main \subseteq main' /\ \A b \in Branch : commits[b] \subseteq commits'[b]
  BY DEF Committed
<1> commits \in [Branch -> SUBSET Task]
  BY DEF IInv, TypeOK
<1>1. ASSUME NEW r \in Run, NEW t \in TasksOf(r), LaunchNew(r, t)
      PROVE  main \subseteq main' /\ \A b \in Branch : commits[b] \subseteq commits'[b]
  BY <1>1 DEF IInv, GitPart, LaunchNew, AddWorktree, NewBranch
<1>2. ASSUME NEW r \in Run, NEW t \in TasksOf(r), Merge(r, t)
      PROVE  main \subseteq main' /\ \A b \in Branch : commits[b] \subseteq commits'[b]
  BY <1>2 DEF Merge, MergeOutcome
<1>3. ASSUME NEW t \in Task, Commit(t)
      PROVE  main \subseteq main' /\ \A b \in Branch : commits[b] \subseteq commits'[b]
  BY <1>3 DEF Commit
<1>4. ASSUME NEW t \in Task, CleanupRemove(t)
      PROVE  main \subseteq main' /\ \A b \in Branch : commits[b] \subseteq commits'[b]
  BY <1>4 DEF IInv, GitPart, CleanupRemove, BranchesAfter, KeepCommits
<1>5. ASSUME NEW r \in Run, NEW t \in TasksOf(r), LaunchAgain(r, t) \/ TaskEnds(r, t)
      PROVE  UNCHANGED <<main, commits>>
  BY <1>5 DEF LaunchAgain, TaskEnds
<1>6. ASSUME NEW t \in Task, Edit(t) \/ OrphanEnds(t)
      PROVE  UNCHANGED <<main, commits>>
  BY <1>6 DEF Edit, OrphanEnds
<1>7. ASSUME RunStep PROVE UNCHANGED <<main, commits>>
  BY <1>7 DEF RunStep, CreateRun, Load, AcquireLock, SaveAndSpawn, BeginFinalize, BeginCleanup,
     Finish, Crash, Interrupt, Resume
<1>8. ASSUME \/ CleanupScan \/ CleanupAborted \/ UNCHANGED vars
             \/ \E t \in Task : CleanupCheck(t)
      PROVE  UNCHANGED <<main, commits>>
  BY <1>8 DEF CleanupScan, CleanupAborted, CleanupCheck, vars
<1>9. ASSUME DetectStep PROVE UNCHANGED <<main, commits>>
  BY <1>9 DEF DetectStep, Detect, DetectStale, DetectLoad, DetectSave, DetectRelease, DetectEnds,
     aside
<1>10. ASSUME NEW r \in Run, NEW t \in TasksOf(r), LaunchFails(r, t)
       PROVE  main \subseteq main' /\ \A b \in Branch : commits[b] \subseteq commits'[b]
  BY <1>10 DEF IInv, GitPart, LaunchFails, NewBranch
<1>11. QED
  BY <1>1, <1>2, <1>3, <1>4, <1>5, <1>6, <1>7, <1>8, <1>9, <1>10
     DEF Next, TaskStep, ChildStep, CleanupStep

\* No commit is lost before the end of a run that has its branch: a branch that goes
\* takes the commits of its own tasks along, and those of main are still in main.
THEOREM CommitsAreKept == Spec => CommitsKeptUntilTheEnd
<1> DEFINE Kept == \A t \in Committed : t \notin Committed' =>
                     \E u \in todo : pc[run[u]] = "remove" /\ BranchOf(u) = BranchOf(t)
<1>1. ASSUME IInv, NEW r \in Run, NEW v \in TasksOf(r), CleanUpTask(r, v)
      PROVE  Kept
  <2> SUFFICES ASSUME NEW t \in Committed, t \notin Committed'
               PROVE  \E u \in todo : pc[run[u]] = "remove" /\ BranchOf(u) = BranchOf(t)
    OBVIOUS
  <2>1. v \in todo /\ run[v] = r /\ pc[r] = "remove" /\ main' = main
    BY <1>1 DEF CleanUpTask
  <2>2. t \notin main
    BY <2>1 DEF Committed
  <2>3. PICK b \in Branch : t \in commits[b]
    BY <2>2 DEF Committed
  <2>4. BranchOf(t) = b
    BY <1>1, <2>2, <2>3 DEF IInv, GitPart
  <2>5. commits'[b] # commits[b]
    BY <2>3 DEF Committed
  <2>6. b \in branches
    BY <1>1, <2>3 DEF IInv, GitPart
  <2>7. b \notin branches'
    BY <1>1, <2>5 DEF CleanUpTask, KeepCommits
  <2>8. b = BranchOf(v)
    BY <1>1, <2>6, <2>7 DEF CleanUpTask
  <2>9. QED
    BY <2>1, <2>4, <2>8
<1>2. IInv /\ [Next]_vars => [Kept]_vars
  BY <1>1, CommitsGrow
<1>3. QED
  BY <1>2, RepositoryInvariant, PTL DEF Spec, CommitsKeptUntilTheEnd
================================================================================
