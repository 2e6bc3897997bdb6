----------------------------- MODULE OmtScheduler -----------------------------
(***************************************************************************)
(* One run of omt: the scheduling loop (bins/omt/src/scheduler.rs), the    *)
(* file that records the run (state.rs) and crash recovery (recovery.rs).  *)
(*                                                                         *)
(* mem is the OmtRunState the scheduler works on, disk is state.json.  The *)
(* loop is one asynchronous task, so one action is what it does between    *)
(* two points where another actor can interfere: an await (a child may     *)
(* exit, a signal may arrive) or a write to disk (the process may be       *)
(* killed before or after it).  The other actors are the omh children, the *)
(* clock, the user's signals, SIGKILL, and the omt commands that detect a  *)
(* crash, step by step, and resume the run.                                *)
(*                                                                         *)
(* Git is left to another module: here a worktree is created or it is not. *)
(***************************************************************************)
EXTENDS TaskGraph, RetryPolicy, FiniteSets

CONSTANTS
  NoTask,          \* no task: not a member of Task
  Detector,        \* processes that run detect_crashed_runs
  MaxConcurrent,   \* SchedulerConfig.max_concurrent
  MaxAttempts,     \* OmtTask.max_attempts, the same for every task of a plan
  TokenBudget,     \* OmtRunState.token_budget; 0 means unlimited
  TokenUse,        \* what a successful attempt may consume
  MaxRestarts      \* bound of the model: crashes and interrupts of one run

ASSUME TaskAssumption == IsFiniteSet(Task) /\ NoTask \notin Task
ASSUME LimitAssumption ==
  /\ MaxConcurrent \in Nat
  /\ MaxAttempts \in Nat \ {0}
  /\ TokenBudget \in Nat
  /\ TokenUse \subseteq Nat
  /\ MaxRestarts \in Nat

VARIABLES
  depends_on,   \* the plan
  disk,         \* state.json
  mem,          \* run_state in the scheduler's memory
  lock,         \* the lock file: absent, or the pid in it is alive or dead
  pc,           \* where the scheduler is
  batch,        \* eligible tasks still to be launched in this iteration
  opened,       \* the task whose worktree is ready and whose child is not yet started
  running,      \* the keys of the map `running`: tasks with a join handle
  cooling,      \* tasks whose next_retry_at lies in the future
  cancel,       \* the run's CancellationToken
  announced,    \* the last verdict on each task in events.jsonl
  restarts,     \* crashes and interrupts so far (bookkeeping of the model)
  probe,        \* where each detector is with this run
  copy,         \* the state.json each detector has read
  overtaken     \* the lock has been taken while a detector was at the run

control == <<batch, opened, running>>
detection == <<probe, copy, overtaken>>

vars == <<depends_on, disk, mem, lock, pc, control, cooling, cancel, announced, restarts,
          detection>>

RunState == {"Planned", "Running", "Finished", "Interrupted", "Crashed"}

RunRecord ==
  [state               : RunState,
   task                : [Task -> TaskState],
   attempt_count       : [Task -> Nat],
   worktree_path       : [Task -> BOOLEAN],
   global_retries_used : Nat,
   tokens_used         : Nat]

\* Where the scheduler is.  It awaits in loop, wait and drain; the others are the
\* gaps between two effects that a crash tells apart.
Control == {"down", "load", "lock", "loop", "launch", "spawn", "wait", "save",
            "drain", "finalize", "release"}

TypeOK ==
  /\ depends_on \in [Task -> SUBSET Task]
  /\ disk \in RunRecord
  /\ mem \in RunRecord
  /\ lock \in {"none", "live", "stale"}
  /\ pc \in Control
  /\ batch \in SUBSET Task
  /\ opened \in Task \cup {NoTask}
  /\ running \in SUBSET Task
  /\ cooling \in SUBSET Task
  /\ cancel \in BOOLEAN
  /\ announced \in [Task -> {"none", "Completed", "Failed"}]
  /\ restarts \in 0 .. MaxRestarts
  /\ probe \in [Detector -> {"idle", "stale", "loaded", "saved"}]
  /\ copy \in [Detector -> RunRecord]
  /\ overtaken \in BOOLEAN

GlobalBudget == BudgetFor(Cardinality(Task))

Created ==
  [state               |-> "Planned",
   task                |-> [t \in Task |-> "Pending"],
   attempt_count       |-> [t \in Task |-> 0],
   worktree_path       |-> [t \in Task |-> FALSE],
   global_retries_used |-> 0,
   tokens_used         |-> 0]

\* state::create_run, followed in the same process by scheduler::run.
Init ==
  /\ depends_on \in Plan
  /\ disk = Created
  /\ mem = disk
  /\ lock = "live"
  /\ pc = "load"
  /\ batch = {} /\ opened = NoTask /\ running = {}
  /\ cooling = {}
  /\ cancel = FALSE
  /\ announced = [t \in Task |-> "none"]
  /\ restarts = 0
  /\ probe = [d \in Detector |-> "idle"] /\ copy = [d \in Detector |-> Created]
  /\ overtaken = FALSE
------------------------------------------------------------------------------
(***************************************************************************)
(* Starting: the run is marked Running on disk before the lock is taken.   *)
(***************************************************************************)
LoadState ==
  /\ pc = "load"
  /\ mem' = [disk EXCEPT !.state = "Running"]
  /\ disk' = mem'
  /\ pc' = "lock"
  /\ UNCHANGED <<depends_on, lock, control, cooling, cancel, announced, restarts, detection>>

\* File::create truncates whatever lock there is.  A detector that has found the old
\* lock stale does not look again.
AcquireLock ==
  /\ pc = "lock"
  /\ lock' = "live"
  /\ pc' = "loop"
  /\ overtaken' = (overtaken \/ \E d \in Detector : probe[d] # "idle")
  /\ UNCHANGED <<depends_on, disk, mem, control, cooling, cancel, announced, restarts, probe, copy>>

(***************************************************************************)
(* The top of the loop: cancellation first, then the token budget, then    *)
(* the tasks to launch.                                                    *)
(***************************************************************************)
BudgetExhausted == TokenBudget > 0 /\ mem.tokens_used >= TokenBudget

BeginShutdown ==
  /\ pc = "loop" /\ cancel
  /\ pc' = "drain"
  /\ UNCHANGED <<depends_on, disk, mem, lock, control, cooling, cancel, announced, restarts,
                 detection>>

AbandonRest ==
  /\ pc = "loop" /\ ~cancel /\ BudgetExhausted
  /\ running = {}
  /\ mem' = [mem EXCEPT !.task = CancelRest(@)]
  /\ pc' = "finalize"
  /\ UNCHANGED <<depends_on, disk, lock, control, cooling, cancel, announced, restarts,
                 detection>>

LaunchNothing ==
  /\ pc = "loop" /\ ~cancel /\ BudgetExhausted
  /\ running # {}
  /\ pc' = "wait"
  /\ UNCHANGED <<depends_on, disk, mem, lock, control, cooling, cancel, announced, restarts,
                 detection>>

\* Mutant: the tasks already running are not subtracted.
AllSlots == MaxConcurrent

AvailableSlots == MaxConcurrent - Cardinality(running)

\* Iterating a HashMap: any order, but ready tasks come before retryable ones.
SelectBatch ==
  /\ pc = "loop" /\ ~cancel /\ ~BudgetExhausted
  /\ LET ready     == ReadyTasks(depends_on, mem.task)
         retryable == RetryableTasks(mem.task, cooling)
     IN \E B \in SUBSET (ready \cup retryable) :
          /\ Cardinality(B) = SmallerOf(AvailableSlots, Cardinality(ready \cup retryable))
          /\ B \cap retryable # {} => ready \subseteq B
          /\ batch' = B
  /\ pc' = "launch"
  /\ UNCHANGED <<depends_on, disk, mem, lock, opened, running, cooling, cancel,
                 announced, restarts, detection>>

(***************************************************************************)
(* Launching the batch, one task after the other, with no await between.   *)
(***************************************************************************)
NextOfBatch(t) ==
  /\ pc = "launch"
  /\ t \in batch
  /\ mem.task[t] = "Retrying" => \A u \in batch : mem.task[u] = "Retrying"

\* The worktree is there already (resumed and retried tasks) or is created now.
OpenWorktree(t) ==
  /\ NextOfBatch(t)
  /\ mem' = [mem EXCEPT !.worktree_path[t] = TRUE]
  /\ batch' = batch \ {t}
  /\ opened' = t
  /\ pc' = "spawn"
  /\ UNCHANGED <<depends_on, disk, lock, running, cooling, cancel, announced, restarts,
                 detection>>

\* Mutant: the dependents of the failed task are forgotten.
WorktreeFailsAlone(t) ==
  /\ NextOfBatch(t)
  /\ ~ mem.worktree_path[t]
  /\ mem' = [mem EXCEPT !.task[t] = "Failed"]
  /\ disk' = mem'
  /\ batch' = batch \ {t}
  /\ UNCHANGED <<depends_on, lock, pc, opened, running, cooling, cancel, announced, restarts,
                 detection>>

\* create_worktree fails: the task is Failed with no TaskFailed event.
WorktreeFails(t) ==
  /\ NextOfBatch(t)
  /\ ~ mem.worktree_path[t]
  /\ mem' = [mem EXCEPT !.task = FailTask(depends_on, @, t)]
  /\ disk' = mem'
  /\ batch' = batch \ {t}
  /\ UNCHANGED <<depends_on, lock, pc, opened, running, cooling, cancel, announced, restarts,
                 detection>>

\* The attempt is counted and saved before the child process exists.
SpawnAttempt ==
  /\ pc = "spawn"
  /\ mem' = [mem EXCEPT !.task[opened] = "Running", !.attempt_count[opened] = @ + 1]
  /\ disk' = mem'
  /\ running' = running \cup {opened}
  /\ opened' = NoTask
  /\ pc' = "launch"
  /\ UNCHANGED <<depends_on, lock, batch, cooling, cancel, announced, restarts, detection>>

\* Mutants: still_pending overlooks Retrying tasks; is_complete is not tested; the
\* sleep returns to the launch and not to the top of the loop.
EndLaunchEarly ==
  /\ pc = "launch" /\ batch = {}
  /\ pc' = IF running # {} THEN "wait"
           ELSE IF \E t \in Task : mem.task[t] = "Pending" THEN "loop"
           ELSE "finalize"
  /\ UNCHANGED <<depends_on, disk, mem, lock, control, cooling, cancel, announced, restarts,
                 detection>>

EndLaunchNever ==
  /\ pc = "launch" /\ batch = {}
  /\ pc' = IF running # {} THEN "wait" ELSE "loop"
  /\ UNCHANGED <<depends_on, disk, mem, lock, control, cooling, cancel, announced, restarts,
                 detection>>

EndLaunchBlind ==
  /\ pc = "launch" /\ batch = {}
  /\ pc' = IF running # {} THEN "wait"
           ELSE IF \E t \in Task : mem.task[t] \in {"Pending", "Retrying"} THEN "launch"
           ELSE "finalize"
  /\ UNCHANGED <<depends_on, disk, mem, lock, control, cooling, cancel, announced, restarts,
                 detection>>

\* The batch is launched.  With no child running the loop ends if every task is
\* terminal or none is Pending or Retrying; else it sleeps and looks again.
EndLaunch ==
  /\ pc = "launch" /\ batch = {}
  /\ pc' = IF running # {} THEN "wait"
           ELSE IF \E t \in Task : mem.task[t] \in {"Pending", "Retrying"} THEN "loop"
           ELSE "finalize"
  /\ UNCHANGED <<depends_on, disk, mem, lock, control, cooling, cancel, announced, restarts,
                 detection>>
------------------------------------------------------------------------------
(***************************************************************************)
(* apply_outcome, on the memory copy alone.                                *)
(***************************************************************************)
Succeeds(t) ==
  /\ \E n \in TokenUse :
       mem' = [mem EXCEPT !.task[t] = "Completed", !.tokens_used = @ + n]
  /\ announced' = [announced EXCEPT ![t] = "Completed"]
  /\ UNCHANGED cooling

WillRetry(t, class) ==
  ShouldRetry(mem.attempt_count[t], MaxAttempts, class, mem.global_retries_used, GlobalBudget)

\* Mutants: the retry is logged as a verdict; the retry is not charged.
RetriesAnnounced(t, class) ==
  /\ WillRetry(t, class)
  /\ mem' = [mem EXCEPT !.task[t] = "Retrying", !.global_retries_used = @ + 1]
  /\ cooling' = cooling \cup {t}
  /\ announced' = [announced EXCEPT ![t] = "Retrying"]

RetriesFree(t, class) ==
  /\ WillRetry(t, class)
  /\ mem' = [mem EXCEPT !.task[t] = "Retrying"]
  /\ cooling' = cooling \cup {t}
  /\ UNCHANGED announced

Retries(t, class) ==
  /\ WillRetry(t, class)
  /\ mem' = [mem EXCEPT !.task[t] = "Retrying", !.global_retries_used = @ + 1]
  /\ cooling' = cooling \cup {t}
  /\ UNCHANGED announced

FailsForGood(t, class) ==
  /\ ~ WillRetry(t, class)
  /\ mem' = [mem EXCEPT !.task = FailTask(depends_on, @, t)]
  /\ announced' = [announced EXCEPT ![t] = "Failed"]
  /\ UNCHANGED cooling

ApplyOutcome(t) ==
  \/ Succeeds(t)
  \/ \E class \in ErrorClass : Retries(t, class) \/ FailsForGood(t, class)

\* wait_any: some child has exited (or its task panicked).  While the loop waits
\* here it looks neither at cancel nor at the clock.
CollectOutcome(t) ==
  /\ pc = "wait"
  /\ t \in running
  /\ ApplyOutcome(t)
  /\ running' = running \ {t}
  /\ pc' = "save"
  /\ UNCHANGED <<depends_on, disk, lock, batch, opened, cancel, restarts, detection>>

\* Mutant: the outcome is applied and not saved.
SkipSave ==
  /\ pc = "save"
  /\ pc' = "loop"
  /\ UNCHANGED <<depends_on, disk, mem, lock, control, cooling, cancel, announced, restarts,
                 detection>>

SaveOutcome ==
  /\ pc = "save"
  /\ disk' = mem
  /\ pc' = "loop"
  /\ UNCHANGED <<depends_on, mem, lock, control, cooling, cancel, announced, restarts,
                 detection>>
------------------------------------------------------------------------------
(***************************************************************************)
(* Shutdown.  Each child is killed and joined for up to 30 seconds.  The   *)
(* outcomes go to the memory copy, which graceful_shutdown does not save:  *)
(* it reads state.json again and marks that copy Interrupted.  If it cannot*)
(* read or save the file, the run stays Running there, without a lock.     *)
(***************************************************************************)
DrainOutcome(t) ==
  /\ pc = "drain"
  /\ t \in running
  /\ ApplyOutcome(t)
  /\ running' = running \ {t}
  /\ UNCHANGED <<depends_on, disk, lock, pc, batch, opened, cancel, restarts, detection>>

DrainTimeout(t) ==
  /\ pc = "drain"
  /\ t \in running
  /\ mem' = [mem EXCEPT !.task[t] = "Pending"]
  /\ running' = running \ {t}
  /\ UNCHANGED <<depends_on, disk, lock, pc, batch, opened, cooling, cancel,
                 announced, restarts, detection>>

GracefulShutdown ==
  /\ pc = "drain" /\ running = {}
  /\ \/ disk' = [disk EXCEPT !.state = "Interrupted", !.task = Requeue(@)]
     \/ UNCHANGED disk
  /\ mem' = disk'
  /\ pc' = "release"
  /\ restarts' = restarts + 1
  /\ UNCHANGED <<depends_on, lock, control, cooling, cancel, announced, detection>>

\* finalize has merged the branches and removed the worktrees.
FinishRun ==
  /\ pc = "finalize"
  /\ mem' = [mem EXCEPT !.state = "Finished"]
  /\ disk' = mem'
  /\ pc' = "release"
  /\ UNCHANGED <<depends_on, lock, control, cooling, cancel, announced, restarts, detection>>

\* The last act of a finished and of an interrupted run.
ReleaseLock ==
  /\ pc = "release"
  /\ lock' = "none"
  /\ pc' = "down"
  /\ cancel' = FALSE
  /\ UNCHANGED <<depends_on, disk, mem, control, cooling, announced, restarts, detection>>
------------------------------------------------------------------------------
(***************************************************************************)
(* The environment of the loop.                                            *)
(***************************************************************************)

\* SIGINT or SIGTERM.  It is counted with the restarts it leads to.
Signal ==
  /\ pc # "down" /\ ~cancel
  /\ restarts < MaxRestarts
  /\ cancel' = TRUE
  /\ UNCHANGED <<depends_on, disk, mem, lock, pc, control, cooling, announced, restarts,
                 detection>>

DelayElapses(t) ==
  /\ t \in cooling
  /\ cooling' = cooling \ {t}
  /\ UNCHANGED <<depends_on, disk, mem, lock, pc, control, cancel, announced, restarts,
                 detection>>

\* SIGKILL, a panic, or an I/O error that scheduler::run returns: memory is lost,
\* the file and the lock stay.
Crash ==
  /\ pc # "down"
  /\ restarts < MaxRestarts
  /\ mem' = disk
  /\ lock' = IF lock = "live" THEN "stale" ELSE lock
  /\ pc' = "down"
  /\ batch' = {} /\ opened' = NoTask /\ running' = {}
  /\ cancel' = FALSE
  /\ restarts' = restarts + 1
  /\ UNCHANGED <<depends_on, disk, cooling, announced, detection>>

(***************************************************************************)
(* detect_crashed_runs, run by `omt resume` with no id and by `omt         *)
(* cleanup`: it looks at the lock, reads the file, saves it as Crashed and *)
(* removes the lock, and others may act between any two of these steps.    *)
(***************************************************************************)
aside == <<depends_on, mem, pc, control, cooling, cancel, announced, restarts, overtaken>>

\* Mutant: any lock is taken for a stale one.
DetectAny(d) ==
  /\ probe[d] = "idle" /\ lock # "none"
  /\ probe' = [probe EXCEPT ![d] = "stale"]
  /\ UNCHANGED <<disk, lock, copy, aside>>

DetectStale(d) ==
  /\ probe[d] = "idle" /\ lock = "stale"
  /\ probe' = [probe EXCEPT ![d] = "stale"]
  /\ UNCHANGED <<disk, lock, copy, aside>>

DetectLoad(d) ==
  /\ probe[d] = "stale" /\ disk.state = "Running"
  /\ probe' = [probe EXCEPT ![d] = "loaded"]
  /\ copy' = [copy EXCEPT ![d] = disk]
  /\ UNCHANGED <<disk, lock, aside>>

Recovered(run) == [run EXCEPT !.state = "Crashed", !.task = Requeue(@)]

\* The copy is saved, whatever the file holds by now; or the save fails unnoticed.
DetectSave(d) ==
  /\ probe[d] = "loaded"
  /\ probe' = [probe EXCEPT ![d] = "saved"]
  /\ disk' \in {Recovered(copy[d]), disk}
  /\ copy' = [copy EXCEPT ![d] = Created]
  /\ UNCHANGED <<lock, aside>>

DetectRelease(d) ==
  /\ probe[d] = "saved"
  /\ probe' = [probe EXCEPT ![d] = "idle"]
  /\ lock' = "none"
  /\ UNCHANGED <<disk, copy, aside>>

\* The command is killed, or the file cannot be read or is not Running.
DetectEnds(d) ==
  /\ probe[d] # "idle"
  /\ probe' = [probe EXCEPT ![d] = "idle"]
  /\ copy' = [copy EXCEPT ![d] = Created]
  /\ UNCHANGED <<disk, lock, aside>>

Detect(d) ==
  DetectStale(d) \/ DetectLoad(d) \/ DetectSave(d) \/ DetectRelease(d) \/ DetectEnds(d)

\* pick_resumable_run offers the run only in these two states.
Resume ==
  /\ pc = "down"
  /\ disk.state \in {"Crashed", "Interrupted"}
  /\ pc' = "load"
  /\ UNCHANGED <<depends_on, disk, mem, lock, control, cooling, cancel, announced, restarts,
                 detection>>

\* `omt resume <id>`: nothing is detected and no state is refused.
ResumeById ==
  /\ pc = "down"
  /\ pc' = "load"
  /\ UNCHANGED <<depends_on, disk, mem, lock, control, cooling, cancel, announced, restarts,
                 detection>>
------------------------------------------------------------------------------
Scheduler ==
  \/ LoadState \/ AcquireLock
  \/ BeginShutdown \/ AbandonRest \/ LaunchNothing \/ SelectBatch
  \/ \E t \in Task : OpenWorktree(t) \/ WorktreeFails(t)
  \/ SpawnAttempt \/ EndLaunch
  \/ SaveOutcome
  \/ GracefulShutdown \/ FinishRun \/ ReleaseLock

Collect == \E t \in Task : CollectOutcome(t)
Drain   == \E t \in Task : DrainOutcome(t) \/ DrainTimeout(t)
Recover == Resume \/ \E d \in Detector : Detect(d)

Next ==
  \/ Scheduler
  \/ Collect
  \/ Drain
  \/ Signal
  \/ \E t \in Task : DelayElapses(t)
  \/ Crash
  \/ Recover

Spec == Init /\ [][Next]_vars

\* The same system for a user who may also name the run to resume.
SpecById == Init /\ [][Next \/ ResumeById]_vars

(***************************************************************************)
(* Fairness.  The runtime keeps polling the loop, drain waits at most 30   *)
(* seconds per child, and the clock advances.  That a child ends by itself *)
(* is the children's promise (omh bounds its turns), so it is stated apart.*)
(* Signals, crashes and resuming are up to the user.                       *)
(***************************************************************************)
LoopFairness ==
  /\ WF_vars(Scheduler)
  /\ WF_vars(Drain)
  /\ \A t \in Task : WF_vars(DelayElapses(t))

LiveSpec == Spec /\ LoopFairness /\ WF_vars(Collect)
HangSpec == Spec /\ LoopFairness
------------------------------------------------------------------------------
(***************************************************************************)
(* Properties.                                                             *)
(***************************************************************************)

\* On disk, and in memory whenever the loop decides what to launch, no task has
\* been started before its dependencies completed, and the dependents of a failed
\* task are cancelled with it (ready_tasks, cascade_cancel, Requeue together).
DiskCoherent == Coherent(depends_on, disk.task)

\* The loop never has more children than max_concurrent, counting those it is
\* about to start.
ConcurrencyLimit ==
  Cardinality(running) + Cardinality(batch) + (IF opened = NoTask THEN 0 ELSE 1)
    <= MaxConcurrent

\* Whenever the loop waits for a child or starts an iteration, the file holds all
\* it knows, and its join handles are exactly the tasks recorded as Running: a crash
\* there loses no outcome and forgets no attempt.  (The run's own state may differ:
\* a detector may mark it between save_state and acquire_lock.)  A detector that the
\* lock has overtaken may put an older file in its place.
DiskTracksMemory ==
  pc \in {"loop", "wait"} /\ ~ overtaken =>
    /\ disk = [mem EXCEPT !.state = disk.state]
    /\ running = {t \in Task : disk.task[t] = "Running"}

\* A Finished run has no task left in any other than a terminal state
\* (events.rs: "All tasks completed (some may have failed)").
FinishedMeansComplete == disk.state = "Finished" => IsComplete(disk.task)

Working == pc \notin {"down", "load", "lock"}

\* A run whose process is past its start holds its lock, so that no detector begins to
\* take it for a crashed one; unless it took the lock when one had already begun.
AliveMeansLocked == Working /\ ~ overtaken => lock = "live"

\* A task is launched at most max_attempts times plus once for every crash or
\* interrupt of the run, as long as no older file has come back.
AttemptsBounded ==
  ~ overtaken => \A t \in Task : disk.attempt_count[t] <= MaxAttempts + restarts

\* The attempts of a run: one for each child that was started.
Started(attempt_count) == UNION {{t} \X (1 .. attempt_count[t]) : t \in Task}

\* Over a whole run the children started are one per task that was ever launched,
\* one per retry paid from the global budget (less those still waiting for their
\* delay), and those in flight when the run crashed or was interrupted.
LaunchesAccounted ==
  ~ overtaken =>
    Cardinality(Started(disk.attempt_count)) + Cardinality({t \in Task : disk.task[t] = "Retrying"})
      <= Cardinality({t \in Task : disk.attempt_count[t] > 0})
           + disk.global_retries_used + restarts * MaxConcurrent

\* retry.rs: "Maximum number of attempts per task (including the first attempt)."
AttemptsWithinMax == \A t \in Task : disk.attempt_count[t] <= MaxAttempts

\* events.rs, TaskCompleted: "A task completed successfully."  What the event log
\* has announced as completed is completed in the state that a resume starts from.
AnnouncedIsDurable ==
  disk.state = "Interrupted" =>
    \A t \in Task : announced[t] = "Completed" => disk.task[t] = "Completed"

\* A verdict that reached the disk survives every retry, crash, interrupt and resume,
\* and every detection that is over when a scheduler takes the lock.
VerdictsStand ==
  [][~ overtaken' => \A t \in Task : disk.task[t] \in Terminal => disk'.task[t] = disk.task[t]]_vars

\* The states on disk move as the durable contract allows.
Durable == INSTANCE DurableRun WITH st <- disk.task
ImplementsDurableRun == Durable!Spec

\* The loop ends: every task settles, the run is interrupted, or it crashes.
RunEnds == (pc = "loop") ~> (pc = "down")

\* A signal is honoured (recovery.rs: "First signal: returns so caller can do
\* graceful shutdown").
SignalHonoured == cancel ~> (pc = "down")
=============================================================================
