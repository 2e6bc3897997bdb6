------------------------- MODULE OmtScheduler_proofs -------------------------
(***************************************************************************)
(* Theorems about OmtScheduler, for every number of tasks, every plan and  *)
(* every value of the limits.                                              *)
(***************************************************************************)
EXTENDS OmtScheduler, TaskGraph_proofs, FiniteSetTheorems

(***************************************************************************)
(* The inductive invariant, in named parts.                                *)
(***************************************************************************)

\* The bound on restarts, and where the shutdown is.
ShutdownPart ==
  /\ cancel /\ pc # "release" => restarts < MaxRestarts
  /\ pc = "drain" => cancel

\* batch and opened are in use during a launch only, and what they hold may start.
LaunchPart ==
  /\ pc = "spawn" <=> opened # NoTask
  /\ pc \notin {"launch", "spawn"} => batch = {}
  /\ opened \notin batch
  /\ \A t \in Task : t \in batch \/ t = opened =>
       mem.task[t] \in {"Pending", "Retrying"} /\ DependenciesDone(depends_on, mem.task, t)

\* The memory copy is one verdict ahead of the file.
OneVerdictAhead ==
  \E t \in Task :
    /\ disk.task[t] = "Running"
    /\ \/ \E s \in {"Completed", "Retrying"} : mem.task = [disk.task EXCEPT ![t] = s]
       \/ mem.task = FailTask(depends_on, disk.task, t)

\* What the memory copy holds that the file does not, point by point.
CopyPart ==
  /\ pc \in {"lock", "loop", "launch", "wait", "release"} =>
       disk = [mem EXCEPT !.state = disk.state]
  /\ pc \in {"spawn", "save", "finalize"} => mem.attempt_count = disk.attempt_count
  /\ pc = "spawn" => mem.task = disk.task
  /\ pc = "save" => OneVerdictAhead
  /\ pc = "finalize" => mem.task \in {disk.task, CancelRest(disk.task)}

\* The join handles are the tasks recorded as Running.
HandlePart ==
  /\ pc \in {"loop", "launch", "spawn", "wait", "save"} =>
       running = {t \in Task : mem.task[t] = "Running"}
  /\ pc \in {"lock", "finalize"} => \A t \in Task : mem.task[t] # "Running"
  /\ pc \in {"down", "load", "lock", "finalize", "release"} => running = {}
  /\ pc = "load" => disk.state # "Running"
  /\ disk.state # "Running" => \A t \in Task : disk.task[t] # "Running"
  /\ pc \in {"lock", "loop", "launch", "spawn", "wait", "save", "finalize"} =>
       mem.state = "Running"

\* Nothing is ever Queued; a finished run is complete and stays finished.
FinishPart ==
  /\ \A t \in Task : disk.task[t] # "Queued"
  /\ pc # "drain" => \A t \in Task : mem.task[t] # "Queued"
  /\ pc = "finalize" => IsComplete(mem.task)
  /\ disk.state = "Finished" => IsComplete(disk.task) /\ pc \in {"release", "down"}

\* The two copies of the run are coherent, each in itself, and so is every copy that a
\* detector has read, however old.  What is drained is not looked at again.
CoherentPart ==
  /\ DiskCoherent
  /\ pc # "drain" => Coherent(depends_on, mem.task)
  /\ \A d \in Detector :
       /\ Coherent(depends_on, copy[d].task)
       /\ \A t \in Task : copy[d].task[t] # "Queued"

\* What a task in a given state has left of its attempts.
AttemptsLeft(task, attempt_count) ==
  \A t \in Task :
    /\ task[t] = "Pending" => attempt_count[t] = 0
                              \/ attempt_count[t] + 1 <= MaxAttempts + restarts
    /\ task[t] = "Retrying" => attempt_count[t] + 1 <= MaxAttempts
    /\ task[t] = "Running" /\ pc \in {"release", "down"} =>
         attempt_count[t] + 1 <= MaxAttempts + restarts
    /\ attempt_count[t] <= MaxAttempts + restarts

AttemptPart ==
  /\ AttemptsLeft(disk.task, disk.attempt_count)
  /\ pc = "save" => AttemptsLeft(mem.task, mem.attempt_count)

\* Detectors are at a run only while nobody works on it; what they have read differs from
\* the file by no more than what they are about to change.
DetectPart ==
  \A d \in Detector :
    /\ probe[d] # "idle" => ~ Working
    /\ probe[d] = "loaded" => Recovered(copy[d]) = Recovered(disk)

LockPart == Working => lock = "live"

\* What holds until the lock is taken under a detector's eyes.
InTime == CopyPart /\ AttemptPart /\ LockPart /\ DetectPart

IInv ==
  /\ TypeOK
  /\ ShutdownPart
  /\ LaunchPart
  /\ HandlePart
  /\ FinishPart
  /\ CoherentPart
  /\ ConcurrencyLimit
  /\ overtaken \/ InTime
-------------------------------------------------------------------------------
(***************************************************************************)
(* Types.                                                                  *)
(***************************************************************************)

LEMMA FailTaskType ==
  ASSUME NEW deps, NEW st \in States, NEW t \in Task
  PROVE  FailTask(deps, st, t) \in States
<1> DEFINE mid == [st EXCEPT ![t] = "Failed"]
<1>1. \A u \in Task : mid[u] \in TaskState
  BY DEF States, TaskState
<1>2. "Cancelled" \in TaskState
  BY DEF TaskState
<1>3. FailTask(deps, st, t) =
        [u \in Task |-> IF u \in Visited(deps, mid, t) /\ mid[u] \notin Terminal
                          THEN "Cancelled" ELSE mid[u]]
  BY DEF FailTask, CascadeCancel
<1>. HIDE DEF mid
<1>. QED
  BY <1>1, <1>2, <1>3 DEF States

LEMMA RequeueType ==
  ASSUME NEW st \in States
  PROVE  Requeue(st) \in States
BY DEF Requeue, States, TaskState

LEMMA CancelRestType ==
  ASSUME NEW st \in States
  PROVE  CancelRest(st) \in States
BY DEF CancelRest, States, TaskState, Terminal

\* What apply_outcome does to the memory copy, whichever way the attempt ended.
LEMMA OutcomeEffect ==
  ASSUME TypeOK, NEW t \in Task, ApplyOutcome(t)
  PROVE  /\ mem' \in RunRecord
         /\ mem'.state = mem.state /\ mem'.attempt_count = mem.attempt_count
         /\ \/ mem'.task = [mem.task EXCEPT ![t] = "Completed"]
            \/ /\ mem'.task = [mem.task EXCEPT ![t] = "Retrying"]
               /\ mem.attempt_count[t] + 1 <= MaxAttempts
            \/ mem'.task = FailTask(depends_on, mem.task, t)
         /\ cooling' \in SUBSET Task
         /\ announced' \in [Task -> {"none", "Completed", "Failed"}]
<1>1. mem.task \in States /\ mem \in RunRecord
  BY DEF TypeOK, RunRecord, States
<1>2. CASE Succeeds(t)
  <2>1. PICK n \in TokenUse :
          mem' = [mem EXCEPT !.task[t] = "Completed", !.tokens_used = @ + n]
    BY <1>2 DEF Succeeds
  <2>2. mem.tokens_used + n \in Nat
    BY <1>1, LimitAssumption DEF RunRecord
  <2>3. [mem.task EXCEPT ![t] = "Completed"] \in [Task -> TaskState]
    BY <1>1 DEF States, TaskState
  <2>4. /\ mem' \in RunRecord
        /\ mem'.state = mem.state /\ mem'.attempt_count = mem.attempt_count
        /\ mem'.task = [mem.task EXCEPT ![t] = "Completed"]
    BY <1>1, <2>1, <2>2, <2>3 DEF RunRecord
  <2>5. announced' \in [Task -> {"none", "Completed", "Failed"}] /\ cooling' = cooling
    BY <1>2 DEF Succeeds, TypeOK
  <2>. QED
    BY <2>4, <2>5 DEF TypeOK
<1>3. ASSUME NEW class \in ErrorClass, Retries(t, class)
      PROVE  /\ mem' = [mem EXCEPT !.task[t] = "Retrying", !.global_retries_used = @ + 1]
             /\ mem.attempt_count[t] + 1 <= MaxAttempts
             /\ cooling' = cooling \cup {t} /\ announced' = announced
  <2>1. mem.attempt_count[t] \in Nat /\ MaxAttempts \in Nat
    BY LimitAssumption DEF TypeOK, RunRecord
  <2>. QED
    BY <1>3, <2>1 DEF Retries, WillRetry, ShouldRetry, SmallerOf
<1>4. ASSUME NEW class \in ErrorClass, Retries(t, class)
      PROVE  mem' \in RunRecord /\ mem'.task = [mem.task EXCEPT ![t] = "Retrying"]
             /\ mem'.state = mem.state /\ mem'.attempt_count = mem.attempt_count
  <2>1. [mem.task EXCEPT ![t] = "Retrying"] \in [Task -> TaskState]
    BY <1>1 DEF States, TaskState
  <2>2. mem.global_retries_used + 1 \in Nat
    BY <1>1 DEF RunRecord
  <2>. QED
    BY <1>1, <1>3, <1>4, <2>1, <2>2 DEF RunRecord
<1>5. ASSUME NEW class \in ErrorClass, FailsForGood(t, class)
      PROVE  /\ mem' \in RunRecord /\ mem'.task = FailTask(depends_on, mem.task, t)
             /\ mem'.state = mem.state /\ mem'.attempt_count = mem.attempt_count
             /\ cooling' = cooling
             /\ announced' \in [Task -> {"none", "Completed", "Failed"}]
  <2>1. FailTask(depends_on, mem.task, t) \in [Task -> TaskState]
    BY <1>1, FailTaskType DEF States
  <2>2. mem' = [mem EXCEPT !.task = FailTask(depends_on, mem.task, t)]
    BY <1>5 DEF FailsForGood
  <2>. QED
    BY <1>1, <1>5, <2>1, <2>2 DEF FailsForGood, TypeOK, RunRecord
<1>. QED
  BY <1>2, <1>3, <1>4, <1>5 DEF ApplyOutcome, TypeOK
-------------------------------------------------------------------------------
(***************************************************************************)
(* The invariant is inductive: first the initial states, then the actions. *)
(***************************************************************************)

LEMMA InitInv == Init => IInv
<1> SUFFICES ASSUME Init PROVE IInv
  OBVIOUS
<1>1. \A t \in Task : t # NoTask
  BY TaskAssumption
<1>2. Created \in RunRecord
  BY DEF Created, RunRecord, RunState, TaskState
<1>3. TypeOK
  <2>1. restarts \in 0 .. MaxRestarts
    BY LimitAssumption DEF Init
  <2>2. depends_on \in [Task -> SUBSET Task]
    BY DEF Init, Plan
  <2>. QED
    BY <1>2, <2>1, <2>2 DEF Init, TypeOK, Control
<1>4. Coherent(depends_on, Created.task) /\ \A t \in Task : Created.task[t] # "Queued"
  BY DEF Init, Created, Coherent, DependenciesMet, FailuresPropagated, Plan
<1>5. CoherentPart
  BY <1>4 DEF Init, CoherentPart, DiskCoherent
<1>6. ShutdownPart /\ LaunchPart /\ CopyPart
  BY <1>1 DEF Init, ShutdownPart, LaunchPart, CopyPart
<1>7. HandlePart /\ FinishPart
  BY DEF Init, HandlePart, FinishPart, Created
<1>8. AttemptPart
  BY LimitAssumption DEF Init, AttemptPart, AttemptsLeft, Created
<1>9. ConcurrencyLimit
  BY LimitAssumption, FS_EmptySet DEF Init, ConcurrencyLimit
<1>10. LockPart /\ DetectPart
  BY DEF Init, LockPart, DetectPart, Working
<1>. QED
  BY <1>3, <1>5, <1>6, <1>7, <1>8, <1>9, <1>10 DEF IInv, InTime

\* While somebody works on the run the detectors are elsewhere, so they see nothing of
\* what happens to the file.
LEMMA NobodyLooks ==
  ASSUME DetectPart, Working, probe' = probe
  PROVE  DetectPart'
BY DEF DetectPart

\* The actions that move the scheduler, or the actors around it, and touch neither
\* copy of the run.
Quiet ==
  \/ AcquireLock \/ BeginShutdown \/ LaunchNothing \/ EndLaunch \/ ReleaseLock
  \/ Signal \/ Resume
  \/ \E t \in Task : DelayElapses(t)

LEMMA QuietInv ==
  ASSUME IInv, Quiet
  PROVE  IInv'
<1> USE DEF IInv, Quiet, AcquireLock, BeginShutdown, LaunchNothing, EndLaunch, ReleaseLock,
            Signal, Resume, DelayElapses, control, detection
<1>1. /\ depends_on' = depends_on /\ disk' = disk /\ mem' = mem
      /\ probe' = probe /\ copy' = copy
  OBVIOUS
<1>2. TypeOK'
  BY <1>1 DEF TypeOK, Control
<1>3. ShutdownPart'
  BY <1>1 DEF ShutdownPart
<1>4. LaunchPart'
  BY <1>1 DEF LaunchPart
<1>5. HandlePart'
  BY <1>1 DEF HandlePart
<1>6. FinishPart'
  <2>1. CASE EndLaunch
    <3>1. \A t \in Task : mem.task[t] \in TaskState /\ mem.task[t] # "Queued"
      BY <2>1 DEF FinishPart, TypeOK, RunRecord
    <3>2. pc' = "finalize" => \A t \in Task : mem.task[t] \notin {"Pending", "Retrying", "Running"}
      BY <2>1 DEF HandlePart
    <3>. QED
      BY <1>1, <2>1, <3>1, <3>2 DEF FinishPart, IsComplete, Terminal, TaskState
  <2>2. CASE ~ EndLaunch
    <3>1. /\ pc' = "finalize" => pc = "finalize"
          /\ pc' # "drain" => pc # "drain"
      BY <2>2
    <3>2. pc \in {"release", "down"} /\ disk.state = "Finished" => pc' \in {"release", "down"}
      BY <2>2
    <3>. QED
      BY <1>1, <3>1, <3>2 DEF FinishPart
  <2>. QED BY <2>1, <2>2
<1>7. CoherentPart'
  <2>1. pc' # "drain" => pc # "drain"
    OBVIOUS
  <2>. QED
    BY <1>1, <2>1 DEF CoherentPart, DiskCoherent
<1>8. ConcurrencyLimit'
  BY <1>1 DEF ConcurrencyLimit
<1>9. ASSUME ~ overtaken' PROVE InTime'
  <2>1. ~ overtaken /\ InTime
    <3>1. CASE AcquireLock
      BY <1>9, <3>1 DEF TypeOK
    <3>2. CASE ~ AcquireLock
      BY <1>9, <3>2 DEF TypeOK
    <3>. QED BY <3>1, <3>2
  <2>2. CopyPart'
    <3>1. OneVerdictAhead' <=> OneVerdictAhead
      BY <1>1 DEF OneVerdictAhead
    <3>2. pc \in {"lock", "loop", "launch", "wait"} => mem.task = disk.task
                                                       /\ mem.attempt_count = disk.attempt_count
      BY <2>1 DEF InTime, CopyPart, TypeOK, RunRecord
    <3>. QED
      BY <1>1, <2>1, <3>1, <3>2 DEF InTime, CopyPart
  <2>3. AttemptPart'
    <3>1. pc' = "save" => pc = "save"
      OBVIOUS
    <3>2. pc' \in {"release", "down"} => pc \in {"release", "down"}
      OBVIOUS
    <3>3. restarts' = restarts
      OBVIOUS
    <3>. QED
      BY <1>1, <2>1, <3>1, <3>2, <3>3 DEF InTime, AttemptPart, AttemptsLeft
  <2>4. LockPart'
    BY <2>1 DEF InTime, LockPart, Working
  <2>5. DetectPart'
    <3>1. CASE AcquireLock
      <4>1. \A d \in Detector : probe'[d] = "idle"
        BY <1>1, <1>9, <3>1
      <4>. QED
        BY <4>1 DEF DetectPart
    <3>2. CASE ~ AcquireLock
      <4>1. Working' => Working
        BY <3>2 DEF Working
      <4>. QED
        BY <1>1, <2>1, <4>1 DEF InTime, DetectPart
    <3>. QED BY <3>1, <3>2
  <2>. QED
    BY <2>2, <2>3, <2>4, <2>5 DEF InTime
<1>. QED
  BY <1>2, <1>3, <1>4, <1>5, <1>6, <1>7, <1>8, <1>9

\* Facts every action needs: the parts of the records, and finiteness.
LEMMA Parts ==
  ASSUME TypeOK
  PROVE  /\ depends_on \in Edges
         /\ disk.task \in States /\ mem.task \in States
         /\ disk.attempt_count \in [Task -> Nat] /\ mem.attempt_count \in [Task -> Nat]
         /\ IsFiniteSet(running) /\ IsFiniteSet(batch)
         /\ Cardinality(running) \in Nat /\ Cardinality(batch) \in Nat
<1>1. IsFiniteSet(running) /\ IsFiniteSet(batch)
  BY TaskAssumption, FS_Subset DEF TypeOK
<1>. QED
  BY <1>1, FS_CardinalityType DEF TypeOK, RunRecord, Edges, States

LEMMA LoadStateInv ==
  ASSUME IInv, LoadState
  PROVE  IInv'
<1> USE DEF IInv, LoadState, control, detection
<1>1. /\ mem' \in RunRecord /\ disk' = mem' /\ mem'.state = "Running"
      /\ mem'.task = disk.task /\ mem'.attempt_count = disk.attempt_count
  BY DEF TypeOK, RunRecord, RunState
<1>2. \A t \in Task : disk.task[t] # "Running"
  BY DEF HandlePart
<1>3. TypeOK'
  BY <1>1 DEF TypeOK, Control
<1>4. HandlePart' /\ FinishPart'
  BY <1>1, <1>2 DEF HandlePart, FinishPart
<1>5. LaunchPart' /\ ShutdownPart'
  BY TaskAssumption DEF LaunchPart, ShutdownPart, TypeOK
<1>6. CoherentPart' /\ ConcurrencyLimit'
  BY <1>1 DEF CoherentPart, DiskCoherent, ConcurrencyLimit
<1>7. ASSUME ~ overtaken' PROVE InTime'
  <2>1. InTime
    BY <1>7
  <2>2. CopyPart'
    <3>1. disk' = [mem' EXCEPT !.state = disk'.state]
      BY <1>1 DEF RunRecord
    <3>. QED
      BY <1>1, <3>1 DEF CopyPart
  <2>3. AttemptPart'
    BY <1>1, <2>1 DEF InTime, AttemptPart, AttemptsLeft
  <2>4. Recovered(disk') = Recovered(disk)
    BY DEF Recovered, TypeOK, RunRecord
  <2>5. LockPart' /\ DetectPart'
    BY <2>1, <2>4 DEF InTime, LockPart, DetectPart, Working
  <2>. QED
    BY <2>2, <2>3, <2>5 DEF InTime
<1>. QED
  BY <1>3, <1>4, <1>5, <1>6, <1>7

LEMMA SelectBatchInv ==
  ASSUME IInv, SelectBatch
  PROVE  IInv'
<1> USE DEF IInv, SelectBatch, control, detection
<1>1. /\ disk' = disk /\ mem' = mem /\ depends_on' = depends_on
      /\ pc = "loop" /\ pc' = "launch"
  OBVIOUS
<1>2. /\ batch' \subseteq ReadyTasks(depends_on, mem.task) \cup RetryableTasks(mem.task, cooling)
      /\ Cardinality(batch') <= AvailableSlots
  <2>1. PICK B \in SUBSET (ReadyTasks(depends_on, mem.task) \cup RetryableTasks(mem.task, cooling)) :
          /\ Cardinality(B) = SmallerOf(AvailableSlots,
                 Cardinality(ReadyTasks(depends_on, mem.task) \cup RetryableTasks(mem.task, cooling)))
          /\ batch' = B
    OBVIOUS
  <2>2. ReadyTasks(depends_on, mem.task) \cup RetryableTasks(mem.task, cooling) \subseteq Task
    BY DEF ReadyTasks, RetryableTasks
  <2>3. /\ Cardinality(ReadyTasks(depends_on, mem.task) \cup RetryableTasks(mem.task, cooling)) \in Nat
        /\ AvailableSlots \in Int
    BY <2>2, TaskAssumption, LimitAssumption, Parts, FS_Subset, FS_CardinalityType DEF AvailableSlots
  <2>. QED
    BY <2>1, <2>3 DEF SmallerOf
<1>3. \A t \in Task : mem.task[t] = "Retrying" => DependenciesDone(depends_on, mem.task, t)
  BY <1>1 DEF CoherentPart, Coherent, DependenciesMet
<1>4. LaunchPart'
  BY <1>1, <1>2, <1>3, TaskAssumption DEF LaunchPart, ReadyTasks, RetryableTasks
<1>5. TypeOK'
  <2>1. batch' \in SUBSET Task
    BY <1>2 DEF ReadyTasks, RetryableTasks
  <2>. QED
    BY <1>1, <2>1 DEF TypeOK, Control
<1>6. ConcurrencyLimit'
  <2>1. opened' = NoTask /\ running' = running
    BY <1>1 DEF LaunchPart
  <2>2. IsFiniteSet(batch')
    BY <1>5, TaskAssumption, FS_Subset DEF TypeOK
  <2>. QED
    BY <1>2, <2>1, <2>2, Parts, FS_CardinalityType, LimitAssumption DEF ConcurrencyLimit, AvailableSlots
<1>7. HandlePart' /\ FinishPart' /\ ShutdownPart'
  BY <1>1 DEF HandlePart, FinishPart, ShutdownPart
<1>8. CoherentPart'
  BY <1>1 DEF CoherentPart, DiskCoherent
<1>9. ASSUME InTime PROVE InTime'
  <2>1. CopyPart' /\ AttemptPart' /\ LockPart'
    BY <1>1, <1>9 DEF InTime, CopyPart, AttemptPart, AttemptsLeft, LockPart, Working
  <2>2. DetectPart'
    BY <1>1, <1>9, NobodyLooks DEF InTime, Working
  <2>. QED
    BY <2>1, <2>2 DEF InTime
<1>. QED
  BY <1>4, <1>5, <1>6, <1>7, <1>8, <1>9

LEMMA OpenWorktreeInv ==
  ASSUME IInv, NEW t \in Task, OpenWorktree(t)
  PROVE  IInv'
<1> USE DEF IInv, OpenWorktree, NextOfBatch, control, detection
<1>1. /\ disk' = disk /\ depends_on' = depends_on /\ running' = running
      /\ pc = "launch" /\ pc' = "spawn" /\ t \in batch
      /\ batch' = batch \ {t} /\ opened' = t
  OBVIOUS
<1>2. /\ mem' \in RunRecord
      /\ mem'.task = mem.task /\ mem'.attempt_count = mem.attempt_count
      /\ mem'.state = mem.state
  BY DEF TypeOK, RunRecord
<1>3. TypeOK'
  BY <1>1, <1>2 DEF TypeOK, Control
<1>4. LaunchPart'
  BY <1>1, <1>2, TaskAssumption DEF LaunchPart
<1>5. HandlePart' /\ FinishPart' /\ ShutdownPart'
  BY <1>1, <1>2 DEF HandlePart, FinishPart, ShutdownPart
<1>6. CoherentPart'
  BY <1>1, <1>2 DEF CoherentPart, DiskCoherent
<1>7. ConcurrencyLimit'
  <2>1. Cardinality(batch') = Cardinality(batch) - 1
    BY <1>1, Parts, FS_RemoveElement
  <2>2. opened = NoTask /\ t # NoTask
    BY <1>1, TaskAssumption DEF LaunchPart
  <2>. QED
    BY <1>1, <2>1, <2>2, Parts, LimitAssumption DEF ConcurrencyLimit
<1>8. ASSUME InTime PROVE InTime'
  <2>1. CopyPart'
    BY <1>1, <1>2, <1>8 DEF InTime, CopyPart, TypeOK, RunRecord
  <2>2. AttemptPart' /\ LockPart'
    BY <1>1, <1>8 DEF InTime, AttemptPart, AttemptsLeft, LockPart, Working
  <2>3. DetectPart'
    BY <1>1, <1>8, NobodyLooks DEF InTime, Working
  <2>. QED
    BY <2>1, <2>2, <2>3 DEF InTime
<1>. QED
  BY <1>3, <1>4, <1>5, <1>6, <1>7, <1>8

\* The cascade of a failed launch spares what is in the batch and what is running:
\* all of those have their dependencies Completed.
LEMMA WorktreeFailsInv ==
  ASSUME IInv, NEW t \in Task, WorktreeFails(t)
  PROVE  IInv'
<1> USE DEF IInv, WorktreeFails, NextOfBatch, control, detection
<1> DEFINE old == mem.task
           new == FailTask(depends_on, mem.task, t)
<1>1. /\ depends_on' = depends_on /\ running' = running /\ opened' = opened
      /\ pc = "launch" /\ pc' = "launch" /\ t \in batch
      /\ batch' = batch \ {t} /\ disk' = mem'
  OBVIOUS
<1>2. depends_on \in Edges /\ old \in States
  BY <1>1, Parts
<1>3. Coherent(depends_on, old)
  BY <1>1 DEF CoherentPart
<1>4. old[t] \in {"Pending", "Retrying"} /\ DependenciesDone(depends_on, old, t)
  BY <1>1 DEF LaunchPart
<1>5. old[t] \notin Terminal
  BY <1>4 DEF Terminal
<1>6. /\ new \in States /\ new[t] = "Failed"
      /\ \A u \in Task \ {t} :
           \/ new[u] = old[u]
           \/ new[u] = "Cancelled" /\ old[u] \notin Terminal /\ ~ DependenciesDone(depends_on, old, u)
  BY <1>2, <1>3, <1>4, <1>5, FailTaskEffect
<1>7. Coherent(depends_on, new)
  BY <1>2, <1>3, <1>4, <1>5, FailCoherent
<1>8. /\ mem' \in RunRecord /\ mem'.task = new
      /\ mem'.attempt_count = mem.attempt_count /\ mem'.state = mem.state
  <2>1. new \in [Task -> TaskState]
    BY <1>6 DEF States
  <2>2. mem' = [mem EXCEPT !.task = new]
    OBVIOUS
  <2>. HIDE DEF new
  <2>. QED
    BY <2>1, <2>2 DEF TypeOK, RunRecord
<1>0. mem.state = "Running"
  BY <1>1 DEF HandlePart
<1>. HIDE DEF old, new
<1>9. TypeOK'
  BY <1>1, <1>8 DEF TypeOK
<1>10. LaunchPart'
  <2>1. ASSUME NEW u \in Task, u \in batch \/ u = opened, u # t
        PROVE  new[u] \in {"Pending", "Retrying"} /\ DependenciesDone(depends_on, new, u)
    <3>1. old[u] \in {"Pending", "Retrying"} /\ DependenciesDone(depends_on, old, u)
      BY <2>1 DEF LaunchPart, old
    <3>2. \A d \in Task : old[d] = "Completed" => new[d] = "Completed"
      BY <1>4, <1>6 DEF Terminal
    <3>. QED
      BY <1>2, <1>6, <2>1, <3>1, <3>2 DEF DependenciesDone, Edges
  <2>2. opened' = NoTask
    BY <1>1 DEF LaunchPart
  <2>. QED
    BY <1>1, <1>8, <2>1, <2>2, TaskAssumption DEF LaunchPart
<1>12. \A u \in Task : new[u] = "Running" <=> old[u] = "Running"
  BY <1>3, <1>4, <1>6 DEF Coherent, DependenciesMet
<1>13. HandlePart'
  <2>1. running = {u \in Task : old[u] = "Running"}
    BY <1>1 DEF HandlePart, old
  <2>. QED
    BY <1>0, <1>1, <1>8, <1>12, <2>1 DEF HandlePart
<1>14. FinishPart'
  <2>1. \A u \in Task : new[u] # "Queued"
    BY <1>1, <1>6 DEF FinishPart, old
  <2>. QED
    BY <1>0, <1>1, <1>8, <2>1 DEF FinishPart
<1>15. CoherentPart'
  BY <1>1, <1>7, <1>8 DEF CoherentPart, DiskCoherent
<1>17. ConcurrencyLimit'
  <2>1. Cardinality(batch') = Cardinality(batch) - 1
    BY <1>1, Parts, FS_RemoveElement
  <2>. QED
    BY <1>1, <2>1, Parts, LimitAssumption DEF ConcurrencyLimit
<1>18. ShutdownPart'
  BY <1>1 DEF ShutdownPart
<1>19. ASSUME InTime PROVE InTime'
  <2>1. old = disk.task /\ mem.attempt_count = disk.attempt_count
    BY <1>1, <1>19 DEF InTime, CopyPart, TypeOK, RunRecord, old
  <2>2. CopyPart'
    BY <1>1, <1>8 DEF CopyPart, RunRecord
  <2>3. AttemptPart'
    BY <1>1, <1>6, <1>8, <1>19, <2>1 DEF InTime, AttemptPart, AttemptsLeft
  <2>4. LockPart' /\ DetectPart'
    BY <1>1, <1>19, NobodyLooks DEF InTime, LockPart, Working
  <2>. QED
    BY <2>2, <2>3, <2>4 DEF InTime
<1>. QED
  BY <1>9, <1>10, <1>13, <1>14, <1>15, <1>17, <1>18, <1>19

LEMMA SpawnAttemptInv ==
  ASSUME IInv, SpawnAttempt
  PROVE  IInv'
<1> USE DEF IInv, SpawnAttempt, control, detection
<1> DEFINE new == [mem.task EXCEPT ![opened] = "Running"]
<1>1. /\ depends_on' = depends_on /\ running' = running \cup {opened} /\ opened' = NoTask
      /\ pc = "spawn" /\ pc' = "launch" /\ batch' = batch /\ disk' = mem'
  OBVIOUS
<1>2. /\ depends_on \in Edges /\ mem.task \in States /\ mem.state = "Running"
      /\ mem.attempt_count \in [Task -> Nat] /\ Coherent(depends_on, mem.task)
  BY <1>1, Parts DEF HandlePart, CoherentPart
<1>3. /\ opened \in Task /\ opened \notin batch
      /\ mem.task[opened] \in {"Pending", "Retrying"}
      /\ DependenciesDone(depends_on, mem.task, opened)
  BY <1>1 DEF LaunchPart, TypeOK
<1>4. new \in States /\ Coherent(depends_on, new)
  BY <1>2, <1>3, StartCoherent
<1>5. /\ mem' \in RunRecord /\ mem'.task = new /\ mem'.state = mem.state
      /\ mem'.attempt_count = [mem.attempt_count EXCEPT ![opened] = @ + 1]
  <2>1. new \in [Task -> TaskState]
    BY <1>4 DEF States
  <2>2. [mem.attempt_count EXCEPT ![opened] = @ + 1] \in [Task -> Nat]
    BY <1>2, <1>3
  <2>3. mem' = [mem EXCEPT !.task = new,
                          !.attempt_count = [mem.attempt_count EXCEPT ![opened] = @ + 1]]
    BY DEF TypeOK, RunRecord
  <2>. HIDE DEF new
  <2>. QED
    BY <2>1, <2>2, <2>3 DEF TypeOK, RunRecord
<1>6. TypeOK'
  BY <1>1, <1>3, <1>5 DEF TypeOK, Control
<1>7. LaunchPart'
  <2>1. ASSUME NEW u \in batch
        PROVE  new[u] \in {"Pending", "Retrying"} /\ DependenciesDone(depends_on, new, u)
    <3>1. /\ u \in Task /\ u # opened
          /\ mem.task[u] \in {"Pending", "Retrying"} /\ DependenciesDone(depends_on, mem.task, u)
      BY <1>3, <2>1 DEF LaunchPart, TypeOK
    <3>2. \A d \in Task : mem.task[d] = "Completed" => new[d] = "Completed"
      BY <1>2, <1>3 DEF States
    <3>. QED
      BY <1>2, <1>3, <3>1, <3>2 DEF DependenciesDone, Edges, States
  <2>. QED
    BY <1>1, <1>5, <2>1, TaskAssumption DEF LaunchPart, TypeOK
<1>8. HandlePart'
  <2>1. running = {u \in Task : mem.task[u] = "Running"}
    BY <1>1 DEF HandlePart
  <2>2. running' = {u \in Task : new[u] = "Running"}
    BY <1>1, <1>2, <1>3, <2>1 DEF States
  <2>. QED
    BY <1>1, <1>2, <1>5, <2>2 DEF HandlePart
<1>9. FinishPart'
  <2>1. \A u \in Task : new[u] # "Queued"
    BY <1>1, <1>2 DEF FinishPart, States
  <2>. QED
    BY <1>1, <1>2, <1>5, <2>1 DEF FinishPart
<1>10. CoherentPart'
  BY <1>1, <1>4, <1>5 DEF CoherentPart, DiskCoherent
<1>11. ConcurrencyLimit'
  <2>1. opened \notin running /\ opened # NoTask
    BY <1>1, <1>3, TaskAssumption DEF HandlePart
  <2>2. Cardinality(running') = Cardinality(running) + 1
    BY <1>1, <2>1, Parts, FS_AddElement
  <2>. QED
    BY <1>1, <2>1, <2>2, Parts, LimitAssumption DEF ConcurrencyLimit
<1>12. ShutdownPart'
  BY <1>1 DEF ShutdownPart
<1>13. ASSUME InTime PROVE InTime'
  <2>0. mem.task = disk.task /\ mem.attempt_count = disk.attempt_count
    BY <1>1, <1>13 DEF InTime, CopyPart
  <2>1. AttemptsLeft(mem.task, mem.attempt_count)
    BY <1>13, <2>0 DEF InTime, AttemptPart
  <2>2. mem.attempt_count[opened] + 1 <= MaxAttempts + restarts
    BY <1>2, <1>3, <2>1, LimitAssumption DEF AttemptsLeft, TypeOK
  <2>3. new[opened] = "Running" /\ mem'.attempt_count[opened] <= MaxAttempts + restarts
    BY <1>2, <1>3, <1>5, <2>2 DEF States
  <2>4. \A u \in Task \ {opened} : new[u] = mem.task[u]
                                   /\ mem'.attempt_count[u] = mem.attempt_count[u]
    BY <1>2, <1>3, <1>5 DEF States
  <2>. HIDE DEF new
  <2>5. AttemptsLeft(mem.task, mem.attempt_count)'
    BY <1>1, <1>5, <2>1, <2>3, <2>4 DEF AttemptsLeft
  <2>6. AttemptPart'
    BY <1>1, <2>5 DEF AttemptPart, AttemptsLeft
  <2>7. CopyPart'
    BY <1>1, <1>2, <1>5 DEF CopyPart, RunRecord
  <2>8. LockPart' /\ DetectPart'
    BY <1>1, <1>13, NobodyLooks DEF InTime, LockPart, Working
  <2>. QED
    BY <2>6, <2>7, <2>8 DEF InTime
<1>. QED
  BY <1>6, <1>7, <1>8, <1>9, <1>10, <1>11, <1>12, <1>13

LEMMA AbandonRestInv ==
  ASSUME IInv, AbandonRest
  PROVE  IInv'
<1> USE DEF IInv, AbandonRest, control, detection
<1>1. /\ depends_on' = depends_on /\ disk' = disk /\ running' = running /\ running = {}
      /\ pc = "loop" /\ pc' = "finalize" /\ batch' = batch /\ opened' = opened
  OBVIOUS
<1>2. depends_on \in Edges /\ mem.task \in States /\ mem.state = "Running"
  BY <1>1, Parts DEF HandlePart
<1>3. /\ mem' \in RunRecord /\ mem'.task = CancelRest(mem.task)
      /\ mem'.attempt_count = mem.attempt_count /\ mem'.state = mem.state
  <2>1. CancelRest(mem.task) \in [Task -> TaskState]
    BY <1>2, CancelRestType DEF States
  <2>2. mem' = [mem EXCEPT !.task = CancelRest(mem.task)]
    OBVIOUS
  <2>. QED
    BY <2>1, <2>2 DEF TypeOK, RunRecord
<1>4. TypeOK'
  BY <1>1, <1>3 DEF TypeOK, Control
<1>5. LaunchPart' /\ ShutdownPart'
  BY <1>1, TaskAssumption DEF LaunchPart, ShutdownPart
<1>6. HandlePart' /\ FinishPart'
  <2>1. \A t \in Task : mem'.task[t] \in Terminal
    BY <1>3 DEF CancelRest, Terminal
  <2>. QED
    BY <1>1, <1>2, <1>3, <2>1 DEF HandlePart, FinishPart, IsComplete, Terminal
<1>7. CoherentPart'
  BY <1>1, <1>2, <1>3, CancelRestCoherent DEF CoherentPart, DiskCoherent
<1>8. ConcurrencyLimit'
  BY <1>1 DEF ConcurrencyLimit
<1>9. ASSUME InTime PROVE InTime'
  <2>1. mem.task = disk.task /\ mem.attempt_count = disk.attempt_count
    BY <1>1, <1>9 DEF InTime, CopyPart, TypeOK, RunRecord
  <2>2. CopyPart'
    BY <1>1, <1>3, <2>1 DEF CopyPart
  <2>3. AttemptPart'
    BY <1>1, <1>9 DEF InTime, AttemptPart, AttemptsLeft
  <2>4. LockPart' /\ DetectPart'
    BY <1>1, <1>9, NobodyLooks DEF InTime, LockPart, Working
  <2>. QED
    BY <2>2, <2>3, <2>4 DEF InTime
<1>. QED
  BY <1>4, <1>5, <1>6, <1>7, <1>8, <1>9

LEMMA CollectOutcomeInv ==
  ASSUME IInv, NEW t \in Task, CollectOutcome(t)
  PROVE  IInv'
<1> USE DEF IInv, CollectOutcome, detection
<1>1. /\ depends_on' = depends_on /\ disk' = disk /\ running' = running \ {t} /\ t \in running
      /\ pc = "wait" /\ pc' = "save" /\ batch' = batch /\ opened' = opened
      /\ lock' = lock /\ cancel' = cancel /\ restarts' = restarts
  OBVIOUS
<1>2. /\ depends_on \in Edges /\ mem.task \in States
      /\ mem.state = "Running" /\ mem.attempt_count \in [Task -> Nat]
  BY <1>1, Parts DEF HandlePart
<1>3. mem.task[t] = "Running" /\ running = {u \in Task : mem.task[u] = "Running"}
  BY <1>1 DEF HandlePart
<1>4. /\ mem' \in RunRecord
      /\ mem'.state = mem.state /\ mem'.attempt_count = mem.attempt_count
      /\ \/ mem'.task = [mem.task EXCEPT ![t] = "Completed"]
         \/ /\ mem'.task = [mem.task EXCEPT ![t] = "Retrying"]
            /\ mem.attempt_count[t] + 1 <= MaxAttempts
         \/ mem'.task = FailTask(depends_on, mem.task, t)
      /\ cooling' \in SUBSET Task
      /\ announced' \in [Task -> {"none", "Completed", "Failed"}]
  BY OutcomeEffect
<1>5. Coherent(depends_on, mem.task) /\ DependenciesDone(depends_on, mem.task, t)
      /\ mem.task[t] \notin Terminal
  BY <1>1, <1>3 DEF CoherentPart, Coherent, DependenciesMet, Terminal
\* The task leaves Running, and no other task enters or leaves it.
<1>6. /\ mem'.task[t] \in {"Completed", "Retrying", "Failed"}
      /\ \A u \in Task \ {t} :
           \/ mem'.task[u] = mem.task[u]
           \/ mem'.task[u] = "Cancelled" /\ mem.task[u] # "Running"
  <2>1. CASE mem'.task = FailTask(depends_on, mem.task, t)
    <3>1. \A u \in Task : mem.task[u] = "Running" => DependenciesDone(depends_on, mem.task, u)
      BY <1>5 DEF Coherent, DependenciesMet
    <3>. QED
      BY <1>2, <1>5, <2>1, <3>1, FailTaskEffect
  <2>2. ASSUME NEW s \in {"Completed", "Retrying"}, mem'.task = [mem.task EXCEPT ![t] = s]
        PROVE  mem'.task[t] = s /\ \A u \in Task \ {t} : mem'.task[u] = mem.task[u]
    BY <1>2, <2>2 DEF States
  <2>. QED BY <1>4, <2>1, <2>2
<1>7. TypeOK'
  BY <1>1, <1>4 DEF TypeOK, Control
<1>8. LaunchPart' /\ ShutdownPart'
  BY <1>1, TaskAssumption DEF LaunchPart, ShutdownPart
<1>9. HandlePart'
  <2>1. running' = {u \in Task : mem'.task[u] = "Running"}
    BY <1>1, <1>3, <1>6
  <2>. QED
    BY <1>1, <1>2, <1>4, <2>1 DEF HandlePart
<1>10. FinishPart'
  <2>1. \A u \in Task : mem'.task[u] # "Queued"
    BY <1>1, <1>6 DEF FinishPart
  <2>. QED
    BY <1>1, <2>1 DEF FinishPart
<1>11. CoherentPart'
  <2>1. Coherent(depends_on, FailTask(depends_on, mem.task, t))
    BY <1>2, <1>5, FailCoherent
  <2>2. ASSUME NEW s \in {"Completed", "Retrying"}, mem'.task = [mem.task EXCEPT ![t] = s]
        PROVE  Coherent(depends_on, mem'.task)
    <3>1. Coherent(depends_on, [mem.task EXCEPT ![t] = s])
      BY <1>2, <1>3, <1>5, SettleCoherent
    <3>. QED BY <2>2, <3>1
  <2>. QED
    BY <1>1, <1>4, <2>1, <2>2 DEF CoherentPart, DiskCoherent
<1>12. ConcurrencyLimit'
  <2>1. Cardinality(running') = Cardinality(running) - 1
    BY <1>1, Parts, FS_RemoveElement
  <2>. QED
    BY <1>1, <2>1, Parts, LimitAssumption DEF ConcurrencyLimit
<1>13. ASSUME InTime PROVE InTime'
  <2>0. mem.task = disk.task /\ mem.attempt_count = disk.attempt_count
    BY <1>1, <1>13 DEF InTime, CopyPart, TypeOK, RunRecord
  <2>1. AttemptsLeft(mem.task, mem.attempt_count)
    BY <1>13, <2>0 DEF InTime, AttemptPart
  <2>2. mem'.task[t] = "Retrying" => mem.attempt_count[t] + 1 <= MaxAttempts
    BY <1>2, <1>4, FailTaskEffect, <1>5 DEF States
  <2>3. AttemptsLeft(mem.task, mem.attempt_count)'
    BY <1>1, <1>4, <1>6, <2>1, <2>2 DEF AttemptsLeft
  <2>4. AttemptsLeft(disk.task, disk.attempt_count)'
    BY <1>1, <1>13 DEF InTime, AttemptPart, AttemptsLeft
  <2>5. OneVerdictAhead'
    BY <1>1, <1>2, <1>3, <1>4, <2>0 DEF OneVerdictAhead
  <2>6. CopyPart'
    BY <1>1, <1>4, <2>0, <2>5 DEF CopyPart
  <2>7. LockPart' /\ DetectPart'
    BY <1>1, <1>13, NobodyLooks DEF InTime, LockPart, Working
  <2>. QED
    BY <2>3, <2>4, <2>6, <2>7 DEF InTime, AttemptPart
<1>. QED
  BY <1>7, <1>8, <1>9, <1>10, <1>11, <1>12, <1>13

LEMMA SaveOutcomeInv ==
  ASSUME IInv, SaveOutcome
  PROVE  IInv'
<1> USE DEF IInv, SaveOutcome, control, detection
<1>1. /\ depends_on' = depends_on /\ mem' = mem /\ disk' = mem /\ running' = running
      /\ pc = "save" /\ pc' = "loop" /\ batch' = batch /\ opened' = opened
  OBVIOUS
<1>2. TypeOK'
  BY <1>1 DEF TypeOK, Control
<1>3. LaunchPart' /\ ShutdownPart' /\ ConcurrencyLimit'
  BY <1>1, TaskAssumption DEF LaunchPart, ShutdownPart, ConcurrencyLimit
<1>4. mem.state = "Running"
  BY <1>1 DEF HandlePart
<1>5. HandlePart' /\ FinishPart'
  BY <1>1, <1>4 DEF HandlePart, FinishPart
<1>6. CoherentPart'
  BY <1>1 DEF CoherentPart, DiskCoherent
<1>7. ASSUME InTime PROVE InTime'
  <2>1. CopyPart'
    BY <1>1, <1>4 DEF CopyPart, TypeOK, RunRecord
  <2>2. AttemptPart'
    BY <1>1, <1>7 DEF InTime, AttemptPart, AttemptsLeft
  <2>3. LockPart' /\ DetectPart'
    BY <1>1, <1>7, NobodyLooks DEF InTime, LockPart, Working
  <2>. QED
    BY <2>1, <2>2, <2>3 DEF InTime
<1>. QED
  BY <1>2, <1>3, <1>5, <1>6, <1>7

\* While the children are drained only the memory copy changes, and it is dropped.
LEMMA DrainInv ==
  ASSUME IInv, Drain
  PROVE  IInv'
<1> USE DEF IInv, detection
<1>1. PICK t \in Task : DrainOutcome(t) \/ DrainTimeout(t)
  BY DEF Drain
<1>2. /\ depends_on' = depends_on /\ disk' = disk /\ running' = running \ {t} /\ t \in running
      /\ pc = "drain" /\ pc' = pc /\ batch' = batch /\ opened' = opened
      /\ lock' = lock /\ cancel' = cancel /\ restarts' = restarts
      /\ probe' = probe /\ copy' = copy /\ overtaken' = overtaken
  BY <1>1 DEF DrainOutcome, DrainTimeout
<1>3. /\ mem' \in RunRecord /\ cooling' \in SUBSET Task
      /\ announced' \in [Task -> {"none", "Completed", "Failed"}]
  <2>1. CASE DrainOutcome(t)
    BY <2>1, OutcomeEffect DEF DrainOutcome
  <2>2. CASE DrainTimeout(t)
    <3>1. [mem.task EXCEPT ![t] = "Pending"] \in [Task -> TaskState]
      BY DEF TypeOK, RunRecord, TaskState
    <3>2. mem' = [mem EXCEPT !.task = [mem.task EXCEPT ![t] = "Pending"]]
      BY <2>2 DEF DrainTimeout, TypeOK, RunRecord
    <3>. QED
      BY <2>2, <3>1, <3>2 DEF DrainTimeout, TypeOK, RunRecord
  <2>. QED BY <1>1, <2>1, <2>2
<1>4. TypeOK'
  BY <1>2, <1>3 DEF TypeOK
<1>5. LaunchPart' /\ ShutdownPart'
  BY <1>2, TaskAssumption DEF LaunchPart, ShutdownPart
<1>6. HandlePart' /\ FinishPart' /\ CoherentPart'
  BY <1>2 DEF HandlePart, FinishPart, CoherentPart, DiskCoherent
<1>7. ConcurrencyLimit'
  <2>1. Cardinality(running') = Cardinality(running) - 1
    BY <1>2, Parts, FS_RemoveElement
  <2>. QED
    BY <1>2, <2>1, Parts, LimitAssumption DEF ConcurrencyLimit
<1>8. ASSUME InTime PROVE InTime'
  <2>1. CopyPart' /\ AttemptPart' /\ LockPart'
    BY <1>2, <1>8 DEF InTime, CopyPart, AttemptPart, AttemptsLeft, LockPart, Working
  <2>2. DetectPart'
    BY <1>2, <1>8, NobodyLooks DEF InTime, Working
  <2>. QED
    BY <2>1, <2>2 DEF InTime
<1>. QED
  BY <1>2, <1>4, <1>5, <1>6, <1>7, <1>8

\* The file is marked Interrupted, or, if it cannot be saved, stays as it is.
LEMMA GracefulShutdownInv ==
  ASSUME IInv, GracefulShutdown
  PROVE  IInv'
<1> USE DEF IInv, GracefulShutdown, control, detection
<1>1. /\ depends_on' = depends_on /\ running' = running /\ running = {} /\ mem' = disk'
      /\ pc = "drain" /\ pc' = "release" /\ batch' = batch /\ opened' = opened
      /\ lock' = lock /\ cancel' = cancel /\ restarts' = restarts + 1
  OBVIOUS
<1>2. \/ disk' = disk
      \/ /\ disk' \in RunRecord /\ disk'.state = "Interrupted"
         /\ disk'.task = Requeue(disk.task) /\ disk'.attempt_count = disk.attempt_count
  <2>1. Requeue(disk.task) \in [Task -> TaskState]
    BY Parts, RequeueType DEF States
  <2>2. disk' = disk \/ disk' = [disk EXCEPT !.state = "Interrupted", !.task = Requeue(disk.task)]
    OBVIOUS
  <2>. QED
    BY <2>1, <2>2 DEF TypeOK, RunRecord, RunState
<1>3. /\ disk' \in RunRecord /\ disk'.attempt_count = disk.attempt_count
      /\ disk'.state \in {disk.state, "Interrupted"}
      /\ \A t \in Task : disk'.task[t] \in {disk.task[t], "Pending"}
      /\ \A t \in Task : disk'.task[t] = "Pending" => disk.task[t] \in {"Pending", "Running", "Queued"}
      /\ disk'.state # "Running" => \A t \in Task : disk'.task[t] # "Running"
      /\ disk'.state = "Finished" => disk' = disk
  BY <1>2 DEF Requeue, TypeOK, HandlePart
<1>4. restarts \in Nat /\ restarts < MaxRestarts
  BY <1>1, LimitAssumption DEF ShutdownPart, TypeOK
<1>5. TypeOK'
  BY <1>1, <1>3, <1>4, LimitAssumption DEF TypeOK, Control
<1>6. LaunchPart' /\ ShutdownPart'
  BY <1>1, TaskAssumption DEF LaunchPart, ShutdownPart
<1>7. HandlePart'
  BY <1>1, <1>3 DEF HandlePart
<1>8. FinishPart'
  BY <1>1, <1>3 DEF FinishPart
<1>9. CoherentPart'
  <2>1. Coherent(depends_on, disk'.task)
    BY <1>2, Parts, RequeueCoherent DEF CoherentPart, DiskCoherent
  <2>. QED
    BY <1>1, <2>1 DEF CoherentPart, DiskCoherent
<1>10. ConcurrencyLimit'
  BY <1>1 DEF ConcurrencyLimit
<1>11. ASSUME InTime PROVE InTime'
  <2>1. CopyPart'
    BY <1>1, <1>3 DEF CopyPart, RunRecord
  <2>2. AttemptPart'
    <3>1. \A t \in Task : disk.attempt_count[t] \in Nat
      BY Parts
    <3>2. /\ restarts' = restarts + 1 /\ MaxAttempts \in Nat
          /\ \A t \in Task : disk.attempt_count[t] <= MaxAttempts + restarts
      BY <1>1, <1>11, LimitAssumption DEF InTime, AttemptPart, AttemptsLeft
    <3>3. \A t \in Task : disk'.attempt_count[t] + 1 <= MaxAttempts + restarts'
      BY <1>3, <1>4, <3>1, <3>2
    <3>4. \A t \in Task : disk'.task[t] = "Retrying" => disk'.attempt_count[t] + 1 <= MaxAttempts
      BY <1>3, <1>11 DEF InTime, AttemptPart, AttemptsLeft
    <3>5. \A t \in Task : disk'.attempt_count[t] <= MaxAttempts + restarts'
      BY <1>3, <1>4, <3>1, <3>2
    <3>. QED
      BY <1>1, <3>3, <3>4, <3>5 DEF AttemptPart, AttemptsLeft
  <2>3. LockPart' /\ DetectPart'
    BY <1>1, <1>11, NobodyLooks DEF InTime, LockPart, Working
  <2>. QED
    BY <2>1, <2>2, <2>3 DEF InTime
<1>. QED
  BY <1>5, <1>6, <1>7, <1>8, <1>9, <1>10, <1>11

LEMMA FinishRunInv ==
  ASSUME IInv, FinishRun
  PROVE  IInv'
<1> USE DEF IInv, FinishRun, control, detection
<1>1. /\ depends_on' = depends_on /\ running' = running /\ disk' = mem'
      /\ pc = "finalize" /\ pc' = "release" /\ batch' = batch /\ opened' = opened
  OBVIOUS
<1>2. /\ mem' \in RunRecord /\ mem'.state = "Finished"
      /\ mem'.task = mem.task /\ mem'.attempt_count = mem.attempt_count
  BY <1>1 DEF TypeOK, RunRecord, RunState
<1>3. \A t \in Task : mem.task[t] \in Terminal
  BY <1>1 DEF FinishPart, IsComplete
<1>4. TypeOK'
  BY <1>1, <1>2 DEF TypeOK, Control
<1>5. LaunchPart' /\ ShutdownPart'
  BY <1>1, TaskAssumption DEF LaunchPart, ShutdownPart
<1>6. HandlePart' /\ FinishPart'
  BY <1>1, <1>2, <1>3 DEF HandlePart, FinishPart, IsComplete, Terminal
<1>7. CoherentPart'
  BY <1>1, <1>2 DEF CoherentPart, DiskCoherent
<1>8. ConcurrencyLimit'
  BY <1>1 DEF ConcurrencyLimit
<1>9. ASSUME InTime PROVE InTime'
  <2>1. CopyPart'
    BY <1>1, <1>2 DEF CopyPart, RunRecord
  <2>2. mem.attempt_count = disk.attempt_count
    BY <1>1, <1>9 DEF InTime, CopyPart
  <2>3. AttemptPart'
    BY <1>1, <1>2, <1>3, <1>9, <2>2 DEF InTime, AttemptPart, AttemptsLeft, Terminal
  <2>4. LockPart' /\ DetectPart'
    BY <1>1, <1>9, NobodyLooks DEF InTime, LockPart, Working
  <2>. QED
    BY <2>1, <2>3, <2>4 DEF InTime
<1>. QED
  BY <1>4, <1>5, <1>6, <1>7, <1>8, <1>9

LEMMA CrashInv ==
  ASSUME IInv, Crash
  PROVE  IInv'
<1> USE DEF IInv, Crash, detection
<1>1. /\ depends_on' = depends_on /\ disk' = disk /\ mem' = disk
      /\ running' = {} /\ batch' = {} /\ opened' = NoTask
      /\ pc # "down" /\ pc' = "down" /\ cancel' = FALSE /\ restarts' = restarts + 1
  OBVIOUS
<1>2. restarts \in Nat /\ restarts < MaxRestarts
  BY LimitAssumption DEF TypeOK
<1>3. TypeOK'
  <2>1. restarts' \in 0 .. MaxRestarts
    BY <1>1, <1>2, LimitAssumption
  <2>2. lock' \in {"none", "live", "stale"} /\ cooling' = cooling /\ announced' = announced
    BY DEF TypeOK
  <2>. QED
    BY <1>1, <2>1, <2>2 DEF TypeOK, Control
<1>4. LaunchPart' /\ ShutdownPart'
  BY <1>1, TaskAssumption DEF LaunchPart, ShutdownPart
<1>5. HandlePart' /\ FinishPart' /\ CoherentPart'
  BY <1>1 DEF HandlePart, FinishPart, CoherentPart, DiskCoherent
<1>6. ConcurrencyLimit'
  BY <1>1, LimitAssumption, FS_EmptySet DEF ConcurrencyLimit
<1>7. ASSUME InTime PROVE InTime'
  <2>1. \A t \in Task : disk.attempt_count[t] \in Nat
    BY Parts
  <2>2. AttemptPart'
    BY <1>1, <1>2, <1>7, <2>1, LimitAssumption DEF InTime, AttemptPart, AttemptsLeft
  <2>3. CopyPart' /\ LockPart' /\ DetectPart'
    BY <1>1, <1>7 DEF InTime, CopyPart, LockPart, DetectPart, Working
  <2>. QED
    BY <2>2, <2>3 DEF InTime
<1>. QED
  BY <1>3, <1>4, <1>5, <1>6, <1>7
-------------------------------------------------------------------------------
(***************************************************************************)
(* detect_crashed_runs.                                                    *)
(***************************************************************************)

\* Marking a run as crashed once more changes nothing.
LEMMA RecoveredTwice ==
  ASSUME NEW r \in RunRecord
  PROVE  /\ Recovered(r) \in RunRecord /\ Recovered(Recovered(r)) = Recovered(r)
         /\ Recovered(r).state = "Crashed" /\ Recovered(r).task = Requeue(r.task)
         /\ Recovered(r).attempt_count = r.attempt_count
         /\ Recovered(r).global_retries_used = r.global_retries_used
<1>1. r.task \in States
  BY DEF RunRecord, States
<1>2. Requeue(r.task) \in [Task -> TaskState]
  BY <1>1, RequeueType DEF States
<1>3. Requeue(Requeue(r.task)) = Requeue(r.task)
  BY <1>1 DEF Requeue, States
<1>4. Recovered(r) = [r EXCEPT !.state = "Crashed", !.task = Requeue(r.task)]
  BY DEF Recovered
<1>5. /\ Recovered(r) \in RunRecord /\ Recovered(r).state = "Crashed"
      /\ Recovered(r).task = Requeue(r.task) /\ Recovered(r).attempt_count = r.attempt_count
      /\ Recovered(r).global_retries_used = r.global_retries_used
  BY <1>2, <1>4 DEF RunRecord, RunState
<1>6. Recovered(Recovered(r)) = [r EXCEPT !.state = "Crashed", !.task = Requeue(Requeue(r.task))]
  BY <1>2, <1>4 DEF Recovered, RunRecord
<1>. QED
  BY <1>3, <1>4, <1>5, <1>6

\* All steps of a detector but the save leave both copies alone.  It begins only where
\* nobody works on the run.
LEMMA DetectorMoves ==
  ASSUME IInv, NEW d \in Detector,
         DetectStale(d) \/ DetectLoad(d) \/ DetectRelease(d) \/ DetectEnds(d)
  PROVE  IInv'
<1> USE DEF IInv, DetectStale, DetectLoad, DetectRelease, DetectEnds, aside, control
<1>1. /\ UNCHANGED <<depends_on, mem, pc, batch, opened, running, cooling, cancel, announced,
                     restarts, overtaken, disk>>
      /\ lock' \in {lock, "none"}
  OBVIOUS
<1>2. Created \in RunRecord /\ Coherent(depends_on, Created.task)
      /\ \A t \in Task : Created.task[t] # "Queued"
  BY DEF Created, RunRecord, RunState, TaskState, Coherent, DependenciesMet, FailuresPropagated, TypeOK
<1>3. /\ copy' \in [Detector -> RunRecord]
      /\ probe' \in [Detector -> {"idle", "stale", "loaded", "saved"}]
      /\ \A e \in Detector : copy'[e] \in {copy[e], disk, Created}
      /\ \A e \in Detector \ {d} : probe'[e] = probe[e] /\ copy'[e] = copy[e]
  BY <1>2 DEF TypeOK
<1>4. TypeOK'
  BY <1>1, <1>3 DEF TypeOK
<1>5. ShutdownPart' /\ LaunchPart' /\ HandlePart' /\ FinishPart' /\ ConcurrencyLimit'
  BY <1>1 DEF ShutdownPart, LaunchPart, HandlePart, FinishPart, ConcurrencyLimit
<1>6. CoherentPart'
  BY <1>1, <1>2, <1>3 DEF CoherentPart, DiskCoherent, FinishPart
<1>7. ASSUME InTime PROVE InTime'
  <2>1. CopyPart' /\ AttemptPart'
    BY <1>1, <1>7 DEF InTime, CopyPart, OneVerdictAhead, AttemptPart, AttemptsLeft
  <2>2. ~ Working
    BY <1>7 DEF InTime, LockPart, DetectPart, TypeOK
  <2>3. LockPart'
    BY <1>1, <2>2 DEF LockPart, Working
  <2>4. probe'[d] = "loaded" => copy'[d] = disk
    BY DEF TypeOK
  <2>5. DetectPart'
    BY <1>1, <1>3, <1>7, <2>2, <2>4 DEF InTime, DetectPart, Working
  <2>. QED
    BY <2>1, <2>3, <2>5 DEF InTime
<1>. QED
  BY <1>1, <1>4, <1>5, <1>6, <1>7

\* A detector in time saves what the file would be anyway; one that is late puts an older
\* file in its place, which is coherent too.
LEMMA DetectSaveInv ==
  ASSUME IInv, NEW d \in Detector, DetectSave(d)
  PROVE  IInv'
<1> USE DEF IInv, DetectSave, aside, control
<1>1. /\ UNCHANGED <<depends_on, mem, pc, batch, opened, running, cooling, cancel, announced,
                     restarts, overtaken, lock>>
      /\ disk' = disk \/ disk' = Recovered(copy[d])
      /\ probe[d] = "loaded"
  OBVIOUS
<1>2. Created \in RunRecord /\ Coherent(depends_on, Created.task)
      /\ \A t \in Task : Created.task[t] # "Queued"
  BY DEF Created, RunRecord, RunState, TaskState, Coherent, DependenciesMet, FailuresPropagated, TypeOK
<1>3. /\ copy' \in [Detector -> RunRecord]
      /\ probe' \in [Detector -> {"idle", "stale", "loaded", "saved"}]
      /\ \A e \in Detector : copy'[e] \in {copy[e], Created}
      /\ \A e \in Detector \ {d} : probe'[e] = probe[e] /\ copy'[e] = copy[e]
      /\ probe'[d] = "saved"
  BY <1>2 DEF TypeOK
<1>4. copy[d] \in RunRecord /\ copy[d].task \in States /\ depends_on \in Edges
  BY DEF TypeOK, RunRecord, States, Edges
<1>5. /\ Recovered(copy[d]) \in RunRecord /\ Recovered(copy[d]).state = "Crashed"
      /\ Recovered(copy[d]).task = Requeue(copy[d].task)
  BY <1>4, RecoveredTwice
<1>6. /\ Coherent(depends_on, Recovered(copy[d]).task)
      /\ \A t \in Task : Recovered(copy[d]).task[t] \notin {"Running", "Queued"}
  BY <1>4, <1>5, RequeueCoherent DEF CoherentPart, Requeue
<1>. HIDE DEF Recovered
<1>7. TypeOK'
  BY <1>1, <1>3, <1>5 DEF TypeOK
<1>8. ShutdownPart' /\ LaunchPart' /\ ConcurrencyLimit'
  BY <1>1 DEF ShutdownPart, LaunchPart, ConcurrencyLimit
<1>9. HandlePart' /\ FinishPart'
  BY <1>1, <1>5, <1>6 DEF HandlePart, FinishPart
<1>10. CoherentPart'
  BY <1>1, <1>2, <1>3, <1>6 DEF CoherentPart, DiskCoherent
<1>11. ASSUME InTime PROVE InTime'
  <2>1. ~ Working /\ Recovered(copy[d]) = Recovered(disk)
    BY <1>1, <1>11 DEF InTime, DetectPart
  <2>2. /\ Recovered(disk).state = "Crashed" /\ Recovered(disk).task = Requeue(disk.task)
        /\ Recovered(disk).attempt_count = disk.attempt_count
        /\ Recovered(Recovered(disk)) = Recovered(disk)
    BY RecoveredTwice DEF TypeOK
  <2>3. disk' = disk \/ disk' = Recovered(disk)
    BY <1>1, <2>1
  <2>4. pc \in {"down", "load", "lock"}
    BY <2>1 DEF Working
  <2>5. CopyPart'
    <3>1. CASE pc = "lock"
      <4>1. disk = [mem EXCEPT !.state = disk.state]
        BY <1>11, <3>1 DEF InTime, CopyPart
      <4>2. \A t \in Task : disk.task[t] \notin {"Running", "Queued"}
        BY <3>1, <4>1 DEF HandlePart, FinishPart, TypeOK, RunRecord
      <4>3. Requeue(disk.task) = disk.task
        BY <4>2, Parts DEF Requeue, States
      <4>4. Recovered(disk) = [mem EXCEPT !.state = "Crashed"]
        BY <4>1, <4>3 DEF Recovered, TypeOK, RunRecord
      <4>5. disk' = [mem' EXCEPT !.state = disk'.state]
        BY <1>1, <2>2, <2>3, <4>1, <4>4
      <4>. QED
        BY <1>1, <3>1, <4>5 DEF CopyPart
    <3>2. CASE pc \in {"down", "load"}
      BY <1>1, <3>2 DEF CopyPart
    <3>. QED BY <2>4, <3>1, <3>2
  <2>6. AttemptPart'
    <3>1. pc \in {"load", "lock"} => \A t \in Task : disk.task[t] # "Running"
      BY <1>11 DEF InTime, CopyPart, HandlePart, TypeOK, RunRecord
    <3>2. \A t \in Task : disk.task[t] # "Queued"
      BY DEF FinishPart
    <3>3. \A t \in Task : Requeue(disk.task)[t] = IF disk.task[t] \in {"Running", "Queued"}
                                                   THEN "Pending" ELSE disk.task[t]
      BY DEF Requeue
    <3>4. \A t \in Task :
             \/ disk'.task[t] = disk.task[t]
             \/ disk'.task[t] = "Pending" /\ disk.task[t] = "Running" /\ pc = "down"
      <4>1. CASE disk' = disk
        BY <4>1
      <4>2. CASE disk' = Recovered(disk)
        <5>1. disk'.task = Requeue(disk.task)
          BY <2>2, <4>2
        <5>. QED
          BY <2>4, <3>1, <3>2, <3>3, <5>1
      <4>. QED BY <2>3, <4>1, <4>2
    <3>5. disk'.attempt_count = disk.attempt_count
      BY <2>2, <2>3
    <3>. QED
      BY <1>1, <1>11, <2>4, <3>4, <3>5 DEF InTime, AttemptPart, AttemptsLeft
  <2>7. LockPart'
    BY <1>1, <2>1 DEF LockPart, Working
  <2>8. Recovered(disk') = Recovered(disk)
    BY <2>2, <2>3
  <2>9. DetectPart'
    BY <1>1, <1>3, <1>11, <2>1, <2>8 DEF InTime, DetectPart, Working
  <2>. QED
    BY <2>5, <2>6, <2>7, <2>9 DEF InTime
<1>. QED
  BY <1>1, <1>7, <1>8, <1>9, <1>10, <1>11
-------------------------------------------------------------------------------
LEMMA StepInv == IInv /\ [Next]_vars => IInv'
<1> SUFFICES ASSUME IInv, [Next]_vars
             PROVE  IInv'
  OBVIOUS
<1>1. CASE Scheduler
  BY <1>1, LoadStateInv, QuietInv, AbandonRestInv, SelectBatchInv, OpenWorktreeInv,
     WorktreeFailsInv, SpawnAttemptInv, SaveOutcomeInv, GracefulShutdownInv, FinishRunInv
  DEF Scheduler, Quiet
<1>2. CASE Collect
  BY <1>2, CollectOutcomeInv DEF Collect
<1>3. CASE Drain
  BY <1>3, DrainInv
<1>4. CASE Signal \/ \E t \in Task : DelayElapses(t)
  BY <1>4, QuietInv DEF Quiet
<1>5. CASE Crash
  BY <1>5, CrashInv
<1>6. CASE Recover
  BY <1>6, DetectorMoves, DetectSaveInv, QuietInv DEF Recover, Detect, Quiet
<1>7. CASE UNCHANGED vars
  <2>1. TypeOK' /\ ShutdownPart' /\ LaunchPart'
    BY <1>7 DEF IInv, vars, control, detection, TypeOK, ShutdownPart, LaunchPart
  <2>2. HandlePart' /\ FinishPart' /\ ConcurrencyLimit'
    BY <1>7 DEF IInv, vars, control, HandlePart, FinishPart, ConcurrencyLimit
  <2>3. CoherentPart'
    BY <1>7 DEF IInv, vars, detection, CoherentPart, DiskCoherent
  <2>4. ASSUME InTime PROVE InTime'
    <3>1. CopyPart' /\ AttemptPart'
      BY <1>7, <2>4 DEF InTime, vars, control, CopyPart, OneVerdictAhead, AttemptPart, AttemptsLeft
    <3>2. LockPart' /\ DetectPart'
      BY <1>7, <2>4 DEF InTime, vars, detection, LockPart, DetectPart, Working
    <3>. QED
      BY <3>1, <3>2 DEF InTime
  <2>. QED
    BY <1>7, <2>1, <2>2, <2>3, <2>4 DEF IInv, vars, detection
<1>. QED
  BY <1>1, <1>2, <1>3, <1>4, <1>5, <1>6, <1>7 DEF Next

LEMMA Invariance == Spec => []IInv
<1>1. Init => IInv
  BY InitInv
<1>2. IInv /\ [Next]_vars => IInv'
  BY StepInv
<1>. QED
  BY <1>1, <1>2, PTL DEF Spec
-------------------------------------------------------------------------------
(***************************************************************************)
(* What follows from it.                                                   *)
(***************************************************************************)

\* Every variable keeps its type: in particular the records that save_state writes
\* are runs the program can load again.
THEOREM TypeCorrect == Spec => []TypeOK
<1>1. IInv => TypeOK
  BY DEF IInv
<1>. QED
  BY <1>1, Invariance, PTL

\* The file is coherent whatever is interrupted where: ready_tasks, cascade_cancel,
\* the requeue of recovery.rs and the token budget never leave on disk a task started
\* too early or a dependent of a failed task still waiting.
THEOREM DiskAlwaysCoherent == Spec => []DiskCoherent
<1>1. IInv => DiskCoherent
  BY DEF IInv, CoherentPart
<1>. QED
  BY <1>1, Invariance, PTL

\* The loop never has more than max_concurrent children.
THEOREM ConcurrencyLimited == Spec => []ConcurrencyLimit
<1>1. IInv => ConcurrencyLimit
  BY DEF IInv
<1>. QED
  BY <1>1, Invariance, PTL

\* At its two await points the scheduler has saved everything it knows, unless it has
\* taken the lock while a detector was at the run.
THEOREM DiskIsUpToDate == Spec => []DiskTracksMemory
<1>1. IInv => DiskTracksMemory
  <2> SUFFICES ASSUME IInv, pc \in {"loop", "wait"}, ~ overtaken
               PROVE  /\ disk = [mem EXCEPT !.state = disk.state]
                      /\ running = {t \in Task : disk.task[t] = "Running"}
    BY DEF DiskTracksMemory
  <2>1. disk = [mem EXCEPT !.state = disk.state]
    BY DEF IInv, InTime, CopyPart
  <2>2. disk.task = mem.task
    BY <2>1 DEF IInv, TypeOK, RunRecord
  <2>. QED
    BY <2>1, <2>2 DEF IInv, HandlePart
<1>. QED
  BY <1>1, Invariance, PTL

\* A run marked Finished has settled every task.
THEOREM FinishedIsComplete == Spec => []FinishedMeansComplete
<1>1. IInv => FinishedMeansComplete
  BY DEF IInv, FinishPart, FinishedMeansComplete
<1>. QED
  BY <1>1, Invariance, PTL

\* A scheduler that can launch tasks holds the lock, against any number of detectors that
\* look, read, save and release each at its own pace, unless one of them had begun
\* before the lock was taken.
THEOREM LockHeld == Spec => []AliveMeansLocked
<1>1. IInv => AliveMeansLocked
  BY DEF IInv, InTime, LockPart, AliveMeansLocked
<1>. QED
  BY <1>1, Invariance, PTL

\* max_attempts is exceeded by at most one launch per crash or interrupt, as long as no
\* older file has come back.
THEOREM AttemptsAreBounded == Spec => []AttemptsBounded
<1>1. IInv => AttemptsBounded
  BY DEF IInv, InTime, AttemptPart, AttemptsLeft, AttemptsBounded
<1>. QED
  BY <1>1, Invariance, PTL
-------------------------------------------------------------------------------
(***************************************************************************)
(* The file implements the durable contract.                               *)
(***************************************************************************)

\* The instance applies the same operators.
LEMMA SameOperators ==
  ASSUME NEW deps, NEW st, NEW t
  PROVE  /\ Durable!DependenciesDone(deps, st, t) <=> DependenciesDone(deps, st, t)
         /\ Durable!FailTask(deps, st, t) = FailTask(deps, st, t)
         /\ Durable!Requeue(st) = Requeue(st)
         /\ Durable!CancelRest(st) = CancelRest(st)
BY DEF Durable!DependenciesDone, DependenciesDone, Durable!Requeue, Requeue,
       Durable!CancelRest, CancelRest, Durable!FailTask, FailTask,
       Durable!CascadeCancel, CascadeCancel, Durable!Visited, Visited,
       Durable!ClosedUnderDependents, ClosedUnderDependents, Durable!Terminal, Terminal

LEMMA SameCoherence ==
  ASSUME NEW deps, NEW st
  PROVE  Durable!Coherent(deps, st) <=> Coherent(deps, st)
BY DEF Durable!Coherent, Coherent, Durable!DependenciesMet, DependenciesMet,
       Durable!FailuresPropagated, FailuresPropagated, Durable!DependenciesDone, DependenciesDone

\* How one step may change the task states on disk.
DurableStep ==
  /\ depends_on' = depends_on
  /\ \/ disk'.task = disk.task
     \/ \E t \in Task :
          /\ disk.task[t] \in {"Pending", "Retrying"}
          /\ DependenciesDone(depends_on, disk.task, t)
          /\ disk'.task = [disk.task EXCEPT ![t] = "Running"]
     \/ \E t \in Task, s \in {"Completed", "Retrying"} :
          disk.task[t] = "Running" /\ disk'.task = [disk.task EXCEPT ![t] = s]
     \/ \E t \in Task :
          /\ disk.task[t] \in {"Pending", "Running", "Retrying"}
          /\ DependenciesDone(depends_on, disk.task, t)
          /\ disk'.task = FailTask(depends_on, disk.task, t)
     \/ disk'.task = Requeue(disk.task)
     \/ disk'.task = CancelRest(disk.task)

LEMMA EveryStepIsDurable ==
  ASSUME IInv, [Next]_vars, ~ overtaken
  PROVE  DurableStep
<1> USE DEF IInv, InTime
<1>1. CASE LoadState
  BY <1>1 DEF LoadState, DurableStep, TypeOK, RunRecord
<1>2. ASSUME NEW t \in Task, WorktreeFails(t)
      PROVE  DurableStep
  <2>1. mem.task = disk.task /\ depends_on' = depends_on /\ t \in batch
    BY <1>2 DEF WorktreeFails, NextOfBatch, CopyPart, TypeOK, RunRecord
  <2>2. disk.task[t] \in {"Pending", "Retrying"} /\ DependenciesDone(depends_on, disk.task, t)
    BY <2>1 DEF LaunchPart
  <2>3. disk'.task = FailTask(depends_on, disk.task, t)
    <3>1. disk' = [mem EXCEPT !.task = FailTask(depends_on, mem.task, t)]
      BY <1>2 DEF WorktreeFails
    <3>. QED
      BY <2>1, <3>1 DEF TypeOK, RunRecord
  <2>. QED
    BY <2>1, <2>2, <2>3 DEF DurableStep
<1>3. CASE SpawnAttempt
  <2>1. mem.task = disk.task /\ depends_on' = depends_on /\ opened \in Task
    BY <1>3 DEF SpawnAttempt, CopyPart, LaunchPart, TypeOK
  <2>2. disk.task[opened] \in {"Pending", "Retrying"}
        /\ DependenciesDone(depends_on, disk.task, opened)
    BY <2>1 DEF LaunchPart
  <2>3. disk'.task = [disk.task EXCEPT ![opened] = "Running"]
    BY <1>3, <2>1 DEF SpawnAttempt, TypeOK, RunRecord
  <2>. QED
    BY <2>1, <2>2, <2>3 DEF DurableStep
<1>4. CASE SaveOutcome
  <2>1. disk' = mem /\ depends_on' = depends_on
    BY <1>4 DEF SaveOutcome
  <2>2. PICK t \in Task :
          /\ disk.task[t] = "Running"
          /\ \/ \E s \in {"Completed", "Retrying"} : mem.task = [disk.task EXCEPT ![t] = s]
             \/ mem.task = FailTask(depends_on, disk.task, t)
    BY <1>4 DEF SaveOutcome, CopyPart, OneVerdictAhead
  <2>3. DependenciesDone(depends_on, disk.task, t)
    BY <2>2 DEF CoherentPart, DiskCoherent, Coherent, DependenciesMet
  <2>. QED
    BY <2>1, <2>2, <2>3 DEF DurableStep
<1>5. CASE GracefulShutdown
  <2>1. CASE disk' = [disk EXCEPT !.state = "Interrupted", !.task = Requeue(disk.task)]
    BY <1>5, <2>1 DEF GracefulShutdown, DurableStep, TypeOK, RunRecord
  <2>. QED
    BY <1>5, <2>1 DEF GracefulShutdown, DurableStep
<1>6. ASSUME NEW d \in Detector, DetectSave(d)
      PROVE  DurableStep
  <2>1. depends_on' = depends_on /\ disk' \in {Recovered(disk), disk}
    BY <1>6 DEF DetectSave, DetectPart, aside
  <2>. QED
    BY <2>1 DEF Recovered, DurableStep, TypeOK, RunRecord
<1>7. CASE FinishRun
  <2>1. disk'.task = mem.task /\ depends_on' = depends_on
    BY <1>7 DEF FinishRun, TypeOK, RunRecord
  <2>. QED
    BY <1>7, <2>1 DEF FinishRun, CopyPart, DurableStep
<1>8. CASE UNCHANGED <<depends_on, disk>>
  BY <1>8 DEF DurableStep
<1>9. \/ LoadState \/ SpawnAttempt \/ SaveOutcome \/ GracefulShutdown
      \/ (\E d \in Detector : DetectSave(d))
      \/ FinishRun \/ (\E t \in Task : WorktreeFails(t))
      \/ UNCHANGED <<depends_on, disk>>
  BY DEF Next, Scheduler, Collect, Drain, Recover, vars, AcquireLock, BeginShutdown, AbandonRest,
     LaunchNothing, SelectBatch, OpenWorktree, EndLaunch, ReleaseLock, CollectOutcome,
     DrainOutcome, DrainTimeout, Signal, DelayElapses, Crash, Resume, Detect, DetectStale,
     DetectLoad, DetectRelease, DetectEnds, aside
<1>. QED
  BY <1>1, <1>2, <1>3, <1>4, <1>5, <1>6, <1>7, <1>8, <1>9

\* The plan never changes, and no step takes back that a detector was overtaken.
LEMMA PlanFixed ==
  ASSUME [Next]_vars
  PROVE  depends_on' = depends_on
BY DEF Next, Scheduler, Collect, Drain, Recover, vars, LoadState, AcquireLock, BeginShutdown,
   AbandonRest, LaunchNothing, SelectBatch, OpenWorktree, WorktreeFails, SpawnAttempt, EndLaunch,
   SaveOutcome, GracefulShutdown, FinishRun, ReleaseLock, CollectOutcome, DrainOutcome,
   DrainTimeout, Signal, DelayElapses, Crash, Resume, Detect, DetectStale, DetectLoad,
   DetectSave, DetectRelease, DetectEnds, aside

LEMMA OvertakenStays ==
  ASSUME [Next]_vars, overtaken
  PROVE  overtaken'
BY DEF Next, Scheduler, Collect, Drain, Recover, vars, LoadState, AcquireLock, BeginShutdown,
   AbandonRest, LaunchNothing, SelectBatch, OpenWorktree, WorktreeFails, SpawnAttempt, EndLaunch,
   SaveOutcome, GracefulShutdown, FinishRun, ReleaseLock, CollectOutcome, DrainOutcome,
   DrainTimeout, Signal, DelayElapses, Crash, Resume, Detect, DetectStale, DetectLoad,
   DetectSave, DetectRelease, DetectEnds, aside, detection

\* The states on disk behave as DurableRun says: each step of the scheduler or of a
\* detector is one of its steps or leaves the file's task states alone, until the lock is
\* taken while a detector is at the run; from then on a step may bring back an older
\* file, but only a coherent one.
THEOREM Refinement == Spec => ImplementsDurableRun
<1>1. Init => Durable!Init
  BY DEF Init, Created, Durable!Init, Plan, Durable!Plan, Acyclic, Durable!Acyclic
<1>2. IInv /\ [Next]_vars => [Durable!Next]_(Durable!vars)
  <2> SUFFICES ASSUME IInv, [Next]_vars
               PROVE  [Durable!Next]_(Durable!vars)
    OBVIOUS
  <2>1. CASE overtaken'
    <3>1. IInv' /\ depends_on' = depends_on
      BY StepInv, PlanFixed
    <3>2. disk'.task \in [Task -> TaskState] /\ Coherent(depends_on, disk'.task)
      BY <3>1 DEF IInv, TypeOK, RunRecord, CoherentPart, DiskCoherent
    <3>3. Durable!Overtake
      BY <2>1, <3>1, <3>2, SameCoherence DEF Durable!Overtake, Durable!TaskState, TaskState
    <3>. QED
      BY <3>3 DEF Durable!Next
  <2>2. CASE ~ overtaken'
    <3>1. ~ overtaken
      BY <2>2, OvertakenStays
    <3>2. overtaken \in BOOLEAN /\ overtaken' \in BOOLEAN
      BY StepInv DEF IInv, TypeOK
    <3>3. overtaken' = overtaken
      BY <2>2, <3>1, <3>2
    <3>4. DurableStep
      BY <3>1, EveryStepIsDurable
    <3>. QED
      BY <3>3, <3>4, SameOperators
      DEF DurableStep, Durable!Next, Durable!vars, Durable!Start, Durable!Settle, Durable!Fail,
          Durable!Interrupt, Durable!Abandon
  <2>. QED
    BY <2>1, <2>2
<1>. QED
  BY <1>1, <1>2, Invariance, PTL DEF Spec, ImplementsDurableRun, Durable!Spec

\* A verdict that reached the disk is never withdrawn: no retry, crash, requeue or
\* cascade touches a terminal task, nor does a detector that is overtaken by no lock.
THEOREM VerdictsNeverWithdrawn == Spec => VerdictsStand
<1>1. IInv /\ [Next]_vars =>
        [~ overtaken' =>
           \A t \in Task : disk.task[t] \in Terminal => disk'.task[t] = disk.task[t]]_vars
  <2> SUFFICES ASSUME IInv, [Next]_vars, ~ overtaken', NEW t \in Task, disk.task[t] \in Terminal
               PROVE  disk'.task[t] = disk.task[t]
    OBVIOUS
  <2>1. depends_on \in Edges /\ disk.task \in States /\ Coherent(depends_on, disk.task)
    BY Parts DEF IInv, CoherentPart, DiskCoherent
  <2>2. DurableStep
    BY EveryStepIsDurable, OvertakenStays
  <2>3. ASSUME NEW u \in Task, disk.task[u] \in {"Pending", "Running", "Retrying"},
               DependenciesDone(depends_on, disk.task, u),
               disk'.task = FailTask(depends_on, disk.task, u)
        PROVE  disk'.task[t] = disk.task[t]
    <3>1. disk.task[u] \notin Terminal /\ t # u
      BY <2>3 DEF Terminal
    <3>. QED
      BY <2>1, <2>3, <3>1, FailTaskEffect
  <2>4. ASSUME NEW u \in Task, disk.task[u] \in {"Pending", "Running", "Retrying"},
               NEW s, disk'.task = [disk.task EXCEPT ![u] = s]
        PROVE  disk'.task[t] = disk.task[t]
    BY <2>1, <2>4 DEF Terminal, States
  <2>5. Requeue(disk.task)[t] = disk.task[t] /\ CancelRest(disk.task)[t] = disk.task[t]
    BY DEF Requeue, CancelRest, Terminal
  <2>. QED
    BY <2>2, <2>3, <2>4, <2>5 DEF DurableStep
<1>. QED
  BY <1>1, Invariance, PTL DEF Spec, VerdictsStand
-------------------------------------------------------------------------------
(***************************************************************************)
(* The launches of a run and what pays for them.                           *)
(***************************************************************************)

InState(task, s) == {t \in Task : task[t] = s}

\* Sent back to Pending by a crash or an interrupt: their next launch is paid for.
Reset(task, attempt_count) == {t \in Task : task[t] = "Pending" /\ attempt_count[t] > 0}

Tried(attempt_count) == {t \in Task : attempt_count[t] > 0}

\* Launches that are made, and those of tasks that wait for one which is paid for.
Paid(task, attempt_count, used, extra, shutdowns) ==
  Cardinality(Started(attempt_count)) + Cardinality(InState(task, "Retrying"))
      + Cardinality(Reset(task, attempt_count)) + extra
    <= Cardinality(Tried(attempt_count)) + used + shutdowns

ShutdownsPay == restarts * MaxConcurrent

\* A scheduler that died, or could not save its shutdown, leaves tasks recorded as
\* Running: the restart has paid for them.
Left(at, task) ==
  IF at \in {"release", "down"} THEN Cardinality(InState(task, "Running")) ELSE 0

AccountPart ==
  /\ IsFiniteSet(Started(disk.attempt_count))
  /\ Cardinality(InState(disk.task, "Running")) <= MaxConcurrent
  /\ Paid(disk.task, disk.attempt_count, disk.global_retries_used,
          Left(pc, disk.task), ShutdownsPay)
  /\ pc = "save" =>
       Paid(mem.task, mem.attempt_count, mem.global_retries_used, 0, ShutdownsPay)
  /\ pc \in {"spawn", "finalize"} => mem.global_retries_used = disk.global_retries_used

Counts == [Task -> Nat]

LEMMA FiniteTasks ==
  ASSUME NEW S \in SUBSET Task
  PROVE  IsFiniteSet(S) /\ Cardinality(S) \in Nat
<1>1. IsFiniteSet(S)
  BY TaskAssumption, FS_Subset
<1>2. QED
  BY <1>1, FS_CardinalityType

LEMMA FewerTasks ==
  ASSUME NEW S \in SUBSET Task, NEW R \in SUBSET S
  PROVE  Cardinality(R) <= Cardinality(S) /\ Cardinality(R) \in Nat /\ Cardinality(S) \in Nat
<1>1. IsFiniteSet(S) /\ Cardinality(S) \in Nat /\ Cardinality(R) \in Nat
  BY FiniteTasks
<1>2. QED
  BY <1>1, FS_Subset

LEMMA OneTaskMore ==
  ASSUME NEW S \in SUBSET Task, NEW t \in Task, t \notin S
  PROVE  /\ Cardinality(S \cup {t}) = Cardinality(S) + 1
         /\ Cardinality(S) \in Nat
<1>1. IsFiniteSet(S) /\ Cardinality(S) \in Nat
  BY FiniteTasks
<1>2. QED
  BY <1>1, FS_AddElement

\* All the sums are of natural numbers.
LEMMA SumTypes ==
  ASSUME NEW task, NEW count, IsFiniteSet(Started(count))
  PROVE  /\ Cardinality(Started(count)) \in Nat
         /\ Cardinality(InState(task, "Retrying")) \in Nat
         /\ Cardinality(InState(task, "Running")) \in Nat
         /\ Cardinality(Reset(task, count)) \in Nat
         /\ Cardinality(Tried(count)) \in Nat
<1>1. /\ InState(task, "Retrying") \in SUBSET Task /\ InState(task, "Running") \in SUBSET Task
      /\ Reset(task, count) \in SUBSET Task /\ Tried(count) \in SUBSET Task
  BY DEF InState, Reset, Tried
<1>2. Cardinality(Started(count)) \in Nat
  BY FS_CardinalityType
<1>3. QED
  BY <1>1, <1>2, FiniteTasks

\* No more tasks wait, and no less is paid.
LEMMA PaidFewer ==
  ASSUME NEW task, NEW new, NEW count, IsFiniteSet(Started(count)),
         NEW used \in Nat, NEW used2 \in Nat, NEW extra \in Nat, NEW extra2 \in Nat,
         NEW n \in Nat, NEW n2 \in Nat,
         Paid(task, count, used, extra, n),
         InState(new, "Retrying") \subseteq InState(task, "Retrying"),
         Reset(new, count) \subseteq Reset(task, count),
         used <= used2, extra2 + n <= extra + n2
  PROVE  Paid(new, count, used2, extra2, n2)
<1>1. InState(task, "Retrying") \in SUBSET Task /\ Reset(task, count) \in SUBSET Task
  BY DEF InState, Reset
<1>2. /\ Cardinality(InState(new, "Retrying")) <= Cardinality(InState(task, "Retrying"))
      /\ Cardinality(Reset(new, count)) <= Cardinality(Reset(task, count))
  BY <1>1, FewerTasks
<1>3. /\ Cardinality(Started(count)) \in Nat /\ Cardinality(Tried(count)) \in Nat
      /\ Cardinality(InState(task, "Retrying")) \in Nat /\ Cardinality(Reset(task, count)) \in Nat
      /\ Cardinality(InState(new, "Retrying")) \in Nat /\ Cardinality(Reset(new, count)) \in Nat
  BY SumTypes
<1>4. QED
  BY <1>2, <1>3 DEF Paid

\* A launch: the first of a task, one that its retry has paid for, or one that a crash has.
LEMMA PaidLaunch ==
  ASSUME NEW task \in States, NEW count \in Counts, IsFiniteSet(Started(count)),
         NEW used \in Nat, NEW n \in Nat, Paid(task, count, used, 0, n),
         NEW t \in Task, task[t] \in {"Pending", "Retrying"},
         NEW new \in States, new = [task EXCEPT ![t] = "Running"],
         NEW count2 \in Counts, count2 = [count EXCEPT ![t] = @ + 1]
  PROVE  IsFiniteSet(Started(count2)) /\ Paid(new, count2, used, 0, n)
<1> DEFINE x == <<t, count[t] + 1>>
<1>1. /\ count[t] \in Nat /\ count2[t] = count[t] + 1 /\ \A u \in Task \ {t} : count2[u] = count[u]
      /\ new[t] = "Running" /\ \A u \in Task \ {t} : new[u] = task[u]
      /\ \A u \in Task : count[u] \in Nat /\ count2[u] \in Nat
  BY DEF Counts, States
<1>2. Started(count2) = Started(count) \cup {x} /\ x \notin Started(count)
  <2>1. \A y : y \in Started(count2) <=> \E u \in Task : \E i \in 1 .. count2[u] : y = <<u, i>>
    BY DEF Started
  <2>2. \A y : y \in Started(count) <=> \E u \in Task : \E i \in 1 .. count[u] : y = <<u, i>>
    BY DEF Started
  <2>3. ASSUME NEW u \in Task, NEW i \in 1 .. count2[u]
        PROVE  <<u, i>> = x \/ i \in 1 .. count[u]
    BY <1>1
  <2>4. /\ count[t] + 1 \in 1 .. count2[t]
        /\ \A u \in Task : \A i \in 1 .. count[u] : i \in 1 .. count2[u]
    BY <1>1
  <2>5. \A y : y \in Started(count2) <=> y \in Started(count) \/ y = x
    <3>1. ASSUME NEW y \in Started(count2)
          PROVE  y \in Started(count) \/ y = x
      <4>1. PICK u \in Task : \E i \in 1 .. count2[u] : y = <<u, i>>
        BY <2>1
      <4>2. QED
        BY <2>2, <2>3, <4>1
    <3>2. ASSUME NEW y \in Started(count)
          PROVE  y \in Started(count2)
      <4>1. PICK u \in Task : \E i \in 1 .. count[u] : y = <<u, i>>
        BY <2>2
      <4>2. QED
        BY <2>1, <2>4, <4>1
    <3>3. x \in Started(count2)
      BY <2>1, <2>4
    <3>4. QED
      BY <3>1, <3>2, <3>3
  <2>6. x \notin Started(count)
    <3>1. ASSUME NEW u \in Task, NEW i \in 1 .. count[u], x = <<u, i>>
          PROVE  FALSE
      <4>1. u = t /\ count[t] + 1 \in 1 .. count[t]
        BY <3>1
      <4>2. QED
        BY <1>1, <4>1
    <3>2. QED
      BY <2>2, <3>1
  <2>7. QED
    BY <2>5, <2>6
<1> HIDE DEF x
<1>3. /\ IsFiniteSet(Started(count2))
      /\ Cardinality(Started(count2)) = Cardinality(Started(count)) + 1
  <2>1. /\ IsFiniteSet(Started(count) \cup {x})
        /\ Cardinality(Started(count) \cup {x}) = Cardinality(Started(count)) + 1
    BY <1>2, FS_AddElement
  <2>2. QED
    BY <1>2, <2>1
<1> DEFINE R == InState(task, "Retrying")
           R2 == InState(new, "Retrying")
           P == Reset(task, count)
           P2 == Reset(new, count2)
           L == Tried(count)
           L2 == Tried(count2)
<1>4. /\ R \in SUBSET Task /\ R2 \in SUBSET Task /\ P \in SUBSET Task /\ P2 \in SUBSET Task
      /\ L \in SUBSET Task /\ L2 \in SUBSET Task
  BY DEF InState, Reset, Tried
<1>5. /\ Cardinality(Started(count)) \in Nat
      /\ Cardinality(Started(count)) + Cardinality(R) + Cardinality(P) <= Cardinality(L) + used + n
  <2>1. Cardinality(Started(count)) \in Nat /\ Cardinality(R) \in Nat /\ Cardinality(P) \in Nat
    BY SumTypes
  <2>2. QED
    BY <2>1 DEF Paid
<1>6. R2 \subseteq R /\ P2 \subseteq P /\ L \subseteq L2 /\ t \notin R2 /\ t \notin P2 /\ t \in L2
  BY <1>1 DEF InState, Reset, Tried
<1>7. (t \in R /\ t \notin P) \/ (t \in P /\ t \notin R) \/ t \notin L
  BY <1>1 DEF InState, Reset, Tried
<1> HIDE DEF R, R2, P, P2, L, L2
<1>8. /\ Cardinality(R2) <= Cardinality(R) /\ Cardinality(P2) <= Cardinality(P)
      /\ Cardinality(L) <= Cardinality(L2)
      /\ Cardinality(R) \in Nat /\ Cardinality(P) \in Nat /\ Cardinality(L) \in Nat
      /\ Cardinality(R2) \in Nat /\ Cardinality(P2) \in Nat /\ Cardinality(L2) \in Nat
  BY <1>4, <1>6, FewerTasks
<1>9. /\ t \in R => Cardinality(R2) + 1 <= Cardinality(R)
      /\ t \in P => Cardinality(P2) + 1 <= Cardinality(P)
      /\ t \notin L => Cardinality(L) + 1 <= Cardinality(L2)
  <2>1. ASSUME NEW S \in SUBSET Task, NEW S2 \in SUBSET S, t \in S, t \notin S2
        PROVE  Cardinality(S2) + 1 <= Cardinality(S)
    <3>1. S2 \in SUBSET Task /\ S2 \cup {t} \in SUBSET S
      BY <2>1
    <3>2. Cardinality(S2 \cup {t}) = Cardinality(S2) + 1
      BY <2>1, <3>1, OneTaskMore
    <3>3. Cardinality(S2 \cup {t}) <= Cardinality(S)
      BY <3>1, FewerTasks
    <3>4. QED
      BY <3>2, <3>3
  <2>2. QED
    BY <1>4, <1>6, <2>1
<1>10. Cardinality(Started(count2)) + Cardinality(R2) + Cardinality(P2) <= Cardinality(L2) + used + n
  BY <1>3, <1>5, <1>7, <1>8, <1>9
<1>11. Cardinality(Started(count2)) + Cardinality(R2) + Cardinality(P2) + 0
         <= Cardinality(L2) + used + n
  BY <1>3, <1>5, <1>8, <1>10
<1>12. QED
  BY <1>3, <1>11 DEF Paid, R2, P2, L2

\* A retry is charged to the budget.
LEMMA PaidRetry ==
  ASSUME NEW task \in States, NEW count, IsFiniteSet(Started(count)),
         NEW used \in Nat, NEW n \in Nat, Paid(task, count, used, 0, n),
         NEW t \in Task, NEW new, new = [task EXCEPT ![t] = "Retrying"]
  PROVE  Paid(new, count, used + 1, 0, n)
<1> DEFINE R == InState(task, "Retrying")
           R2 == InState(new, "Retrying")
<1>1. R \in SUBSET Task /\ R2 \in SUBSET (R \cup {t}) /\ R \cup {t} \in SUBSET Task
  BY DEF InState, States
<1>2. Reset(task, count) \in SUBSET Task /\ Reset(new, count) \in SUBSET Reset(task, count)
  BY DEF Reset, States
<1> HIDE DEF R, R2
<1>3. /\ Cardinality(R2) <= Cardinality(R \cup {t})
      /\ Cardinality(Reset(new, count)) <= Cardinality(Reset(task, count))
      /\ Cardinality(R2) \in Nat /\ Cardinality(R) \in Nat
  BY <1>1, <1>2, FewerTasks, FiniteTasks
<1>4. Cardinality(R \cup {t}) <= Cardinality(R) + 1
  <2>1. CASE t \in R
    <3>1. R \cup {t} = R
      BY <2>1
    <3>2. QED
      BY <1>3, <3>1
  <2>2. CASE t \notin R
    BY <1>1, <1>3, <2>2, OneTaskMore
  <2>3. QED
    BY <2>1, <2>2
<1>5. Cardinality(R2) <= Cardinality(R) + 1
  <2>1. Cardinality(R \cup {t}) \in Nat
    BY <1>1, FiniteTasks
  <2>2. QED
    BY <1>3, <1>4, <2>1
<1>6. /\ Cardinality(Started(count)) \in Nat /\ Cardinality(Tried(count)) \in Nat
      /\ Cardinality(Reset(task, count)) \in Nat /\ Cardinality(Reset(new, count)) \in Nat
  BY SumTypes
<1>7. Cardinality(Started(count)) + Cardinality(R) + Cardinality(Reset(task, count)) + 0
        <= Cardinality(Tried(count)) + used + n
  BY DEF Paid, R
<1>8. Cardinality(Started(count)) + Cardinality(R2) + Cardinality(Reset(new, count)) + 0
        <= Cardinality(Tried(count)) + (used + 1) + n
  BY <1>3, <1>5, <1>6, <1>7
<1>9. QED
  BY <1>8 DEF Paid, R2

\* What is requeued has been paid for.
LEMMA PaidRequeue ==
  ASSUME NEW task \in States, NEW count, IsFiniteSet(Started(count)),
         NEW used \in Nat, NEW n \in Nat,
         Paid(task, count, used, Cardinality(InState(task, "Running")), n),
         \A t \in Task : task[t] # "Queued"
  PROVE  Paid(Requeue(task), count, used, 0, n) /\ InState(Requeue(task), "Running") = {}
<1> DEFINE new == Requeue(task)
           Run == InState(task, "Running")
           P == Reset(task, count)
<1>1. \A t \in Task : new[t] = IF task[t] = "Running" THEN "Pending" ELSE task[t]
  BY DEF Requeue
<1>2. /\ InState(new, "Retrying") = InState(task, "Retrying") /\ InState(new, "Running") = {}
      /\ Reset(new, count) \in SUBSET (P \cup Run)
      /\ P \in SUBSET Task /\ Run \in SUBSET Task /\ P \cup Run \in SUBSET Task
  BY <1>1 DEF InState, Reset
<1> HIDE DEF new, Run, P
<1>3. Cardinality(P \cup Run) <= Cardinality(P) + Cardinality(Run)
  <2>1. IsFiniteSet(P) /\ IsFiniteSet(Run) /\ Cardinality(P) \in Nat /\ Cardinality(Run) \in Nat
    BY <1>2, FiniteTasks
  <2>2. Cardinality(P \cup Run) = Cardinality(P) + Cardinality(Run) - Cardinality(P \cap Run)
    BY <2>1, FS_Union
  <2>3. P \cap Run \in SUBSET Task
    BY <1>2
  <2>4. Cardinality(P \cap Run) \in Nat
    BY <2>3, FiniteTasks
  <2>5. QED
    BY <2>1, <2>2, <2>4
<1>4. Cardinality(Reset(new, count)) <= Cardinality(P \cup Run) /\ Cardinality(P \cup Run) \in Nat
  BY <1>2, FewerTasks
<1>5. /\ Cardinality(Started(count)) \in Nat /\ Cardinality(Tried(count)) \in Nat
      /\ Cardinality(InState(task, "Retrying")) \in Nat /\ Cardinality(Reset(new, count)) \in Nat
  BY SumTypes
<1>6. Cardinality(P) \in Nat /\ Cardinality(Run) \in Nat
  BY <1>2, FiniteTasks
<1>7. Cardinality(Started(count)) + Cardinality(InState(task, "Retrying")) + Cardinality(P) + Cardinality(Run)
        <= Cardinality(Tried(count)) + used + n
  BY DEF Paid, P, Run
<1>8. Cardinality(Started(count)) + Cardinality(InState(new, "Retrying")) + Cardinality(Reset(new, count)) + 0
        <= Cardinality(Tried(count)) + used + n
  BY <1>2, <1>3, <1>4, <1>5, <1>6, <1>7
<1>9. QED
  BY <1>2, <1>8 DEF Paid, new
LEMMA AccountTypes ==
  ASSUME TypeOK
  PROVE  /\ disk.global_retries_used \in Nat /\ mem.global_retries_used \in Nat
         /\ disk.attempt_count \in Counts /\ mem.attempt_count \in Counts
         /\ restarts \in Nat /\ MaxConcurrent \in Nat /\ ShutdownsPay \in Nat
<1>1. /\ disk.global_retries_used \in Nat /\ mem.global_retries_used \in Nat
      /\ disk.attempt_count \in Counts /\ mem.attempt_count \in Counts
  BY DEF TypeOK, RunRecord, Counts
<1>2. restarts \in Nat /\ MaxConcurrent \in Nat
  BY LimitAssumption DEF TypeOK
<1>3. \A i, j \in Nat : i * j \in Nat
  OBVIOUS
<1>4. QED
  BY <1>1, <1>2, <1>3 DEF ShutdownsPay

LEMMA OneShutdownMore ==
  ASSUME NEW i \in Nat, NEW j \in Nat
  PROVE  (i + 1) * j = i * j + j /\ i * j \in Nat /\ (i + 1) * j \in Nat
OBVIOUS

LEMMA InitAccount == Init => AccountPart
<1> SUFFICES ASSUME Init PROVE AccountPart
  OBVIOUS
<1>1. /\ \A t \in Task : disk.attempt_count[t] = 0 /\ disk.task[t] = "Pending"
      /\ disk.global_retries_used = 0 /\ restarts = 0 /\ pc = "load"
  BY DEF Init, Created
<1>2. Started(disk.attempt_count) = {}
  <2>1. ASSUME NEW t \in Task PROVE {t} \X (1 .. disk.attempt_count[t]) = {}
    BY <1>1
  <2>2. QED
    BY <2>1 DEF Started
<1>3. /\ InState(disk.task, "Running") = {} /\ InState(disk.task, "Retrying") = {}
      /\ Reset(disk.task, disk.attempt_count) = {} /\ Tried(disk.attempt_count) = {}
  BY <1>1 DEF InState, Reset, Tried
<1>4. ShutdownsPay = 0
  <2>1. MaxConcurrent \in Nat
    BY LimitAssumption
  <2>2. QED
    BY <1>1, <2>1 DEF ShutdownsPay
<1>5. /\ Cardinality(Started(disk.attempt_count)) = 0
      /\ Cardinality(InState(disk.task, "Running")) = 0
      /\ Cardinality(InState(disk.task, "Retrying")) = 0
      /\ Cardinality(Reset(disk.task, disk.attempt_count)) = 0
      /\ Cardinality(Tried(disk.attempt_count)) = 0
      /\ IsFiniteSet(Started(disk.attempt_count))
  BY <1>2, <1>3, FS_EmptySet
<1>6. MaxConcurrent \in Nat
  BY LimitAssumption
<1>7. QED
  BY <1>1, <1>4, <1>5, <1>6 DEF AccountPart, Paid, Left

\* Steps that leave the file alone, whoever takes them.
LEMMA AccountSame ==
  ASSUME AccountPart, UNCHANGED <<disk, mem, pc, restarts>>
  PROVE  AccountPart'
BY DEF AccountPart, ShutdownsPay

\* Steps after which the file accounts for the same launches, of a scheduler that is
\* alive and has no outcome to save.
LEMMA AccountKept ==
  ASSUME TypeOK, AccountPart, disk'.task = disk.task,
         disk'.attempt_count = disk.attempt_count,
         disk'.global_retries_used = disk.global_retries_used,
         restarts' = restarts, pc' \notin {"release", "down", "save"},
         pc' \in {"spawn", "finalize"} =>
           mem'.global_retries_used = disk.global_retries_used
  PROVE  AccountPart'
<1> DEFINE run == Cardinality(InState(disk.task, "Running"))
           ex == Left(pc, disk.task)
<1>1. IsFiniteSet(Started(disk.attempt_count))
  BY DEF AccountPart
<1>2. run \in Nat
  BY <1>1, SumTypes
<1>3. Paid(disk.task, disk.attempt_count, disk.global_retries_used, ex, ShutdownsPay)
  BY DEF AccountPart
<1>4. ex \in Nat /\ ShutdownsPay + 0 <= ShutdownsPay + ex /\ 0 + ShutdownsPay <= ex + ShutdownsPay
  BY <1>2, AccountTypes DEF Left
<1> HIDE DEF ex, run
<1>5. Paid(disk.task, disk.attempt_count, disk.global_retries_used, 0, ShutdownsPay)
  <2>1. disk.global_retries_used <= disk.global_retries_used
    BY AccountTypes
  <2>2. QED
    BY <1>1, <1>3, <1>4, <2>1, AccountTypes, PaidFewer
<1>6. Cardinality(InState(disk.task, "Running")) <= MaxConcurrent
  BY DEF AccountPart
<1>7. ShutdownsPay' = ShutdownsPay
  BY DEF ShutdownsPay
<1>8. QED
  BY <1>1, <1>5, <1>6, <1>7 DEF AccountPart, Left

\* What the limit on children says of the children alone.
LEMMA FewRunning ==
  ASSUME NEW S \in SUBSET Task, NEW B \in SUBSET Task, NEW i \in {0, 1},
         Cardinality(S) + Cardinality(B) + i <= MaxConcurrent
  PROVE  Cardinality(S) <= MaxConcurrent
<1>1. Cardinality(S) \in Nat /\ Cardinality(B) \in Nat /\ MaxConcurrent \in Nat
  BY FiniteTasks, LimitAssumption
<1>2. QED
  BY <1>1

\* The file as it is in memory at an await point and during a launch.
LEMMA CopiesAgree ==
  ASSUME TypeOK, CopyPart, pc \in {"lock", "loop", "launch", "wait", "release"}
  PROVE  /\ mem.task = disk.task /\ mem.attempt_count = disk.attempt_count
         /\ mem.global_retries_used = disk.global_retries_used
<1>1. disk = [mem EXCEPT !.state = disk.state]
  BY DEF CopyPart
<1>2. QED
  BY <1>1 DEF TypeOK, RunRecord

\* A verdict leaves the account as it is, or charges a retry for the launch it defers.
LEMMA OutcomePaid ==
  ASSUME IInv, IInv', InTime, AccountPart, NEW t \in Task, CollectOutcome(t)
  PROVE  AccountPart'
<1> USE DEF IInv, InTime
<1> DEFINE count == disk.attempt_count
           used == disk.global_retries_used
           used2 == mem'.global_retries_used
<1>1. /\ disk' = disk /\ pc = "wait" /\ pc' = "save" /\ restarts' = restarts
      /\ ApplyOutcome(t) /\ t \in running
  BY DEF CollectOutcome
<1>2. mem.task = disk.task /\ mem.attempt_count = count /\ mem.global_retries_used = used
  BY <1>1, CopiesAgree
<1>3. mem.task \in States /\ depends_on \in Edges /\ mem \in RunRecord
  BY Parts DEF TypeOK
<1>4. IsFiniteSet(Started(count)) /\ Paid(mem.task, count, used, 0, ShutdownsPay)
  BY <1>1, <1>2 DEF AccountPart, Left
<1>5. used \in Nat /\ used + 1 \in Nat /\ ShutdownsPay \in Nat /\ used <= used /\ used <= used + 1
      /\ 0 + ShutdownsPay <= 0 + ShutdownsPay
  BY AccountTypes
<1>6. mem.task[t] = "Running" /\ Coherent(depends_on, mem.task)
  BY <1>1, <1>2 DEF HandlePart, CoherentPart, DiskCoherent
<1> HIDE DEF count, used
<1>7. /\ mem'.attempt_count = count
      /\ Paid(mem'.task, count, used2, 0, ShutdownsPay)
  <2>1. CASE Succeeds(t)
    <3>1. PICK n \in TokenUse :
            mem' = [mem EXCEPT !.task = [mem.task EXCEPT ![t] = "Completed"], !.tokens_used = @ + n]
      BY <2>1, <1>3 DEF Succeeds, RunRecord
    <3>2. /\ mem'.task = [mem.task EXCEPT ![t] = "Completed"] /\ mem'.attempt_count = count
          /\ used2 = used
      BY <1>2, <1>3, <3>1 DEF RunRecord
    <3>3. /\ InState(mem'.task, "Retrying") \subseteq InState(mem.task, "Retrying")
          /\ Reset(mem'.task, count) \subseteq Reset(mem.task, count)
      BY <1>3, <3>2 DEF InState, Reset, States
    <3>4. QED
      BY <1>4, <1>5, <3>2, <3>3, PaidFewer
  <2>2. ASSUME NEW class \in ErrorClass, Retries(t, class)
        PROVE  mem'.attempt_count = count /\ Paid(mem'.task, count, used2, 0, ShutdownsPay)
    <3>1. mem' = [mem EXCEPT !.task = [mem.task EXCEPT ![t] = "Retrying"],
                             !.global_retries_used = @ + 1]
      BY <2>2, <1>3 DEF Retries, RunRecord
    <3>2. /\ mem'.task = [mem.task EXCEPT ![t] = "Retrying"] /\ mem'.attempt_count = count
          /\ used2 = used + 1
      BY <1>2, <1>3, <3>1 DEF RunRecord
    <3>3. QED
      BY <1>3, <1>4, <1>5, <3>2, PaidRetry
  <2>3. ASSUME NEW class \in ErrorClass, FailsForGood(t, class)
        PROVE  mem'.attempt_count = count /\ Paid(mem'.task, count, used2, 0, ShutdownsPay)
    <3>1. mem' = [mem EXCEPT !.task = FailTask(depends_on, mem.task, t)]
      BY <2>3, <1>3 DEF FailsForGood, RunRecord
    <3>2. mem'.task = FailTask(depends_on, mem.task, t) /\ mem'.attempt_count = count /\ used2 = used
      BY <1>2, <1>3, <3>1 DEF RunRecord
    <3>3. mem.task[t] \notin Terminal /\ DependenciesDone(depends_on, mem.task, t)
      BY <1>6 DEF Coherent, DependenciesMet, Terminal
    <3>4. /\ mem'.task[t] = "Failed"
          /\ \A u \in Task \ {t} : mem'.task[u] = mem.task[u] \/ mem'.task[u] = "Cancelled"
      BY <1>3, <1>6, <3>2, <3>3, FailTaskEffect
    <3>5. /\ InState(mem'.task, "Retrying") \subseteq InState(mem.task, "Retrying")
          /\ Reset(mem'.task, count) \subseteq Reset(mem.task, count)
      BY <3>4 DEF InState, Reset
    <3>6. QED
      BY <1>4, <1>5, <3>2, <3>5, PaidFewer
  <2>4. QED
    BY <1>1, <2>1, <2>2, <2>3 DEF ApplyOutcome
<1>8. ShutdownsPay' = ShutdownsPay
  BY <1>1 DEF ShutdownsPay
<1>9. QED
  BY <1>1, <1>7, <1>8 DEF AccountPart, Left

LEMMA SavedOutcomePaid ==
  ASSUME IInv, IInv', InTime, AccountPart, SaveOutcome
  PROVE  AccountPart'
<1> USE DEF IInv, InTime
<1>1. /\ disk' = mem /\ pc = "save" /\ pc' = "loop" /\ restarts' = restarts
      /\ mem.attempt_count = disk.attempt_count
  BY DEF SaveOutcome, CopyPart
<1>2. Paid(disk'.task, disk'.attempt_count, disk'.global_retries_used, 0, ShutdownsPay)
      /\ IsFiniteSet(Started(disk'.attempt_count))
  BY <1>1 DEF AccountPart, Left
<1>3. running = InState(disk'.task, "Running")
  BY <1>1 DEF HandlePart, InState
<1>4. Cardinality(running) <= MaxConcurrent
  BY FewRunning DEF ConcurrencyLimit, TypeOK
<1>5. ShutdownsPay' = ShutdownsPay
  BY <1>1 DEF ShutdownsPay
<1>6. QED
  BY <1>1, <1>2, <1>3, <1>4, <1>5 DEF AccountPart, Left

\* A launch that comes to nothing makes no child and no claim.
LEMMA FailedLaunchPaid ==
  ASSUME IInv, IInv', InTime, AccountPart, NEW t \in Task, WorktreeFails(t)
  PROVE  AccountPart'
<1> USE DEF IInv, InTime
<1> DEFINE count == disk.attempt_count
           used == disk.global_retries_used
<1>1. /\ mem' = [mem EXCEPT !.task = FailTask(depends_on, mem.task, t)]
      /\ disk' = mem' /\ pc = "launch" /\ pc' = "launch" /\ restarts' = restarts
      /\ t \in batch /\ running' = running
  BY DEF WorktreeFails, NextOfBatch, control, TypeOK, RunRecord
<1>2. mem.task = disk.task /\ mem.attempt_count = count /\ mem.global_retries_used = used
  BY <1>1, CopiesAgree
<1>3. mem.task \in States /\ depends_on \in Edges /\ mem \in RunRecord
  BY Parts DEF TypeOK
<1>4. IsFiniteSet(Started(count)) /\ Paid(mem.task, count, used, 0, ShutdownsPay)
  BY <1>1, <1>2 DEF AccountPart, Left
<1>5. used \in Nat /\ ShutdownsPay \in Nat /\ used <= used
      /\ 0 + ShutdownsPay <= 0 + ShutdownsPay
  BY AccountTypes
<1>6. /\ mem.task[t] \notin Terminal /\ DependenciesDone(depends_on, mem.task, t)
      /\ Coherent(depends_on, mem.task)
  BY <1>1, <1>2 DEF LaunchPart, CoherentPart, DiskCoherent, Terminal
<1> HIDE DEF count, used
<1>7. /\ disk'.task = FailTask(depends_on, mem.task, t) /\ disk'.attempt_count = count
      /\ disk'.global_retries_used = used
  BY <1>1, <1>2, <1>3 DEF RunRecord
<1>8. /\ disk'.task[t] = "Failed"
      /\ \A u \in Task \ {t} : disk'.task[u] = mem.task[u] \/ disk'.task[u] = "Cancelled"
  BY <1>3, <1>6, <1>7, FailTaskEffect
<1>9. /\ InState(disk'.task, "Retrying") \subseteq InState(mem.task, "Retrying")
      /\ Reset(disk'.task, count) \subseteq Reset(mem.task, count)
  BY <1>8 DEF InState, Reset
<1>10. Paid(disk'.task, count, used, 0, ShutdownsPay)
  BY <1>4, <1>5, <1>9, PaidFewer
<1>11. running' = InState(disk'.task, "Running")
  BY <1>1 DEF HandlePart, InState
<1>12. Cardinality(running') <= MaxConcurrent
  BY FewRunning DEF ConcurrencyLimit, TypeOK
<1>13. ShutdownsPay' = ShutdownsPay
  BY <1>1 DEF ShutdownsPay
<1>14. QED
  BY <1>1, <1>4, <1>7, <1>10, <1>11, <1>12, <1>13 DEF AccountPart, Left

\* The launch itself.
LEMMA LaunchPaid ==
  ASSUME IInv, IInv', InTime, AccountPart, SpawnAttempt
  PROVE  AccountPart'
<1> USE DEF IInv, InTime
<1> DEFINE count == disk.attempt_count
           used == disk.global_retries_used
           new == [mem.task EXCEPT ![opened] = "Running"]
           count2 == [count EXCEPT ![opened] = @ + 1]
<1>1. /\ disk' = mem' /\ pc = "spawn" /\ pc' = "launch" /\ restarts' = restarts
  BY DEF SpawnAttempt
<1>2. mem.task = disk.task /\ mem.attempt_count = count /\ mem.global_retries_used = used
  BY <1>1 DEF CopyPart, AccountPart
<1>3. mem.task \in States /\ mem \in RunRecord /\ disk' \in RunRecord /\ count \in Counts
  BY Parts DEF TypeOK, Counts
<1>4. IsFiniteSet(Started(count)) /\ Paid(mem.task, count, used, 0, ShutdownsPay)
  BY <1>1, <1>2 DEF AccountPart, Left
<1>5. used \in Nat /\ ShutdownsPay \in Nat
  BY AccountTypes
<1>6. opened \in Task /\ mem.task[opened] \in {"Pending", "Retrying"}
  BY <1>1 DEF LaunchPart, TypeOK
<1>7. mem' = [mem EXCEPT !.task = new, !.attempt_count = count2]
  BY <1>2 DEF SpawnAttempt, TypeOK, RunRecord
<1> HIDE DEF new, count2, used
<1>8. disk'.task = new /\ disk'.attempt_count = count2 /\ disk'.global_retries_used = used
  BY <1>1, <1>2, <1>3, <1>7 DEF RunRecord
<1>9. new \in States /\ count2 \in Counts
  BY <1>3, <1>8 DEF RunRecord, States, Counts
<1> HIDE DEF count
<1>10. IsFiniteSet(Started(count2)) /\ Paid(new, count2, used, 0, ShutdownsPay)
  BY <1>3, <1>4, <1>5, <1>6, <1>9, PaidLaunch DEF new, count2
<1>11. running' = InState(disk'.task, "Running")
  BY <1>1 DEF HandlePart, InState
<1>12. Cardinality(running') <= MaxConcurrent
  BY FewRunning DEF ConcurrencyLimit, TypeOK
<1>13. ShutdownsPay' = ShutdownsPay
  BY <1>1 DEF ShutdownsPay
<1>14. QED
  BY <1>1, <1>8, <1>10, <1>11, <1>12, <1>13 DEF AccountPart, Left

\* What a crash or an interrupt sends back to Pending has been paid for, at most
\* max_concurrent launches at a time.
LEMMA RequeuePaid ==
  ASSUME TypeOK, FinishPart, AccountPart, ShutdownsPay' \in Nat,
         Paid(disk.task, disk.attempt_count, disk.global_retries_used,
              Cardinality(InState(disk.task, "Running")), ShutdownsPay'),
         NEW s \in RunState, disk' = [disk EXCEPT !.state = s, !.task = Requeue(disk.task)],
         pc' \notin {"save", "spawn", "finalize"}
  PROVE  AccountPart'
<1> DEFINE count == disk.attempt_count
           used == disk.global_retries_used
<1>1. /\ disk'.task = Requeue(disk.task) /\ disk'.attempt_count = count
      /\ disk'.global_retries_used = used
  BY DEF TypeOK, RunRecord
<1>2. /\ disk.task \in States /\ \A t \in Task : disk.task[t] # "Queued"
      /\ used \in Nat /\ MaxConcurrent \in Nat
  BY Parts, AccountTypes DEF FinishPart
<1>3. IsFiniteSet(Started(count))
  BY DEF AccountPart
<1> HIDE DEF count, used
<1>4. Paid(disk'.task, count, used, 0, ShutdownsPay') /\ InState(disk'.task, "Running") = {}
  BY <1>1, <1>2, <1>3, PaidRequeue DEF count, used
<1>5. Cardinality(InState(disk'.task, "Running")) = 0
  BY <1>4, FS_EmptySet
<1>6. QED
  BY <1>1, <1>2, <1>3, <1>4, <1>5 DEF AccountPart, Left

\* One more restart pays for the children that are in flight.
LEMMA RestartPays ==
  ASSUME TypeOK, AccountPart, pc \notin {"release", "down"}, restarts' = restarts + 1
  PROVE  /\ ShutdownsPay' \in Nat
         /\ Paid(disk.task, disk.attempt_count, disk.global_retries_used,
                 Cardinality(InState(disk.task, "Running")), ShutdownsPay')
<1> DEFINE count == disk.attempt_count
           used == disk.global_retries_used
           run == Cardinality(InState(disk.task, "Running"))
<1>1. IsFiniteSet(Started(count)) /\ run <= MaxConcurrent
      /\ Paid(disk.task, count, used, 0, ShutdownsPay)
  BY DEF AccountPart, Left
<1>2. used \in Nat /\ ShutdownsPay \in Nat /\ used <= used /\ 0 \in Nat
      /\ restarts \in Nat /\ MaxConcurrent \in Nat
  BY AccountTypes
<1>3. run \in Nat
  BY <1>1, SumTypes
<1>4. ShutdownsPay' = ShutdownsPay + MaxConcurrent
  BY <1>2, OneShutdownMore DEF ShutdownsPay
<1>5. ShutdownsPay' \in Nat /\ run + ShutdownsPay <= 0 + ShutdownsPay'
  BY <1>1, <1>2, <1>3, <1>4
<1>6. /\ InState(disk.task, "Retrying") \subseteq InState(disk.task, "Retrying")
      /\ Reset(disk.task, count) \subseteq Reset(disk.task, count)
  OBVIOUS
<1> HIDE DEF count, used, run
<1>7. Paid(disk.task, count, used, run, ShutdownsPay')
  BY <1>1, <1>2, <1>3, <1>5, <1>6, PaidFewer
<1>. QED
  BY <1>5, <1>7 DEF count, used, run

LEMMA ShutdownPaid ==
  ASSUME IInv, InTime, AccountPart, GracefulShutdown
  PROVE  AccountPart'
<1>1. /\ TypeOK /\ FinishPart
      /\ pc = "drain" /\ pc' = "release" /\ restarts' = restarts + 1
  BY DEF IInv, GracefulShutdown
<1>2. /\ ShutdownsPay' \in Nat
      /\ Paid(disk.task, disk.attempt_count, disk.global_retries_used,
              Cardinality(InState(disk.task, "Running")), ShutdownsPay')
  BY <1>1, RestartPays
<1>3. CASE disk' = [disk EXCEPT !.state = "Interrupted", !.task = Requeue(disk.task)]
  BY <1>1, <1>2, <1>3, RequeuePaid DEF RunState
<1>4. CASE disk' = disk
  BY <1>1, <1>2, <1>4 DEF AccountPart, Left
<1>. QED
  BY <1>3, <1>4 DEF GracefulShutdown

\* A detector saves its copy while the run is down, or when it has just been resumed and
\* there is nothing to requeue.
LEMMA DetectionPaid ==
  ASSUME IInv, InTime, AccountPart, NEW d \in Detector, DetectSave(d)
  PROVE  AccountPart'
<1>1. /\ TypeOK /\ FinishPart /\ HandlePart /\ CopyPart
      /\ UNCHANGED <<mem, pc, restarts>> /\ ~ Working
      /\ disk' = Recovered(disk) \/ disk' = disk
  BY DEF IInv, InTime, DetectSave, DetectPart, aside
<1>2. ShutdownsPay' = ShutdownsPay /\ ShutdownsPay \in Nat /\ pc \in {"down", "load", "lock"}
  BY <1>1, AccountTypes DEF ShutdownsPay, Working, TypeOK, Control
<1>3. CASE disk' = disk
  BY <1>1, <1>3, AccountSame
<1>4. CASE disk' = Recovered(disk) /\ pc = "down"
  <2>1. Paid(disk.task, disk.attempt_count, disk.global_retries_used,
             Cardinality(InState(disk.task, "Running")), ShutdownsPay')
    BY <1>2, <1>4 DEF AccountPart, Left
  <2>. QED
    BY <1>1, <1>2, <1>4, <2>1, RequeuePaid DEF Recovered, RunState
<1>5. CASE disk' = Recovered(disk) /\ pc \in {"load", "lock"}
  <2>1. \A t \in Task : disk.task[t] \notin {"Running", "Queued"}
    BY <1>1, <1>5, CopiesAgree DEF HandlePart, FinishPart
  <2>2. Requeue(disk.task) = disk.task
    BY <1>1, <2>1, Parts DEF Requeue, States
  <2>3. /\ disk'.task = disk.task /\ disk'.attempt_count = disk.attempt_count
        /\ disk'.global_retries_used = disk.global_retries_used
    BY <1>1, <1>5, <2>2 DEF Recovered, TypeOK, RunRecord
  <2>. QED
    BY <1>1, <1>5, <2>3, AccountKept
<1>. QED
  BY <1>1, <1>2, <1>3, <1>4, <1>5

\* A crash pays for the children it leaves behind.
LEMMA CrashPaid ==
  ASSUME IInv, InTime, AccountPart, Crash, pc # "release"
  PROVE  AccountPart'
<1>1. TypeOK /\ disk' = disk /\ pc # "down" /\ pc' = "down" /\ restarts' = restarts + 1
  BY DEF IInv, Crash
<1>2. /\ ShutdownsPay' \in Nat
      /\ Paid(disk.task, disk.attempt_count, disk.global_retries_used,
              Cardinality(InState(disk.task, "Running")), ShutdownsPay')
  BY <1>1, RestartPays
<1>. QED
  BY <1>1, <1>2 DEF AccountPart, Left

\* One that comes after the shutdown, or after the end, has nothing to pay for.
LEMMA LateCrashPaid ==
  ASSUME IInv, InTime, AccountPart, Crash, pc = "release"
  PROVE  AccountPart'
<1> DEFINE count == disk.attempt_count
           used == disk.global_retries_used
           run == Cardinality(InState(disk.task, "Running"))
<1>1. TypeOK /\ disk' = disk /\ pc' = "down" /\ restarts' = restarts + 1
  BY DEF IInv, Crash
<1>2. IsFiniteSet(Started(count)) /\ run <= MaxConcurrent
      /\ Paid(disk.task, count, used, run, ShutdownsPay)
  BY DEF AccountPart, Left
<1>3. used \in Nat /\ ShutdownsPay \in Nat /\ used <= used
      /\ restarts \in Nat /\ MaxConcurrent \in Nat
  BY <1>1, AccountTypes
<1>4. run \in Nat
  BY <1>2, SumTypes
<1>5. ShutdownsPay' = ShutdownsPay + MaxConcurrent
  BY <1>1, <1>3, OneShutdownMore DEF ShutdownsPay
<1>6. ShutdownsPay' \in Nat /\ run + ShutdownsPay <= run + ShutdownsPay'
  BY <1>3, <1>4, <1>5
<1>7. /\ InState(disk.task, "Retrying") \subseteq InState(disk.task, "Retrying")
      /\ Reset(disk.task, count) \subseteq Reset(disk.task, count)
  OBVIOUS
<1> HIDE DEF count, used, run
<1>8. Paid(disk.task, count, used, run, ShutdownsPay')
  BY <1>2, <1>3, <1>4, <1>6, <1>7, PaidFewer
<1>. QED
  BY <1>1, <1>2, <1>8 DEF AccountPart, Left, count, used, run

\* A run that ends has no child, and so has one that has ended.
LEMMA FinishPaid ==
  ASSUME IInv, InTime, AccountPart, FinishRun
  PROVE  AccountPart'
<1> USE DEF IInv, InTime
<1> DEFINE count == disk.attempt_count
           used == disk.global_retries_used
<1>1. /\ disk' = [mem EXCEPT !.state = "Finished"] /\ pc = "finalize" /\ pc' = "release"
      /\ restarts' = restarts
  BY DEF FinishRun
<1>2. disk'.task = mem.task /\ disk'.attempt_count = count /\ disk'.global_retries_used = used
  BY <1>1 DEF CopyPart, AccountPart, TypeOK, RunRecord
<1>3. \A t \in Task : mem.task[t] \in Terminal
  BY <1>1 DEF FinishPart, IsComplete
<1>4. /\ InState(mem.task, "Running") = {} /\ InState(mem.task, "Retrying") = {}
      /\ Reset(mem.task, count) = {}
  BY <1>3 DEF InState, Reset, Terminal
<1>5. Cardinality(InState(mem.task, "Running")) = 0
  BY <1>4, FS_EmptySet
<1>6. IsFiniteSet(Started(count)) /\ Paid(disk.task, count, used, 0, ShutdownsPay)
  BY <1>1 DEF AccountPart, Left
<1>7. used \in Nat /\ ShutdownsPay \in Nat /\ used <= used /\ 0 \in Nat /\ MaxConcurrent \in Nat
      /\ 0 + ShutdownsPay <= 0 + ShutdownsPay
  BY AccountTypes
<1>8. /\ InState(mem.task, "Retrying") \subseteq InState(disk.task, "Retrying")
      /\ Reset(mem.task, count) \subseteq Reset(disk.task, count)
  BY <1>4
<1> HIDE DEF count, used
<1>9. Paid(mem.task, count, used, 0, ShutdownsPay)
  BY <1>6, <1>7, <1>8, PaidFewer
<1>10. ShutdownsPay' = ShutdownsPay
  BY <1>1 DEF ShutdownsPay
<1>11. QED
  BY <1>1, <1>2, <1>5, <1>6, <1>7, <1>9, <1>10 DEF AccountPart, Left

LEMMA ReleasePaid ==
  ASSUME AccountPart, ReleaseLock
  PROVE  AccountPart'
BY DEF AccountPart, Left, ReleaseLock, ShutdownsPay

LEMMA StepAccount ==
  ASSUME IInv, IInv', ~ overtaken, AccountPart, [Next]_vars
  PROVE  AccountPart'
<1>1. TypeOK /\ CopyPart /\ InTime
  BY DEF IInv, InTime
<1>2. CASE LoadState
  <2>1. /\ disk' = [disk EXCEPT !.state = "Running"] /\ mem' = disk' /\ pc' = "lock"
        /\ restarts' = restarts
    BY <1>2 DEF LoadState
  <2>2. /\ disk'.task = disk.task /\ disk'.attempt_count = disk.attempt_count
        /\ disk'.global_retries_used = disk.global_retries_used
    BY <1>1, <2>1 DEF TypeOK, RunRecord
  <2>3. QED
    BY <1>1, <2>1, <2>2, AccountKept
<1>3. CASE AcquireLock \/ BeginShutdown \/ LaunchNothing \/ SelectBatch \/ Resume \/ Drain
  <2>1. /\ disk' = disk /\ restarts' = restarts
        /\ pc' \in {"loop", "drain", "wait", "launch", "load"}
    BY <1>3 DEF AcquireLock, BeginShutdown, LaunchNothing, SelectBatch, Resume, Drain,
                DrainOutcome, DrainTimeout
  <2>2. QED
    BY <1>1, <2>1, AccountKept
<1>4. CASE AbandonRest \/ EndLaunch \/ \E t \in Task : OpenWorktree(t)
  <2>1. /\ disk' = disk /\ restarts' = restarts /\ pc \in {"loop", "launch"}
        /\ pc' \in {"finalize", "wait", "loop", "spawn"}
    BY <1>4 DEF AbandonRest, EndLaunch, OpenWorktree, NextOfBatch
  <2>2. mem'.global_retries_used = mem.global_retries_used
    BY <1>1, <1>4 DEF AbandonRest, EndLaunch, OpenWorktree, TypeOK, RunRecord
  <2>3. mem.global_retries_used = disk.global_retries_used
    BY <1>1, <2>1, CopiesAgree
  <2>4. QED
    BY <1>1, <2>1, <2>2, <2>3, AccountKept
<1>5. CASE Signal \/ (\E t \in Task : DelayElapses(t)) \/ UNCHANGED vars
  <2>1. UNCHANGED <<disk, mem, pc, restarts>>
    BY <1>5 DEF Signal, DelayElapses, vars
  <2>2. QED
    BY <2>1, AccountSame
<1>6. CASE (\E t \in Task : WorktreeFails(t)) \/ SpawnAttempt \/ SaveOutcome \/ Collect
  BY <1>1, <1>6, FailedLaunchPaid, LaunchPaid, SavedOutcomePaid, OutcomePaid DEF Collect
<1>7. CASE GracefulShutdown \/ Crash \/ FinishRun \/ ReleaseLock
  BY <1>1, <1>7, ShutdownPaid, CrashPaid, LateCrashPaid, FinishPaid, ReleasePaid
<1>8. ASSUME NEW d \in Detector, Detect(d)
      PROVE  AccountPart'
  <2>1. CASE DetectSave(d)
    BY <1>1, <2>1, DetectionPaid
  <2>2. CASE DetectStale(d) \/ DetectLoad(d) \/ DetectRelease(d) \/ DetectEnds(d)
    <3>1. UNCHANGED <<disk, mem, pc, restarts>>
      BY <2>2 DEF DetectStale, DetectLoad, DetectRelease, DetectEnds, aside
    <3>2. QED
      BY <3>1, AccountSame
  <2>3. QED
    BY <1>8, <2>1, <2>2 DEF Detect
<1>9. QED
  BY <1>2, <1>3, <1>4, <1>5, <1>6, <1>7, <1>8 DEF Next, Scheduler, Recover

\* No launch goes unaccounted for: over a whole run the children started are the first
\* launches, the retries charged to the global budget, and the restarts of what was in
\* flight at a crash or an interrupt (spawn of scheduler.rs against the retry policy
\* and the requeue of recovery.rs), as long as no older file has come back.
THEOREM LaunchesAreAccounted == Spec => []LaunchesAccounted
<1>1. IInv /\ (overtaken \/ AccountPart) => LaunchesAccounted
  <2> SUFFICES ASSUME IInv, AccountPart, ~ overtaken PROVE LaunchesAccounted
    BY DEF LaunchesAccounted
  <2> DEFINE count == disk.attempt_count
             used == disk.global_retries_used
             ex == Left(pc, disk.task)
             s == Cardinality(Started(count))
             w == Cardinality(InState(disk.task, "Retrying"))
             r == Cardinality(Reset(disk.task, count))
             l == Cardinality(Tried(count))
  <2>1. IsFiniteSet(Started(count)) /\ Paid(disk.task, count, used, ex, ShutdownsPay)
    BY DEF AccountPart
  <2>2. s \in Nat /\ w \in Nat /\ r \in Nat /\ l \in Nat /\ ex \in Nat
    BY <2>1, SumTypes DEF Left
  <2>3. used \in Nat /\ ShutdownsPay \in Nat
    BY AccountTypes DEF IInv
  <2>4. s + w + r + ex <= l + used + ShutdownsPay
    BY <2>1 DEF Paid
  <2> HIDE DEF ex, s, w, r, l, used
  <2>5. s + w <= l + used + ShutdownsPay
    BY <2>2, <2>3, <2>4
  <2>6. QED
    BY <2>5 DEF LaunchesAccounted, s, w, l, used, ShutdownsPay, InState, Tried
<1>2. Init => overtaken \/ AccountPart
  BY InitAccount
<1>3. IInv /\ IInv' /\ (overtaken \/ AccountPart) /\ [Next]_vars => (overtaken \/ AccountPart)'
  BY StepAccount, OvertakenStays
<1>4. QED
  BY <1>1, <1>2, <1>3, Invariance, PTL DEF Spec
===============================================================================
