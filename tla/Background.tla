------------------------------ MODULE Background ------------------------------
(***************************************************************************)
(* Sub-agents in the background (libs/runtime/src/background.rs) and the   *)
(* spawn_agent call that starts them (agent_runtime.rs).  Two maps with a  *)
(* lock of their own hold the status and the result of a task; a spawner   *)
(* counts under one lock, inserts under the next, and the task writes its  *)
(* status before its result.  The spawners are foreground turns that run   *)
(* at once; of one turn the calls come one after the other.                *)
(*                                                                         *)
(* What a sub-agent does is left out, and so are the session files and the *)
(* map of agents.  A result is handed out once (result takes it).          *)
(***************************************************************************)
EXTENDS Integers, FiniteSets

CONSTANTS
  Spawner,        \* foreground turns
  Task,           \* ids of background tasks
  MaxConcurrent   \* BackgroundTaskManager::new(8)

ASSUME BackgroundBounds ==
  /\ Task \subseteq Nat /\ MaxConcurrent \in Nat
  /\ IsFiniteSet(Spawner) /\ Spawner # {}

VARIABLES
  spawning,   \* the call of each spawner: "no", "checked", "inserted" or "listed"
  spawned,    \* the task it is spawning
  status,     \* TaskHandle.status
  results,    \* the results map: no entry, None, or what is stored
  outcome,    \* how the task's future ended, "none" while it runs
  step,       \* how far the task has come with writing that down
  token,      \* tasks whose cancel_token is cancelled
  shown       \* running sub-agents of the TUI's panel

bgVars == <<spawning, spawned, status, results, outcome, step, token, shown>>

Ends == {"Completed", "Failed", "Cancelled"}

BgTypeOK ==
  /\ spawning \in [Spawner -> {"no", "checked", "inserted", "listed"}]
  /\ spawned \in [Spawner -> SUBSET Task]
  /\ status \in [Task -> {"absent", "Running"} \cup Ends]
  /\ results \in [Task -> {"absent", "None", "Completed", "Failed"}]
  /\ outcome \in [Task -> {"none"} \cup Ends]
  /\ step \in [Task -> {"none", "running", "ended", "marked", "stored", "over"}]
  /\ token \in SUBSET Task /\ shown \in SUBSET Task

BgInit ==
  /\ spawning = [s \in Spawner |-> "no"] /\ spawned = [s \in Spawner |-> {}]
  /\ status = [t \in Task |-> "absent"] /\ results = [t \in Task |-> "absent"]
  /\ outcome = [t \in Task |-> "none"] /\ step = [t \in Task |-> "none"]
  /\ token = {} /\ shown = {}

Active == {t \in Task : status[t] = "Running"}
------------------------------------------------------------------------------
(***************************************************************************)
(* spawn: execute_spawn_agent has checked the agent and that it may        *)
(* delegate.  At the limit the call fails.                                 *)
(***************************************************************************)
rest == <<outcome, token>>

\* Mutant: off by one.
BelowOrAtLimit == Cardinality(Active) <= MaxConcurrent

BelowLimit == Cardinality(Active) < MaxConcurrent

CountActive(s) ==
  /\ spawning[s] = "no"
  /\ BelowLimit
  /\ spawning' = [spawning EXCEPT ![s] = "checked"]
  /\ UNCHANGED <<spawned, status, results, step, shown, rest>>

\* The next id: each is later than the one before.
Fresh(t) == status[t] = "absent" /\ \A u \in Task : status[u] = "absent" => t <= u

InsertTask(s, t) ==
  /\ spawning[s] = "checked" /\ Fresh(t)
  /\ spawning' = [spawning EXCEPT ![s] = "inserted"]
  /\ spawned' = [spawned EXCEPT ![s] = {t}]
  /\ status' = [status EXCEPT ![t] = "Running"]
  /\ UNCHANGED <<results, step, shown, rest>>

InsertResult(s, t) ==
  /\ spawning[s] = "inserted" /\ t \in spawned[s]
  /\ spawning' = [spawning EXCEPT ![s] = "listed"]
  /\ results' = [results EXCEPT ![t] = "None"]
  /\ UNCHANGED <<spawned, status, step, shown, rest>>

\* SubagentSpawned, then tokio::spawn.
StartTask(s, t) ==
  /\ spawning[s] = "listed" /\ t \in spawned[s]
  /\ spawning' = [spawning EXCEPT ![s] = "no"]
  /\ spawned' = [spawned EXCEPT ![s] = {}]
  /\ shown' = shown \cup {t}
  /\ step' = [step EXCEPT ![t] = "running"]
  /\ UNCHANGED <<status, results, rest>>
------------------------------------------------------------------------------
(***************************************************************************)
(* The task.                                                               *)
(***************************************************************************)
caller == <<spawning, spawned>>

\* select!: the agent's turn (run_background_agent) is over, or the token is cancelled.
EndTask(t) ==
  /\ step[t] = "running"
  /\ \E e \in Ends :
       /\ e = "Cancelled" => t \in token
       /\ outcome' = [outcome EXCEPT ![t] = e]
  /\ step' = [step EXCEPT ![t] = "ended"]
  /\ UNCHANGED <<caller, status, results, token, shown>>

\* The status is overwritten, also one that cancel has set.
MarkTask(t) ==
  /\ step[t] = "ended"
  /\ status' = [status EXCEPT ![t] = outcome[t]]
  /\ step' = [step EXCEPT ![t] = "marked"]
  /\ UNCHANGED <<caller, results, outcome, token, shown>>

StoreResult(t) ==
  /\ step[t] = "marked"
  /\ results' = [results EXCEPT ![t] = IF outcome[t] = "Cancelled" THEN "None" ELSE outcome[t]]
  /\ step' = [step EXCEPT ![t] = "stored"]
  /\ UNCHANGED <<caller, status, outcome, token, shown>>

\* SubagentCompleted or SubagentFailed; nothing for a cancelled task, which stays in
\* the panel.
AnnounceEnd(t) ==
  /\ step[t] = "stored"
  /\ shown' = IF outcome[t] = "Cancelled" THEN shown ELSE shown \ {t}
  /\ step' = [step EXCEPT ![t] = "over"]
  /\ UNCHANGED <<caller, status, results, outcome, token>>
------------------------------------------------------------------------------
(***************************************************************************)
(* The manager's other operations; wait_all only looks.                    *)
(***************************************************************************)

\* Mutant: a task that is over is marked too.
CancelledFrom(s) == IF s = "absent" THEN s ELSE "Cancelled"

AfterCancel(s) == IF s = "Running" THEN "Cancelled" ELSE s

CancelBg(t) ==
  /\ status[t] # "absent"
  /\ token' = token \cup {t}
  /\ status' = [status EXCEPT ![t] = AfterCancel(@)]
  /\ UNCHANGED <<caller, results, outcome, step, shown>>

TakeResult(t) ==
  /\ results[t] \in {"Completed", "Failed"}
  /\ results' = [results EXCEPT ![t] = "None"]
  /\ UNCHANGED <<caller, status, outcome, step, token, shown>>

BgNext ==
  \/ \E s \in Spawner :
       \/ CountActive(s)
       \/ \E t \in Task : InsertTask(s, t) \/ InsertResult(s, t) \/ StartTask(s, t)
  \/ \E t \in Task :
       \/ EndTask(t)
       \/ MarkTask(t)
       \/ StoreResult(t)
       \/ AnnounceEnd(t)
       \/ CancelBg(t)
       \/ TakeResult(t)

BgSpec == BgInit /\ [][BgNext]_bgVars
------------------------------------------------------------------------------
(***************************************************************************)
(* Properties.                                                             *)
(***************************************************************************)

\* The limit is checked and used under two locks.  It can be exceeded, but only by
\* spawners that have all passed the check before one of them inserts: never by more
\* than the others, and never with one spawner.
LimitUpToRace == Cardinality(Active) < MaxConcurrent + Cardinality(Spawner)

\* Once a task has written everything down, status and result tell the same story as
\* its future, whenever it was cancelled: a cancelled task has no result, and a
\* task that finished before the token was looked at counts as finished.
StatusMatchesOutcome ==
  \A t \in Task : step[t] \in {"stored", "over"} =>
    /\ status[t] = outcome[t]
    /\ results[t] \in {"None", outcome[t]}
=============================================================================
