------------------------------- MODULE TuiTurns -------------------------------
(***************************************************************************)
(* omh's terminal UI (bins/omh/src/tui.rs) and the turns it starts: the    *)
(* event loop, which draws and then serves one source at a time; the turns *)
(* it spawns for a chat input, a skill and an @mention; the bus between    *)
(* them, a broadcast channel that drops the oldest event when it is full   *)
(* (libs/bus); the approvals a turn waits for; and state.toml, which the   *)
(* UI writes when the user picks a model and a turn writes when it ends    *)
(* (libs/runtime/src/session_runtime.rs).                                  *)
(*                                                                         *)
(* A turn is what it tells the UI and the file; AgentTurn has the rest.    *)
(* Events of other sessions and events that only change what is shown are  *)
(* left out: the UI ignores the former.  Keys that edit the input are in   *)
(* InputLine.  Effort and foreground agent share the file with the model   *)
(* and go the same way.                                                    *)
(***************************************************************************)
EXTENDS Integers, Sequences, FiniteSets, SequencesExt

CONSTANTS
  Turn,          \* ids of the turns started in this session
  Model,         \* what the user may pick in the model list
  BusCapacity,   \* EventBus::new(256)
  MaxPicks       \* bound of the model: picks and restarts

ASSUME TuiBounds ==
  IsFiniteSet(Turn) /\ Model # {} /\ BusCapacity \in Nat \ {0} /\ MaxPicks \in Nat

VARIABLES
  loop,       \* where run_tui is: "draw", "select", or "keys" of a batch
  streaming,  \* App.is_streaming
  model,      \* App.model_id
  prompt,     \* App.pending_approval: no or one turn that asks
  seen,       \* a frame with the prompt has been drawn
  kind,       \* what started each turn, "none" before
  stage,      \* where each turn's task is
  loaded,     \* the SessionState it holds
  file,       \* state.toml
  events,     \* the UI's receiver of the bus
  lagged,     \* it has lost an event
  requests,   \* the approval channel
  picks

tuiVars == <<loop, streaming, model, prompt, seen, kind, stage, loaded, file,
             events, lagged, requests, picks>>

Kinds == {"chat", "skill", "mention"}
State == [turn : 0 .. Cardinality(Turn), model : Model]
Started == {t \in Turn : stage[t] \notin {"none", "over"}}

TuiTypeOK ==
  /\ loop \in {"draw", "select", "keys"} /\ streaming \in BOOLEAN
  /\ model \in Model /\ prompt \in SUBSET Turn /\ seen \in BOOLEAN
  /\ kind \in [Turn -> Kinds \cup {"none"}]
  /\ stage \in [Turn -> {"none", "spawned", "running", "asking", "answered", "failed",
                         "saved", "reported", "over"}]
  /\ loaded \in [Turn -> State] /\ file \in State
  /\ lagged \in BOOLEAN /\ Len(events) <= BusCapacity

\* create_new_session saves the model of the start.
TuiInit ==
  /\ loop = "draw" /\ streaming = FALSE
  /\ model = CHOOSE m \in Model : TRUE
  /\ prompt = {} /\ seen = FALSE
  /\ kind = [t \in Turn |-> "none"] /\ stage = [t \in Turn |-> "none"]
  /\ file = [turn |-> 0, model |-> model]
  /\ loaded = [t \in Turn |-> file]
  /\ events = <<>> /\ lagged = FALSE /\ requests = <<>> /\ picks = 0
------------------------------------------------------------------------------
(***************************************************************************)
(* The turns' tasks.                                                       *)
(***************************************************************************)
Publish(e) ==
  /\ events' = IF Len(events) < BusCapacity THEN Append(events, e)
               ELSE Append(Tail(events), e)
  /\ lagged' = (lagged \/ Len(events) = BusCapacity)

Silent == UNCHANGED <<events, lagged>>

At(t, s) == stage' = [stage EXCEPT ![t] = s]

ui == <<loop, streaming, model, prompt, seen, kind, picks>>

\* SessionRuntime::new, then run_turn, which may fail before it has said that it
\* started.  An @mention runs in a session of its own and has no SessionRuntime.
TurnBegins(t) ==
  /\ stage[t] = "spawned"
  /\ IF kind[t] = "mention"
       THEN At(t, "running") /\ Silent /\ UNCHANGED loaded
       ELSE /\ loaded' = [loaded EXCEPT ![t] = file]
            /\ \/ At(t, "running") /\ Publish("started")
               \/ At(t, "failed") /\ Silent
  /\ UNCHANGED <<ui, file, requests>>

\* A tool call that needs the user's consent.
Asks(t) ==
  /\ stage[t] = "running"
  /\ At(t, "asking")
  /\ requests' = Append(requests, t)
  /\ UNCHANGED <<ui, loaded, file, events, lagged>>

\* run_turn succeeds, and says so; or fails.
TurnAnswers(t) ==
  /\ stage[t] = "running"
  /\ IF kind[t] = "mention" THEN At(t, "over") ELSE At(t, "answered")
  /\ Publish("complete")
  /\ UNCHANGED <<ui, loaded, file, requests>>

TurnFails(t) ==
  /\ stage[t] = "running" /\ kind[t] # "mention"
  /\ At(t, "failed")
  /\ Silent
  /\ UNCHANGED <<ui, loaded, file, requests>>

\* The end of execute_turn: what it loaded when it began, with the new counter.
StateSaved(t) == [loaded[t] EXCEPT !.turn = IF @ < Cardinality(Turn) THEN @ + 1 ELSE @]

SavesState(t) ==
  /\ stage[t] \in {"answered", "failed"}
  /\ file' = StateSaved(t)
  /\ At(t, CASE stage[t] = "failed" -> "saved"
             [] kind[t] = "skill" -> "reported"
             [] OTHER -> "over")
  /\ Silent
  /\ UNCHANGED <<ui, loaded, requests>>

\* Mutant: the task that runs the turn drops its error.
DropsError(t) ==
  /\ stage[t] = "saved"
  /\ At(t, "over")
  /\ Silent
  /\ UNCHANGED <<ui, loaded, file, requests>>

\* An error is published, and then, as for every skill, the end of the turn.
ReportsError(t) ==
  /\ stage[t] = "saved"
  /\ At(t, "reported")
  /\ Publish("error")
  /\ UNCHANGED <<ui, loaded, file, requests>>

ReportsEnd(t) ==
  /\ stage[t] = "reported"
  /\ At(t, "over")
  /\ Publish("complete")
  /\ UNCHANGED <<ui, loaded, file, requests>>
------------------------------------------------------------------------------
(***************************************************************************)
(* The event loop.                                                         *)
(***************************************************************************)
tasks == <<kind, stage, loaded>>

Draw ==
  /\ loop = "draw"
  /\ loop' = "select"
  /\ seen' = (prompt # {})
  /\ UNCHANGED <<streaming, model, prompt, tasks, file, events, lagged, requests, picks>>

\* handle_agent_event.
HandleEvent ==
  /\ loop = "select" /\ events # <<>>
  /\ loop' = "draw"
  /\ streaming' = (Head(events) = "started")
  /\ events' = Tail(events)
  /\ UNCHANGED <<model, prompt, seen, tasks, file, lagged, requests, picks>>

\* Mutant: the loop goes on to the keys without drawing.
TakenTo == "keys"

\* Where a served branch of select! leads.
ServedTo == "draw"

\* approval_channel.recv, polled only while there is no prompt.
TakeRequest ==
  /\ loop = "select" /\ prompt = {} /\ requests # <<>>
  /\ loop' = ServedTo
  /\ prompt' = {Head(requests)} /\ seen' = FALSE
  /\ requests' = Tail(requests)
  /\ UNCHANGED <<streaming, model, tasks, file, events, lagged, picks>>

\* The 16 ms are over: every key that is waiting is handled before the next frame.
PollKeys ==
  /\ loop = "select"
  /\ loop' = "keys"
  /\ UNCHANGED <<streaming, model, prompt, seen, tasks, file, events, lagged, requests, picks>>

NoMoreKeys ==
  /\ loop = "keys"
  /\ loop' = "draw"
  /\ UNCHANGED <<streaming, model, prompt, seen, tasks, file, events, lagged, requests, picks>>

\* handle_key takes any key as the answer to a prompt; the turn goes on with either.
AnswerPrompt ==
  /\ loop = "keys" /\ prompt # {}
  /\ stage' = [t \in Turn |-> IF t \in prompt THEN "running" ELSE stage[t]]
  /\ prompt' = {} /\ seen' = FALSE
  /\ UNCHANGED <<loop, streaming, model, kind, loaded, file, events, lagged, requests, picks>>

\* Enter: start_agent_turn, start_skill_turn; while streaming they only say "wait".
Submit(t) ==
  /\ loop = "keys" /\ prompt = {} /\ ~ streaming
  /\ stage[t] = "none"
  /\ \E k \in Kinds : kind' = [kind EXCEPT ![t] = k]
  /\ At(t, "spawned")
  /\ streaming' = TRUE
  /\ UNCHANGED <<loop, model, prompt, seen, loaded, file, events, lagged, requests, picks>>

\* set_active_model: the list of models does not wait for a turn to end.
PickModel(m) ==
  /\ loop = "keys" /\ prompt = {} /\ picks < MaxPicks
  /\ model' = m
  /\ file' = [file EXCEPT !.model = m]
  /\ picks' = picks + 1
  /\ UNCHANGED <<loop, streaming, prompt, seen, tasks, events, lagged, requests>>

\* The process ends with its tasks; `omh --continue` loads the session (load_session).
QuitAndContinue ==
  /\ loop = "keys" /\ prompt = {} /\ picks < MaxPicks
  /\ picks' = picks + 1
  /\ loop' = "draw" /\ streaming' = FALSE
  /\ model' = file.model
  /\ stage' = [t \in Turn |-> IF t \in Started THEN "over" ELSE stage[t]]
  /\ events' = <<>> /\ lagged' = FALSE /\ requests' = <<>>
  /\ UNCHANGED <<prompt, seen, kind, loaded, file>>

TuiNext ==
  \/ \E t \in Turn :
       \/ TurnBegins(t)
       \/ Asks(t)
       \/ TurnAnswers(t)
       \/ TurnFails(t)
       \/ SavesState(t)
       \/ ReportsError(t)
       \/ ReportsEnd(t)
       \/ Submit(t)
  \/ Draw
  \/ HandleEvent
  \/ TakeRequest
  \/ PollKeys
  \/ NoMoreKeys
  \/ AnswerPrompt
  \/ \E m \in Model : PickModel(m)
  \/ QuitAndContinue

TuiSpec == TuiInit /\ [][TuiNext]_tuiVars
------------------------------------------------------------------------------
(***************************************************************************)
(* Properties.                                                             *)
(***************************************************************************)

\* The user gets the input back: when no turn runs and every event has been handled,
\* the UI is not waiting for a response, however the turns ended and overlapped;
\* unless the bus has dropped events.
InputComesBack == (Started = {} /\ events = <<>> /\ ~ lagged) => ~ streaming

\* A tool call waits for an answer exactly as long as its request is in the channel or
\* on the screen: no request is lost, answered twice, or left with a dead turn.
RequestsAreAsked ==
  \A t \in Turn :
    (stage[t] = "asking") <=> (t \in prompt \/ \E i \in DOMAIN requests : requests[i] = t)

\* No key is taken as consent before the prompt has been drawn.
PromptSeenBeforeAnswer ==
  [][(prompt # {} /\ prompt' = {}) => seen]_tuiVars

\* "Per-Session State: Model/effort persisted in state.toml across restarts": when no
\* turn runs, the file names the model the user is working with.
ChosenModelPersists == Started = {} => file.model = model
=============================================================================
