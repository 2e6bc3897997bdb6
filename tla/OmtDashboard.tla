----------------------------- MODULE OmtDashboard -----------------------------
(***************************************************************************)
(* omt's terminal UI (bins/omt/src/tui.rs) over the scheduler it starts:   *)
(* prompt, plan, run, end.  One iteration of its loop draws, handles at    *)
(* most one key, takes the events of the bus until there is none or some   *)
(* have been lost, and looks whether the scheduler is over.  The bus       *)
(* (events.rs) is a broadcast channel that drops the oldest event when it  *)
(* is full.                                                                *)
(*                                                                         *)
(* The scheduler runs beside the loop.  Of OmtScheduler it keeps the       *)
(* states of the tasks and the events; which tasks depend on which is left *)
(* open, and so are outputs, merges, team members and the list of runs.    *)
(* Prompts are model values; editing one key by key is in InputLine.       *)
(***************************************************************************)
EXTENDS SequenceParts, FiniteSets, SequencesExt

CONSTANTS
  PlanTask,     \* tasks of a plan; every run has fresh ids
  Prompt,       \* what the user types
  OmtCapacity,  \* broadcast::channel(256)
  MaxRuns       \* bound of the model: plans made

ASSUME DashboardBounds == OmtCapacity \in Nat \ {0} /\ MaxRuns \in Nat

VARIABLES
  screen,     \* AppPhase, or "gone" when the process has ended
  turnOf,     \* where the loop is: "key", "drain" or "check"
  view,       \* App.tasks: the state shown of each task, no task when cleared
  planned,    \* the run that App.tasks shows
  scheduler,  \* scheduler_handle: "none", "running" or "over"
  truth,      \* the scheduler's states of the tasks
  unannounced,\* tasks it has ended without an event
  exhausted,  \* the token budget is used up
  feed,       \* what event_rx has not taken: [run, task, says]
  lagging,    \* the next try_recv says Lagged
  missed,     \* this run has lost an event
  draft,      \* App.input, history_draft and history_idx (0 is none)
  history     \* App.history

dashVars == <<screen, turnOf, view, planned, scheduler, truth, unannounced, exhausted,
              feed, lagging, missed, draft, history>>
runVars == <<planned, scheduler, truth, unannounced, exhausted>>
feedVars == <<feed, lagging, missed>>
lineVarsOmt == <<draft, history>>

NoPrompt == "none"
Ended == {"Completed", "Failed", "Cancelled"}
Waits == {"Pending", "Retrying"}
NoView == [t \in {} |-> "Pending"]

DashTypeOK ==
  /\ screen \in {"Input", "PlanReview", "Running", "Finished", "gone"}
  /\ turnOf \in {"key", "drain", "check"}
  /\ DOMAIN view \subseteq PlanTask
  /\ scheduler \in {"none", "running", "over"}
  /\ truth \in [PlanTask -> Ended \cup Waits \cup {"Running"}]
  /\ Len(feed) <= OmtCapacity
  /\ draft.at \in 0 .. Len(history)

DashInit ==
  /\ screen = "Input" /\ turnOf = "key" /\ view = NoView /\ planned = 0
  /\ scheduler = "none" /\ truth = [t \in PlanTask |-> "Pending"]
  /\ unannounced = {} /\ exhausted = FALSE
  /\ feed = <<>> /\ lagging = FALSE /\ missed = FALSE
  /\ draft = [line |-> NoPrompt, kept |-> NoPrompt, at |-> 0] /\ history = <<>>
------------------------------------------------------------------------------
(***************************************************************************)
(* Keys.                                                                   *)
(***************************************************************************)
Key(s) == screen = s /\ turnOf = "key" /\ turnOf' = "drain"

NoKey ==
  /\ screen # "gone" /\ turnOf = "key" /\ turnOf' = "drain"
  /\ UNCHANGED <<screen, view, runVars, feedVars, lineVarsOmt>>

Types ==
  /\ Key("Input")
  /\ \E p \in Prompt : draft' = [draft EXCEPT !.line = p]
  /\ UNCHANGED <<screen, view, runVars, feedVars, history>>

\* Up: the first time, what is being typed is kept.
HistoryUp ==
  /\ Key("Input") /\ history # <<>>
  /\ LET at == CASE draft.at = 0 -> Len(history)
                 [] draft.at = 1 -> 1
                 [] OTHER -> draft.at - 1
     IN  draft' = [line |-> history[at], at |-> at,
                   kept |-> IF draft.at = 0 THEN draft.line ELSE draft.kept]
  /\ UNCHANGED <<screen, view, runVars, feedVars, history>>

HistoryDown ==
  /\ Key("Input") /\ draft.at > 0
  /\ draft' = IF draft.at < Len(history)
                THEN [draft EXCEPT !.at = @ + 1, !.line = history[draft.at + 1]]
                ELSE [line |-> draft.kept, kept |-> NoPrompt, at |-> 0]
  /\ UNCHANGED <<screen, view, runVars, feedVars, history>>

\* Enter: the loop waits for the plan, whatever the scheduler or the bus do; without
\* one the error ends the program.
SubmitPrompt ==
  /\ Key("Input") /\ draft.line # NoPrompt /\ planned < MaxRuns
  /\ history' = Append(Kept({i \in DOMAIN history : history[i] # draft.line}, history), draft.line)
  /\ draft' = [line |-> NoPrompt, kept |-> NoPrompt, at |-> 0]
  /\ \/ /\ screen' = "PlanReview"
        /\ view' = [t \in PlanTask |-> "Pending"]
        /\ planned' = planned + 1
     \/ screen' = "gone" /\ UNCHANGED <<view, planned>>
  /\ UNCHANGED <<scheduler, truth, unannounced, exhausted, feedVars>>

\* create_run, which may refuse the plan and end the program; then the scheduler.
Approve ==
  /\ Key("PlanReview")
  /\ \/ /\ screen' = "Running" /\ scheduler' = "running"
        /\ truth' = [t \in PlanTask |-> "Pending"]
        /\ unannounced' = {} /\ exhausted' = FALSE /\ missed' = lagging
     \/ screen' = "gone" /\ UNCHANGED <<scheduler, truth, unannounced, exhausted, missed>>
  /\ UNCHANGED <<view, planned, feed, lagging, lineVarsOmt>>

Reject ==
  /\ Key("PlanReview")
  /\ screen' = "Input" /\ view' = NoView
  /\ UNCHANGED <<runVars, feedVars, lineVarsOmt>>

NewRun ==
  /\ Key("Finished")
  /\ screen' = "Input" /\ view' = NoView
  /\ UNCHANGED <<runVars, feedVars, lineVarsOmt>>

\* Nobody waits for a scheduler that runs: it is gone with the process.
QuitDashboard ==
  /\ screen # "gone" /\ turnOf = "key"
  /\ screen' = "gone"
  /\ UNCHANGED <<turnOf, view, runVars, feedVars, lineVarsOmt>>
------------------------------------------------------------------------------
(***************************************************************************)
(* The rest of the iteration.                                              *)
(***************************************************************************)

\* Mutant: events count only while the run is on the screen as running.
ShowsWhileRunning(e) ==
  IF screen = "Running" /\ e.run = planned /\ e.task \in DOMAIN view
    THEN [view EXCEPT ![e.task] = e.says] ELSE view

\* apply_event: an id that is not shown is ignored.
Shows(e) ==
  IF e.run = planned /\ e.task \in DOMAIN view THEN [view EXCEPT ![e.task] = e.says] ELSE view

DrainOne ==
  /\ screen # "gone" /\ turnOf = "drain" /\ ~ lagging /\ feed # <<>>
  /\ view' = Shows(Head(feed))
  /\ feed' = Tail(feed)
  /\ UNCHANGED <<screen, turnOf, runVars, lagging, missed, lineVarsOmt>>

\* while let Ok: Lagged ends it as well as Empty, until the next iteration.
DrainEnds ==
  /\ screen # "gone" /\ turnOf = "drain" /\ (lagging \/ feed = <<>>)
  /\ turnOf' = "check" /\ lagging' = FALSE
  /\ UNCHANGED <<screen, view, runVars, feed, missed, lineVarsOmt>>

\* is_finished; how it ended is not looked at.
CheckScheduler ==
  /\ screen # "gone" /\ turnOf = "check"
  /\ turnOf' = "key"
  /\ IF scheduler = "over" THEN screen' = "Finished" /\ scheduler' = "none"
     ELSE UNCHANGED <<screen, scheduler>>
  /\ UNCHANGED <<view, planned, truth, unannounced, exhausted, feedVars, lineVarsOmt>>
------------------------------------------------------------------------------
(***************************************************************************)
(* The scheduler.                                                          *)
(***************************************************************************)
Running(t) == truth[t] = "Running"
RunsOn == scheduler = "running" /\ screen # "gone"

Announce(t, says) ==
  /\ feed' = Append(IF Len(feed) < OmtCapacity THEN feed ELSE Tail(feed),
                    [run |-> planned, task |-> t, says |-> says])
  /\ lagging' = (lagging \/ Len(feed) = OmtCapacity)
  /\ missed' = (missed \/ Len(feed) = OmtCapacity)

Becomes(t, s) == truth' = [truth EXCEPT ![t] = s]

Launches(t) ==
  /\ RunsOn /\ ~ exhausted /\ truth[t] \in Waits
  /\ Becomes(t, "Running") /\ Announce(t, "Running")
  /\ UNCHANGED <<screen, turnOf, view, planned, scheduler, unannounced, exhausted, lineVarsOmt>>

\* Success, or a failure that is tried again.
EndsAs(t, s) ==
  /\ RunsOn /\ Running(t)
  /\ Becomes(t, s) /\ Announce(t, s)
  /\ UNCHANGED <<screen, turnOf, view, planned, scheduler, unannounced, exhausted, lineVarsOmt>>

\* A failure takes the tasks that depend on it along.  The task is announced when it ran,
\* not when its worktree could not be made; what is cancelled with it never is.
Fails(t, dependents) ==
  /\ RunsOn /\ dependents \subseteq {d \in PlanTask \ {t} : truth[d] = "Pending"}
  /\ truth' = [d \in PlanTask |-> CASE d = t -> "Failed"
                                    [] d \in dependents -> "Cancelled"
                                    [] OTHER -> truth[d]]
  /\ \/ /\ Running(t)
        /\ Announce(t, "Failed") /\ unannounced' = unannounced \cup dependents
     \/ /\ truth[t] = "Pending" /\ ~ exhausted
        /\ unannounced' = unannounced \cup dependents \cup {t} /\ UNCHANGED feedVars
  /\ UNCHANGED <<screen, turnOf, view, planned, scheduler, exhausted, lineVarsOmt>>

\* The budget is used up: what has not ended is cancelled, task by task.
CancelsRest(t) ==
  /\ RunsOn /\ \A d \in PlanTask : ~ Running(d)
  /\ truth[t] \in Waits
  /\ exhausted' = TRUE
  /\ Becomes(t, "Cancelled") /\ Announce(t, "Cancelled")
  /\ UNCHANGED <<screen, turnOf, view, planned, scheduler, unannounced, lineVarsOmt>>

\* finalize; or an error (a file that cannot be written), at any moment.
SchedulerEnds ==
  /\ RunsOn
  /\ scheduler' = "over"
  /\ UNCHANGED <<screen, turnOf, view, planned, truth, unannounced, exhausted,
                 feedVars, lineVarsOmt>>

DashNext ==
  \/ NoKey
  \/ Types
  \/ HistoryUp
  \/ HistoryDown
  \/ SubmitPrompt
  \/ Approve
  \/ Reject
  \/ NewRun
  \/ QuitDashboard
  \/ DrainOne
  \/ DrainEnds
  \/ CheckScheduler
  \/ \E t \in PlanTask :
       \/ Launches(t)
       \/ \E s \in {"Completed", "Retrying"} : EndsAs(t, s)
       \/ \E dependents \in SUBSET PlanTask : Fails(t, dependents)
       \/ CancelsRest(t)
  \/ SchedulerEnds

DashSpec == DashInit /\ [][DashNext]_dashVars
------------------------------------------------------------------------------
(***************************************************************************)
(* What is drawn.                                                          *)
(***************************************************************************)

\* draw_task_list: the icon in front of a task.
IconOf(state) ==
  CASE state = "Completed" -> "check"
    [] state = "Running"   -> "spinner"
    [] state = "Retrying"  -> "again"
    [] state = "Failed"    -> "cross"
    [] state = "Cancelled" -> "slash"
    [] state = "Pending"   -> "circle"

Counted(states) == Cardinality({t \in DOMAIN view : view[t] \in states})

\* draw_header and draw_finished_footer of a finished run.
Totals == [completed |-> Counted({"Completed"}), failed |-> Counted({"Failed", "Cancelled"}),
           of |-> Cardinality(DOMAIN view)]
------------------------------------------------------------------------------
(***************************************************************************)
(* Properties.                                                             *)
(***************************************************************************)

\* What the UI shows of a finished run once it has taken every event is the truth, also
\* of events that come after it has noticed the end; unless the bus has lost an event
\* of this run.  Tasks that the scheduler ended without an event are the exception: they are
\* listed as if they still waited, and the totals do not count them as failed.
ShownIsTrue ==
  (screen = "Finished" /\ feed = <<>> /\ ~ missed) =>
    /\ \A t \in DOMAIN view :
         IF t \in unannounced THEN view[t] \in Waits ELSE IconOf(view[t]) = IconOf(truth[t])
    /\ Totals = [completed |-> Cardinality({t \in PlanTask : truth[t] = "Completed"}),
                 failed    |-> Cardinality({t \in PlanTask \ unannounced :
                                              truth[t] \in {"Failed", "Cancelled"}}),
                 of        |-> Cardinality(PlanTask)]
=============================================================================
