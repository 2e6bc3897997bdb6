------------------------------ MODULE AgentTurn ------------------------------
(***************************************************************************)
(* The agent's loop over one session: AgentRuntime::run_turn and           *)
(* SessionRuntime::execute_turn (libs/runtime), the log and state.toml of  *)
(* the session (libs/session), and the two programs that drive them: `omh  *)
(* run [--continue]`, one input per process, and the TUI.                  *)
(*                                                                         *)
(* log is session.jsonl, messages the vector that run_turn works on.  An   *)
(* action is what run_turn does between two effects that a crash or a kill *)
(* tells apart.  The provider and the tools choose their outcomes freely;  *)
(* what the texts say, tokens, telemetry and hooks that only observe are   *)
(* left out.  omt kills and continues `omh run` in just this way when it   *)
(* is interrupted and resumed.                                             *)
(*                                                                         *)
(* This is the session as long as one turn writes its file at a time: the  *)
(* TUI's updates of the file's header (tokens, title, agent), which copy   *)
(* the whole file beside a running turn, are not here, and neither are     *)
(* half-written lines and appends of an @mention that fail, which the code *)
(* ignores.                                                                *)
(***************************************************************************)
EXTENDS Integers, Sequences, FiniteSets

CONSTANTS
  MaxTurns,     \* AgentRuntime.max_turns
  KeepRecent,   \* COMPACTION_KEEP_RECENT
  MaxRetries,   \* MAX_RETRIES of one provider request
  MaxTools,     \* bound of the model: tool calls in one answer
  MaxInputs,    \* bound of the model: inputs of a session
  MaxFaults     \* bound of the model: crashes, kills and failed writes of a session

ASSUME BoundsAssumption ==
  /\ MaxTurns \in Nat /\ MaxRetries \in Nat
  /\ KeepRecent \in Nat \ {0}
  /\ MaxTools \in Nat /\ MaxInputs \in Nat /\ MaxFaults \in Nat

VARIABLES
  log,       \* the messages in session.jsonl
  saved,     \* turn_counter in state.toml
  mode,      \* who drives this turn: "run" (omh run) or "tui"
  pc,        \* where the turn is
  messages,  \* run_turn's working copy of the conversation
  start,     \* start_turn: current_turn when the input arrived
  turn,      \* current_turn
  attempt,   \* retries of the current provider request
  todo,      \* tool calls of the current answer still to be run
  done,      \* results gathered for it
  outcome,   \* how the turn ended
  answers,   \* provider answers so far: names the calls of each
  inputs,    \* inputs so far (bookkeeping of the model)
  faults     \* crashes, kills and failed writes so far (bookkeeping of the model)

vars == <<log, saved, mode, pc, messages, start, turn, attempt, todo, done,
          outcome, answers, inputs, faults>>

counts == <<start, turn, attempt, todo, done>>
driver == <<saved, mode, inputs, faults>>

Talk == INSTANCE Conversation

Summary == [kind |-> "summary", call |-> 0, n |-> 0]

\* What run_turn works on may begin with the summary of a compaction.
Shown == Talk!Message \cup {Summary}

ControlOK ==
  /\ log \in Seq(Talk!Message)
  /\ saved \in Nat
  /\ mode \in {"run", "tui"}
  /\ pc \in {"idle", "get", "input", "loop", "call", "answer", "tools", "end",
             "mention", "delegate"}
  /\ start \in Nat /\ turn \in Nat
  /\ attempt \in 0 .. MaxRetries
  /\ todo \in 0 .. MaxTools /\ done \in 0 .. MaxTools
  /\ outcome \in {"none", "answered", "limit", "failed"}
  /\ answers \in Nat
  /\ inputs \in 0 .. MaxInputs
  /\ faults \in 0 .. MaxFaults

TypeOK == ControlOK /\ messages \in Seq(Shown)

Init ==
  /\ log = <<>> /\ saved = 0
  /\ mode = "run" /\ pc = "idle"
  /\ messages = <<>>
  /\ start = 0 /\ turn = 0 /\ attempt = 0
  /\ todo = 0 /\ done = 0
  /\ outcome = "none"
  /\ answers = 0 /\ inputs = 0 /\ faults = 0

\* AgentRuntime lives as long as one input; nothing of it outlives a turn.
DropRuntime ==
  /\ messages' = <<>>
  /\ start' = 0 /\ turn' = 0 /\ attempt' = 0
  /\ todo' = 0 /\ done' = 0
  /\ outcome' = "none"
------------------------------------------------------------------------------
(***************************************************************************)
(* Preparing the messages of a request.                                    *)
(***************************************************************************)

\* The results that no earlier message of s has called for.
Orphans(s) ==
  {i \in DOMAIN s :
     /\ s[i].kind = "results"
     /\ ~ \E j \in 1 .. i - 1 : s[j].kind = "calls" /\ s[j].call = s[i].call}

\* Mutant: orphaned results are sent.
SanitizeNothing(s) == s

\* sanitize_messages.
Sanitize(s) ==
  LET kept[i \in 0 .. Len(s)] ==
        IF i = 0 THEN <<>>
        ELSE IF i \in Orphans(s) THEN kept[i-1]
        ELSE Append(kept[i-1], s[i])
  IN  kept[Len(s)]

\* maybe_compact_messages: all but the last KeepRecent messages become a summary,
\* if the context is too long and the provider can summarize it.
Compactions(s) ==
  {s} \cup (IF Len(s) <= KeepRecent THEN {}
            ELSE {<<Summary>> \o SubSeq(s, Len(s) - KeepRecent + 1, Len(s))})
------------------------------------------------------------------------------
(***************************************************************************)
(* One turn.                                                               *)
(***************************************************************************)

\* `omh run` counts its turns from 0, the TUI from the session's counter.
Submit(m) ==
  /\ pc = "idle"
  /\ inputs < MaxInputs
  /\ inputs' = inputs + 1
  /\ mode' = m
  /\ turn' = IF m = "tui" THEN saved ELSE 0
  /\ start' = turn'
  /\ pc' = "get"
  /\ UNCHANGED <<log, saved, messages, attempt, todo, done, outcome, answers, faults>>

\* session_manager.get; memories, skills and hooks are looked up after it.
ReadLog ==
  /\ pc = "get"
  /\ messages' = log
  /\ pc' = "input"
  /\ UNCHANGED <<log, driver, counts, outcome, answers>>

\* Unknown agent, no provider, or no memories: the turn ends before it begins.
Refuse ==
  /\ pc \in {"get", "input"}
  /\ outcome' = "failed"
  /\ pc' = "end"
  /\ UNCHANGED <<log, driver, messages, counts, answers>>

AppendInput ==
  /\ pc = "input"
  /\ log' = Append(log, Talk!Input)
  /\ messages' = Append(messages, Talk!Input)
  /\ pc' = "loop"
  /\ UNCHANGED <<driver, counts, outcome, answers>>

\* Mutant: the limit stops the tools of the last answer too.
LimitBeforeTools ==
  /\ pc \in {"loop", "tools"} /\ turn >= MaxTurns
  /\ outcome' = "limit"
  /\ pc' = "end"
  /\ UNCHANGED <<log, driver, messages, counts, answers>>

LimitReached ==
  /\ pc = "loop" /\ turn >= MaxTurns
  /\ outcome' = "limit"
  /\ pc' = "end"
  /\ UNCHANGED <<log, driver, messages, counts, answers>>

StartCall ==
  /\ pc = "loop" /\ turn < MaxTurns
  /\ turn' = turn + 1
  /\ attempt' = 0
  /\ \E s \in Compactions(messages) : messages' = Sanitize(s)
  /\ pc' = "call"
  /\ UNCHANGED <<log, driver, start, todo, done, outcome, answers>>

\* Mutants: one retry too many; the attempts are counted anew when they are used up.
RetryOnceMore ==
  /\ pc = "call"
  /\ attempt <= MaxRetries
  /\ attempt' = attempt + 1
  /\ UNCHANGED <<log, driver, pc, messages, start, turn, todo, done, outcome, answers>>


\* The provider refuses with an error worth retrying; the delay is slept.
RetryCall ==
  /\ pc = "call"
  /\ attempt < MaxRetries
  /\ attempt' = attempt + 1
  /\ UNCHANGED <<log, driver, pc, messages, start, turn, todo, done, outcome, answers>>

\* An error not worth retrying, no retries left, no model to fall back to, or a
\* stream that breaks off: run_turn returns the error.
CallFails ==
  /\ pc = "call"
  /\ outcome' = "failed"
  /\ pc' = "end"
  /\ UNCHANGED <<log, driver, messages, counts, answers>>

\* assistant_msg, from the moment the stream has ended until its first tool runs.
AssistantMsg == IF todo = 0 THEN Talk!Text(answers) ELSE Talk!Calls(answers, todo)

\* The stream ends: a text, or a message with tool calls.
CallAnswers ==
  /\ pc = "call"
  /\ answers' = answers + 1
  /\ todo' \in 0 .. MaxTools
  /\ done' = 0
  /\ messages' = Append(messages, AssistantMsg')
  /\ pc' = "answer"
  /\ UNCHANGED <<log, driver, start, turn, attempt, outcome>>

\* The answer is persisted before any of its tools runs.
AppendAnswer ==
  /\ pc = "answer"
  /\ log' = Append(log, AssistantMsg)
  /\ IF todo = 0 THEN pc' = "end" /\ outcome' = "answered"
                 ELSE pc' = "tools" /\ UNCHANGED outcome
  /\ UNCHANGED <<driver, messages, counts, answers>>

\* Mutant: a denied call gets no result.
DenySilently ==
  /\ pc = "tools" /\ todo > 0
  /\ todo' = todo - 1
  /\ done' \in {done, done + 1}
  /\ UNCHANGED <<log, driver, pc, messages, start, turn, attempt, outcome, answers>>

\* A hook denies the call, or the tool runs and succeeds or fails: each way the call
\* gets a result.
RunTool ==
  /\ pc = "tools" /\ todo > 0
  /\ todo' = todo - 1
  /\ done' = done + 1
  /\ UNCHANGED <<log, driver, pc, messages, start, turn, attempt, outcome, answers>>

\* Mutant: the results are sent to the provider and not persisted.
KeepResults ==
  /\ pc = "tools" /\ todo = 0
  /\ messages' = Append(messages, Talk!Results(answers, done))
  /\ pc' = "loop"
  /\ UNCHANGED <<log, driver, counts, outcome, answers>>

AppendResults ==
  /\ pc = "tools" /\ todo = 0
  /\ messages' = Append(messages, Talk!Results(answers, done))
  /\ log' = Append(log, Talk!Results(answers, done))
  /\ pc' = "loop"
  /\ UNCHANGED <<driver, counts, outcome, answers>>

\* The session file cannot be written: run_turn returns the error.
AppendFails ==
  /\ pc \in {"input", "answer"} \/ (pc = "tools" /\ todo = 0)
  /\ faults < MaxFaults
  /\ faults' = faults + 1
  /\ outcome' = "failed"
  /\ pc' = "end"
  /\ UNCHANGED <<log, saved, mode, inputs, messages, counts, answers>>

\* SessionRuntime saves the counter whatever the outcome; `omh run` does not.
EndTurn ==
  /\ pc = "end"
  /\ saved' = IF mode = "tui" THEN turn ELSE saved
  /\ DropRuntime
  /\ pc' = "idle"
  /\ UNCHANGED <<log, mode, answers, inputs, faults>>
------------------------------------------------------------------------------
(***************************************************************************)
(* `@agent prompt` in the TUI: the session logs a call of spawn_agent and  *)
(* its result around the turn of a sub-agent, which has its own session.   *)
(***************************************************************************)
MentionInput ==
  /\ pc = "idle"
  /\ inputs < MaxInputs
  /\ inputs' = inputs + 1
  /\ mode' = "tui"
  /\ log' = Append(log, Talk!Input)
  /\ pc' = "mention"
  /\ UNCHANGED <<saved, messages, counts, outcome, answers, faults>>

MentionCall ==
  /\ pc = "mention"
  /\ answers' = answers + 1
  /\ log' = Append(log, Talk!Calls(answers', 1))
  /\ pc' = "delegate"
  /\ UNCHANGED <<driver, messages, counts, outcome>>

\* The sub-agent's turn has succeeded or failed.
MentionResult ==
  /\ pc = "delegate"
  /\ log' = Append(log, Talk!Results(answers, 1))
  /\ pc' = "idle"
  /\ UNCHANGED <<driver, messages, counts, outcome, answers>>
------------------------------------------------------------------------------
\* The process dies, is killed, or the user quits: only the files are left.
Crash ==
  /\ pc # "idle"
  /\ faults < MaxFaults
  /\ faults' = faults + 1
  /\ DropRuntime
  /\ pc' = "idle"
  /\ UNCHANGED <<log, saved, mode, answers, inputs>>

Turn ==
  \/ ReadLog \/ Refuse \/ AppendInput
  \/ LimitReached \/ StartCall
  \/ RetryCall \/ CallFails \/ CallAnswers \/ AppendAnswer
  \/ RunTool \/ AppendResults
  \/ EndTurn
  \/ MentionCall \/ MentionResult

User == (\E m \in {"run", "tui"} : Submit(m)) \/ MentionInput

Next == Turn \/ User \/ AppendFails \/ Crash

\* The runtime keeps polling the turn, the provider ends its stream or breaks it off,
\* and tools and sub-agents return.  Users and crashes are free.
Spec     == Init /\ [][Next]_vars
LiveSpec == Spec /\ WF_vars(Turn)
------------------------------------------------------------------------------
(***************************************************************************)
(* Properties.                                                             *)
(***************************************************************************)

\* No request shows the provider a tool result without its call, although the
\* compaction may have cut between the two (sanitize_messages: "This prevents 400
\* errors from the API.").
NoOrphanResults == pc = "call" => Orphans(messages) = {}

IsEndOf(s, t) ==
  Len(s) <= Len(t) /\ s = SubSeq(t, Len(t) - Len(s) + 1, Len(t))

Unsummarized == IF messages # <<>> /\ messages[1] = Summary THEN Tail(messages) ELSE messages

\* Whenever the loop decides, what it would show the provider is the end of what
\* is on disk, without a gap, and all of it unless it begins with a summary: a
\* process that continues the session knows at least as much.
ShownIsEndOfLog ==
  pc \in {"loop", "call", "tools"} =>
    /\ IsEndOf(Unsummarized, log)
    /\ messages # <<>> /\ messages[1] # Summary => messages = log

Unanswered ==
  {i \in DOMAIN log :
     log[i].kind = "calls" /\ (i = Len(log) \/ log[i+1].kind # "results")}

\* Tool calls without results are left behind by crashes and failed writes only, one
\* answer by each: no limit, no denied tool and no failing tool leaves one.
UnansweredByFaultOnly ==
  Cardinality(Unanswered) <= faults + (IF pc \in {"tools", "delegate"} THEN 1 ELSE 0)

\* docs/configuration.md, max_turns: "Maximum tool-call loops per turn".  A turn that
\* is stopped by the limit has made that many loops.
LimitIsPerInput == outcome = "limit" => turn - start >= MaxTurns

\* The log is a conversation, through crashes, limits and failures.
ImplementsConversation == Talk!Spec

=============================================================================
