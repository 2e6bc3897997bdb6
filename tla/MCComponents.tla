------------------------------ MODULE MCComponents ------------------------------
(***************************************************************************)
(* Twelve components for TLC, one run for all of them: none of them reads  *)
(* or writes what another one does, so a behaviour has the steps of one,   *)
(* `component`, and the others stay as they began.  The states of the run  *)
(* are the sum of theirs, not the product.                                 *)
(***************************************************************************)
EXTENDS TeamDispatch, SessionFile, TuiTurns, Background, ToolGate, McpClient,
        ProviderStream, ProviderRequest, InputLine, OmtDashboard, MemoryStore, Transcript,
        TLC

VARIABLE component

ButTeam == <<component, fileVars, tuiVars, bgVars, gateVars, mcpVars, streamVars,
             requestVars, lineVars, dashVars, memVars, textVars>>
ButFile == <<component, teamVars, tuiVars, bgVars, gateVars, mcpVars, streamVars,
             requestVars, lineVars, dashVars, memVars, textVars>>
ButTui == <<component, teamVars, fileVars, bgVars, gateVars, mcpVars, streamVars,
            requestVars, lineVars, dashVars, memVars, textVars>>
ButBg == <<component, teamVars, fileVars, tuiVars, gateVars, mcpVars, streamVars,
           requestVars, lineVars, dashVars, memVars, textVars>>
ButGate == <<component, teamVars, fileVars, tuiVars, bgVars, mcpVars, streamVars,
             requestVars, lineVars, dashVars, memVars, textVars>>
ButMcp == <<component, teamVars, fileVars, tuiVars, bgVars, gateVars, streamVars,
            requestVars, lineVars, dashVars, memVars, textVars>>
ButStream == <<component, teamVars, fileVars, tuiVars, bgVars, gateVars, mcpVars,
               requestVars, lineVars, dashVars, memVars, textVars>>
ButRequest == <<component, teamVars, fileVars, tuiVars, bgVars, gateVars, mcpVars,
                streamVars, lineVars, dashVars, memVars, textVars>>
ButLine == <<component, teamVars, fileVars, tuiVars, bgVars, gateVars, mcpVars,
             streamVars, requestVars, dashVars, memVars, textVars>>
ButDash == <<component, teamVars, fileVars, tuiVars, bgVars, gateVars, mcpVars,
             streamVars, requestVars, lineVars, memVars, textVars>>
ButMem == <<component, teamVars, fileVars, tuiVars, bgVars, gateVars, mcpVars,
            streamVars, requestVars, lineVars, dashVars, textVars>>
ButText == <<component, teamVars, fileVars, tuiVars, bgVars, gateVars, mcpVars,
             streamVars, requestVars, lineVars, dashVars, memVars>>

ComponentsInit ==
  /\ component \in {"team", "session", "tui", "background", "gate", "mcp",
                   "stream", "request", "line", "dashboard", "memory", "transcript"}
  /\ TeamInit /\ FileInit /\ TuiInit /\ BgInit /\ GateInit /\ McpInit
  /\ StreamInit /\ RequestInit /\ LineInit /\ DashInit /\ MemInit /\ TextInit

ComponentsNext ==
  \/ component = "team" /\ TeamNext /\ UNCHANGED ButTeam
  \/ component = "session" /\ FileNext /\ UNCHANGED ButFile
  \/ component = "tui" /\ TuiNext /\ UNCHANGED ButTui
  \/ component = "background" /\ BgNext /\ UNCHANGED ButBg
  \/ component = "gate" /\ GateNext /\ UNCHANGED ButGate
  \/ component = "mcp" /\ McpNext /\ UNCHANGED ButMcp
  \/ component = "stream" /\ StreamNext /\ UNCHANGED ButStream
  \/ component = "request" /\ RequestNext /\ UNCHANGED ButRequest
  \/ component = "line" /\ LineNext /\ UNCHANGED ButLine
  \/ component = "dashboard" /\ DashNext /\ UNCHANGED ButDash
  \/ component = "memory" /\ MemNext /\ UNCHANGED ButMem
  \/ component = "transcript" /\ TextNext /\ UNCHANGED ButText

componentsVars == <<component, teamVars, fileVars, tuiVars, bgVars, gateVars, mcpVars,
                    streamVars, requestVars, lineVars, dashVars, memVars, textVars>>

ComponentsSpec == ComponentsInit /\ [][ComponentsNext]_componentsVars

\* One job of the team is tried again, the other is not.
MCMaxSends == [j \in Job |-> IF j = "j1" THEN 2 ELSE 1]

Entry(facts, padded) == [facts |-> facts, padded |-> padded]
MCTexts == {Entry({1}, FALSE), Entry({1}, TRUE), Entry({1, 2}, FALSE)}

MCSlashCommand == {<<"/", "a">>, <<"/", "w1", "w2">>}
MCNoArgument == {<<"/", "a">>}
MCExplicit == {<<"@", "a">>}
MCKnown == {<<"@", "a">>, <<"@", "w1", "w2">>}
MCFile == {<<"@", "a", "a">>}

\* Every component's variables have their types, and counters stay in their bounds:
\* no member of a team is given more than its capacity, the event bus never holds more
\* than it was made for, the cursor of the input line is inside its text, and the window
\* on the transcript inside the rows that were drawn, which a scroll offset may pass only
\* until the next frame.
ComponentsTypeOK ==
  /\ component = "team" => TeamTypeOK
  /\ component = "session" => FileTypeOK
  /\ component = "tui" => TuiTypeOK
  /\ component = "background" => BgTypeOK
  /\ component = "gate" => GateTypeOK
  /\ component = "mcp" => McpTypeOK
  /\ component = "stream" => StreamTypeOK
  /\ component = "request" => RequestTypeOK
  /\ component = "line" => LineTypeOK
  /\ component = "dashboard" => DashTypeOK
  /\ component = "memory" => MemTypeOK
  /\ component = "transcript" => TextTypeOK

(***************************************************************************)
(* The components' invariants, each stated of the steps of its component.  *)
(***************************************************************************)

\* The omt team: a member's count of tasks is what it was given and not gave back.
TeamKeepsSlots == component = "team" => SlotsAreConserved

\* The session file: beside rewrites it loads, its messages stay in order, and none is
\* lost but to a rewrite that had read the file before; except after a death, and after
\* writes that came between the emptying and the writing of a rewrite.
SessionFileLoads == component = "session" => LoadsUnlessCrashed /\ OrderKept /\ LostToRewriteOnly

\* The TUI: the input comes back after every turn, and every request for consent is on
\* the screen or waiting for it exactly as long as its tool call waits.
TuiComesBack == component = "tui" => InputComesBack /\ RequestsAreAsked

\* Background subagents: the limit holds up to spawners that race, and a task's status
\* and result tell how it ended.
BackgroundLimit == component = "background" => LimitUpToRace
BackgroundStatus == component = "background" => StatusMatchesOutcome

\* The harness's hooks: a tool runs only as its agent's permissions allow.
GateHolds == component = "gate" => RunsOnlyAsPermitted

\* The MCP client: a caller gets the response to its own request, and the pipe is out
\* of step by no more than the stray lines it has had.
McpOwnResponse == component = "mcp" => OwnResponse /\ InStepUpToStrays

\* A provider's stream: an answer has what was sent, in order, and is finished when whole.
StreamAssembled == component = "stream" => AssembledInOrder /\ FinishedIsWhole

\* A provider's request: it says what the conversation says, and where the conversation has
\* results after their calls it pairs them; calls that have no results it leaves without.
RequestsValid == component = "request" => RequestsAreValid

\* The input line: the cursor is between characters, and a turn that begins has its line,
\* less the one agent it names.  (A line that begins no turn is not spoken of.)
LineSubmitted == component = "line" => CursorOnBoundary /\ TurnGetsItsLine

\* The dashboard of omt: what it shows of a run is so.
DashboardTrue == component = "dashboard" => ShownIsTrue

\* Memory: nothing the user has added is lost, and a recall has all of it.
MemoryKept == component = "memory" => NothingLost
MemoryRecalled == component = "memory" => RecallIsWhole

\* The transcript: what is copied is what was selected on the screen.
TranscriptCopies == component = "transcript" => CopiesTheSelection
================================================================================
