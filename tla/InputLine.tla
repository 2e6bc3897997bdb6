------------------------------- MODULE InputLine -------------------------------
(***************************************************************************)
(* The input line of omh's TUI (bins/omh/src/tui.rs, handle_key): the text *)
(* and a cursor that is an offset in bytes; the list of suggestions over   *)
(* it, which takes Enter before the line does and is renewed by edits but  *)
(* not by moves of the cursor; the list of models, which comes from a task *)
(* of its own whenever that is done; and what Enter makes of the text      *)
(* (input_intent.rs, mention_parser.rs, slash_input.rs, slash.rs).         *)
(*                                                                         *)
(* Text is a sequence of bytes: a blank, "@", "/", a letter "a" of one     *)
(* byte, a letter of two, "w1" "w2".  Up and Down in a list only move to   *)
(* the item that Enter then takes, which may be any.  The approval prompt  *)
(* and the turns are in TuiTurns; scrolling is left out.                   *)
(***************************************************************************)
EXTENDS Integers, Sequences, FiniteSets, SequencesExt, FiniteSetsExt

CONSTANTS
  SlashCommand, \* labels of slash commands and skills: "/" and letters
  NoArgument,   \* those that are taken at once: /models, /agents
  Explicit,     \* labels of agents a user may invoke: "@" and letters
  Known,        \* labels of all agents
  File,         \* labels of files
  MaxLength     \* bound of the model: bytes of the text that is added to

VARIABLES
  input,      \* App.input
  cursor,     \* App.cursor_position
  list,       \* App.suggestions: its trigger and labels
  loading,    \* models_task is there
  busy,       \* App.is_streaming
  asked       \* the turn that the last key has begun: its line, its agent, its prompt

lineVars == <<input, cursor, list, loading, busy, asked>>

Space == " "
WideLetter == <<"w1", "w2">>
Byte == {Space, "@", "/", "a", "w1", "w2"}
Char == {<<Space>>, <<"@">>, <<"/">>, <<"a">>, WideLetter}
NoList == [trigger |-> "none", items |-> {}]
NoTurn == [line |-> <<>>, prompt |-> <<>>, agent |-> {}]

Labels(first) == {label \in Seq(Byte) : label # <<>> /\ label[1] = first}

ASSUME LineBounds ==
  /\ SlashCommand \subseteq Labels("/") /\ NoArgument \subseteq SlashCommand
  /\ Known \cup File \subseteq Labels("@") /\ Explicit \subseteq Known
  /\ MaxLength \in Nat

LineTypeOK ==
  /\ input \in Seq(Byte) /\ cursor \in 0 .. Len(input)
  /\ list.trigger \in {"none", "Slash", "Agent", "File", "Model", "SwitchAgent"}
  /\ (list.trigger = "none") <=> (list.items = {})
  /\ loading \in BOOLEAN /\ busy \in BOOLEAN
  /\ asked # NoTurn => busy

LineInit ==
  /\ input = <<>> /\ cursor = 0
  /\ list = NoList /\ loading = FALSE /\ busy = FALSE /\ asked = NoTurn
------------------------------------------------------------------------------
(***************************************************************************)
(* mention_parser: offsets count from 0, as in the code.                   *)
(***************************************************************************)
ByteAt(text, offset) == text[offset + 1]
Slice(text, from, to) == SubSeq(text, from + 1, to)
OnBoundary(text, offset) ==
  offset \in 0 .. Len(text) /\ (offset < Len(text) => ByteAt(text, offset) # "w2")

IsMentionBoundary(text, offset) == offset = 0 \/ ByteAt(text, offset - 1) = Space

MentionEnd(text, from) ==
  Min({n \in from .. Len(text) - 1 : ByteAt(text, n) = Space} \cup {Len(text)})

\* Where mentions start (scan_mentions).
Mentions(text) ==
  {n \in 0 .. Len(text) - 1 : ByteAt(text, n) = "@" /\ IsMentionBoundary(text, n)}

\* active_mention_query: the start of the mention under the cursor.
ActiveMention(text, at) ==
  LET ats == {n \in 0 .. at - 1 : ByteAt(text, n) = "@"}
      start == Max(ats)
  IN  IF ats # {} /\ start \in Mentions(text) /\ Space \notin Range(Slice(text, start, at))
        THEN {start} ELSE {}
------------------------------------------------------------------------------
(***************************************************************************)
(* update_suggestions.                                                     *)
(***************************************************************************)
StartsWith(label, prefix) == IsPrefix(prefix, label)
ContainsText(label, part) == \E n \in 0 .. Len(label) : StartsWith(Slice(label, n, Len(label)), part)

\* Commands that contain the text; else agents, else files, for the mention.
Suggested(text, at) ==
  LET commands == {c \in SlashCommand : text # <<>> /\ text[1] = "/" /\ ContainsText(c, text)}
      typed == {Slice(text, start, at) : start \in ActiveMention(text, at)}
      agents == {a \in Known : \E t \in typed : StartsWith(a, t)}
      files == {f \in File : \E t \in typed : ContainsText(f, Tail(t))}
  IN  CASE commands # {} -> [trigger |-> "Slash", items |-> commands]
        [] commands = {} /\ agents # {} -> [trigger |-> "Agent", items |-> agents]
        [] commands = {} /\ agents = {} /\ files # {} -> [trigger |-> "File", items |-> files]
        [] OTHER -> NoList

Edit(text, at) ==
  /\ input' = text /\ cursor' = at
  /\ list' = Suggested(text, at) /\ asked' = NoTurn
  /\ UNCHANGED <<loading, busy>>

TypeChar(c) ==
  /\ Len(input) < MaxLength
  /\ Edit(Slice(input, 0, cursor) \o c \o Slice(input, cursor, Len(input)), cursor + Len(c))

\* The start of the character before, and of the one after, a position in the text.
\* Mutant: one byte back.
ByteBefore(text, at) == at - 1

Before(text, at) == Max({n \in 0 .. at - 1 : OnBoundary(text, n)})
After(text, at) == Min({n \in at + 1 .. Len(text) : OnBoundary(text, n)})

Backspace ==
  /\ cursor > 0
  /\ LET prev == Before(input, cursor)
     IN  Edit(Slice(input, 0, prev) \o Slice(input, After(input, prev), Len(input)), prev)

Delete ==
  /\ cursor < Len(input)
  /\ Edit(Slice(input, 0, cursor) \o Slice(input, After(input, cursor), Len(input)), cursor)

\* The list stays as it is.
MoveTo(at) == cursor' = at /\ asked' = NoTurn /\ UNCHANGED <<input, list, loading, busy>>

Left == cursor > 0 /\ MoveTo(Before(input, cursor))
Right == cursor < Len(input) /\ MoveTo(After(input, cursor))
------------------------------------------------------------------------------
(***************************************************************************)
(* Enter and Esc on a list.                                                *)
(***************************************************************************)
CloseList ==
  /\ list # NoList
  /\ list' = NoList /\ asked' = NoTurn
  /\ UNCHANGED <<input, cursor, loading, busy>>

\* A command with an argument is put in the line; one without is executed (TakeAndSubmit),
\* or with Tab put there as it is.
TakeCommand(label) ==
  /\ list.trigger = "Slash" /\ label \in list.items \ NoArgument
  /\ input' = Append(label, Space) /\ cursor' = Len(label) + 1
  /\ list' = NoList /\ asked' = NoTurn
  /\ UNCHANGED <<loading, busy>>

FillCommand(label) ==
  /\ list.trigger = "Slash" /\ label \in list.items \cap NoArgument
  /\ input' = label /\ cursor' = Len(label)
  /\ list' = NoList /\ asked' = NoTurn
  /\ UNCHANGED <<loading, busy>>

\* The mention that is under the cursor by now is replaced, if there is one.
TakeMention(label) ==
  /\ list.trigger \in {"Agent", "File"} /\ label \in list.items
  /\ Len(input) <= MaxLength
  /\ list' = NoList /\ asked' = NoTurn
  /\ IF ActiveMention(input, cursor) = {} THEN UNCHANGED <<input, cursor>>
     ELSE \E start \in ActiveMention(input, cursor) :
            /\ input' = Slice(input, 0, start) \o Append(label, Space)
                          \o Slice(input, MentionEnd(input, start), Len(input))
            /\ cursor' = start + Len(label) + 1
  /\ UNCHANGED <<loading, busy>>

\* set_active_model, switch_foreground_agent; what was typed meanwhile is cleared.
TakeChoice ==
  /\ list.trigger \in {"Model", "SwitchAgent"}
  /\ input' = <<>> /\ cursor' = 0
  /\ list' = NoList /\ asked' = NoTurn
  /\ UNCHANGED <<loading, busy>>

\* The models have come, or none (show_model_picker): over any list, at any moment.
ModelsArrive ==
  /\ loading
  /\ loading' = FALSE /\ asked' = NoTurn
  /\ list' \in {NoList, list, [trigger |-> "Model", items |-> {<<"model">>}]}
  /\ UNCHANGED <<input, cursor, busy>>
------------------------------------------------------------------------------
(***************************************************************************)
(* Enter on the line: InputIntentResolver::resolve and slash::dispatch.    *)
(***************************************************************************)
Trimmed(text) ==
  LET kept == {n \in DOMAIN text : text[n] # Space}
  IN  IF kept = {} THEN <<>> ELSE SubSeq(text, Min(kept), Max(kept))

\* parse_slash_invocation.
IsSlash(text) ==
  LET t == Trimmed(text) IN Len(t) > 1 /\ t[1] = "/" /\ t[2] # Space

MentionAt(text, start) == Slice(text, start, MentionEnd(text, start))

\* A set of numbers in their order.
InOrder(S) ==
  CHOOSE s \in [1 .. Cardinality(S) -> S] : \A m, n \in DOMAIN s : m < n => s[m] < s[n]

\* Where the segments end, and the next begins: at a mention, and after it.
SegmentEnds(text, starts) ==
  [k \in 0 .. 2 * Len(starts) + 1 |->
     CASE k = 0 -> 0
       [] k = 2 * Len(starts) + 1 -> Len(text)
       [] k % 2 = 1 /\ k < 2 * Len(starts) + 1 -> starts[(k + 1) \div 2]
       [] OTHER -> MentionEnd(text, starts[k \div 2])]

\* resolve_chat, of mentions that are not refused: a text, a mention, a text, and so on to
\* the end.  A text may be empty.
Segments(text) ==
  LET starts == InOrder(Mentions(text))
      last == 2 * Len(starts) + 1
      ends == SegmentEnds(text, starts)
      bytes == [k \in 1 .. last |-> Slice(text, ends[k - 1], ends[k])]
      kind(k) == CASE k % 2 = 1 -> "text"
                   [] k % 2 = 0 /\ bytes[k] \in Explicit -> "agent"
                   [] OTHER -> "file"
  IN  [k \in 1 .. last |-> [kind |-> kind(k), bytes |-> bytes[k]]]

\* Where an agent is named that the user may invoke.
Named(text) == {n \in Mentions(text) : MentionAt(text, n) \in Explicit}

\* Malformed, an agent that is not for users, or more than one.
Refused(text) ==
  \/ \E n \in Mentions(text) : MentionAt(text, n) \in {<<"@">>} \cup (Known \ Explicit)
  \/ Cardinality(Named(text)) > 1

\* prompt_text: without the agent.
PromptText(segments) ==
  Trimmed(FlattenSeq([k \in DOMAIN segments |->
                        IF segments[k].kind = "agent" THEN <<>> ELSE segments[k].bytes]))

\* explicit_agent: none or one.
AgentsIn(segments) ==
  LET agents == {k \in DOMAIN segments : segments[k].kind = "agent"}
  IN  {segments[k].bytes : k \in agents}

CommandOf(text) ==
  LET t == Trimmed(text)
      blanks == {n \in DOMAIN t : t[n] = Space}
  IN  SubSeq(t, 1, Min(blanks \cup {Len(t) + 1}) - 1)

\* show_agent_picker.
Agents == IF Explicit = {} THEN NoList ELSE [trigger |-> "SwitchAgent", items |-> Explicit]

\* start_agent_turn.  The line is lost while a turn streams, and when there is no harness,
\* provider or session to serve it: it was cleared before.
BeginTurn(text) ==
  LET segments == Segments(text) IN
  \/ UNCHANGED busy /\ asked' = NoTurn
  \/ /\ ~ busy /\ busy' = TRUE
     /\ asked' = [line |-> text, prompt |-> PromptText(segments), agent |-> AgentsIn(segments)]

\* /models: the task starts; /agents: a list; /effort: a notice.  A skill, with a prompt,
\* may begin a turn as well (start_skill_turn).  An unknown command is an error.
Dispatch(command) ==
  /\ asked' = NoTurn
  /\ \/ /\ command \in NoArgument
        /\ \/ loading' = TRUE /\ list' = NoList
           \/ list' = Agents /\ UNCHANGED loading
        /\ UNCHANGED busy
     \/ /\ command \in SlashCommand \ NoArgument
        /\ busy' \in {busy, TRUE} /\ list' = NoList
        /\ UNCHANGED loading
     \/ /\ command \notin SlashCommand
        /\ list' = NoList /\ UNCHANGED <<loading, busy>>

\* The line is cleared first, whatever comes of it.
Enter(text) ==
  /\ input' = <<>> /\ cursor' = 0
  /\ IF IsSlash(text) THEN Dispatch(CommandOf(text))
     ELSE /\ IF Refused(text) THEN UNCHANGED busy /\ asked' = NoTurn ELSE BeginTurn(text)
          /\ list' = NoList
          /\ UNCHANGED loading

SubmitLine == list = NoList /\ input # <<>> /\ Enter(input)

TakeAndSubmit(label) ==
  list.trigger = "Slash" /\ label \in list.items \cap NoArgument /\ Enter(label)

TurnOver ==
  busy /\ busy' = FALSE /\ asked' = NoTurn /\ UNCHANGED <<input, cursor, list, loading>>

LineNext ==
  \/ \E c \in Char : TypeChar(c)
  \/ Backspace
  \/ Delete
  \/ Left
  \/ Right
  \/ CloseList
  \/ \E label \in list.items :
       \/ TakeCommand(label)
       \/ FillCommand(label)
       \/ TakeMention(label)
       \/ TakeAndSubmit(label)
  \/ TakeChoice
  \/ ModelsArrive
  \/ SubmitLine
  \/ TurnOver

LineSpec == LineInit /\ [][LineNext]_lineVars
------------------------------------------------------------------------------
(***************************************************************************)
(* Properties.                                                             *)
(***************************************************************************)

\* Whatever is typed, moved over, completed and replaced: the cursor is between two
\* characters of the text there is now.  Every slice and every insertion of the next
\* key panics otherwise.
CursorOnBoundary == OnBoundary(input, cursor)

Without(text, start) ==
  Slice(text, 0, start) \o Slice(text, MentionEnd(text, start), Len(text))

\* A turn that begins has all of the line but the one agent that it names, who gets it;
\* nothing of the files it mentions, and of what is around a mention, is lost on the way
\* through the segments.  (A line that begins no turn is lost: BeginTurn, Refused.)
TurnGetsItsLine ==
  asked # NoTurn =>
    \/ /\ Named(asked.line) = {} /\ asked.agent = {}
       /\ asked.prompt = Trimmed(asked.line)
    \/ \E n \in Named(asked.line) :
         /\ Named(asked.line) = {n} /\ asked.agent = {MentionAt(asked.line, n)}
         /\ asked.prompt = Trimmed(Without(asked.line, n))
=============================================================================
