---------------------------- MODULE ProviderStream ----------------------------
(***************************************************************************)
(* The answer of a model as a stream of server-sent events, for the three  *)
(* APIs of libs/provider: Chat Completions and Responses                   *)
(* (openai_common.rs), and Anthropic (anthropic.rs).  The bytes come in    *)
(* chunks cut anywhere; the parser collects lines, keeps the calls that    *)
(* are open, and sends events to the runtime, which assembles the text and *)
(* the calls (agent_runtime.rs).                                           *)
(*                                                                         *)
(* An event on the wire is two pieces and the end of the line; a cut       *)
(* between the pieces of a wide text is a cut through a character.  A text *)
(* or a part of the arguments is the number of its event.  The model of    *)
(* the server writes first: when a chunk arrives makes no difference.      *)
(***************************************************************************)
EXTENDS Integers, Sequences, SequencesExt, FiniteSetsExt

CONSTANTS
  Api,         \* which of "chat", "responses", "anthropic"
  Call,        \* indexes of the tool calls of an answer
  MaxEvents,   \* bound of the model: events of an answer
  MaxChunk     \* bound of the model: pieces that arrive at once

ASSUME StreamBounds ==
  /\ Api \subseteq {"chat", "responses", "anthropic"} /\ Call \subseteq Nat
  /\ MaxEvents \in Nat /\ MaxChunk \in Nat \ {0}

VARIABLES
  api,
  script,     \* the server's events
  wire,       \* pieces on their way
  connected,    \* the server has not closed
  buffer,     \* pieces decoded and not yet a line
  data,       \* Anthropic: current_data, collected until an empty line
  answer      \* what parser and runtime have made of it

streamVars == <<api, script, wire, connected, buffer, data, answer>>

\* text_buffer, the ToolCallAccumulators, active_tool_calls, and how the loop ended.
Answer == [text : Seq(0 .. MaxEvents), calls : Seq([id : Call, args : Seq(1 .. MaxEvents)]),
           open : SUBSET Call, ended : {"no", "done", "error"}]

Garbled == 0
Piece(n, half) == [event |-> n, half |-> half, whole |-> TRUE]
EndOfLine == Piece(0, 0)

StreamTypeOK ==
  /\ api \in Api \cup {"none"} /\ connected \in BOOLEAN
  /\ Len(script) <= MaxEvents
  /\ answer \in Answer

StreamInit ==
  /\ api = "none" /\ script = <<>> /\ wire = <<>> /\ connected = TRUE
  /\ buffer = <<>> /\ data = <<>>
  /\ answer = [text |-> <<>>, calls |-> <<>>, open |-> {}, ended |-> "no"]
------------------------------------------------------------------------------
(***************************************************************************)
(* The server (not part of the repository): texts, and calls that start,   *)
(* get their arguments and, but for "chat", stop.  Anthropic closes one    *)
(* block before it opens the next; the others may mix calls.               *)
(***************************************************************************)
Event ==
  [type : {"text"}, wide : BOOLEAN, call : {0}] \cup
  [type : {"start", "args", "stop"}, wide : {FALSE}, call : Call] \cup
  [type : {"done"}, wide : {FALSE}, call : {0}]

Did(type, i) == \E n \in DOMAIN script : script[n].type = type /\ script[n].call = i
Opened == {i \in Call : Did("start", i) /\ ~ Did("stop", i)}
Finished == script # <<>> /\ Last(script).type = "done"

MayFollow(e) ==
  CASE e.type = "start" -> /\ ~ Did("start", e.call)
                           /\ api = "anthropic" => Opened = {}
    [] e.type \in {"args", "stop"} -> /\ e.call \in Opened
                                      /\ e.type = "stop" => api # "chat"
    [] OTHER -> TRUE

OnTheWire(n) ==
  <<Piece(n, 1), Piece(n, 2), EndOfLine>> \o (IF api = "anthropic" THEN <<EndOfLine>> ELSE <<>>)

ServerStarts(a) ==
  /\ api = "none"
  /\ api' = a
  /\ UNCHANGED <<script, wire, connected, buffer, data, answer>>

ServerSends(e) ==
  /\ api # "none" /\ connected /\ ~ Finished /\ Len(script) < MaxEvents
  /\ MayFollow(e)
  /\ script' = Append(script, e)
  /\ wire' = wire \o OnTheWire(Len(script) + 1)
  /\ UNCHANGED <<api, connected, buffer, data, answer>>

\* Also in the middle of an event.
ServerStops ==
  /\ connected /\ script # <<>>
  /\ connected' = FALSE
  /\ \E k \in 0 .. (IF Finished THEN 0 ELSE Len(OnTheWire(1))) :
       wire' = SubSeq(wire, 1, Len(wire) - k)
  /\ UNCHANGED <<api, script, buffer, data, answer>>
------------------------------------------------------------------------------
(***************************************************************************)
(* What an event does to the answer: emit_chunk and emit_event, and the    *)
(* runtime's loop over the events of the stream.                           *)
(***************************************************************************)

\* Mutant: every part of the arguments belongs to the call that started last.
LastCallOf(i, a) == IF a.calls = <<>> THEN {} ELSE {Last(a.calls).id}

\* Whose arguments these are.  A Responses delta names an item, not a call: its part
\* goes to any one call that is open.
CallOf(i, a) == IF api = "responses" THEN a.open ELSE a.open \cap {i}

WithArgs(calls, i, part) ==
  [k \in DOMAIN calls |-> IF calls[k].id = i THEN [calls[k] EXCEPT !.args = Append(@, part)]
                          ELSE calls[k]]

\* The answers that an event may lead to.
AfterEvent(n, whole, a) ==
  LET e == script[n] IN
  CASE e.type = "text" -> {[a EXCEPT !.text = Append(@, IF whole THEN n ELSE Garbled)]}
    [] e.type = "start" -> {[a EXCEPT !.open = @ \cup {e.call},
                                      !.calls = Append(@, [id |-> e.call, args |-> <<>>])]}
    [] e.type = "args" -> IF CallOf(e.call, a) = {} THEN {a}
                          ELSE {[a EXCEPT !.calls = WithArgs(@, i, n)] : i \in CallOf(e.call, a)}
    [] e.type = "stop" -> {[a EXCEPT !.open = @ \ {e.call}]}
    [] OTHER -> {[a EXCEPT !.open = {}, !.ended = "done"]}

\* The JSON of a line must be complete.
AfterLine(line, a) ==
  CASE line = <<>> -> {a}
    [] Len(line) = 1 -> {[a EXCEPT !.ended = "error"]}
    [] OTHER -> AfterEvent(line[1].event, line[1].whole /\ line[2].whole, a)
------------------------------------------------------------------------------
(***************************************************************************)
(* Receiving: spawn_chat_stream, spawn_responses_stream, and stream.       *)
(***************************************************************************)

\* from_utf8_lossy of one chunk: half a character at either end becomes U+FFFD.
Lossy(chunk) ==
  [k \in DOMAIN chunk |->
     LET p == chunk[k]
         cut == \/ p.half = 1 /\ k = Len(chunk)
                \/ p.half = 2 /\ k = 1
     IN  [p EXCEPT !.whole = ~ (cut /\ script[p.event].wide)]]

LineEnds == {n \in DOMAIN buffer : buffer[n] = EndOfLine}
HasLine == LineEnds # {}

\* push_chunk handles the lines of a chunk before the next one is read.
ReceiveChunk(n) ==
  /\ ~ connected /\ answer.ended = "no" /\ ~ HasLine
  /\ n <= Len(wire)
  /\ buffer' = buffer \o Lossy(SubSeq(wire, 1, n))
  /\ wire' = SubSeq(wire, n + 1, Len(wire))
  /\ UNCHANGED <<api, script, connected, data, answer>>

\* process_line; flush_event on Anthropic's empty lines.
ProcessLine ==
  /\ answer.ended = "no" /\ HasLine
  /\ LET end == Min(LineEnds)
         line == SubSeq(buffer, 1, end - 1)
     IN  /\ buffer' = SubSeq(buffer, end + 1, Len(buffer))
         /\ IF api = "anthropic" /\ line # <<>>
              THEN data' = data \o line /\ UNCHANGED answer
              ELSE data' = <<>> /\ answer' \in AfterLine(data \o line, answer)
  /\ UNCHANGED <<api, script, wire, connected>>

\* finish: what is left is a line too; then Done, also when the server never said so.
EndOfStream ==
  /\ ~ connected /\ answer.ended = "no" /\ wire = <<>> /\ ~ HasLine
  /\ buffer' = <<>> /\ data' = <<>>
  /\ \E a \in AfterLine(data \o buffer, answer) :
       answer' = IF a.ended = "no" THEN [a EXCEPT !.ended = "done", !.open = {}] ELSE a
  /\ UNCHANGED <<api, script, wire, connected>>

\* bytes_stream fails.
TransportFails ==
  /\ ~ connected /\ answer.ended = "no" /\ ~ HasLine
  /\ answer' = [answer EXCEPT !.ended = "error"]
  /\ UNCHANGED <<api, script, wire, connected, buffer, data>>

StreamNext ==
  \/ \E a \in Api : ServerStarts(a)
  \/ \E e \in Event : ServerSends(e)
  \/ ServerStops
  \/ \E n \in 1 .. MaxChunk : ReceiveChunk(n)
  \/ ProcessLine
  \/ EndOfStream
  \/ TransportFails

StreamSpec == StreamInit /\ [][StreamNext]_streamVars
------------------------------------------------------------------------------
(***************************************************************************)
(* Properties.                                                             *)
(***************************************************************************)

\* The events of a type and of some calls among the first n.
EventsOf(type, calls, n) ==
  LET upTo[i \in 0 .. n] ==
        IF i = 0 THEN <<>>
        ELSE IF script[i].type = type /\ script[i].call \in calls THEN Append(upTo[i - 1], i)
        ELSE upTo[i - 1]
  IN  upTo[n]

\* The answer as one piece, which is what complete makes of it.
SaidText == EventsOf("text", {0}, Len(script))
SaidCalls ==
  LET starts == EventsOf("start", Call, Len(script))
      args(i) == EventsOf("args", {i}, Len(script))
  IN  [k \in DOMAIN starts |-> [id |-> script[starts[k]].call, args |-> args(script[starts[k]].call)]]

\* Two calls were open at once, in the API whose deltas do not name their call.
Mixed ==
  /\ api = "responses"
  /\ \E n, m \in DOMAIN script :
       /\ n < m /\ script[n].type = "start" /\ script[m].type = "start"
       /\ ~ \E k \in n .. m : script[k].type = "stop" /\ script[k].call = script[n].call

\* However the bytes are cut into chunks and wherever the stream stops: what has been
\* assembled is a beginning of what the model said, text and calls in order and every
\* part of the arguments with its own call, but for the characters that a chunk cut in two
\* and for calls that the Responses API mixes.
AssembledInOrder ==
  /\ Len(answer.text) <= Len(SaidText)
  /\ \A k \in DOMAIN answer.text : answer.text[k] \in {SaidText[k]} \cup
                                     (IF script[SaidText[k]].wide THEN {Garbled} ELSE {})
  /\ Len(answer.calls) <= Len(SaidCalls)
  /\ \A k \in DOMAIN answer.calls :
       /\ answer.calls[k].id = SaidCalls[k].id
       /\ ~ Mixed => IsPrefix(answer.calls[k].args, SaidCalls[k].args)

\* A stream that the server finished and that ended well has brought everything.
FinishedIsWhole ==
  (answer.ended = "done" /\ Finished) =>
    /\ Len(answer.text) = Len(SaidText)
    /\ ~ Mixed => answer.calls = SaidCalls
=============================================================================
