---------------------------- MODULE ProviderRequest ----------------------------
(***************************************************************************)
(* What goes over the wire to a provider: the conversation a turn holds,   *)
(* as each API wants it (libs/provider: build_chat_payload and map_message *)
(* of Chat Completions, build_responses_payload of Responses, build_payload*)
(* of Anthropic), for the providers that choose between them by the name   *)
(* of the model (openai_compat.rs, copilot.rs).                            *)
(*                                                                         *)
(* A message is a role and its parts; a text stands for an image or a      *)
(* thought too.  The tools, the level of effort and the sampling settings  *)
(* are passed on and left out.                                             *)
(***************************************************************************)
EXTENDS SequenceParts, SequencesExt

CONSTANTS
  CallId,       \* ids of tool calls
  MaxUses,      \* bound of the model: calls of one answer
  MaxMessages   \* bound of the model: messages of the conversation

ASSUME RequestBounds == MaxUses \in Nat /\ MaxMessages \in Nat

VARIABLES conversation   \* CompletionRequest.messages

requestVars == <<conversation>>

Text == [type |-> "text", id |-> 0]
Use(i) == [type |-> "use", id |-> i]
Result(i) == [type |-> "result", id |-> i]
Part == {Text} \cup {Use(i) : i \in CallId} \cup {Result(i) : i \in CallId}

RequestTypeOK ==
  conversation \in Seq([role : {"system", "user", "assistant"}, parts : Seq(Part)])

RequestInit == conversation = <<>>

Parts(types, parts) ==
  LET upTo[n \in 0 .. Len(parts)] ==
        IF n = 0 THEN <<>>
        ELSE IF parts[n].type \in types THEN Append(upTo[n - 1], parts[n]) ELSE upTo[n - 1]
  IN  upTo[Len(parts)]

Item(role, parts) == [role |-> role, parts |-> parts]
------------------------------------------------------------------------------
(***************************************************************************)
(* The conversation, as run_turn makes it.  After a crash calls may be     *)
(* left without results, and where turns overlap in one session their      *)
(* messages come between each other.                                       *)
(***************************************************************************)
Says(role, parts) ==
  /\ Len(conversation) < MaxMessages
  /\ conversation' = Append(conversation, [role |-> role, parts |-> parts])

UserSays == Says("user", <<Text>>)

\* The text first, if there is one, then the calls in the order they started.
AssistantSays ==
  /\ conversation # <<>>
  /\ \E text \in {<<>>, <<Text>>}, ids \in BoundedSeq(CallId, MaxUses) :
       IsInjective(ids) /\ Says("assistant", text \o [k \in DOMAIN ids |-> Use(ids[k])])

Uses(k) == Parts({"use"}, conversation[k].parts)

ResultsOf(uses) == [k \in DOMAIN uses |-> Result(uses[k].id)]

\* One message with the results of all calls of an answer, once.
ResultsFollow ==
  \E k \in DOMAIN conversation :
    /\ Uses(k) # <<>>
    /\ \A j \in k + 1 .. Len(conversation) : conversation[j].parts # ResultsOf(Uses(k))
    /\ Says("user", ResultsOf(Uses(k)))

RequestNext == UserSays \/ AssistantSays \/ ResultsFollow

RequestSpec == RequestInit /\ [][RequestNext]_requestVars
------------------------------------------------------------------------------
(***************************************************************************)
(* The payloads: the items of each API, after its system message.          *)
(***************************************************************************)

\* Mutant: the results of a message are one item.
ChatItemsTogether(m) ==
  LET own == Parts({"text", "use"}, m.parts)
      results == Parts({"result"}, m.parts)
  IN  (IF own = <<>> THEN <<>> ELSE <<Item(m.role, own)>>) \o
      (IF results = <<>> THEN <<>> ELSE <<Item("tool", results)>>)

\* map_message: texts and calls are one item, every result an item of role tool.
ChatItems(m) ==
  LET own == Parts({"text"}, m.parts) \o Parts({"use"}, m.parts)
      results == Parts({"result"}, m.parts)
  IN  (IF own = <<>> THEN <<>> ELSE <<Item(m.role, own)>>) \o
      [k \in DOMAIN results |-> Item("tool", <<results[k]>>)]

\* build_responses_payload: of a user, the results and then one item with the rest; of
\* an assistant, an item per part.
ResponsesItems(m) ==
  LET results == Parts({"result"}, m.parts)
      texts == Parts({"text"}, m.parts)
  IN  CASE m.role = "user" ->
             [k \in DOMAIN results |-> Item("function_call_output", <<results[k]>>)] \o
             (IF texts = <<>> THEN <<>> ELSE <<Item("user", texts)>>)
        [] m.role = "assistant" ->
             LET own == Parts({"text", "use"}, m.parts)
             IN  [k \in DOMAIN own |-> Item(IF own[k] = Text THEN "assistant" ELSE "function_call",
                                            <<own[k]>>)]
        [] OTHER -> [k \in DOMAIN texts |-> Item("developer", <<Text>>)]

\* AnthropicProvider::map_message: part by part; there is no system role.
AnthropicItems(m) ==
  <<Item(IF m.role = "assistant" THEN "assistant" ELSE "user", m.parts)>>

Items(api, m) ==
  CASE api = "chat" -> ChatItems(m)
    [] api = "responses" -> ResponsesItems(m)
    [] OTHER -> AnthropicItems(m)

Payload(api, messages) == Flat([k \in DOMAIN messages |-> Items(api, messages[k])])

Wire(api) == Payload(api, conversation)
------------------------------------------------------------------------------
(***************************************************************************)
(* Properties.                                                             *)
(***************************************************************************)

Said(items) == Flat([k \in DOMAIN items |-> items[k].parts])

\* Read item by item, the request says what the conversation says.
SaysConversation(api) == Said(Wire(api)) = Said(conversation)

\* Message k calls tools, and the next has their results.
IsAnswered(k) ==
  Uses(k) # <<>> /\ conversation[k + 1].parts = ResultsOf(Uses(k))

Stands(items, request) ==
  \E n \in 0 .. Len(request) - Len(items) :
    \A j \in 1 .. Len(items) : request[n + j] = items[j]

\* Every id that is called or answered in the items is called and then answered, and
\* between the two there is no text.
Paired(items) ==
  \A i \in CallId :
    (\E n \in 1 .. Len(items) : \E part \in {Use(i), Result(i)} : Contains(items[n].parts, part))
      => \E n, o \in 1 .. Len(items) :
           /\ n < o
           /\ Contains(items[n].parts, Use(i)) /\ Contains(items[o].parts, Result(i))
           /\ \A between \in n + 1 .. o : ~ Contains(items[between].parts, Text)

\* A result of Chat Completions and Responses is an item of its own; and wherever in the
\* conversation results follow their calls they do so in the request, each call with its result
\* and each result with its call.
ResultsAnswerCalls(api) ==
  /\ api # "anthropic" =>
       \A k \in DOMAIN Wire(api) :
         Parts({"result"}, Wire(api)[k].parts) # <<>> => Len(Wire(api)[k].parts) = 1
  /\ \A k \in 1 .. Len(conversation) - 1 : IsAnswered(k) =>
       LET items == Items(api, conversation[k]) \o Items(api, conversation[k + 1])
       IN  Stands(items, Wire(api)) /\ Paired(items)

\* No part of the conversation is lost, doubled or moved, and what it has answered the
\* request has answered.  (Calls it has left without results, the request leaves so too,
\* which the APIs refuse.)
RequestsAreValid ==
  \A api \in {"chat", "responses", "anthropic"} :
    SaysConversation(api) /\ ResultsAnswerCalls(api)
=============================================================================
