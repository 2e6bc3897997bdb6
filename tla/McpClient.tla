------------------------------ MODULE McpClient ------------------------------
(***************************************************************************)
(* The MCP client (libs/mcp): clones of one client share a connection and  *)
(* a counter of request ids.  Over stdio a request holds the connection's  *)
(* lock from writing to reading one line of the server, whatever line that *)
(* is; over HTTP requests run beside one another, each on an exchange of   *)
(* its own, and only the session id is shared.                             *)
(*                                                                         *)
(* The servers are not part of the repository: a stdio server answers the  *)
(* requests in order, may send a notification or an empty line at any time *)
(* and may close the pipe; an HTTP server answers with one response or a   *)
(* stream of messages, in a session that it may replace.  Results are left *)
(* out: a response is the id it carries.                                   *)
(***************************************************************************)
EXTENDS Integers, Sequences, FiniteSets

CONSTANTS
  Caller,      \* tool calls in progress
  MaxIds,      \* bound of the model: requests
  MaxStray,    \* bound of the model: lines of the stdio server that are no response
  Session      \* session ids of the HTTP server

ASSUME McpBounds == MaxIds \in Nat /\ MaxStray \in Nat

VARIABLES
  nextId,     \* the shared counter
  id,         \* the id of each caller's request, 0 when it has none
  via,        \* the transport of its client
  progress,   \* "idle", "begun", "sent", "ok" or "error"
  got,        \* the id of the response a caller has returned
  holder,     \* who has the lock of the stdio connection
  inbox,      \* requests in the stdio server's stdin
  outbox,     \* lines in its stdout: ids, Stray or Empty
  stdio,      \* ConnectionState of the stdio client
  session,    \* HttpConnection.session_id
  strays

mcpVars == <<nextId, id, via, progress, got, holder, inbox, outbox, stdio, session, strays>>
pipe == <<holder, inbox, outbox, stdio, strays>>

RequestId == 1 .. MaxIds
Stray == 0
Empty == -1

McpTypeOK ==
  /\ nextId \in 1 .. MaxIds + 1 /\ id \in [Caller -> 0 .. MaxIds]
  /\ via \in [Caller -> {"none", "stdio", "http"}]
  /\ progress \in [Caller -> {"idle", "begun", "sent", "ok", "error"}]
  /\ got \in [Caller -> 0 .. MaxIds] /\ holder \in SUBSET Caller
  /\ inbox \in Seq(RequestId) /\ outbox \in Seq(RequestId \cup {Stray, Empty})
  /\ stdio \in {"open", "closed", "Disconnected"} /\ session \in SUBSET Session

\* connect: stdio without a handshake, HTTP after initialize.
McpInit ==
  /\ nextId = 1 /\ id = [c \in Caller |-> 0] /\ via = [c \in Caller |-> "none"]
  /\ progress = [c \in Caller |-> "idle"] /\ got = [c \in Caller |-> 0]
  /\ holder = {} /\ inbox = <<>> /\ outbox = <<>> /\ stdio = "open"
  /\ session = {} /\ strays = 0
------------------------------------------------------------------------------
(***************************************************************************)
(* send_request.                                                           *)
(***************************************************************************)

\* call_tool, list_tools: the id is taken before the lock.
BeginRequest(c, transport) ==
  /\ progress[c] \in {"idle", "ok", "error"} /\ nextId <= MaxIds
  /\ id' = [id EXCEPT ![c] = nextId]
  /\ nextId' = nextId + 1
  /\ via' = [via EXCEPT ![c] = transport]
  /\ progress' = [progress EXCEPT ![c] = "begun"]
  /\ got' = [got EXCEPT ![c] = 0]
  /\ UNCHANGED <<pipe, session>>

ReturnsFrom(c, result, response) ==
  /\ progress' = [progress EXCEPT ![c] = result]
  /\ got' = [got EXCEPT ![c] = IF result = "ok" THEN response ELSE 0]
  /\ UNCHANGED <<nextId, id, via>>

\* The lock is there: the request is written, unless the server is gone.
WriteRequest(c) ==
  /\ via[c] = "stdio" /\ progress[c] = "begun" /\ holder = {}
  /\ IF stdio = "open"
       THEN /\ holder' = {c}
            /\ inbox' = Append(inbox, id[c])
            /\ progress' = [progress EXCEPT ![c] = "sent"]
            /\ UNCHANGED <<nextId, id, via, got>>
       ELSE /\ ReturnsFrom(c, "error", 0)
            /\ UNCHANGED <<holder, inbox>>
  /\ UNCHANGED <<outbox, stdio, strays, session>>

\* Mutant: any response is the response.
AcceptAny(c, line) == line # Stray

\* A line that does not parse, another version or another id: the request fails.
Accepts(c, line) == line # Stray /\ line = id[c]

\* read_json_rpc_response, and the checks after it; empty lines are skipped.
ReadLine(c) ==
  /\ c \in holder /\ outbox # <<>>
  /\ outbox' = Tail(outbox)
  /\ IF Head(outbox) = Empty
       THEN UNCHANGED <<nextId, id, via, progress, got, holder>>
       ELSE /\ holder' = {}
            /\ \/ Accepts(c, Head(outbox)) /\ ReturnsFrom(c, "ok", Head(outbox))
               \/ ReturnsFrom(c, "error", 0)
  /\ UNCHANGED <<inbox, stdio, strays, session>>

ReadEnd(c) ==
  /\ c \in holder /\ outbox = <<>> /\ stdio # "open"
  /\ holder' = {}
  /\ ReturnsFrom(c, "error", 0)
  /\ UNCHANGED <<inbox, outbox, stdio, strays, session>>

\* disconnect, which takes the same lock.
Disconnect ==
  /\ holder = {} /\ stdio # "Disconnected"
  /\ stdio' = "Disconnected" /\ inbox' = <<>> /\ outbox' = <<>>
  /\ UNCHANGED <<nextId, id, via, progress, got, holder, strays, session>>
------------------------------------------------------------------------------
(***************************************************************************)
(* The stdio server.                                                       *)
(***************************************************************************)
client == <<nextId, id, via, progress, got, holder, session>>

ServerAnswers ==
  /\ stdio = "open" /\ inbox # <<>>
  /\ outbox' = Append(outbox, Head(inbox)) /\ inbox' = Tail(inbox)
  /\ UNCHANGED <<client, stdio, strays>>

ServerSays(line) ==
  /\ stdio = "open" /\ strays < MaxStray
  /\ outbox' = Append(outbox, line)
  /\ strays' = strays + 1
  /\ UNCHANGED <<client, inbox, stdio>>

ServerCloses ==
  /\ stdio = "open"
  /\ stdio' = "closed"
  /\ UNCHANGED <<client, inbox, outbox, strays>>
------------------------------------------------------------------------------
(***************************************************************************)
(* send_http_request: the session id is read, and the lock given back.     *)
(***************************************************************************)
SendHttp(c) ==
  /\ via[c] = "http" /\ progress[c] = "begun"
  /\ progress' = [progress EXCEPT ![c] = "sent"]
  /\ UNCHANGED <<nextId, id, via, got, pipe, session>>

\* A single response, or parse_sse_response over the messages of a stream, which may
\* hold anything beside the response; with it a new session id, whoever came last.
HttpAnswers(c) ==
  /\ via[c] = "http" /\ progress[c] = "sent"
  /\ \E messages \in SUBSET (RequestId \cup {Stray}) :
       \/ Accepts(c, id[c]) /\ id[c] \in messages /\ ReturnsFrom(c, "ok", id[c])
       \/ ReturnsFrom(c, "error", 0)
  /\ session' \in {session} \cup {{s} : s \in Session}
  /\ UNCHANGED pipe

McpNext ==
  \/ \E c \in Caller :
       \/ \E transport \in {"stdio", "http"} : BeginRequest(c, transport)
       \/ WriteRequest(c)
       \/ ReadLine(c)
       \/ ReadEnd(c)
       \/ SendHttp(c)
       \/ HttpAnswers(c)
  \/ Disconnect
  \/ ServerAnswers
  \/ \E line \in {Stray, Empty} : ServerSays(line)
  \/ ServerCloses

McpSpec == McpInit /\ [][McpNext]_mcpVars
------------------------------------------------------------------------------
(***************************************************************************)
(* Properties.                                                             *)
(***************************************************************************)

\* However requests overlap and however many stray lines have put the pipe out of
\* step, a call that succeeds returns the response to its own request.
OwnResponse == \A c \in Caller : progress[c] = "ok" => got[c] = id[c]

\* The lock pairs each request with one line that is read: besides the response the
\* holder waits for, what is in the pipe or still to be answered is at most one line
\* for each stray one so far.  Without strays no request fails for another's line;
\* after one, the client never catches up.
InStepUpToStrays ==
  LET lines == outbox \o inbox
  IN  stdio = "open" =>
        Cardinality({n \in DOMAIN lines :
                       lines[n] # Empty /\ \A c \in holder : lines[n] # id[c]}) <= strays

=============================================================================
