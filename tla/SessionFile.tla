----------------------------- MODULE SessionFile -----------------------------
(***************************************************************************)
(* session.jsonl of one session (libs/session): a header line, then one    *)
(* line per message.  The turn that runs appends; the TUI beside it        *)
(* rewrites the file for every TokenUsage event, and a task of its own     *)
(* rewrites it for the title: they read the file, change the header and    *)
(* write the whole back.  Nothing locks the file.                          *)
(*                                                                         *)
(* An append is two writes, the message and its newline; a rewrite empties *)
(* the file and then writes it from its beginning.  Other writers may come *)
(* between any two of these, and a crash, which may also tear a message.   *)
(***************************************************************************)
EXTENDS Integers, Sequences, SequencesExt

CONSTANTS
  Appender,      \* turns that may run at once
  Rewriter,      \* update_tokens, update_title, update_agent_name: one header field each
  MaxAppends,   \* bound of the model: messages of the session
  MaxCrashes     \* bound of the model: crashes

ASSUME FileBounds == MaxAppends \in Nat \ {0} /\ MaxCrashes \in Nat

VARIABLES
  header,     \* the file has its header line; what it says is left out
  body,       \* what follows it, as pieces: messages, newlines, torn lines
  half,       \* appenders that owe a newline
  copied,     \* what each rewriter has read, or Nothing
  opened,     \* rewriters that have emptied the file and not yet written it
  appended,   \* messages appended so far
  overlapped, \* an append began in the middle of another (history)
  remnant,    \* a rewrite has left behind its text a rest of what it wrote over (history)
  exposed,    \* messages appended while a rewriter had its copy (history)
  crashes

fileVars == <<header, body, half, copied, opened, appended, overlapped, remnant, exposed, crashes>>

Newline == 0
Torn == -1
Nothing == [is |-> FALSE]
Messages == 1 .. MaxAppends

\* create: a header and no message.
FileInit ==
  /\ header = TRUE
  /\ body = <<>> /\ half = {} /\ opened = {} /\ appended = 0 /\ crashes = 0
  /\ overlapped = FALSE /\ remnant = FALSE /\ exposed = {}
  /\ copied = [r \in Rewriter |-> Nothing]
------------------------------------------------------------------------------
\* append_message opens with append(true): what it writes goes to the end.
WriteMessage(a) ==
  /\ a \notin half /\ appended < MaxAppends
  /\ appended' = appended + 1
  /\ body' = Append(body, appended')
  /\ half' = half \cup {a}
  /\ overlapped' = (overlapped \/ half # {})
  /\ exposed' = exposed \cup (IF \E r \in Rewriter : copied[r].is THEN {appended'} ELSE {})
  /\ UNCHANGED <<header, copied, opened, remnant, crashes>>

WriteNewline(a) ==
  /\ a \in half
  /\ body' = Append(body, Newline)
  /\ half' = half \ {a}
  /\ UNCHANGED <<header, copied, opened, appended, overlapped, remnant, exposed, crashes>>

\* Mutant: the lines are joined by newlines and nothing follows the last.
LinesUnclosed(text) ==
  IF text # <<>> /\ Last(text) = Newline THEN Front(text) ELSE text

\* content.lines() joined by newlines, and one at the end.
Lines(text) ==
  IF text = <<>> \/ Last(text) = Newline THEN text ELSE Append(text, Newline)

\* update_tokens, update_title, update_agent_name: without a header they fail.  (A file
\* with a rest in it is not read again: bound of the model.)
ReadForHeader(r) ==
  /\ ~ copied[r].is /\ header /\ ~ remnant
  /\ copied' = [copied EXCEPT ![r] = [is |-> TRUE, text |-> Lines(body)]]
  /\ UNCHANGED <<header, body, half, opened, appended, overlapped, remnant, exposed, crashes>>

\* fs::write, which empties the file and then writes it.
EmptyFile(r) ==
  /\ copied[r].is /\ r \notin opened
  /\ opened' = opened \cup {r}
  /\ header' = FALSE /\ body' = <<>>
  /\ UNCHANGED <<half, copied, appended, overlapped, remnant, exposed, crashes>>

\* Where others have filled the file since, the text goes over what they wrote, and what
\* is longer than it stays behind it, from the middle of a line or from its beginning.
\* A cut header is no message either.
Filled == IF header THEN <<Torn, Newline>> \o body ELSE body

Rests ==
  {<<>>} \cup {SubSeq(Filled, i, Len(Filled)) : i \in 2 .. Len(Filled)}
    \cup {<<Torn>> \o SubSeq(Filled, i + 1, Len(Filled)) :
            i \in {j \in 1 .. Len(Filled) : Filled[j] # Newline}}

WriteHeader(r) ==
  /\ r \in opened
  /\ opened' = opened \ {r}
  /\ header' = TRUE
  /\ \E left \in Rests : body' = copied[r].text \o left /\ remnant' = (remnant \/ left # <<>>)
  /\ copied' = [copied EXCEPT ![r] = Nothing]
  /\ UNCHANGED <<half, appended, overlapped, exposed, crashes>>

\* The process dies: between two writes, or during an append, which may tear its message.
Crash ==
  /\ crashes < MaxCrashes
  /\ crashes' = crashes + 1
  /\ half' = {} /\ opened' = {} /\ copied' = [r \in Rewriter |-> Nothing]
  /\ \/ UNCHANGED <<body, appended>>
     \/ /\ appended < MaxAppends
        /\ appended' = appended + 1
        /\ body' = Append(body, Torn)
  /\ UNCHANGED <<header, overlapped, remnant, exposed>>

FileNext ==
  \/ \E a \in Appender : WriteMessage(a) \/ WriteNewline(a)
  \/ \E r \in Rewriter : ReadForHeader(r) \/ EmptyFile(r) \/ WriteHeader(r)
  \/ Crash

FileSpec == FileInit /\ [][FileNext]_fileVars
------------------------------------------------------------------------------
\* The pieces between two newlines, for every line.
Starts == {i \in 1 .. Len(body) : i = 1 \/ body[i - 1] = Newline}

\* get: the header, then every line that is not empty, which must be one message.
Parses ==
  /\ header
  /\ \A i \in Starts : body[i] # Newline =>
       body[i] \in Messages /\ (i = Len(body) \/ body[i + 1] = Newline)

FileTypeOK ==
  /\ header \in BOOLEAN
  /\ body \in Seq(Messages \cup {Newline, Torn})
  /\ half \in SUBSET Appender /\ opened \in SUBSET Rewriter
  /\ appended \in 0 .. MaxAppends
  /\ overlapped \in BOOLEAN /\ remnant \in BOOLEAN
  /\ exposed \subseteq (1 .. appended)

\* Nobody has died, and no rewrite has left a rest: nothing that breaks a file for good.
Sound == crashes = 0 /\ ~ remnant

\* Whatever the rewriters copy while messages are being appended, also from the middle
\* of an append, the session can be loaded once no rewrite is under way, unless two turns
\* have appended at the same moment.
LoadsUnlessCrashed == Sound /\ ~ overlapped /\ opened = {} => Parses

\* Rewrites may lose messages, but what is left is in the order of the conversation and
\* nothing is there twice: an answer never comes before the call it answers.
OrderKept ==
  ~ remnant => \A i, j \in 1 .. Len(body) :
    (i < j /\ body[i] \in Messages /\ body[j] \in Messages) => body[i] < body[j]

\* A message is lost only to a rewriter that read the file before it was appended and
\* wrote it back afterwards.
LostToRewriteOnly ==
  Sound /\ opened = {} =>
    \A m \in (1 .. appended) \ exposed : \E i \in 1 .. Len(body) : body[i] = m
=============================================================================
