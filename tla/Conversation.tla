----------------------------- MODULE Conversation -----------------------------
(***************************************************************************)
(* What the log of a session (session.jsonl) is to whoever loads it: a     *)
(* conversation that only grows.  Processes, turns, retries, crashes and   *)
(* compaction do not appear; AgentTurn implements this machine.            *)
(*                                                                         *)
(* A message is its kind, the provider call it belongs to, and how many    *)
(* tool calls or tool results it holds.  One provider answer holds all its *)
(* tool calls and one message all their results, so `call` stands for the  *)
(* ids that tie results to calls.                                          *)
(***************************************************************************)
EXTENDS Integers, Sequences

VARIABLE log

Kind == {"input", "text", "calls", "results"}

Message == [kind : Kind, call : Nat, n : Nat]

Input          == [kind |-> "input",   call |-> 0, n |-> 0]
Text(call)     == [kind |-> "text",    call |-> call, n |-> 0]
Calls(call, n) == [kind |-> "calls",   call |-> call, n |-> n]
Results(call, n) == [kind |-> "results", call |-> call, n |-> n]

TypeOK == log \in Seq(Message)

Newest == log[Len(log)]

\* The kinds of message an assistant's message answers.
AwaitsReply == log # <<>> /\ Newest.kind \in {"input", "results"}

Init == log = <<>>

\* The user may speak at any time: an earlier turn may have been cut short.
Say == log' = Append(log, Input)

\* What a step appends.
Added == log'[Len(log')]

\* The assistant answers with a text, or with tool calls under a name of their own.
Reply ==
  /\ AwaitsReply
  /\ log' = Append(log, Added)
  /\ Added.call \in Nat /\ \A i \in DOMAIN log : log[i].call < Added.call
  /\ \/ Added = Text(Added.call)
     \/ Added.n \in Nat \ {0} /\ Added = Calls(Added.call, Added.n)

\* All the results of the newest message, and nothing else.
Report ==
  /\ log # <<>> /\ Newest.kind = "calls"
  /\ log' = Append(log, Results(Newest.call, Newest.n))

Next == Say \/ Reply \/ Report

Spec == Init /\ [][Next]_log
------------------------------------------------------------------------------
\* Tool results stand directly behind their calls, one for each, and a provider
\* call is named by one pair of messages at most.
Paired ==
  \A i \in DOMAIN log :
    log[i].kind = "results" =>
      /\ i > 1
      /\ log[i-1] = Calls(log[i].call, log[i].n)

\* What has been said stays as it was said.
Grows == [][Len(log') > Len(log) /\ SubSeq(log', 1, Len(log)) = log]_log
=============================================================================
