--------------------------- MODULE AgentTurn_proofs ---------------------------
(***************************************************************************)
(* AgentTurn implements Conversation, and a conversation pairs its tool    *)
(* calls with their results: so does the log of a session, however often   *)
(* its turns fail, reach their limit or are cut short.                     *)
(***************************************************************************)
EXTENDS AgentTurn, InductionTheorems, FiniteSetTheorems, TLAPS

Pending(n) == Talk!Calls(answers, n)

\* Where the turn is and what the log ends with belong together; messages, and so
\* compaction and sanitizing, have no say in what is logged.
TalkInv ==
  /\ ControlOK
  /\ \A i \in DOMAIN log : log[i].call <= answers
  /\ pc \in {"loop", "call", "answer", "mention"} => Talk!AwaitsReply
  /\ pc = "answer" => done = 0 /\ \A i \in DOMAIN log : log[i].call < answers
  /\ pc = "tools" => log # <<>> /\ Talk!Newest = Pending(todo + done) /\ todo + done \in 1 .. MaxTools
  /\ pc = "delegate" => log # <<>> /\ Talk!Newest = Pending(1)

LEMMA MessageTypes ==
  ASSUME NEW call \in Nat, NEW n \in Nat
  PROVE  /\ Talk!Input \in Talk!Message
         /\ Talk!Text(call) \in Talk!Message
         /\ Talk!Calls(call, n) \in Talk!Message
         /\ Talk!Results(call, n) \in Talk!Message
  BY DEF Talk!Input, Talk!Text, Talk!Calls, Talk!Results, Talk!Message, Talk!Kind

\* What appending a message does to the log.
LEMMA AppendEffect ==
  ASSUME NEW l \in Seq(Talk!Message), NEW m \in Talk!Message
  PROVE  /\ Append(l, m) \in Seq(Talk!Message)
         /\ Append(l, m) # <<>>
         /\ Len(Append(l, m)) = Len(l) + 1
         /\ Append(l, m)[Len(l) + 1] = m
         /\ DOMAIN Append(l, m) = 1 .. Len(l) + 1
         /\ DOMAIN l = 1 .. Len(l)
         /\ \A i \in 1 .. Len(l) : Append(l, m)[i] = l[i]
         /\ Len(l) \in Nat
  OBVIOUS

LEMMA InitTalk == Init => TalkInv
  BY BoundsAssumption DEF Init, TalkInv, ControlOK, Talk!AwaitsReply

\* A step that appends nothing and keeps the count of answers.
LEMMA SilentStep ==
  ASSUME TalkInv, [Next]_vars, log' = log, answers' = answers
  PROVE  TalkInv'
<1> USE BoundsAssumption DEF TalkInv, ControlOK, driver, counts, Talk!AwaitsReply, Talk!Newest, Pending
<1>1. CASE UNCHANGED vars
  BY <1>1 DEF vars
<1>2. ASSUME NEW m \in {"run", "tui"}, Submit(m) PROVE TalkInv'
  BY <1>2 DEF Submit
<1>3. CASE ReadLog
  BY <1>3 DEF ReadLog
<1>4. CASE Refuse
  BY <1>4 DEF Refuse
<1>5. CASE LimitReached
  BY <1>5 DEF LimitReached
<1>6. CASE StartCall
  BY <1>6 DEF StartCall
<1>7. CASE RetryCall
  BY <1>7 DEF RetryCall
<1>8. CASE CallFails
  BY <1>8 DEF CallFails
<1>9. CASE RunTool
  BY <1>9 DEF RunTool
<1>10. CASE EndTurn
  BY <1>10 DEF EndTurn, DropRuntime
<1>11. CASE Crash
  BY <1>11 DEF Crash, DropRuntime
<1>12. CASE AppendInput \/ AppendAnswer \/ AppendResults \/ MentionInput \/ MentionCall \/ MentionResult
  BY <1>12 DEF AppendInput, AppendAnswer, AppendResults, MentionInput, MentionCall, MentionResult
<1>13. CASE CallAnswers
  BY <1>13 DEF CallAnswers
<1>14. CASE AppendFails
  BY <1>14 DEF AppendFails
<1>. QED
  BY <1>1, <1>2, <1>3, <1>4, <1>5, <1>6, <1>7, <1>8, <1>9, <1>10, <1>11, <1>12, <1>13, <1>14
  DEF Next, Turn, User
------------------------------------------------------------------------------
(***************************************************************************)
(* The steps that append, and CallAnswers, which names what comes next.    *)
(* Each is a step of the conversation.                                     *)
(***************************************************************************)

\* An input, typed by the user or given to `omh run`, may follow anything.
LEMMA InputStep ==
  ASSUME TalkInv, AppendInput \/ MentionInput
  PROVE  TalkInv' /\ Talk!Say
<1>1. log' = Append(log, Talk!Input) /\ answers' = answers
  BY DEF AppendInput, MentionInput
<1>2. log \in Seq(Talk!Message) /\ Talk!Input \in Talk!Message /\ answers \in Nat
  BY MessageTypes DEF TalkInv, ControlOK
<1>3. /\ log' \in Seq(Talk!Message) /\ log' # <<>>
      /\ Len(log') = Len(log) + 1 /\ log'[Len(log) + 1] = Talk!Input
      /\ DOMAIN log' = 1 .. Len(log) + 1 /\ DOMAIN log = 1 .. Len(log)
      /\ \A i \in 1 .. Len(log) : log'[i] = log[i]
      /\ Len(log) \in Nat
  BY <1>1, <1>2, AppendEffect
<1>4. \A i \in DOMAIN log' : log'[i].call <= answers'
  BY <1>1, <1>2, <1>3 DEF TalkInv, Talk!Input
<1>5. Talk!AwaitsReply'
  BY <1>3 DEF Talk!AwaitsReply, Talk!Newest, Talk!Input
<1>6. ControlOK' /\ pc' \in {"loop", "mention"}
  <2>1. CASE AppendInput
    BY <1>1, <1>3, <2>1 DEF TalkInv, ControlOK, AppendInput, driver, counts
  <2>2. CASE MentionInput
    BY <1>1, <1>3, <2>2, BoundsAssumption DEF TalkInv, ControlOK, MentionInput, counts
  <2>. QED
    BY <2>1, <2>2
<1>7. TalkInv'
  BY <1>4, <1>5, <1>6 DEF TalkInv
<1>. QED
  BY <1>1, <1>7 DEF Talk!Say

\* The next answer has a name that is not in the log.
LEMMA AnswerStep ==
  ASSUME TalkInv, CallAnswers
  PROVE  TalkInv' /\ log' = log
<1>1. /\ log' = log /\ answers' = answers + 1 /\ pc = "call" /\ pc' = "answer"
      /\ todo' \in 0 .. MaxTools /\ done' = 0
      /\ UNCHANGED <<saved, mode, inputs, faults, start, turn, attempt, outcome>>
  BY DEF CallAnswers, driver
<1>2. ControlOK'
  BY <1>1, BoundsAssumption DEF TalkInv, ControlOK
<1>3. \A i \in DOMAIN log : log[i].call < answers'
  <2>. SUFFICES ASSUME NEW i \in DOMAIN log PROVE log[i].call < answers'
    OBVIOUS
  <2>1. log[i].call <= answers /\ log[i] \in Talk!Message /\ answers \in Nat
    BY DEF TalkInv, ControlOK
  <2>2. log[i].call \in Nat
    BY <2>1 DEF Talk!Message
  <2>. QED
    BY <1>1, <2>1, <2>2
<1>4. \A i \in DOMAIN log : log[i].call <= answers'
  <2>. SUFFICES ASSUME NEW i \in DOMAIN log PROVE log[i].call <= answers'
    OBVIOUS
  <2>1. log[i] \in Talk!Message /\ answers \in Nat
    BY DEF TalkInv, ControlOK
  <2>2. log[i].call \in Nat
    BY <2>1 DEF Talk!Message
  <2>. QED
    BY <1>1, <1>3, <2>1, <2>2
<1>5. Talk!AwaitsReply'
  BY <1>1 DEF TalkInv, Talk!AwaitsReply, Talk!Newest
<1>. QED
  BY <1>1, <1>2, <1>3, <1>4, <1>5 DEF TalkInv

\* An answer is persisted in reply to an input or to results, under its own name.
LEMMA AppendAnswerStep ==
  ASSUME TalkInv, AppendAnswer
  PROVE  TalkInv' /\ Talk!Reply
<1>. DEFINE m == AssistantMsg
<1>1. /\ pc = "answer" /\ log' = Append(log, m)
      /\ UNCHANGED <<saved, mode, inputs, faults, start, turn, attempt, todo, done, answers>>
  BY DEF AppendAnswer, driver, counts
<1>2. log \in Seq(Talk!Message) /\ answers \in Nat /\ todo \in Nat /\ todo <= MaxTools /\ done = 0 /\ MaxTools \in Nat
  BY <1>1, BoundsAssumption DEF TalkInv, ControlOK
<1>3. /\ m \in Talk!Message /\ m.call = answers
      /\ todo = 0 => m = Talk!Text(answers)
      /\ todo > 0 => m = Talk!Calls(answers, todo) /\ m.n = todo
  <2>1. CASE todo = 0
    BY <1>2, <2>1, MessageTypes DEF AssistantMsg, Talk!Text
  <2>2. CASE todo > 0
    BY <1>2, <2>2, MessageTypes DEF AssistantMsg, Talk!Calls
  <2>. QED
    BY <1>2, <2>1, <2>2
<1>. HIDE DEF m
<1>4. /\ log' \in Seq(Talk!Message) /\ log' # <<>>
      /\ Len(log') = Len(log) + 1 /\ log'[Len(log) + 1] = m
      /\ DOMAIN log' = 1 .. Len(log) + 1 /\ DOMAIN log = 1 .. Len(log)
      /\ \A i \in 1 .. Len(log) : log'[i] = log[i]
      /\ Len(log) \in Nat
  BY <1>1, <1>2, <1>3, AppendEffect
<1>5. \A i \in DOMAIN log' : log'[i].call <= answers'
  BY <1>1, <1>2, <1>3, <1>4 DEF TalkInv
<1>6. ControlOK' /\ pc' \in {"end", "tools"} /\ (pc' = "tools" => todo # 0)
  BY <1>1, <1>4 DEF TalkInv, ControlOK, AppendAnswer
<1>7. pc' = "tools" => Talk!Newest' = Pending(todo + done)' /\ (todo + done)' \in 1 .. MaxTools
  BY <1>1, <1>2, <1>3, <1>4, <1>6 DEF Talk!Newest, Pending
<1>8. TalkInv'
  BY <1>4, <1>5, <1>6, <1>7 DEF TalkInv
<1>9. Talk!Added = m
  BY <1>4 DEF Talk!Added
<1>10. Talk!Added.call \in Nat /\ \A i \in DOMAIN log : log[i].call < Talk!Added.call
  BY <1>1, <1>2, <1>3, <1>9 DEF TalkInv
<1>11. Talk!Added = Talk!Text(Talk!Added.call)
         \/ (Talk!Added.n \in Nat \ {0} /\ Talk!Added = Talk!Calls(Talk!Added.call, Talk!Added.n))
  BY <1>2, <1>3, <1>9
<1>12. Talk!AwaitsReply
  BY <1>1 DEF TalkInv
<1>. QED
  BY <1>1, <1>8, <1>9, <1>10, <1>11, <1>12 DEF Talk!Reply

\* All results of the newest calls are persisted at once: one for each.
LEMMA AppendResultsStep ==
  ASSUME TalkInv, AppendResults \/ MentionResult
  PROVE  TalkInv' /\ Talk!Report
<1>. DEFINE n == IF AppendResults THEN done ELSE 1
<1>1. /\ log' = Append(log, Talk!Results(answers, n)) /\ answers' = answers
      /\ log # <<>> /\ Talk!Newest = Talk!Calls(answers, n) /\ n \in Nat
  <2>1. CASE AppendResults
    BY <2>1 DEF AppendResults, TalkInv, ControlOK, Pending
  <2>2. CASE ~ AppendResults
    BY <2>2 DEF MentionResult, TalkInv, Pending
  <2>. QED
    BY <2>1, <2>2
<1>. HIDE DEF n
<1>2. log \in Seq(Talk!Message) /\ Talk!Results(answers, n) \in Talk!Message /\ answers \in Nat
  BY <1>1, MessageTypes DEF TalkInv, ControlOK
<1>3. /\ log' \in Seq(Talk!Message) /\ log' # <<>>
      /\ Len(log') = Len(log) + 1 /\ log'[Len(log) + 1] = Talk!Results(answers, n)
      /\ DOMAIN log' = 1 .. Len(log) + 1 /\ DOMAIN log = 1 .. Len(log)
      /\ \A i \in 1 .. Len(log) : log'[i] = log[i]
      /\ Len(log) \in Nat
  BY <1>1, <1>2, AppendEffect
<1>4. \A i \in DOMAIN log' : log'[i].call <= answers'
  BY <1>1, <1>2, <1>3 DEF TalkInv, Talk!Results
<1>5. Talk!AwaitsReply'
  BY <1>3 DEF Talk!AwaitsReply, Talk!Newest, Talk!Results
<1>6. ControlOK' /\ pc' \in {"loop", "idle"}
  BY <1>3 DEF TalkInv, ControlOK, AppendResults, MentionResult, driver, counts
<1>7. TalkInv'
  BY <1>4, <1>5, <1>6 DEF TalkInv
<1>8. Talk!Newest.kind = "calls" /\ Talk!Newest.call = answers /\ Talk!Newest.n = n
  BY <1>1 DEF Talk!Calls
<1>. QED
  BY <1>1, <1>7, <1>8 DEF Talk!Report

\* The session logs the @mention's call itself, under a new name.
LEMMA MentionCallStep ==
  ASSUME TalkInv, MentionCall
  PROVE  TalkInv' /\ Talk!Reply
<1>. DEFINE m == Talk!Calls(answers', 1)
<1>1. /\ pc = "mention" /\ pc' = "delegate"
      /\ answers' = answers + 1 /\ log' = Append(log, m)
      /\ UNCHANGED <<saved, mode, inputs, faults, start, turn, attempt, todo, done, outcome>>
  BY DEF MentionCall, driver, counts
<1>2. log \in Seq(Talk!Message) /\ answers \in Nat /\ answers' \in Nat
  BY <1>1 DEF TalkInv, ControlOK
<1>3. m \in Talk!Message /\ m.call = answers' /\ m.n = 1
  BY <1>2, MessageTypes DEF Talk!Calls
<1>4. m = Talk!Calls(m.call, m.n) /\ m = Pending(1)'
  BY <1>3 DEF Pending
<1>. HIDE DEF m
<1>5. /\ log' \in Seq(Talk!Message) /\ log' # <<>>
      /\ Len(log') = Len(log) + 1 /\ log'[Len(log) + 1] = m
      /\ DOMAIN log' = 1 .. Len(log) + 1 /\ DOMAIN log = 1 .. Len(log)
      /\ \A i \in 1 .. Len(log) : log'[i] = log[i]
      /\ Len(log) \in Nat
  BY <1>1, <1>2, <1>3, AppendEffect
<1>6. \A i \in DOMAIN log : log[i].call < answers'
  <2>. SUFFICES ASSUME NEW i \in DOMAIN log PROVE log[i].call < answers'
    OBVIOUS
  <2>1. log[i].call <= answers /\ log[i] \in Talk!Message
    BY <1>2 DEF TalkInv
  <2>2. log[i].call \in Nat
    BY <2>1 DEF Talk!Message
  <2>. QED
    BY <1>1, <1>2, <2>1, <2>2
<1>7. \A i \in DOMAIN log' : log'[i].call <= answers'
  <2>. SUFFICES ASSUME NEW i \in DOMAIN log' PROVE log'[i].call <= answers'
    OBVIOUS
  <2>1. log'[i] \in Talk!Message
    BY <1>5
  <2>2. log'[i].call \in Nat
    BY <2>1 DEF Talk!Message
  <2>3. CASE i = Len(log) + 1
    BY <1>2, <1>3, <1>5, <2>3
  <2>4. CASE i \in DOMAIN log
    BY <1>2, <1>5, <1>6, <2>2, <2>4
  <2>. QED
    BY <1>5, <2>3, <2>4
<1>8. ControlOK'
  BY <1>1, <1>2, <1>5 DEF TalkInv, ControlOK
<1>9. Talk!Newest' = Pending(1)'
  BY <1>4, <1>5 DEF Talk!Newest
<1>10. TalkInv'
  BY <1>1, <1>5, <1>7, <1>8, <1>9 DEF TalkInv
<1>11. Talk!Added = m /\ Talk!AwaitsReply
  BY <1>1, <1>5 DEF Talk!Added, TalkInv
<1>. QED
  BY <1>1, <1>2, <1>3, <1>4, <1>6, <1>10, <1>11 DEF Talk!Reply
------------------------------------------------------------------------------
\* Every step keeps the invariant and is a step of the conversation or none.
LEMMA StepTalk ==
  ASSUME TalkInv, [Next]_vars
  PROVE  TalkInv' /\ [Talk!Next]_log
<1>1. CASE AppendInput \/ MentionInput
  BY <1>1, InputStep DEF Talk!Next
<1>2. CASE CallAnswers
  BY <1>2, AnswerStep
<1>3. CASE AppendAnswer
  BY <1>3, AppendAnswerStep DEF Talk!Next
<1>4. CASE AppendResults \/ MentionResult
  BY <1>4, AppendResultsStep DEF Talk!Next
<1>5. CASE MentionCall
  BY <1>5, MentionCallStep DEF Talk!Next
<1>6. CASE ~ (AppendInput \/ MentionInput \/ CallAnswers \/ AppendAnswer
              \/ AppendResults \/ MentionResult \/ MentionCall)
  <2>1. log' = log /\ answers' = answers
    BY <1>6 DEF Next, Turn, User, vars, Submit, ReadLog, Refuse, LimitReached, StartCall,
                RetryCall, CallFails, RunTool, EndTurn, AppendFails, Crash
  <2>. QED
    BY <2>1, SilentStep
<1>. QED
  BY <1>1, <1>2, <1>3, <1>4, <1>5, <1>6

\* The invariant of the loop and its log.
THEOREM TalkInvariant == Spec => []TalkInv
<1>1. TalkInv /\ [Next]_vars => TalkInv'
  BY StepTalk
<1>. QED
  BY <1>1, InitTalk, PTL DEF Spec

\* run_turn, the TUI and crashes between any two of their effects write a log that
\* grows like a conversation.
THEOREM TurnRefinesConversation == Spec => ImplementsConversation
<1>1. Init => Talk!Init
  BY DEF Init, Talk!Init
<1>2. TalkInv /\ [Next]_vars => [Talk!Next]_log
  BY StepTalk
<1>. QED
  BY <1>1, <1>2, TalkInvariant, PTL DEF Spec, Talk!Spec, ImplementsConversation
------------------------------------------------------------------------------
(***************************************************************************)
(* What a conversation promises holds of the session's log.                *)
(***************************************************************************)

LEMMA ConversationStep ==
  ASSUME Talk!TypeOK, Talk!Paired, Talk!Next
  PROVE  Talk!TypeOK' /\ Talk!Paired'
<1>1. PICK m \in Talk!Message :
        /\ log' = Append(log, m)
        /\ m.kind = "results" => /\ log # <<>>
                                 /\ log[Len(log)] = Talk!Calls(m.call, m.n)
  <2>1. CASE Talk!Say
    BY <2>1, MessageTypes DEF Talk!Say, Talk!Input
  <2>2. CASE Talk!Reply
    <3>1. Talk!Added \in Talk!Message /\ Talk!Added.kind # "results"
      <4>1. CASE Talk!Added = Talk!Text(Talk!Added.call)
        BY <2>2, <4>1, MessageTypes DEF Talk!Reply, Talk!Text
      <4>2. CASE Talk!Added.n \in Nat \ {0} /\ Talk!Added = Talk!Calls(Talk!Added.call, Talk!Added.n)
        BY <2>2, <4>2, MessageTypes DEF Talk!Reply, Talk!Calls
      <4>. QED
        BY <2>2, <4>1, <4>2 DEF Talk!Reply
    <3>. QED
      BY <2>2, <3>1 DEF Talk!Reply
  <2>3. CASE Talk!Report
    <3>. DEFINE old == log[Len(log)]
    <3>1. log # <<>> /\ old.kind = "calls" /\ log' = Append(log, Talk!Results(old.call, old.n))
      BY <2>3 DEF Talk!Report, Talk!Newest
    <3>2. old \in Talk!Message
      BY <3>1 DEF Talk!TypeOK
    <3>. HIDE DEF old
    <3>3. old.call \in Nat /\ old.n \in Nat /\ old = Talk!Calls(old.call, old.n)
      BY <3>1, <3>2 DEF Talk!Message, Talk!Calls
    <3>. QED
      BY <3>1, <3>3, MessageTypes DEF Talk!Results, old
  <2>. QED
    BY <2>1, <2>2, <2>3 DEF Talk!Next
<1>2. /\ log' \in Seq(Talk!Message)
      /\ Len(log') = Len(log) + 1 /\ log'[Len(log) + 1] = m
      /\ DOMAIN log' = 1 .. Len(log) + 1 /\ DOMAIN log = 1 .. Len(log)
      /\ \A i \in 1 .. Len(log) : log'[i] = log[i]
      /\ Len(log) \in Nat
  BY <1>1, AppendEffect DEF Talk!TypeOK
<1>3. ASSUME NEW i \in DOMAIN log', log'[i].kind = "results"
      PROVE  i > 1 /\ log'[i-1] = Talk!Calls(log'[i].call, log'[i].n)
  <2>1. CASE i = Len(log) + 1
    <3>1. log # <<>> /\ log[Len(log)] = Talk!Calls(m.call, m.n)
      BY <1>1, <1>2, <1>3, <2>1
    <3>2. Len(log) > 0
      BY <1>2, <3>1 DEF Talk!TypeOK
    <3>. QED
      BY <1>2, <2>1, <3>1, <3>2
  <2>2. CASE i \in DOMAIN log
    <3>1. i > 1 /\ log[i-1] = Talk!Calls(log[i].call, log[i].n)
      BY <1>2, <1>3, <2>2 DEF Talk!Paired
    <3>. QED
      BY <1>2, <2>2, <3>1
  <2>. QED
    BY <1>2, <2>1, <2>2
<1>. QED
  BY <1>2, <1>3 DEF Talk!TypeOK, Talk!Paired

\* Whoever loads the session finds each message of results directly behind the
\* message of its calls, as many results as calls.
THEOREM ResultsFollowTheirCalls == Spec => []Talk!Paired
<1>1. Init => Talk!TypeOK /\ Talk!Paired
  BY DEF Init, Talk!TypeOK, Talk!Paired
<1>2. Talk!TypeOK /\ Talk!Paired /\ [Talk!Next]_log => (Talk!TypeOK /\ Talk!Paired)'
  <2>1. CASE Talk!Next
    BY <2>1, ConversationStep
  <2>2. CASE log' = log
    BY <2>2 DEF Talk!TypeOK, Talk!Paired
  <2>. QED
    BY <2>1, <2>2
<1>. QED
  BY <1>1, <1>2, TurnRefinesConversation, PTL DEF Spec, ImplementsConversation, Talk!Spec
------------------------------------------------------------------------------
(***************************************************************************)
(* Calls without results are accounted for by faults.                      *)
(***************************************************************************)

UnansweredIn(l) ==
  {i \in DOMAIN l : l[i].kind = "calls" /\ (i = Len(l) \/ l[i+1].kind # "results")}

\* What a message does to the set of unanswered calls.
LEMMA UnansweredAppend ==
  ASSUME NEW l \in Seq(Talk!Message), NEW m \in Talk!Message
  PROVE  /\ m.kind \in {"input", "text"} => UnansweredIn(Append(l, m)) = UnansweredIn(l)
         /\ m.kind = "calls" => UnansweredIn(Append(l, m)) = UnansweredIn(l) \cup {Len(l) + 1}
         /\ m.kind = "results" => UnansweredIn(Append(l, m)) = UnansweredIn(l) \ {Len(l)}
<1>. DEFINE k == Append(l, m)
<1>1. /\ k \in Seq(Talk!Message) /\ Len(k) = Len(l) + 1 /\ k[Len(l) + 1] = m
      /\ DOMAIN k = 1 .. Len(l) + 1 /\ DOMAIN l = 1 .. Len(l)
      /\ \A i \in 1 .. Len(l) : k[i] = l[i]
      /\ Len(l) \in Nat
  BY AppendEffect
<1>. HIDE DEF k
<1>a. Len(l) \in Nat /\ Len(k) = Len(l) + 1
  BY <1>1
<1>2. ASSUME NEW i \in 1 .. Len(l), i # Len(l)
      PROVE  i \in UnansweredIn(k) <=> i \in UnansweredIn(l)
  <2>1. /\ i \in DOMAIN l /\ i \in DOMAIN k /\ i # Len(k)
        /\ i + 1 \in 1 .. Len(l)
    <3>1. i # Len(k) /\ i + 1 \in 1 .. Len(l) /\ i \in 1 .. Len(l) + 1
      BY <1>a, <1>2
    <3>. QED
      BY <1>1, <3>1
  <2>2. k[i] = l[i] /\ k[i+1] = l[i+1]
    BY <1>1, <2>1
  <2>3. i \in UnansweredIn(l) <=> l[i].kind = "calls" /\ (i = Len(l) \/ l[i+1].kind # "results")
    BY <2>1, Zenon DEF UnansweredIn
  <2>4. i \in UnansweredIn(k) <=> k[i].kind = "calls" /\ (i = Len(k) \/ k[i+1].kind # "results")
    BY <2>1, Zenon DEF UnansweredIn
  <2>. QED
    BY <1>2, <2>1, <2>2, <2>3, <2>4
<1>3. ASSUME Len(l) \in 1 .. Len(l)
      PROVE  /\ Len(l) \in UnansweredIn(l) <=> l[Len(l)].kind = "calls"
             /\ Len(l) \in UnansweredIn(k) <=> l[Len(l)].kind = "calls" /\ m.kind # "results"
  <2>1. /\ Len(l) \in DOMAIN l /\ Len(l) \in DOMAIN k /\ Len(l) # Len(k)
        /\ k[Len(l)] = l[Len(l)] /\ k[Len(l) + 1] = m
    <3>1. Len(l) # Len(k) /\ Len(l) \in 1 .. Len(l) + 1
      BY <1>a, <1>3
    <3>. QED
      BY <1>1, <1>3, <3>1
  <2>2. Len(l) \in UnansweredIn(l) <=>
          l[Len(l)].kind = "calls" /\ (Len(l) = Len(l) \/ l[Len(l)+1].kind # "results")
    BY <2>1, Zenon DEF UnansweredIn
  <2>3. Len(l) \in UnansweredIn(k) <=>
          k[Len(l)].kind = "calls" /\ (Len(l) = Len(k) \/ k[Len(l)+1].kind # "results")
    BY <2>1, Zenon DEF UnansweredIn
  <2>. QED
    BY <2>1, <2>2, <2>3
<1>4. Len(l) + 1 \in UnansweredIn(k) <=> m.kind = "calls"
  BY <1>1 DEF UnansweredIn
<1>5. UnansweredIn(k) \subseteq 1 .. Len(l) + 1 /\ UnansweredIn(l) \subseteq 1 .. Len(l)
  BY <1>1 DEF UnansweredIn
<1>6. ASSUME m.kind # "results" PROVE \A i \in 1 .. Len(l) : i \in UnansweredIn(k) <=> i \in UnansweredIn(l)
  BY <1>2, <1>3, <1>6
<1>7. CASE m.kind \in {"input", "text"}
  <2>1. Len(l) + 1 \notin UnansweredIn(k)
    BY <1>4, <1>7
  <2>2. \A i : i \in UnansweredIn(k) <=> i \in UnansweredIn(l)
    BY <1>1, <1>5, <1>6, <1>7, <2>1
  <2>. QED
    BY <1>7, <2>2 DEF k
<1>8. CASE m.kind = "calls"
  <2>1. Len(l) + 1 \in UnansweredIn(k)
    BY <1>4, <1>8
  <2>2. \A i : i \in UnansweredIn(k) <=> i \in UnansweredIn(l) \/ i = Len(l) + 1
    BY <1>1, <1>5, <1>6, <1>8, <2>1
  <2>. QED
    BY <1>8, <2>2 DEF k
<1>9. CASE m.kind = "results"
  <2>1. Len(l) + 1 \notin UnansweredIn(k) /\ Len(l) \notin UnansweredIn(k)
    BY <1>1, <1>3, <1>4, <1>5, <1>9
  <2>2. ASSUME NEW i PROVE i \in UnansweredIn(k) <=> i \in UnansweredIn(l) /\ i # Len(l)
    <3>1. CASE i \in 1 .. Len(l) /\ i # Len(l)
      BY <1>2, <3>1
    <3>2. CASE i = Len(l) \/ i = Len(l) + 1
      BY <1>1, <1>5, <2>1, <3>2
    <3>3. CASE i \notin 1 .. Len(l) + 1
      BY <1>1, <1>5, <3>3
    <3>. QED
      BY <1>1, <3>1, <3>2, <3>3
  <2>. QED
    BY <1>9, <2>2 DEF k
<1>10. m.kind \in {"input", "text", "calls", "results"}
  BY DEF Talk!Message, Talk!Kind
<1>. QED
  BY <1>7, <1>8, <1>9, <1>10

LEMMA UnansweredFinite ==
  ASSUME NEW l \in Seq(Talk!Message)
  PROVE  /\ IsFiniteSet(UnansweredIn(l)) /\ Cardinality(UnansweredIn(l)) \in Nat
         /\ Len(l) + 1 \notin UnansweredIn(l)
<1>1. IsFiniteSet(1 .. Len(l))
  BY FS_Interval
<1>2. UnansweredIn(l) \subseteq 1 .. Len(l)
  BY DEF UnansweredIn
<1>3. IsFiniteSet(UnansweredIn(l))
  BY <1>1, <1>2, FS_Subset
<1>. QED
  BY <1>2, <1>3, FS_CardinalityType

OpenCalls == IF pc \in {"tools", "delegate"} THEN 1 ELSE 0

LEMMA UnansweredStep ==
  ASSUME TalkInv, UnansweredByFaultOnly, [Next]_vars
  PROVE  UnansweredByFaultOnly'
<1>. DEFINE c == Cardinality(UnansweredIn(log))
            d == Cardinality(UnansweredIn(log'))
<1>1. UnansweredByFaultOnly <=> c <= faults + OpenCalls
  BY DEF UnansweredByFaultOnly, Unanswered, UnansweredIn, OpenCalls
<1>2. UnansweredByFaultOnly' <=> d <= faults' + OpenCalls'
  BY DEF UnansweredByFaultOnly, Unanswered, UnansweredIn, OpenCalls
<1>3. /\ log \in Seq(Talk!Message) /\ faults \in Nat /\ answers \in Nat
      /\ todo \in Nat /\ done \in Nat
  BY BoundsAssumption DEF TalkInv, ControlOK
<1>4. IsFiniteSet(UnansweredIn(log)) /\ c \in Nat /\ Len(log) + 1 \notin UnansweredIn(log)
  BY <1>3, UnansweredFinite
<1>5. ASSUME log' = log,
             faults' + OpenCalls' = faults + OpenCalls \/ (faults' = faults + 1 /\ OpenCalls' = 0)
      PROVE  d <= faults' + OpenCalls'
  BY <1>1, <1>3, <1>4, <1>5 DEF OpenCalls
<1>6. CASE AppendInput \/ MentionInput
  <2>1. /\ log' = Append(log, Talk!Input)
        /\ faults' = faults /\ OpenCalls' = 0 /\ OpenCalls = 0
    BY <1>6 DEF AppendInput, MentionInput, driver, OpenCalls
  <2>2. UnansweredIn(log') = UnansweredIn(log)
    BY <1>3, <2>1, UnansweredAppend, MessageTypes DEF Talk!Input
  <2>. QED
    BY <1>1, <1>2, <2>1, <2>2
<1>7. CASE AppendAnswer /\ todo = 0
  <2>1. /\ log' = Append(log, Talk!Text(answers))
        /\ faults' = faults /\ OpenCalls' = 0 /\ OpenCalls = 0
    BY <1>7 DEF AppendAnswer, AssistantMsg, driver, OpenCalls
  <2>2. Talk!Text(answers) \in Talk!Message /\ Talk!Text(answers).kind = "text"
    BY <1>3, MessageTypes DEF Talk!Text
  <2>3. UnansweredIn(log') = UnansweredIn(log)
    BY <1>3, <2>1, <2>2, UnansweredAppend
  <2>. QED
    BY <1>1, <1>2, <2>1, <2>3
<1>8. CASE (AppendAnswer /\ todo # 0) \/ MentionCall
  <2>1. PICK m \in Talk!Message : log' = Append(log, m) /\ m.kind = "calls"
    <3>1. CASE AppendAnswer /\ todo # 0
      BY <1>3, <3>1, MessageTypes DEF AppendAnswer, AssistantMsg, Talk!Calls
    <3>2. CASE MentionCall
      BY <1>3, <3>2, MessageTypes DEF MentionCall, Talk!Calls
    <3>. QED
      BY <1>8, <3>1, <3>2
  <2>2. faults' = faults /\ OpenCalls = 0 /\ OpenCalls' = 1
    BY <1>8 DEF AppendAnswer, MentionCall, driver, OpenCalls
  <2>3. UnansweredIn(log') = UnansweredIn(log) \cup {Len(log) + 1}
    BY <1>3, <2>1, UnansweredAppend
  <2>4. d = c + 1
    BY <1>4, <2>3, FS_AddElement
  <2>. QED
    BY <1>1, <1>2, <1>3, <1>4, <2>2, <2>4
<1>9. CASE AppendResults \/ MentionResult
  <2>1. PICK m \in Talk!Message : log' = Append(log, m) /\ m.kind = "results"
    <3>1. CASE AppendResults
      BY <1>3, <3>1, MessageTypes DEF AppendResults, Talk!Results
    <3>2. CASE MentionResult
      BY <1>3, <3>2, MessageTypes DEF MentionResult, Talk!Results
    <3>. QED
      BY <1>9, <3>1, <3>2
  <2>2. /\ faults' = faults /\ OpenCalls = 1 /\ OpenCalls' = 0
        /\ log # <<>> /\ log[Len(log)].kind = "calls"
    BY <1>9 DEF AppendResults, MentionResult, driver, OpenCalls, TalkInv, Pending, Talk!Newest, Talk!Calls
  <2>3. Len(log) \in UnansweredIn(log)
    BY <1>3, <2>2 DEF UnansweredIn
  <2>4. UnansweredIn(log') = UnansweredIn(log) \ {Len(log)}
    BY <1>3, <2>1, UnansweredAppend
  <2>5. d = c - 1
    BY <1>4, <2>3, <2>4, FS_RemoveElement
  <2>. QED
    BY <1>1, <1>2, <1>3, <1>4, <2>2, <2>5
<1>10. CASE Crash \/ AppendFails
  <2>1. log' = log /\ faults' = faults + 1 /\ OpenCalls' = 0
    BY <1>10 DEF Crash, AppendFails, OpenCalls
  <2>. QED
    BY <1>2, <1>5, <2>1
<1>11. CASE ~ (AppendInput \/ MentionInput \/ AppendAnswer \/ MentionCall
               \/ AppendResults \/ MentionResult \/ Crash \/ AppendFails)
  <2>1. log' = log /\ faults' = faults /\ OpenCalls' = OpenCalls
    BY <1>11 DEF Next, Turn, User, vars, driver, Submit, ReadLog, Refuse, LimitReached, StartCall,
                 RetryCall, CallFails, CallAnswers, RunTool, EndTurn, OpenCalls
  <2>. QED
    BY <1>2, <1>5, <2>1
<1>. QED
  BY <1>6, <1>7, <1>8, <1>9, <1>10, <1>11

\* A session holds at most one message of calls without results for each crash or
\* failed write it has seen, and one more while tools run.
THEOREM UnansweredCallsAreFaults == Spec => []UnansweredByFaultOnly
<1>1. Init => UnansweredByFaultOnly
  <2>. SUFFICES ASSUME Init PROVE UnansweredByFaultOnly
    OBVIOUS
  <2>1. Unanswered = {} /\ faults = 0 /\ pc = "idle"
    BY DEF Init, Unanswered
  <2>. QED
    BY <2>1, FS_EmptySet DEF UnansweredByFaultOnly
<1>2. TalkInv /\ UnansweredByFaultOnly /\ [Next]_vars => UnansweredByFaultOnly'
  BY UnansweredStep
<1>. QED
  BY <1>1, <1>2, TalkInvariant, PTL DEF Spec
------------------------------------------------------------------------------
(***************************************************************************)
(* What the provider is shown.  Sanitize is recursive: kept[i] is what is  *)
(* left of the first i messages.                                           *)
(***************************************************************************)

IsKept(k, s) ==
  /\ k[0] = <<>>
  /\ \A i \in 1 .. Len(s) :
       k[i] = IF i \in Orphans(s) THEN k[i - 1] ELSE Append(k[i - 1], s[i])

LEMMA SanitizeUnfolds ==
  ASSUME NEW s \in Seq(Shown)
  PROVE  \E k \in [0 .. Len(s) -> Seq(Shown)] : IsKept(k, s) /\ Sanitize(s) = k[Len(s)]
<1> DEFINE n == Len(s)
           V == Seq(Shown)
           step == [i \in 1 .. n |-> [t \in V |-> IF i \in Orphans(s) THEN t ELSE Append(t, s[i])]]
           body(g) == [i \in 0 .. n |-> IF i = 0 THEN <<>>
                                        ELSE IF i \in Orphans(s) THEN g[i-1] ELSE Append(g[i-1], s[i])]
           kept == CHOOSE g : g = body(g)
<1>1. n \in Nat /\ <<>> \in V /\ step \in [1 .. n -> [V -> V]]
  OBVIOUS
<1>2. \A i \in 1 .. n, t \in V : /\ step[i][t] = IF i \in Orphans(s) THEN t ELSE Append(t, s[i])
                                 /\ i \notin Orphans(s) => Append(t, s[i]) \in V
  OBVIOUS
<1>3. Sanitize(s) = kept[n]
  BY DEF Sanitize
<1> HIDE DEF n, V, step
<1>4. PICK f \in [0 .. n -> V] : Follows(f, <<>>, step, n)
  BY <1>1, Recursion
<1>5. \A i \in 1 .. n : i - 1 \in 0 .. n /\ i # 0 /\ i \in 0 .. n
  BY <1>1
<1>6. \A i \in 1 .. n : f[i] = IF i \in Orphans(s) THEN f[i - 1] ELSE Append(f[i - 1], s[i])
  BY <1>2, <1>4, <1>5 DEF Follows
<1>7. f = body(f)
  <2>1. \A i \in 0 .. n : i = 0 \/ i \in 1 .. n
    BY <1>1
  <2>2. \A i \in 0 .. n : f[i] = IF i = 0 THEN <<>>
                                        ELSE IF i \in Orphans(s) THEN f[i-1] ELSE Append(f[i-1], s[i])
    BY <1>4, <1>5, <1>6, <2>1 DEF Follows
  <2>3. QED
    BY <2>2
<1>8. kept = body(kept)
  <2> HIDE DEF body
  <2>1. QED
    BY <1>7, Zenon
<1> HIDE DEF kept
<1>9. /\ kept[0] = <<>>
      /\ \A i \in 1 .. n : kept[i] = IF i \in Orphans(s) THEN kept[i - 1] ELSE Append(kept[i - 1], s[i])
  <2>1. \A i \in 0 .. n : kept[i] = IF i = 0 THEN <<>>
                                     ELSE IF i \in Orphans(s) THEN kept[i-1] ELSE Append(kept[i-1], s[i])
    BY <1>8, Zenon
  <2>2. 0 \in 0 .. n
    BY <1>1
  <2>3. QED
    BY <1>5, <2>1, <2>2
<1>10. \A i \in 0 .. n : kept[i] \in V
  <2> DEFINE S == {i \in 0 .. n : kept[i] \in V}
  <2>1. 0 \in S
    BY <1>1, <1>9
  <2>2. ASSUME NEW i \in Nat, i < n, i \in S
        PROVE  i + 1 \in S
    <3>1. i + 1 \in 1 .. n /\ (i + 1) - 1 = i /\ i + 1 \in 0 .. n
      BY <1>1, <2>2
    <3>2. kept[i + 1] = IF i + 1 \in Orphans(s) THEN kept[i] ELSE Append(kept[i], s[i + 1])
      BY <1>9, <3>1
    <3>3. QED
      BY <1>2, <2>2, <3>1, <3>2
  <2> HIDE DEF S
  <2>3. \A i \in 0 .. n : i \in S
    BY <1>1, <2>1, <2>2, SetInduction
  <2>4. QED
    BY <2>3 DEF S
<1>11. kept \in [0 .. n -> V]
  BY <1>8, <1>10
<1>12. QED
  BY <1>3, <1>9, <1>11 DEF n, V, IsKept

LEMMA ShownAppend ==
  ASSUME NEW s \in Seq(Shown), NEW m \in Shown
  PROVE  /\ Append(s, m) \in Seq(Shown) /\ Len(Append(s, m)) = Len(s) + 1 /\ Len(s) \in Nat
         /\ DOMAIN Append(s, m) = 1 .. Len(s) + 1 /\ DOMAIN s = 1 .. Len(s)
         /\ Append(s, m)[Len(s) + 1] = m /\ \A i \in 1 .. Len(s) : Append(s, m)[i] = s[i]
  OBVIOUS

\* Results whose calls are there already are no orphans.
LEMMA NoOrphanAppended ==
  ASSUME NEW s \in Seq(Shown), NEW m \in Shown, Orphans(s) = {},
         m.kind = "results" => \E p \in DOMAIN s : s[p].kind = "calls" /\ s[p].call = m.call
  PROVE  Orphans(Append(s, m)) = {}
<1> DEFINE t == Append(s, m)
<1>1. /\ Len(s) \in Nat /\ DOMAIN t = 1 .. Len(s) + 1 /\ DOMAIN s = 1 .. Len(s)
      /\ t[Len(s) + 1] = m /\ \A i \in 1 .. Len(s) : t[i] = s[i]
  BY ShownAppend
<1> HIDE DEF t
<1>2. SUFFICES ASSUME NEW i \in DOMAIN t, t[i].kind = "results"
               PROVE  \E j \in 1 .. i - 1 : t[j].kind = "calls" /\ t[j].call = t[i].call
  BY DEF Orphans, t
<1>3. CASE i = Len(s) + 1
  <2>1. PICK p \in DOMAIN s : s[p].kind = "calls" /\ s[p].call = m.call
    BY <1>1, <1>2, <1>3
  <2>2. p \in 1 .. i - 1 /\ t[p] = s[p] /\ t[i] = m
    BY <1>1, <1>3
  <2>3. QED
    BY <2>1, <2>2
<1>4. CASE i \in 1 .. Len(s)
  <2>1. i \in DOMAIN s /\ s[i].kind = "results" /\ t[i] = s[i]
    BY <1>1, <1>2, <1>4
  <2>2. PICK j \in 1 .. i - 1 : s[j].kind = "calls" /\ s[j].call = s[i].call
    BY <2>1 DEF Orphans
  <2>3. j \in 1 .. Len(s)
    BY <1>1, <1>4
  <2>4. QED
    BY <1>1, <2>1, <2>2, <2>3
<1>5. QED
  BY <1>1, <1>3, <1>4

LEMMA SanitizedHasNoOrphan ==
  ASSUME NEW s \in Seq(Shown)
  PROVE  Sanitize(s) \in Seq(Shown) /\ Orphans(Sanitize(s)) = {}
<1>1. PICK k \in [0 .. Len(s) -> Seq(Shown)] : IsKept(k, s) /\ Sanitize(s) = k[Len(s)]
  BY SanitizeUnfolds
<1>2. Len(s) \in Nat /\ DOMAIN s = 1 .. Len(s) /\ \A i \in 1 .. Len(s) : s[i] \in Shown
  OBVIOUS
<1> DEFINE Called(i) == \A q \in 1 .. i : s[q].kind = "calls" => \E p \in DOMAIN k[i] : k[i][p] = s[q]
           S == {i \in 0 .. Len(s) : Orphans(k[i]) = {} /\ Called(i)}
<1>3. 0 \in S
  BY <1>1, <1>2 DEF IsKept, Orphans
<1>4. ASSUME NEW i \in Nat, i < Len(s), i \in S
      PROVE  i + 1 \in S
  <2>1. i + 1 \in 1 .. Len(s) /\ (i + 1) - 1 = i /\ i \in 0 .. Len(s) /\ i + 1 \in 0 .. Len(s)
    BY <1>2, <1>4
  <2>2. PICK m \in Shown : m = s[i + 1]
    BY <1>2, <2>1
  <2>3. PICK t \in Seq(Shown) : t = k[i]
    BY <2>1
  <2>4. k[i + 1] = IF i + 1 \in Orphans(s) THEN t ELSE Append(t, m)
    BY <1>1, <2>1, <2>2, <2>3 DEF IsKept
  <2>5. Orphans(t) = {} /\ \A q \in 1 .. i : s[q].kind = "calls" => \E p \in DOMAIN t : t[p] = s[q]
    BY <1>4, <2>3
  <2>6. \A q \in 1 .. i + 1 : q \in 1 .. i \/ q = i + 1
    OBVIOUS
  <2>7. CASE i + 1 \in Orphans(s)
    <3>1. m.kind = "results" /\ k[i + 1] = t
      BY <2>2, <2>4, <2>7 DEF Orphans
    <3>2. Orphans(k[i + 1]) = {} /\ Called(i + 1)
      BY <2>2, <2>5, <2>6, <3>1
    <3>3. QED
      BY <2>1, <3>2
  <2>8. CASE i + 1 \notin Orphans(s)
    <3> DEFINE u == Append(t, m)
    <3>1. k[i + 1] = u
      BY <2>4, <2>8
    <3>2. /\ DOMAIN u = 1 .. Len(t) + 1 /\ DOMAIN t = 1 .. Len(t) /\ Len(t) \in Nat
          /\ u[Len(t) + 1] = m /\ \A p \in 1 .. Len(t) : u[p] = t[p]
      BY ShownAppend
    <3>3. m.kind = "results" => \E p \in DOMAIN t : t[p].kind = "calls" /\ t[p].call = m.call
      <4>1. SUFFICES ASSUME m.kind = "results"
                     PROVE  \E p \in DOMAIN t : t[p].kind = "calls" /\ t[p].call = m.call
        OBVIOUS
      <4>2. PICK j \in 1 .. (i + 1) - 1 : s[j].kind = "calls" /\ s[j].call = m.call
        BY <1>2, <2>1, <2>2, <2>8, <4>1 DEF Orphans
      <4>3. j \in 1 .. i
        BY <2>1
      <4>4. QED
        BY <2>5, <4>2, <4>3
    <3>4. Orphans(u) = {}
      BY <2>5, <3>3, NoOrphanAppended
    <3> HIDE DEF u
    <3>5. ASSUME NEW q \in 1 .. i + 1, s[q].kind = "calls"
          PROVE  \E p \in DOMAIN u : u[p] = s[q]
      <4>1. CASE q = i + 1
        BY <2>2, <3>2, <4>1
      <4>2. CASE q \in 1 .. i
        <5>1. PICK p \in DOMAIN t : t[p] = s[q]
          BY <2>5, <3>5, <4>2
        <5>2. p \in DOMAIN u /\ u[p] = s[q]
          BY <3>2, <5>1
        <5>3. QED
          BY <5>2
      <4>3. QED
        BY <2>6, <4>1, <4>2
    <3>6. Called(i + 1)
      BY <3>1, <3>5
    <3>7. QED
      BY <2>1, <3>1, <3>4, <3>6
  <2>9. QED
    BY <2>7, <2>8
<1> HIDE DEF S
<1>5. \A i \in 0 .. Len(s) : i \in S
  BY <1>2, <1>3, <1>4, SetInduction
<1>6. Len(s) \in 0 .. Len(s)
  BY <1>2
<1>7. QED
  BY <1>1, <1>5, <1>6 DEF S

LEMMA SanitizeKeepsPaired ==
  ASSUME NEW s \in Seq(Shown), Orphans(s) = {}
  PROVE  Sanitize(s) = s
<1>1. PICK k \in [0 .. Len(s) -> Seq(Shown)] : IsKept(k, s) /\ Sanitize(s) = k[Len(s)]
  BY SanitizeUnfolds
<1>2. Len(s) \in Nat /\ DOMAIN s = 1 .. Len(s) /\ \A i \in 1 .. Len(s) : s[i] \in Shown
  OBVIOUS
<1> DEFINE S == {i \in 0 .. Len(s) : Len(k[i]) = i /\ \A j \in 1 .. i : k[i][j] = s[j]}
<1>3. 0 \in S
  BY <1>1, <1>2 DEF IsKept
<1>4. ASSUME NEW i \in Nat, i < Len(s), i \in S
      PROVE  i + 1 \in S
  <2>1. i + 1 \in 1 .. Len(s) /\ (i + 1) - 1 = i /\ i \in 0 .. Len(s) /\ i + 1 \in 0 .. Len(s)
    BY <1>2, <1>4
  <2>2. PICK m \in Shown : m = s[i + 1]
    BY <1>2, <2>1
  <2>3. PICK t \in Seq(Shown) : t = k[i]
    BY <2>1
  <2>4. k[i + 1] = Append(t, m) /\ Len(t) = i /\ \A j \in 1 .. i : t[j] = s[j]
    BY <1>1, <1>4, <2>1, <2>2, <2>3 DEF IsKept
  <2>5. Len(k[i + 1]) = i + 1 /\ k[i + 1][i + 1] = m /\ \A j \in 1 .. i : k[i + 1][j] = t[j]
    BY <2>4, ShownAppend
  <2>6. \A j \in 1 .. i + 1 : j \in 1 .. i \/ j = i + 1
    OBVIOUS
  <2>7. \A j \in 1 .. i + 1 : k[i + 1][j] = s[j]
    BY <2>2, <2>4, <2>5, <2>6
  <2>8. QED
    BY <2>1, <2>5, <2>7
<1> HIDE DEF S
<1>5. \A i \in 0 .. Len(s) : i \in S
  BY <1>2, <1>3, <1>4, SetInduction
<1>6. Len(s) \in 0 .. Len(s)
  BY <1>2
<1>7. PICK t \in Seq(Shown) : t = k[Len(s)]
  BY <1>6
<1>8. Len(t) = Len(s) /\ \A j \in 1 .. Len(s) : t[j] = s[j]
  BY <1>5, <1>6, <1>7 DEF S
<1>9. QED
  BY <1>1, <1>7, <1>8

\* Compaction cuts between calls and their results in one place only, behind the summary.
LEMMA SanitizeDropsSecond ==
  ASSUME NEW s \in Seq(Shown), Orphans(s) = {2}
  PROVE  /\ Sanitize(s) \in Seq(Shown)
         /\ Len(s) >= 2 /\ Len(Sanitize(s)) = Len(s) - 1 /\ Sanitize(s)[1] = s[1]
         /\ \A j \in 2 .. Len(s) - 1 : Sanitize(s)[j] = s[j + 1]
<1>1. PICK k \in [0 .. Len(s) -> Seq(Shown)] : IsKept(k, s) /\ Sanitize(s) = k[Len(s)]
  BY SanitizeUnfolds
<1>2. Len(s) \in Nat /\ DOMAIN s = 1 .. Len(s) /\ \A i \in 1 .. Len(s) : s[i] \in Shown
  OBVIOUS
<1>3. Len(s) >= 2
  <2>1. 2 \in DOMAIN s
    BY DEF Orphans
  <2>2. QED
    BY <1>2, <2>1
<1> DEFINE After(i) == Len(k[i]) = i - 1 /\ k[i][1] = s[1] /\ \A j \in 2 .. i - 1 : k[i][j] = s[j + 1]
           S == {i \in 0 .. Len(s) : i >= 2 => After(i)}
<1>4. 0 \in S
  BY <1>2
<1>5. ASSUME NEW i \in Nat, i < Len(s), i \in S
      PROVE  i + 1 \in S
  <2>1. i + 1 \in 1 .. Len(s) /\ (i + 1) - 1 = i /\ i \in 0 .. Len(s) /\ i + 1 \in 0 .. Len(s)
    BY <1>2, <1>5
  <2>2. CASE i = 0
    BY <2>1, <2>2
  <2>3. CASE i = 1
    <3>1. 1 \in 1 .. Len(s) /\ 2 \in 1 .. Len(s) /\ 0 \in 0 .. Len(s) /\ 1 - 1 = 0 /\ 2 - 1 = 1
      BY <1>2, <1>3
    <3>2. 1 \notin Orphans(s) /\ 2 \in Orphans(s)
      OBVIOUS
    <3>3. k[0] = <<>> /\ k[1] = Append(k[0], s[1])
      BY <1>1, <3>1, <3>2 DEF IsKept
    <3>4. k[2] = k[1]
      BY <1>1, <3>1, <3>2 DEF IsKept
    <3>5. k[2] = <<s[1]>>
      BY <3>3, <3>4
    <3>6. After(2)
      BY <3>5
    <3>7. QED
      BY <2>1, <2>3, <3>6
  <2>4. CASE i >= 2
    <3>1. PICK m \in Shown : m = s[i + 1]
      BY <1>2, <2>1
    <3>2. PICK t \in Seq(Shown) : t = k[i]
      BY <2>1
    <3>3. i + 1 \notin Orphans(s)
      BY <2>4
    <3>4. /\ k[i + 1] = Append(t, m) /\ Len(t) = i - 1 /\ t[1] = s[1]
          /\ \A j \in 2 .. i - 1 : t[j] = s[j + 1]
      BY <1>1, <1>5, <2>1, <2>4, <3>1, <3>2, <3>3 DEF IsKept
    <3>5. /\ Len(k[i + 1]) = i /\ k[i + 1][i] = m
          /\ \A j \in 1 .. i - 1 : k[i + 1][j] = t[j]
      BY <2>4, <3>4, ShownAppend
    <3>6. \A j \in 2 .. i : (j \in 1 .. i - 1 /\ j \in 2 .. i - 1) \/ j = i
      OBVIOUS
    <3>7. 1 \in 1 .. i - 1
      BY <2>4
    <3>8. \A j \in 2 .. i : k[i + 1][j] = s[j + 1]
      BY <3>1, <3>4, <3>5, <3>6
    <3>9. Len(k[i + 1]) = (i + 1) - 1 /\ k[i + 1][1] = s[1]
      BY <2>1, <3>4, <3>5, <3>7
    <3>10. After(i + 1)
      BY <2>1, <3>8, <3>9
    <3>11. QED
      BY <2>1, <3>10
  <2>5. QED
    BY <2>2, <2>3, <2>4
<1> HIDE DEF S
<1>6. \A i \in 0 .. Len(s) : i \in S
  BY <1>2, <1>4, <1>5, SetInduction
<1>7. Len(s) \in 0 .. Len(s)
  BY <1>2
<1>8. After(Len(s)) /\ k[Len(s)] \in Seq(Shown)
  BY <1>3, <1>6, <1>7 DEF S
<1>9. QED
  BY <1>1, <1>3, <1>8
------------------------------------------------------------------------------
(***************************************************************************)
(* What run_turn works on is the log, or a summary and the end of the log. *)
(***************************************************************************)

\* m is a summary of the first d messages of l, and the rest of l.
Cuts(m, l, d) ==
  /\ Len(m) = 1 + Len(l) - d
  /\ m[1] = Summary
  /\ \A j \in 2 .. Len(m) : m[j] = l[d + j - 1]

Remembers(m, l) == m = l \/ \E d \in 0 .. Len(l) : Cuts(m, l, d)

\* The answer is in messages before it is in the log.
ViewInv ==
  /\ messages \in Seq(Shown)
  /\ pc = "input" => messages = log
  /\ pc \in {"loop", "call", "tools"} => Remembers(messages, log)
  /\ pc = "answer" => Remembers(messages, Append(log, AssistantMsg))
  /\ NoOrphanResults

LEMMA SummaryIsNoMessage == Summary \notin Talk!Message
  BY DEF Summary, Talk!Message, Talk!Kind

\* What appending a message to both leaves of the cut.
LEMMA RemembersAppended ==
  ASSUME NEW m \in Seq(Shown), NEW l \in Seq(Talk!Message), NEW x \in Talk!Message,
         Remembers(m, l)
  PROVE  Append(m, x) \in Seq(Shown) /\ Remembers(Append(m, x), Append(l, x))
<1>1. x \in Shown
  BY DEF Shown
<1>2. /\ Append(m, x) \in Seq(Shown) /\ Len(Append(m, x)) = Len(m) + 1 /\ Len(m) \in Nat
      /\ Append(m, x)[Len(m) + 1] = x /\ \A i \in 1 .. Len(m) : Append(m, x)[i] = m[i]
  BY <1>1, ShownAppend
<1>3. CASE m = l
  BY <1>2, <1>3 DEF Remembers
<1>4. ASSUME NEW d \in 0 .. Len(l), Cuts(m, l, d)
      PROVE  Cuts(Append(m, x), Append(l, x), d) /\ d \in 0 .. Len(Append(l, x))
  <2> DEFINE a == Append(m, x)
             b == Append(l, x)
  <2>1. /\ Len(b) = Len(l) + 1 /\ b[Len(l) + 1] = x /\ Len(l) \in Nat
        /\ \A i \in 1 .. Len(l) : b[i] = l[i]
    BY AppendEffect
  <2>2. /\ Len(a) = Len(m) + 1 /\ Len(m) \in Nat
        /\ a[Len(m) + 1] = x /\ \A i \in 1 .. Len(m) : a[i] = m[i]
    BY <1>2
  <2>3. Len(m) = 1 + Len(l) - d /\ m[1] = Summary /\ \A j \in 2 .. Len(m) : m[j] = l[d + j - 1]
    BY <1>4 DEF Cuts
  <2> HIDE DEF a, b
  <2>4. Len(a) = 1 + Len(b) - d /\ d \in 0 .. Len(b) /\ 1 \in 1 .. Len(m)
    BY <2>1, <2>2, <2>3
  <2>5. ASSUME NEW j \in 2 .. Len(a)
        PROVE  a[j] = b[d + j - 1]
    <3>1. CASE j = Len(m) + 1
      <4>1. d + j - 1 = Len(l) + 1
        BY <2>1, <2>2, <2>3, <3>1
      <4>2. QED
        BY <2>1, <2>2, <3>1, <4>1
    <3>2. CASE j # Len(m) + 1
      <4>1. j \in 2 .. Len(m) /\ j \in 1 .. Len(m)
        BY <2>2, <3>2
      <4>2. d + j - 1 \in 1 .. Len(l)
        BY <2>1, <2>3, <4>1
      <4>3. QED
        BY <2>1, <2>2, <2>3, <4>1, <4>2
    <3>3. QED
      BY <3>1, <3>2
  <2>6. a[1] = Summary
    BY <2>2, <2>3, <2>4
  <2>7. Cuts(a, b, d)
    BY <2>4, <2>5, <2>6 DEF Cuts
  <2>8. QED
    BY <2>4, <2>7 DEF a, b
<1>5. QED
  BY <1>2, <1>3, <1>4 DEF Remembers

\* What a compaction keeps is the end of the log as well.
LEMMA CompactedRemembers ==
  ASSUME NEW m \in Seq(Shown), NEW l \in Seq(Talk!Message), Remembers(m, l),
         NEW s \in Compactions(m)
  PROVE  s \in Seq(Shown) /\ Remembers(s, l)
<1>1. CASE s = m
  BY <1>1
<1>2. CASE s # m
  <2>1. KeepRecent \in Nat /\ KeepRecent > 0 /\ Len(m) > KeepRecent /\ Len(m) \in Nat /\ Len(l) \in Nat
    BY <1>2, BoundsAssumption DEF Compactions
  <2>2. s = <<Summary>> \o SubSeq(m, Len(m) - KeepRecent + 1, Len(m))
    BY <1>2, <2>1 DEF Compactions
  <2> DEFINE from == Len(m) - KeepRecent + 1
             rest == SubSeq(m, from, Len(m))
             d == Len(l) - KeepRecent
  <2>3. /\ rest \in Seq(Shown) /\ Len(rest) = KeepRecent
        /\ \A j \in 1 .. KeepRecent : rest[j] = m[from + j - 1]
    <3>1. from \in 1 .. Len(m) /\ Len(m) - from + 1 = KeepRecent
      BY <2>1
    <3> HIDE DEF from
    <3>2. QED
      BY <2>1, <3>1
  <2> HIDE DEF rest
  <2>4. /\ s \in Seq(Shown) /\ Len(s) = 1 + KeepRecent /\ s[1] = Summary
        /\ \A j \in 2 .. 1 + KeepRecent : s[j] = rest[j - 1]
    <3>1. Summary \in Shown /\ <<Summary>> \in Seq(Shown) /\ Len(<<Summary>>) = 1
      BY DEF Shown
    <3>2. s = <<Summary>> \o rest
      BY <2>2 DEF rest
    <3>3. QED
      BY <2>1, <2>3, <3>1, <3>2
  <2>5. ASSUME NEW j \in 2 .. 1 + KeepRecent
        PROVE  s[j] = m[Len(m) - KeepRecent + j - 1]
    <3>1. j - 1 \in 1 .. KeepRecent /\ from + (j - 1) - 1 = Len(m) - KeepRecent + j - 1
      BY <2>1
    <3> HIDE DEF from
    <3>2. rest[j - 1] = m[from + (j - 1) - 1]
      BY <2>3, <3>1
    <3>3. QED
      BY <2>4, <3>1, <3>2
  <2>6. /\ d \in 0 .. Len(l)
        /\ \A j \in 2 .. 1 + KeepRecent : m[Len(m) - KeepRecent + j - 1] = l[Len(l) - KeepRecent + j - 1]
    <3>1. CASE m = l
      BY <2>1, <3>1
    <3>2. ASSUME NEW e \in 0 .. Len(l), Cuts(m, l, e)
          PROVE  <2>6!:
      <4>1. Len(m) = 1 + Len(l) - e /\ \A j \in 2 .. Len(m) : m[j] = l[e + j - 1]
        BY <3>2 DEF Cuts
      <4>2. d \in 0 .. Len(l)
        BY <2>1, <4>1
      <4>3. ASSUME NEW j \in 2 .. 1 + KeepRecent
            PROVE  /\ Len(m) - KeepRecent + j - 1 \in 2 .. Len(m)
                   /\ e + (Len(m) - KeepRecent + j - 1) - 1 = Len(l) - KeepRecent + j - 1
        BY <2>1, <4>1
      <4>4. QED
        BY <4>1, <4>2, <4>3
    <3>3. QED
      BY <3>1, <3>2 DEF Remembers
  <2>7. Len(s) = 1 + Len(l) - d
    BY <2>1, <2>4
  <2>8. \A j \in 2 .. Len(s) : s[j] = l[d + j - 1]
    BY <2>4, <2>5, <2>6
  <2>9. Cuts(s, l, d)
    BY <2>4, <2>7, <2>8 DEF Cuts
  <2>10. QED
    BY <2>4, <2>6, <2>9 DEF Remembers
<1>3. QED
  BY <1>1, <1>2

\* Of a conversation whose results stand behind their calls, a cut orphans one message.
LEMMA RememberedOrphans ==
  ASSUME NEW m \in Seq(Shown), log \in Seq(Talk!Message), Talk!Paired, Remembers(m, log)
  PROVE  /\ m = log => Orphans(m) = {}
         /\ Orphans(m) \in {{}, {2}}
<1>1. /\ DOMAIN log = 1 .. Len(log) /\ Len(log) \in Nat /\ DOMAIN m = 1 .. Len(m) /\ Len(m) \in Nat
  OBVIOUS
<1>2. \A i \in 1 .. Len(log) : log[i].kind = "results" =>
        i > 1 /\ log[i-1].kind = "calls" /\ log[i-1].call = log[i].call
  <2>1. \A c, n : Talk!Calls(c, n).kind = "calls" /\ Talk!Calls(c, n).call = c
    BY DEF Talk!Calls
  <2>2. SUFFICES ASSUME NEW i \in 1 .. Len(log), log[i].kind = "results"
                 PROVE  i > 1 /\ log[i-1].kind = "calls" /\ log[i-1].call = log[i].call
    OBVIOUS
  <2>3. i > 1 /\ log[i-1] = Talk!Calls(log[i].call, log[i].n)
    BY <1>1, <2>2 DEF Talk!Paired
  <2>4. QED
    BY <2>1, <2>3
<1>3. CASE m = log
  <2>1. ASSUME NEW i \in Orphans(m)
        PROVE  FALSE
    <3>1. i \in 1 .. Len(log) /\ log[i].kind = "results"
      BY <1>1, <1>3 DEF Orphans
    <3>2. i - 1 \in 1 .. i - 1 /\ log[i-1].kind = "calls" /\ log[i-1].call = log[i].call
      BY <1>1, <1>2, <3>1
    <3>3. QED
      BY <1>3, <3>2 DEF Orphans
  <2>2. QED
    BY <2>1
<1>4. ASSUME NEW d \in 0 .. Len(log), Cuts(m, log, d)
      PROVE  \A i \in Orphans(m) : i = 2
  <2>1. /\ Len(m) = 1 + Len(log) - d /\ m[1] = Summary
        /\ \A j \in 2 .. Len(m) : m[j] = log[d + j - 1]
    BY <1>4 DEF Cuts
  <2>2. SUFFICES ASSUME NEW i \in Orphans(m), i # 2
                 PROVE  FALSE
    OBVIOUS
  <2>3. i \in 1 .. Len(m) /\ m[i].kind = "results"
    BY <1>1 DEF Orphans
  <2>4. i # 1
    BY <2>1, <2>3 DEF Summary
  <2>5. /\ i \in 2 .. Len(m) /\ i - 1 \in 2 .. Len(m) /\ i - 1 \in 1 .. i - 1
        /\ d + i - 1 \in 1 .. Len(log) /\ (d + i - 1) - 1 = d + (i - 1) - 1
    BY <1>1, <2>1, <2>2, <2>3, <2>4
  <2>6. m[i] = log[d + i - 1] /\ m[i - 1] = log[d + (i - 1) - 1]
    BY <2>1, <2>5
  <2>7. log[(d + i - 1) - 1].kind = "calls" /\ log[(d + i - 1) - 1].call = log[d + i - 1].call
    BY <1>2, <2>3, <2>5, <2>6
  <2>8. m[i - 1].kind = "calls" /\ m[i - 1].call = m[i].call
    BY <2>5, <2>6, <2>7
  <2>9. QED
    BY <2>5, <2>8 DEF Orphans
<1>5. (\A i \in Orphans(m) : i = 2) => Orphans(m) \in {{}, {2}}
  OBVIOUS
<1>6. QED
  BY <1>3, <1>4, <1>5 DEF Remembers

\* Sanitizing drops that message, and nothing else.
LEMMA SanitizedRemembers ==
  ASSUME NEW s \in Seq(Shown), log \in Seq(Talk!Message), Talk!Paired, Remembers(s, log)
  PROVE  /\ Sanitize(s) \in Seq(Shown) /\ Remembers(Sanitize(s), log)
         /\ Orphans(Sanitize(s)) = {}
<1>1. Sanitize(s) \in Seq(Shown) /\ Orphans(Sanitize(s)) = {}
  BY SanitizedHasNoOrphan
<1>2. CASE Orphans(s) = {}
  BY <1>1, <1>2, SanitizeKeepsPaired
<1>3. CASE Orphans(s) = {2}
  <2>1. PICK t \in Seq(Shown) : t = Sanitize(s)
    BY <1>1
  <2>2. /\ Len(s) >= 2 /\ Len(t) = Len(s) - 1 /\ t[1] = s[1]
        /\ \A j \in 2 .. Len(s) - 1 : t[j] = s[j + 1]
    BY <1>3, <2>1, SanitizeDropsSecond
  <2>3. PICK d \in 0 .. Len(log) : Cuts(s, log, d)
    BY <1>3, RememberedOrphans DEF Remembers
  <2>4. /\ Len(s) = 1 + Len(log) - d /\ s[1] = Summary
        /\ \A j \in 2 .. Len(s) : s[j] = log[d + j - 1]
    BY <2>3 DEF Cuts
  <2>5. Len(log) \in Nat /\ Len(s) \in Nat
    OBVIOUS
  <2>6. d + 1 \in 0 .. Len(log) /\ Len(t) = 1 + Len(log) - (d + 1)
    BY <2>2, <2>4, <2>5
  <2>7. ASSUME NEW j \in 2 .. Len(t)
        PROVE  t[j] = log[(d + 1) + j - 1]
    <3>1. j \in 2 .. Len(s) - 1 /\ j + 1 \in 2 .. Len(s) /\ d + (j + 1) - 1 = (d + 1) + j - 1
      BY <2>2, <2>4, <2>5
    <3>2. QED
      BY <2>2, <2>4, <3>1
  <2>8. Cuts(t, log, d + 1)
    BY <2>2, <2>4, <2>6, <2>7 DEF Cuts
  <2>9. QED
    BY <1>1, <2>1, <2>6, <2>8 DEF Remembers
<1>4. QED
  BY <1>2, <1>3, RememberedOrphans

LEMMA InitView == Init => ViewInv
  BY DEF Init, ViewInv, NoOrphanResults

\* Steps that leave the conversation as it is, here and on disk.
LEMMA QuietView ==
  ASSUME TalkInv, ViewInv, messages' = messages, log' = log, answers' = answers,
         pc' = pc \/ pc' \in {"idle", "get", "end", "mention", "delegate"},
         pc = "answer" => todo' = todo
  PROVE  ViewInv'
<1>1. pc' = "answer" => AssistantMsg' = AssistantMsg
  BY DEF AssistantMsg
<1>2. Orphans(messages)' = Orphans(messages)
  BY DEF Orphans
<1>3. PICK l, m, a : l = log /\ m = messages /\ a = AssistantMsg
  OBVIOUS
<1>4. ViewInv /\ l = log' /\ m = messages'
  BY <1>3
<1>5. pc' \in {"loop", "call", "tools"} => Remembers(m, l)
  BY <1>3, <1>4 DEF ViewInv
<1>6. pc' = "answer" => Remembers(m, Append(l, a)) /\ a = AssistantMsg'
  BY <1>1, <1>3, <1>4 DEF ViewInv
<1>7. m \in Seq(Shown) /\ (pc' = "input" => m = l) /\ (pc' = "call" => Orphans(messages)' = {})
  BY <1>2, <1>3, <1>4 DEF ViewInv, NoOrphanResults
<1>8. ViewInv' <=> /\ messages' \in Seq(Shown)
                   /\ pc' = "input" => messages' = log'
                   /\ pc' \in {"loop", "call", "tools"} => Remembers(messages', log')
                   /\ pc' = "answer" => Remembers(messages', Append(log', AssistantMsg'))
                   /\ pc' = "call" => Orphans(messages)' = {}
  BY DEF ViewInv, NoOrphanResults
<1>9. QED
  BY ONLY <1>4, <1>5, <1>6, <1>7, <1>8

\* The runtime is dropped with its messages.
LEMMA DroppedView ==
  ASSUME messages' = <<>>, pc' \in {"idle", "end"}
  PROVE  ViewInv'
  BY DEF ViewInv, NoOrphanResults

LEMMA ReadView ==
  ASSUME TalkInv, ReadLog
  PROVE  ViewInv'
<1>1. log \in Seq(Shown)
  <2>1. log \in Seq(Talk!Message) /\ Talk!Message \subseteq Shown
    BY DEF TalkInv, ControlOK, Shown
  <2>2. QED
    BY <2>1
<1>2. messages' = log /\ log' = log /\ pc' = "input"
  BY DEF ReadLog
<1>3. QED
  BY <1>1, <1>2 DEF ViewInv, NoOrphanResults

LEMMA InputView ==
  ASSUME TalkInv, ViewInv, AppendInput
  PROVE  ViewInv'
<1>1. /\ log \in Seq(Talk!Message) /\ messages \in Seq(Shown) /\ messages = log
      /\ Talk!Input \in Talk!Message
  BY MessageTypes DEF TalkInv, ControlOK, ViewInv, AppendInput
<1>2. log' = Append(log, Talk!Input) /\ messages' = Append(messages, Talk!Input) /\ pc' = "loop"
  BY DEF AppendInput
<1>3. messages' \in Seq(Shown) /\ Remembers(messages', log')
  <2>1. Talk!Input \in Shown
    BY <1>1 DEF Shown
  <2>2. messages' \in Seq(Shown) /\ messages' = log'
    BY <1>1, <1>2, <2>1
  <2>3. QED
    BY <2>2 DEF Remembers
<1>4. QED
  BY <1>2, <1>3 DEF ViewInv, NoOrphanResults

LEMMA RequestView ==
  ASSUME TalkInv, Talk!Paired, ViewInv, StartCall
  PROVE  ViewInv'
<1>1. log \in Seq(Talk!Message) /\ messages \in Seq(Shown) /\ Remembers(messages, log)
  BY DEF TalkInv, ControlOK, ViewInv, StartCall
<1>2. PICK s \in Compactions(messages) : messages' = Sanitize(s)
  BY DEF StartCall
<1>3. s \in Seq(Shown) /\ Remembers(s, log)
  BY <1>1, <1>2, CompactedRemembers
<1>4. /\ Sanitize(s) \in Seq(Shown) /\ Remembers(Sanitize(s), log)
      /\ Orphans(Sanitize(s)) = {}
  BY <1>1, <1>3, SanitizedRemembers
<1>5. log' = log /\ pc' = "call"
  BY DEF StartCall
<1>6. QED
  BY <1>2, <1>4, <1>5 DEF ViewInv, NoOrphanResults

LEMMA AnswerView ==
  ASSUME TalkInv, TalkInv', ViewInv, CallAnswers
  PROVE  ViewInv'
<1>1. log \in Seq(Talk!Message) /\ messages \in Seq(Shown) /\ Remembers(messages, log)
  BY DEF TalkInv, ControlOK, ViewInv, CallAnswers
<1>2. answers' \in Nat /\ todo' \in Nat
  BY BoundsAssumption DEF TalkInv, ControlOK
<1>3. AssistantMsg' \in Talk!Message
  BY <1>2, MessageTypes DEF AssistantMsg
<1>4. messages' = Append(messages, AssistantMsg') /\ log' = log /\ pc' = "answer"
  BY DEF CallAnswers
<1>5. PICK a \in Talk!Message : a = AssistantMsg'
  BY <1>3
<1>6. Append(messages, a) \in Seq(Shown) /\ Remembers(Append(messages, a), Append(log, a))
  BY <1>1, RemembersAppended
<1>7. messages' \in Seq(Shown) /\ Remembers(messages', Append(log', AssistantMsg'))
  BY <1>4, <1>5, <1>6
<1>8. QED
  BY <1>4, <1>7 DEF ViewInv, NoOrphanResults

LEMMA LoggedAnswerView ==
  ASSUME TalkInv, ViewInv, AppendAnswer
  PROVE  ViewInv'
<1>1. messages \in Seq(Shown) /\ Remembers(messages, Append(log, AssistantMsg))
  BY DEF ViewInv, AppendAnswer
<1>2. log' = Append(log, AssistantMsg) /\ messages' = messages /\ pc' \in {"end", "tools"}
  BY DEF AppendAnswer
<1>3. QED
  BY <1>1, <1>2 DEF ViewInv, NoOrphanResults

LEMMA ResultsView ==
  ASSUME TalkInv, ViewInv, AppendResults
  PROVE  ViewInv'
<1>1. log \in Seq(Talk!Message) /\ messages \in Seq(Shown) /\ Remembers(messages, log)
  BY DEF TalkInv, ControlOK, ViewInv, AppendResults
<1>2. answers \in Nat /\ done \in Nat
  BY BoundsAssumption DEF TalkInv, ControlOK
<1>3. PICK r \in Talk!Message : r = Talk!Results(answers, done)
  BY <1>2, MessageTypes
<1>4. messages' = Append(messages, r) /\ log' = Append(log, r) /\ pc' = "loop"
  BY <1>3 DEF AppendResults
<1>5. messages' \in Seq(Shown) /\ Remembers(messages', log')
  BY <1>1, <1>4, RemembersAppended
<1>6. QED
  BY <1>4, <1>5 DEF ViewInv, NoOrphanResults

\* A mention writes the log behind the back of nobody: no turn is under way.
LEMMA MentionView ==
  ASSUME ViewInv, MentionInput \/ MentionCall \/ MentionResult
  PROVE  ViewInv'
<1>1. messages' = messages /\ pc' \in {"mention", "delegate", "idle"}
  BY DEF MentionInput, MentionCall, MentionResult
<1>2. QED
  BY <1>1 DEF ViewInv, NoOrphanResults

LEMMA StepView ==
  ASSUME TalkInv, TalkInv', Talk!Paired, ViewInv, [Next]_vars
  PROVE  ViewInv'
<1>1. CASE UNCHANGED vars
  BY <1>1, QuietView DEF vars
<1>2. ASSUME NEW m \in {"run", "tui"}, Submit(m) PROVE ViewInv'
  BY <1>2, QuietView DEF Submit
<1>3. CASE ReadLog
  BY <1>3, ReadView
<1>4. CASE Refuse
  BY <1>4, QuietView DEF Refuse, counts
<1>5. CASE AppendInput
  BY <1>5, InputView
<1>6. CASE LimitReached
  BY <1>6, QuietView DEF LimitReached, counts
<1>7. CASE StartCall
  BY <1>7, RequestView
<1>8. CASE RetryCall
  BY <1>8, QuietView DEF RetryCall
<1>9. CASE CallFails
  BY <1>9, QuietView DEF CallFails, counts
<1>10. CASE CallAnswers
  BY <1>10, AnswerView
<1>11. CASE AppendAnswer
  BY <1>11, LoggedAnswerView
<1>12. CASE RunTool
  BY <1>12, QuietView DEF RunTool
<1>13. CASE AppendResults
  BY <1>13, ResultsView
<1>14. CASE EndTurn
  BY <1>14, DroppedView DEF EndTurn, DropRuntime
<1>15. CASE MentionInput \/ MentionCall \/ MentionResult
  BY <1>15, MentionView
<1>16. CASE AppendFails
  BY <1>16, QuietView DEF AppendFails, counts
<1>17. CASE Crash
  BY <1>17, DroppedView DEF Crash, DropRuntime
<1>18. QED
  BY <1>1, <1>2, <1>3, <1>4, <1>5, <1>6, <1>7, <1>8, <1>9, <1>10, <1>11, <1>12, <1>13,
     <1>14, <1>15, <1>16, <1>17 DEF Next, Turn, User

\* Throughout every session, messages is the log or a summary and its end.
THEOREM ViewInvariant == Spec => []ViewInv
<1>1. Init => ViewInv
  BY InitView
<1>2. TalkInv /\ TalkInv' /\ Talk!Paired /\ ViewInv /\ [Next]_vars => ViewInv'
  BY StepView
<1>3. QED
  BY <1>1, <1>2, TalkInvariant, ResultsFollowTheirCalls, PTL DEF Spec

\* Types: what run_turn sends is made of the log's messages and one summary at most.
THEOREM TurnTypes == Spec => []TypeOK
<1>1. TalkInv /\ ViewInv => TypeOK
  BY DEF TalkInv, ViewInv, TypeOK
<1>2. QED
  BY <1>1, TalkInvariant, ViewInvariant, PTL

\* No request holds a tool result whose call is not in it: not after compaction has cut
\* between the two (sanitize_messages), nor after a crash or a failed write.
THEOREM RequestsHaveNoOrphans == Spec => []NoOrphanResults
<1>1. ViewInv => NoOrphanResults
  BY DEF ViewInv
<1>2. QED
  BY <1>1, ViewInvariant, PTL

LEMMA SameShown ==
  ASSUME NEW u \in Seq(Shown), NEW e \in Seq(Shown),
         Len(u) = Len(e), \A i \in 1 .. Len(u) : u[i] = e[i]
  PROVE  u = e
  OBVIOUS

LEMMA RememberedIsEnd ==
  ASSUME log \in Seq(Talk!Message), messages \in Seq(Shown), Remembers(messages, log)
  PROVE  /\ IsEndOf(Unsummarized, log)
         /\ messages # <<>> /\ messages[1] # Summary => messages = log
<1>1. Len(log) \in Nat /\ Len(messages) \in Nat
  OBVIOUS
<1>2. CASE messages = log
  <2>1. log # <<>> => log[1] # Summary
    BY SummaryIsNoMessage
  <2>2. Unsummarized = log
    BY <1>2, <2>1 DEF Unsummarized
  <2>3. SubSeq(log, 1, Len(log)) = log /\ Len(log) - Len(log) + 1 = 1
    BY <1>1
  <2>4. QED
    BY <1>1, <1>2, <2>2, <2>3 DEF IsEndOf
<1>3. ASSUME NEW d \in 0 .. Len(log), Cuts(messages, log, d)
      PROVE  IsEndOf(Unsummarized, log) /\ messages[1] = Summary
  <2>1. /\ Len(messages) = 1 + Len(log) - d /\ messages[1] = Summary
        /\ \A j \in 2 .. Len(messages) : messages[j] = log[d + j - 1]
    BY <1>3 DEF Cuts
  <2>2. messages # <<>>
    BY <1>1, <2>1
  <2>3. PICK u \in Seq(Shown) : u = Tail(messages)
    <3>1. Tail(messages) \in Seq(Shown)
      BY <2>2
    <3>2. QED
      BY <3>1
  <2>4. Len(u) = Len(log) - d /\ \A i \in 1 .. Len(u) : u[i] = messages[i + 1]
    BY <1>1, <2>1, <2>2, <2>3
  <2>5. \A i \in 1 .. Len(u) : u[i] = log[d + i]
    <3>1. ASSUME NEW i \in 1 .. Len(u)
          PROVE  i + 1 \in 2 .. Len(messages) /\ d + (i + 1) - 1 = d + i
      BY <1>1, <2>1, <2>4
    <3>2. QED
      BY <2>1, <2>4, <3>1
  <2>6. PICK e \in Seq(Shown) : e = SubSeq(log, d + 1, Len(log))
    <3>1. log \in Seq(Shown)
      BY DEF Shown
    <3>2. SubSeq(log, d + 1, Len(log)) \in Seq(Shown)
      BY <1>1, <3>1
    <3>3. QED
      BY <3>2
  <2>7. Len(e) = Len(log) - d /\ \A i \in 1 .. Len(e) : e[i] = log[d + i]
    BY <1>1, <2>6
  <2>8. u = e
    <3>1. Len(u) = Len(e) /\ \A i \in 1 .. Len(u) : u[i] = e[i]
      BY <2>4, <2>5, <2>7
    <3>2. QED
      BY <3>1, SameShown
  <2>9. Unsummarized = u /\ Len(u) <= Len(log) /\ Len(log) - Len(u) + 1 = d + 1
    BY <1>1, <2>1, <2>2, <2>3, <2>4 DEF Unsummarized
  <2>10. QED
    BY <2>1, <2>6, <2>8, <2>9 DEF IsEndOf
<1>4. QED
  BY <1>2, <1>3 DEF Remembers

\* What the loop decides upon is the end of what is on disk, without a gap, and all of it
\* unless it begins with a summary: through compaction, sanitizing, retries, crashes.
THEOREM ShownEndsLog == Spec => []ShownIsEndOfLog
<1>1. TalkInv /\ ViewInv => ShownIsEndOfLog
  <2>1. SUFFICES ASSUME TalkInv, ViewInv, pc \in {"loop", "call", "tools"}
                 PROVE  /\ IsEndOf(Unsummarized, log)
                        /\ messages # <<>> /\ messages[1] # Summary => messages = log
    BY DEF ShownIsEndOfLog
  <2>2. QED
    BY <2>1, RememberedIsEnd DEF TalkInv, ControlOK, ViewInv
<1>2. QED
  BY <1>1, TalkInvariant, ViewInvariant, PTL
=============================================================================
