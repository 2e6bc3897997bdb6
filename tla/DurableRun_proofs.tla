-------------------------- MODULE DurableRun_proofs --------------------------
(***************************************************************************)
(* What the durable contract itself guarantees, and so every               *)
(* implementation of it.                                                   *)
(***************************************************************************)
EXTENDS DurableRun, TaskGraph_proofs

Inv == TypeOK /\ AlwaysCoherent

LEMMA InvHolds == Spec => []Inv
<1>1. Init => Inv
  <2> SUFFICES ASSUME Init PROVE Inv
    OBVIOUS
  <2>1. TypeOK
    BY DEF Init, Plan, TypeOK, TaskState
  <2>2. AlwaysCoherent
    BY DEF Init, Plan, AlwaysCoherent, Coherent, DependenciesMet, FailuresPropagated
  <2>. QED BY <2>1, <2>2 DEF Inv
<1>2. Inv /\ [Next]_vars => Inv'
  <2> SUFFICES ASSUME Inv, [Next]_vars
               PROVE  Inv'
    OBVIOUS
  <2>1. depends_on \in Edges /\ st \in States /\ Coherent(depends_on, st)
    BY DEF Inv, TypeOK, AlwaysCoherent, Edges, States
  <2>2. depends_on' = depends_on
    BY DEF Next, Start, Settle, Fail, Interrupt, Abandon, Overtake, vars
  <2>3. overtaken' \in BOOLEAN
    BY DEF Inv, TypeOK, Next, Start, Settle, Fail, Interrupt, Abandon, Overtake, vars
  <2>4. st' \in States /\ Coherent(depends_on, st')
    <3>1. ASSUME NEW t \in Task, Start(t)
          PROVE  st' \in States /\ Coherent(depends_on, st')
      BY <2>1, <3>1, StartCoherent DEF Start
    <3>2. ASSUME NEW t \in Task, Settle(t)
          PROVE  st' \in States /\ Coherent(depends_on, st')
      BY <2>1, <3>2, SettleCoherent DEF Settle
    <3>3. ASSUME NEW t \in Task, Fail(t)
          PROVE  st' \in States /\ Coherent(depends_on, st')
      <4>1. st[t] \notin Terminal
        BY <3>3 DEF Fail, Terminal
      <4>. QED
        BY <2>1, <3>3, <4>1, FailCoherent DEF Fail
    <3>4. CASE Interrupt
      BY <2>1, <3>4, RequeueCoherent DEF Interrupt
    <3>5. CASE Abandon
      BY <2>1, <3>5, CancelRestCoherent DEF Abandon
    <3>6. CASE Overtake
      BY <2>2, <3>6 DEF Overtake, States
    <3>7. CASE UNCHANGED vars
      BY <2>1, <3>7 DEF vars
    <3>. QED
      BY <3>1, <3>2, <3>3, <3>4, <3>5, <3>6, <3>7 DEF Next
  <2>. QED
    BY <2>1, <2>2, <2>3, <2>4 DEF Inv, TypeOK, AlwaysCoherent, Edges, States
<1>. QED
  BY <1>1, <1>2, PTL DEF Spec

\* No implementation of the contract starts a task before its dependencies have
\* completed, or leaves a dependent of a failed task waiting.
THEOREM ContractIsCoherent == Spec => []AlwaysCoherent
<1>1. Inv => AlwaysCoherent
  BY DEF Inv
<1>. QED
  BY <1>1, InvHolds, PTL

\* No implementation of the contract takes a verdict back, as long as no older file has
\* come back in the place of the last one.
THEOREM ContractKeepsVerdicts == Spec => TerminalForever
<1>1. Inv /\ [Next]_vars =>
        [~ overtaken' => \A t \in Task : st[t] \in Terminal => st'[t] = st[t]]_vars
  <2> SUFFICES ASSUME Inv, Next, ~ overtaken', NEW t \in Task, st[t] \in Terminal
               PROVE  st'[t] = st[t]
    BY DEF vars
  <2>1. depends_on \in Edges /\ st \in States /\ Coherent(depends_on, st)
    BY DEF Inv, TypeOK, AlwaysCoherent, Edges, States
  <2>2. ASSUME NEW u \in Task, Start(u) \/ Settle(u)
        PROVE  st'[t] = st[t]
    BY <2>1, <2>2 DEF Start, Settle, Terminal, States
  <2>3. ASSUME NEW u \in Task, Fail(u)
        PROVE  st'[t] = st[t]
    <3>1. st[u] \notin Terminal /\ t # u
      BY <2>3 DEF Fail, Terminal
    <3>. QED
      BY <2>1, <2>3, <3>1, FailTaskEffect DEF Fail
  <2>4. CASE Interrupt \/ Abandon
    BY <2>4 DEF Interrupt, Abandon, Requeue, CancelRest, Terminal
  <2>. QED
    BY <2>2, <2>3, <2>4 DEF Next, Overtake
<1>. QED
  BY <1>1, InvHolds, PTL DEF Spec, TerminalForever
===============================================================================
