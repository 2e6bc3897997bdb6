-------------------------- MODULE Components_proofs --------------------------
(***************************************************************************)
(* Theorems about the components that MCComponents runs, one section each  *)
(* and for any values of their constants.  No section uses another one.    *)
(* Those about the input line and the providers are in                     *)
(* MCComponents_proofs.                                                    *)
(***************************************************************************)
EXTENDS Background, TeamDispatch, ToolGate, McpClient, TuiTurns, MemoryStore,
        SessionFile, OmtDashboard, Transcript, InductionTheorems, SequenceTheorems,
        FunctionTheorems, FiniteSetTheorems, TLAPS

(***************************************************************************)
(* Background sub-agents: the limit, and the story their status tells.     *)
(***************************************************************************)

\* Spawners that have found room and not yet taken it.
Checked == {s \in Spawner : spawning[s] = "checked"}

\* Each of them may still add one task to those that are active.
RoomPart ==
  /\ IsFiniteSet(Active)
  /\ Cardinality(Active) + Cardinality(Checked) < MaxConcurrent + Cardinality(Spawner)

\* A task that a spawner has in hand is nobody else's and has not begun.
HandPart ==
  /\ \A s \in Spawner : spawning[s] \in {"no", "checked"} => spawned[s] = {}
  /\ \A s \in Spawner : \A t \in spawned[s] : status[t] # "absent" /\ step[t] = "none"
  /\ \A s, o \in Spawner : s # o => spawned[s] \cap spawned[o] = {}
  /\ \A t \in Task : status[t] = "absent" => step[t] = "none"

\* What a task has written down by each step.
StoryPart ==
  \A t \in Task :
    /\ step[t] \in {"ended", "marked", "stored", "over"} => outcome[t] \in Ends
    /\ step[t] \in {"marked", "stored", "over"} => status[t] = outcome[t]
    /\ step[t] \in {"stored", "over"} => results[t] \in {"None", outcome[t]}

BgInv == BgTypeOK /\ RoomPart /\ HandPart /\ StoryPart

LEMMA BgInitInv == BgInit => BgInv
<1> SUFFICES ASSUME BgInit PROVE BgInv
  OBVIOUS
<1>1. Active = {} /\ Checked = {}
  BY DEF BgInit, Active, Checked
<1>2. Cardinality(Spawner) \in Nat \ {0}
  BY BackgroundBounds, FS_CardinalityType, FS_EmptySet
<1>3. RoomPart
  BY <1>1, <1>2, FS_EmptySet, BackgroundBounds DEF RoomPart
<1>4. BgTypeOK /\ HandPart /\ StoryPart
  BY DEF BgInit, BgTypeOK, HandPart, StoryPart, Ends
<1>5. QED
  BY <1>3, <1>4 DEF BgInv

\* A step after which no more tasks are active and no more spawners have found room.
LEMMA RoomKept ==
  ASSUME RoomPart, Active' \subseteq Active, Checked' \subseteq Checked
  PROVE  RoomPart'
<1>1. IsFiniteSet(Checked)
  BY BackgroundBounds, FS_Subset DEF Checked
<1>2. /\ IsFiniteSet(Active') /\ Cardinality(Active') <= Cardinality(Active)
      /\ Cardinality(Checked') <= Cardinality(Checked)
  BY <1>1, FS_Subset DEF RoomPart
<1>3. /\ Cardinality(Active) \in Nat /\ Cardinality(Active') \in Nat
      /\ Cardinality(Checked) \in Nat /\ Cardinality(Checked') \in Nat
      /\ Cardinality(Spawner) \in Nat
  BY <1>1, <1>2, BackgroundBounds, FS_CardinalityType, FS_Subset DEF RoomPart
<1>4. QED
  BY <1>2, <1>3, BackgroundBounds DEF RoomPart

LEMMA CountActiveInv ==
  ASSUME BgInv, NEW s \in Spawner, CountActive(s)
  PROVE  BgInv'
<1> USE DEF CountActive, rest
<1>1. Active' = Active
  BY DEF Active
<1>2. Checked' \subseteq Spawner /\ IsFiniteSet(Checked') /\ Cardinality(Checked') <= Cardinality(Spawner)
  <2>1. Checked' \subseteq Spawner
    BY DEF Checked
  <2>2. QED
    BY <2>1, BackgroundBounds, FS_Subset
<1>3. /\ Cardinality(Active) \in Nat /\ Cardinality(Checked') \in Nat /\ Cardinality(Spawner) \in Nat
      /\ Cardinality(Active) < MaxConcurrent
  BY <1>2, BackgroundBounds, FS_CardinalityType DEF BgInv, RoomPart, BelowLimit
<1>4. RoomPart'
  BY <1>1, <1>2, <1>3, BackgroundBounds DEF BgInv, RoomPart
<1>5. BgTypeOK' /\ HandPart' /\ StoryPart'
  BY DEF BgInv, BgTypeOK, HandPart, StoryPart
<1>6. QED
  BY <1>4, <1>5 DEF BgInv

\* The spawner that inserts takes the room it had found.
LEMMA InsertTaskInv ==
  ASSUME BgInv, NEW s \in Spawner, NEW t \in Task, InsertTask(s, t)
  PROVE  BgInv'
<1> USE DEF InsertTask, rest
<1>1. Active' = Active \cup {t} /\ t \notin Active /\ Checked' = Checked \ {s} /\ s \in Checked
  BY DEF BgInv, BgTypeOK, Active, Checked, Fresh
<1>2. IsFiniteSet(Checked) /\ IsFiniteSet(Active)
  BY BackgroundBounds, FS_Subset DEF Checked, BgInv, RoomPart
<1>3. IsFiniteSet(Active') /\ Cardinality(Active') = Cardinality(Active) + 1
  BY <1>1, <1>2, FS_AddElement
<1>4. Cardinality(Checked') = Cardinality(Checked) - 1
  BY <1>1, <1>2, FS_RemoveElement
<1>5. /\ Cardinality(Active) \in Nat /\ Cardinality(Checked) \in Nat
      /\ Cardinality(Spawner) \in Nat
  BY <1>2, BackgroundBounds, FS_CardinalityType
<1>6. RoomPart'
  BY <1>3, <1>4, <1>5, BackgroundBounds DEF BgInv, RoomPart
<1>7. BgTypeOK'
  BY DEF BgInv, BgTypeOK
<1>8. HandPart' /\ StoryPart'
  BY DEF BgInv, BgTypeOK, HandPart, StoryPart, Fresh
<1>9. QED
  BY <1>6, <1>7, <1>8 DEF BgInv

LEMMA SpawnerInv ==
  ASSUME BgInv, NEW s \in Spawner, NEW t \in Task, InsertResult(s, t) \/ StartTask(s, t)
  PROVE  BgInv'
<1> USE DEF InsertResult, StartTask, rest
<1>1. Active' \subseteq Active /\ Checked' \subseteq Checked
  BY DEF BgInv, BgTypeOK, Active, Checked
<1>2. RoomPart'
  BY <1>1, RoomKept DEF BgInv
<1>3. BgTypeOK' /\ HandPart' /\ StoryPart'
  BY DEF BgInv, BgTypeOK, HandPart, StoryPart
<1>4. QED
  BY <1>2, <1>3 DEF BgInv

LEMMA TaskInv ==
  ASSUME BgInv, NEW t \in Task,
         \/ EndTask(t) \/ MarkTask(t) \/ StoreResult(t) \/ AnnounceEnd(t)
         \/ CancelBg(t) \/ TakeResult(t)
  PROVE  BgInv'
<1> USE DEF EndTask, MarkTask, StoreResult, AnnounceEnd, CancelBg, TakeResult, AfterCancel, caller
<1>1. BgTypeOK'
  BY DEF BgInv, BgTypeOK, StoryPart, Ends
<1>2. Checked' \subseteq Checked
  BY DEF Checked
<1>3. Active' \subseteq Active
  BY DEF BgInv, BgTypeOK, StoryPart, Active, Ends
<1>4. RoomPart'
  BY <1>2, <1>3, RoomKept DEF BgInv
<1>5. HandPart' /\ StoryPart'
  BY DEF BgInv, BgTypeOK, HandPart, StoryPart, Ends
<1>6. QED
  BY <1>1, <1>4, <1>5 DEF BgInv

LEMMA BgStepInv == BgInv /\ [BgNext]_bgVars => BgInv'
<1> SUFFICES ASSUME BgInv, [BgNext]_bgVars PROVE BgInv'
  OBVIOUS
<1>1. CASE BgNext
  BY <1>1, CountActiveInv, InsertTaskInv, SpawnerInv, TaskInv DEF BgNext
<1>2. CASE UNCHANGED bgVars
  <2>1. Active' = Active /\ Checked' = Checked
    BY <1>2 DEF bgVars, Active, Checked
  <2>2. QED
    BY <1>2, <2>1, RoomKept DEF bgVars, BgInv, BgTypeOK, HandPart, StoryPart
<1>3. QED
  BY <1>1, <1>2

\* However many spawners race between the check and the insertion, the tasks that are
\* active exceed the limit by fewer than there are spawners.
THEOREM LimitHoldsUpToRace == BgSpec => []LimitUpToRace
<1>1. BgInv => LimitUpToRace
  <2> SUFFICES ASSUME BgInv PROVE LimitUpToRace
    OBVIOUS
  <2>1. IsFiniteSet(Checked)
    BY BackgroundBounds, FS_Subset DEF Checked
  <2>2. /\ Cardinality(Checked) \in Nat /\ Cardinality(Active) \in Nat
        /\ Cardinality(Spawner) \in Nat
    BY <2>1, BackgroundBounds, FS_CardinalityType DEF BgInv, RoomPart
  <2>3. QED
    BY <2>2, BackgroundBounds DEF BgInv, RoomPart, LimitUpToRace
<1>2. QED
  BY <1>1, BgInitInv, BgStepInv, PTL DEF BgSpec

\* When a task has written everything down, its status and its result are those of its
\* future, whenever somebody has cancelled it.
THEOREM StatusTellsOutcome == BgSpec => []StatusMatchesOutcome
<1>1. BgInv => StatusMatchesOutcome
  BY DEF BgInv, StoryPart, StatusMatchesOutcome
<1>2. QED
  BY <1>1, BgInitInv, BgStepInv, PTL DEF BgSpec
------------------------------------------------------------------------------
(***************************************************************************)
(* A team: the slots of its members and the verdicts of its server.        *)
(***************************************************************************)

\* A job has a member only while its request is under way, and one that has joined.
GivenPart ==
  /\ \A j \in Job : phase[j] \notin {"picked", "awaiting"} => target[j] = {}
  /\ \A j \in Job : target[j] \subseteq members \cup gone
  /\ \A j \in Job : phase[j] = "picked" => sends[j] < MaxSends[j]

SlotPart ==
  \A i \in Instance : IsFiniteSet(InFlight(i)) /\
    (i \in members \ reported => active[i] = Cardinality(InFlight(i)))

\* No request is sent twice, and none is on its way that the server already executes.
RequestPart ==
  /\ \A q \in posted \cup executing : q[2] <= sends[q[1]]
  /\ posted \cap executing = {}

TeamInv == TeamTypeOK /\ GivenPart /\ SlotPart /\ RequestPart

LEMMA RequestParts ==
  ASSUME NEW q \in Request
  PROVE  q[1] \in Job /\ q[2] \in Nat /\ q = <<q[1], q[2]>>
BY TeamBounds DEF Request

LEMMA TeamInitInv == TeamInit => TeamInv
<1> SUFFICES ASSUME TeamInit PROVE TeamInv
  OBVIOUS
<1>1. \A i \in Instance : InFlight(i) = {}
  BY DEF TeamInit, InFlight
<1>2. SlotPart
  BY <1>1, FS_EmptySet DEF TeamInit, SlotPart
<1>3. 0 \in 0 .. Capacity /\ 0 \in 0 .. RobinPeriod - 1 /\ \A j \in Job : 0 <= MaxSends[j]
  BY TeamBounds
<1>4. TeamTypeOK /\ GivenPart /\ RequestPart
  BY <1>3 DEF TeamInit, TeamTypeOK, GivenPart, RequestPart
<1>5. QED
  BY <1>2, <1>4 DEF TeamInv

LEMMA JoinInv ==
  ASSUME TeamInv, NEW i \in Instance, NEW b \in BOOLEAN, JoinAs(i, b)
  PROVE  TeamInv'
<1> USE DEF JoinAs, server
<1>1. TeamTypeOK'
  BY TeamBounds DEF TeamInv, TeamTypeOK
<1>2. InFlight(i) = {} /\ \A k \in Instance : InFlight(k)' = InFlight(k)
  BY DEF TeamInv, GivenPart, InFlight
<1>3. SlotPart'
  BY <1>2, FS_EmptySet DEF TeamInv, TeamTypeOK, SlotPart
<1>4. GivenPart' /\ RequestPart'
  BY DEF TeamInv, GivenPart, RequestPart
<1>5. QED
  BY <1>1, <1>3, <1>4 DEF TeamInv

LEMMA MemberInv ==
  ASSUME TeamInv, NEW i \in Instance, Leave(i) \/ Heartbeat(i)
  PROVE  TeamInv'
<1> USE DEF Leave, Drop, Heartbeat, server
<1>1. TeamTypeOK'
  BY DEF TeamInv, TeamTypeOK
<1>2. \A k \in Instance : InFlight(k)' = InFlight(k)
  BY DEF InFlight
<1>3. SlotPart'
  BY <1>2 DEF TeamInv, TeamTypeOK, SlotPart
<1>4. GivenPart' /\ RequestPart'
  BY DEF TeamInv, GivenPart, RequestPart
<1>5. QED
  BY <1>1, <1>3, <1>4 DEF TeamInv

LEMMA PickInv ==
  ASSUME TeamInv, NEW j \in Job, NEW i \in Instance, PickMember(j, i)
  PROVE  TeamInv'
<1> USE DEF PickMember, server
<1>1. i \in members /\ active[i] < Capacity /\ active[i] \in Nat /\ target[j] = {}
  BY DEF AtIndex, Candidates, TeamInv, TeamTypeOK, GivenPart
<1>2. (robin + 1) % RobinPeriod \in 0 .. RobinPeriod - 1
  BY TeamBounds DEF TeamInv, TeamTypeOK
<1>3. TeamTypeOK'
  BY <1>1, <1>2, TeamBounds DEF TeamInv, TeamTypeOK
<1>4. InFlight(i)' = InFlight(i) \cup {j} /\ j \notin InFlight(i)
  BY <1>1 DEF InFlight, TeamInv, TeamTypeOK
<1>5. \A k \in Instance \ {i} : InFlight(k)' = InFlight(k)
  BY <1>1 DEF InFlight, TeamInv, TeamTypeOK
<1>6. IsFiniteSet(InFlight(i)') /\ Cardinality(InFlight(i)') = Cardinality(InFlight(i)) + 1
  BY <1>4, FS_AddElement DEF TeamInv, SlotPart
<1>7. SlotPart'
  BY <1>5, <1>6 DEF TeamInv, TeamTypeOK, SlotPart
<1>8. GivenPart' /\ RequestPart'
  BY <1>1 DEF TeamInv, TeamTypeOK, GivenPart, RequestPart
<1>9. QED
  BY <1>3, <1>7, <1>8 DEF TeamInv

\* Giving a member back takes the job out of what it has, and one off its count.
LEMMA SettleSlots ==
  ASSUME TeamInv, NEW j \in Job, NEW p, Settle(j, p)
  PROVE  SlotPart' /\ active' \in [Instance -> 0 .. Capacity]
<1> USE DEF Settle, GivenBack
<1>1. active' \in [Instance -> 0 .. Capacity]
  BY TeamBounds DEF TeamInv, TeamTypeOK
<1>2. \A i \in Instance : InFlight(i)' = InFlight(i) \ {j}
  BY DEF InFlight, TeamInv, TeamTypeOK
<1>3. ASSUME NEW i \in Instance
      PROVE  /\ IsFiniteSet(InFlight(i)')
             /\ Cardinality(InFlight(i)') =
                  IF j \in InFlight(i) THEN Cardinality(InFlight(i)) - 1 ELSE Cardinality(InFlight(i))
  BY <1>2, FS_RemoveElement DEF TeamInv, SlotPart
<1>4. ASSUME NEW i \in Instance, i \in (members \ reported)'
      PROVE  active'[i] = Cardinality(InFlight(i)')
  <2>1. /\ i \in members \ reported /\ active[i] = Cardinality(InFlight(i)) /\ active[i] \in Nat
        /\ IsFiniteSet(InFlight(i))
    BY <1>4 DEF TeamInv, TeamTypeOK, SlotPart
  <2>2. CASE j \in InFlight(i)
    <3>1. i \in target[j] /\ InFlight(i) # {}
      BY <2>2 DEF InFlight
    <3>2. Cardinality(InFlight(i)) # 0
      BY <2>1, <3>1, FS_EmptySet
    <3>3. QED
      BY <1>3, <2>1, <2>2, <3>1, <3>2
  <2>3. CASE j \notin InFlight(i)
    BY <1>3, <2>1, <2>3 DEF InFlight
  <2>4. QED
    BY <2>2, <2>3
<1>5. QED
  BY <1>1, <1>3, <1>4 DEF SlotPart

LEMMA SettleInv ==
  ASSUME TeamInv, NEW j \in Job,
         SendNowhere(j) \/ Answered(j) \/ ConnectionLost(j) \/ CancelTask(j)
  PROVE  TeamInv'
<1> USE DEF server
<1>1. PICK p \in {"failed", "done"} : Settle(j, p)
  BY DEF SendNowhere, Answered, ConnectionLost, CancelTask
<1>2. SlotPart' /\ active' \in [Instance -> 0 .. Capacity]
  BY <1>1, SettleSlots
<1>3. GivenPart'
  <2>1. \A k \in Job \ {j} : sends'[k] = sends[k]
    BY DEF SendNowhere, Answered, ConnectionLost, CancelTask, TeamInv, TeamTypeOK
  <2>2. QED
    BY <1>1, <2>1 DEF Settle, TeamInv, TeamTypeOK, GivenPart
<1>4. sends' \in [Job -> Nat] /\ \A k \in Job : sends[k] <= sends'[k] /\ sends'[k] <= MaxSends[k]
  BY TeamBounds DEF SendNowhere, Answered, ConnectionLost, CancelTask, TeamInv, TeamTypeOK, GivenPart
<1>5. posted' \subseteq posted /\ executing' = executing /\ replies' \subseteq replies
  BY DEF SendNowhere, Answered, ConnectionLost, CancelTask
<1>6. store' \in [Job -> {"none", "Working"} \cup TerminalStatus]
  BY DEF SendNowhere, Answered, ConnectionLost, CancelTask, CanceledFrom, TeamInv, TeamTypeOK,
     TerminalStatus
<1>7. TeamTypeOK'
  BY <1>1, <1>2, <1>4, <1>5, <1>6 DEF Settle, TeamInv, TeamTypeOK
<1>8. RequestPart'
  <2>1. ASSUME NEW q \in posted \cup executing
        PROVE  q[2] <= sends'[q[1]]
    BY <1>4, RequestParts DEF TeamInv, TeamTypeOK, RequestPart
  <2>2. QED
    BY <1>5, <2>1 DEF TeamInv, RequestPart
<1>9. QED
  BY <1>2, <1>3, <1>7, <1>8 DEF TeamInv

LEMMA SendInv ==
  ASSUME TeamInv, NEW j \in Job, SendTask(j)
  PROVE  TeamInv'
<1> USE DEF SendTask, team
<1> DEFINE new == <<j, sends[j] + 1>>
<1>1. sends[j] \in Nat /\ sends[j] < MaxSends[j] /\ MaxSends[j] \in Nat
  BY TeamBounds DEF TeamInv, TeamTypeOK, GivenPart
<1>2. sends' = [sends EXCEPT ![j] = sends[j] + 1] /\ posted' = posted \cup {new}
  BY DEF TeamInv, TeamTypeOK
<1>3. new \in Request
  BY <1>1 DEF Request
<1>4. TeamTypeOK'
  BY <1>1, <1>2, <1>3, TeamBounds DEF TeamInv, TeamTypeOK
<1>5. new \notin executing
  BY <1>1 DEF TeamInv, RequestPart
<1>6. ASSUME NEW q \in posted \cup executing
      PROVE  q[2] <= sends'[q[1]]
  <2>1. q[1] \in Job /\ q[2] \in Nat /\ q[2] <= sends[q[1]] /\ sends[q[1]] \in Nat
    BY RequestParts DEF TeamInv, TeamTypeOK, RequestPart
  <2>2. QED
    BY <1>1, <1>2, <2>1 DEF TeamInv, TeamTypeOK
<1>7. RequestPart'
  BY <1>1, <1>2, <1>5, <1>6 DEF TeamInv, TeamTypeOK, RequestPart
<1>8. SlotPart'
  BY DEF TeamInv, SlotPart, InFlight
<1>9. GivenPart'
  BY <1>1 DEF TeamInv, TeamTypeOK, GivenPart
<1>10. QED
  BY <1>4, <1>7, <1>8, <1>9 DEF TeamInv

LEMMA PhaseInv ==
  ASSUME TeamInv, NEW j \in Job, RunLocally(j) \/ LocalEnds(j) \/ RetryJob(j)
  PROVE  TeamInv'
<1> USE DEF RunLocally, LocalEnds, RetryJob, team, server
<1>1. TeamTypeOK' /\ GivenPart' /\ RequestPart'
  BY DEF TeamInv, TeamTypeOK, GivenPart, RequestPart
<1>2. SlotPart'
  BY DEF TeamInv, SlotPart, InFlight
<1>3. QED
  BY <1>1, <1>2 DEF TeamInv

LEMMA ServerInv ==
  ASSUME TeamInv, NEW q \in Request, ReceiveTask(q) \/ FinishTask(q) \/ HandlerDropped(q)
  PROVE  TeamInv'
<1> USE DEF ReceiveTask, FinishTask, HandlerDropped, team
<1>1. store' \in [Job -> {"none", "Working"} \cup TerminalStatus]
  BY RequestParts DEF TeamInv, TeamTypeOK, TerminalStatus, Verdict
<1>2. replies' \in SUBSET [req : Request, verdict : Verdict]
  BY DEF TeamInv, TeamTypeOK
<1>3. TeamTypeOK'
  BY <1>1, <1>2 DEF TeamInv, TeamTypeOK
<1>4. GivenPart' /\ RequestPart'
  BY DEF TeamInv, GivenPart, RequestPart
<1>5. SlotPart'
  BY DEF TeamInv, SlotPart, InFlight
<1>6. QED
  BY <1>3, <1>4, <1>5 DEF TeamInv

LEMMA TeamStepInv == TeamInv /\ [TeamNext]_teamVars => TeamInv'
<1> SUFFICES ASSUME TeamInv, [TeamNext]_teamVars PROVE TeamInv'
  OBVIOUS
<1>1. ASSUME NEW i \in Instance, ServerJoins(i) \/ OmhJoins(i) PROVE TeamInv'
  BY <1>1, JoinInv DEF ServerJoins, OmhJoins
<1>2. ASSUME NEW i \in Instance, Leave(i) \/ Heartbeat(i) PROVE TeamInv'
  BY <1>2, MemberInv
<1>3. ASSUME NEW j \in Job, NEW i \in Instance, PickMember(j, i) PROVE TeamInv'
  BY <1>3, PickInv
<1>4. ASSUME NEW j \in Job,
             \/ SendNowhere(j) \/ Answered(j) \/ ConnectionLost(j) \/ CancelTask(j)
             \/ SendTask(j) \/ RunLocally(j) \/ LocalEnds(j) \/ RetryJob(j)
      PROVE  TeamInv'
  BY <1>4, SettleInv, SendInv, PhaseInv
<1>5. ASSUME NEW q \in Request, ReceiveTask(q) \/ FinishTask(q) \/ HandlerDropped(q)
      PROVE  TeamInv'
  BY <1>5, ServerInv
<1>6. CASE UNCHANGED teamVars
  <2>1. TeamTypeOK' /\ GivenPart' /\ RequestPart'
    BY <1>6 DEF teamVars, team, server, TeamInv, TeamTypeOK, GivenPart, RequestPart
  <2>2. SlotPart'
    BY <1>6 DEF teamVars, team, TeamInv, SlotPart, InFlight
  <2>3. QED
    BY <2>1, <2>2 DEF TeamInv
<1>7. QED
  BY <1>1, <1>2, <1>3, <1>4, <1>5, <1>6 DEF TeamNext

\* The count that pick_member and task_done keep of a member is the number of jobs it
\* has, whatever is lost, cancelled, retried or gone, until its heartbeat overwrites it.
THEOREM SlotsConserved == TeamSpec => []SlotsAreConserved
<1>1. TeamInv => SlotsAreConserved
  BY DEF TeamInv, TeamTypeOK, SlotPart, SlotsAreConserved
<1>2. QED
  BY <1>1, TeamInitInv, TeamStepInv, PTL DEF TeamSpec

\* A verdict in the server's store is replaced only by a step of an execution.
THEOREM VerdictsStandAgainstCancel == TeamSpec => VerdictsNotCancelled
<1> DEFINE Stands == \A j \in Job :
                       (store[j] \in TerminalStatus /\ store'[j] # store[j]) => executing' # executing
<1>1. ASSUME TeamInv, NEW q \in Request, ReceiveTask(q) \/ FinishTask(q) \/ HandlerDropped(q)
      PROVE  executing' # executing
  BY <1>1 DEF ReceiveTask, FinishTask, HandlerDropped, TeamInv, RequestPart
<1>2. ASSUME TeamInv, NEW j \in Job, CancelTask(j)
      PROVE  Stands
  BY <1>2 DEF CancelTask, CanceledFrom, TeamInv, TeamTypeOK, TerminalStatus
<1>3. ASSUME NEW j \in Job,
             \/ SendNowhere(j) \/ Answered(j) \/ ConnectionLost(j)
             \/ SendTask(j) \/ RunLocally(j) \/ LocalEnds(j) \/ RetryJob(j)
      PROVE  store' = store
  BY <1>3 DEF SendNowhere, Answered, ConnectionLost, SendTask, RunLocally, LocalEnds, RetryJob, server
<1>4. ASSUME NEW i \in Instance,
             \/ ServerJoins(i) \/ OmhJoins(i) \/ Leave(i) \/ Heartbeat(i)
             \/ \E j \in Job : PickMember(j, i)
      PROVE  store' = store
  BY <1>4 DEF ServerJoins, OmhJoins, JoinAs, Leave, Drop, Heartbeat, PickMember, server
<1>5. TeamInv /\ [TeamNext]_teamVars => [Stands]_teamVars
  BY <1>1, <1>2, <1>3, <1>4 DEF TeamNext
<1>6. QED
  BY <1>5, TeamInitInv, TeamStepInv, PTL DEF TeamSpec, VerdictsNotCancelled
------------------------------------------------------------------------------
(***************************************************************************)
(* The gate of a tool call.                                                *)
(***************************************************************************)

\* What a call has been found to be while it waits or is about to run.
Judged(t) ==
  /\ verdict \in {"unknown", "allow", "ask", "consent"}
  /\ verdict \in {"ask", "consent"} => t \notin agent.deny
  /\ verdict = "allow" =>
       /\ t \in Registered /\ t \notin agent.deny \cup agent.ask
       /\ t \in agent.allow \/ required[t] <= agent.level

GateShape ==
  /\ GateTypeOK
  /\ required \in [Registered -> Level]
  /\ \A t, u \in call : t = u
  /\ answered \in Seq({"denied", "output", "failed"})
  /\ at # "idle" => agent \in Policy /\ Len(answered) < MaxCalls

GateInv ==
  /\ GateShape
  /\ agent = NoAgent => ran = {}
  /\ at = "waiting" => verdict = "ask"
  /\ at = "execute" => verdict # "ask"
  /\ at \in {"waiting", "execute"} => \A t \in call : Judged(t)
  /\ RunsOnlyAsPermitted

LEMMA GateInitInv == GateInit => GateInv
<1> SUFFICES ASSUME GateInit PROVE GateInv
  OBVIOUS
<1> USE DEF GateInit
<1>1. Registered = Builtin /\ required \in [Builtin -> Level]
  BY GateBounds DEF Registered
<1>2. answered \in Seq({"denied", "output", "failed"}) /\ Len(answered) = 0
  OBVIOUS
<1>3. GateTypeOK
  <2>1. agent \in Policy \cup {NoAgent}
    BY DEF GateInit
  <2>2. Registered \subseteq Tool /\ \A t \in Registered : required[t] \in Level
    BY <1>1, GateBounds
  <2>3. Len(answered) <= MaxCalls
    BY <1>2, GateBounds
  <2>4. QED
    BY <2>1, <2>2, <2>3 DEF GateTypeOK, GateVerdict
<1>4. GateShape
  BY <1>1, <1>2, <1>3 DEF GateShape
<1>5. QED
  BY <1>4 DEF GateInv, RunsOnlyAsPermitted

LEMMA BeginSessionInv ==
  ASSUME GateInv, NEW p \in Policy, NEW needs \in [Builtin -> Level], NEW tui \in BOOLEAN,
         BeginSession(p, needs, tui)
  PROVE  GateInv'
<1> USE DEF BeginSession
<1>1. agent' \in Policy /\ agent' # NoAgent /\ at = "idle" /\ ran = {}
  BY GateBounds DEF GateInv, GateShape, GateTypeOK, Policy, NoAgent
<1>2. GateShape'
  BY <1>1, GateBounds DEF GateInv, GateShape, GateTypeOK, Registered
<1>3. QED
  BY <1>1, <1>2 DEF GateInv, RunsOnlyAsPermitted

\* A tool of the same name that connects later only lowers what the call needs.
LEMMA RegisterMcpToolInv ==
  ASSUME GateInv, NEW t \in Tool, RegisterMcpTool(t)
  PROVE  GateInv'
<1> USE DEF RegisterMcpTool
<1>1. agent \in Policy /\ 0 <= agent.level
  <2>1. agent \in Policy
    BY DEF GateInv, GateShape, GateTypeOK
  <2>2. agent.level \in Nat
    BY <2>1, GateBounds DEF Policy
  <2>3. 0 <= agent.level
    BY ONLY <2>2
  <2>4. QED
    BY <2>1, <2>3
<1>2. GateShape'
  BY <1>1, GateBounds DEF GateInv, GateShape, GateTypeOK, Registered
<1>3. \A u \in Tool : Judged(u) => Judged(u)'
  BY <1>1, GateBounds DEF Judged, Registered, GateInv, GateShape
<1>4. QED
  BY <1>1, <1>2, <1>3 DEF GateInv, GateShape, GateTypeOK, RunsOnlyAsPermitted

LEMMA NextRequestInv ==
  ASSUME GateInv, NextRequest
  PROVE  GateInv'
  BY DEF NextRequest, GateInv, GateShape, GateTypeOK, Registered, RunsOnlyAsPermitted,
     Judged, Offer

LEMMA CallToolInv ==
  ASSUME GateInv, NEW t \in Tool, CallTool(t)
  PROVE  GateInv'
  BY DEF CallTool, GateInv, GateShape, GateTypeOK, Registered, RunsOnlyAsPermitted, GateVerdict

LEMMA GuardInv ==
  ASSUME GateInv, NEW t \in Tool, Guard(t)
  PROVE  GateInv'
<1> USE DEF Guard
<1>1. agent \in Policy /\ agent' = agent /\ agent # NoAgent /\ Len(answered) < MaxCalls
  BY GateBounds DEF GateInv, GateShape, Policy, NoAgent
<1>2. verdict' \in {"unknown", "allow", "ask", "deny"}
  BY DEF Evaluate
<1>3. /\ at' \in {"waiting", "idle", "execute"}
      /\ at' = "idle" <=> verdict' = "deny"
      /\ at' = "waiting" <=> verdict' = "ask"
  BY Zenon
<1>4. GateShape'
  BY <1>1, <1>2, <1>3, GateBounds DEF GateInv, GateShape, GateTypeOK, Registered, GateVerdict
<1>5. at' # "idle" => Judged(t)'
  BY <1>1, <1>2 DEF Judged, Evaluate, Registered, GateInv, GateShape
<1>6. \A u \in call' : u = t
  BY DEF GateInv, GateShape
<1>7. at' \in {"waiting", "execute"} => \A u \in call' : Judged(u)'
  BY <1>5, <1>6
<1>8. RunsOnlyAsPermitted'
  BY DEF GateInv, RunsOnlyAsPermitted
<1>9. QED
  BY <1>1, <1>3, <1>4, <1>7, <1>8 DEF GateInv

LEMMA UserAnswersInv ==
  ASSUME GateInv, UserApproves \/ UserDenies
  PROVE  GateInv'
<1>1. CASE UserApproves
  <2> USE <1>1 DEF UserApproves
  <2>1. GateShape'
    BY DEF GateInv, GateShape, GateTypeOK, Registered, GateVerdict
  <2>2. \A t \in call : Judged(t)'
    BY DEF GateInv, Judged
  <2>3. QED
    BY <2>1, <2>2 DEF GateInv, RunsOnlyAsPermitted
<1>2. CASE UserDenies
  <2> USE <1>2 DEF UserDenies
  <2>1. GateShape'
    BY GateBounds DEF GateInv, GateShape, GateTypeOK, Registered, GateVerdict
  <2>2. QED
    BY <2>1 DEF GateInv, RunsOnlyAsPermitted
<1>3. QED
  BY <1>1, <1>2

\* What runs was judged, and what it needs has not grown since.
LEMMA ExecuteInv ==
  ASSUME GateInv, NEW t \in Tool, Execute(t)
  PROVE  GateInv'
<1> USE DEF Execute
<1>1. PICK r \in {"output", "failed"} : answered' = Append(answered, r)
  BY DEF Execute
<1>2. agent \in Policy /\ agent # NoAgent /\ Len(answered) < MaxCalls
  <2>1. agent \in Policy /\ Len(answered) < MaxCalls
    BY DEF GateInv, GateShape
  <2>2. agent.level \in Nat
    BY <2>1, GateBounds DEF Policy
  <2>3. QED
    BY <2>1, <2>2 DEF NoAgent
<1>3. GateShape'
  BY <1>1, <1>2, GateBounds DEF GateInv, GateShape, GateTypeOK, Registered
<1>4. Judged(t) /\ verdict # "ask"
  BY DEF GateInv
<1>5. RunsOnlyAsPermitted'
  BY <1>4 DEF GateInv, RunsOnlyAsPermitted, Judged
<1>6. QED
  BY <1>2, <1>3, <1>5 DEF GateInv

LEMMA GateStep == GateInv /\ [GateNext]_gateVars => GateInv'
<1> SUFFICES ASSUME GateInv, [GateNext]_gateVars PROVE GateInv'
  OBVIOUS
<1>1. CASE UNCHANGED gateVars
  BY <1>1 DEF gateVars, GateInv, GateShape, GateTypeOK, Registered, Judged,
     RunsOnlyAsPermitted
<1>2. CASE GateNext
  BY <1>2, BeginSessionInv, RegisterMcpToolInv, CallToolInv, GuardInv, ExecuteInv,
     NextRequestInv, UserAnswersInv DEF GateNext
<1>3. QED
  BY <1>1, <1>2

\* Whatever servers connect in the meantime, a registered tool runs only as its agent's
\* rules and the user allow (PermissionGuardHook and ToolRegistry::execute).
THEOREM ToolsRunAsPermitted == GateSpec => [](GateTypeOK /\ RunsOnlyAsPermitted)
<1>1. GateInv => GateTypeOK /\ RunsOnlyAsPermitted
  BY DEF GateInv, GateShape
<1>2. QED
  BY <1>1, GateInitInv, GateStep, PTL DEF GateSpec
------------------------------------------------------------------------------
(***************************************************************************)
(* The MCP client's pipe.                                                  *)
(***************************************************************************)

Line == RequestId \cup {Stray, Empty}

\* The lines of s that are there for nobody in I to read.
Extra(s, I) == {n \in DOMAIN s : s[n] # Empty /\ s[n] \notin I}

HolderIds == {id[c] : c \in holder}

LEMMA ShiftedCount ==
  ASSUME NEW S, IsFiniteSet(S), S \subseteq Int, NEW k \in Int
  PROVE  /\ IsFiniteSet({n + k : n \in S})
         /\ Cardinality({n + k : n \in S}) = Cardinality(S)
<1> DEFINE T == {n + k : n \in S}
           f == [n \in S |-> n + k]
<1>1. f \in [S -> T] /\ \A a, b \in S : f[a] = f[b] => a = b
  OBVIOUS
<1>2. \A t \in T : \E n \in S : f[n] = t
  OBVIOUS
<1>3. f \in Bijection(S, T)
  BY <1>1, <1>2, Fun_IsBij
<1>4. ExistsBijection(S, T)
  BY <1>3 DEF ExistsBijection
<1>5. QED
  BY <1>4, FS_Bijection

LEMMA ExtraIsFinite ==
  ASSUME NEW s \in Seq(Line), NEW I
  PROVE  /\ IsFiniteSet(Extra(s, I)) /\ Extra(s, I) \subseteq 1 .. Len(s)
         /\ Cardinality(Extra(s, I)) \in Nat
<1>1. DOMAIN s = 1 .. Len(s) /\ Len(s) \in Nat
  BY LenProperties
<1>2. Extra(s, I) \subseteq 1 .. Len(s)
  BY <1>1 DEF Extra
<1>3. IsFiniteSet(1 .. Len(s))
  BY <1>1, FS_Interval
<1>4. IsFiniteSet(Extra(s, I))
  BY <1>2, <1>3, FS_Subset
<1>5. QED
  BY <1>2, <1>4, FS_CardinalityType

LEMMA ExtraOfConcat ==
  ASSUME NEW s \in Seq(Line), NEW t \in Seq(Line), NEW I
  PROVE  Cardinality(Extra(s \o t, I)) = Cardinality(Extra(s, I)) + Cardinality(Extra(t, I))
<1> DEFINE S == Extra(s, I)
           U == {n + Len(s) : n \in Extra(t, I)}
<1>1. /\ s \o t \in Seq(Line) /\ Len(s \o t) = Len(s) + Len(t)
      /\ Len(s) \in Nat /\ Len(t) \in Nat
      /\ \A i \in 1 .. Len(s) + Len(t) :
           (s \o t)[i] = IF i <= Len(s) THEN s[i] ELSE t[i - Len(s)]
  BY ConcatProperties, LenProperties
<1>2. /\ DOMAIN s = 1 .. Len(s) /\ DOMAIN t = 1 .. Len(t)
      /\ DOMAIN (s \o t) = 1 .. (Len(s) + Len(t))
  BY <1>1, LenProperties
<1>3. /\ IsFiniteSet(S) /\ IsFiniteSet(Extra(t, I)) /\ Extra(t, I) \subseteq 1 .. Len(t)
      /\ S \subseteq 1 .. Len(s) /\ Cardinality(S) \in Nat
  BY ExtraIsFinite
<1>4. IsFiniteSet(U) /\ Cardinality(U) = Cardinality(Extra(t, I))
  <2>1. Extra(t, I) \subseteq Int
    BY <1>1, <1>3
  <2>2. Len(s) \in Int
    BY <1>1
  <2>3. QED
    BY <1>3, <2>1, <2>2, ShiftedCount
<1>5. S \cap U = {}
  BY <1>1, <1>3
<1>6. Extra(s \o t, I) = S \cup U
  <2>1. Extra(s \o t, I) \subseteq S \cup U
    <3> SUFFICES ASSUME NEW n \in 1 .. (Len(s) + Len(t)), (s \o t)[n] # Empty, (s \o t)[n] \notin I
                 PROVE  n \in S \cup U
      BY <1>2 DEF Extra
    <3>1. CASE n <= Len(s)
      BY <1>1, <1>2, <3>1 DEF Extra
    <3>2. CASE n > Len(s)
      <4>1. n - Len(s) \in 1 .. Len(t) /\ t[n - Len(s)] = (s \o t)[n]
        BY <1>1, <3>2
      <4>2. n - Len(s) \in Extra(t, I) /\ n = (n - Len(s)) + Len(s)
        BY <1>1, <1>2, <4>1 DEF Extra
      <4>3. QED
        BY <4>2
    <3>3. QED
      BY <1>1, <3>1, <3>2
  <2>2. S \subseteq Extra(s \o t, I)
    BY <1>1, <1>2 DEF Extra
  <2>3. U \subseteq Extra(s \o t, I)
    <3> SUFFICES ASSUME NEW n \in Extra(t, I) PROVE n + Len(s) \in Extra(s \o t, I)
      OBVIOUS
    <3>1. n + Len(s) \in 1 .. (Len(s) + Len(t)) /\ ~ (n + Len(s) <= Len(s))
          /\ (n + Len(s)) - Len(s) = n
      BY <1>1, <1>3
    <3>2. QED
      BY <1>1, <1>2, <3>1 DEF Extra
  <2>4. QED
    BY <2>1, <2>2, <2>3
<1>7. Cardinality(S \cup U) = Cardinality(S) + Cardinality(U) - Cardinality(S \cap U)
  BY <1>3, <1>4, FS_Union
<1>8. Cardinality(S) \in Nat /\ Cardinality(U) \in Nat /\ Cardinality(S \cap U) = 0
  BY <1>3, <1>4, <1>5, FS_EmptySet, FS_CardinalityType
<1> HIDE DEF S, U
<1>9. Cardinality(S \cup U) = Cardinality(S) + Cardinality(U)
  BY <1>7, <1>8
<1>10. Cardinality(Extra(s \o t, I)) = Cardinality(Extra(s, I)) + Cardinality(U)
  BY <1>6, <1>9 DEF S
<1>11. QED
  BY <1>4, <1>10

LEMMA ExtraOfSingle ==
  ASSUME NEW e \in Line, NEW I
  PROVE  Cardinality(Extra(<<e>>, I)) = IF e # Empty /\ e \notin I THEN 1 ELSE 0
<1>1. Extra(<<e>>, I) = IF e # Empty /\ e \notin I THEN {1} ELSE {}
  BY DEF Extra
<1>2. QED
  BY <1>1, FS_EmptySet, FS_Singleton

LEMMA ExtraOfAppend ==
  ASSUME NEW s \in Seq(Line), NEW e \in Line, NEW I
  PROVE  Cardinality(Extra(Append(s, e), I))
           = Cardinality(Extra(s, I)) + IF e # Empty /\ e \notin I THEN 1 ELSE 0
<1>1. Append(s, e) = s \o <<e>> /\ <<e>> \in Seq(Line)
  BY AppendIsConcat
<1>2. Cardinality(Extra(s \o <<e>>, I))
        = Cardinality(Extra(s, I)) + Cardinality(Extra(<<e>>, I))
  BY <1>1, ExtraOfConcat
<1>3. QED
  BY <1>1, <1>2, ExtraOfSingle

LEMMA ExtraOfTail ==
  ASSUME NEW s \in Seq(Line), s # <<>>, NEW I
  PROVE  Cardinality(Extra(s, I))
           = Cardinality(Extra(Tail(s), I))
               + IF Head(s) # Empty /\ Head(s) \notin I THEN 1 ELSE 0
<1>1. /\ s = <<Head(s)>> \o Tail(s) /\ Head(s) \in Line
      /\ <<Head(s)>> \in Seq(Line) /\ Tail(s) \in Seq(Line)
  <2>1. /\ Len(s) \in Nat \ {0} /\ Head(s) = s[1] /\ Head(s) \in Line
        /\ Tail(s) \in Seq(Line) /\ Len(Tail(s)) = Len(s) - 1
        /\ \A i \in 1 .. Len(Tail(s)) : Tail(s)[i] = s[i + 1]
    BY EmptySeq, HeadTailProperties
  <2>2. /\ <<Head(s)>> \in Seq(Line) /\ Len(<<Head(s)>>) = 1 /\ <<Head(s)>>[1] = Head(s)
    BY <2>1
  <2> DEFINE t == <<Head(s)>> \o Tail(s)
  <2>3. /\ t \in Seq(Line) /\ Len(t) = 1 + Len(Tail(s))
        /\ \A i \in 1 .. 1 + Len(Tail(s)) :
             t[i] = IF i <= 1 THEN <<Head(s)>>[i] ELSE Tail(s)[i - 1]
    BY <2>1, <2>2, ConcatProperties
  <2>4. \A i \in 1 .. Len(s) : s[i] = t[i]
    BY <2>1, <2>2, <2>3
  <2>5. s = t
    BY <2>1, <2>3, <2>4, SeqEqual
  <2>6. QED
    BY <2>1, <2>2, <2>5
<1> DEFINE h == <<Head(s)>>
           u == Tail(s)
<1>2. Cardinality(Extra(h \o u, I)) = Cardinality(Extra(h, I)) + Cardinality(Extra(u, I))
  BY <1>1, ExtraOfConcat
<1>3. Cardinality(Extra(h, I)) = IF Head(s) # Empty /\ Head(s) \notin I THEN 1 ELSE 0
  BY <1>1, ExtraOfSingle
<1>4. Cardinality(Extra(u, I)) \in Nat
  BY <1>1, ExtraIsFinite
<1>5. s = h \o u
  BY <1>1
<1> HIDE DEF h, u
<1>6. Cardinality(Extra(s, I)) = Cardinality(Extra(h, I)) + Cardinality(Extra(u, I))
  BY <1>2, <1>5
<1>7. QED
  BY <1>3, <1>4, <1>6 DEF u

\* No id is twice in s.
Once(s) == \A m, n \in DOMAIN s : s[m] = s[n] /\ s[m] \in RequestId => m = n

\* Who no longer waits for a line that is there once makes it an extra one.
LEMMA ExtraWithoutId ==
  ASSUME NEW s \in Seq(Line), Once(s), NEW i \in RequestId
  PROVE  Cardinality(Extra(s, {}))
           = Cardinality(Extra(s, {i})) + IF \E n \in DOMAIN s : s[n] = i THEN 1 ELSE 0
<1>1. IsFiniteSet(Extra(s, {i}))
  BY ExtraIsFinite
<1>2. CASE \E n \in DOMAIN s : s[n] = i
  <2>1. PICK n \in DOMAIN s : s[n] = i
    BY <1>2
  <2>2. i # Empty
    BY McpBounds DEF RequestId, Empty
  <2>3. Extra(s, {}) = Extra(s, {i}) \cup {n} /\ n \notin Extra(s, {i})
    BY <2>1, <2>2 DEF Extra, Once
  <2>4. QED
    BY <1>1, <1>2, <2>3, FS_AddElement
<1>3. CASE ~ \E n \in DOMAIN s : s[n] = i
  <2>1. Extra(s, {}) = Extra(s, {i})
    BY <1>3 DEF Extra
  <2>2. QED
    BY <1>3, <2>1, ExtraIsFinite
<1>4. QED
  BY <1>2, <1>3
------------------------------------------------------------------------------
\* Ids are given out once; a request that is begun is not yet in the pipe.
IdsPart ==
  /\ \A c \in Caller : id[c] < nextId /\ (progress[c] \in {"begun", "sent"} => id[c] \in RequestId)
  /\ \A c, d \in Caller : c # d /\ id[c] # 0 => id[c] # id[d]
  /\ \A n \in DOMAIN outbox : outbox[n] < nextId
  /\ \A n \in DOMAIN inbox : inbox[n] < nextId
  /\ \A c \in Caller : progress[c] = "begun" =>
       /\ \A n \in DOMAIN outbox : outbox[n] # id[c]
       /\ \A n \in DOMAIN inbox : inbox[n] # id[c]

LockPart ==
  /\ \A c, d \in holder : c = d
  /\ \A c \in holder : progress[c] = "sent" /\ via[c] = "stdio"

OncePart ==
  /\ Once(outbox) /\ Once(inbox)
  /\ \A m \in DOMAIN outbox, n \in DOMAIN inbox : outbox[m] # inbox[n]

ExtraPart ==
  /\ strays \in Nat
  /\ stdio = "open" =>
       Cardinality(Extra(outbox, HolderIds)) + Cardinality(Extra(inbox, HolderIds)) <= strays

McpInv == McpTypeOK /\ OwnResponse /\ IdsPart /\ LockPart /\ OncePart /\ ExtraPart

LEMMA PipeIsLines ==
  ASSUME McpTypeOK
  PROVE  /\ inbox \in Seq(RequestId) /\ inbox \in Seq(Line) /\ outbox \in Seq(Line)
         /\ DOMAIN inbox = 1 .. Len(inbox) /\ DOMAIN outbox = 1 .. Len(outbox)
         /\ Len(inbox) \in Nat /\ Len(outbox) \in Nat
         /\ \A n \in DOMAIN inbox : inbox[n] \in RequestId
<1>1. inbox \in Seq(RequestId) /\ outbox \in Seq(Line) /\ RequestId \subseteq Line
  BY DEF McpTypeOK, Line
<1>2. inbox \in Seq(Line)
  BY <1>1, SeqMonotonic
<1>3. /\ DOMAIN inbox = 1 .. Len(inbox) /\ DOMAIN outbox = 1 .. Len(outbox)
      /\ Len(inbox) \in Nat /\ Len(outbox) \in Nat
  BY <1>1, LenProperties
<1>4. \A n \in DOMAIN inbox : inbox[n] \in RequestId
  BY <1>1, <1>3, ElementOfSeq
<1>5. QED
  BY <1>1, <1>2, <1>3, <1>4

LEMMA McpInitInv == McpInit => McpInv
<1> SUFFICES ASSUME McpInit PROVE McpInv
  OBVIOUS
<1> USE DEF McpInit
<1>1. McpTypeOK /\ OwnResponse /\ IdsPart /\ LockPart /\ OncePart
  BY McpBounds DEF McpTypeOK, OwnResponse, IdsPart, LockPart, OncePart, Once
<1>2. Extra(<<>>, HolderIds) = {}
  BY DEF Extra
<1>3. ExtraPart
  BY <1>2, FS_EmptySet DEF ExtraPart
<1>4. QED
  BY <1>1, <1>3 DEF McpInv

\* A step that leaves the pipe and its holder alone.
LEMMA ExtraKept ==
  ASSUME ExtraPart, UNCHANGED <<outbox, inbox, strays, stdio>>, HolderIds' = HolderIds
  PROVE  ExtraPart'
  BY DEF ExtraPart

LEMMA BeginRequestInv ==
  ASSUME McpInv, NEW c \in Caller, NEW transport \in {"stdio", "http"},
         BeginRequest(c, transport)
  PROVE  McpInv'
<1> USE DEF BeginRequest, pipe
<1>1. McpTypeOK'
  BY McpBounds DEF McpInv, McpTypeOK, RequestId
<1>2. nextId \in RequestId /\ nextId # 0
  BY McpBounds DEF McpInv, McpTypeOK, RequestId
<1>3. OwnResponse'
  BY DEF McpInv, McpTypeOK, OwnResponse
<1>4. LockPart' /\ OncePart'
  BY DEF McpInv, McpTypeOK, LockPart, OncePart, Once
<1>5. HolderIds' = HolderIds
  BY DEF HolderIds, McpInv, LockPart, McpTypeOK
<1>6. ExtraPart'
  BY <1>5, ExtraKept DEF McpInv
<1>7. /\ \A n \in DOMAIN outbox : outbox[n] \in Int
      /\ \A n \in DOMAIN inbox : inbox[n] \in Int
  BY PipeIsLines, ElementOfSeq, McpBounds DEF McpInv, Line, RequestId, Stray, Empty
<1>8. IdsPart'
  <2>1. \A d \in Caller : id[d] \in Int /\ nextId \in Int
    BY McpBounds DEF McpInv, McpTypeOK
  <2>2. \A d \in Caller : id'[d] = (IF d = c THEN nextId ELSE id[d])
                          /\ progress'[d] = (IF d = c THEN "begun" ELSE progress[d])
    BY DEF McpInv, McpTypeOK
  <2>3. QED
    BY <1>2, <1>7, <2>1, <2>2 DEF McpInv, IdsPart
<1>9. QED
  BY <1>1, <1>3, <1>4, <1>6, <1>8 DEF McpInv

\* A caller that returns, without touching the pipe.
LEMMA ReturnsInv ==
  ASSUME McpInv, NEW c \in Caller, NEW result \in {"ok", "error"}, NEW response \in 0 .. MaxIds,
         ReturnsFrom(c, result, response), result = "ok" => response = id[c]
  PROVE  /\ (\A d \in Caller : progress[d] # "begun" => progress'[d] # "begun")
         /\ nextId' = nextId /\ id' = id /\ via' = via
         /\ progress' \in [Caller -> {"idle", "begun", "sent", "ok", "error"}]
         /\ got' \in [Caller -> 0 .. MaxIds]
         /\ OwnResponse'
         /\ \A d \in Caller : progress'[d] \in {"begun", "sent"} => progress'[d] = progress[d]
         /\ \A d \in Caller : d # c => progress'[d] = progress[d]
<1> USE DEF ReturnsFrom
<1>1. \A d \in Caller : progress'[d] = (IF d = c THEN result ELSE progress[d])
  BY DEF McpInv, McpTypeOK
<1>2. \A d \in Caller : got'[d] = (IF d = c THEN IF result = "ok" THEN response ELSE 0 ELSE got[d])
  BY DEF McpInv, McpTypeOK
<1>3. 0 \in 0 .. MaxIds
  BY McpBounds
<1>4. /\ progress' \in [Caller -> {"idle", "begun", "sent", "ok", "error"}]
      /\ got' \in [Caller -> 0 .. MaxIds]
  BY <1>3 DEF McpInv, McpTypeOK
<1>5. OwnResponse'
  BY <1>1, <1>2 DEF McpInv, OwnResponse
<1>6. QED
  BY <1>1, <1>4, <1>5

LEMMA WriteRequestInv ==
  ASSUME McpInv, NEW c \in Caller, WriteRequest(c)
  PROVE  McpInv'
<1> USE DEF WriteRequest
<1>a. McpTypeOK /\ id[c] \in RequestId /\ id[c] \in Line
  BY DEF McpInv, IdsPart, Line
<1>1. CASE stdio = "open"
  <2>1. /\ inbox' = Append(inbox, id[c]) /\ outbox' = outbox /\ HolderIds' = {id[c]}
        /\ HolderIds = {} /\ holder' = {c}
    BY <1>1 DEF HolderIds
  <2>2. /\ inbox' \in Seq(RequestId) /\ DOMAIN inbox' = 1 .. (Len(inbox) + 1)
        /\ Len(inbox) \in Nat
        /\ \A n \in 1 .. Len(inbox) : inbox'[n] = inbox[n]
        /\ inbox'[Len(inbox) + 1] = id[c]
    <3>1. inbox \in Seq(RequestId) /\ Len(inbox) \in Nat
      BY <1>a, PipeIsLines
    <3>2. /\ inbox' \in Seq(RequestId) /\ Len(inbox') = Len(inbox) + 1
          /\ \A n \in 1 .. Len(inbox) : inbox'[n] = inbox[n]
          /\ inbox'[Len(inbox) + 1] = id[c]
      BY <1>a, <2>1, <3>1, AppendProperties
    <3>3. DOMAIN inbox' = 1 .. Len(inbox')
      BY <3>2, LenProperties
    <3>4. QED
      BY <3>1, <3>2, <3>3
  <2>3. /\ UNCHANGED <<nextId, id, via, got, outbox, stdio, strays, session>>
        /\ progress' = [progress EXCEPT ![c] = "sent"]
    BY <1>1
  <2>4. /\ progress' \in [Caller -> {"idle", "begun", "sent", "ok", "error"}]
        /\ \A d \in Caller : progress'[d] = IF d = c THEN "sent" ELSE progress[d]
    BY <1>a, <2>3 DEF McpTypeOK
  <2>8. McpTypeOK' /\ OwnResponse' /\ LockPart'
    <3>1. McpTypeOK'
      BY <1>a, <2>1, <2>2, <2>3, <2>4 DEF McpTypeOK
    <3>2. OwnResponse' /\ LockPart'
      BY <2>1, <2>3, <2>4 DEF McpInv, OwnResponse, LockPart
    <3>3. QED
      BY <3>1, <3>2
  <2>9. \A n \in 1 .. (Len(inbox) + 1) : n \in 1 .. Len(inbox) \/ n = Len(inbox) + 1
    BY <2>2
  <2>10. DOMAIN inbox = 1 .. Len(inbox)
    BY <1>a, PipeIsLines
  <2>11. IdsPart'
    <3>1. progress[c] = "begun"
      OBVIOUS
    <3>2. \A n \in DOMAIN inbox' : inbox'[n] < nextId
      BY <2>2, <2>9, <2>10 DEF McpInv, IdsPart
    <3>3. \A d \in Caller : progress'[d] = "begun" =>
            /\ d # c /\ id[c] # id[d]
            /\ \A n \in DOMAIN inbox' : inbox'[n] # id[d]
      BY <1>a, <2>2, <2>4, <2>9, <2>10, <3>1, McpBounds DEF McpInv, IdsPart, RequestId
    <3>4. QED
      BY <2>1, <2>3, <2>4, <3>1, <3>2, <3>3 DEF McpInv, IdsPart
  <2>5. OncePart'
    BY <1>1, <1>a, <2>1, <2>2, PipeIsLines DEF McpInv, OncePart, Once, IdsPart
  <2>6. ExtraPart'
    <3>1. /\ Cardinality(Extra(inbox', {id[c]})) = Cardinality(Extra(inbox, {id[c]}))
          /\ Cardinality(Extra(inbox, {id[c]})) <= Cardinality(Extra(inbox, {}))
          /\ Cardinality(Extra(outbox, {id[c]})) <= Cardinality(Extra(outbox, {}))
      <4>1. /\ Extra(inbox, {id[c]}) \subseteq Extra(inbox, {})
            /\ Extra(outbox, {id[c]}) \subseteq Extra(outbox, {})
        BY DEF Extra
      <4>2. inbox \in Seq(Line) /\ outbox \in Seq(Line)
        BY <1>a, PipeIsLines
      <4>3. /\ IsFiniteSet(Extra(inbox, {})) /\ IsFiniteSet(Extra(outbox, {}))
            /\ Cardinality(Extra(inbox, {id[c]})) \in Nat
        BY <4>2, ExtraIsFinite
      <4>4. Cardinality(Extra(Append(inbox, id[c]), {id[c]}))
              = Cardinality(Extra(inbox, {id[c]}))
                  + IF id[c] # Empty /\ id[c] \notin {id[c]} THEN 1 ELSE 0
        BY <1>a, <4>2, ExtraOfAppend
      <4>5. Cardinality(Extra(inbox', {id[c]})) = Cardinality(Extra(inbox, {id[c]}))
        BY <2>1, <4>3, <4>4
      <4>6. QED
        BY <4>1, <4>3, <4>5, FS_Subset
    <3>2. /\ Cardinality(Extra(inbox, {id[c]})) \in Nat /\ Cardinality(Extra(inbox, {})) \in Nat
          /\ Cardinality(Extra(outbox, {id[c]})) \in Nat /\ Cardinality(Extra(outbox, {})) \in Nat
      BY <1>a, PipeIsLines, ExtraIsFinite
    <3>3. strays \in Nat /\ Cardinality(Extra(outbox, {})) + Cardinality(Extra(inbox, {})) <= strays
      BY <1>1, <2>1 DEF McpInv, ExtraPart
    <3>4. strays' = strays /\ stdio' = stdio
      OBVIOUS
    <3>5. QED
      BY <2>1, <3>1, <3>2, <3>3, <3>4 DEF ExtraPart
  <2>7. QED
    BY <2>5, <2>6, <2>8, <2>11 DEF McpInv
<1>2. CASE stdio # "open"
  <2>1. ReturnsFrom(c, "error", 0) /\ holder' = holder /\ inbox' = inbox /\ outbox' = outbox
        /\ 0 \in 0 .. MaxIds
    BY <1>2, McpBounds
  <2>2. /\ nextId' = nextId /\ id' = id /\ via' = via
        /\ progress' \in [Caller -> {"idle", "begun", "sent", "ok", "error"}]
        /\ got' \in [Caller -> 0 .. MaxIds]
        /\ OwnResponse'
        /\ \A d \in Caller : progress'[d] \in {"begun", "sent"} => progress'[d] = progress[d]
    BY <2>1, ReturnsInv
  <2>3. McpTypeOK' /\ LockPart' /\ OncePart' /\ IdsPart'
    BY <2>1, <2>2 DEF McpInv, McpTypeOK, LockPart, OncePart, IdsPart, Once
  <2>4. ExtraPart'
    BY <1>2 DEF McpInv, ExtraPart
  <2>5. QED
    BY <2>2, <2>3, <2>4 DEF McpInv
<1>3. QED
  BY <1>1, <1>2

\* What is left of a pipe when its first line is read.
LEMMA TailOfOutbox ==
  ASSUME McpTypeOK, OncePart, outbox # <<>>
  PROVE  /\ Head(outbox) \in Line /\ Tail(outbox) \in Seq(Line)
         /\ Head(outbox) = outbox[1] /\ 1 \in DOMAIN outbox
         /\ \A n \in DOMAIN Tail(outbox) :
              n + 1 \in DOMAIN outbox /\ n + 1 # 1 /\ Tail(outbox)[n] = outbox[n + 1]
         /\ Once(Tail(outbox))
<1>1. outbox \in Seq(Line) /\ DOMAIN outbox = 1 .. Len(outbox) /\ Len(outbox) \in Nat \ {0}
  BY PipeIsLines, EmptySeq
<1>2. /\ Head(outbox) \in Line /\ Tail(outbox) \in Seq(Line) /\ Len(Tail(outbox)) = Len(outbox) - 1
      /\ \A n \in 1 .. Len(Tail(outbox)) : Tail(outbox)[n] = outbox[n + 1]
      /\ Head(outbox) = outbox[1]
  BY <1>1, HeadTailProperties
<1>3. DOMAIN Tail(outbox) = 1 .. (Len(outbox) - 1)
  BY <1>2, LenProperties
<1>4. \A n \in DOMAIN Tail(outbox) :
        /\ n \in Int /\ n + 1 \in DOMAIN outbox /\ n + 1 # 1
        /\ Tail(outbox)[n] = outbox[n + 1]
  BY <1>1, <1>2, <1>3
<1>5. Once(Tail(outbox))
  <2> SUFFICES ASSUME NEW m \in DOMAIN Tail(outbox), NEW n \in DOMAIN Tail(outbox),
                      Tail(outbox)[m] = Tail(outbox)[n], Tail(outbox)[m] \in RequestId
               PROVE  m = n
    BY DEF Once
  <2>1. m + 1 = n + 1
    BY <1>4 DEF OncePart, Once
  <2>2. QED
    BY <1>4, <2>1
<1>6. QED
  BY <1>1, <1>2, <1>4, <1>5

\* The holder reads the line it waits for, or one that was extra and leaves its own.
LEMMA ReadLineExtra ==
  ASSUME McpInv, NEW c \in holder, ReadLine(c), stdio = "open"
  PROVE  Cardinality(Extra(outbox', HolderIds')) + Cardinality(Extra(inbox', HolderIds')) <= strays
<1> USE DEF ReadLine
<1> DEFINE i == id[c]
           t == Tail(outbox)
<1>1. /\ HolderIds = {i} /\ i \in RequestId /\ inbox' = inbox /\ outbox' = t
      /\ outbox # <<>> /\ i # Empty
  BY McpBounds DEF HolderIds, McpInv, LockPart, IdsPart, McpTypeOK, RequestId, Empty
<1>2. /\ outbox \in Seq(Line) /\ inbox \in Seq(Line) /\ t \in Seq(Line) /\ Head(outbox) \in Line
      /\ Once(t) /\ Once(inbox)
  BY <1>1, PipeIsLines, TailOfOutbox DEF McpInv, OncePart
<1>3. /\ Cardinality(Extra(t, {i})) \in Nat /\ Cardinality(Extra(inbox, {i})) \in Nat
      /\ Cardinality(Extra(outbox, {i})) \in Nat
      /\ Cardinality(Extra(t, {})) \in Nat /\ Cardinality(Extra(inbox, {})) \in Nat
  BY <1>2, ExtraIsFinite
<1>4. Cardinality(Extra(outbox, {i})) + Cardinality(Extra(inbox, {i})) <= strays /\ strays \in Nat
  BY <1>1 DEF McpInv, ExtraPart
<1>5. Cardinality(Extra(outbox, {i}))
        = Cardinality(Extra(t, {i})) + IF Head(outbox) # Empty /\ Head(outbox) \notin {i} THEN 1 ELSE 0
  BY <1>1, <1>2, ExtraOfTail
<1>6. Cardinality(Extra(t, {}))
        = Cardinality(Extra(t, {i})) + IF \E n \in DOMAIN t : t[n] = i THEN 1 ELSE 0
  BY <1>1, <1>2, ExtraWithoutId
<1>7. Cardinality(Extra(inbox, {}))
        = Cardinality(Extra(inbox, {i})) + IF \E n \in DOMAIN inbox : inbox[n] = i THEN 1 ELSE 0
  BY <1>1, <1>2, ExtraWithoutId
<1>8. /\ ~ ((\E n \in DOMAIN t : t[n] = i) /\ \E n \in DOMAIN inbox : inbox[n] = i)
      /\ Head(outbox) = i => ~ (\E n \in DOMAIN t : t[n] = i) /\ ~ \E n \in DOMAIN inbox : inbox[n] = i
  BY <1>1, TailOfOutbox DEF McpInv, OncePart, Once
<1>9. CASE Head(outbox) = Empty
  <2>1. HolderIds' = {i}
    BY <1>1, <1>9 DEF HolderIds
  <2>2. QED
    BY <1>1, <1>3, <1>4, <1>5, <1>9, <2>1
<1>10. CASE Head(outbox) # Empty
  <2>1. HolderIds' = {}
    BY <1>10 DEF HolderIds
  <2>2. CASE Head(outbox) = i
    BY <1>1, <1>3, <1>4, <1>5, <1>6, <1>7, <1>8, <2>1, <2>2
  <2>3. CASE Head(outbox) # i
    <3>1. Cardinality(Extra(outbox, {i})) = Cardinality(Extra(t, {i})) + 1
      BY <1>5, <1>10, <2>3
    <3>2. Cardinality(Extra(t, {})) + Cardinality(Extra(inbox, {}))
            <= Cardinality(Extra(t, {i})) + Cardinality(Extra(inbox, {i})) + 1
      BY <1>3, <1>6, <1>7, <1>8
    <3>3. Cardinality(Extra(t, {})) + Cardinality(Extra(inbox, {})) <= strays
      BY <1>3, <1>4, <3>1, <3>2
    <3>4. QED
      BY <1>1, <2>1, <3>3
  <2>4. QED
    BY <2>2, <2>3
<1>11. QED
  BY <1>9, <1>10

LEMMA ReadLineInv ==
  ASSUME McpInv, NEW c \in Caller, ReadLine(c)
  PROVE  McpInv'
<1> USE DEF ReadLine
<1>1. /\ inbox' = inbox /\ outbox' = Tail(outbox) /\ outbox # <<>> /\ McpTypeOK /\ OncePart
      /\ stdio' = stdio /\ strays' = strays /\ session' = session /\ holder' \subseteq holder
      /\ nextId' = nextId /\ id' = id /\ via' = via
  BY DEF McpInv, ReturnsFrom
<1>2. /\ progress' \in [Caller -> {"idle", "begun", "sent", "ok", "error"}]
      /\ got' \in [Caller -> 0 .. MaxIds]
      /\ OwnResponse'
      /\ \A d \in Caller : progress'[d] \in {"begun", "sent"} => progress'[d] = progress[d]
      /\ holder' = {} \/ progress' = progress
  <2>1. CASE Head(outbox) = Empty
    BY <1>1, <2>1 DEF McpInv, McpTypeOK, OwnResponse
  <2>2. CASE Head(outbox) # Empty
    <3>1. /\ holder' = {}
          /\ \/ Accepts(c, Head(outbox)) /\ ReturnsFrom(c, "ok", Head(outbox))
             \/ ReturnsFrom(c, "error", 0)
      BY <2>2
    <3>2. CASE Accepts(c, Head(outbox)) /\ ReturnsFrom(c, "ok", Head(outbox))
      <4>1. Head(outbox) = id[c] /\ Head(outbox) \in 0 .. MaxIds
        BY <3>2 DEF Accepts, McpInv, McpTypeOK
      <4>2. QED
        BY <3>1, <3>2, <4>1, ReturnsInv
    <3>3. CASE ReturnsFrom(c, "error", 0)
      BY <3>1, <3>3, ReturnsInv, McpBounds
    <3>4. QED
      BY <3>1, <3>2, <3>3
  <2>3. QED
    BY <2>1, <2>2
<1>3. /\ Tail(outbox) \in Seq(Line) /\ Once(Tail(outbox))
      /\ \A n \in DOMAIN Tail(outbox) : n + 1 \in DOMAIN outbox /\ Tail(outbox)[n] = outbox[n + 1]
  BY <1>1, TailOfOutbox
<1>4. McpTypeOK'
  BY <1>1, <1>2, <1>3 DEF McpTypeOK, Line
<1>5. LockPart' /\ OncePart'
  BY <1>1, <1>2, <1>3 DEF McpInv, LockPart, OncePart, Once
<1>6. IdsPart'
  <2>1. \A n \in DOMAIN outbox' : outbox'[n] < nextId
    BY <1>1, <1>3 DEF McpInv, IdsPart
  <2>2. \A d \in Caller : progress'[d] = "begun" =>
          /\ \A n \in DOMAIN outbox' : outbox'[n] # id[d]
          /\ \A n \in DOMAIN inbox : inbox[n] # id[d]
    <3> SUFFICES ASSUME NEW d \in Caller, progress'[d] = "begun"
                 PROVE  /\ \A n \in DOMAIN outbox' : outbox'[n] # id[d]
                        /\ \A n \in DOMAIN inbox : inbox[n] # id[d]
      OBVIOUS
    <3>1. progress[d] = "begun"
      BY <1>2
    <3>2. QED
      BY <1>1, <1>3, <3>1 DEF McpInv, IdsPart
  <2>3. \A d \in Caller : progress'[d] \in {"begun", "sent"} => id[d] \in RequestId
    <3> SUFFICES ASSUME NEW d \in Caller, progress'[d] \in {"begun", "sent"}
                 PROVE  id[d] \in RequestId
      OBVIOUS
    <3>1. progress[d] \in {"begun", "sent"}
      BY <1>2
    <3>2. QED
      BY <3>1 DEF McpInv, IdsPart
  <2>4. QED
    BY <1>1, <2>1, <2>2, <2>3 DEF McpInv, IdsPart
<1>7. ExtraPart'
  <2>1. c \in holder
    OBVIOUS
  <2>2. QED
    BY <1>1, <2>1, ReadLineExtra DEF McpInv, ExtraPart
<1>8. QED
  BY <1>2, <1>4, <1>5, <1>6, <1>7 DEF McpInv

LEMMA ReadEndInv ==
  ASSUME McpInv, NEW c \in Caller, ReadEnd(c)
  PROVE  McpInv'
<1> USE DEF ReadEnd
<1>1. ReturnsFrom(c, "error", 0) /\ holder' = {} /\ inbox' = inbox /\ outbox' = outbox
      /\ 0 \in 0 .. MaxIds
  BY McpBounds
<1>2. /\ nextId' = nextId /\ id' = id /\ via' = via
      /\ progress' \in [Caller -> {"idle", "begun", "sent", "ok", "error"}]
      /\ got' \in [Caller -> 0 .. MaxIds]
      /\ OwnResponse'
      /\ \A d \in Caller : progress'[d] \in {"begun", "sent"} => progress'[d] = progress[d]
  BY <1>1, ReturnsInv
<1>3. McpTypeOK' /\ LockPart' /\ OncePart' /\ IdsPart'
  BY <1>1, <1>2 DEF McpInv, McpTypeOK, LockPart, OncePart, IdsPart, Once
<1>4. ExtraPart'
  BY DEF McpInv, ExtraPart
<1>5. QED
  BY <1>2, <1>3, <1>4 DEF McpInv

LEMMA DisconnectInv ==
  ASSUME McpInv, Disconnect \/ ServerCloses
  PROVE  McpInv'
<1>1. CASE Disconnect
  <2> USE <1>1 DEF Disconnect
  <2>1. McpTypeOK' /\ OwnResponse' /\ LockPart'
    BY DEF McpInv, McpTypeOK, OwnResponse, LockPart
  <2>2. OncePart' /\ IdsPart'
    BY DEF McpInv, OncePart, IdsPart, Once
  <2>3. ExtraPart'
    BY DEF McpInv, ExtraPart
  <2>4. QED
    BY <2>1, <2>2, <2>3 DEF McpInv
<1>2. CASE ServerCloses
  <2> USE <1>2 DEF ServerCloses, client
  <2>1. McpTypeOK' /\ OwnResponse' /\ LockPart'
    BY DEF McpInv, McpTypeOK, OwnResponse, LockPart
  <2>2. OncePart' /\ IdsPart'
    BY DEF McpInv, OncePart, IdsPart, Once
  <2>3. ExtraPart'
    BY DEF McpInv, ExtraPart
  <2>4. QED
    BY <2>1, <2>2, <2>3 DEF McpInv
<1>3. QED
  BY <1>1, <1>2

LEMMA HttpInv ==
  ASSUME McpInv, NEW c \in Caller, SendHttp(c) \/ HttpAnswers(c)
  PROVE  McpInv'
<1> USE DEF pipe
<1>1. UNCHANGED pipe /\ via[c] = "http" /\ via' = via /\ id' = id /\ nextId' = nextId
  BY DEF SendHttp, HttpAnswers, ReturnsFrom
<1>2. /\ progress' \in [Caller -> {"idle", "begun", "sent", "ok", "error"}]
      /\ got' \in [Caller -> 0 .. MaxIds] /\ OwnResponse' /\ session' \in SUBSET Session
      /\ \A d \in Caller : progress'[d] \in {"begun", "sent"} =>
           progress[d] \in {"begun", "sent"} /\ (progress'[d] = "begun" => progress[d] = "begun")
      /\ \A d \in Caller : d # c => progress'[d] = progress[d]
  <2>1. CASE SendHttp(c)
    BY <2>1 DEF SendHttp, McpInv, McpTypeOK, OwnResponse
  <2>2. CASE HttpAnswers(c)
    <3>1. session' \in SUBSET Session
      BY <2>2 DEF HttpAnswers, McpInv, McpTypeOK
    <3>2. id[c] \in 0 .. MaxIds /\ 0 \in 0 .. MaxIds
      BY McpBounds DEF McpInv, McpTypeOK
    <3>3. ReturnsFrom(c, "ok", id[c]) \/ ReturnsFrom(c, "error", 0)
      BY <2>2 DEF HttpAnswers
    <3>4. QED
      BY <3>1, <3>2, <3>3, ReturnsInv
  <2>3. QED
    BY <2>1, <2>2
<1>3. McpTypeOK' /\ OncePart' /\ IdsPart'
  BY <1>1, <1>2 DEF McpInv, McpTypeOK, OncePart, IdsPart, Once
<1>4. LockPart' /\ HolderIds' = HolderIds
  BY <1>1, <1>2 DEF McpInv, McpTypeOK, LockPart, HolderIds
<1>5. ExtraPart'
  BY <1>1, <1>4, ExtraKept DEF McpInv
<1>6. QED
  BY <1>2, <1>3, <1>4, <1>5 DEF McpInv

\* A line moves from the server's stdin to its stdout.
LEMMA ServerAnswersInv ==
  ASSUME McpInv, ServerAnswers
  PROVE  McpInv'
<1> USE DEF ServerAnswers, client
<1> DEFINE h == Head(inbox)
           t == Tail(inbox)
<1>1. /\ inbox' = t /\ outbox' = Append(outbox, h) /\ McpTypeOK /\ HolderIds' = HolderIds
      /\ inbox # <<>>
  BY DEF McpInv, HolderIds
<1>2. /\ inbox \in Seq(RequestId) /\ inbox \in Seq(Line) /\ outbox \in Seq(Line)
      /\ DOMAIN inbox = 1 .. Len(inbox) /\ DOMAIN outbox = 1 .. Len(outbox)
      /\ Len(outbox) \in Nat /\ Len(inbox) \in Nat \ {0}
  BY <1>1, PipeIsLines, EmptySeq
<1>3. /\ h \in RequestId /\ h \in Line /\ h = inbox[1] /\ t \in Seq(RequestId) /\ t \in Seq(Line)
      /\ Len(t) = Len(inbox) - 1 /\ \A n \in 1 .. Len(t) : t[n] = inbox[n + 1]
      /\ DOMAIN t = 1 .. Len(t)
  <2>1. /\ h \in RequestId /\ h = inbox[1] /\ t \in Seq(RequestId)
        /\ Len(t) = Len(inbox) - 1 /\ \A n \in 1 .. Len(t) : t[n] = inbox[n + 1]
    BY <1>1, <1>2, HeadTailProperties
  <2>2. DOMAIN t = 1 .. Len(t)
    BY <2>1, LenProperties
  <2>3. t \in Seq(Line) /\ h \in Line
    BY <2>1, SeqMonotonic DEF Line
  <2>4. QED
    BY <2>1, <2>2, <2>3
<1>4. /\ outbox' \in Seq(Line) /\ DOMAIN outbox' = 1 .. (Len(outbox) + 1)
      /\ \A n \in 1 .. Len(outbox) : outbox'[n] = outbox[n]
      /\ outbox'[Len(outbox) + 1] = h
  <2>1. /\ outbox' \in Seq(Line) /\ Len(outbox') = Len(outbox) + 1
        /\ \A n \in 1 .. Len(outbox) : outbox'[n] = outbox[n]
        /\ outbox'[Len(outbox) + 1] = h
    BY <1>1, <1>2, <1>3, AppendProperties
  <2>2. QED
    BY <2>1, LenProperties
<1>5. /\ \A n \in DOMAIN t : n + 1 \in DOMAIN inbox /\ n + 1 # 1 /\ t[n] = inbox[n + 1]
                             /\ n \in Int
      /\ 1 \in DOMAIN inbox
      /\ \A n \in DOMAIN outbox' :
           \/ n \in DOMAIN outbox /\ outbox'[n] = outbox[n]
           \/ n = Len(outbox) + 1 /\ outbox'[n] = h
  <2>1. Len(t) \in Nat /\ Len(inbox) \in Nat /\ 1 \in DOMAIN inbox
    BY <1>2, <1>3
  <2>2. \A n \in DOMAIN t : n + 1 \in DOMAIN inbox /\ n + 1 # 1 /\ t[n] = inbox[n + 1]
                             /\ n \in Int
    BY <1>2, <1>3, <2>1
  <2>3. \A n \in DOMAIN outbox' : n \in 1 .. Len(outbox) \/ n = Len(outbox) + 1
    BY <1>2, <1>4
  <2>4. QED
    BY <1>2, <1>4, <2>1, <2>2, <2>3
<1> HIDE DEF h, t
<1>6. McpTypeOK' /\ OwnResponse' /\ LockPart'
  <2>1. McpTypeOK'
    BY <1>1, <1>3, <1>4 DEF McpTypeOK, Line
  <2>2. QED
    BY <2>1 DEF McpInv, OwnResponse, LockPart
<1>7. IdsPart'
  <2>1. \A n \in DOMAIN outbox' : outbox'[n] < nextId
    BY <1>3, <1>5 DEF McpInv, IdsPart
  <2>2. \A n \in DOMAIN t : t[n] < nextId
    BY <1>5 DEF McpInv, IdsPart
  <2>3. \A d \in Caller : progress[d] = "begun" =>
          /\ \A n \in DOMAIN outbox' : outbox'[n] # id[d]
          /\ \A n \in DOMAIN t : t[n] # id[d]
    BY <1>3, <1>5 DEF McpInv, IdsPart
  <2>4. QED
    BY <1>1, <2>1, <2>2, <2>3 DEF McpInv, IdsPart
<1>8. OncePart'
  <2>1. Once(t)
    <3> SUFFICES ASSUME NEW m \in DOMAIN t, NEW n \in DOMAIN t, t[m] = t[n], t[m] \in RequestId
                 PROVE  m = n
      BY DEF Once
    <3>1. m + 1 = n + 1
      BY <1>5 DEF McpInv, OncePart, Once
    <3>2. QED
      BY <1>5, <3>1
  <2>2. Once(outbox')
    BY <1>3, <1>5 DEF McpInv, OncePart, Once
  <2>3. \A m \in DOMAIN outbox', n \in DOMAIN t : outbox'[m] # t[n]
    BY <1>3, <1>5 DEF McpInv, OncePart, Once
  <2>4. QED
    BY <1>1, <2>1, <2>2, <2>3 DEF OncePart, Once
<1>9. ExtraPart'
  <2> DEFINE I == HolderIds
             more == IF h # Empty /\ h \notin I THEN 1 ELSE 0
  <2>1. Cardinality(Extra(inbox, I)) = Cardinality(Extra(t, I)) + more
    BY <1>1, <1>2, ExtraOfTail DEF h, t
  <2>2. Cardinality(Extra(Append(outbox, h), I)) = Cardinality(Extra(outbox, I)) + more
    BY <1>2, <1>3, ExtraOfAppend
  <2>3. Cardinality(Extra(outbox, I)) \in Nat /\ Cardinality(Extra(t, I)) \in Nat /\ more \in Nat
    BY <1>2, <1>3, ExtraIsFinite
  <2> HIDE DEF more, I
  <2>4. Cardinality(Extra(Append(outbox, h), I)) + Cardinality(Extra(t, I))
          = Cardinality(Extra(outbox, I)) + Cardinality(Extra(inbox, I))
    BY <2>1, <2>2, <2>3
  <2>5. QED
    BY <1>1, <2>4 DEF McpInv, ExtraPart, I
<1>10. QED
  BY <1>6, <1>7, <1>8, <1>9 DEF McpInv

LEMMA ServerSaysInv ==
  ASSUME McpInv, NEW line \in {Stray, Empty}, ServerSays(line)
  PROVE  McpInv'
<1> USE DEF ServerSays, client
<1>1. /\ inbox' = inbox /\ outbox' = Append(outbox, line) /\ McpTypeOK /\ HolderIds' = HolderIds
      /\ line \in Line /\ line \notin RequestId
  BY McpBounds DEF McpInv, HolderIds, Line, RequestId, Stray, Empty
<1>2. outbox \in Seq(Line) /\ DOMAIN outbox = 1 .. Len(outbox) /\ Len(outbox) \in Nat
      /\ inbox \in Seq(Line) /\ \A n \in DOMAIN inbox : inbox[n] \in RequestId
  BY <1>1, PipeIsLines
<1>3. outbox' \in Seq(Line)
      /\ \A n \in DOMAIN outbox' :
           \/ n \in DOMAIN outbox /\ outbox'[n] = outbox[n]
           \/ n = Len(outbox) + 1 /\ outbox'[n] = line
  <2>1. /\ outbox' \in Seq(Line) /\ Len(outbox') = Len(outbox) + 1
        /\ \A n \in 1 .. Len(outbox) : outbox'[n] = outbox[n]
        /\ outbox'[Len(outbox) + 1] = line
    BY <1>1, <1>2, AppendProperties
  <2>2. DOMAIN outbox' = 1 .. Len(outbox')
    BY <2>1, LenProperties
  <2>3. \A n \in DOMAIN outbox' : n \in 1 .. Len(outbox) \/ n = Len(outbox) + 1
    BY <1>2, <2>1, <2>2
  <2>4. QED
    BY <1>2, <2>1, <2>3
<1>4. McpTypeOK' /\ OwnResponse' /\ LockPart'
  BY <1>1, <1>3 DEF McpInv, McpTypeOK, OwnResponse, LockPart, Line
<1>5. OncePart'
  BY <1>1, <1>2, <1>3 DEF McpInv, OncePart, Once
<1>6. IdsPart'
  <2>1. line < nextId
    BY McpBounds DEF McpInv, McpTypeOK, Stray, Empty
  <2>2. \A d \in Caller : progress[d] = "begun" => line # id[d]
    BY <1>1 DEF McpInv, IdsPart
  <2>3. QED
    BY <1>1, <1>3, <2>1, <2>2 DEF McpInv, IdsPart
<1>7. ExtraPart'
  <2>1. Cardinality(Extra(outbox', HolderIds))
          = Cardinality(Extra(outbox, HolderIds)) + IF line # Empty /\ line \notin HolderIds THEN 1 ELSE 0
    BY <1>1, <1>2, ExtraOfAppend
  <2>2. Cardinality(Extra(outbox, HolderIds)) \in Nat /\ Cardinality(Extra(inbox, HolderIds)) \in Nat
    BY <1>2, ExtraIsFinite
  <2>3. stdio = "open" /\ stdio' = stdio /\ strays' = strays + 1
    OBVIOUS
  <2>4. QED
    BY <1>1, <2>1, <2>2, <2>3 DEF McpInv, ExtraPart
<1>8. QED
  BY <1>4, <1>5, <1>6, <1>7 DEF McpInv

LEMMA McpStep == McpInv /\ [McpNext]_mcpVars => McpInv'
<1> SUFFICES ASSUME McpInv, [McpNext]_mcpVars PROVE McpInv'
  OBVIOUS
<1>1. CASE UNCHANGED mcpVars
  <2> USE <1>1 DEF mcpVars
  <2>1. McpTypeOK' /\ OwnResponse' /\ LockPart' /\ OncePart' /\ IdsPart'
    BY DEF McpInv, McpTypeOK, OwnResponse, LockPart, OncePart, IdsPart, Once
  <2>2. ExtraPart'
    BY DEF McpInv, ExtraPart, HolderIds
  <2>3. QED
    BY <2>1, <2>2 DEF McpInv
<1>2. CASE McpNext
  BY <1>2, BeginRequestInv, WriteRequestInv, ReadLineInv, ReadEndInv, HttpInv, DisconnectInv,
     ServerAnswersInv, ServerSaysInv DEF McpNext
<1>3. QED
  BY <1>1, <1>2

LEMMA ExtraIsInStep == McpInv => InStepUpToStrays
<1> SUFFICES ASSUME McpInv, stdio = "open"
             PROVE  Cardinality({n \in DOMAIN (outbox \o inbox) :
                                   /\ (outbox \o inbox)[n] # Empty
                                   /\ \A c \in holder : (outbox \o inbox)[n] # id[c]}) <= strays
  BY DEF InStepUpToStrays
<1>1. {n \in DOMAIN (outbox \o inbox) :
         (outbox \o inbox)[n] # Empty /\ \A c \in holder : (outbox \o inbox)[n] # id[c]}
        = Extra(outbox \o inbox, HolderIds)
  BY DEF Extra, HolderIds
<1>2. outbox \in Seq(Line) /\ inbox \in Seq(Line)
  BY PipeIsLines DEF McpInv
<1>3. QED
  BY <1>1, <1>2, ExtraOfConcat DEF McpInv, ExtraPart

\* Whatever callers overlap and whatever the server says unasked, a request that
\* succeeds has its own response, and the pipe is out of step by at most the lines
\* that were no responses (send_request and read_json_rpc_response).
THEOREM PipeStaysInStep == McpSpec => [](McpTypeOK /\ OwnResponse /\ InStepUpToStrays)
<1>1. McpInv => McpTypeOK /\ OwnResponse /\ InStepUpToStrays
  BY ExtraIsInStep DEF McpInv
<1>2. QED
  BY <1>1, McpInitInv, McpStep, PTL DEF McpSpec
------------------------------------------------------------------------------
(***************************************************************************)
(* The terminal UI and its turns.                                          *)
(***************************************************************************)

\* Turns that have still to tell the UI that they are over.
Owing == {t \in Turn : \/ stage[t] \in {"spawned", "running", "asking", "failed", "saved", "reported"}
                       \/ stage[t] = "answered" /\ kind[t] = "skill"}

TuiShape ==
  /\ TuiTypeOK
  /\ events \in Seq({"started", "complete", "error"}) /\ requests \in Seq(Turn)

\* Who has nothing left to tell has left no turn begun in the UI's queue, and nothing
\* for it to wait for.
BusPart ==
  (~ lagged /\ Owing = {}) =>
    /\ streaming => events # <<>>
    /\ events # <<>> => events[Len(events)] # "started"

AskPart ==
  /\ \A t, u \in prompt : t = u
  /\ \A i, j \in DOMAIN requests : requests[i] = requests[j] => i = j
  /\ \A i \in DOMAIN requests : requests[i] \notin prompt
  /\ RequestsAreAsked

\* After a frame is drawn the prompt is on it until the next request is taken.
SeenPart == loop # "draw" /\ prompt # {} => seen

TuiInv == TuiShape /\ BusPart /\ AskPart /\ SeenPart

LEMMA TuiInitInv == TuiInit => TuiInv
<1> SUFFICES ASSUME TuiInit PROVE TuiInv
  OBVIOUS
<1> USE DEF TuiInit
<1>1. Cardinality(Turn) \in Nat
  BY TuiBounds, FS_CardinalityType
<1>2. model \in Model
  BY TuiBounds
<1>3. file \in State
  BY <1>1, <1>2 DEF State
<1>4. TuiShape
  <2>1. Len(events) = 0 /\ Len(events) <= BusCapacity
    BY TuiBounds
  <2>2. TuiTypeOK
    BY <1>2, <1>3, <2>1 DEF TuiTypeOK, Kinds
  <2>3. QED
    BY <2>2 DEF TuiShape
<1>5. BusPart /\ AskPart /\ SeenPart
  BY DEF BusPart, AskPart, SeenPart, RequestsAreAsked
<1>6. QED
  BY <1>4, <1>5 DEF TuiInv

LEMMA PublishKeeps ==
  ASSUME TuiShape, NEW e \in {"started", "complete", "error"}, Publish(e)
  PROVE  /\ events' \in Seq({"started", "complete", "error"}) /\ Len(events') <= BusCapacity
         /\ events' # <<>> /\ events'[Len(events')] = e /\ lagged' \in BOOLEAN
<1> DEFINE E == {"started", "complete", "error"}
<1>1. events \in Seq(E) /\ Len(events) \in Nat /\ Len(events) <= BusCapacity /\ BusCapacity \in Nat \ {0}
  BY TuiBounds, LenProperties DEF TuiShape, TuiTypeOK
<1>2. CASE Len(events) < BusCapacity
  <2>1. events' = Append(events, e)
    BY <1>2 DEF Publish
  <2>2. /\ events' \in Seq(E) /\ events' # <<>> /\ Len(events') = Len(events) + 1
        /\ events'[Len(events) + 1] = e
    BY <1>1, <2>1, AppendProperties
  <2>3. QED
    BY <1>1, <1>2, <2>2 DEF Publish, TuiShape, TuiTypeOK
<1>3. CASE ~ (Len(events) < BusCapacity)
  <2>1. events' = Append(Tail(events), e) /\ events # <<>>
    BY <1>1, <1>3 DEF Publish
  <2>2. Tail(events) \in Seq(E) /\ Len(Tail(events)) = Len(events) - 1
    BY <1>1, <2>1, HeadTailProperties
  <2>3. /\ events' \in Seq(E) /\ events' # <<>> /\ Len(events') = Len(Tail(events)) + 1
        /\ events'[Len(Tail(events)) + 1] = e
    BY <2>1, <2>2, AppendProperties
  <2>4. Len(events') = Len(events) /\ Len(events') <= BusCapacity /\ events'[Len(events')] = e
    BY <1>1, <2>2, <2>3
  <2>5. lagged' \in BOOLEAN
    BY DEF Publish, TuiShape, TuiTypeOK
  <2>6. QED
    BY <2>3, <2>4, <2>5
<1>4. QED
  BY <1>2, <1>3

\* A turn's task that neither asks nor is asking leaves the approvals alone.
LEMMA TurnLeavesPrompt ==
  ASSUME AskPart, SeenPart, NEW t \in Turn, stage[t] # "asking",
         UNCHANGED <<loop, prompt, seen, requests>>,
         stage'[t] # "asking", \A u \in Turn \ {t} : stage'[u] = stage[u]
  PROVE  AskPart' /\ SeenPart'
  BY DEF AskPart, SeenPart, RequestsAreAsked

LEMMA TurnBeginsInv ==
  ASSUME TuiInv, NEW t \in Turn, TurnBegins(t)
  PROVE  TuiInv'
<1> USE DEF TurnBegins, ui, At, Silent
<1>1. /\ \A u \in Turn : stage'[u] = IF u = t THEN stage'[t] ELSE stage[u]
      /\ stage'[t] \in {"running", "failed"}
      /\ stage' \in [Turn -> {"none", "spawned", "running", "asking", "answered", "failed",
                              "saved", "reported", "over"}]
      /\ loaded' \in [Turn -> State]
  BY DEF TuiInv, TuiShape, TuiTypeOK
<1>2. /\ events' \in Seq({"started", "complete", "error"}) /\ Len(events') <= BusCapacity
      /\ lagged' \in BOOLEAN
  BY PublishKeeps DEF TuiInv, TuiShape, TuiTypeOK
<1>3. TuiShape'
  BY <1>1, <1>2 DEF TuiInv, TuiShape, TuiTypeOK
<1>4. t \in Owing'
  BY <1>1 DEF Owing
<1>5. AskPart' /\ SeenPart'
  BY <1>1, TurnLeavesPrompt DEF TuiInv
<1>6. QED
  BY <1>3, <1>4, <1>5 DEF TuiInv, BusPart

LEMMA TurnEndsInv ==
  ASSUME TuiInv, NEW t \in Turn, TurnAnswers(t) \/ TurnFails(t) \/ ReportsError(t) \/ ReportsEnd(t)
  PROVE  TuiInv'
<1> USE DEF TurnAnswers, TurnFails, ReportsError, ReportsEnd, ui, At, Silent
<1>1. /\ stage[t] \in {"running", "saved", "reported"}
      /\ \A u \in Turn : stage'[u] = IF u = t THEN stage'[t] ELSE stage[u]
      /\ stage'[t] \in {"over", "answered", "failed", "reported"}
      /\ stage' \in [Turn -> {"none", "spawned", "running", "asking", "answered", "failed",
                              "saved", "reported", "over"}]
      /\ UNCHANGED <<loop, streaming, model, prompt, seen, kind, picks, loaded, file, requests>>
  BY DEF TuiInv, TuiShape, TuiTypeOK
<1>2. /\ events' \in Seq({"started", "complete", "error"}) /\ Len(events') <= BusCapacity
      /\ lagged' \in BOOLEAN
      /\ t \in Owing' \/ (events' # <<>> /\ events'[Len(events')] # "started")
  BY PublishKeeps DEF TuiInv, TuiShape, TuiTypeOK, Owing
<1>3. TuiShape'
  BY <1>1, <1>2 DEF TuiInv, TuiShape, TuiTypeOK
<1>4. AskPart' /\ SeenPart'
  BY <1>1, TurnLeavesPrompt DEF TuiInv
<1>5. QED
  BY <1>2, <1>3, <1>4 DEF TuiInv, BusPart

LEMMA SavesStateInv ==
  ASSUME TuiInv, NEW t \in Turn, SavesState(t)
  PROVE  TuiInv'
<1> USE DEF SavesState, ui, Silent
<1>1. /\ stage[t] \in {"answered", "failed"}
      /\ stage' = [stage EXCEPT ![t] = CASE stage[t] = "failed" -> "saved"
                                         [] kind[t] = "skill" -> "reported"
                                         [] OTHER -> "over"]
      /\ UNCHANGED <<loop, streaming, model, prompt, seen, kind, picks, loaded, requests, events, lagged>>
  BY DEF At
<1>2. /\ (CASE stage[t] = "failed" -> "saved"
            [] kind[t] = "skill" -> "reported"
            [] OTHER -> "over") \in {"saved", "reported", "over"}
      /\ t \in Owing =>
           (CASE stage[t] = "failed" -> "saved"
              [] kind[t] = "skill" -> "reported"
              [] OTHER -> "over") \in {"saved", "reported"}
  BY <1>1, Zenon DEF Owing
<1>3. /\ \A u \in Turn : stage'[u] = IF u = t THEN stage'[t] ELSE stage[u]
      /\ stage'[t] \in {"saved", "reported", "over"}
      /\ t \in Owing => stage'[t] \in {"saved", "reported"}
      /\ stage' \in [Turn -> {"none", "spawned", "running", "asking", "answered", "failed",
                              "saved", "reported", "over"}]
  BY <1>1, <1>2 DEF TuiInv, TuiShape, TuiTypeOK
<1>4. file' \in State
  <2>1. loaded[t] \in State /\ Cardinality(Turn) \in Nat
    BY TuiBounds, FS_CardinalityType DEF TuiInv, TuiShape, TuiTypeOK
  <2>2. file' = [loaded[t] EXCEPT !.turn = IF @ < Cardinality(Turn) THEN @ + 1 ELSE @]
    BY DEF StateSaved
  <2>3. QED
    BY <2>1, <2>2 DEF State
<1>5. TuiShape'
  BY <1>1, <1>3, <1>4 DEF TuiInv, TuiShape, TuiTypeOK
<1>6. Owing' = {} => Owing = {}
  BY <1>1, <1>3 DEF Owing
<1>7. AskPart' /\ SeenPart'
  BY <1>1, <1>3, TurnLeavesPrompt DEF TuiInv
<1>8. QED
  BY <1>1, <1>5, <1>6, <1>7 DEF TuiInv, BusPart

LEMMA AsksInv ==
  ASSUME TuiInv, NEW t \in Turn, Asks(t)
  PROVE  TuiInv'
<1> USE DEF Asks, ui, At
<1>1. /\ \A u \in Turn : stage'[u] = IF u = t THEN "asking" ELSE stage[u]
      /\ stage' \in [Turn -> {"none", "spawned", "running", "asking", "answered", "failed",
                              "saved", "reported", "over"}]
  BY DEF TuiInv, TuiShape, TuiTypeOK
<1>2. /\ requests' \in Seq(Turn) /\ Len(requests) \in Nat
      /\ DOMAIN requests = 1 .. Len(requests) /\ DOMAIN requests' = 1 .. (Len(requests) + 1)
      /\ \A i \in 1 .. Len(requests) : requests'[i] = requests[i]
      /\ requests'[Len(requests) + 1] = t
  <2>1. requests \in Seq(Turn)
    BY DEF TuiInv, TuiShape
  <2>2. /\ requests' \in Seq(Turn) /\ Len(requests') = Len(requests) + 1
        /\ \A i \in 1 .. Len(requests) : requests'[i] = requests[i]
        /\ requests'[Len(requests) + 1] = t
    BY <2>1, AppendProperties
  <2>3. QED
    BY <2>1, <2>2, LenProperties
<1>3. /\ \A i \in DOMAIN requests' : i \in DOMAIN requests \/ i = Len(requests) + 1
      /\ DOMAIN requests \subseteq DOMAIN requests' /\ Len(requests) + 1 \in DOMAIN requests'
  BY <1>2
<1>4. TuiShape'
  BY <1>1, <1>2 DEF TuiInv, TuiShape, TuiTypeOK
<1>5. t \notin prompt /\ \A i \in DOMAIN requests : requests[i] # t
  BY DEF TuiInv, AskPart, RequestsAreAsked
<1>6. AskPart'
  <2>1. RequestsAreAsked'
    BY <1>1, <1>2, <1>3 DEF TuiInv, AskPart, RequestsAreAsked
  <2>2. \A i, j \in DOMAIN requests' : requests'[i] = requests'[j] => i = j
    BY <1>2, <1>3, <1>5 DEF TuiInv, AskPart
  <2>3. \A i \in DOMAIN requests' : requests'[i] \notin prompt
    BY <1>2, <1>3, <1>5 DEF TuiInv, AskPart
  <2>4. QED
    BY <2>1, <2>2, <2>3 DEF TuiInv, AskPart
<1>7. t \in Owing'
  BY <1>1 DEF Owing
<1>8. QED
  BY <1>4, <1>6, <1>7 DEF TuiInv, BusPart, SeenPart

LEMMA TakeRequestInv ==
  ASSUME TuiInv, TakeRequest
  PROVE  TuiInv'
<1> USE DEF TakeRequest, tasks, ServedTo
<1>1. /\ requests \in Seq(Turn) /\ Len(requests) \in Nat \ {0} /\ DOMAIN requests = 1 .. Len(requests)
      /\ Head(requests) \in Turn /\ Head(requests) = requests[1]
      /\ Tail(requests) \in Seq(Turn) /\ Len(Tail(requests)) = Len(requests) - 1
      /\ DOMAIN Tail(requests) = 1 .. Len(Tail(requests))
      /\ \A i \in 1 .. Len(Tail(requests)) : Tail(requests)[i] = requests[i + 1]
  <2>1. requests \in Seq(Turn) /\ requests # <<>>
    BY DEF TuiInv, TuiShape
  <2>2. /\ Head(requests) \in Turn /\ Head(requests) = requests[1]
        /\ Tail(requests) \in Seq(Turn) /\ Len(Tail(requests)) = Len(requests) - 1
        /\ \A i \in 1 .. Len(Tail(requests)) : Tail(requests)[i] = requests[i + 1]
    BY <2>1, HeadTailProperties
  <2>3. QED
    BY <2>1, <2>2, EmptySeq, LenProperties
<1>2. /\ \A i \in DOMAIN requests' : i + 1 \in DOMAIN requests /\ i + 1 # 1 /\ i \in Int
                                     /\ requests'[i] = requests[i + 1]
      /\ \A i \in DOMAIN requests : i = 1 \/ (i - 1 \in DOMAIN requests' /\ requests'[i - 1] = requests[i])
      /\ 1 \in DOMAIN requests
  BY <1>1
<1>3. prompt' = {requests[1]} /\ requests[1] \in Turn /\ prompt = {} /\ requests' \in Seq(Turn)
  BY <1>1
<1>4. TuiShape'
  BY <1>3 DEF TuiInv, TuiShape, TuiTypeOK
<1>5. AskPart'
  <2>1. \A t \in Turn : (\E i \in DOMAIN requests : requests[i] = t)
                        <=> (t \in prompt' \/ \E i \in DOMAIN requests' : requests'[i] = t)
    BY <1>2, <1>3
  <2>2. RequestsAreAsked'
    BY <1>3, <2>1 DEF TuiInv, AskPart, RequestsAreAsked
  <2>3. \A i, j \in DOMAIN requests' : requests'[i] = requests'[j] => i = j
    <3> SUFFICES ASSUME NEW i \in DOMAIN requests', NEW j \in DOMAIN requests',
                        requests'[i] = requests'[j]
                 PROVE  i = j
      OBVIOUS
    <3>1. i + 1 = j + 1
      BY <1>2 DEF TuiInv, AskPart
    <3>2. QED
      BY <1>2, <3>1
  <2>4. \A i \in DOMAIN requests' : requests'[i] \notin prompt'
    BY <1>2, <1>3 DEF TuiInv, AskPart
  <2>5. QED
    BY <1>3, <2>2, <2>3, <2>4 DEF AskPart
<1>6. QED
  BY <1>4, <1>5 DEF TuiInv, BusPart, SeenPart, Owing

LEMMA AnswerPromptInv ==
  ASSUME TuiInv, AnswerPrompt
  PROVE  TuiInv'
<1> USE DEF AnswerPrompt
<1>1. /\ \A u \in Turn : stage'[u] = IF u \in prompt THEN "running" ELSE stage[u]
      /\ stage' \in [Turn -> {"none", "spawned", "running", "asking", "answered", "failed",
                              "saved", "reported", "over"}]
  BY DEF TuiInv, TuiShape, TuiTypeOK
<1>2. TuiShape'
  BY <1>1 DEF TuiInv, TuiShape, TuiTypeOK
<1>3. Owing' # {}
  BY <1>1 DEF TuiInv, TuiShape, TuiTypeOK, Owing
<1>4. AskPart'
  BY <1>1 DEF TuiInv, AskPart, RequestsAreAsked
<1>5. QED
  BY <1>2, <1>3, <1>4 DEF TuiInv, BusPart, SeenPart

LEMMA HandleEventInv ==
  ASSUME TuiInv, HandleEvent
  PROVE  TuiInv'
<1> USE DEF HandleEvent, tasks
<1> DEFINE E == {"started", "complete", "error"}
<1>1. /\ events \in Seq(E) /\ events # <<>> /\ Len(events) \in Nat \ {0}
      /\ Len(events) <= BusCapacity
      /\ Head(events) = events[1] /\ Tail(events) \in Seq(E) /\ Len(Tail(events)) = Len(events) - 1
      /\ \A i \in 1 .. Len(Tail(events)) : Tail(events)[i] = events[i + 1]
  <2>1. events \in Seq(E) /\ events # <<>> /\ Len(events) <= BusCapacity
    BY DEF TuiInv, TuiShape, TuiTypeOK
  <2>2. Len(events) \in Nat \ {0}
    BY <2>1, EmptySeq
  <2>3. /\ Head(events) = events[1] /\ Tail(events) \in Seq(E) /\ Len(Tail(events)) = Len(events) - 1
        /\ \A i \in 1 .. Len(Tail(events)) : Tail(events)[i] = events[i + 1]
    BY <2>1, HeadTailProperties
  <2>4. QED
    BY <2>1, <2>2, <2>3
<1>2. Len(events') <= BusCapacity
  BY <1>1, TuiBounds
<1>3. TuiShape'
  BY <1>1, <1>2 DEF TuiInv, TuiShape, TuiTypeOK
<1>4. AskPart' /\ SeenPart'
  BY DEF TuiInv, AskPart, SeenPart, RequestsAreAsked
<1>5. BusPart'
  <2> SUFFICES ASSUME ~ lagged', Owing' = {}
               PROVE  /\ streaming' => events' # <<>>
                      /\ events' # <<>> => events'[Len(events')] # "started"
    BY DEF BusPart
  <2>1. events[Len(events)] # "started"
    BY <1>1 DEF TuiInv, BusPart, Owing
  <2>2. CASE Len(events) = 1
    <3>1. Tail(events) = <<>>
      BY <1>1, <2>2, EmptySeq
    <3>2. QED
      BY <1>1, <2>1, <2>2, <3>1
  <2>3. CASE Len(events) > 1
    <3>1. Len(Tail(events)) \in 1 .. Len(Tail(events)) /\ Len(Tail(events)) + 1 = Len(events)
      BY <1>1, <2>3
    <3>2. Tail(events)[Len(Tail(events))] = events[Len(events)]
      BY <1>1, <3>1
    <3>3. events' # <<>>
      BY <1>1, <2>3, EmptySeq
    <3>4. QED
      BY <2>1, <3>2, <3>3
  <2>4. QED
    BY <1>1, <2>2, <2>3
<1>6. QED
  BY <1>3, <1>4, <1>5 DEF TuiInv

LEMMA SubmitInv ==
  ASSUME TuiInv, NEW t \in Turn, Submit(t)
  PROVE  TuiInv'
<1> USE DEF Submit, At
<1>1. /\ \A u \in Turn : stage'[u] = IF u = t THEN "spawned" ELSE stage[u]
      /\ stage' \in [Turn -> {"none", "spawned", "running", "asking", "answered", "failed",
                              "saved", "reported", "over"}]
  BY DEF TuiInv, TuiShape, TuiTypeOK
<1>2. kind' \in [Turn -> Kinds \cup {"none"}]
  BY DEF TuiInv, TuiShape, TuiTypeOK
<1>3. TuiShape'
  BY <1>1, <1>2 DEF TuiInv, TuiShape, TuiTypeOK
<1>4. t \in Owing'
  BY <1>1 DEF Owing
<1>5. AskPart' /\ SeenPart'
  BY <1>1, TurnLeavesPrompt DEF TuiInv
<1>6. QED
  BY <1>3, <1>4, <1>5 DEF TuiInv, BusPart

LEMMA LoopInv ==
  ASSUME TuiInv, Draw \/ PollKeys \/ NoMoreKeys \/ \E m \in Model : PickModel(m)
  PROVE  TuiInv'
<1>1. CASE Draw \/ PollKeys \/ NoMoreKeys
  <2> USE <1>1 DEF Draw, PollKeys, NoMoreKeys, tasks
  <2>1. seen' \in BOOLEAN
    BY DEF TuiInv, TuiShape, TuiTypeOK
  <2>2. UNCHANGED <<streaming, model, prompt, tasks, file, events, lagged, requests, picks>>
    OBVIOUS
  <2>3. TuiShape'
    BY <2>1, <2>2 DEF TuiInv, TuiShape, TuiTypeOK
  <2>4. BusPart' /\ AskPart'
    BY <2>2 DEF TuiInv, BusPart, Owing, AskPart, RequestsAreAsked
  <2>5. SeenPart'
    BY DEF TuiInv, SeenPart
  <2>6. QED
    BY <2>3, <2>4, <2>5 DEF TuiInv
<1>2. CASE \E m \in Model : PickModel(m)
  <2>1. PICK m \in Model : PickModel(m)
    BY <1>2
  <2>2. file' \in State
    BY <2>1 DEF PickModel, State, TuiInv, TuiShape, TuiTypeOK
  <2>3. TuiShape'
    BY <2>1, <2>2 DEF PickModel, tasks, TuiInv, TuiShape, TuiTypeOK
  <2>4. BusPart' /\ AskPart' /\ SeenPart'
    BY <2>1 DEF PickModel, tasks, TuiInv, BusPart, Owing, AskPart, RequestsAreAsked, SeenPart
  <2>5. QED
    BY <2>3, <2>4 DEF TuiInv
<1>3. QED
  BY <1>1, <1>2

LEMMA QuitAndContinueInv ==
  ASSUME TuiInv, QuitAndContinue
  PROVE  TuiInv'
<1> USE DEF QuitAndContinue
<1>1. /\ \A u \in Turn : stage'[u] = IF u \in Started THEN "over" ELSE stage[u]
      /\ stage' \in [Turn -> {"none", "spawned", "running", "asking", "answered", "failed",
                              "saved", "reported", "over"}]
  BY DEF TuiInv, TuiShape, TuiTypeOK
<1>2. /\ file.model \in Model /\ events' = <<>> /\ requests' = <<>> /\ Len(events') <= BusCapacity
      /\ events' \in Seq({"started", "complete", "error"}) /\ requests' \in Seq(Turn)
  BY TuiBounds DEF TuiInv, TuiShape, TuiTypeOK, State
<1>3. TuiShape'
  BY <1>1, <1>2 DEF TuiInv, TuiShape, TuiTypeOK
<1>4. AskPart'
  BY <1>1 DEF AskPart, RequestsAreAsked, Started
<1>5. QED
  BY <1>3, <1>4 DEF TuiInv, BusPart, SeenPart

LEMMA TuiStep == TuiInv /\ [TuiNext]_tuiVars => TuiInv'
<1> SUFFICES ASSUME TuiInv, [TuiNext]_tuiVars PROVE TuiInv'
  OBVIOUS
<1>1. CASE UNCHANGED tuiVars
  BY <1>1 DEF tuiVars, TuiInv, TuiShape, TuiTypeOK, BusPart, Owing, AskPart, RequestsAreAsked,
     SeenPart
<1>2. CASE TuiNext
  BY <1>2, TurnBeginsInv, AsksInv, TurnEndsInv, SavesStateInv, SubmitInv, LoopInv,
     HandleEventInv, TakeRequestInv, AnswerPromptInv, QuitAndContinueInv DEF TuiNext
<1>3. QED
  BY <1>1, <1>2

\* However turns overlap, fail and ask, the input comes back once the last of them is
\* over and its events are handled, unless the bus has dropped some; and the requests
\* that are on the screen or in the channel are those of the tool calls that wait.
THEOREM InputAndPromptsKept == TuiSpec => [](TuiTypeOK /\ InputComesBack /\ RequestsAreAsked)
<1>1. TuiInv => TuiTypeOK /\ InputComesBack /\ RequestsAreAsked
  BY DEF TuiInv, TuiShape, BusPart, AskPart, InputComesBack, Started, Owing
<1>2. QED
  BY <1>1, TuiInitInv, TuiStep, PTL DEF TuiSpec

\* A key is an answer only to a prompt that has been drawn.
THEOREM AnsweredWhenSeen == TuiSpec => PromptSeenBeforeAnswer
<1>1. TuiInv /\ [TuiNext]_tuiVars => [(prompt # {} /\ prompt' = {}) => seen]_tuiVars
  <2> SUFFICES ASSUME TuiInv, TuiNext, prompt # {}, prompt' = {} PROVE seen
    BY DEF tuiVars
  <2>1. AnswerPrompt
    BY DEF TuiNext, TurnBegins, Asks, TurnAnswers, TurnFails, SavesState, ReportsError,
       ReportsEnd, Submit, Draw, HandleEvent, TakeRequest, PollKeys, NoMoreKeys, PickModel,
       QuitAndContinue, ui
  <2>2. QED
    BY <2>1 DEF AnswerPrompt, TuiInv, SeenPart
<1>2. QED
  BY <1>1, TuiInitInv, TuiStep, PTL DEF TuiSpec, PromptSeenBeforeAnswer
------------------------------------------------------------------------------
(***************************************************************************)
(* Memory, and those who tidy it up.                                       *)
(***************************************************************************)

Facts(i) == entries[i].entry.facts

MemShape ==
  /\ entries \in [Id -> {Absent, Blank} \cup {Whole(e) : e \in Texts}]
  /\ used \in 0 .. MaxEntries
  /\ doing \in [Writers -> {"nothing", "recall", "recalled", "list", "merge", "write", "forget"}]
  /\ names \in [Process -> SUBSET Id]
  /\ found \in [Process -> SUBSET [id : Id, entry : Texts]]
  /\ writing \in [Writers -> SUBSET [id : Id, entry : Texts]]
  /\ query \in [Process -> SUBSET Fact]
  /\ owed \in SUBSET Fact /\ dropped \in SUBSET Fact /\ deaths \in 0 .. MaxDeaths

\* Ids are given out in order, and an id's text never changes.
UsedPart ==
  /\ \A i \in Id : i > used => entries[i] = Absent
  /\ \A p \in Process : \A i \in names[p] : i <= used
  /\ \A p \in Process : \A x \in found[p] :
       x.id <= used /\ entries[x.id] \in {Absent, Whole(x.entry)}

\* What is written is nobody else's; a merge is younger than what it replaces, and has
\* all of it but what is left out.
WritePart ==
  /\ \A p \in Writers : \A w \in writing[p] :
       doing[p] = "write" /\ w.id <= used /\ entries[w.id] = Blank
  /\ \A p \in Writers : \A w, v \in writing[p] : w = v
  /\ \A p, q \in Writers : p # q => \A w \in writing[p], v \in writing[q] : w.id # v.id
  /\ \A p \in Process : \A w \in writing[p] : \A i \in names[p] :
       i < w.id /\ entries[i] # Blank /\ (Stored(i) => Facts(i) \subseteq w.entry.facts \cup dropped)

\* A fact of an entry that is about to go is in a younger one; or the user has forgotten
\* it, and will add it again only with a younger one.
Younger(i, f) == \E j \in Id : Stored(j) /\ j > i /\ f \in Facts(j)
Disowned(i, f) == f \notin owed /\ \A w \in writing[User] : w.id > i

ForgetPart ==
  \A p \in Process : doing[p] = "forget" => \A i \in names[p] :
    /\ entries[i] # Blank
    /\ Stored(i) => \A f \in Facts(i) \ dropped : Younger(i, f) \/ Disowned(i, f)

\* What a recall has been asked for it has read, will read, or will fail to.
RecallPart ==
  \A p \in Process :
    /\ doing[p] = "recalled" => names[p] = {}
    /\ doing[p] \in {"recall", "recalled"} => \A f \in query[p] \ dropped :
         \/ \E x \in found[p] : f \in x.entry.facts
         \/ \E i \in names[p] : entries[i] = Absent \/ (Stored(i) /\ f \in Facts(i))

MemInv == MemShape /\ UsedPart /\ WritePart /\ ForgetPart /\ RecallPart /\ NothingLost

LEMMA EntryKinds ==
  ASSUME MemShape
  PROVE  /\ \A i \in Id : Stored(i) => entries[i].entry \in Texts /\ entries[i] = Whole(entries[i].entry)
                                       /\ Facts(i) \in SUBSET Fact
         /\ \A i \in Id : ~ Stored(i) => entries[i] \in {Absent, Blank}
         /\ \A i \in Id : entries[i] = Blank => ~ Stored(i)
         /\ \A i \in Id : entries[i] = Absent => ~ Stored(i)
         /\ \A e \in Texts : Whole(e) # Absent /\ Whole(e) # Blank
                             /\ Whole(e).is = "whole" /\ Whole(e).entry = e /\ e.facts \in SUBSET Fact
<1> USE DEF Whole, Absent, Blank, Stored
<1>1. \A e \in Texts : Whole(e) # Absent /\ Whole(e) # Blank
                       /\ Whole(e).is = "whole" /\ Whole(e).entry = e
  OBVIOUS
<1>2. \A e \in Texts : e.facts \in SUBSET Fact
  BY MemoryBounds
<1>3. ASSUME NEW i \in Id
      PROVE  /\ Stored(i) => entries[i].entry \in Texts /\ entries[i] = Whole(entries[i].entry)
             /\ ~ Stored(i) => entries[i] \in {Absent, Blank}
             /\ entries[i] = Blank => ~ Stored(i)
             /\ entries[i] = Absent => ~ Stored(i)
  <2>1. entries[i] \in {Absent, Blank} \/ \E e \in Texts : entries[i] = Whole(e)
    BY DEF MemShape
  <2>2. CASE entries[i] \in {Absent, Blank}
    BY <1>1, <2>2
  <2>3. CASE \E e \in Texts : entries[i] = Whole(e)
    <3> HIDE DEF Whole, Absent, Blank
    <3>1. PICK e \in Texts : entries[i] = Whole(e)
      BY <2>3
    <3>2. QED
      BY <1>1, <3>1
  <2>4. QED
    BY <2>1, <2>2, <2>3
<1>4. QED
  BY <1>1, <1>2, <1>3 DEF Facts

LEMMA IdIsNat == Id \subseteq Nat /\ MaxEntries \in Nat
  BY MemoryBounds DEF Id

LEMMA UserIsNoProcess == User \notin Process /\ User \in Writers /\ Process \subseteq Writers
  BY MemoryBounds DEF User, Process, Writers

LEMMA MemInitInv == MemInit => MemInv
<1> SUFFICES ASSUME MemInit PROVE MemInv
  OBVIOUS
<1> USE DEF MemInit
<1>1. MemShape
  BY MemoryBounds DEF MemShape, Process, Writers
<1>2. UsedPart /\ WritePart
  BY DEF UsedPart, WritePart, Process, Writers
<1>3. ForgetPart /\ RecallPart
  BY UserIsNoProcess DEF ForgetPart, RecallPart
<1>4. NothingLost
  BY DEF NothingLost
<1>5. QED
  BY <1>1, <1>2, <1>3, <1>4 DEF MemInv

\* NothingLost, fact by fact.
LEMMA LostFactByFact ==
  NothingLost <=> \A f \in owed \ dropped : \E i \in Id : Stored(i) /\ f \in Facts(i)
  BY DEF NothingLost, States, Facts

\* A step that leaves the entries and the accounts of what is owed alone.
LEMMA QuietStep ==
  ASSUME MemInv, UNCHANGED <<entries, used, writing, owed, dropped, deaths>>,
         doing' \in [Writers -> {"nothing", "recall", "recalled", "list", "merge", "write", "forget"}],
         NEW p \in Process, doing[p] # "write", doing'[p] \notin {"write", "forget"},
         \A q \in Writers \ {p} : doing'[q] = doing[q],
         names' \in [Process -> SUBSET Id], found' \in [Process -> SUBSET [id : Id, entry : Texts]],
         query' \in [Process -> SUBSET Fact],
         \A q \in Process \ {p} : names'[q] = names[q] /\ found'[q] = found[q] /\ query'[q] = query[q],
         \A i \in names'[p] : i <= used,
         \A x \in found'[p] : x.id <= used /\ entries[x.id] \in {Absent, Whole(x.entry)},
         /\ doing'[p] = "recalled" => names'[p] = {}
         /\ doing'[p] \in {"recall", "recalled"} => \A f \in query'[p] \ dropped :
              \/ \E x \in found'[p] : f \in x.entry.facts
              \/ \E i \in names'[p] : entries[i] = Absent \/ (Stored(i) /\ f \in Facts(i))
  PROVE  MemInv'
<1>1. MemShape'
  BY DEF MemInv, MemShape
<1>2. UsedPart'
  BY DEF MemInv, UsedPart
<1>3. p \in Writers /\ \A w \in writing[p] : FALSE
  BY UserIsNoProcess DEF MemInv, WritePart
<1>4. WritePart'
  <2>1. \A q \in Writers : \A w \in writing[q] : doing'[q] = "write"
    BY <1>3 DEF MemInv, WritePart
  <2>2. \A q \in Process : \A w \in writing[q] : \A i \in names'[q] :
          i < w.id /\ entries[i] # Blank /\ (Stored(i) => Facts(i) \subseteq w.entry.facts \cup dropped)
    BY <1>3 DEF MemInv, WritePart
  <2>3. QED
    BY <2>1, <2>2 DEF MemInv, WritePart, Stored, Facts
<1>5. ForgetPart'
  <2>1. \A q \in Process : doing'[q] = "forget" => doing[q] = "forget" /\ names'[q] = names[q]
    BY UserIsNoProcess
  <2>2. QED
    BY <2>1 DEF MemInv, ForgetPart, Stored, Facts, Younger, Disowned
<1>6. RecallPart'
  <2> SUFFICES ASSUME NEW q \in Process
               PROVE  /\ doing'[q] = "recalled" => names'[q] = {}
                      /\ doing'[q] \in {"recall", "recalled"} => \A f \in query'[q] \ dropped :
                           \/ \E x \in found'[q] : f \in x.entry.facts
                           \/ \E i \in names'[q] : entries[i] = Absent \/ (Stored(i) /\ f \in Facts(i))
    BY DEF RecallPart, Stored, Facts
  <2>1. CASE q = p
    BY <2>1
  <2>2. CASE q # p
    BY <2>2, UserIsNoProcess DEF MemInv, RecallPart
  <2>3. QED
    BY <2>1, <2>2
<1>7. NothingLost'
  BY DEF MemInv, NothingLost, Stored
<1>8. QED
  BY <1>1, <1>2, <1>4, <1>5, <1>6, <1>7 DEF MemInv

LEMMA AddMemoryInv ==
  ASSUME MemInv, NEW text \in Texts, AddMemory(text)
  PROVE  MemInv'
<1> USE DEF AddMemory, Creates
<1>0. PICK n \in Id : n = used + 1
  BY MemoryBounds DEF MemInv, MemShape, Id
<1> DEFINE w == [id |-> n, entry |-> text]
<1>1. /\ n \in Id /\ n = used' /\ n > used /\ used \in Nat /\ used' \in 0 .. MaxEntries
      /\ User \in Writers /\ User \notin Process /\ Process \subseteq Writers
  BY <1>0, MemoryBounds, UserIsNoProcess DEF MemInv, MemShape
<1>2. /\ entries[n] = Absent
      /\ \A i \in Id : entries'[i] = IF i = n THEN Blank ELSE entries[i]
      /\ entries' \in [Id -> {Absent, Blank} \cup {Whole(e) : e \in Texts}]
  BY <1>1 DEF MemInv, MemShape, UsedPart
<1>3. /\ \A p \in Writers : writing'[p] = IF p = User THEN {w} ELSE writing[p]
      /\ writing' \in [Writers -> SUBSET [id : Id, entry : Texts]]
      /\ \A p \in Writers : doing'[p] = IF p = User THEN "write" ELSE doing[p]
      /\ doing' \in [Writers -> {"nothing", "recall", "recalled", "list", "merge", "write", "forget"}]
  BY <1>0, <1>1 DEF MemInv, MemShape
<1>4. MemShape'
  BY <1>1, <1>2, <1>3 DEF MemInv, MemShape
<1>5. /\ \A i \in Id : i # n => (Stored(i)' <=> Stored(i)) /\ Facts(i)' = Facts(i)
      /\ ~ Stored(n) /\ ~ Stored(n)'
  <2>1. ~ Stored(n)
    BY <1>1, <1>2, EntryKinds DEF MemInv
  <2>2. ~ Stored(n)'
    BY <1>1, <1>2 DEF Stored, Blank
  <2>3. QED
    BY <1>2, <2>1, <2>2 DEF Stored, Facts
<1>6. \A i \in Id : i <= used => i # n
  BY <1>1, IdIsNat
<1>7. UsedPart'
  <2>1. \A i \in Id : i > used' => i > used /\ i # n
    BY <1>1, IdIsNat
  <2>2. \A i \in Id : i <= used => i <= used'
    BY <1>1, IdIsNat
  <2>3. \A p \in Process : \A x \in found[p] : x.id \in Id
    BY DEF MemInv, MemShape
  <2>4. \A p \in Process : \A i \in names[p] : i \in Id
    BY DEF MemInv, MemShape
  <2>5. QED
    BY <1>2, <1>6, <2>1, <2>2, <2>3, <2>4 DEF MemInv, UsedPart
<1>8. \A p \in Writers : \A v \in writing[p] : v.id \in Id /\ v.id <= used /\ v.id # n
  BY <1>6 DEF MemInv, MemShape, WritePart
<1>9. \A p \in Process : \A i \in names[p] : i \in Id /\ i <= used /\ i # n /\ i < n
  BY <1>1, <1>6, IdIsNat DEF MemInv, MemShape, UsedPart
<1>10. \A p \in Writers : \A v \in writing'[p] : v = w \/ (p # User /\ v \in writing[p])
  BY <1>3
<1>11. WritePart'
  <2>1. \A p \in Writers : \A v \in writing'[p] : doing'[p] = "write" /\ v.id <= used' /\ entries'[v.id] = Blank
    <3> SUFFICES ASSUME NEW p \in Writers, NEW v \in writing'[p]
                 PROVE  doing'[p] = "write" /\ v.id <= used' /\ entries'[v.id] = Blank
      OBVIOUS
    <3>1. CASE p = User
      BY <1>1, <1>2, <1>3, <3>1
    <3>2. CASE p # User
      <4>1. v \in writing[p] /\ v.id \in Id /\ v.id <= used /\ v.id # n
        BY <1>3, <1>8, <3>2
      <4>2. doing[p] = "write" /\ entries[v.id] = Blank
        BY <4>1 DEF MemInv, WritePart
      <4>3. v.id <= used'
        <5>1. v.id \in Nat /\ n \in Nat /\ used \in Nat /\ v.id <= used /\ n > used /\ used' = n
          BY <1>1, <4>1, IdIsNat
        <5>2. QED
          BY ONLY <5>1
      <4>4. QED
        BY <1>2, <1>3, <3>2, <4>1, <4>2, <4>3
    <3>3. QED
      BY <3>1, <3>2
  <2>2. \A p \in Writers : \A v, x \in writing'[p] : v = x
    BY <1>3 DEF MemInv, WritePart
  <2>3. \A p, q \in Writers : p # q => \A v \in writing'[p], x \in writing'[q] : v.id # x.id
    BY <1>3, <1>8 DEF MemInv, WritePart
  <2>4. \A p \in Process : \A v \in writing'[p] : \A i \in names'[p] :
          i < v.id /\ entries'[i] # Blank /\ (Stored(i)' => Facts(i)' \subseteq v.entry.facts \cup dropped')
    <3> SUFFICES ASSUME NEW p \in Process, NEW v \in writing'[p], NEW i \in names'[p]
                 PROVE  i < v.id /\ entries'[i] # Blank
                        /\ (Stored(i)' => Facts(i)' \subseteq v.entry.facts \cup dropped')
      OBVIOUS
    <3>1. v \in writing[p] /\ i \in names[p] /\ i \in Id /\ i # n /\ dropped' = dropped
      BY <1>1, <1>3, <1>9
    <3>2. QED
      BY <1>2, <1>5, <3>1 DEF MemInv, WritePart
  <2>5. QED
    BY <2>1, <2>2, <2>3, <2>4 DEF WritePart
<1>12. \A i \in Id, f \in Fact : i <= used => (Younger(i, f) => Younger(i, f)') /\ (Disowned(i, f) => Disowned(i, f)')
  <2> SUFFICES ASSUME NEW i \in Id, NEW f \in Fact, i <= used
               PROVE  (Younger(i, f) => Younger(i, f)') /\ (Disowned(i, f) => Disowned(i, f)')
    OBVIOUS
  <2>1. Younger(i, f) => Younger(i, f)'
    BY <1>5 DEF Younger
  <2>2. Disowned(i, f) => Disowned(i, f)'
    BY <1>1, <1>3, IdIsNat DEF Disowned
  <2>3. QED
    BY <2>1, <2>2
<1>13. ForgetPart'
  <2> SUFFICES ASSUME NEW p \in Process, doing'[p] = "forget", NEW i \in names'[p]
               PROVE  /\ entries'[i] # Blank
                      /\ Stored(i)' => \A f \in Facts(i)' \ dropped' : Younger(i, f)' \/ Disowned(i, f)'
    BY DEF ForgetPart
  <2>1. doing[p] = "forget" /\ i \in names[p] /\ i \in Id /\ i <= used /\ i # n /\ dropped' = dropped
    BY <1>1, <1>3, <1>9
  <2>2. Stored(i) => Facts(i) \subseteq Fact
    BY <2>1, EntryKinds DEF MemInv
  <2>3. QED
    BY <1>2, <1>5, <1>12, <2>1, <2>2 DEF MemInv, ForgetPart
<1>14. RecallPart'
  <2> SUFFICES ASSUME NEW p \in Process
               PROVE  /\ doing'[p] = "recalled" => names'[p] = {}
                      /\ doing'[p] \in {"recall", "recalled"} => \A f \in query'[p] \ dropped' :
                           \/ \E x \in found'[p] : f \in x.entry.facts
                           \/ \E i \in names'[p] : entries'[i] = Absent \/ (Stored(i)' /\ f \in Facts(i)')
    BY DEF RecallPart
  <2>1. doing'[p] = doing[p] /\ UNCHANGED <<names, found, query, dropped>>
    BY <1>1, <1>3
  <2>2. \A i \in names[p] : entries'[i] = entries[i] /\ (Stored(i)' <=> Stored(i)) /\ Facts(i)' = Facts(i)
    BY <1>2, <1>5, <1>9
  <2>3. QED
    BY <2>1, <2>2 DEF MemInv, RecallPart
<1>15. NothingLost'
  <2>1. \A f \in owed \ dropped : \E i \in Id : Stored(i)' /\ f \in Facts(i)'
    BY <1>5, LostFactByFact DEF MemInv
  <2>2. QED
    BY <2>1 DEF NothingLost, States, Facts
<1>16. QED
  BY <1>4, <1>7, <1>11, <1>13, <1>14, <1>15 DEF MemInv

\* The user's forgetting takes its facts out of what is owed and asked for.
LEMMA ForgetMemoryInv ==
  ASSUME MemInv, NEW i \in Id, ForgetMemory(i)
  PROVE  MemInv'
<1> USE DEF ForgetMemory
<1>1. Stored(i) /\ Facts(i) \subseteq Fact /\ entries[i] # Blank
  BY EntryKinds DEF MemInv
<1>2. /\ \A j \in Id : entries'[j] = IF j = i THEN Absent ELSE entries[j]
      /\ entries' \in [Id -> {Absent, Blank} \cup {Whole(e) : e \in Texts}]
      /\ ~ Stored(i)'
      /\ \A j \in Id : j # i => (Stored(j)' <=> Stored(j)) /\ Facts(j)' = Facts(j)
  BY DEF MemInv, MemShape, Stored, Facts, Absent
<1>3. /\ owed' = owed \ Facts(i) /\ \A p \in Process : query'[p] = query[p] \ Facts(i)
      /\ UNCHANGED <<used, doing, names, found, writing, dropped, deaths>>
  BY DEF Facts
<1>4. MemShape'
  BY <1>2, <1>3 DEF MemInv, MemShape
<1>5. \A x \in writing[User] : FALSE
  BY UserIsNoProcess DEF MemInv, WritePart
<1>6. UsedPart'
  <2>1. \A p \in Process : \A x \in found[p] : x.id \in Id
    BY DEF MemInv, MemShape
  <2>2. QED
    BY <1>2, <1>3, <2>1 DEF MemInv, UsedPart
<1>7. /\ \A p \in Writers : \A w \in writing[p] : w.id \in Id /\ w.id # i
      /\ \A p \in Process : names[p] \subseteq Id
  BY <1>1 DEF MemInv, MemShape, WritePart
<1>8. WritePart'
  <2>1. \A p \in Writers : \A w \in writing[p] : entries'[w.id] = entries[w.id]
    BY <1>2, <1>7
  <2>2. \A p \in Process : \A j \in names[p] : j \in Id /\ (entries[j] # Blank => entries'[j] # Blank)
                                               /\ (Stored(j)' => Stored(j) /\ Facts(j)' = Facts(j))
    BY <1>2, <1>7 DEF Absent, Blank
  <2>3. QED
    BY <1>3, <2>1, <2>2 DEF MemInv, WritePart
<1>9. ForgetPart'
  <2> SUFFICES ASSUME NEW p \in Process, doing[p] = "forget", NEW j \in names[p]
               PROVE  /\ entries'[j] # Blank
                      /\ Stored(j)' => \A f \in Facts(j)' \ dropped : Younger(j, f)' \/ Disowned(j, f)'
    BY <1>3 DEF ForgetPart
  <2>1. j \in Id /\ entries'[j] # Blank /\ (Stored(j)' => j # i /\ Stored(j) /\ Facts(j)' = Facts(j))
    BY <1>2, <1>7 DEF MemInv, ForgetPart, Absent, Blank
  <2>2. ASSUME Stored(j)', NEW f \in Facts(j)' \ dropped
        PROVE  Younger(j, f)' \/ Disowned(j, f)'
    <3>1. Younger(j, f) \/ Disowned(j, f)
      BY <2>1, <2>2 DEF MemInv, ForgetPart
    <3>2. CASE f \in Facts(i)
      BY <1>3, <1>5, <3>2 DEF Disowned
    <3>3. CASE f \notin Facts(i)
      BY <1>2, <1>3, <3>1, <3>3 DEF Younger, Disowned
    <3>4. QED
      BY <3>2, <3>3
  <2>3. QED
    BY <2>1, <2>2
<1>10. RecallPart'
  <2>1. \A p \in Process : \A j \in names[p] :
          (entries[j] = Absent => entries'[j] = Absent)
          /\ (j = i => entries'[j] = Absent) /\ (j # i => (Stored(j)' <=> Stored(j)) /\ Facts(j)' = Facts(j))
    BY <1>2, <1>7
  <2>2. QED
    BY <1>3, <2>1 DEF MemInv, RecallPart
<1>11. NothingLost'
  <2>1. \A f \in owed' \ dropped : \E j \in Id : Stored(j)' /\ f \in Facts(j)'
    BY <1>2, <1>3, LostFactByFact DEF MemInv
  <2>2. QED
    BY <1>3, <2>1 DEF NothingLost, States, Facts
<1>12. QED
  BY <1>4, <1>6, <1>8, <1>9, <1>10, <1>11 DEF MemInv

\* A consolidation removes an entry: what it says is in a younger one.
LEMMA ForgetMergedInv ==
  ASSUME MemInv, NEW p \in Process, NEW i \in Id, doing[p] = "forget", i \in names[p], Stored(i),
         entries' = [entries EXCEPT ![i] = Absent],
         names' = [names EXCEPT ![p] = @ \ {i}],
         doing' = [doing EXCEPT ![p] = IF names'[p] = {} THEN "merge" ELSE @],
         UNCHANGED <<used, found, writing, query, owed, dropped, deaths>>
  PROVE  MemInv'
<1>1. Facts(i) \subseteq Fact /\ entries[i] # Blank /\ p \in Writers
  BY EntryKinds, UserIsNoProcess DEF MemInv
<1>2. /\ \A j \in Id : entries'[j] = IF j = i THEN Absent ELSE entries[j]
      /\ entries' \in [Id -> {Absent, Blank} \cup {Whole(e) : e \in Texts}]
      /\ ~ Stored(i)'
      /\ \A j \in Id : j # i => (Stored(j)' <=> Stored(j)) /\ Facts(j)' = Facts(j)
  BY DEF MemInv, MemShape, Stored, Facts, Absent
<1>3. /\ \A q \in Process : names'[q] \subseteq names[q] /\ (q # p => names'[q] = names[q])
      /\ names' \in [Process -> SUBSET Id]
      /\ \A q \in Writers : doing'[q] = doing[q] \/ (q = p /\ doing'[q] = "merge")
      /\ doing' \in [Writers -> {"nothing", "recall", "recalled", "list", "merge", "write", "forget"}]
  BY <1>1 DEF MemInv, MemShape
<1>4. MemShape'
  BY <1>2, <1>3 DEF MemInv, MemShape
<1>5. /\ \A q \in Writers : \A w \in writing[q] : w.id \in Id /\ w.id # i /\ q # p
      /\ \A q \in Process : names[q] \subseteq Id
  BY <1>1 DEF MemInv, MemShape, WritePart
<1>6. UsedPart'
  <2>1. \A q \in Process : \A x \in found[q] : x.id \in Id
    BY DEF MemInv, MemShape
  <2>2. QED
    BY <1>2, <1>3, <2>1 DEF MemInv, UsedPart
<1>7. WritePart'
  <2>1. \A q \in Writers : \A w \in writing[q] : entries'[w.id] = entries[w.id] /\ doing'[q] = doing[q]
    BY <1>2, <1>3, <1>5
  <2>2. \A q \in Process : \A j \in names[q] : j \in Id /\ (entries[j] # Blank => entries'[j] # Blank)
                                               /\ (Stored(j)' => Stored(j) /\ Facts(j)' = Facts(j))
    BY <1>2, <1>5 DEF Absent, Blank
  <2>3. QED
    BY <1>3, <2>1, <2>2 DEF MemInv, WritePart
<1>8. \A j \in Id, f \in Fact : j # i /\ (Younger(j, f) \/ Disowned(j, f)) /\ f \notin dropped
                                 => Younger(j, f)' \/ Disowned(j, f)'
  <2> SUFFICES ASSUME NEW j \in Id, NEW f \in Fact, j # i, Younger(j, f) \/ Disowned(j, f), f \notin dropped
               PROVE  Younger(j, f)' \/ Disowned(j, f)'
    OBVIOUS
  <2>1. CASE Disowned(j, f)
    BY <2>1 DEF Disowned
  <2>2. CASE Younger(j, f)
    <3>1. PICK k \in Id : Stored(k) /\ k > j /\ f \in Facts(k)
      BY <2>2 DEF Younger
    <3>2. CASE k # i
      BY <1>2, <3>1, <3>2 DEF Younger
    <3>3. CASE k = i
      <4>1. Younger(i, f) \/ Disowned(i, f)
        BY <3>1, <3>3 DEF MemInv, ForgetPart
      <4>2. CASE Younger(i, f)
        BY <1>2, <3>1, <3>3, <4>2, IdIsNat DEF Younger
      <4>3. CASE Disowned(i, f)
        <5>1. \A w \in writing[User] : w.id \in Id
          BY <1>5, UserIsNoProcess
        <5>2. QED
          BY <3>1, <3>3, <4>3, <5>1, IdIsNat DEF Disowned
      <4>4. QED
        BY <4>1, <4>2, <4>3
    <3>4. QED
      BY <3>2, <3>3
  <2>3. QED
    BY <2>1, <2>2
<1>9. ForgetPart'
  <2> SUFFICES ASSUME NEW q \in Process, doing'[q] = "forget", NEW j \in names'[q]
               PROVE  /\ entries'[j] # Blank
                      /\ Stored(j)' => \A f \in Facts(j)' \ dropped : Younger(j, f)' \/ Disowned(j, f)'
    BY DEF ForgetPart
  <2>1. doing[q] = "forget" /\ j \in names[q] /\ j \in Id
    BY <1>3, <1>5, UserIsNoProcess
  <2>2. entries'[j] # Blank /\ (Stored(j)' => j # i /\ Stored(j) /\ Facts(j)' = Facts(j))
    BY <1>2, <2>1 DEF MemInv, ForgetPart, Absent, Blank
  <2>3. Stored(j) => Facts(j) \subseteq Fact
    BY <2>1, EntryKinds DEF MemInv
  <2>4. QED
    BY <1>8, <2>1, <2>2, <2>3 DEF MemInv, ForgetPart
<1>10. RecallPart'
  <2>1. \A q \in Process : \A j \in names[q] :
          /\ entries[j] = Absent => entries'[j] = Absent
          /\ j = i => entries'[j] = Absent
          /\ j # i => (Stored(j)' <=> Stored(j)) /\ Facts(j)' = Facts(j)
    BY <1>2, <1>5
  <2>2. doing'[p] \notin {"recall", "recalled"}
    BY <1>1, <1>3
  <2>3. \A q \in Process \ {p} : doing'[q] = doing[q] /\ names'[q] = names[q]
    BY <1>3, UserIsNoProcess
  <2>4. QED
    BY <2>1, <2>2, <2>3 DEF MemInv, RecallPart
<1>11. NothingLost'
  <2>1. ASSUME NEW f \in owed \ dropped
        PROVE  \E j \in Id : Stored(j)' /\ f \in Facts(j)'
    <3>1. PICK k \in Id : Stored(k) /\ f \in Facts(k)
      BY LostFactByFact DEF MemInv
    <3>2. CASE k # i
      BY <1>2, <3>1, <3>2
    <3>3. CASE k = i
      <4>1. Younger(i, f)
        BY <3>1, <3>3 DEF MemInv, ForgetPart, Disowned
      <4>2. QED
        BY <1>2, <4>1, IdIsNat DEF Younger
    <3>4. QED
      BY <3>2, <3>3
  <2>2. QED
    BY <2>1 DEF NothingLost, States, Facts
<1>12. QED
  BY <1>4, <1>6, <1>7, <1>9, <1>10, <1>11 DEF MemInv

\* An add of the user is owed from here.
LEMMA UserFillsInv ==
  ASSUME MemInv, Fills(User)
  PROVE  MemInv'
<1> USE DEF Fills
<1>1. PICK w \in writing[User] : /\ entries' = [entries EXCEPT ![w.id] = Whole(w.entry)]
                                 /\ owed' = owed \cup w.entry.facts
  OBVIOUS
<1>2. /\ w.id \in Id /\ w.entry \in Texts /\ entries[w.id] = Blank /\ w.id <= used
      /\ User \in Writers /\ User \notin Process /\ w.entry.facts \in SUBSET Fact
  BY UserIsNoProcess, MemoryBounds DEF MemInv, MemShape, WritePart
<1>3. /\ \A j \in Id : entries'[j] = IF j = w.id THEN Whole(w.entry) ELSE entries[j]
      /\ entries' \in [Id -> {Absent, Blank} \cup {Whole(e) : e \in Texts}]
      /\ Stored(w.id)' /\ Facts(w.id)' = w.entry.facts /\ ~ Stored(w.id)
      /\ \A j \in Id : j # w.id => (Stored(j)' <=> Stored(j)) /\ Facts(j)' = Facts(j)
  <2>1. /\ \A j \in Id : entries'[j] = IF j = w.id THEN Whole(w.entry) ELSE entries[j]
        /\ entries' \in [Id -> {Absent, Blank} \cup {Whole(e) : e \in Texts}]
    BY <1>1, <1>2 DEF MemInv, MemShape
  <2>2. ~ Stored(w.id) /\ Whole(w.entry).is = "whole" /\ Whole(w.entry).entry = w.entry
    BY <1>2, EntryKinds DEF MemInv
  <2>3. QED
    BY <1>2, <2>1, <2>2 DEF Stored, Facts
<1>4. /\ \A p \in Writers : writing'[p] = IF p = User THEN {} ELSE writing[p]
      /\ writing' \in [Writers -> SUBSET [id : Id, entry : Texts]]
      /\ \A p \in Writers : doing'[p] = IF p = User THEN "nothing" ELSE doing[p]
      /\ doing' \in [Writers -> {"nothing", "recall", "recalled", "list", "merge", "write", "forget"}]
  BY <1>2 DEF MemInv, MemShape
<1>5. MemShape'
  BY <1>1, <1>2, <1>3, <1>4 DEF MemInv, MemShape
<1>6. /\ \A p \in Process : \A x \in found[p] : x.id \in Id /\ x.entry \in Texts /\ x.id # w.id
      /\ \A p \in Process : names[p] \subseteq Id
      /\ \A p \in Process : \A v \in writing[p] : v.id \in Id /\ v.id # w.id
  <2>1. \A e \in Texts : Whole(e) # Blank
    BY EntryKinds DEF MemInv
  <2>2. Blank # Absent
    BY DEF Blank, Absent
  <2>3. \A p \in Process : \A x \in found[p] : x.id \in Id /\ x.entry \in Texts
                                              /\ entries[x.id] \in {Absent, Whole(x.entry)}
    BY DEF MemInv, MemShape, UsedPart
  <2>4. \A p \in Process : \A x \in found[p] : x.id # w.id
    BY <1>2, <2>1, <2>2, <2>3
  <2>5. \A p \in Process : \A v \in writing[p] : v.id \in Id /\ v.id # w.id
    BY <1>2, UserIsNoProcess DEF MemInv, MemShape, WritePart
  <2>6. QED
    BY <2>3, <2>4, <2>5 DEF MemInv, MemShape
<1>7. UsedPart'
  <2>1. \A i \in Id : i > used => i # w.id
    BY <1>2, IdIsNat DEF MemInv, MemShape
  <2>2. QED
    BY <1>3, <1>6, <2>1 DEF MemInv, UsedPart
<1>8. \A p \in Process : \A i \in names[p] :
        /\ i \in Id
        /\ entries[i] # Blank => /\ entries'[i] = entries[i] /\ i # w.id
                                 /\ Stored(i)' <=> Stored(i)
                                 /\ Facts(i)' = Facts(i)
  BY <1>2, <1>3, <1>6
<1>9. WritePart'
  <2>1. \A p \in Process : \A v \in writing[p] : entries'[v.id] = entries[v.id] /\ doing'[p] = doing[p]
    BY <1>2, <1>3, <1>4, <1>6, UserIsNoProcess
  <2>2. \A p \in Writers : \A v \in writing'[p] : p \in Process /\ v \in writing[p]
    BY <1>4 DEF Writers
  <2>3. QED
    BY <1>8, <2>1, <2>2, UserIsNoProcess DEF MemInv, WritePart
<1>10. ForgetPart'
  <2> SUFFICES ASSUME NEW p \in Process, doing'[p] = "forget", NEW i \in names[p]
               PROVE  /\ entries'[i] # Blank
                      /\ Stored(i)' => \A f \in Facts(i)' \ dropped : Younger(i, f)' \/ Disowned(i, f)'
    BY DEF ForgetPart
  <2>1. /\ doing[p] = "forget" /\ entries[i] # Blank /\ entries'[i] = entries[i] /\ i \in Id /\ i # w.id
        /\ Stored(i)' <=> Stored(i)
        /\ Facts(i)' = Facts(i)
    BY <1>4, <1>8, UserIsNoProcess DEF MemInv, ForgetPart
  <2>2. ASSUME Stored(i), NEW f \in Facts(i) \ dropped
        PROVE  Younger(i, f)' \/ Disowned(i, f)'
    <3>1. Younger(i, f) \/ Disowned(i, f)
      BY <2>1, <2>2 DEF MemInv, ForgetPart
    <3>2. CASE Younger(i, f)
      BY <1>3, <3>2 DEF Younger
    <3>3. CASE Disowned(i, f)
      <4>1. f \notin owed /\ w.id > i
        BY <3>3 DEF Disowned
      <4>2. CASE f \in w.entry.facts
        BY <1>2, <1>3, <4>1, <4>2 DEF Younger
      <4>3. CASE f \notin w.entry.facts
        BY <1>1, <1>2, <1>4, <4>1, <4>3 DEF Disowned
      <4>4. QED
        BY <4>2, <4>3
    <3>4. QED
      BY <3>1, <3>2, <3>3
  <2>3. QED
    BY <2>1, <2>2
<1>11. RecallPart'
  <2>1. \A p \in Process : \A i \in names[p] :
          /\ entries[i] = Absent => entries'[i] = Absent
          /\ Stored(i) => Stored(i)' /\ Facts(i)' = Facts(i)
    BY <1>2, <1>3, <1>6 DEF Absent, Blank
  <2>2. \A p \in Process : doing'[p] = doing[p]
    BY <1>2, <1>4, UserIsNoProcess
  <2>3. QED
    BY <2>1, <2>2 DEF MemInv, RecallPart
<1>12. NothingLost'
  <2>1. \A f \in owed' \ dropped : \E j \in Id : Stored(j)' /\ f \in Facts(j)'
    BY <1>1, <1>2, <1>3, LostFactByFact DEF MemInv
  <2>2. QED
    BY <2>1 DEF NothingLost, States, Facts
<1>13. QED
  BY <1>5, <1>7, <1>9, <1>10, <1>11, <1>12 DEF MemInv

\* A merge is on disk before what it replaces goes.
LEMMA MergeFillsInv ==
  ASSUME MemInv, NEW p \in Process, Fills(p)
  PROVE  MemInv'
<1> USE DEF Fills
<1>0. p \in Writers /\ p # User
  BY UserIsNoProcess
<1>1. PICK w \in writing[p] : entries' = [entries EXCEPT ![w.id] = Whole(w.entry)]
  OBVIOUS
<1>2. /\ w.id \in Id /\ w.entry \in Texts /\ entries[w.id] = Blank /\ w.id <= used
      /\ w.entry.facts \in SUBSET Fact /\ owed' = owed
  BY <1>0, MemoryBounds DEF MemInv, MemShape, WritePart
<1>3. /\ \A j \in Id : entries'[j] = IF j = w.id THEN Whole(w.entry) ELSE entries[j]
      /\ entries' \in [Id -> {Absent, Blank} \cup {Whole(e) : e \in Texts}]
      /\ Stored(w.id)' /\ Facts(w.id)' = w.entry.facts /\ ~ Stored(w.id)
      /\ \A j \in Id : j # w.id => (Stored(j)' <=> Stored(j)) /\ Facts(j)' = Facts(j)
  <2>1. /\ \A j \in Id : entries'[j] = IF j = w.id THEN Whole(w.entry) ELSE entries[j]
        /\ entries' \in [Id -> {Absent, Blank} \cup {Whole(e) : e \in Texts}]
    BY <1>1, <1>2 DEF MemInv, MemShape
  <2>2. ~ Stored(w.id) /\ Whole(w.entry).is = "whole" /\ Whole(w.entry).entry = w.entry
    BY <1>2, EntryKinds DEF MemInv
  <2>3. QED
    BY <1>2, <2>1, <2>2 DEF Stored, Facts
<1>4. /\ \A q \in Writers : writing'[q] = IF q = p THEN {} ELSE writing[q]
      /\ writing' \in [Writers -> SUBSET [id : Id, entry : Texts]]
      /\ \A q \in Writers : doing'[q] = IF q = p THEN "forget" ELSE doing[q]
      /\ doing' \in [Writers -> {"nothing", "recall", "recalled", "list", "merge", "write", "forget"}]
  BY <1>0 DEF MemInv, MemShape
<1>5. MemShape'
  BY <1>2, <1>3, <1>4 DEF MemInv, MemShape
<1>6. /\ \A q \in Process : \A x \in found[q] : x.id \in Id /\ x.entry \in Texts /\ x.id # w.id
      /\ \A q \in Process : names[q] \subseteq Id
      /\ \A q \in Writers : \A v \in writing'[q] : q # p /\ v \in writing[q] /\ v.id \in Id /\ v.id # w.id
  <2>1. \A e \in Texts : Whole(e) # Blank
    BY EntryKinds DEF MemInv
  <2>2. Blank # Absent
    BY DEF Blank, Absent
  <2>3. \A q \in Process : \A x \in found[q] : x.id \in Id /\ x.entry \in Texts
                                              /\ entries[x.id] \in {Absent, Whole(x.entry)}
    BY DEF MemInv, MemShape, UsedPart
  <2>4. \A q \in Process : \A x \in found[q] : x.id # w.id
    BY <1>2, <2>1, <2>2, <2>3
  <2>5. \A q \in Writers : \A v \in writing'[q] : q # p /\ v \in writing[q] /\ v.id \in Id /\ v.id # w.id
    BY <1>0, <1>4 DEF MemInv, MemShape, WritePart
  <2>6. QED
    BY <2>3, <2>4, <2>5 DEF MemInv, MemShape
<1>7. UsedPart'
  <2>1. \A i \in Id : i > used => i # w.id
    BY <1>2, IdIsNat DEF MemInv, MemShape
  <2>2. QED
    BY <1>3, <1>6, <2>1 DEF MemInv, UsedPart
<1>8. \A q \in Process : \A i \in names[q] :
        /\ i \in Id
        /\ entries[i] # Blank => /\ entries'[i] = entries[i] /\ i # w.id
                                 /\ Stored(i)' <=> Stored(i)
                                 /\ Facts(i)' = Facts(i)
  BY <1>2, <1>3, <1>6
<1>9. WritePart'
  <2>1. \A q \in Writers : \A v \in writing'[q] : entries'[v.id] = entries[v.id] /\ doing'[q] = doing[q]
    BY <1>3, <1>4, <1>6
  <2>2. \A q \in Writers : writing'[q] \subseteq writing[q]
    BY <1>4
  <2>3. QED
    BY <1>6, <1>8, <2>1, <2>2, UserIsNoProcess DEF MemInv, WritePart
<1>10. ForgetPart'
  <2> SUFFICES ASSUME NEW q \in Process, doing'[q] = "forget", NEW i \in names[q]
               PROVE  /\ entries'[i] # Blank
                      /\ Stored(i)' => \A f \in Facts(i)' \ dropped : Younger(i, f)' \/ Disowned(i, f)'
    BY DEF ForgetPart
  <2>1. CASE q = p
    <3>1. /\ i < w.id /\ entries[i] # Blank
          /\ Stored(i) => Facts(i) \subseteq w.entry.facts \cup dropped
      BY <2>1 DEF MemInv, WritePart
    <3>2. /\ i \in Id /\ entries'[i] # Blank
          /\ Stored(i)' => \A f \in Facts(i)' \ dropped : f \in w.entry.facts
      BY <1>8, <3>1
    <3>3. w.id > i
      BY <1>2, <3>1, <3>2, IdIsNat
    <3>4. QED
      BY <1>2, <1>3, <3>2, <3>3 DEF Younger
  <2>2. CASE q # p
    <3>1. /\ doing[q] = "forget" /\ entries[i] # Blank /\ entries'[i] = entries[i] /\ i \in Id
          /\ Stored(i)' <=> Stored(i)
          /\ Facts(i)' = Facts(i)
      BY <1>4, <1>8, <2>2, UserIsNoProcess DEF MemInv, ForgetPart
    <3>2. ASSUME Stored(i), NEW f \in Facts(i) \ dropped
          PROVE  Younger(i, f)' \/ Disowned(i, f)'
      <4>1. Younger(i, f) \/ Disowned(i, f)
        BY <2>2, <3>1, <3>2 DEF MemInv, ForgetPart
      <4>2. Younger(i, f) => Younger(i, f)'
        BY <1>3 DEF Younger
      <4>3. writing'[User] = writing[User]
        BY <1>0, <1>4, UserIsNoProcess
      <4>4. QED
        BY <1>2, <4>1, <4>2, <4>3 DEF Disowned
    <3>3. QED
      BY <3>1, <3>2
  <2>3. QED
    BY <2>1, <2>2
<1>11. RecallPart'
  <2>1. \A q \in Process : \A i \in names[q] :
          /\ entries[i] = Absent => entries'[i] = Absent
          /\ Stored(i) => Stored(i)' /\ Facts(i)' = Facts(i)
    BY <1>2, <1>3, <1>6 DEF Absent, Blank
  <2>2. \A q \in Process : doing'[q] \in {"recall", "recalled"} => doing'[q] = doing[q]
    BY <1>4, UserIsNoProcess
  <2>3. QED
    BY <2>1, <2>2 DEF MemInv, RecallPart
<1>12. NothingLost'
  <2>1. \A f \in owed \ dropped : \E j \in Id : Stored(j)' /\ f \in Facts(j)'
    BY <1>3, LostFactByFact DEF MemInv
  <2>2. QED
    BY <1>2, <2>1 DEF NothingLost, States, Facts
<1>13. QED
  BY <1>5, <1>7, <1>9, <1>10, <1>11, <1>12 DEF MemInv

LEMMA TextLength ==
  ASSUME NEW e \in Texts
  PROVE  /\ e.facts \in SUBSET Fact /\ e.facts # {} /\ e.padded \in BOOLEAN
         /\ IsFiniteSet(e.facts) /\ Cardinality(e.facts) \in Nat /\ Cardinality(Fact) \in Nat
         /\ Cardinality(e.facts) > 0 /\ Cardinality(e.facts) <= Cardinality(Fact)
         /\ Length(e) = Cardinality(e.facts) + IF e.padded THEN Cardinality(Fact) ELSE 0
         /\ Length(e) \in Nat
<1>1. e.facts \in SUBSET Fact /\ e.facts # {} /\ e.padded \in BOOLEAN
  BY MemoryBounds
<1>2. /\ IsFiniteSet(e.facts) /\ Cardinality(e.facts) <= Cardinality(Fact)
      /\ Cardinality(Fact) \in Nat /\ Cardinality(e.facts) \in Nat
  BY <1>1, MemoryBounds, FS_Subset, FS_CardinalityType
<1>3. Cardinality(e.facts) # 0
  BY <1>1, <1>2, FS_EmptySet
<1>4. QED
  BY <1>1, <1>2, <1>3 DEF Length

LEMMA LongestArithmetic ==
  ASSUME NEW ce \in Nat, NEW cx \in Nat, NEW cy \in Nat, NEW n \in Nat, cx > 0, ce <= n,
         NEW lx, lx \in {cx, cx + n}, lx = ce, NEW ly, ly \in {cy, cy + n}, ly <= ce
  PROVE  ce = cx /\ cy <= cx
  OBVIOUS

\* The text of a merge has what every text of its cluster states, unless it is padded.
LEMMA MergeCovers ==
  ASSUME NEW xs \in SUBSET [id : Id, entry : Texts], NEW x \in Longest(xs),
         NEW cluster, cluster = {y \in xs : Overlap(x.entry, y.entry)},
         NEW e \in Merged(cluster), ~ e.padded, NEW y \in cluster
  PROVE  y.entry.facts \subseteq e.facts
<1>1. /\ x \in xs /\ x.entry \in Texts /\ \A z \in xs : Length(x.entry) >= Length(z.entry)
      /\ x \in cluster /\ y \in xs /\ y.entry \in Texts
  BY DEF Longest, Overlap
<1>2. PICK z \in cluster : /\ e = z.entry
                           /\ \A v \in cluster : Length(z.entry) >= Length(v.entry)
  BY DEF Merged, Longest
<1>3. z \in xs /\ e \in Texts
  BY <1>2
<1>4. Length(e) = Length(x.entry) /\ Length(y.entry) <= Length(x.entry)
  <2>1. Length(e) >= Length(x.entry) /\ Length(x.entry) >= Length(e)
    BY <1>1, <1>2, <1>3
  <2>2. Length(e) \in Nat /\ Length(x.entry) \in Nat /\ Length(y.entry) \in Nat
    BY <1>1, <1>3, TextLength
  <2>3. QED
    BY <1>1, <2>1, <2>2
<1> DEFINE ce == Cardinality(e.facts)
           cx == Cardinality(x.entry.facts)
           cy == Cardinality(y.entry.facts)
           n == Cardinality(Fact)
<1>5. /\ ce \in Nat /\ cx \in Nat /\ cy \in Nat /\ n \in Nat /\ cx > 0 /\ cy > 0 /\ ce <= n
      /\ Length(e) = ce
      /\ Length(x.entry) = cx + IF x.entry.padded THEN n ELSE 0
      /\ Length(y.entry) = cy + IF y.entry.padded THEN n ELSE 0
  <2>1. Length(e) = ce + 0 /\ ce \in Nat /\ ce <= n /\ n \in Nat
    BY <1>3, TextLength
  <2>2. Length(x.entry) = cx + (IF x.entry.padded THEN n ELSE 0) /\ cx \in Nat /\ cx > 0
    BY <1>1, TextLength
  <2>3. Length(y.entry) = cy + (IF y.entry.padded THEN n ELSE 0) /\ cy \in Nat /\ cy > 0
    BY <1>1, TextLength
  <2>4. QED
    BY <2>1, <2>2, <2>3
<1> HIDE DEF ce, cx, cy, n
<1>6. ce = cx /\ cy <= cx
  <2>1. Length(x.entry) \in {cx, cx + n} /\ Length(y.entry) \in {cy, cy + n}
    BY <1>5
  <2>2. Length(x.entry) = ce /\ Length(y.entry) <= ce
    BY <1>4, <1>5
  <2>3. QED
    BY <1>5, <2>1, <2>2, LongestArithmetic
<1>7. \A v \in cluster : Overlap(x.entry, v.entry)
  OBVIOUS
<1>8. \A v \in {z, y} : Cardinality(v.entry.facts) <= cx => v.entry.facts \subseteq x.entry.facts
  <2> SUFFICES ASSUME NEW v \in {z, y}, Cardinality(v.entry.facts) <= cx
               PROVE  v.entry.facts \subseteq x.entry.facts
    OBVIOUS
  <2>1. IsFiniteSet(v.entry.facts) /\ IsFiniteSet(x.entry.facts) /\ Cardinality(v.entry.facts) \in Nat
    BY <1>1, <1>2, <1>3, TextLength
  <2>2. CASE v.entry.facts \subseteq x.entry.facts
    BY <2>2
  <2>3. CASE x.entry.facts \subseteq v.entry.facts
    <3>1. cx <= Cardinality(v.entry.facts)
      BY <2>1, <2>3, FS_Subset DEF cx
    <3>2. cx = Cardinality(v.entry.facts)
      BY <1>5, <2>1, <3>1
    <3>3. x.entry.facts = v.entry.facts
      BY <2>1, <2>3, <3>2, FS_Subset DEF cx
    <3>4. QED
      BY <3>3
  <2>4. QED
    BY <1>7, <2>2, <2>3 DEF Overlap
<1>9. e.facts \subseteq x.entry.facts /\ y.entry.facts \subseteq x.entry.facts
  BY <1>2, <1>6, <1>8, <1>5 DEF ce, cy
<1>10. e.facts = x.entry.facts
  BY <1>1, <1>6, <1>9, TextLength, FS_Subset DEF ce, cx
<1>11. QED
  BY <1>9, <1>10

LEMMA StatesCover ==
  ASSUME NEW xs, \A y \in xs : y.entry.facts \in SUBSET Fact
  PROVE  States(xs) \in SUBSET Fact /\ \A y \in xs : y.entry.facts \subseteq States(xs)
  BY DEF States

LEMMA MergeNextInv ==
  ASSUME MemInv, NEW p \in Process, MergeNext(p)
  PROVE  MemInv'
<1>0. doing[p] = "merge" /\ p \in Writers /\ p # User
  BY UserIsNoProcess DEF MergeNext
<1>1. PICK x \in Longest(found[p]) :
        LET cluster == {y \in found[p] : Overlap(x.entry, y.entry)} IN
        /\ found' = [found EXCEPT ![p] = @ \ cluster]
        /\ \/ /\ cluster = {x}
              /\ UNCHANGED <<entries, used, doing, names, writing, dropped>>
           \/ /\ cluster # {x}
              /\ \E e \in Merged(cluster) :
                   /\ Creates(p, e)
                   /\ dropped' = dropped \cup
                        IF e.padded THEN States(cluster) \ e.facts ELSE {}
              /\ names' = [names EXCEPT ![p] = {y.id : y \in cluster}]
              /\ doing' = [doing EXCEPT ![p] = "write"]
  BY DEF MergeNext
<1> DEFINE cluster == {y \in found[p] : Overlap(x.entry, y.entry)}
<1>2. /\ UNCHANGED <<query, owed, deaths>>
      /\ \A q \in Process : found'[q] \subseteq found[q]
      /\ found' \in [Process -> SUBSET [id : Id, entry : Texts]]
  BY <1>1 DEF MergeNext, MemInv, MemShape
<1>3. CASE UNCHANGED <<entries, used, doing, names, writing, dropped>>
  <2>1. UNCHANGED <<entries, used, writing, owed, dropped, deaths>>
    BY <1>2, <1>3
  <2>2. /\ doing' \in [Writers -> {"nothing", "recall", "recalled", "list", "merge", "write", "forget"}]
        /\ doing'[p] = "merge" /\ doing' = doing /\ names' = names /\ query' = query
        /\ names' \in [Process -> SUBSET Id] /\ query' \in [Process -> SUBSET Fact]
    BY <1>0, <1>2, <1>3 DEF MemInv, MemShape
  <2>3. \A q \in Process \ {p} : found'[q] = found[q]
    BY <1>1 DEF MemInv, MemShape
  <2>4. /\ \A i \in names'[p] : i <= used
        /\ \A y \in found'[p] : y.id <= used /\ entries[y.id] \in {Absent, Whole(y.entry)}
    BY <1>2, <2>2 DEF MemInv, UsedPart
  <2>5. QED
    BY <1>0, <1>2, <2>1, <2>2, <2>3, <2>4, QuietStep
<1>4. CASE cluster # {x}
  <2>1. PICK e \in Merged(cluster) :
          /\ Creates(p, e)
          /\ dropped' = dropped \cup
               IF e.padded THEN States(cluster) \ e.facts ELSE {}
    BY <1>1, <1>4
  <2>2. /\ names' = [names EXCEPT ![p] = {y.id : y \in cluster}]
        /\ doing' = [doing EXCEPT ![p] = "write"]
    BY <1>1, <1>4
  <2>3. /\ cluster \subseteq found[p] /\ \A y \in cluster : y \in [id : Id, entry : Texts]
        /\ e \in Texts
        /\ \A y \in cluster : y.id <= used /\ entries[y.id] \in {Absent, Whole(y.entry)}
    BY <2>1 DEF Merged, Longest, MemInv, MemShape, UsedPart
  <2>4. dropped \subseteq dropped' /\ dropped' \in SUBSET Fact
        /\ \A y \in cluster : y.entry.facts \subseteq e.facts \cup dropped'
    <3>1. \A y \in cluster : y.entry.facts \in SUBSET Fact
      BY <2>3, MemoryBounds
    <3>2. CASE e.padded
      <4>1. dropped' = dropped \cup (States(cluster) \ e.facts)
        BY <2>1, <3>2
      <4>2. dropped \in SUBSET Fact
        BY DEF MemInv, MemShape
      <4>3. States(cluster) \in SUBSET Fact /\ \A y \in cluster : y.entry.facts \subseteq States(cluster)
        BY <3>1, StatesCover
      <4> HIDE DEF cluster
      <4>4. QED
        BY <4>1, <4>2, <4>3
    <3>3. CASE ~ e.padded
      <4>1. found[p] \in SUBSET [id : Id, entry : Texts]
        BY DEF MemInv, MemShape
      <4>2. \A y \in cluster : y.entry.facts \subseteq e.facts
        BY <2>1, <3>3, <4>1, MergeCovers
      <4>3. dropped' = dropped
        BY <2>1, <3>3
      <4>4. QED
        BY <4>2, <4>3 DEF MemInv, MemShape
    <3>4. QED
      BY <3>2, <3>3
  <2> HIDE DEF cluster
  <2>5. PICK n \in Id : n = used + 1
    BY <2>1, MemoryBounds DEF MemInv, MemShape, Id, Creates
  <2> DEFINE w == [id |-> n, entry |-> e]
  <2>6. /\ n = used' /\ n > used /\ used \in Nat /\ used' \in 0 .. MaxEntries
        /\ entries' = [entries EXCEPT ![n] = Blank] /\ writing' = [writing EXCEPT ![p] = {w}]
    BY <2>1, <2>5, MemoryBounds DEF MemInv, MemShape, Creates
  <2>7. /\ entries[n] = Absent
        /\ \A i \in Id : entries'[i] = IF i = n THEN Blank ELSE entries[i]
        /\ entries' \in [Id -> {Absent, Blank} \cup {Whole(t) : t \in Texts}]
    BY <2>6 DEF MemInv, MemShape, UsedPart
  <2>8. /\ \A q \in Writers : writing'[q] = IF q = p THEN {w} ELSE writing[q]
        /\ writing' \in [Writers -> SUBSET [id : Id, entry : Texts]]
        /\ \A q \in Writers : doing'[q] = IF q = p THEN "write" ELSE doing[q]
        /\ doing' \in [Writers -> {"nothing", "recall", "recalled", "list", "merge", "write", "forget"}]
        /\ \A q \in Process : names'[q] = IF q = p THEN {y.id : y \in cluster} ELSE names[q]
        /\ names' \in [Process -> SUBSET Id]
    BY <1>0, <2>2, <2>3, <2>6 DEF MemInv, MemShape
  <2>9. MemShape'
    BY <1>2, <2>4, <2>6, <2>7, <2>8 DEF MemInv, MemShape
  <2>10. /\ \A i \in Id : i # n => (Stored(i)' <=> Stored(i)) /\ Facts(i)' = Facts(i)
         /\ ~ Stored(n) /\ ~ Stored(n)'
    <3>1. ~ Stored(n)
      BY <2>7, EntryKinds DEF MemInv
    <3>2. ~ Stored(n)'
      BY <2>7 DEF Stored, Blank
    <3>3. QED
      BY <2>7, <3>1, <3>2 DEF Stored, Facts
  <2>11. \A i \in Id : i <= used => i # n /\ i < n /\ i <= used'
    <3> SUFFICES ASSUME NEW i \in Id, i <= used PROVE i # n /\ i < n /\ i <= used'
      OBVIOUS
    <3>1. i \in Nat /\ n \in Nat /\ used \in Nat /\ n > used /\ used' = n
      BY <2>6, IdIsNat
    <3>2. QED
      BY <3>1
  <2>12. /\ \A q \in Process : \A i \in names'[q] : i \in Id /\ i <= used
         /\ \A q \in Process : \A v \in found[q] : v.id \in Id /\ v.id <= used
         /\ \A q \in Writers : \A v \in writing[q] : v.id \in Id /\ v.id <= used
    BY <2>3, <2>8 DEF MemInv, MemShape, UsedPart, WritePart
  <2>13. UsedPart'
    <3>1. \A i \in Id : i > used' => i > used /\ i # n
      <4> SUFFICES ASSUME NEW i \in Id, i > used' PROVE i > used /\ i # n
        OBVIOUS
      <4>1. i \in Nat /\ n \in Nat /\ used \in Nat /\ n > used /\ used' = n
        BY <2>6, IdIsNat
      <4>2. QED
        BY <4>1
    <3>2. QED
      BY <1>2, <2>7, <2>11, <2>12, <3>1 DEF MemInv, UsedPart
  <2>14. WritePart'
    <3>1. ASSUME NEW q \in Writers, NEW v \in writing'[q]
          PROVE  doing'[q] = "write" /\ v.id <= used' /\ entries'[v.id] = Blank
      <4>1. CASE q = p
        BY <2>6, <2>7, <2>8, <4>1, IdIsNat
      <4>2. CASE q # p
        <5>1. v \in writing[q] /\ v.id \in Id /\ v.id <= used
          BY <2>8, <2>12, <4>2
        <5>2. doing[q] = "write" /\ entries[v.id] = Blank
          BY <5>1 DEF MemInv, WritePart
        <5>3. QED
          BY <2>7, <2>8, <2>11, <4>2, <5>1, <5>2
      <4>3. QED
        BY <4>1, <4>2
    <3>2. \A q \in Writers : \A v, u \in writing'[q] : v = u
      BY <2>8 DEF MemInv, WritePart
    <3>3. \A q, r \in Writers : q # r => \A v \in writing'[q], u \in writing'[r] : v.id # u.id
      BY <2>8, <2>11, <2>12 DEF MemInv, WritePart
    <3>4. ASSUME NEW q \in Process, NEW v \in writing'[q], NEW i \in names'[q]
          PROVE  i < v.id /\ entries'[i] # Blank
                 /\ (Stored(i)' => Facts(i)' \subseteq v.entry.facts \cup dropped')
      <4>1. i \in Id /\ i <= used /\ i # n /\ i < n /\ entries'[i] = entries[i]
            /\ (Stored(i)' <=> Stored(i)) /\ Facts(i)' = Facts(i)
        BY <2>7, <2>10, <2>11, <2>12
      <4>2. CASE q = p
        <5>1. v = w
          BY <1>0, <2>8, <4>2
        <5>2. PICK y \in cluster : i = y.id
          BY <2>8, <4>2
        <5>3. entries[i] \in {Absent, Whole(y.entry)} /\ y.entry \in Texts
          BY <2>3, <5>2
        <5>4. entries[i] # Blank /\ (Stored(i) => Facts(i) = y.entry.facts)
          BY <5>3, <4>1, EntryKinds DEF MemInv, Facts, Absent, Blank
        <5>5. QED
          BY <2>4, <4>1, <5>1, <5>2, <5>4
      <4>3. CASE q # p
        <5>1. v \in writing[q] /\ i \in names[q]
          BY <2>8, <4>3, UserIsNoProcess
        <5>2. QED
          BY <2>4, <4>1, <5>1 DEF MemInv, WritePart
      <4>4. QED
        BY <4>2, <4>3
    <3>5. QED
      BY <3>1, <3>2, <3>3, <3>4 DEF WritePart
  <2>15. ForgetPart'
    <3> SUFFICES ASSUME NEW q \in Process, doing'[q] = "forget", NEW i \in names'[q]
                 PROVE  /\ entries'[i] # Blank
                        /\ Stored(i)' => \A f \in Facts(i)' \ dropped' : Younger(i, f)' \/ Disowned(i, f)'
      BY DEF ForgetPart
    <3>1. /\ q # p /\ doing[q] = "forget" /\ i \in names[q] /\ i \in Id /\ i # n /\ entries'[i] = entries[i]
          /\ (Stored(i)' <=> Stored(i)) /\ Facts(i)' = Facts(i)
      BY <2>7, <2>8, <2>10, <2>11, <2>12, UserIsNoProcess
    <3>2. writing'[User] = writing[User] /\ owed' = owed
      BY <1>0, <1>2, <2>8, UserIsNoProcess
    <3>3. \A f : (Younger(i, f) => Younger(i, f)') /\ (Disowned(i, f) => Disowned(i, f)')
      BY <2>10, <3>2 DEF Younger, Disowned
    <3>4. QED
      BY <2>4, <3>1, <3>3 DEF MemInv, ForgetPart
  <2>16. RecallPart'
    <3> SUFFICES ASSUME NEW q \in Process
                 PROVE  /\ doing'[q] = "recalled" => names'[q] = {}
                        /\ doing'[q] \in {"recall", "recalled"} => \A f \in query'[q] \ dropped' :
                             \/ \E y \in found'[q] : f \in y.entry.facts
                             \/ \E i \in names'[q] : entries'[i] = Absent \/ (Stored(i)' /\ f \in Facts(i)')
      BY DEF RecallPart
    <3>1. CASE q = p
      BY <1>0, <2>8, <3>1
    <3>2. CASE q # p
      <4>1. doing'[q] = doing[q] /\ names'[q] = names[q] /\ found'[q] = found[q] /\ query'[q] = query[q]
        BY <1>1, <1>2, <2>8, <3>2, UserIsNoProcess DEF MemInv, MemShape
      <4>2. \A i \in names[q] : /\ entries'[i] = entries[i]
                                /\ Stored(i)' <=> Stored(i)
                                /\ Facts(i)' = Facts(i)
        BY <2>7, <2>10, <2>11, <2>12, <4>1
      <4>3. QED
        BY <2>4, <4>1, <4>2 DEF MemInv, RecallPart
    <3>3. QED
      BY <3>1, <3>2
  <2>17. NothingLost'
    <3>1. \A f \in owed \ dropped' : \E i \in Id : Stored(i)' /\ f \in Facts(i)'
      BY <2>4, <2>10, LostFactByFact DEF MemInv
    <3>2. QED
      BY <1>2, <3>1 DEF NothingLost, States, Facts
  <2>18. QED
    BY <2>9, <2>13, <2>14, <2>15, <2>16, <2>17 DEF MemInv
<1>5. QED
  BY <1>1, <1>3, <1>4

\* A process that gives up, or is done, forgets what it has read.
LEMMA StopsInv ==
  ASSUME MemInv, NEW p \in Process, doing[p] # "write", Stops(p)
  PROVE  MemInv'
<1> USE DEF Stops
<1>1. p \in Writers
  BY UserIsNoProcess
<1>2. /\ doing' \in [Writers -> {"nothing", "recall", "recalled", "list", "merge", "write", "forget"}]
      /\ doing'[p] = "nothing" /\ \A q \in Writers \ {p} : doing'[q] = doing[q]
      /\ names' \in [Process -> SUBSET Id] /\ names'[p] = {}
      /\ found' \in [Process -> SUBSET [id : Id, entry : Texts]] /\ found'[p] = {}
      /\ query' \in [Process -> SUBSET Fact]
      /\ \A q \in Process \ {p} : names'[q] = names[q] /\ found'[q] = found[q] /\ query'[q] = query[q]
  BY <1>1 DEF MemInv, MemShape
<1>3. QED
  BY <1>2, QuietStep

\* The names that are listed are those of every entry.
LEMMA BeginReadingInv ==
  ASSUME MemInv, NEW p \in Process, BeginRecall(p) \/ BeginConsolidate(p)
  PROVE  MemInv'
<1> USE DEF AfterReading
<1>1. p \in Writers
  BY UserIsNoProcess
<1>2. doing[p] \in {"nothing", "recalled"} /\ UNCHANGED <<entries, used, writing, owed, dropped, deaths>>
  BY DEF BeginRecall, BeginConsolidate
<1>3. Listed \in SUBSET Id /\ \A i \in Listed : i <= used
  BY IdIsNat DEF Listed, MemInv, UsedPart, MemShape
<1>4. /\ doing' \in [Writers -> {"nothing", "recall", "recalled", "list", "merge", "write", "forget"}]
      /\ doing'[p] \in {"recall", "recalled", "list", "merge"}
      /\ doing'[p] = "recalled" => Listed = {}
      /\ \A q \in Writers \ {p} : doing'[q] = doing[q]
      /\ names' \in [Process -> SUBSET Id] /\ names'[p] = Listed
      /\ found' \in [Process -> SUBSET [id : Id, entry : Texts]] /\ found'[p] = {}
      /\ query' \in [Process -> SUBSET Fact] /\ query'[p] \subseteq owed \ dropped
      /\ \A q \in Process \ {p} : names'[q] = names[q] /\ found'[q] = found[q] /\ query'[q] = query[q]
  BY <1>1, <1>3 DEF BeginRecall, BeginConsolidate, MemInv, MemShape
<1>5. \A f \in query'[p] : \E i \in names'[p] : Stored(i) /\ f \in Facts(i)
  <2>1. \A i \in Id : Stored(i) => i \in Listed
    BY EntryKinds DEF MemInv, Listed
  <2>2. QED
    BY <1>4, <2>1, LostFactByFact DEF MemInv
<1>6. /\ doing'[p] = "recalled" => names'[p] = {}
      /\ doing'[p] \in {"recall", "recalled"} => \A f \in query'[p] \ dropped :
           \/ \E x \in found'[p] : f \in x.entry.facts
           \/ \E i \in names'[p] : entries[i] = Absent \/ (Stored(i) /\ f \in Facts(i))
  BY <1>4, <1>5
<1>7. QED
  BY <1>2, <1>3, <1>4, <1>6, QuietStep

LEMMA ReadEntryInv ==
  ASSUME MemInv, NEW p \in Process, NEW i \in Id, ReadEntry(p, i)
  PROVE  MemInv'
<1>1. doing[p] \in {"recall", "list"} /\ i \in names[p] /\ p \in Writers
  BY UserIsNoProcess DEF ReadEntry
<1>2. CASE Stops(p)
  BY <1>1, <1>2, StopsInv
<1>3. CASE ~ Stops(p)
  <2> DEFINE x == [id |-> i, entry |-> entries[i].entry]
  <2>1. /\ Stored(i)
        /\ names' = [names EXCEPT ![p] = @ \ {i}]
        /\ found' = [found EXCEPT ![p] = @ \cup
             {[id |-> j, entry |-> entries[j].entry] : j \in {k \in {i} : Stored(k)}}]
        /\ doing' = [doing EXCEPT ![p] = AfterReading(@, names'[p])]
        /\ UNCHANGED <<entries, used, writing, query, owed, dropped, deaths>>
    BY <1>3 DEF ReadEntry, GivesUp
  <2>2. entries[i] = Whole(entries[i].entry) /\ entries[i].entry \in Texts /\ entries[i] # Absent
    BY <2>1, EntryKinds DEF MemInv
  <2>3. x \in [id : Id, entry : Texts] /\ i <= used
    BY <1>1, <2>2 DEF MemInv, UsedPart
  <2>4. {[id |-> j, entry |-> entries[j].entry] : j \in {k \in {i} : Stored(k)}} = {x}
    BY <2>1
  <2>5. /\ names' \in [Process -> SUBSET Id] /\ names'[p] = names[p] \ {i}
        /\ found' \in [Process -> SUBSET [id : Id, entry : Texts]] /\ found'[p] = found[p] \cup {x}
        /\ \A q \in Process \ {p} : names'[q] = names[q] /\ found'[q] = found[q] /\ query'[q] = query[q]
        /\ query' \in [Process -> SUBSET Fact]
    BY <2>1, <2>3, <2>4 DEF MemInv, MemShape
  <2>6. /\ doing' \in [Writers -> {"nothing", "recall", "recalled", "list", "merge", "write", "forget"}]
        /\ doing'[p] \in {"recall", "list", "recalled", "merge"}
        /\ doing'[p] = "recalled" => names'[p] = {}
        /\ doing'[p] \in {"recall", "recalled"} => doing[p] = "recall"
        /\ \A q \in Writers \ {p} : doing'[q] = doing[q]
    BY <1>1, <2>1 DEF AfterReading, MemInv, MemShape
  <2>7. \A y \in found'[p] : y.id <= used /\ entries[y.id] \in {Absent, Whole(y.entry)}
    BY <2>2, <2>3, <2>5 DEF MemInv, UsedPart
  <2>8. ASSUME doing'[p] \in {"recall", "recalled"}, NEW f \in query'[p] \ dropped
        PROVE  \/ \E y \in found'[p] : f \in y.entry.facts
               \/ \E j \in names'[p] : entries[j] = Absent \/ (Stored(j) /\ f \in Facts(j))
    <3>1. \/ \E y \in found[p] : f \in y.entry.facts
          \/ \E j \in names[p] : entries[j] = Absent \/ (Stored(j) /\ f \in Facts(j))
      BY <2>1, <2>6, <2>8 DEF MemInv, RecallPart
    <3>2. CASE \E y \in found[p] : f \in y.entry.facts
      BY <2>5, <3>2
    <3>3. CASE \E j \in names[p] : entries[j] = Absent \/ (Stored(j) /\ f \in Facts(j))
      <4>1. PICK j \in names[p] : entries[j] = Absent \/ (Stored(j) /\ f \in Facts(j))
        BY <3>3
      <4>2. CASE j = i
        <5>1. f \in x.entry.facts /\ x \in found'[p]
          BY <2>2, <2>5, <4>1, <4>2 DEF Facts
        <5>2. QED
          BY <5>1
      <4>3. CASE j # i
        BY <2>5, <4>1, <4>3
      <4>4. QED
        BY <4>2, <4>3
    <3>4. QED
      BY <3>1, <3>2, <3>3
  <2>9. \A j \in names'[p] : j <= used
    BY <2>5 DEF MemInv, UsedPart
  <2>10. doing[p] # "write" /\ doing'[p] \notin {"write", "forget"}
    BY <1>1, <2>6
  <2>11. UNCHANGED <<entries, used, writing, owed, dropped, deaths>>
    BY <2>1
  <2> HIDE DEF x
  <2>12. QED
    BY <2>5, <2>6, <2>7, <2>8, <2>9, <2>10, <2>11, QuietStep
<1>4. QED
  BY <1>2, <1>3

\* Who dies leaves what it was writing empty.
LEMMA DiesInv ==
  ASSUME MemInv, NEW p \in Writers, Dies(p)
  PROVE  MemInv'
<1> USE DEF Dies
<1>1. /\ \A q \in Writers : doing'[q] = IF q = p THEN "nothing" ELSE doing[q]
      /\ doing' \in [Writers -> {"nothing", "recall", "recalled", "list", "merge", "write", "forget"}]
      /\ \A q \in Writers : writing'[q] = IF q = p THEN {} ELSE writing[q]
      /\ writing' \in [Writers -> SUBSET [id : Id, entry : Texts]]
      /\ deaths' \in 0 .. MaxDeaths
  BY MemoryBounds DEF MemInv, MemShape
<1>2. /\ \A q \in Process : /\ names'[q] = IF q = p THEN {} ELSE names[q]
                            /\ found'[q] = IF q = p THEN {} ELSE found[q]
                            /\ query'[q] = IF q = p THEN {} ELSE query[q]
      /\ names' \in [Process -> SUBSET Id] /\ query' \in [Process -> SUBSET Fact]
      /\ found' \in [Process -> SUBSET [id : Id, entry : Texts]]
  BY DEF MemInv, MemShape
<1>3. UNCHANGED <<entries, used, owed, dropped>>
  OBVIOUS
<1>4. MemShape'
  BY <1>1, <1>2, <1>3 DEF MemInv, MemShape
<1>5. UsedPart'
  BY <1>2, <1>3 DEF MemInv, UsedPart
<1>6. WritePart'
  <2>1. \A q \in Writers : \A v \in writing'[q] : q # p /\ v \in writing[q] /\ doing'[q] = doing[q]
    BY <1>1
  <2>2. \A q \in Process : \A i \in names'[q] : i \in names[q]
    BY <1>2
  <2>3. QED
    BY <1>3, <2>1, <2>2, UserIsNoProcess DEF MemInv, WritePart, Stored, Facts
<1>7. ForgetPart'
  <2>1. \A q \in Process : doing'[q] = "forget" => doing[q] = "forget" /\ names'[q] = names[q]
    BY <1>1, <1>2, UserIsNoProcess
  <2>2. \A v \in writing'[User] : v \in writing[User]
    BY <1>1, UserIsNoProcess
  <2>3. QED
    BY <1>3, <2>1, <2>2 DEF MemInv, ForgetPart, Stored, Facts, Younger, Disowned
<1>8. RecallPart'
  <2>1. \A q \in Process : doing'[q] \in {"recall", "recalled"} =>
          doing'[q] = doing[q] /\ names'[q] = names[q] /\ found'[q] = found[q] /\ query'[q] = query[q]
    BY <1>1, <1>2, UserIsNoProcess
  <2>2. QED
    BY <1>3, <2>1 DEF MemInv, RecallPart, Stored, Facts
<1>9. NothingLost'
  BY <1>3 DEF MemInv, NothingLost, Stored
<1>10. QED
  BY <1>4, <1>5, <1>6, <1>7, <1>8, <1>9 DEF MemInv

LEMMA MemStep == MemInv /\ [MemNext]_memVars => MemInv'
<1> SUFFICES ASSUME MemInv, [MemNext]_memVars PROVE MemInv'
  OBVIOUS
<1>1. CASE UNCHANGED memVars
  BY <1>1 DEF memVars, MemInv, MemShape, UsedPart, WritePart, ForgetPart, RecallPart, NothingLost,
     Stored, Facts, Younger, Disowned
<1>2. ASSUME NEW p \in Process, NEW i \in Id, ForgetMerged(p, i)
      PROVE  MemInv'
  <2>1. doing[p] = "forget" /\ i \in names[p]
    BY <1>2 DEF ForgetMerged
  <2>2. CASE Stops(p)
    BY <2>1, <2>2, StopsInv
  <2>3. CASE ~ Stops(p)
    BY <1>2, <2>1, <2>3, ForgetMergedInv DEF ForgetMerged, GivesUp
  <2>4. QED
    BY <2>2, <2>3
<1>3. ASSUME NEW p \in Process, MemoryDone(p)
      PROVE  MemInv'
  BY <1>3, StopsInv DEF MemoryDone
<1>4. ASSUME NEW p \in Writers, Fills(p)
      PROVE  MemInv'
  BY <1>4, UserFillsInv, MergeFillsInv DEF Writers
<1>5. ASSUME NEW p \in Recaller, BeginRecall(p)
      PROVE  MemInv'
  BY <1>5, BeginReadingInv DEF Process
<1>6. ASSUME NEW p \in Process, NEW i \in Id, FindMerged(p, i)
      PROVE  MemInv'
  <2>1. doing[p] # "write"
    BY <1>6 DEF FindMerged
  <2>2. CASE Stops(p)
    BY <2>1, <2>2, StopsInv
  <2>3. CASE ~ Stops(p)
    <3>1. UNCHANGED <<entries, used, doing, names, found, writing, query, owed, dropped, deaths>>
      BY <1>6, <2>3 DEF FindMerged
    <3>2. QED
      BY <3>1 DEF MemInv, MemShape, UsedPart, WritePart, ForgetPart, RecallPart, NothingLost,
         Stored, Facts, Younger, Disowned
  <2>4. QED
    BY <2>2, <2>3
<1>7. CASE MemNext
  BY <1>2, <1>3, <1>4, <1>5, <1>6, <1>7, AddMemoryInv, ForgetMemoryInv, ReadEntryInv,
     BeginReadingInv, MergeNextInv, DiesInv DEF MemNext
<1>8. QED
  BY <1>1, <1>7

\* What is being removed is an entry: no other conjunct speaks of it.
RemovingType == removing \in [Process -> SUBSET Id]

LEMMA RemovingStep == RemovingType /\ [MemNext]_memVars => RemovingType'
<1> SUFFICES ASSUME RemovingType, [MemNext]_memVars PROVE RemovingType'
  OBVIOUS
<1> USE DEF RemovingType
<1>1. CASE UNCHANGED memVars
  BY <1>1 DEF memVars
<1>2. ASSUME NEW p \in Process, Stops(p)
      PROVE  RemovingType'
  BY <1>2 DEF Stops
<1>3. ASSUME NEW p \in Process, NEW i \in Id, FindMerged(p, i)
      PROVE  RemovingType'
  BY <1>2, <1>3 DEF FindMerged
<1>4. ASSUME NEW p \in Process, NEW i \in Id, ForgetMerged(p, i)
      PROVE  RemovingType'
  BY <1>2, <1>4 DEF ForgetMerged
<1>5. ASSUME NEW p \in Process, NEW i \in Id, ReadEntry(p, i)
      PROVE  RemovingType'
  BY <1>2, <1>5 DEF ReadEntry
<1>6. ASSUME NEW p \in Process, MemoryDone(p)
      PROVE  RemovingType'
  BY <1>2, <1>6 DEF MemoryDone
<1>7. ASSUME NEW p \in Process, BeginRecall(p) \/ BeginConsolidate(p) \/ MergeNext(p)
      PROVE  RemovingType'
  BY <1>7 DEF BeginRecall, BeginConsolidate, MergeNext
<1>8. ASSUME NEW p \in Writers, Fills(p) \/ Dies(p)
      PROVE  RemovingType'
  BY <1>8 DEF Fills, Dies
<1>9. ASSUME NEW text \in Texts, AddMemory(text)
      PROVE  RemovingType'
  BY <1>9 DEF AddMemory
<1>10. ASSUME NEW i \in Id, ForgetMemory(i)
       PROVE  RemovingType'
  BY <1>10 DEF ForgetMemory
<1>11. CASE MemNext
  BY <1>3, <1>4, <1>5, <1>6, <1>7, <1>8, <1>9, <1>10, <1>11 DEF MemNext, Process
<1>12. QED
  BY <1>1, <1>11

\* However many consolidations run at once, and wherever they are killed, what the user
\* has added is in an entry, and a recall that succeeds has it all.
THEOREM MemoryIsWhole == MemSpec => [](MemTypeOK /\ NothingLost /\ RecallIsWhole)
<1>1. MemInv /\ RemovingType => MemTypeOK
  <2> SUFFICES ASSUME MemInv, RemovingType PROVE MemTypeOK
    OBVIOUS
  <2>1. \A i \in Id : \/ entries[i] \in {Absent, Blank}
                      \/ entries[i].is = "whole" /\ entries[i].entry \in Texts
    BY EntryKinds DEF MemInv, Stored
  <2>2. QED
    BY <2>1, UserIsNoProcess DEF MemInv, MemShape, MemTypeOK, RemovingType
<1>2. MemInv => RecallIsWhole
  BY DEF MemInv, RecallPart, RecallIsWhole, States
<1>3. MemInv => NothingLost
  BY DEF MemInv
<1>4. MemInit => RemovingType
  BY DEF MemInit, RemovingType
<1>5. QED
  BY <1>1, <1>2, <1>3, <1>4, MemInitInv, MemStep, RemovingStep, PTL DEF MemSpec
------------------------------------------------------------------------------
(***************************************************************************)
(* The session file.                                                       *)
(***************************************************************************)

FilePiece == Messages \cup {Newline, Torn}

FileShape ==
  /\ header \in BOOLEAN /\ overlapped \in BOOLEAN /\ remnant \in BOOLEAN
  /\ body \in Seq(FilePiece) /\ half \in SUBSET Appender
  /\ appended \in 0 .. MaxAppends /\ crashes \in 0 .. MaxCrashes
  /\ exposed \subseteq (1 .. appended)
  /\ copied \in [Rewriter -> {Nothing} \cup [is : {TRUE}, text : Seq(FilePiece)]]
  /\ opened \in SUBSET Rewriter
  /\ \A r \in opened : copied[r].is

\* Messages that are each alone on their line.
Clean(s) ==
  \A i \in 1 .. Len(s) : \/ s[i] = Newline
                         \/ s[i] \in Messages /\ (i < Len(s) => s[i + 1] = Newline)

Closed(s) == s # <<>> => s[Len(s)] = Newline

\* Only an append that has still to write its newline leaves the last line open, and
\* what a rewriter has read is closed.
CleanPart ==
  (Sound /\ ~ overlapped) =>
    /\ \A a, b \in half : a = b
    /\ Clean(body) /\ (half = {} => Closed(body))
    /\ \A r \in Rewriter : copied[r].is => Clean(copied[r].text) /\ Closed(copied[r].text)

\* Messages in the order they were appended, none later than the last of them.
Ascends(s, n) ==
  /\ \A i \in 1 .. Len(s) : s[i] \in Messages => s[i] <= n
  /\ \A i, j \in 1 .. Len(s) : i < j /\ s[i] \in Messages /\ s[j] \in Messages => s[i] < s[j]

OrderPart ==
  ~ remnant =>
    /\ Ascends(body, appended)
    /\ \A r \in Rewriter : copied[r].is => Ascends(copied[r].text, appended)

Occurs(m, s) == \E i \in 1 .. Len(s) : s[i] = m

\* A message that was appended while nobody had a copy of the file is in every copy made
\* since, and in the file whenever it has a header.
KeptPart ==
  Sound =>
    /\ header \/ opened # {}
    /\ \A m \in (1 .. appended) \ exposed :
         /\ header => Occurs(m, body)
         /\ \A r \in Rewriter : copied[r].is => Occurs(m, copied[r].text)

FileInv == FileShape /\ CleanPart /\ OrderPart /\ KeptPart

LEMMA PiecesApart ==
  /\ Newline \in FilePiece /\ Torn \in FilePiece /\ Newline \notin Messages /\ Torn \notin Messages
  /\ Messages \subseteq FilePiece
  /\ \A m \in Messages : m \in Nat
  BY FileBounds DEF FilePiece, Messages, Newline, Torn

LEMMA CopiedText ==
  ASSUME FileShape, NEW r \in Rewriter, copied[r].is
  PROVE  copied[r].text \in Seq(FilePiece)
<1>1. copied[r] \in {Nothing} \cup [is : {TRUE}, text : Seq(FilePiece)]
  BY DEF FileShape
<1>2. ~ Nothing.is
  BY DEF Nothing
<1>3. copied[r] \in [is : {TRUE}, text : Seq(FilePiece)]
  BY <1>1, <1>2
<1>4. QED
  BY <1>3

LEMMA FileInitInv == FileInit => FileInv
<1> SUFFICES ASSUME FileInit PROVE FileInv
  OBVIOUS
<1>1. \A r \in Rewriter : ~ copied[r].is
  BY DEF FileInit, Nothing
<1>2. FileShape
  <2>1. copied \in [Rewriter -> {Nothing} \cup [is : {TRUE}, text : Seq(FilePiece)]]
    BY DEF FileInit
  <2>2. appended \in 0 .. MaxAppends /\ crashes \in 0 .. MaxCrashes /\ body \in Seq(FilePiece)
    BY FileBounds DEF FileInit
  <2>3. QED
    BY <2>1, <2>2 DEF FileInit, FileShape
<1>3. Len(body) = 0
  BY DEF FileInit
<1>4. CleanPart
  BY <1>1, <1>3 DEF FileInit, CleanPart, Clean, Closed
<1>5. OrderPart
  BY <1>1, <1>3 DEF FileInit, OrderPart, Ascends
<1>6. KeptPart
  <2>1. header /\ appended = 0
    BY DEF FileInit
  <2>2. 1 .. appended = {}
    BY <2>1
  <2>3. QED
    BY <2>1, <2>2 DEF KeptPart
<1>7. QED
  BY <1>2, <1>4, <1>5, <1>6 DEF FileInv

\* A piece at the end of a text.
LEMMA AppendedPiece ==
  ASSUME NEW s \in Seq(FilePiece), NEW x \in FilePiece
  PROVE  /\ Append(s, x) \in Seq(FilePiece) /\ Len(Append(s, x)) = Len(s) + 1 /\ Len(s) \in Nat
         /\ \A i \in 1 .. Len(s) + 1 : Append(s, x)[i] = IF i = Len(s) + 1 THEN x ELSE s[i]
  OBVIOUS

LEMMA MessageAtEnd ==
  ASSUME NEW s \in Seq(FilePiece), NEW x \in FilePiece, Clean(s), Closed(s), x \in Messages
  PROVE  Clean(Append(s, x))
<1>1. ASSUME NEW i \in 1 .. Len(s) + 1
      PROVE  \/ Append(s, x)[i] = Newline
             \/ /\ Append(s, x)[i] \in Messages
                /\ i < Len(s) + 1 => Append(s, x)[i + 1] = Newline
  <2>1. CASE i = Len(s) + 1
    BY <2>1, AppendedPiece
  <2>2. CASE i < Len(s)
    <3>1. i \in 1 .. Len(s) /\ i + 1 \in 1 .. Len(s) + 1 /\ i + 1 # Len(s) + 1
      BY <2>2, AppendedPiece
    <3>2. Append(s, x)[i] = s[i] /\ Append(s, x)[i + 1] = s[i + 1]
      BY <3>1, AppendedPiece
    <3>3. QED
      BY <2>2, <3>1, <3>2 DEF Clean
  <2>3. CASE i = Len(s)
    <3>1. s # <<>> /\ i # Len(s) + 1
      BY <2>3, AppendedPiece
    <3>2. QED
      BY <2>3, <3>1, AppendedPiece DEF Closed
  <2>4. QED
    BY <2>1, <2>2, <2>3, AppendedPiece
<1>2. QED
  BY <1>1, AppendedPiece DEF Clean

LEMMA NewlineAtEnd ==
  ASSUME NEW s \in Seq(FilePiece), Clean(s)
  PROVE  Clean(Append(s, Newline)) /\ Closed(Append(s, Newline))
<1>1. /\ Len(Append(s, Newline)) = Len(s) + 1 /\ Len(s) \in Nat
      /\ \A i \in 1 .. Len(s) + 1 :
           Append(s, Newline)[i] = IF i = Len(s) + 1 THEN Newline ELSE s[i]
  BY AppendedPiece, PiecesApart
<1>2. ASSUME NEW i \in 1 .. Len(s) + 1
      PROVE  \/ Append(s, Newline)[i] = Newline
             \/ /\ Append(s, Newline)[i] \in Messages
                /\ i < Len(s) + 1 => Append(s, Newline)[i + 1] = Newline
  <2>1. CASE i = Len(s) + 1
    BY <1>1, <2>1
  <2>2. CASE i < Len(s)
    <3>1. i \in 1 .. Len(s) /\ i + 1 \in 1 .. Len(s) + 1 /\ i + 1 # Len(s) + 1 /\ i # Len(s) + 1
      BY <1>1, <2>2
    <3>2. Append(s, Newline)[i] = s[i] /\ Append(s, Newline)[i + 1] = s[i + 1]
      BY <1>1, <3>1
    <3>3. QED
      BY <2>2, <3>1, <3>2 DEF Clean
  <2>3. CASE i = Len(s)
    <3>1. i \in 1 .. Len(s) /\ i + 1 = Len(s) + 1 /\ i + 1 \in 1 .. Len(s) + 1 /\ i # Len(s) + 1
      BY <1>1, <2>3
    <3>2. Append(s, Newline)[i] = s[i] /\ Append(s, Newline)[i + 1] = Newline
      BY <1>1, <3>1
    <3>3. QED
      BY <3>1, <3>2 DEF Clean
  <2>4. QED
    BY <1>1, <2>1, <2>2, <2>3
<1>3. Clean(Append(s, Newline))
  BY <1>1, <1>2 DEF Clean
<1>4. Closed(Append(s, Newline))
  BY <1>1 DEF Closed
<1>5. QED
  BY <1>3, <1>4

LEMMA OrderedAppend ==
  ASSUME NEW s \in Seq(FilePiece), NEW x \in FilePiece, NEW n \in Nat, NEW m \in Nat, n <= m,
         Ascends(s, n), x \in Messages => n < x /\ x <= m
  PROVE  Ascends(Append(s, x), m)
<1>1. ASSUME NEW i \in 1 .. Len(s) + 1, Append(s, x)[i] \in Messages
      PROVE  Append(s, x)[i] <= m
  <2>1. CASE i = Len(s) + 1
    BY <1>1, <2>1, AppendedPiece
  <2>2. CASE i \in 1 .. Len(s)
    <3>1. Append(s, x)[i] = s[i]
      BY <2>2, AppendedPiece
    <3>2. s[i] <= n /\ s[i] \in Nat
      BY <1>1, <2>2, <3>1, PiecesApart DEF Ascends
    <3>3. QED
      BY <3>1, <3>2
  <2>3. QED
    BY <2>1, <2>2, AppendedPiece
<1>2. ASSUME NEW i \in 1 .. Len(s) + 1, NEW j \in 1 .. Len(s) + 1, i < j,
             Append(s, x)[i] \in Messages, Append(s, x)[j] \in Messages
      PROVE  Append(s, x)[i] < Append(s, x)[j]
  <2>1. i \in 1 .. Len(s) /\ Append(s, x)[i] = s[i]
    BY <1>2, AppendedPiece
  <2>2. s[i] <= n /\ s[i] \in Nat
    BY <1>2, <2>1, PiecesApart DEF Ascends
  <2>3. CASE j = Len(s) + 1
    <3>1. Append(s, x)[j] = x
      BY <2>3, AppendedPiece
    <3>2. n < x /\ x \in Nat
      BY <1>2, <3>1, PiecesApart
    <3>3. QED
      BY <2>1, <2>2, <3>1, <3>2
  <2>4. CASE j \in 1 .. Len(s)
    <3>1. Append(s, x)[j] = s[j]
      BY <2>4, AppendedPiece
    <3>2. QED
      BY <1>2, <2>1, <2>4, <3>1 DEF Ascends
  <2>5. QED
    BY <2>3, <2>4, AppendedPiece
<1>3. QED
  BY <1>1, <1>2, AppendedPiece DEF Ascends

LEMMA OrderedLater ==
  ASSUME NEW s \in Seq(FilePiece), NEW n \in Nat, NEW m \in Nat, n <= m, Ascends(s, n)
  PROVE  Ascends(s, m)
  BY PiecesApart DEF Ascends

\* A rewriter's lines are the text's, the last of them closed.
LEMMA LinesOfText ==
  ASSUME NEW s \in Seq(FilePiece), NEW n \in Nat, Ascends(s, n)
  PROVE  /\ Lines(s) \in Seq(FilePiece) /\ Ascends(Lines(s), n)
         /\ Clean(s) => Clean(Lines(s)) /\ Closed(Lines(s))
<1>1. CASE s = <<>> \/ Last(s) = Newline
  BY <1>1 DEF Lines, Last, Closed
<1>2. CASE ~ (s = <<>> \/ Last(s) = Newline)
  <2>1. Lines(s) = Append(s, Newline)
    BY <1>2 DEF Lines
  <2>2. QED
    BY <2>1, NewlineAtEnd, OrderedAppend, AppendedPiece, PiecesApart
<1>3. QED
  BY <1>1, <1>2

LEMMA OccursAtEnd ==
  ASSUME NEW s \in Seq(FilePiece), NEW x \in FilePiece
  PROVE  /\ Occurs(x, Append(s, x))
         /\ \A m : Occurs(m, s) => Occurs(m, Append(s, x))
<1>1. Occurs(x, Append(s, x))
  BY AppendedPiece DEF Occurs
<1>2. ASSUME NEW m, NEW i \in 1 .. Len(s), s[i] = m
      PROVE  Occurs(m, Append(s, x))
  <2>1. i \in 1 .. Len(s) + 1 /\ i # Len(s) + 1
    BY AppendedPiece
  <2>2. Append(s, x)[i] = m
    BY <1>2, <2>1, AppendedPiece
  <2>3. QED
    BY <2>1, <2>2, AppendedPiece DEF Occurs
<1>3. QED
  BY <1>1, <1>2 DEF Occurs

LEMMA OccursInLines ==
  ASSUME NEW s \in Seq(FilePiece), NEW m, Occurs(m, s)
  PROVE  Occurs(m, Lines(s))
<1>1. Lines(s) = s \/ Lines(s) = Append(s, Newline)
  BY DEF Lines
<1>2. QED
  BY <1>1, OccursAtEnd, PiecesApart

\* What a rewrite may leave behind its text is a text.
LEMMA RestIsText ==
  ASSUME FileShape, NEW left \in Rests
  PROVE  left \in Seq(FilePiece)
<1>1. PICK f \in Seq(FilePiece) : f = Filled
  <2>1. <<Torn, Newline>> \in Seq(FilePiece)
    BY PiecesApart
  <2>2. body \in Seq(FilePiece)
    BY DEF FileShape
  <2>3. <<Torn, Newline>> \o body \in Seq(FilePiece)
    BY <2>1, <2>2
  <2>4. QED
    BY <2>2, <2>3 DEF Filled
<1>2. \A i \in 2 .. Len(f) + 1 : SubSeq(f, i, Len(f)) \in Seq(FilePiece)
  <2>1. \A i \in 1 .. Len(f) : f[i] \in FilePiece
    BY <1>1
  <2>2. QED
    BY <1>1, <2>1
<1>3. CASE left = <<>>
  BY <1>3
<1>4. CASE \E i \in 2 .. Len(f) : left = SubSeq(f, i, Len(f))
  BY <1>2, <1>4
<1>5. CASE \E i \in 1 .. Len(f) : left = <<Torn>> \o SubSeq(f, i + 1, Len(f))
  <2>1. PICK i \in 1 .. Len(f) : left = <<Torn>> \o SubSeq(f, i + 1, Len(f))
    BY <1>5
  <2>2. PICK g \in Seq(FilePiece) : g = SubSeq(f, i + 1, Len(f))
    <3>1. i + 1 \in 2 .. Len(f) + 1
      BY <1>1, <2>1
    <3>2. QED
      BY <1>2, <3>1
  <2>3. <<Torn>> \in Seq(FilePiece)
    BY PiecesApart
  <2>4. QED
    BY <2>1, <2>2, <2>3
<1>6. QED
  BY <1>1, <1>3, <1>4, <1>5 DEF Rests

LEMMA WriteMessageInv ==
  ASSUME FileInv, NEW a \in Appender, WriteMessage(a)
  PROVE  FileInv'
<1>1. PICK m \in Messages : m = appended + 1 /\ appended \in Nat
  BY FileBounds DEF FileInv, FileShape, WriteMessage, Messages
<1>2. /\ appended' = m /\ body' = Append(body, m) /\ half' = half \cup {a}
      /\ overlapped' = (overlapped \/ half # {})
      /\ UNCHANGED <<header, copied, opened, remnant, crashes>>
      /\ body \in Seq(FilePiece) /\ m \in FilePiece /\ m \in Nat
      /\ exposed' = exposed \cup (IF \E r \in Rewriter : copied[r].is THEN {m} ELSE {})
      /\ exposed \subseteq (1 .. appended)
  BY <1>1, PiecesApart DEF FileInv, FileShape, WriteMessage
<1>3. FileShape'
  <2>1. appended' \in 0 .. MaxAppends
    BY <1>1, <1>2, FileBounds DEF Messages
  <2>2. body' \in Seq(FilePiece)
    BY <1>2, AppendedPiece
  <2>3. exposed' \subseteq (1 .. appended')
    <3>1. 1 .. appended \subseteq 1 .. m /\ m \in 1 .. m
      BY <1>1, <1>2
    <3>2. QED
      BY <1>2, <3>1
  <2>4. QED
    BY <1>2, <2>1, <2>2, <2>3 DEF FileInv, FileShape
<1>4. CleanPart'
  <2> SUFFICES ASSUME Sound, ~ overlapped, half = {}
               PROVE  /\ \A x, y \in half' : x = y
                      /\ Clean(body') /\ half' # {}
                      /\ \A r \in Rewriter :
                           copied'[r].is => Clean(copied'[r].text) /\ Closed(copied'[r].text)
    BY <1>2 DEF CleanPart, Sound
  <2>1. Clean(body')
    BY <1>2, MessageAtEnd DEF FileInv, CleanPart
  <2>2. QED
    BY <1>2, <2>1 DEF FileInv, CleanPart
<1>5. OrderPart'
  <2> SUFFICES ASSUME ~ remnant
               PROVE  /\ Ascends(body', m)
                      /\ \A r \in Rewriter : copied[r].is => Ascends(copied[r].text, m)
    BY <1>2 DEF OrderPart
  <2>1. Ascends(body', m)
    BY <1>1, <1>2, OrderedAppend DEF FileInv, OrderPart
  <2>2. ASSUME NEW r \in Rewriter, copied[r].is
        PROVE  Ascends(copied[r].text, m)
    <3>1. copied[r].text \in Seq(FilePiece) /\ Ascends(copied[r].text, appended)
      BY <2>2, CopiedText DEF FileInv, OrderPart
    <3>2. QED
      BY <1>1, <1>2, <3>1, OrderedLater
  <2>3. QED
    BY <2>1, <2>2
<1>6. KeptPart'
  <2> SUFFICES ASSUME Sound
               PROVE  /\ header \/ opened # {}
                      /\ \A n \in (1 .. m) \ exposed' :
                           /\ header => Occurs(n, body')
                           /\ \A r \in Rewriter : copied[r].is => Occurs(n, copied[r].text)
    BY <1>2 DEF KeptPart, Sound
  <2>1. header \/ opened # {}
    BY DEF FileInv, KeptPart
  <2>2. ASSUME NEW n \in (1 .. m) \ exposed'
        PROVE  /\ header => Occurs(n, body')
               /\ \A r \in Rewriter : copied[r].is => Occurs(n, copied[r].text)
    <3>1. CASE n = m
      <4>1. \A r \in Rewriter : ~ copied[r].is
        BY <1>2, <2>2, <3>1
      <4>2. Occurs(m, body')
        BY <1>2, OccursAtEnd
      <4>3. QED
        BY <3>1, <4>1, <4>2
    <3>2. CASE n # m
      <4>1. n \in (1 .. appended) \ exposed
        BY <1>1, <1>2, <2>2, <3>2
      <4>2. /\ header => Occurs(n, body)
            /\ \A r \in Rewriter : copied[r].is => Occurs(n, copied[r].text)
        BY <4>1 DEF FileInv, KeptPart
      <4>3. QED
        BY <1>2, <4>2, OccursAtEnd
    <3>3. QED
      BY <3>1, <3>2
  <2>3. QED
    BY <2>1, <2>2
<1>7. QED
  BY <1>3, <1>4, <1>5, <1>6 DEF FileInv

LEMMA WriteNewlineInv ==
  ASSUME FileInv, NEW a \in Appender, WriteNewline(a)
  PROVE  FileInv'
<1>1. /\ a \in half /\ body' = Append(body, Newline) /\ half' = half \ {a}
      /\ UNCHANGED <<header, copied, opened, appended, overlapped, remnant, exposed, crashes>>
      /\ body \in Seq(FilePiece) /\ appended \in Nat
  BY DEF FileInv, FileShape, WriteNewline
<1>2. FileShape'
  BY <1>1, AppendedPiece, PiecesApart DEF FileInv, FileShape
<1>3. CleanPart'
  BY <1>1, NewlineAtEnd DEF FileInv, CleanPart, Sound
<1>4. OrderPart'
  <2>1. ~ remnant => Ascends(body', appended)
    BY <1>1, OrderedAppend, PiecesApart DEF FileInv, OrderPart
  <2>2. QED
    BY <1>1, <2>1 DEF FileInv, OrderPart
<1>5. KeptPart'
  <2>1. \A m : Occurs(m, body) => Occurs(m, body')
    BY <1>1, OccursAtEnd, PiecesApart
  <2>2. QED
    BY <1>1, <2>1 DEF FileInv, KeptPart, Sound
<1>6. QED
  BY <1>2, <1>3, <1>4, <1>5 DEF FileInv

LEMMA ReadForHeaderInv ==
  ASSUME FileInv, NEW r \in Rewriter, ReadForHeader(r)
  PROVE  FileInv'
<1>1. PICK t : t = Lines(body)
  OBVIOUS
<1>2. /\ copied' = [copied EXCEPT ![r] = [is |-> TRUE, text |-> t]]
      /\ UNCHANGED <<header, body, half, opened, appended, overlapped, remnant, exposed, crashes>>
      /\ body \in Seq(FilePiece) /\ appended \in Nat /\ Ascends(body, appended)
      /\ header
  BY <1>1 DEF FileInv, FileShape, ReadForHeader, OrderPart
<1>3. t \in Seq(FilePiece) /\ Ascends(t, appended) /\ (Clean(body) => Clean(t) /\ Closed(t))
  BY <1>1, <1>2, LinesOfText
<1>4. \A q \in Rewriter : copied'[q] = IF q = r THEN [is |-> TRUE, text |-> t] ELSE copied[q]
  BY <1>2 DEF FileInv, FileShape
<1>5. FileShape'
  BY <1>2, <1>3, <1>4 DEF FileInv, FileShape
<1>6. CleanPart'
  BY <1>2, <1>3, <1>4 DEF FileInv, CleanPart, Sound
<1>7. OrderPart'
  BY <1>2, <1>3, <1>4 DEF FileInv, OrderPart
<1>8. KeptPart'
  <2>1. \A m : Occurs(m, body) => Occurs(m, t)
    BY <1>1, <1>2, OccursInLines
  <2>2. QED
    BY <1>2, <1>4, <2>1 DEF FileInv, KeptPart, Sound
<1>9. QED
  BY <1>5, <1>6, <1>7, <1>8 DEF FileInv

LEMMA EmptyFileInv ==
  ASSUME FileInv, NEW r \in Rewriter, EmptyFile(r)
  PROVE  FileInv'
<1>1. /\ copied[r].is /\ opened' = opened \cup {r} /\ ~ header' /\ header' \in BOOLEAN
      /\ body' = <<>>
      /\ UNCHANGED <<half, copied, appended, overlapped, remnant, exposed, crashes>>
  BY DEF EmptyFile
<1>2. body' \in Seq(FilePiece) /\ Len(body') = 0
  BY <1>1
<1>3. FileShape'
  BY <1>1, <1>2 DEF FileInv, FileShape
<1>4. CleanPart'
  BY <1>1, <1>2 DEF FileInv, CleanPart, Sound, Clean, Closed
<1>5. OrderPart'
  <2>1. Ascends(body', appended)
    BY <1>2 DEF Ascends
  <2>2. QED
    BY <1>1, <2>1 DEF FileInv, OrderPart
<1>6. KeptPart'
  BY <1>1 DEF FileInv, KeptPart, Sound
<1>7. QED
  BY <1>3, <1>4, <1>5, <1>6 DEF FileInv

LEMMA WriteHeaderInv ==
  ASSUME FileInv, NEW r \in Rewriter, WriteHeader(r)
  PROVE  FileInv'
<1>1. copied[r].is /\ r \in opened
  BY DEF FileInv, FileShape, WriteHeader
<1>2. PICK t \in Seq(FilePiece) : t = copied[r].text
  BY <1>1, CopiedText DEF FileInv
<1>3. PICK left \in Rests : body' = t \o left /\ remnant' = (remnant \/ left # <<>>)
  BY <1>2 DEF WriteHeader
<1>4. /\ header' = TRUE /\ opened' = opened \ {r}
      /\ copied' = [copied EXCEPT ![r] = Nothing]
      /\ UNCHANGED <<half, appended, overlapped, exposed, crashes>>
  BY DEF WriteHeader
<1>5. left \in Seq(FilePiece)
  BY RestIsText DEF FileInv
<1>6. body' \in Seq(FilePiece) /\ remnant' \in BOOLEAN
  BY <1>2, <1>3, <1>5 DEF FileInv, FileShape
<1>7. \A q \in Rewriter : copied'[q] = IF q = r THEN Nothing ELSE copied[q]
  BY <1>4 DEF FileInv, FileShape
<1>8. ~ Nothing.is
  BY DEF Nothing
<1>9. FileShape'
  BY <1>4, <1>6, <1>7 DEF FileInv, FileShape
<1>10. ~ remnant' => ~ remnant /\ body' = t
  <2>1. t \o <<>> = t
    BY <1>2
  <2>2. CASE left = <<>>
    BY <1>3, <2>1, <2>2
  <2>3. CASE left # <<>>
    BY <1>3, <2>3
  <2>4. QED
    BY <2>2, <2>3
<1>11. CleanPart'
  BY <1>1, <1>2, <1>4, <1>7, <1>8, <1>10 DEF FileInv, CleanPart, Sound
<1>12. OrderPart'
  BY <1>1, <1>2, <1>4, <1>7, <1>8, <1>10 DEF FileInv, OrderPart
<1>13. KeptPart'
  BY <1>1, <1>2, <1>4, <1>7, <1>8, <1>10 DEF FileInv, KeptPart, Sound
<1>14. QED
  BY <1>9, <1>11, <1>12, <1>13 DEF FileInv

LEMMA CrashInv == FileInv /\ Crash => FileInv'
<1> SUFFICES ASSUME FileInv, Crash PROVE FileInv'
  OBVIOUS
<1>1. /\ crashes' \in 0 .. MaxCrashes /\ crashes' # 0
      /\ half' = {} /\ opened' = {} /\ copied' = [r \in Rewriter |-> Nothing]
      /\ UNCHANGED <<header, overlapped, remnant, exposed>>
  BY FileBounds DEF FileInv, FileShape, Crash
<1>2. /\ \A r \in Rewriter : ~ copied'[r].is
      /\ copied' \in [Rewriter -> {Nothing} \cup [is : {TRUE}, text : Seq(FilePiece)]]
  BY <1>1 DEF Nothing
<1>3. CleanPart' /\ KeptPart'
  BY <1>1 DEF CleanPart, KeptPart, Sound
<1>4. appended \in Nat /\ body \in Seq(FilePiece) /\ exposed \subseteq (1 .. appended)
  BY DEF FileInv, FileShape
<1>5. /\ body' \in Seq(FilePiece) /\ appended' \in 0 .. MaxAppends
      /\ exposed \subseteq (1 .. appended')
      /\ ~ remnant => Ascends(body', appended')
  <2>1. CASE UNCHANGED <<body, appended>>
    BY <2>1 DEF FileInv, FileShape, OrderPart
  <2>2. CASE /\ appended < MaxAppends
             /\ appended' = appended + 1
             /\ body' = Append(body, Torn)
    <3>1. appended' \in Nat /\ appended <= appended' /\ appended' \in 0 .. MaxAppends
      BY <1>4, <2>2, FileBounds
    <3>2. ~ remnant => Ascends(body', appended')
      BY <1>4, <2>2, <3>1, OrderedAppend, PiecesApart DEF FileInv, OrderPart
    <3>3. body' \in Seq(FilePiece)
      BY <1>4, <2>2, AppendedPiece, PiecesApart
    <3>4. exposed \subseteq (1 .. appended')
      BY <1>4, <3>1
    <3>5. QED
      BY <3>1, <3>2, <3>3, <3>4
  <2>3. QED
    BY <2>1, <2>2 DEF Crash
<1>6. FileShape'
  BY <1>1, <1>2, <1>5 DEF FileInv, FileShape
<1>7. OrderPart'
  BY <1>1, <1>2, <1>5 DEF OrderPart
<1>8. QED
  BY <1>3, <1>6, <1>7 DEF FileInv

LEMMA FileStep == FileInv /\ [FileNext]_fileVars => FileInv'
<1> SUFFICES ASSUME FileInv, [FileNext]_fileVars PROVE FileInv'
  OBVIOUS
<1>1. CASE UNCHANGED fileVars
  BY <1>1 DEF fileVars, FileInv, FileShape, CleanPart, OrderPart, KeptPart, Sound
<1>2. CASE FileNext
  BY <1>2, WriteMessageInv, WriteNewlineInv, ReadForHeaderInv, EmptyFileInv, WriteHeaderInv,
     CrashInv DEF FileNext
<1>3. QED
  BY <1>1, <1>2

\* Whenever no rewrite is between emptying the file and writing it, the session loads and
\* has every message but those that were appended while a rewriter had its copy; unless a
\* process has died, a rewrite has left behind its text a rest of what others wrote in
\* between, or (for the loading) two turns have appended at once.  What is left after any
\* rewrites is in order.  Whatever the number of turns, rewriters and messages.
THEOREM SessionLoadsInOrder ==
  FileSpec => [](FileTypeOK /\ LoadsUnlessCrashed /\ OrderKept /\ LostToRewriteOnly)
<1>1. FileInv => FileTypeOK
  BY DEF FileInv, FileShape, FileTypeOK, FilePiece
<1>2. FileInv => LoadsUnlessCrashed
  <2> SUFFICES ASSUME FileInv, Sound, ~ overlapped, opened = {} PROVE Parses
    BY DEF LoadsUnlessCrashed
  <2>1. header /\ Clean(body) /\ Len(body) \in Nat
    BY DEF FileInv, CleanPart, KeptPart, FileShape
  <2>2. ASSUME NEW i \in 1 .. Len(body), body[i] # Newline
        PROVE  body[i] \in Messages /\ (i = Len(body) \/ body[i + 1] = Newline)
    BY <2>1, <2>2 DEF Clean
  <2>3. QED
    BY <2>1, <2>2 DEF Parses, Starts
<1>3. FileInv => OrderKept
  BY DEF FileInv, OrderPart, Ascends, OrderKept
<1>4. FileInv => LostToRewriteOnly
  BY DEF FileInv, KeptPart, Occurs, LostToRewriteOnly
<1>5. QED
  BY <1>1, <1>2, <1>3, <1>4, FileInitInv, FileStep, PTL DEF FileSpec
------------------------------------------------------------------------------
(***************************************************************************)
(* omt's terminal UI: what it shows of a task, with what is still in the   *)
(* feed, is what the scheduler has last said of it.                        *)
(***************************************************************************)

TaskShown == Ended \cup Waits \cup {"Running"}

FeedEvent == [run : Nat, task : PlanTask, says : TaskShown]

Concerns(e, r, t) == e.run = r /\ e.task = t

\* The last event of f about t in run r says v.
Tells(f, r, t, v) ==
  \E i \in 1 .. Len(f) :
    /\ Concerns(f[i], r, t) /\ f[i].says = v
    /\ \A j \in i + 1 .. Len(f) : ~ Concerns(f[j], r, t)

SaysNothing(f, r, t) == \A i \in 1 .. Len(f) : ~ Concerns(f[i], r, t)

\* What the view w will show of t when it has taken all of f.
WillShow(f, w, r, t, v) == Tells(f, r, t, v) \/ (SaysNothing(f, r, t) /\ w[t] = v)

DashShape ==
  /\ screen \in {"Input", "PlanReview", "Running", "Finished", "gone"}
  /\ turnOf \in {"key", "drain", "check"}
  /\ DOMAIN view \subseteq PlanTask
  /\ scheduler \in {"none", "running", "over"}
  /\ truth \in [PlanTask -> TaskShown]
  /\ unannounced \subseteq PlanTask
  /\ planned \in Nat
  /\ feed \in Seq(FeedEvent) /\ Len(feed) <= OmtCapacity

\* A run has its scheduler behind it until it is on the screen as finished, and events
\* of a plan that is not yet approved do not exist.
DashPhases ==
  /\ scheduler # "none" => screen \in {"Running", "gone"}
  /\ \A i \in 1 .. Len(feed) : feed[i].run <= planned
  /\ screen = "PlanReview" =>
       /\ view = [t \in PlanTask |-> "Pending"]
       /\ \A i \in 1 .. Len(feed) : feed[i].run < planned

\* In run r, where the states are s and n are the tasks that ended without an event.
Tracked(f, w, r, s, n, t) ==
  IF t \in n
    THEN s[t] \in {"Failed", "Cancelled"} /\ \E v \in Waits : WillShow(f, w, r, t, v)
    ELSE WillShow(f, w, r, t, s[t])

DashTracks ==
  screen \in {"Running", "Finished"} =>
    /\ view \in [PlanTask -> TaskShown]
    /\ missed \/ \A t \in PlanTask : Tracked(feed, view, planned, truth, unannounced, t)

DashInv == DashShape /\ DashPhases /\ DashTracks

LEMMA FeedAppended ==
  ASSUME NEW f \in Seq(FeedEvent), NEW e \in FeedEvent
  PROVE  /\ Append(f, e) \in Seq(FeedEvent) /\ Len(Append(f, e)) = Len(f) + 1 /\ Len(f) \in Nat
         /\ Append(f, e)[Len(f) + 1] = e /\ \A i \in 1 .. Len(f) : Append(f, e)[i] = f[i]
  OBVIOUS

LEMMA FeedTaken ==
  ASSUME NEW f \in Seq(FeedEvent), f # <<>>
  PROVE  /\ Tail(f) \in Seq(FeedEvent) /\ Len(Tail(f)) = Len(f) - 1 /\ Len(f) \in Nat \ {0}
         /\ Head(f) = f[1] /\ Head(f) \in FeedEvent
         /\ \A i \in 1 .. Len(f) - 1 : Tail(f)[i] = f[i + 1]
  OBVIOUS

LEMMA FeedRuns ==
  ASSUME NEW f \in Seq(FeedEvent)
  PROVE  \A i \in 1 .. Len(f) : f[i].run \in Nat
<1>1. \A i \in 1 .. Len(f) : f[i] \in FeedEvent
  OBVIOUS
<1>2. QED
  BY <1>1 DEF FeedEvent

\* The event that has just been sent is the last one about its task.
LEMMA SentTells ==
  ASSUME NEW f \in Seq(FeedEvent), NEW e \in FeedEvent
  PROVE  Tells(Append(f, e), e.run, e.task, e.says)
<1>1. PICK g : g = Append(f, e)
  OBVIOUS
<1>2. Len(g) = Len(f) + 1 /\ Len(f) \in Nat /\ g[Len(f) + 1] = e
  BY <1>1, FeedAppended
<1>3. Len(g) \in 1 .. Len(g) /\ Concerns(g[Len(g)], e.run, e.task) /\ g[Len(g)].says = e.says
  BY <1>2 DEF Concerns
<1>4. \A j \in Len(g) + 1 .. Len(g) : FALSE
  BY <1>2
<1>5. QED
  BY <1>1, <1>3, <1>4 DEF Tells

\* It says nothing of the others.
LEMMA SentToOthers ==
  ASSUME NEW f \in Seq(FeedEvent), NEW e \in FeedEvent, NEW r \in Nat, NEW t \in PlanTask,
         NEW w, NEW v, WillShow(f, w, r, t, v), ~ Concerns(e, r, t)
  PROVE  WillShow(Append(f, e), w, r, t, v)
<1>1. PICK g : g = Append(f, e)
  OBVIOUS
<1>2. /\ Len(g) = Len(f) + 1 /\ Len(f) \in Nat /\ g[Len(f) + 1] = e
      /\ \A i \in 1 .. Len(f) : g[i] = f[i]
  BY <1>1, FeedAppended
<1>3. \A i \in 1 .. Len(g) : i \in 1 .. Len(f) \/ i = Len(f) + 1
  BY <1>2
<1>4. CASE SaysNothing(f, r, t) /\ w[t] = v
  <2>1. SaysNothing(g, r, t)
    BY <1>2, <1>3, <1>4 DEF SaysNothing
  <2>2. QED
    BY <1>1, <1>4, <2>1 DEF WillShow
<1>5. ASSUME NEW i \in 1 .. Len(f), Concerns(f[i], r, t), f[i].says = v,
             \A j \in i + 1 .. Len(f) : ~ Concerns(f[j], r, t)
      PROVE  Tells(g, r, t, v)
  <2>1. i \in 1 .. Len(g) /\ g[i] = f[i]
    BY <1>2
  <2>2. ASSUME NEW j \in i + 1 .. Len(g)
        PROVE  ~ Concerns(g[j], r, t)
    <3>1. CASE j = Len(f) + 1
      BY <1>2, <3>1
    <3>2. CASE j # Len(f) + 1
      <4>1. j \in i + 1 .. Len(f) /\ j \in 1 .. Len(f)
        BY <1>2, <3>2
      <4>2. QED
        BY <1>2, <1>5, <4>1
    <3>3. QED
      BY <3>1, <3>2
  <2>3. QED
    BY <1>5, <2>1, <2>2 DEF Tells
<1>6. QED
  BY <1>1, <1>4, <1>5 DEF WillShow, Tells

\* Taking an event moves what it says from the feed to the view.
LEMMA TakenShows ==
  ASSUME NEW f \in Seq(FeedEvent), f # <<>>, NEW r \in Nat, NEW t \in PlanTask,
         NEW w \in [PlanTask -> TaskShown], NEW v, WillShow(f, w, r, t, v),
         NEW u \in [PlanTask -> TaskShown],
         u[t] = IF Concerns(Head(f), r, t) THEN Head(f).says ELSE w[t]
  PROVE  WillShow(Tail(f), u, r, t, v)
<1>1. PICK g : g = Tail(f)
  OBVIOUS
<1>2. /\ Len(g) = Len(f) - 1 /\ Len(f) \in Nat \ {0} /\ Head(f) = f[1]
      /\ \A i \in 1 .. Len(f) - 1 : g[i] = f[i + 1]
  BY <1>1, FeedTaken
<1>3. \A i \in 1 .. Len(g) : i + 1 \in 1 .. Len(f) /\ i \in 1 .. Len(f) - 1
  BY <1>2
<1>4. CASE SaysNothing(f, r, t) /\ w[t] = v
  <2>1. SaysNothing(g, r, t)
    BY <1>2, <1>3, <1>4 DEF SaysNothing
  <2>2. 1 \in 1 .. Len(f)
    BY <1>2
  <2>3. u[t] = v
    BY <1>2, <1>4, <2>2 DEF SaysNothing
  <2>4. QED
    BY <1>1, <2>1, <2>3 DEF WillShow
<1>5. ASSUME NEW i \in 1 .. Len(f), Concerns(f[i], r, t), f[i].says = v,
             \A j \in i + 1 .. Len(f) : ~ Concerns(f[j], r, t)
      PROVE  WillShow(g, u, r, t, v)
  <2>1. CASE i = 1
    <3>1. \A j \in 1 .. Len(g) : j + 1 \in i + 1 .. Len(f) /\ g[j] = f[j + 1]
      BY <1>2, <2>1
    <3>2. SaysNothing(g, r, t)
      BY <1>5, <3>1 DEF SaysNothing
    <3>3. u[t] = v
      BY <1>2, <1>5, <2>1
    <3>4. QED
      BY <3>2, <3>3 DEF WillShow
  <2>2. CASE i # 1
    <3>1. i - 1 \in 1 .. Len(g) /\ g[i - 1] = f[i]
      <4>1. i - 1 \in 1 .. Len(f) - 1 /\ (i - 1) + 1 = i
        BY <1>2, <2>2
      <4>2. QED
        BY <1>2, <4>1
    <3>2. \A j \in (i - 1) + 1 .. Len(g) : j + 1 \in i + 1 .. Len(f) /\ g[j] = f[j + 1]
      BY <1>2, <2>2
    <3>3. \A j \in (i - 1) + 1 .. Len(g) : ~ Concerns(g[j], r, t)
      BY <1>5, <3>2
    <3>4. Tells(g, r, t, v)
      BY <1>5, <3>1, <3>3 DEF Tells
    <3>5. QED
      BY <3>4 DEF WillShow
  <2>3. QED
    BY <2>1, <2>2
<1>6. QED
  BY <1>1, <1>4, <1>5 DEF WillShow, Tells

\* What the view will show is one state.
LEMMA WillShowOne ==
  ASSUME NEW f \in Seq(FeedEvent), f = <<>>, NEW r, NEW t, NEW w, NEW v, WillShow(f, w, r, t, v)
  PROVE  w[t] = v
  BY DEF WillShow, Tells

LEMMA InitDash == DashInit => DashInv
<1> SUFFICES ASSUME DashInit PROVE DashInv
  OBVIOUS
<1>1. DashShape
  <2>1. DOMAIN view = {}
    BY DEF DashInit, NoView
  <2>2. truth \in [PlanTask -> TaskShown]
    BY DEF DashInit, TaskShown, Waits
  <2>3. feed \in Seq(FeedEvent) /\ Len(feed) = 0
    BY DEF DashInit
  <2>4. QED
    BY <2>1, <2>2, <2>3, DashboardBounds DEF DashInit, DashShape
<1>2. DashPhases /\ DashTracks
  <2>1. \A i \in 1 .. Len(feed) : FALSE
    BY DEF DashInit
  <2>2. QED
    BY <2>1 DEF DashInit, DashPhases, DashTracks
<1>3. QED
  BY <1>1, <1>2 DEF DashInv

\* Steps that neither run the scheduler nor touch what is shown.
LEMMA QuietDash ==
  ASSUME DashInv, UNCHANGED <<view, runVars, feed, missed>>,
         screen' = screen \/ screen' = "gone" \/ (screen' = "Input" /\ screen \in {"PlanReview", "Finished"}),
         turnOf' \in {"key", "drain", "check"}
  PROVE  DashInv'
<1>1. /\ view' = view /\ planned' = planned /\ scheduler' = scheduler /\ truth' = truth
      /\ unannounced' = unannounced /\ feed' = feed /\ missed' = missed
  BY DEF runVars
<1>2. DashShape'
  BY <1>1 DEF DashInv, DashShape
<1>3. DashPhases'
  BY <1>1 DEF DashInv, DashPhases
<1>4. DashTracks'
  BY <1>1 DEF DashInv, DashTracks
<1>5. QED
  BY <1>2, <1>3, <1>4 DEF DashInv

LEMMA SubmitDash ==
  ASSUME DashInv, SubmitPrompt
  PROVE  DashInv'
<1>1. CASE screen' = "gone" /\ UNCHANGED <<view, planned>>
  BY <1>1, QuietDash DEF SubmitPrompt, Key, feedVars, runVars
<1>2. CASE /\ screen' = "PlanReview"
           /\ view' = [t \in PlanTask |-> "Pending"]
           /\ planned' = planned + 1
  <2>1. /\ scheduler' = scheduler /\ truth' = truth /\ unannounced' = unannounced
        /\ feed' = feed /\ turnOf' = "drain" /\ screen = "Input"
    BY DEF SubmitPrompt, Key, feedVars
  <2>2. DashShape'
    BY <1>2, <2>1 DEF DashInv, DashShape
  <2>3. planned \in Nat /\ \A i \in 1 .. Len(feed) : feed[i].run \in Nat
    BY FeedRuns DEF DashInv, DashShape
  <2>4. \A i \in 1 .. Len(feed) : feed[i].run < planned + 1 /\ feed[i].run <= planned + 1
    BY <2>3 DEF DashInv, DashPhases
  <2>5. DashPhases'
    BY <1>2, <2>1, <2>4 DEF DashInv, DashPhases
  <2>6. DashTracks'
    BY <1>2 DEF DashTracks
  <2>7. QED
    BY <2>2, <2>5, <2>6 DEF DashInv
<1>3. QED
  BY <1>1, <1>2 DEF SubmitPrompt

LEMMA ApproveDash ==
  ASSUME DashInv, Approve
  PROVE  DashInv'
<1>1. CASE screen' = "gone" /\ UNCHANGED <<scheduler, truth, unannounced, exhausted, missed>>
  BY <1>1, QuietDash DEF Approve, Key, runVars
<1>2. CASE /\ screen' = "Running" /\ scheduler' = "running"
           /\ truth' = [t \in PlanTask |-> "Pending"]
           /\ unannounced' = {} /\ exhausted' = FALSE /\ missed' = lagging
  <2>1. view' = view /\ planned' = planned /\ feed' = feed /\ turnOf' = "drain" /\ screen = "PlanReview"
    BY DEF Approve, Key
  <2>2. view = [t \in PlanTask |-> "Pending"] /\ \A i \in 1 .. Len(feed) : feed[i].run < planned
    BY <2>1 DEF DashInv, DashPhases
  <2>3. DashShape'
    BY <1>2, <2>1 DEF DashInv, DashShape, TaskShown, Waits
  <2>4. DashPhases'
    BY <1>2, <2>1 DEF DashInv, DashPhases
  <2>5. \A i \in 1 .. Len(feed) : feed[i].run # planned
    <3>1. planned \in Nat /\ \A i \in 1 .. Len(feed) : feed[i].run \in Nat
      BY FeedRuns DEF DashInv, DashShape
    <3>2. QED
      BY <2>2, <3>1
  <2>6. ASSUME NEW t \in PlanTask
        PROVE  Tracked(feed, view, planned, [u \in PlanTask |-> "Pending"], {}, t)
    <3>1. SaysNothing(feed, planned, t)
      BY <2>5 DEF SaysNothing, Concerns
    <3>2. QED
      BY <2>2, <3>1 DEF Tracked, WillShow
  <2>7. view \in [PlanTask -> TaskShown]
    BY <2>2 DEF TaskShown, Waits
  <2>8. DashTracks'
    BY <1>2, <2>1, <2>6, <2>7 DEF DashTracks
  <2>9. QED
    BY <2>3, <2>4, <2>8 DEF DashInv
<1>3. QED
  BY <1>1, <1>2 DEF Approve

LEMMA DrainDash ==
  ASSUME DashInv, DrainOne
  PROVE  DashInv'
<1>1. /\ feed # <<>> /\ view' = Shows(Head(feed)) /\ feed' = Tail(feed)
      /\ screen' = screen /\ turnOf' = turnOf /\ planned' = planned /\ scheduler' = scheduler
      /\ truth' = truth /\ unannounced' = unannounced /\ missed' = missed
  BY DEF DrainOne, runVars
<1>2. /\ DOMAIN view \subseteq PlanTask /\ feed \in Seq(FeedEvent) /\ Len(feed) <= OmtCapacity
      /\ planned \in Nat
  BY DEF DashInv, DashShape
<1>3. /\ Tail(feed) \in Seq(FeedEvent) /\ Len(Tail(feed)) = Len(feed) - 1 /\ Len(feed) \in Nat \ {0}
      /\ Head(feed) = feed[1] /\ Head(feed) \in FeedEvent
      /\ \A i \in 1 .. Len(feed) - 1 : Tail(feed)[i] = feed[i + 1]
  BY <1>1, <1>2, FeedTaken
<1>4. DOMAIN Shows(Head(feed)) = DOMAIN view
  BY DEF Shows
<1>5. OmtCapacity \in Nat
  BY DashboardBounds
<1>6. Len(Tail(feed)) <= OmtCapacity
  BY <1>2, <1>3, <1>5
<1>7. DashShape'
  BY <1>1, <1>2, <1>3, <1>4, <1>6 DEF DashInv, DashShape
<1>8. \A i \in 1 .. Len(Tail(feed)) : i + 1 \in 1 .. Len(feed) /\ Tail(feed)[i] = feed[i + 1]
  BY <1>3
<1>9. screen = "PlanReview" => Shows(Head(feed)) = view
  <2>1. SUFFICES ASSUME screen = "PlanReview"
                 PROVE  Shows(Head(feed)) = view
    OBVIOUS
  <2>2. 1 \in 1 .. Len(feed) /\ feed[1].run < planned /\ feed[1].run \in Nat
    BY <1>3, <2>1 DEF DashInv, DashPhases, FeedEvent
  <2>3. Head(feed).run # planned
    BY <1>2, <1>3, <2>2
  <2>4. QED
    BY <2>3 DEF Shows
<1>10. DashPhases'
  BY <1>1, <1>8, <1>9 DEF DashInv, DashPhases
<1>11. ASSUME screen \in {"Running", "Finished"}
       PROVE  /\ Shows(Head(feed)) \in [PlanTask -> TaskShown]
              /\ missed \/ \A t \in PlanTask :
                   Tracked(Tail(feed), Shows(Head(feed)), planned, truth, unannounced, t)
  <2>1. view \in [PlanTask -> TaskShown]
    BY <1>11 DEF DashInv, DashTracks
  <2>2. PICK e \in FeedEvent : e = Head(feed)
    BY <1>3
  <2>3. e.run \in Nat /\ e.task \in PlanTask /\ e.says \in TaskShown
    BY DEF FeedEvent
  <2>4. PICK u : u = Shows(e)
    OBVIOUS
  <2>5. u = IF e.run = planned THEN [view EXCEPT ![e.task] = e.says] ELSE view
    BY <2>1, <2>3, <2>4 DEF Shows
  <2>6. u \in [PlanTask -> TaskShown]
    BY <2>1, <2>3, <2>5
  <2>7. \A t \in PlanTask : u[t] = IF Concerns(e, planned, t) THEN e.says ELSE view[t]
    BY <2>1, <2>3, <2>5 DEF Concerns
  <2>8. ASSUME NEW t \in PlanTask, NEW v, WillShow(feed, view, planned, t, v)
        PROVE  WillShow(Tail(feed), u, planned, t, v)
    <3>1. u[t] = IF Concerns(Head(feed), planned, t) THEN Head(feed).says ELSE view[t]
      BY <2>2, <2>7
    <3>2. QED
      BY <1>1, <1>2, <2>1, <2>6, <2>8, <3>1, TakenShows
  <2>9. ASSUME NEW t \in PlanTask, Tracked(feed, view, planned, truth, unannounced, t)
        PROVE  Tracked(Tail(feed), u, planned, truth, unannounced, t)
    BY <2>8, <2>9 DEF Tracked
  <2>10. missed \/ \A t \in PlanTask : Tracked(feed, view, planned, truth, unannounced, t)
    BY <1>11 DEF DashInv, DashTracks
  <2>11. QED
    BY <2>2, <2>4, <2>6, <2>9, <2>10
<1>12. DashTracks'
  BY <1>1, <1>11 DEF DashTracks
<1>13. QED
  BY <1>7, <1>10, <1>12 DEF DashInv

LEMMA CheckDash ==
  ASSUME DashInv, CheckScheduler
  PROVE  DashInv'
<1>1. /\ view' = view /\ planned' = planned /\ truth' = truth /\ unannounced' = unannounced
      /\ feed' = feed /\ missed' = missed /\ turnOf' = "key"
      /\ IF scheduler = "over" THEN screen' = "Finished" /\ scheduler' = "none"
                               ELSE screen' = screen /\ scheduler' = scheduler
      /\ screen # "gone"
  BY DEF CheckScheduler, feedVars
<1>2. scheduler = "over" => screen = "Running"
  BY <1>1 DEF DashInv, DashPhases
<1>3. DashShape'
  BY <1>1 DEF DashInv, DashShape
<1>4. DashPhases'
  BY <1>1 DEF DashInv, DashPhases
<1>5. DashTracks'
  BY <1>1, <1>2 DEF DashInv, DashTracks
<1>6. QED
  BY <1>3, <1>4, <1>5 DEF DashInv

\* The scheduler changes states and tells of one task: its event is in the feed.  The
\* tasks that it ends without an event were waiting.
LEMMA AnnounceDash ==
  ASSUME DashInv, RunsOn, NEW t \in PlanTask, NEW v \in TaskShown, Announce(t, v),
         UNCHANGED <<screen, turnOf, view, planned, scheduler>>,
         truth' \in [PlanTask -> TaskShown], truth'[t] = v,
         truth[t] \notin {"Failed", "Cancelled"},
         NEW silent \in SUBSET (PlanTask \ {t}), unannounced' = unannounced \cup silent,
         \A d \in silent : truth[d] = "Pending" /\ truth'[d] \in {"Failed", "Cancelled"},
         \A d \in PlanTask \ (silent \cup {t}) : truth'[d] = truth[d]
  PROVE  DashInv'
<1> DEFINE e == [run |-> planned, task |-> t, says |-> v]
<1>1. /\ screen' = screen /\ turnOf' = turnOf /\ view' = view /\ planned' = planned
      /\ scheduler' = scheduler /\ screen = "Running"
  BY DEF RunsOn, DashInv, DashPhases
<1>2. /\ feed \in Seq(FeedEvent) /\ Len(feed) <= OmtCapacity /\ planned \in Nat
      /\ unannounced \subseteq PlanTask /\ truth \in [PlanTask -> TaskShown]
      /\ Len(feed) \in Nat /\ OmtCapacity \in Nat \ {0}
  BY DashboardBounds DEF DashInv, DashShape
<1>3. e \in FeedEvent
  BY <1>2 DEF FeedEvent
<1>4. PICK f : f = IF Len(feed) < OmtCapacity THEN feed ELSE Tail(feed)
  OBVIOUS
<1>5. f \in Seq(FeedEvent) /\ Len(f) < OmtCapacity /\ \A i \in 1 .. Len(f) : f[i].run <= planned
  <2>1. \A i \in 1 .. Len(feed) : feed[i].run <= planned
    BY DEF DashInv, DashPhases
  <2>2. CASE Len(feed) < OmtCapacity
    BY <1>2, <1>4, <2>1, <2>2
  <2>3. CASE ~ (Len(feed) < OmtCapacity)
    <3>1. feed # <<>> /\ f = Tail(feed) /\ Len(feed) = OmtCapacity
      BY <1>2, <1>4, <2>3
    <3>2. /\ Tail(feed) \in Seq(FeedEvent) /\ Len(Tail(feed)) = Len(feed) - 1
          /\ \A i \in 1 .. Len(feed) - 1 : Tail(feed)[i] = feed[i + 1]
      BY <1>2, <3>1, FeedTaken
    <3>3. \A i \in 1 .. Len(feed) - 1 : i + 1 \in 1 .. Len(feed)
      BY <1>2
    <3>4. QED
      BY <1>2, <2>1, <3>1, <3>2, <3>3
  <2>4. QED
    BY <2>2, <2>3
<1>6. feed' = Append(f, e) /\ missed' = (missed \/ Len(feed) = OmtCapacity)
  BY <1>4 DEF Announce
<1> HIDE DEF e
<1>7. /\ Append(f, e) \in Seq(FeedEvent) /\ Len(Append(f, e)) = Len(f) + 1 /\ Len(f) \in Nat
      /\ Append(f, e)[Len(f) + 1] = e /\ \A i \in 1 .. Len(f) : Append(f, e)[i] = f[i]
  BY <1>3, <1>5, FeedAppended
<1>8. DashShape'
  <2>1. Len(f) + 1 <= OmtCapacity
    BY <1>2, <1>5, <1>7
  <2>2. unannounced' \subseteq PlanTask
    BY <1>2
  <2>3. QED
    BY <1>1, <1>6, <1>7, <2>1, <2>2 DEF DashInv, DashShape
<1>9. DashPhases'
  <2>1. e.run = planned
    BY DEF e
  <2>2. \A i \in 1 .. Len(f) + 1 : i \in 1 .. Len(f) \/ i = Len(f) + 1
    BY <1>7
  <2>3. \A i \in 1 .. Len(Append(f, e)) : Append(f, e)[i].run <= planned
    BY <1>2, <1>5, <1>7, <2>1, <2>2
  <2>4. QED
    BY <1>1, <1>6, <2>3 DEF DashInv, DashPhases
<1>10. view \in [PlanTask -> TaskShown] /\ (missed \/ \A d \in PlanTask : Tracked(feed, view, planned, truth, unannounced, d))
  BY <1>1 DEF DashInv, DashTracks
<1>11. ASSUME ~ missed', NEW d \in PlanTask
       PROVE  Tracked(Append(f, e), view, planned, truth', unannounced', d)
  <2>1. f = feed /\ Tracked(feed, view, planned, truth, unannounced, d)
    <3>1. ~ missed /\ Len(feed) # OmtCapacity
      BY <1>6, <1>11, Zenon
    <3>2. Tracked(feed, view, planned, truth, unannounced, d)
      BY <1>10, <3>1
    <3>3. f = feed
      BY <1>2, <1>4, <3>1
    <3>4. QED
      BY <3>2, <3>3
  <2>2. CASE d = t
    <3>1. t \notin unannounced'
      BY <2>1, <2>2 DEF Tracked
    <3>2. Tells(Append(f, e), planned, t, v)
      <4>1. e.run = planned /\ e.task = t /\ e.says = v
        BY DEF e
      <4>2. Tells(Append(f, e), e.run, e.task, e.says)
        BY <1>3, <1>5, SentTells
      <4>3. QED
        BY <4>1, <4>2
    <3>3. QED
      BY <2>2, <3>1, <3>2 DEF Tracked, WillShow
  <2>3. CASE d # t
    <3>1. ~ Concerns(e, planned, d)
      BY <2>3 DEF e, Concerns
    <3>2. ASSUME NEW x, WillShow(f, view, planned, d, x)
          PROVE  WillShow(Append(f, e), view, planned, d, x)
      BY <1>2, <1>3, <1>5, <3>1, <3>2, SentToOthers
    <3>3. CASE d \in silent /\ d \notin unannounced
      <4>1. truth[d] = "Pending" /\ truth'[d] \in {"Failed", "Cancelled"} /\ d \in unannounced'
        BY <3>3
      <4>2. WillShow(Append(f, e), view, planned, d, "Pending")
        BY <2>1, <3>2, <3>3, <4>1 DEF Tracked
      <4>3. QED
        BY <4>1, <4>2 DEF Tracked, Waits
    <3>4. CASE d \in unannounced
      <4>1. d \notin silent /\ truth'[d] = truth[d] /\ d \in unannounced'
        BY <2>1, <2>3, <3>4 DEF Tracked
      <4>2. QED
        BY <2>1, <3>2, <3>4, <4>1 DEF Tracked
    <3>5. CASE d \notin silent /\ d \notin unannounced
      <4>1. truth'[d] = truth[d] /\ d \notin unannounced'
        BY <2>3, <3>5
      <4>2. QED
        BY <2>1, <3>2, <3>5, <4>1 DEF Tracked
    <3>6. QED
      BY <3>3, <3>4, <3>5
  <2>4. QED
    BY <2>2, <2>3
<1>12. DashTracks'
  BY <1>1, <1>6, <1>10, <1>11 DEF DashTracks
<1>13. QED
  BY <1>8, <1>9, <1>12 DEF DashInv

\* The scheduler ends waiting tasks and tells nobody.
LEMMA SilentDash ==
  ASSUME DashInv, RunsOn,
         UNCHANGED <<screen, turnOf, view, planned, scheduler, feedVars>>,
         truth' \in [PlanTask -> TaskShown],
         NEW silent \in SUBSET PlanTask, unannounced' = unannounced \cup silent,
         \A d \in silent : truth[d] = "Pending" /\ truth'[d] \in {"Failed", "Cancelled"},
         \A d \in PlanTask \ silent : truth'[d] = truth[d]
  PROVE  DashInv'
<1>1. /\ screen' = screen /\ turnOf' = turnOf /\ view' = view /\ planned' = planned
      /\ scheduler' = scheduler /\ feed' = feed /\ missed' = missed /\ screen = "Running"
  BY DEF RunsOn, DashInv, DashPhases, feedVars
<1>2. DashShape'
  BY <1>1 DEF DashInv, DashShape
<1>3. DashPhases'
  BY <1>1 DEF DashInv, DashPhases
<1>4. view \in [PlanTask -> TaskShown] /\ (missed \/ \A d \in PlanTask : Tracked(feed, view, planned, truth, unannounced, d))
  BY <1>1 DEF DashInv, DashTracks
<1>5. ASSUME NEW d \in PlanTask, Tracked(feed, view, planned, truth, unannounced, d)
      PROVE  Tracked(feed, view, planned, truth', unannounced', d)
  <2>1. CASE d \in silent /\ d \notin unannounced
    <3>1. truth[d] = "Pending" /\ truth'[d] \in {"Failed", "Cancelled"} /\ d \in unannounced'
      BY <2>1
    <3>2. WillShow(feed, view, planned, d, "Pending")
      BY <1>5, <2>1, <3>1 DEF Tracked
    <3>3. QED
      BY <3>1, <3>2 DEF Tracked, Waits
  <2>2. CASE d \in unannounced
    <3>1. d \notin silent /\ truth'[d] = truth[d] /\ d \in unannounced'
      BY <1>5, <2>2 DEF Tracked
    <3>2. QED
      BY <1>5, <2>2, <3>1 DEF Tracked
  <2>3. CASE d \notin silent /\ d \notin unannounced
    <3>1. truth'[d] = truth[d] /\ d \notin unannounced'
      BY <2>3
    <3>2. QED
      BY <1>5, <2>3, <3>1 DEF Tracked
  <2>4. QED
    BY <2>1, <2>2, <2>3
<1>6. DashTracks'
  BY <1>1, <1>4, <1>5 DEF DashTracks
<1>7. QED
  BY <1>2, <1>3, <1>6 DEF DashInv

\* One task changes, and is told of.
LEMMA OneTaskDash ==
  ASSUME DashInv, RunsOn, NEW t \in PlanTask, NEW v \in TaskShown, Announce(t, v), Becomes(t, v),
         UNCHANGED <<screen, turnOf, view, planned, scheduler, unannounced>>,
         truth[t] \notin {"Failed", "Cancelled"}
  PROVE  DashInv'
<1>1. truth \in [PlanTask -> TaskShown]
  BY DEF DashInv, DashShape
<1>2. /\ truth' \in [PlanTask -> TaskShown] /\ truth'[t] = v
      /\ \A d \in PlanTask \ {t} : truth'[d] = truth[d]
  BY <1>1 DEF Becomes
<1>3. PICK silent \in SUBSET (PlanTask \ {t}) : silent = {}
  OBVIOUS
<1>4. QED
  BY <1>2, <1>3, AnnounceDash

LEMMA FailsDash ==
  ASSUME DashInv, NEW t \in PlanTask, NEW dependents \in SUBSET PlanTask, Fails(t, dependents)
  PROVE  DashInv'
<1>1. /\ RunsOn /\ dependents \subseteq {d \in PlanTask \ {t} : truth[d] = "Pending"}
      /\ UNCHANGED <<screen, turnOf, view, planned, scheduler>>
  BY DEF Fails
<1>2. truth' = [d \in PlanTask |-> CASE d = t -> "Failed"
                                     [] d \in dependents -> "Cancelled"
                                     [] OTHER -> truth[d]]
  BY DEF Fails
<1>3. /\ truth'[t] = "Failed"
      /\ \A d \in dependents : d # t /\ truth[d] = "Pending" /\ truth'[d] = "Cancelled"
      /\ \A d \in PlanTask \ (dependents \cup {t}) : truth'[d] = truth[d]
  BY <1>1, <1>2
<1>4. truth' \in [PlanTask -> TaskShown]
  <2>1. truth \in [PlanTask -> TaskShown] /\ "Failed" \in TaskShown /\ "Cancelled" \in TaskShown
    BY DEF DashInv, DashShape, TaskShown, Ended
  <2>2. \A d \in PlanTask : truth'[d] \in TaskShown
    BY <1>3, <2>1
  <2>3. QED
    BY <1>2, <2>2
<1>5. CASE Running(t) /\ Announce(t, "Failed") /\ unannounced' = unannounced \cup dependents
  <2>1. dependents \in SUBSET (PlanTask \ {t}) /\ "Failed" \in TaskShown
    BY <1>1 DEF TaskShown, Ended
  <2>2. truth[t] \notin {"Failed", "Cancelled"}
    BY <1>5 DEF Running
  <2>3. QED
    BY <1>1, <1>3, <1>4, <1>5, <2>1, <2>2, AnnounceDash
<1>6. CASE /\ truth[t] = "Pending" /\ UNCHANGED feedVars
           /\ unannounced' = unannounced \cup dependents \cup {t}
  <2>1. PICK silent \in SUBSET PlanTask : silent = dependents \cup {t}
    OBVIOUS
  <2>2. unannounced' = unannounced \cup silent
    BY <1>6, <2>1
  <2>3. /\ \A d \in silent : truth[d] = "Pending" /\ truth'[d] \in {"Failed", "Cancelled"}
        /\ \A d \in PlanTask \ silent : truth'[d] = truth[d]
    BY <1>3, <1>6, <2>1
  <2>4. QED
    BY <1>1, <1>4, <1>6, <2>2, <2>3, SilentDash
<1>7. QED
  BY <1>5, <1>6 DEF Fails

LEMMA EndsDash ==
  ASSUME DashInv, SchedulerEnds
  PROVE  DashInv'
<1>1. /\ view' = view /\ planned' = planned /\ scheduler' = "over" /\ truth' = truth
      /\ unannounced' = unannounced /\ feed' = feed /\ missed' = missed
      /\ screen' = screen /\ turnOf' = turnOf /\ scheduler = "running"
  BY DEF SchedulerEnds, feedVars, RunsOn
<1>2. DashShape'
  BY <1>1 DEF DashInv, DashShape
<1>3. DashPhases'
  BY <1>1 DEF DashInv, DashPhases
<1>4. DashTracks'
  BY <1>1 DEF DashInv, DashTracks
<1>5. QED
  BY <1>2, <1>3, <1>4 DEF DashInv

LEMMA StepDash ==
  ASSUME DashInv, [DashNext]_dashVars
  PROVE  DashInv'
<1> USE DEF Key
<1>1. CASE UNCHANGED dashVars
  BY <1>1, QuietDash DEF dashVars, runVars, DashInv, DashShape
<1>2. CASE NoKey \/ Types \/ HistoryUp \/ HistoryDown
  <2>1. UNCHANGED <<view, runVars, feed, missed>> /\ screen' = screen /\ turnOf' = "drain"
    BY <1>2 DEF NoKey, Types, HistoryUp, HistoryDown, feedVars
  <2>2. QED
    BY <2>1, QuietDash
<1>3. CASE SubmitPrompt
  BY <1>3, SubmitDash
<1>4. CASE Approve
  BY <1>4, ApproveDash
<1>5. CASE Reject \/ NewRun
  <2>1. /\ planned' = planned /\ scheduler' = scheduler /\ truth' = truth /\ exhausted' = exhausted
        /\ unannounced' = unannounced /\ feed' = feed /\ missed' = missed
        /\ view' = NoView /\ screen' = "Input" /\ screen \in {"PlanReview", "Finished"} /\ turnOf' = "drain"
    BY <1>5 DEF Reject, NewRun, runVars, feedVars
  <2>2. DOMAIN NoView \subseteq PlanTask
    BY DEF NoView
  <2>3. DashShape'
    BY <2>1, <2>2 DEF DashInv, DashShape
  <2>4. DashPhases'
    BY <2>1 DEF DashInv, DashPhases
  <2>5. DashTracks'
    BY <2>1 DEF DashTracks
  <2>6. QED
    BY <2>3, <2>4, <2>5 DEF DashInv
<1>6. CASE QuitDashboard
  BY <1>6, QuietDash DEF QuitDashboard, feedVars
<1>7. CASE DrainOne
  BY <1>7, DrainDash
<1>8. CASE DrainEnds
  BY <1>8, QuietDash DEF DrainEnds
<1>9. CASE CheckScheduler
  BY <1>9, CheckDash
<1>10. ASSUME NEW t \in PlanTask, Launches(t)
       PROVE  DashInv'
  <2>1. /\ RunsOn /\ truth[t] \notin {"Failed", "Cancelled"} /\ "Running" \in TaskShown
        /\ Becomes(t, "Running") /\ Announce(t, "Running")
        /\ UNCHANGED <<screen, turnOf, view, planned, scheduler, unannounced>>
    BY <1>10 DEF Launches, Waits, TaskShown
  <2>2. QED
    BY <2>1, OneTaskDash
<1>11. ASSUME NEW t \in PlanTask, NEW s \in {"Completed", "Retrying"}, EndsAs(t, s)
       PROVE  DashInv'
  <2>1. /\ RunsOn /\ truth[t] \notin {"Failed", "Cancelled"} /\ s \in TaskShown
        /\ Becomes(t, s) /\ Announce(t, s)
        /\ UNCHANGED <<screen, turnOf, view, planned, scheduler, unannounced>>
    BY <1>11 DEF EndsAs, Running, Ended, Waits, TaskShown
  <2>2. QED
    BY <2>1, OneTaskDash
<1>12. ASSUME NEW t \in PlanTask, NEW dependents \in SUBSET PlanTask, Fails(t, dependents)
       PROVE  DashInv'
  BY <1>12, FailsDash
<1>13. ASSUME NEW t \in PlanTask, CancelsRest(t)
       PROVE  DashInv'
  <2>1. /\ RunsOn /\ truth[t] \notin {"Failed", "Cancelled"} /\ "Cancelled" \in TaskShown
        /\ Becomes(t, "Cancelled") /\ Announce(t, "Cancelled")
        /\ UNCHANGED <<screen, turnOf, view, planned, scheduler, unannounced>>
    BY <1>13 DEF CancelsRest, Waits, Ended, TaskShown
  <2>2. QED
    BY <2>1, OneTaskDash
<1>14. CASE SchedulerEnds
  BY <1>14, EndsDash
<1>15. QED
  BY <1>1, <1>2, <1>3, <1>4, <1>5, <1>6, <1>7, <1>8, <1>9, <1>10, <1>11, <1>12, <1>13, <1>14
     DEF DashNext

\* A view that tracks the states is drawn, and counted, as the states are.
LEMMA TrackedIsTrue ==
  ASSUME DashInv
  PROVE  ShownIsTrue
<1>1. SUFFICES ASSUME screen = "Finished", feed = <<>>, ~ missed
               PROVE  /\ \A t \in DOMAIN view :
                           IF t \in unannounced THEN view[t] \in Waits ELSE IconOf(view[t]) = IconOf(truth[t])
                      /\ Totals = [completed |-> Cardinality({t \in PlanTask : truth[t] = "Completed"}),
                                   failed    |-> Cardinality({t \in PlanTask \ unannounced :
                                                                truth[t] \in {"Failed", "Cancelled"}}),
                                   of        |-> Cardinality(PlanTask)]
  BY DEF ShownIsTrue
<1>2. /\ view \in [PlanTask -> TaskShown] /\ DOMAIN view = PlanTask /\ feed \in Seq(FeedEvent)
      /\ \A t \in PlanTask : Tracked(feed, view, planned, truth, unannounced, t)
  BY <1>1 DEF DashInv, DashTracks, DashShape
<1>3. ASSUME NEW t \in PlanTask
      PROVE  IF t \in unannounced
               THEN view[t] \in Waits /\ truth[t] \in {"Failed", "Cancelled"}
               ELSE view[t] = truth[t]
  <2>1. \A v : WillShow(feed, view, planned, t, v) => view[t] = v
    BY <1>1, <1>2, WillShowOne
  <2>2. QED
    BY <1>2, <2>1 DEF Tracked
<1>4. \A t \in DOMAIN view :
        IF t \in unannounced THEN view[t] \in Waits ELSE IconOf(view[t]) = IconOf(truth[t])
  BY <1>2, <1>3
<1>5. {t \in DOMAIN view : view[t] \in {"Completed"}} = {t \in PlanTask : truth[t] = "Completed"}
  BY <1>2, <1>3 DEF Waits
<1>6. {t \in DOMAIN view : view[t] \in {"Failed", "Cancelled"}}
        = {t \in PlanTask \ unannounced : truth[t] \in {"Failed", "Cancelled"}}
  BY <1>2, <1>3 DEF Waits
<1>7. QED
  BY <1>2, <1>4, <1>5, <1>6 DEF Totals, Counted

\* The UI shows a finished run as it ended, icons and totals, once it has taken every event
\* and unless the bus has dropped one: for any plan, and any capacity of the bus.
THEOREM DashboardShowsTruth == DashSpec => []ShownIsTrue
<1>1. DashInit => DashInv
  BY InitDash
<1>2. DashInv /\ [DashNext]_dashVars => DashInv'
  BY StepDash
<1>3. DashInv => ShownIsTrue
  BY TrackedIsTrue
<1>4. QED
  BY <1>1, <1>2, <1>3, PTL DEF DashSpec

\* The prompt that is recalled is one of the history.
DraftInv ==
  /\ history \in Seq(Prompt \cup {NoPrompt})
  /\ draft \in [line : Prompt \cup {NoPrompt}, kept : Prompt \cup {NoPrompt}, at : Nat]
  /\ draft.at \in 0 .. Len(history)

LEMMA RecallUp ==
  ASSUME DraftInv, HistoryUp
  PROVE  DraftInv'
<1>1. PICK pos : /\ pos = (CASE draft.at = 0 -> Len(history)
                           [] draft.at = 1 -> 1
                           [] OTHER -> draft.at - 1)
                /\ draft' = [line |-> history[pos], at |-> pos,
                             kept |-> IF draft.at = 0 THEN draft.line ELSE draft.kept]
  BY DEF HistoryUp
<1>2. Len(history) \in Nat \ {0} /\ draft.at \in 0 .. Len(history) /\ history' = history
  BY DEF DraftInv, HistoryUp
<1>3. pos \in 1 .. Len(history)
  <2>1. CASE draft.at = 0
    BY <1>1, <1>2, <2>1
  <2>2. CASE draft.at = 1
    BY <1>1, <1>2, <2>2
  <2>3. CASE draft.at # 0 /\ draft.at # 1
    BY <1>1, <1>2, <2>3
  <2>4. QED
    BY <2>1, <2>2, <2>3
<1>4. history[pos] \in Prompt \cup {NoPrompt}
  BY <1>3 DEF DraftInv
<1>5. QED
  BY <1>1, <1>2, <1>3, <1>4 DEF DraftInv

LEMMA RecallDown ==
  ASSUME DraftInv, HistoryDown
  PROVE  DraftInv'
<1>1. Len(history) \in Nat /\ draft.at \in 0 .. Len(history) /\ history' = history
  BY DEF DraftInv, HistoryDown
<1>2. CASE draft.at < Len(history)
  <2>1. draft' = [draft EXCEPT !.at = @ + 1, !.line = history[draft.at + 1]]
    BY <1>2 DEF HistoryDown
  <2>2. draft.at + 1 \in 1 .. Len(history)
    BY <1>1, <1>2
  <2>3. history[draft.at + 1] \in Prompt \cup {NoPrompt}
    BY <2>2 DEF DraftInv
  <2>4. /\ draft.kept \in Prompt \cup {NoPrompt}
        /\ draft = [line |-> draft.line, kept |-> draft.kept, at |-> draft.at]
    BY DEF DraftInv
  <2>5. draft' = [line |-> history[draft.at + 1], kept |-> draft.kept, at |-> draft.at + 1]
    BY <2>1, <2>4
  <2>6. draft.at + 1 \in Nat /\ draft.at + 1 \in 0 .. Len(history)
    BY <1>1, <2>2
  <2>7. QED
    BY <1>1, <2>3, <2>4, <2>5, <2>6 DEF DraftInv
<1>3. CASE ~ (draft.at < Len(history))
  <2>1. draft' = [line |-> draft.kept, kept |-> NoPrompt, at |-> 0]
    BY <1>3 DEF HistoryDown
  <2>2. QED
    BY <1>1, <2>1 DEF DraftInv
<1>4. QED
  BY <1>2, <1>3

LEMMA PromptRemembered ==
  ASSUME DraftInv, SubmitPrompt
  PROVE  DraftInv'
<1>1. PICK P : P = Prompt \cup {NoPrompt}
  OBVIOUS
<1>2. history \in Seq(P) /\ draft.line \in P
  BY <1>1 DEF DraftInv
<1>3. PICK others : others = Kept({i \in DOMAIN history : history[i] # draft.line}, history)
  OBVIOUS
<1>4. others \in Seq(P)
  BY <1>2, <1>3, KeptElement
<1>5. history' = Append(others, draft.line) /\ draft' = [line |-> NoPrompt, kept |-> NoPrompt, at |-> 0]
  BY <1>3 DEF SubmitPrompt
<1>6. history' \in Seq(P) /\ Len(history') \in Nat
  BY <1>2, <1>4, <1>5
<1>7. QED
  BY <1>1, <1>5, <1>6 DEF DraftInv

LEMMA DraftStep == DraftInv /\ [DashNext]_dashVars => DraftInv'
<1> SUFFICES ASSUME DraftInv, [DashNext]_dashVars
             PROVE  DraftInv'
  OBVIOUS
<1>1. CASE UNCHANGED lineVarsOmt
  BY <1>1 DEF lineVarsOmt, DraftInv
<1>2. CASE Types
  BY <1>2 DEF Types, DraftInv
<1>3. CASE HistoryUp \/ HistoryDown \/ SubmitPrompt
  BY <1>3, RecallUp, RecallDown, PromptRemembered
<1>4. CASE ~ UNCHANGED lineVarsOmt
  <2>1. DashNext
    BY <1>4 DEF dashVars, lineVarsOmt
  <2>2. QED
    BY <1>2, <1>3, <1>4, <2>1 DEF DashNext, NoKey, Approve, Reject, NewRun, QuitDashboard,
       DrainOne, DrainEnds, CheckScheduler, Launches, EndsAs, Fails, CancelsRest, SchedulerEnds
<1>5. QED
  BY <1>1, <1>4

\* The dashboard's variables have their types: the feed is never longer than the bus, the
\* prompt that is recalled is one of the history (HistoryUp, HistoryDown, submit).
THEOREM DashboardTypes == DashSpec => []DashTypeOK
<1>1. DashInit => DraftInv
  BY DEF DashInit, DraftInv
<1>2. DashInv /\ DraftInv => DashTypeOK
  BY DEF DashInv, DashShape, DraftInv, DashTypeOK, TaskShown
<1>3. DashInit => DashInv
  BY InitDash
<1>4. QED
  BY <1>1, <1>2, <1>3, DraftStep, StepDash, PTL DEF DashSpec
------------------------------------------------------------------------------
(***************************************************************************)
(* The transcript.                                                         *)
(***************************************************************************)

\* The characters of a text, as they are shown.
GlyphKinds == {"letter", "wide", "accent", "mark", "newline", "bar", "space"}
Glyph == [kind : GlyphKinds, place : Nat]
GlyphsOf(t) ==
  {c \in Glyph : c.place # 0 => c.place \in 1 .. Len(t) /\ c.kind = t[c.place] /\ c.kind \in Letters}

\* A line or a row that goes on like another one, and rows that go on like others.
GoesOn(a, b) == Len(a) <= Len(b) /\ \A i \in 1 .. Len(a) : b[i] = a[i]
Grows(a, b) == Len(a) <= Len(b) /\ \A k \in 1 .. Len(a) : GoesOn(a[k], b[k])

\* There is the character of a place at a point.
HasCell(layout, p, place) ==
  /\ p \in Nat \X Nat /\ p[1] < Len(layout)
  /\ \E i \in 1 .. Len(layout[p[1] + 1]) :
       /\ layout[p[1] + 1][i].place = place
       /\ CellWidth(layout[p[1] + 1][i]) > 0
       /\ Column(layout[p[1] + 1], i) = p[2]

\* What is highlighted are the characters of the last frame between the ends.
MarksPart ==
  \/ marked = NoMarks
  \/ /\ turn # "draw"
     /\ \E p \in marked.ends, q \in marked.ends :
          /\ marked.ends = {p, q} /\ p \in Int \X Int /\ q \in Int \X Int
          /\ marked.chars = Highlighted(rows, p, q)

\* The character of the press is still at the anchor, in the last frame and in the next.
PressPart ==
  pressed # 0 =>
    /\ anchor # NoPoint
    /\ ~ reflowed =>
         /\ HasCell(rows, anchor, pressed)
         /\ Grows(rows, Layout(message, wide))

TextInv ==
  /\ TextTypeOK
  /\ rows \in Seq(Seq(Glyph))
  /\ anchor \in Int \X Int /\ extent \in Int \X Int
  /\ anchor # NoPoint => anchor[1] \in Nat
  /\ turn # "draw" => rows = Layout(message, wide)
  /\ MarksPart
  /\ PressPart
  /\ CopiesTheSelection

LEMMA WidthIsSmall == \A c : CellWidth(c) \in {0, 1, 2}
<1>1. ASSUME NEW c PROVE CellWidth(c) \in {0, 1, 2}
  <2>1. CASE c.kind = "wide"
    BY <2>1 DEF CellWidth
  <2>2. CASE c.kind = "accent"
    BY <2>2 DEF CellWidth
  <2>3. CASE c.kind # "wide" /\ c.kind # "accent"
    BY <2>3 DEF CellWidth
  <2>4. QED
    BY <2>1, <2>2, <2>3
<1>2. QED
  BY <1>1

\* A sequence of numbers is added up.
LEMMA ColumnUnfold ==
  ASSUME NEW C, NEW s \in Seq(C)
  PROVE  \E f \in [0 .. Len(s) -> Nat] :
            /\ f[0] = 0 /\ \A i \in 1 .. Len(s) : f[i] = f[i - 1] + CellWidth(s[i])
            /\ \A i \in 1 .. Len(s) + 1 : Column(s, i) = f[i - 1]
<1> DEFINE n == Len(s)
           V == Nat
           go == [i \in 1 .. n |-> [t \in V |-> t + CellWidth(s[i])]]
<1>1. n \in Nat /\ 0 \in V /\ go \in [1 .. n -> [V -> V]]
  <2>1. n \in Nat /\ 0 \in V
    OBVIOUS
  <2>2. \A i \in 1 .. n, t \in V : t + CellWidth(s[i]) \in V
    BY WidthIsSmall
  <2> HIDE DEF V
  <2>3. QED
    BY <2>1, <2>2
<1>2. \A i \in 1 .. n, t \in V : go[i][t] = t + CellWidth(s[i])
  OBVIOUS
<1> HIDE DEF V, go
<1>3. PICK f \in [0 .. n -> V] : Follows(f, 0, go, n)
  BY <1>1, Recursion
<1>4. \A i \in 1 .. n : i - 1 \in 0 .. n /\ i # 0 /\ i \in 0 .. n
  BY <1>1
<1>5. f[0] = 0 /\ \A i \in 1 .. n : f[i] = f[i - 1] + CellWidth(s[i])
  <2>1. \A i \in 1 .. n : f[i - 1] \in V
    BY <1>4
  <2>2. QED
    BY <1>2, <1>3, <2>1 DEF Follows
<1>6. f \in [0 .. n -> Nat]
  BY <1>3 DEF V
<1> DEFINE unfolded(h) ==
             [i \in 0 .. n |->
                IF i = 0 THEN 0 ELSE h[i - 1] + CellWidth(s[i])]
           upTo == CHOOSE h : h = unfolded(h)
<1>7. \A i : Column(s, i) = upTo[i - 1]
  BY DEF Column
<1>8. f = unfolded(f)
  <2>1. f = [i \in 0 .. n |-> f[i]]
    BY <1>3
  <2>2. ASSUME NEW i \in 0 .. n
        PROVE  f[i] = IF i = 0 THEN 0
                      ELSE f[i - 1] + CellWidth(s[i])
    <3>1. i = 0 \/ i \in 1 .. n
      BY <1>1
    <3>2. QED
      BY <1>4, <1>5, <3>1
  <2>3. QED
    BY <2>1, <2>2
<1>9. upTo = unfolded(upTo)
  <2> HIDE DEF unfolded
  <2>1. QED
    BY <1>8, Zenon
<1> HIDE DEF upTo
<1>10. \A i \in 0 .. n : upTo[i] = IF i = 0 THEN 0
                                  ELSE upTo[i - 1] + CellWidth(s[i])
  BY <1>9, Zenon
<1> HIDE DEF unfolded
<1> DEFINE Same == {i \in 0 .. n : upTo[i] = f[i]}
<1>11. 0 \in Same
  BY <1>1, <1>5, <1>10
<1>12. ASSUME NEW i \in Nat, i < n, i \in Same
       PROVE  i + 1 \in Same
  <2>1. i + 1 \in 0 .. n /\ i + 1 \in 1 .. n /\ (i + 1) - 1 = i /\ i + 1 # 0
    BY <1>1, <1>12
  <2>2. upTo[i + 1] = upTo[i] + CellWidth(s[i + 1])
    BY <1>10, <2>1
  <2>3. f[i + 1] = f[i] + CellWidth(s[i + 1])
    BY <1>5, <2>1
  <2>4. QED
    BY <1>12, <2>1, <2>2, <2>3
<1> HIDE DEF Same
<1>13. \A i \in 0 .. n : i \in Same
  BY <1>1, <1>11, <1>12, SetInduction
<1>14. \A i \in 1 .. n + 1 : Column(s, i) = f[i - 1]
  <2>1. \A i \in 1 .. n + 1 : i - 1 \in 0 .. n
    BY <1>1
  <2>2. QED
    BY <1>7, <1>13, <2>1 DEF Same
<1>15. QED
  BY <1>5, <1>6, <1>14

\* The rows a line is wrapped into: there is one at least.
Rows(C) == {r \in Seq(Seq(C)) : r # <<>>}

\* Wrap is recursive: f[i] are the rows of the first i characters.
IsWrap(f, C, s, width) ==
  /\ f \in [0 .. Len(s) -> Rows(C)] /\ f[0] = << <<>> >>
  /\ \A i \in 1 .. Len(s) : f[i] = Put(f[i - 1], s[i], width)

LEMMA PutGrows ==
  ASSUME NEW C, NEW done \in Rows(C), NEW c \in C, NEW width
  PROVE  Put(done, c, width) \in Rows(C) /\ Grows(done, Put(done, c, width))
<1>1. PICK n, row : n = Len(done) /\ n \in Nat /\ n >= 1 /\ row = done[n]
  BY DEF Rows
<1>2. PICK V : V = Seq(C)
  OBVIOUS
<1>3. done \in Seq(V) /\ row \in V
  BY <1>1, <1>2 DEF Rows
<1>4. row \in Seq(C) /\ Append(row, c) \in V /\ <<c>> \in V /\ GoesOn(row, Append(row, c))
  BY <1>2, <1>3 DEF GoesOn
<1>5. \A k \in 1 .. n : GoesOn(done[k], done[k])
  <2>1. \A k \in 1 .. n : done[k] \in Seq(C)
    BY <1>1, <1>2, <1>3
  <2>2. QED
    BY <2>1 DEF GoesOn
<1>6. PICK a, b : a = Append(done, <<c>>) /\ b = Append(SubSeq(done, 1, n - 1), Append(row, c))
  OBVIOUS
<1>7. Put(done, c, width) = a \/ Put(done, c, width) = b
  BY <1>1, <1>6 DEF Put, Last, Front
<1>8. a \in Seq(V) /\ a # <<>> /\ Grows(done, a)
  <2>1. a \in Seq(V) /\ a # <<>> /\ Len(a) = n + 1 /\ \A k \in 1 .. n : a[k] = done[k]
    BY <1>1, <1>3, <1>4, <1>6, AppendProperties
  <2>2. QED
    BY <1>1, <1>5, <2>1 DEF Grows
<1>9. b \in Seq(V) /\ b # <<>> /\ Grows(done, b)
  <2>1. PICK p, x : p = SubSeq(done, 1, n - 1) /\ x = Append(row, c)
    OBVIOUS
  <2>2. p \in Seq(V) /\ Len(p) = n - 1 /\ \A k \in 1 .. n - 1 : p[k] = done[k]
    BY ONLY <1>1, <1>3, <2>1
  <2>3. b = Append(p, x) /\ x \in V
    BY <1>4, <1>6, <2>1
  <2>4. /\ b \in Seq(V) /\ b # <<>> /\ Len(b) = Len(p) + 1
        /\ \A k \in 1 .. Len(p) : b[k] = p[k]
        /\ b[Len(p) + 1] = x
    BY ONLY <2>2, <2>3, AppendProperties
  <2>5. Len(b) = n /\ b[n] = x /\ \A k \in 1 .. n - 1 : b[k] = done[k]
    BY ONLY <1>1, <2>2, <2>4
  <2>6. ASSUME NEW k \in 1 .. n
        PROVE  GoesOn(done[k], b[k])
    <3>1. CASE k = n
      BY <1>1, <1>4, <2>1, <2>5, <3>1, Zenon
    <3>2. CASE k \in 1 .. n - 1
      <4>1. b[k] = done[k]
        BY <2>5, <3>2
      <4>2. QED
        BY <1>5, <4>1, Zenon
    <3>3. k = n \/ k \in 1 .. n - 1
      BY <1>1
    <3>4. QED
      BY <3>1, <3>2, <3>3
  <2>7. QED
    BY <1>1, <2>4, <2>5, <2>6 DEF Grows
<1>10. QED
  BY <1>2, <1>7, <1>8, <1>9 DEF Rows

LEMMA WrapUnfold ==
  ASSUME NEW C, NEW s \in Seq(C), NEW width
  PROVE  \E f : IsWrap(f, C, s, width) /\ Wrap(s, width) = f[Len(s)]
<1> DEFINE n == Len(s)
           V == Rows(C)
           go == [i \in 1 .. n |-> [t \in V |-> Put(t, s[i], width)]]
<1>1. n \in Nat /\ << <<>> >> \in V /\ go \in [1 .. n -> [V -> V]]
  <2>1. n \in Nat /\ << <<>> >> \in V
    <3>1. <<>> \in Seq(C) /\ n \in Nat
      OBVIOUS
    <3>2. PICK S : S = Seq(C)
      OBVIOUS
    <3>3. << <<>> >> \in Seq(S) /\ << <<>> >> # <<>>
      BY <3>1, <3>2
    <3>4. QED
      BY <3>1, <3>2, <3>3 DEF Rows
  <2>2. \A i \in 1 .. n, t \in V : Put(t, s[i], width) \in V
    BY PutGrows
  <2> HIDE DEF V
  <2>3. QED
    BY <2>1, <2>2
<1>2. \A i \in 1 .. n, t \in V : go[i][t] = Put(t, s[i], width)
  OBVIOUS
<1> HIDE DEF V, go
<1>3. PICK f \in [0 .. n -> V] : Follows(f, << <<>> >>, go, n)
  BY <1>1, Recursion
<1>4. \A i \in 1 .. n : i - 1 \in 0 .. n /\ i # 0 /\ i \in 0 .. n
  BY <1>1
<1>5. f[0] = << <<>> >> /\ \A i \in 1 .. n : f[i] = Put(f[i - 1], s[i], width)
  <2>1. \A i \in 1 .. n : f[i - 1] \in V
    BY <1>4
  <2>2. QED
    BY <1>2, <1>3, <2>1 DEF Follows
<1>6. IsWrap(f, C, s, width)
  BY <1>3, <1>5 DEF IsWrap, V
<1> DEFINE unfolded(h) ==
             [i \in 0 .. n |->
                IF i = 0 THEN << <<>> >> ELSE Put(h[i - 1], s[i], width)]
           upTo == CHOOSE h : h = unfolded(h)
<1>7. Wrap(s, width) = upTo[n]
  BY DEF Wrap
<1>8. f = unfolded(f)
  <2>1. f = [i \in 0 .. n |-> f[i]]
    BY <1>3
  <2>2. ASSUME NEW i \in 0 .. n
        PROVE  f[i] = IF i = 0 THEN << <<>> >>
                      ELSE Put(f[i - 1], s[i], width)
    <3>1. i = 0 \/ i \in 1 .. n
      BY <1>1
    <3>2. QED
      BY <1>4, <1>5, <3>1
  <2>3. QED
    BY <2>1, <2>2
<1>9. upTo = unfolded(upTo)
  <2> HIDE DEF unfolded
  <2>1. QED
    BY <1>8, Zenon
<1> HIDE DEF upTo
<1>10. \A i \in 0 .. n : upTo[i] = IF i = 0 THEN << <<>> >>
                                  ELSE Put(upTo[i - 1], s[i], width)
  BY <1>9, Zenon
<1> HIDE DEF unfolded
<1> DEFINE Same == {i \in 0 .. n : upTo[i] = f[i]}
<1>11. 0 \in Same
  <2>1. 0 \in 0 .. n
    BY <1>1
  <2>2. upTo[0] = << <<>> >>
    BY <1>10, <2>1, Zenon
  <2>3. QED
    BY <1>5, <2>1, <2>2, Zenon
<1>12. ASSUME NEW i \in Nat, i < n, i \in Same
       PROVE  i + 1 \in Same
  <2>1. i + 1 \in 0 .. n /\ i + 1 \in 1 .. n /\ (i + 1) - 1 = i /\ i + 1 # 0
    BY <1>1, <1>12
  <2>2. upTo[i + 1] = Put(upTo[i], s[i + 1], width)
    BY <1>10, <2>1
  <2>3. f[i + 1] = Put(f[i], s[i + 1], width)
    BY <1>5, <2>1
  <2>4. QED
    BY <1>12, <2>1, <2>2, <2>3
<1> HIDE DEF Same
<1>13. n \in Same
  <2>1. \A i \in 0 .. n : i \in Same
    BY <1>1, <1>11, <1>12, SetInduction
  <2>2. QED
    BY <1>1, <2>1
<1>14. QED
  BY <1>6, <1>7, <1>13 DEF Same

\* Columns go up by the width of the character, and are those of the row that is continued.
LEMMA ColumnsGoUp ==
  ASSUME NEW C, NEW s \in Seq(C)
  PROVE  /\ \A i \in 1 .. Len(s) + 1 : Column(s, i) \in Nat
         /\ Column(s, 1) = 0
         /\ \A i \in 1 .. Len(s) : Column(s, i + 1) = Column(s, i) + CellWidth(s[i])
         /\ \A i \in 1 .. Len(s), j \in 1 .. Len(s) :
              i < j => Column(s, i) + CellWidth(s[i]) <= Column(s, j)
<1>1. PICK f \in [0 .. Len(s) -> Nat] :
         /\ f[0] = 0 /\ \A i \in 1 .. Len(s) : f[i] = f[i - 1] + CellWidth(s[i])
         /\ \A i \in 1 .. Len(s) + 1 : Column(s, i) = f[i - 1]
  BY ColumnUnfold
<1>2. PICK n \in Nat : n = Len(s)
  OBVIOUS
<1>3. \A i \in 1 .. n + 1 : Column(s, i) \in Nat
  BY <1>1, <1>2
<1>4. Column(s, 1) = 0
  BY <1>1, <1>2
<1>5. ASSUME NEW i \in 1 .. n
      PROVE  Column(s, i + 1) = Column(s, i) + CellWidth(s[i])
  <2>1. i \in 1 .. n + 1 /\ i + 1 \in 1 .. n + 1 /\ (i + 1) - 1 = i
    BY <1>2
  <2>2. QED
    BY <1>1, <1>2, <2>1
<1>6. ASSUME NEW i \in 1 .. n
      PROVE  \A j \in 1 .. n : i < j => Column(s, i) + CellWidth(s[i]) <= Column(s, j)
  <2> DEFINE A == {j \in 0 .. n : i < j => Column(s, i + 1) <= Column(s, j)}
  <2>1. 0 \in A
    BY <1>2
  <2>2. ASSUME NEW j \in Nat, j < n, j \in A
        PROVE  j + 1 \in A
    <3>1. j + 1 \in 0 .. n /\ i + 1 \in 1 .. n + 1
      BY <1>2, <2>2
    <3>2. CASE i < j
      <4>1. j \in 1 .. n
        BY <2>2, <3>2
      <4>2. Column(s, j + 1) = Column(s, j) + CellWidth(s[j]) /\ CellWidth(s[j]) \in Nat
        BY <1>5, <4>1, WidthIsSmall
      <4>3. Column(s, j) \in Nat /\ Column(s, i + 1) \in Nat /\ Column(s, i + 1) <= Column(s, j)
        BY <1>3, <2>2, <3>1, <3>2, <4>1
      <4>4. QED
        BY <3>1, <4>2, <4>3
    <3>3. CASE i = j
      BY <1>3, <3>1, <3>3
    <3>4. CASE i > j
      BY <2>2, <3>1, <3>4
    <3>5. QED
      BY <3>2, <3>3, <3>4
  <2> HIDE DEF A
  <2>3. \A j \in 0 .. n : j \in A
    BY <1>2, <2>1, <2>2, SetInduction
  <2>4. QED
    BY <1>5, <2>3 DEF A
<1>7. QED
  BY <1>2, <1>3, <1>4, <1>5, <1>6

LEMMA SameColumns ==
  ASSUME NEW C, NEW s \in Seq(C), NEW t \in Seq(C), GoesOn(s, t)
  PROVE  \A i \in 1 .. Len(s) : Column(s, i) = Column(t, i)
<1>1. PICK n \in Nat : n = Len(s) /\ n <= Len(t) /\ Len(t) \in Nat /\ \A i \in 1 .. n : t[i] = s[i]
  BY DEF GoesOn
<1> DEFINE A == {i \in 0 .. n : i >= 1 => Column(s, i) = Column(t, i)}
<1>2. 0 \in A
  BY <1>1
<1>3. ASSUME NEW i \in Nat, i < n, i \in A
      PROVE  i + 1 \in A
  <2>1. i + 1 \in 0 .. n
    BY <1>1, <1>3
  <2>2. CASE i = 0
    <3>1. Column(s, 1) = 0 /\ Column(t, 1) = 0
      BY ColumnsGoUp
    <3>2. QED
      BY <2>1, <2>2, <3>1
  <2>3. CASE i >= 1
    <3>1. i \in 1 .. n /\ i \in 1 .. Len(s) /\ i \in 1 .. Len(t)
      BY <1>1, <1>3, <2>3
    <3>2. /\ Column(s, i + 1) = Column(s, i) + CellWidth(s[i])
          /\ Column(t, i + 1) = Column(t, i) + CellWidth(t[i])
      BY <3>1, ColumnsGoUp
    <3>3. QED
      BY <1>1, <1>3, <2>1, <2>3, <3>1, <3>2
  <2>4. QED
    BY <2>2, <2>3
<1> HIDE DEF A
<1>4. \A i \in 0 .. n : i \in A
  BY <1>1, <1>2, <1>3, SetInduction
<1>5. QED
  BY <1>1, <1>4 DEF A

\* Rows that go on like others.
LEMMA GoesOnTwice ==
  ASSUME NEW C, NEW a \in Seq(C), NEW b \in Seq(C), NEW c \in Seq(C)
  PROVE  GoesOn(a, a) /\ (GoesOn(a, b) /\ GoesOn(b, c) => GoesOn(a, c))
BY DEF GoesOn

LEMMA GrowsTwice ==
  ASSUME NEW C, NEW a \in Seq(Seq(C)), NEW b \in Seq(Seq(C)), NEW c \in Seq(Seq(C))
  PROVE  Grows(a, a) /\ (Grows(a, b) /\ Grows(b, c) => Grows(a, c))
<1>1. PICK V : V = Seq(C)
  OBVIOUS
<1>2. a \in Seq(V) /\ b \in Seq(V) /\ c \in Seq(V)
  BY <1>1
<1>3. /\ Len(a) \in Nat /\ Len(b) \in Nat /\ Len(c) \in Nat
      /\ \A k \in 1 .. Len(a) : a[k] \in V
      /\ \A k \in 1 .. Len(b) : b[k] \in V
      /\ \A k \in 1 .. Len(c) : c[k] \in V
  BY <1>2
<1>4. Grows(a, a)
  <2>1. \A k \in 1 .. Len(a) : GoesOn(a[k], a[k])
    BY <1>1, <1>3, GoesOnTwice
  <2>2. QED
    BY <1>3, <2>1 DEF Grows
<1>5. ASSUME Grows(a, b), Grows(b, c)
      PROVE  Grows(a, c)
  <2>1. Len(a) <= Len(b) /\ Len(b) <= Len(c)
    BY <1>5 DEF Grows
  <2>2. ASSUME NEW k \in 1 .. Len(a)
        PROVE  GoesOn(a[k], c[k])
    <3>1. k \in 1 .. Len(b) /\ k \in 1 .. Len(c)
      BY <1>3, <2>1
    <3>2. GoesOn(a[k], b[k]) /\ GoesOn(b[k], c[k])
      BY <1>5, <3>1 DEF Grows
    <3>3. a[k] \in Seq(C) /\ b[k] \in Seq(C) /\ c[k] \in Seq(C)
      BY <1>1, <1>3, <3>1
    <3>4. QED
      BY <3>2, <3>3, GoesOnTwice
  <2>3. QED
    BY <1>3, <2>1, <2>2 DEF Grows
<1>6. QED
  BY <1>4, <1>5

LEMMA GrowsBehind ==
  ASSUME NEW C, NEW a \in Seq(Seq(C)), NEW b \in Seq(Seq(C)), NEW c \in Seq(Seq(C)), Grows(b, c)
  PROVE  Grows(a, a \o b) /\ Grows(a \o b, a \o c)
<1>1. PICK V : V = Seq(C)
  OBVIOUS
<1>2. a \in Seq(V) /\ b \in Seq(V) /\ c \in Seq(V)
  BY <1>1
<1>3. /\ Len(a \o b) = Len(a) + Len(b)
      /\ \A i \in 1 .. Len(a) + Len(b) : (a \o b)[i] = IF i <= Len(a) THEN a[i] ELSE b[i - Len(a)]
  BY ONLY <1>2, ConcatProperties
<1>4. /\ Len(a \o c) = Len(a) + Len(c)
      /\ \A i \in 1 .. Len(a) + Len(c) : (a \o c)[i] = IF i <= Len(a) THEN a[i] ELSE c[i - Len(a)]
  BY ONLY <1>2, ConcatProperties
<1>5. PICK l, m, n : l = Len(a) /\ m = Len(b) /\ n = Len(c)
  OBVIOUS
<1>6. /\ l \in Nat /\ m \in Nat /\ n \in Nat /\ m <= n
      /\ \A k \in 1 .. m : GoesOn(b[k], c[k])
  BY <1>2, <1>5 DEF Grows
<1>7. \A k \in 1 .. l : GoesOn(a[k], a[k])
  <2>1. \A k \in 1 .. l : a[k] \in V
    BY <1>2, <1>5
  <2>2. QED
    BY <1>1, <2>1, GoesOnTwice
<1>8. PICK x, y : x = a \o b /\ y = a \o c
  OBVIOUS
<1>9. /\ Len(x) = l + m /\ Len(y) = l + n
      /\ \A k \in 1 .. l : x[k] = a[k] /\ y[k] = a[k]
      /\ \A k \in l + 1 .. l + m : x[k] = b[k - l] /\ y[k] = c[k - l]
  <2>1. \A k \in 1 .. l : k \in 1 .. l + m /\ k \in 1 .. l + n /\ k <= l
    BY <1>6
  <2>2. \A k \in l + 1 .. l + m : k \in 1 .. l + m /\ k \in 1 .. l + n /\ ~ (k <= l)
    BY <1>6
  <2>3. QED
    BY <1>3, <1>4, <1>5, <1>8, <2>1, <2>2
<1>10. Grows(a, x)
  BY <1>5, <1>6, <1>7, <1>9 DEF Grows
<1>11. Grows(x, y)
  <2>1. ASSUME NEW k \in 1 .. l + m
        PROVE  GoesOn(x[k], y[k])
    <3>1. CASE k \in 1 .. l
      BY <1>7, <1>9, <3>1
    <3>2. CASE k \in l + 1 .. l + m
      <4>1. k - l \in 1 .. m
        BY <1>6, <3>2
      <4>2. QED
        BY <1>6, <1>9, <3>2, <4>1
    <3>3. QED
      BY <1>6, <3>1, <3>2
  <2>2. QED
    BY <1>6, <1>9, <2>1 DEF Grows
<1>12. QED
  BY <1>8, <1>10, <1>11

\* The rows of a line that goes on go on like those of the line.
LEMMA WrapGrows ==
  ASSUME NEW C, NEW s \in Seq(C), NEW t \in Seq(C), NEW width, GoesOn(s, t)
  PROVE  Wrap(s, width) \in Rows(C) /\ Grows(Wrap(s, width), Wrap(t, width))
<1>1. PICK f : IsWrap(f, C, s, width) /\ Wrap(s, width) = f[Len(s)]
  BY WrapUnfold
<1>2. PICK g : IsWrap(g, C, t, width) /\ Wrap(t, width) = g[Len(t)]
  BY WrapUnfold
<1>3. PICK m \in Nat, n \in Nat : m = Len(s) /\ n = Len(t) /\ m <= n /\ \A i \in 1 .. m : t[i] = s[i]
  BY DEF GoesOn
<1>4. /\ \A i \in 0 .. m : f[i] \in Rows(C)
      /\ \A i \in 0 .. n : g[i] \in Rows(C)
  BY <1>1, <1>2, <1>3 DEF IsWrap
<1>5. Rows(C) \subseteq Seq(Seq(C))
  BY DEF Rows
<1> DEFINE A == {i \in 0 .. n : IF i <= m THEN g[i] = f[i] ELSE Grows(f[m], g[i])}
<1>6. 0 \in A
  <2>1. 0 \in 0 .. n /\ 0 <= m
    BY <1>3
  <2>2. f[0] = << <<>> >> /\ g[0] = << <<>> >>
    BY <1>1, <1>2 DEF IsWrap
  <2>3. PICK v : v = << <<>> >>
    OBVIOUS
  <2>4. g[0] = f[0]
    BY ONLY <2>2, <2>3, Zenon
  <2>5. QED
    BY <2>1, <2>4, Zenon
<1>7. ASSUME NEW i \in Nat, i < n, i \in A
      PROVE  i + 1 \in A
  <2>1. i + 1 \in 1 .. n /\ i + 1 \in 0 .. n /\ i \in 0 .. n /\ (i + 1) - 1 = i
    BY <1>3, <1>7
  <2>2. g[i + 1] = Put(g[i], t[i + 1], width) /\ t[i + 1] \in C
    BY <1>2, <1>3, <2>1 DEF IsWrap
  <2>3. CASE i + 1 <= m
    <3>1. i + 1 \in 1 .. m /\ i <= m
      BY <2>3
    <3>2. f[i + 1] = Put(f[i], s[i + 1], width)
      BY <1>1, <1>3, <2>1, <3>1 DEF IsWrap
    <3>3. t[i + 1] = s[i + 1] /\ g[i] = f[i]
      BY <1>3, <1>7, <3>1
    <3>4. QED
      BY <2>1, <2>2, <2>3, <3>2, <3>3
  <2>4. CASE ~ (i + 1 <= m)
    <3>1. m \in 0 .. m /\ (i = m \/ ~ (i <= m))
      BY <1>3, <2>4
    <3>2. g[i] \in Rows(C) /\ f[m] \in Rows(C) /\ g[i + 1] \in Rows(C)
      BY <1>4, <2>1, <3>1
    <3>3. Grows(f[m], g[i])
      <4>1. CASE i = m
        <5>1. g[i] = f[m]
          BY <1>3, <1>7, <4>1
        <5>2. QED
          BY <1>5, <3>2, <5>1, GrowsTwice
      <4>2. CASE ~ (i <= m)
        BY <1>7, <4>2
      <4>3. QED
        BY <3>1, <4>1, <4>2
    <3>4. Grows(g[i], g[i + 1])
      BY <2>2, <3>2, PutGrows
    <3>5. Grows(f[m], g[i + 1])
      BY <1>5, <3>2, <3>3, <3>4, GrowsTwice
    <3>6. QED
      BY <2>1, <2>4, <3>5
  <2>5. QED
    BY <2>3, <2>4
<1> HIDE DEF A
<1>8. n \in A
  <2>1. \A i \in 0 .. n : i \in A
    BY <1>3, <1>6, <1>7, SetInduction
  <2>2. QED
    BY <1>3, <2>1
<1>9. Grows(f[m], g[n])
  <2>1. m \in 0 .. m /\ f[m] \in Seq(Seq(C))
    BY <1>3, <1>4, <1>5
  <2>2. CASE n <= m
    <3>1. n = m /\ g[n] = f[m]
      BY <1>3, <1>8, <2>2 DEF A
    <3>2. QED
      BY <2>1, <3>1, GrowsTwice
  <2>3. CASE ~ (n <= m)
    BY <1>8, <2>3 DEF A
  <2>4. QED
    BY <2>2, <2>3
<1>10. QED
  <2>1. m \in 0 .. m
    BY <1>3
  <2>2. QED
    BY <1>1, <1>2, <1>3, <1>4, <1>9, <2>1

LaidOut(lines, width) == Flat([k \in 1 .. Len(lines) |-> Wrap(lines[k], width)])

\* The rows of lines of which the last one goes on, and others follow.
LEMMA RowsGrow ==
  ASSUME NEW C, NEW s \in Seq(Seq(C)), NEW t \in Seq(Seq(C)), NEW width, Len(s) >= 1, Len(s) <= Len(t),
         \A k \in 1 .. Len(s) - 1 : t[k] = s[k], GoesOn(s[Len(s)], t[Len(s)])
  PROVE  /\ LaidOut(s, width) \in Seq(Seq(C)) /\ LaidOut(s, width) # <<>>
         /\ Grows(LaidOut(s, width), LaidOut(t, width))
<1>0. PICK a, b : /\ a = [k \in 1 .. Len(s) |-> Wrap(s[k], width)]
                  /\ b = [k \in 1 .. Len(t) |-> Wrap(t[k], width)]
  OBVIOUS
<1>1. PICK m \in Nat, n \in Nat : m = Len(s) /\ n = Len(t) /\ 1 <= m /\ m <= n
  OBVIOUS
<1>2. PICK T : T = Seq(C)
  OBVIOUS
<1>3. \A l \in T : Wrap(l, width) \in Seq(T) /\ Wrap(l, width) # <<>>
  <2>1. ASSUME NEW l \in T
        PROVE  Wrap(l, width) \in Seq(T) /\ Wrap(l, width) # <<>>
    <3>1. l \in Seq(C) /\ GoesOn(l, l)
      BY <1>2, GoesOnTwice
    <3>2. QED
      BY <1>2, <3>1, WrapGrows DEF Rows
  <2>2. QED
    BY <2>1
<1>4. \A k \in 1 .. n : t[k] \in T
  BY <1>1, <1>2
<1>5. \A k \in 1 .. m : s[k] \in T
  BY <1>1, <1>2
<1>6. a \in Seq(Seq(T)) /\ Len(a) = m /\ \A k \in 1 .. m : a[k] = Wrap(s[k], width)
  <2>1. PICK V : V = Seq(T)
    OBVIOUS
  <2>2. a \in [1 .. m -> V] /\ \A k \in 1 .. m : a[k] = Wrap(s[k], width)
    <3>1. \A k \in 1 .. m : Wrap(s[k], width) \in V
      BY <1>3, <1>5, <2>1
    <3>2. a = [k \in 1 .. m |-> Wrap(s[k], width)]
      BY <1>0, <1>1
    <3>3. QED
      BY ONLY <3>1, <3>2
  <2>3. a \in Seq(V) /\ Len(a) = m
    BY ONLY <2>2, m \in Nat
  <2>4. QED
    BY <2>1, <2>2, <2>3
<1>7. b \in Seq(Seq(T)) /\ Len(b) = n /\ \A k \in 1 .. n : b[k] = Wrap(t[k], width)
  <2>1. PICK V : V = Seq(T)
    OBVIOUS
  <2>2. b \in [1 .. n -> V] /\ \A k \in 1 .. n : b[k] = Wrap(t[k], width)
    <3>1. \A k \in 1 .. n : Wrap(t[k], width) \in V
      BY <1>3, <1>4, <2>1
    <3>2. b = [k \in 1 .. n |-> Wrap(t[k], width)]
      BY <1>0, <1>1
    <3>3. QED
      BY ONLY <3>1, <3>2
  <2>3. b \in Seq(V) /\ Len(b) = n
    BY ONLY <2>2, n \in Nat
  <2>4. QED
    BY <2>1, <2>2, <2>3
<1>8. PICK f : IsFlat(f, T, a) /\ Flat(a) = f[m]
  BY <1>6, FlatUnfold
<1>9. PICK g : IsFlat(g, T, b) /\ Flat(b) = g[n]
  BY <1>7, FlatUnfold
<1>10. /\ f[0] = <<>> /\ \A i \in 0 .. m : f[i] \in Seq(T)
       /\ \A i \in 1 .. m : f[i] = f[i - 1] \o Wrap(s[i], width)
  <2>1. f[0] = <<>> /\ \A i \in 1 .. m : f[i] = f[i - 1] \o a[i]
    BY <1>6, <1>8 DEF IsFlat
  <2>2. \A i \in 0 .. m : f[i] \in Seq(T)
    BY <1>6, <1>8 DEF IsFlat
  <2>3. QED
    BY <1>6, <2>1, <2>2
<1>11. /\ g[0] = <<>> /\ \A i \in 0 .. n : g[i] \in Seq(T)
       /\ \A i \in 1 .. n : g[i] = g[i - 1] \o Wrap(t[i], width)
  <2>1. g[0] = <<>> /\ \A i \in 1 .. n : g[i] = g[i - 1] \o b[i]
    BY <1>7, <1>9 DEF IsFlat
  <2>2. \A i \in 0 .. n : g[i] \in Seq(T)
    BY <1>7, <1>9 DEF IsFlat
  <2>3. QED
    BY <1>7, <2>1, <2>2
<1> DEFINE A == {i \in 0 .. n : IF i < m THEN g[i] = f[i] ELSE Grows(f[m], g[i])}
<1>12. 0 \in A
  BY <1>1, <1>10, <1>11
<1>13. ASSUME NEW i \in Nat, i < n, i \in A
       PROVE  i + 1 \in A
  <2>1. i + 1 \in 1 .. n /\ i + 1 \in 0 .. n /\ i \in 0 .. n /\ (i + 1) - 1 = i /\ m \in 0 .. m /\ m \in 1 .. m
    BY <1>1, <1>13
  <2>2. PICK u, v, w : u = g[i] /\ v = g[i + 1] /\ w = Wrap(t[i + 1], width)
    OBVIOUS
  <2>3. v = u \o w /\ u \in Seq(T) /\ w \in Seq(T) /\ v \in Seq(T)
    BY <1>3, <1>4, <1>11, <2>1, <2>2
  <2>4. CASE i + 1 < m
    <3>1. i + 1 \in 1 .. m /\ i + 1 \in 1 .. m - 1 /\ i < m
      BY <2>1, <2>4
    <3>2. t[i + 1] = s[i + 1] /\ g[i] = f[i] /\ f[i + 1] = f[i] \o Wrap(s[i + 1], width)
      BY <1>1, <1>10, <1>13, <2>1, <3>1
    <3>3. v = f[i + 1]
      BY <2>2, <2>3, <3>2
    <3>4. QED
      BY <2>1, <2>2, <2>4, <3>3
  <2>5. CASE i + 1 = m
    <3>1. i < m /\ g[i] = f[i]
      BY <1>13, <2>5
    <3>2. PICK x : x = Wrap(s[m], width)
      OBVIOUS
    <3>3. f[m] = f[m - 1] \o Wrap(s[m], width) /\ m - 1 = i
      BY <1>10, <2>1, <2>5
    <3>4. f[m] = u \o x
      BY <2>2, <3>1, <3>2, <3>3
    <3>5. x \in Seq(T) /\ Grows(x, w)
      <4>1. s[m] \in Seq(C) /\ t[m] \in Seq(C) /\ GoesOn(s[m], t[m])
        BY <1>1, <1>2, <1>4, <1>5, <2>1, <2>5
      <4>2. QED
        BY <1>2, <2>2, <2>5, <3>2, <4>1, WrapGrows DEF Rows
    <3>6. Grows(u \o x, u \o w)
      BY <1>2, <2>3, <3>5, GrowsBehind
    <3>7. Grows(f[m], g[i + 1])
      BY <2>2, <2>3, <3>4, <3>6, Zenon
    <3>8. ~ (i + 1 < m)
      BY <1>1, <2>5
    <3>9. QED
      BY <2>1, <3>7, <3>8
  <2>6. CASE i >= m
    <3>1. Grows(f[m], u)
      BY <1>13, <2>2, <2>6
    <3>2. Grows(u, v)
      <4>1. Grows(w, w)
        BY <1>2, <2>3, GrowsTwice
      <4>2. QED
        BY <1>2, <2>3, <4>1, GrowsBehind
    <3>3. f[m] \in Seq(T)
      BY <1>10, <2>1
    <3>4. Grows(f[m], v)
      BY <1>2, <2>3, <3>1, <3>2, <3>3, GrowsTwice
    <3>5. QED
      BY <2>1, <2>2, <2>6, <3>4
  <2>7. i + 1 < m \/ i + 1 = m \/ i >= m
    BY <1>1, <2>1
  <2>8. QED
    BY <2>4, <2>5, <2>6, <2>7
<1> HIDE DEF A
<1>14. Grows(f[m], g[n])
  <2>1. \A i \in 0 .. n : i \in A
    BY <1>1, <1>12, <1>13, SetInduction
  <2>2. n \in A /\ ~ (n < m)
    BY <1>1, <2>1
  <2>3. QED
    BY <2>2 DEF A
<1>15. f[m] # <<>>
  <2>1. PICK u, x : u = f[m - 1] /\ x = Wrap(s[m], width)
    OBVIOUS
  <2>2. m \in 1 .. m /\ m - 1 \in 0 .. m
    BY <1>1
  <2>3. f[m] = u \o x /\ u \in Seq(T) /\ x \in Seq(T) /\ x # <<>>
    BY <1>3, <1>5, <1>10, <2>1, <2>2
  <2>4. Len(u \o x) = Len(u) + Len(x) /\ Len(x) # 0 /\ Len(x) \in Nat /\ Len(u) \in Nat
    BY ONLY <2>3
  <2>5. QED
    BY <2>3, <2>4
<1>16. QED
  <2>1. m \in 0 .. m
    BY <1>1
  <2>2. QED
    BY <1>0, <1>2, <1>8, <1>9, <1>10, <1>14, <1>15, <2>1 DEF LaidOut

LEMMA BlankType ==
  ASSUME NEW t, NEW sort \in GlyphKinds
  PROVE  Cell(sort, 0) \in GlyphsOf(t)
<1>1. Cell(sort, 0) \in Glyph /\ Cell(sort, 0).place = 0
  BY DEF Cell, Glyph
<1>2. QED
  BY <1>1 DEF GlyphsOf

\* A line as it is shown has the characters of the text.
LEMMA ShownType ==
  ASSUME NEW t \in Seq(Letters), NEW line
  PROVE  Shown(t, line) \in Seq(GlyphsOf(t))
<1>1. PICK n \in Nat : n = Len(t) /\ \A i \in 1 .. n : t[i] \in Letters
  OBVIOUS
<1>2. PICK G : G = GlyphsOf(t)
  OBVIOUS
<1>3. PICK s : s = [i \in 1 .. Len(t) |-> Cell(t[i], i)]
  OBVIOUS
<1>4. \A i \in 1 .. n : Cell(t[i], i) \in G
  <2>1. \A i \in 1 .. n : Cell(t[i], i) \in Glyph
    <3>1. Letters \subseteq GlyphKinds
      BY TranscriptBounds DEF GlyphKinds
    <3>2. QED
      BY <1>1, <3>1 DEF Cell, Glyph
  <2>2. QED
    BY <1>1, <1>2, <2>1 DEF Cell, GlyphsOf
<1>5. s \in Seq(G)
  BY <1>1, <1>3, <1>4
<1>6. Cell("bar", 0) \in G /\ Cell("space", 0) \in G
  BY <1>2, BlankType DEF GlyphKinds
<1>7. Bar \in Seq(G)
  BY <1>6 DEF Bar
<1>8. PICK k : k = Kept({i \in line : ~ IsHidden(t, line, i)}, s)
  OBVIOUS
<1>9. k \in Seq(G)
  BY <1>5, <1>8, KeptElement
<1>10. Shown(t, line) = Bar \o k
  BY <1>3, <1>8 DEF Shown
<1>11. Bar \o k \in Seq(G)
  BY ONLY <1>7, <1>9, ConcatProperties
<1>12. QED
  BY <1>2, <1>10, <1>11

LEMMA HeaderType ==
  ASSUME NEW t
  PROVE  Header \in Seq(GlyphsOf(t))
<1>1. PICK G : G = GlyphsOf(t)
  OBVIOUS
<1>2. Cell("bar", 0) \in G /\ Cell("space", 0) \in G /\ Cell("letter", 0) \in G
  BY <1>1, BlankType DEF GlyphKinds
<1>3. QED
  BY <1>1, <1>2 DEF Header, Bar

\* Every line but the last stays as it is when a character comes to the text.
LEMMA ShownStays ==
  ASSUME NEW t \in Seq(Letters), NEW c \in Letters, NEW u, u = Append(t, c),
         NEW line, line \subseteq 1 .. Len(t)
  PROVE  Shown(u, line) = Shown(t, line)
<1>1. PICK n \in Nat : n = Len(t) /\ Len(u) = n + 1 /\ (\A i \in 1 .. n : u[i] = t[i]) /\ u \in Seq(Letters)
  OBVIOUS
<1>2. PICK G : G = [kind : Letters, place : Nat]
  OBVIOUS
<1>3. PICK a : a = [i \in 1 .. Len(t) |-> Cell(t[i], i)]
  OBVIOUS
<1>4. PICK b : b = [i \in 1 .. Len(u) |-> Cell(u[i], i)]
  OBVIOUS
<1>5. a \in Seq(G) /\ Len(a) = n
  <2>1. \A i \in 1 .. n : Cell(t[i], i) \in G
    BY <1>1, <1>2 DEF Cell
  <2>2. QED
    BY <1>1, <1>3, <2>1
<1>6. b \in Seq(G) /\ Len(b) = n + 1
  <2>1. \A i \in 1 .. n + 1 : Cell(u[i], i) \in G
    BY <1>1, <1>2 DEF Cell
  <2>2. QED
    BY <1>1, <1>4, <2>1
<1>7. \A i \in 1 .. n : a[i] = b[i]
  BY <1>1, <1>3, <1>4
<1>8. {j \in line : u[j] = "mark"} = {j \in line : t[j] = "mark"}
  BY <1>1
<1>9. \A i : IsHidden(u, line, i) = IsHidden(t, line, i)
  BY <1>8 DEF IsHidden
<1>10. PICK S : S = {i \in line : ~ IsHidden(t, line, i)}
  OBVIOUS
<1>11. S = {i \in line : ~ IsHidden(u, line, i)}
  BY <1>9, <1>10
<1>12. Kept(S, b) = Kept(S, a)
  <2>1. \A i \in 1 .. Len(b) : i \in S => i <= Len(a)
    BY <1>1, <1>5, <1>10
  <2>2. Len(a) <= Len(b) /\ \A i \in 1 .. Len(a) : a[i] = b[i]
    BY <1>5, <1>6, <1>7
  <2>3. QED
    BY <1>5, <1>6, <2>1, <2>2, KeptSame
<1>13. Shown(t, line) = Bar \o Kept(S, a)
  BY <1>3, <1>10 DEF Shown
<1>14. Shown(u, line) = Bar \o Kept(S, b)
  BY <1>4, <1>11 DEF Shown
<1>15. QED
  BY <1>12, <1>13, <1>14

LEMMA LinesType ==
  ASSUME NEW t \in Seq(Letters), NEW G, GlyphsOf(t) \subseteq G
  PROVE  /\ LinesOf(t) \in Seq(Seq(G)) /\ <<Header>> \o LinesOf(t) \in Seq(Seq(G))
         /\ Len(<<Header>> \o LinesOf(t)) = Len(LinesOf(t)) + 1
         /\ (<<Header>> \o LinesOf(t))[1] = Header
         /\ \A k \in 1 .. Len(LinesOf(t)) : (<<Header>> \o LinesOf(t))[k + 1] = LinesOf(t)[k]
<1>1. PICK L : L = Seq(G)
  OBVIOUS
<1>2. PICK s : s = [i \in 1 .. Len(t) |-> Shown(t, LineAt(t, i))]
  OBVIOUS
<1>3. \A S : Shown(t, S) \in L
  <2>1. ASSUME NEW S PROVE Shown(t, S) \in L
    <3>1. Shown(t, S) \in Seq(GlyphsOf(t))
      BY ShownType
    <3>2. PICK x : x = Shown(t, S)
      OBVIOUS
    <3>3. x \in Seq(G)
      BY <3>1, <3>2, SeqMonotonic
    <3>4. QED
      BY <1>1, <3>2, <3>3
  <2>2. QED
    BY <2>1
<1>4. s \in Seq(L)
  BY <1>2, <1>3
<1>5. PICK l, h : l = LinesOf(t) /\ h = Header
  OBVIOUS
<1>6. l \in Seq(L)
  BY <1>2, <1>4, <1>5, KeptElement DEF LinesOf
<1>7. h \in L
  <2>1. h \in Seq(GlyphsOf(t))
    BY <1>5, HeaderType
  <2>2. h \in Seq(G)
    BY <2>1, SeqMonotonic
  <2>3. QED
    BY <1>1, <2>2
<1>8. /\ <<h>> \o l \in Seq(L) /\ Len(<<h>> \o l) = Len(l) + 1
      /\ (<<h>> \o l)[1] = h
      /\ \A k \in 1 .. Len(l) : (<<h>> \o l)[k + 1] = l[k]
  <2>1. <<h>> \in Seq(L) /\ Len(<<h>>) = 1 /\ <<h>>[1] = h
    BY <1>7
  <2>2. /\ <<h>> \o l \in Seq(L) /\ Len(<<h>> \o l) = 1 + Len(l)
        /\ \A i \in 1 .. 1 + Len(l) : (<<h>> \o l)[i] = IF i <= 1 THEN <<h>>[i] ELSE l[i - 1]
    BY <1>6, <2>1, ConcatProperties
  <2>3. Len(l) \in Nat
    BY <1>6
  <2>4. ASSUME NEW k \in 1 .. Len(l)
        PROVE  (<<h>> \o l)[k + 1] = l[k]
    <3>1. k + 1 \in 1 .. 1 + Len(l) /\ ~ (k + 1 <= 1) /\ (k + 1) - 1 = k
      BY <2>3
    <3>2. QED
      BY <2>2, <3>1
  <2>5. 1 \in 1 .. 1 + Len(l)
    BY <2>3
  <2>6. QED
    BY <2>1, <2>2, <2>3, <2>4, <2>5
<1>9. QED
  BY <1>1, <1>5, <1>6, <1>8

\* Where a line ends does not change when the text goes on behind it.
LEMMA LineEndsBefore ==
  ASSUME NEW t \in Seq(Letters), NEW c \in Letters, NEW u, u = Append(t, c),
         NEW i \in 1 .. Len(t), NEW m \in Begins(t), i < m
  PROVE  LineAt(u, i) = LineAt(t, i) /\ LineAt(t, i) \subseteq 1 .. Len(t)
<1>1. PICK n \in Nat : n = Len(t) /\ Len(u) = n + 1 /\ \A j \in 1 .. n : u[j] = t[j]
  OBVIOUS
<1>2. m \in 1 .. n /\ m - 1 \in 1 .. n /\ t[m - 1] = "newline" /\ m - 1 >= i
  BY <1>1 DEF Begins
<1>3. ASSUME NEW j \in LineAt(u, i)
      PROVE  j \in 1 .. n /\ j < m
  <2>1. j \in i .. n + 1 /\ \A k \in i .. j : u[k] # "newline"
    BY <1>1, <1>3 DEF LineAt
  <2>2. ~ (m - 1 \in i .. j)
    BY <1>1, <1>2, <2>1
  <2>3. QED
    BY <1>1, <1>2, <2>1, <2>2
<1>4. ASSUME NEW j \in LineAt(t, i)
      PROVE  j \in 1 .. n
  BY <1>1, <1>4 DEF LineAt
<1>5. ASSUME NEW j \in 1 .. n
      PROVE  j \in LineAt(u, i) <=> j \in LineAt(t, i)
  <2>1. \A k \in i .. j : k \in 1 .. n
    BY <1>1, <1>5
  <2>2. j \in i .. Len(u) <=> j \in i .. Len(t)
    BY <1>1, <1>5
  <2>3. (\A k \in i .. j : u[k] # "newline") <=> (\A k \in i .. j : t[k] # "newline")
    BY <1>1, <2>1
  <2>4. QED
    BY <2>2, <2>3 DEF LineAt
<1>6. QED
  BY <1>1, <1>3, <1>4, <1>5

LEMMA LinesStay ==
  ASSUME NEW t \in Seq(Letters), NEW c \in Letters, NEW u, u = Append(t, c)
  PROVE  /\ Len(LinesOf(t)) <= Len(LinesOf(u))
         /\ \A k \in 1 .. Len(LinesOf(t)) - 1 : LinesOf(u)[k] = LinesOf(t)[k]
<1>1. PICK n \in Nat : n = Len(t) /\ Len(u) = n + 1 /\ (\A j \in 1 .. n : u[j] = t[j]) /\ u \in Seq(Letters)
  OBVIOUS
<1>2. PICK G : G = GlyphsOf(t) \cup GlyphsOf(u)
  OBVIOUS
<1>3. PICK L : L = Seq(G)
  OBVIOUS
<1>4. \A S : Shown(t, S) \in L /\ Shown(u, S) \in L
  <2>1. ASSUME NEW S PROVE Shown(t, S) \in L /\ Shown(u, S) \in L
    <3>1. PICK x, y : x = Shown(t, S) /\ y = Shown(u, S)
      OBVIOUS
    <3>2. x \in Seq(GlyphsOf(t)) /\ y \in Seq(GlyphsOf(u))
      BY <1>1, <3>1, ShownType
    <3>3. GlyphsOf(t) \subseteq G /\ GlyphsOf(u) \subseteq G
      BY <1>2
    <3>4. x \in Seq(G)
      BY ONLY <3>2, <3>3, SeqMonotonic
    <3>5. y \in Seq(G)
      BY ONLY <3>2, <3>3, SeqMonotonic
    <3>6. QED
      BY <1>3, <3>1, <3>4, <3>5
  <2>2. QED
    BY <2>1
<1>5. PICK a : a = [i \in 1 .. Len(t) |-> Shown(t, LineAt(t, i))]
  OBVIOUS
<1>6. PICK b : b = [i \in 1 .. Len(u) |-> Shown(u, LineAt(u, i))]
  OBVIOUS
<1>7. a \in Seq(L) /\ Len(a) = n /\ \A i \in 1 .. n : a[i] = Shown(t, LineAt(t, i))
  BY <1>1, <1>4, <1>5
<1>8. b \in Seq(L) /\ Len(b) = n + 1 /\ \A i \in 1 .. n + 1 : b[i] = Shown(u, LineAt(u, i))
  BY <1>1, <1>4, <1>6
<1>9. PICK f : KeptSoFar(f, L, Begins(t), a) /\ LinesOf(t) = f[n]
  <2>1. PICK f : KeptSoFar(f, L, Begins(t), a) /\ Kept(Begins(t), a) = f[Len(a)]
    BY <1>7, KeptUnfold
  <2>2. QED
    BY <1>5, <1>7, <2>1 DEF LinesOf
<1>10. PICK g : KeptSoFar(g, L, Begins(u), b) /\ LinesOf(u) = g[n + 1]
  <2>1. PICK g : KeptSoFar(g, L, Begins(u), b) /\ Kept(Begins(u), b) = g[Len(b)]
    BY <1>8, KeptUnfold
  <2>2. QED
    BY <1>6, <1>8, <2>1 DEF LinesOf
<1>11. \A i \in 1 .. n : i \in Begins(u) <=> i \in Begins(t)
  <2>1. ASSUME NEW i \in 1 .. n
        PROVE  i \in Begins(u) <=> i \in Begins(t)
    <3>1. i = 1 \/ i - 1 \in 1 .. n
      BY <1>1
    <3>2. i \in 1 .. Len(u) /\ i \in 1 .. Len(t)
      BY <1>1
    <3>3. QED
      BY <1>1, <3>1, <3>2 DEF Begins
  <2>2. QED
    BY <2>1
<1>12. ASSUME NEW i \in 1 .. n, NEW m \in Begins(t), i < m
       PROVE  a[i] = b[i]
  <2>1. LineAt(u, i) = LineAt(t, i) /\ LineAt(t, i) \subseteq 1 .. Len(t)
    BY <1>1, <1>12, LineEndsBefore
  <2>2. i \in 1 .. n + 1
    BY <1>1
  <2>3. Shown(u, LineAt(t, i)) = Shown(t, LineAt(t, i))
    BY <2>1, ShownStays
  <2>4. QED
    BY <1>7, <1>8, <2>1, <2>2, <2>3
<1>13. /\ f[0] = <<>> /\ g[0] = <<>>
       /\ \A i \in 0 .. n : f[i] \in Seq(L)
       /\ \A i \in 0 .. n + 1 : g[i] \in Seq(L)
  BY <1>7, <1>8, <1>9, <1>10 DEF KeptSoFar
<1> DEFINE Stays(i) ==
             /\ Len(f[i]) = Len(g[i]) /\ \A k \in 1 .. Len(f[i]) - 1 : g[i][k] = f[i][k]
             /\ (\E m \in Begins(t) : i < m) => f[i] = g[i]
           A == {i \in 0 .. n : Stays(i)}
<1>14. 0 \in A
  <2>1. 0 \in 0 .. n
    BY <1>1
  <2>2. f[0] = g[0] /\ Len(f[0]) = 0
    BY <1>13
  <2>3. QED
    BY <2>1, <2>2
<1>15. ASSUME NEW i \in Nat, i < n, i \in A
       PROVE  i + 1 \in A
  <2>1. i + 1 \in 1 .. n /\ i + 1 \in 0 .. n /\ i \in 0 .. n /\ (i + 1) - 1 = i /\ i + 1 \in 1 .. n + 1 /\ i \in 0 .. n + 1
    BY <1>1, <1>15
  <2>2. f[i + 1] = IF i + 1 \in Begins(t) THEN Append(f[i], a[i + 1]) ELSE f[i]
    BY <1>7, <1>9, <2>1 DEF KeptSoFar
  <2>3. g[i + 1] = IF i + 1 \in Begins(t) THEN Append(g[i], b[i + 1]) ELSE g[i]
    <3>1. g[i + 1] = IF i + 1 \in Begins(u) THEN Append(g[i], b[i + 1]) ELSE g[i]
      BY <1>8, <1>10, <2>1 DEF KeptSoFar
    <3>2. QED
      BY <1>11, <2>1, <3>1
  <2>4. Stays(i)
    BY <1>15
  <2>5. CASE i + 1 \notin Begins(t)
    <3>1. f[i + 1] = f[i] /\ g[i + 1] = g[i]
      BY <2>2, <2>3, <2>5
    <3>2. (\E m \in Begins(t) : i + 1 < m) => \E m \in Begins(t) : i < m
      BY <1>1 DEF Begins
    <3>3. Stays(i + 1)
      BY <2>4, <3>1, <3>2
    <3>4. QED
      BY <2>1, <3>3
  <2>6. CASE i + 1 \in Begins(t)
    <3>1. f[i] = g[i]
      <4>1. i < i + 1
        BY <1>15
      <4>2. QED
        BY <2>4, <2>6, <4>1
    <3>2. PICK p, x, y : p = f[i] /\ x = a[i + 1] /\ y = b[i + 1]
      OBVIOUS
    <3>3. p \in Seq(L) /\ x \in L /\ y \in L
      <4>1. p \in Seq(L)
        BY <1>13, <2>1, <3>2
      <4>2. x \in L /\ y \in L
        BY <1>4, <1>7, <1>8, <2>1, <3>2
      <4>3. QED
        BY <4>1, <4>2
    <3>4. f[i + 1] = Append(p, x) /\ g[i + 1] = Append(p, y)
      BY <2>2, <2>3, <2>6, <3>1, <3>2
    <3>5. Len(Append(p, x)) = Len(Append(p, y)) /\ \A k \in 1 .. Len(Append(p, x)) - 1 : Append(p, y)[k] = Append(p, x)[k]
      BY ONLY <3>3
    <3>6. (\E m \in Begins(t) : i + 1 < m) => x = y
      BY <1>12, <2>1, <3>2
    <3>7. Stays(i + 1)
      BY <3>4, <3>5, <3>6
    <3>8. QED
      BY <2>1, <3>7
  <2>7. QED
    BY <2>5, <2>6
<1>16. Stays(n)
  <2> HIDE DEF Stays
  <2>1. \A i \in 0 .. n : i \in A
    <3> HIDE DEF A
    <3>1. QED
      BY <1>1, <1>14, <1>15, SetInduction
  <2>2. QED
    BY <1>1, <2>1
<1>17. PICK p, q, x : p = g[n] /\ q = g[n + 1] /\ x = b[n + 1]
  OBVIOUS
<1>18. p \in Seq(L) /\ x \in L /\ (q = Append(p, x) \/ q = p)
  <2>1. n + 1 \in 1 .. n + 1 /\ n \in 0 .. n + 1 /\ (n + 1) - 1 = n
    BY <1>1
  <2>2. p \in Seq(L)
    BY <1>13, <1>17, <2>1
  <2>3. x \in L
    BY <1>4, <1>8, <1>17, <2>1
  <2>4. g[n + 1] = IF n + 1 \in Begins(u) THEN Append(g[n], b[n + 1]) ELSE g[n]
    BY <1>8, <1>10, <2>1 DEF KeptSoFar
  <2>5. QED
    BY <1>17, <2>2, <2>3, <2>4
<1>19. Len(p) <= Len(q) /\ \A k \in 1 .. Len(p) : q[k] = p[k]
  BY ONLY <1>18
<1>20. QED
  <2>1. Len(p) \in Nat /\ Len(p) = Len(f[n])
    BY <1>16, <1>17, <1>18
  <2>2. \A k \in 1 .. Len(f[n]) - 1 : k \in 1 .. Len(p) /\ p[k] = f[n][k]
    BY <1>16, <1>17, <2>1
  <2>3. QED
    BY <1>9, <1>10, <1>17, <1>19, <2>1, <2>2

\* What is laid out has the characters of the text.
LEMMA LayoutType ==
  ASSUME NEW t \in Seq(Letters), NEW width
  PROVE  Layout(t, width) \in Seq(Seq(GlyphsOf(t))) /\ Layout(t, width) # <<>>
<1>1. PICK G, s : G = GlyphsOf(t) /\ s = <<Header>> \o LinesOf(t)
  OBVIOUS
<1>2. s \in Seq(Seq(G)) /\ Len(s) >= 1
  <2>1. LinesOf(t) \in Seq(Seq(G)) /\ s \in Seq(Seq(G)) /\ Len(s) = Len(LinesOf(t)) + 1
    BY <1>1, LinesType
  <2>2. PICK L : L = Seq(G)
    OBVIOUS
  <2>3. Len(LinesOf(t)) \in Nat
    BY <2>1, <2>2
  <2>4. QED
    BY <2>1, <2>3
<1>4. GoesOn(s[Len(s)], s[Len(s)])
  <2>1. PICK L : L = Seq(G)
    OBVIOUS
  <2>2. s[Len(s)] \in L
    BY <1>2, <2>1
  <2>3. QED
    BY <2>1, <2>2, GoesOnTwice
<1>5. Len(s) \in Nat
  BY <1>2
<1>6. LaidOut(s, width) \in Seq(Seq(G)) /\ LaidOut(s, width) # <<>>
  BY <1>2, <1>4, <1>5, RowsGrow
<1>7. QED
  BY <1>1, <1>6 DEF Layout, LaidOut

\* Unless a line has changed in front of its end, every row goes on as it was.
LEMMA LayoutGrows ==
  ASSUME NEW t \in Seq(Letters), NEW c \in Letters, NEW u, u = Append(t, c), NEW width,
         \A k \in 1 .. Len(LinesOf(t)) : IsPrefix(LinesOf(t)[k], LinesOf(u)[k])
  PROVE  Grows(Layout(t, width), Layout(u, width))
<1>1. u \in Seq(Letters)
  OBVIOUS
<1>2. PICK G : G = GlyphsOf(t) \cup GlyphsOf(u)
  OBVIOUS
<1>3. PICK L : L = Seq(G)
  OBVIOUS
<1>4. PICK p, q, r, s : /\ p = LinesOf(t) /\ q = LinesOf(u)
                        /\ r = <<Header>> \o LinesOf(t) /\ s = <<Header>> \o LinesOf(u)
  OBVIOUS
<1>5. /\ p \in Seq(L) /\ r \in Seq(L) /\ Len(r) = Len(p) + 1 /\ r[1] = Header
      /\ \A k \in 1 .. Len(p) : r[k + 1] = p[k]
  BY <1>2, <1>3, <1>4, LinesType
<1>6. /\ q \in Seq(L) /\ s \in Seq(L) /\ Len(s) = Len(q) + 1 /\ s[1] = Header
      /\ \A k \in 1 .. Len(q) : s[k + 1] = q[k]
  BY <1>1, <1>2, <1>3, <1>4, LinesType
<1>7. Len(p) <= Len(q) /\ \A k \in 1 .. Len(p) - 1 : q[k] = p[k]
  BY <1>4, LinesStay
<1>8. PICK m \in Nat, n \in Nat : m = Len(p) /\ n = Len(q) /\ m <= n
  BY <1>5, <1>6, <1>7
<1>9. ASSUME NEW k \in 1 .. m
      PROVE  s[k] = r[k]
  <2>1. CASE k = 1
    BY <1>5, <1>6, <2>1
  <2>2. CASE k \in 2 .. m
    <3>1. PICK j \in 1 .. m - 1 : j + 1 = k
      <4>1. k - 1 \in 1 .. m - 1 /\ (k - 1) + 1 = k
        BY <1>8, <2>2
      <4>2. QED
        BY <4>1
    <3>2. j \in 1 .. m /\ j \in 1 .. n
      BY <1>8, <3>1
    <3>3. QED
      BY <1>5, <1>6, <1>7, <1>8, <3>1, <3>2
  <2>3. k = 1 \/ k \in 2 .. m
    BY <1>8
  <2>4. QED
    BY <2>1, <2>2, <2>3
<1>10. \A k \in 1 .. m + 1 : r[k] \in L /\ s[k] \in L
  BY <1>5, <1>6, <1>8
<1>11. GoesOn(r[m + 1], s[m + 1])
  <2>1. CASE m = 0
    <3>1. r[m + 1] = s[m + 1] /\ r[m + 1] \in L
      BY <1>5, <1>6, <1>8, <1>10, <2>1
    <3>2. QED
      BY <1>3, <3>1, GoesOnTwice
  <2>2. CASE m # 0
    <3>1. m \in 1 .. m /\ m \in 1 .. n
      BY <1>8, <2>2
    <3>2. PICK x, y : x = p[m] /\ y = q[m]
      OBVIOUS
    <3>3. x \in Seq(G) /\ y \in Seq(G) /\ r[m + 1] = x /\ s[m + 1] = y
      <4>1. x \in L /\ y \in L
        BY <1>5, <1>6, <1>8, <3>1, <3>2
      <4>2. r[m + 1] = x
        BY <1>5, <1>8, <3>1, <3>2
      <4>3. s[m + 1] = y
        BY <1>6, <1>8, <3>1, <3>2
      <4>4. QED
        BY <1>3, <4>1, <4>2, <4>3
    <3>4. IsPrefix(x, y)
      BY <1>4, <1>8, <3>1, <3>2
    <3>5. Len(x) <= Len(y) /\ SubSeq(x, 1, Len(x)) = SubSeq(y, 1, Len(x))
      BY <3>3, <3>4 DEF IsPrefix
    <3>6. \A i \in 1 .. Len(x) : SubSeq(x, 1, Len(x))[i] = x[i] /\ SubSeq(y, 1, Len(x))[i] = y[i]
      BY <3>3, <3>5
    <3>7. GoesOn(x, y)
      BY <3>5, <3>6 DEF GoesOn
    <3>8. QED
      BY <3>3, <3>7
  <2>3. QED
    BY <2>1, <2>2
<1>13. /\ r \in Seq(Seq(G)) /\ s \in Seq(Seq(G)) /\ Len(r) >= 1 /\ Len(r) <= Len(s)
       /\ \A k \in 1 .. Len(r) - 1 : s[k] = r[k]
       /\ GoesOn(r[Len(r)], s[Len(r)])
  <2>1. Len(r) = m + 1 /\ Len(s) = n + 1 /\ Len(r) - 1 = m
    BY <1>5, <1>6, <1>8
  <2>2. QED
    BY <1>3, <1>5, <1>6, <1>8, <1>9, <1>11, <2>1
<1>14. Grows(LaidOut(r, width), LaidOut(s, width))
  BY <1>13, RowsGrow
<1>15. QED
  BY <1>4, <1>14 DEF Layout, LaidOut

\* The character stays where it is when its row goes on.
LEMMA CellStays ==
  ASSUME NEW C, NEW a \in Seq(Seq(C)), NEW b \in Seq(Seq(C)), Grows(a, b),
         NEW p, NEW place, HasCell(a, p, place)
  PROVE  HasCell(b, p, place)
<1>1. p \in Nat \X Nat /\ p[1] < Len(a)
  BY DEF HasCell
<1>2. PICK V : V = Seq(C)
  OBVIOUS
<1>3. Len(a) \in Nat /\ Len(b) \in Nat /\ Len(a) <= Len(b)
  BY DEF Grows
<1>4. PICK n \in 1 .. Len(a) : n = p[1] + 1
  <2>1. p[1] \in Nat
    BY <1>1
  <2>2. p[1] + 1 \in 1 .. Len(a)
    BY <1>1, <1>3, <2>1
  <2>3. QED
    BY <2>2
<1>5. PICK s, t : s = a[n] /\ t = b[n]
  OBVIOUS
<1>6. s \in V /\ t \in V /\ GoesOn(s, t)
  <2>1. n \in 1 .. Len(b)
    BY <1>3
  <2>2. a \in Seq(V) /\ b \in Seq(V)
    BY <1>2
  <2>3. QED
    BY <1>5, <2>1, <2>2 DEF Grows
<1>7. PICK i \in 1 .. Len(s) : s[i].place = place /\ CellWidth(s[i]) > 0 /\ Column(s, i) = p[2]
  BY <1>4, <1>5 DEF HasCell
<1>8. i \in 1 .. Len(t) /\ t[i] = s[i]
  BY <1>2, <1>6 DEF GoesOn
<1>9. Column(t, i) = Column(s, i)
  BY <1>2, <1>6, SameColumns
<1>10. p[1] < Len(b)
  BY <1>1, <1>3
<1>11. QED
  BY <1>1, <1>4, <1>5, <1>7, <1>8, <1>9, <1>10 DEF HasCell

\* The places of some characters.
LEMMA PlacesUnfold ==
  ASSUME NEW t, NEW x \in Seq(GlyphsOf(t))
  PROVE  \E s \in Seq(Nat) :
           /\ Len(s) = Len(x) /\ \A k \in 1 .. Len(x) : s[k] = x[k].place
           /\ PlacesIn(x) = Kept({k \in 1 .. Len(x) : x[k].place # 0}, s)
           /\ PlacesIn(x) \in Seq(Nat)
<1>1. PICK s : s = [k \in 1 .. Len(x) |-> x[k].place]
  OBVIOUS
<1>2. \A k \in 1 .. Len(x) : x[k].place \in Nat
  <2>1. PICK G : G = GlyphsOf(t) /\ G \subseteq Glyph
    BY DEF GlyphsOf
  <2>2. \A k \in 1 .. Len(x) : x[k] \in G
    BY <2>1
  <2>3. QED
    BY <2>1, <2>2 DEF Glyph
<1>3. s \in Seq(Nat) /\ Len(s) = Len(x)
  BY <1>1, <1>2
<1>4. PlacesIn(x) = Kept({k \in 1 .. Len(x) : x[k].place # 0}, s)
  BY <1>1 DEF PlacesIn
<1>5. PICK S : S = {k \in 1 .. Len(x) : x[k].place # 0}
  OBVIOUS
<1>6. Kept(S, s) \in Seq(Nat)
  BY <1>3, KeptElement
<1>7. QED
  BY <1>1, <1>3, <1>4, <1>5, <1>6

LEMMA TwoFurther ==
  ASSUME NEW n \in Nat, NEW m \in Nat, m = n - 2
  PROVE  \A k \in 1 .. m : k + 2 \in 1 .. n
OBVIOUS

\* Blanks and bars are no characters of the text.
LEMMA NothingCleaned ==
  ASSUME NEW t \in Seq(Letters), NEW x \in Seq(GlyphsOf(t))
  PROVE  PlacesIn(Cleaned(x)) = PlacesIn(x)
<1>1. PICK G : G = GlyphsOf(t)
  OBVIOUS
<1>2. PICK s \in Seq(Nat) : /\ Len(s) = Len(x) /\ \A k \in 1 .. Len(x) : s[k] = x[k].place
                            /\ PlacesIn(x) = Kept({k \in 1 .. Len(x) : x[k].place # 0}, s)
  BY PlacesUnfold
<1>3. PICK S : S = {k \in 1 .. Len(x) : x[k].place # 0}
  OBVIOUS
<1>4. \A k \in 1 .. Len(x) : x[k] \in G
  BY <1>1
<1>5. PICK n \in Nat : n = Len(x)
  OBVIOUS
<1>6. CASE \A i \in 1 .. Len(x) : x[i].kind = "space"
  <2>1. "space" \notin Letters
    BY TranscriptBounds
  <2>2. S = {}
    BY <1>1, <1>3, <1>4, <1>6, <2>1 DEF GlyphsOf
  <2>3. Cleaned(x) = <<>>
    BY <1>6, Zenon DEF Cleaned
  <2>4. PICK e : e = <<>>
    OBVIOUS
  <2>5. e \in Seq(GlyphsOf(t)) /\ Len(e) = 0 /\ 1 .. Len(e) = {} /\ e \in Seq(Nat)
    BY <2>4
  <2>6. PICK u \in Seq(Nat) : Len(u) = 0 /\ PlacesIn(e) = Kept({k \in 1 .. Len(e) : e[k].place # 0}, u)
    BY <2>5, PlacesUnfold
  <2>7. {k \in 1 .. Len(e) : e[k].place # 0} = S
    BY <2>2, <2>5
  <2>8. Kept(S, s) = Kept(S, u)
    <3>1. Len(u) <= Len(s) /\ \A i \in 1 .. Len(u) : u[i] = s[i]
      BY <2>6
    <3>2. \A i \in 1 .. Len(s) : i \in S => i <= Len(u)
      BY <2>2
    <3>3. QED
      BY <3>1, <3>2, KeptSame
  <2>9. QED
    BY <1>2, <1>3, <2>3, <2>4, <2>6, <2>7, <2>8
<1>7. CASE ~ (\A i \in 1 .. Len(x) : x[i].kind = "space") /\ IsPrefix(Bar, x)
  <2>1. PICK y : y = SubSeq(x, 3, Len(x))
    OBVIOUS
  <2>2. Cleaned(x) = y
    BY <1>7, <2>1, Zenon DEF Cleaned
  <2>3. n >= 2 /\ x[1].place = 0 /\ x[2].place = 0
    <3>1. Len(Bar) = 2 /\ Bar[1].place = 0 /\ Bar[2].place = 0
      BY DEF Bar, Cell
    <3>2. 2 <= Len(x) /\ SubSeq(Bar, 1, 2) = SubSeq(x, 1, 2)
      BY <1>7, <3>1 DEF IsPrefix
    <3>3. SubSeq(x, 1, 2)[1] = x[1] /\ SubSeq(x, 1, 2)[2] = x[2]
      BY <3>2
    <3>4. PICK b : b = Bar
      OBVIOUS
    <3>5. b \in Seq(GlyphsOf(t))
      BY <3>4, BlankType DEF Bar, GlyphKinds
    <3>6. SubSeq(b, 1, 2)[1] = b[1] /\ SubSeq(b, 1, 2)[2] = b[2]
      BY <3>1, <3>4, <3>5
    <3>7. QED
      BY <1>5, <3>1, <3>2, <3>3, <3>4, <3>6
  <2>4. y \in Seq(GlyphsOf(t)) /\ Len(y) = n - 2 /\ \A k \in 1 .. n - 2 : y[k] = x[k + 2]
    <3>1. x \in Seq(G) /\ 3 \in Int /\ Len(x) \in Int /\ \A i \in 3 .. Len(x) : x[i] \in G
      BY <1>1, <1>4
    <3>2. /\ y \in Seq(G) /\ Len(y) = IF 3 <= Len(x) THEN Len(x) - 3 + 1 ELSE 0
          /\ \A i \in 1 .. Len(x) - 3 + 1 : y[i] = x[3 + i - 1]
      BY ONLY <2>1, <3>1, SubSeqProperties
    <3>3. Len(y) = n - 2 /\ Len(x) - 3 + 1 = n - 2 /\ \A i \in 1 .. n - 2 : 3 + i - 1 = i + 2
      BY <1>5, <2>3, <3>2
    <3>4. QED
      BY <1>1, <3>2, <3>3
  <2>5. PICK u \in Seq(Nat) : /\ Len(u) = Len(y) /\ \A k \in 1 .. Len(y) : u[k] = y[k].place
                              /\ PlacesIn(y) = Kept({k \in 1 .. Len(y) : y[k].place # 0}, u)
    BY <2>4, PlacesUnfold
  <2>6. PICK U : U = {k \in 1 .. Len(y) : y[k].place # 0}
    OBVIOUS
  <2>7. PICK m \in Nat : m = n - 2
    BY <2>3
  <2>8. \A k \in 1 .. m : k + 2 \in 1 .. n /\ u[k] = s[k + 2] /\ (k \in U <=> k + 2 \in S)
    <3>1. \A k \in 1 .. m : k + 2 \in 1 .. n /\ y[k] = x[k + 2]
      <4>1. \A k \in 1 .. m : k + 2 \in 1 .. n
        BY <2>7, TwoFurther
      <4>2. QED
        BY <2>4, <2>7, <4>1
    <3>2. QED
      BY <1>2, <1>3, <1>5, <2>4, <2>5, <2>6, <2>7, <3>1
  <2>9. PICK f : KeptSoFar(f, Nat, S, s) /\ Kept(S, s) = f[n]
    BY <1>2, <1>5, KeptUnfold
  <2>10. PICK g : KeptSoFar(g, Nat, U, u) /\ Kept(U, u) = g[m]
    BY <2>4, <2>5, <2>7, KeptUnfold
  <2>11. f[2] = <<>>
    <3>1. 1 \notin S /\ 2 \notin S /\ 1 \in 1 .. n /\ 2 \in 1 .. n
      BY <1>3, <2>3
    <3>2. f[0] = <<>> /\ \A i \in 1 .. n : i \notin S => f[i] = f[i - 1]
      BY <1>2, <1>5, <2>9 DEF KeptSoFar
    <3>3. f[1] = f[1 - 1] /\ f[2] = f[2 - 1]
      BY <3>1, <3>2
    <3>4. 1 - 1 = 0 /\ 2 - 1 = 1
      OBVIOUS
    <3>5. QED
      BY <3>2, <3>3, <3>4
  <2> DEFINE A == {i \in 0 .. m : g[i] = f[i + 2]}
  <2>12. 0 \in A
    BY <2>7, <2>10, <2>11 DEF KeptSoFar
  <2>13. ASSUME NEW i \in Nat, i < m, i \in A
         PROVE  i + 1 \in A
    <3>1. PICK j : j = i + 2 /\ j \in Nat /\ j + 1 \in 1 .. n /\ (j + 1) - 1 = j /\ j + 1 = (i + 1) + 2
      BY <2>7, <2>13
    <3>2. i + 1 \in 1 .. m /\ i + 1 \in 0 .. m /\ (i + 1) - 1 = i
      BY <2>7, <2>13
    <3>3. f[j + 1] = IF j + 1 \in S THEN Append(f[j], s[j + 1]) ELSE f[j]
      BY <1>2, <1>5, <2>9, <3>1 DEF KeptSoFar
    <3>4. g[i + 1] = IF i + 1 \in U THEN Append(g[i], u[i + 1]) ELSE g[i]
      BY <2>4, <2>5, <2>7, <2>10, <3>2 DEF KeptSoFar
    <3>5. u[i + 1] = s[j + 1] /\ (i + 1 \in U <=> j + 1 \in S)
      BY <2>8, <3>1, <3>2
    <3>6. g[i] = f[j]
      BY <2>13, <3>1
    <3>7. QED
      BY <3>1, <3>2, <3>3, <3>4, <3>5, <3>6
  <2> HIDE DEF A
  <2>14. \A i \in 0 .. m : i \in A
    BY <2>7, <2>12, <2>13, SetInduction
  <2>15. m \in A /\ m + 2 = n
    BY <2>7, <2>14
  <2>16. g[m] = f[n]
    BY <2>15 DEF A
  <2>17. QED
    BY <1>2, <1>3, <2>2, <2>5, <2>6, <2>9, <2>10, <2>16
<1>8. CASE ~ (\A i \in 1 .. Len(x) : x[i].kind = "space") /\ ~ IsPrefix(Bar, x)
  BY <1>8, Zenon DEF Cleaned
<1>9. QED
  BY <1>6, <1>7, <1>8

LEMMA NotBoth ==
  ASSUME NEW i \in Nat, NEW j \in Nat, NEW w \in Nat, w >= 1, i + w <= j
  PROVE  ~ (j < i + 1)
OBVIOUS

\* The end of a selection that is a character has it, with no more than accents in front of it.
CellIsCopied(t, cut, row, e, r, p, q) ==
  /\ cut \in Seq(Nat)
  /\ \E k \in 1 .. Len(cut) :
       /\ cut[k] = row[e].place
       /\ (r = p[1] /\ Column(row, e) = p[2]) => \A j \in 1 .. k - 1 : t[cut[j]] = "accent"
       /\ (r = q[1] /\ Column(row, e) = q[2]) => k = Len(cut)

LEMMA CutHasCell ==
  ASSUME NEW t \in Seq(Letters), NEW row \in Seq(GlyphsOf(t)), NEW e \in 1 .. Len(row),
         CellWidth(row[e]) > 0, row[e].place # 0,
         NEW r \in Int, NEW p \in Int \X Int, NEW q \in Int \X Int,
         r = p[1] => Column(row, e) >= p[2], r = q[1] => Column(row, e) < q[2] + 1,
         NEW cut, cut = PlacesIn(Cut(row, r, p, q))
  PROVE  CellIsCopied(t, cut, row, e, r, p, q)
<1>1. PICK S : S = {i \in 1 .. Len(row) : /\ (r = p[1]) => Column(row, i) >= p[2]
                                          /\ (r = q[1]) => Column(row, i) < q[2] + 1}
  OBVIOUS
<1>2. PICK x : x = Kept(S, row)
  OBVIOUS
<1>3. x = Cut(row, r, p, q)
  BY <1>1, <1>2 DEF Cut
<1>4. PICK G : G = GlyphsOf(t)
  OBVIOUS
<1>5. e \in S
  BY <1>1
<1>6. x \in Seq(G) /\ KeptAt(S, row, e)
  BY <1>2, <1>4, <1>5, KeptElement
<1>7. PICK m \in 1 .. Len(x) :
         /\ x[m] = row[e]
         /\ \A j \in 1 .. m - 1 : \E d \in 1 .. e - 1 : d \in S /\ x[j] = row[d]
         /\ (\A d \in 1 .. Len(row) : d \in S => d <= e) => m = Len(x)
  BY <1>2, <1>6 DEF KeptAt
<1>8. PICK s \in Seq(Nat) : /\ Len(s) = Len(x) /\ \A k \in 1 .. Len(x) : s[k] = x[k].place
                            /\ PlacesIn(x) = Kept({k \in 1 .. Len(x) : x[k].place # 0}, s)
                            /\ PlacesIn(x) \in Seq(Nat)
  BY <1>4, <1>6, PlacesUnfold
<1>9. PICK U : U = {k \in 1 .. Len(x) : x[k].place # 0}
  OBVIOUS
<1>10. m \in U /\ m \in 1 .. Len(s) /\ cut = Kept(U, s)
  BY <1>3, <1>7, <1>8, <1>9
<1>11. PICK k \in 1 .. Len(cut) :
          /\ cut[k] = s[m]
          /\ \A j \in 1 .. k - 1 : \E d \in 1 .. m - 1 : d \in U /\ cut[j] = s[d]
          /\ (\A d \in 1 .. Len(s) : d \in U => d <= m) => k = Len(cut)
  <2>1. KeptAt(U, s, m)
    BY <1>10, KeptElement
  <2>2. QED
    BY <1>10, <2>1 DEF KeptAt
<1>12. cut[k] = row[e].place
  BY <1>7, <1>8, <1>10, <1>11
<1>13. PICK width \in Nat : width = CellWidth(row[e]) /\ width >= 1
  <2>1. CellWidth(row[e]) \in {0, 1, 2}
    BY WidthIsSmall
  <2>2. QED
    BY <2>1
<1>14. ASSUME r = p[1], Column(row, e) = p[2], NEW j \in 1 .. k - 1
       PROVE  t[cut[j]] = "accent"
  <2>1. PICK d \in 1 .. m - 1 : d \in U /\ cut[j] = s[d]
    BY <1>11
  <2>2. PICK c \in 1 .. e - 1 : c \in S /\ x[d] = row[c]
    BY <1>7
  <2>3. c \in 1 .. Len(row) /\ c < e
    OBVIOUS
  <2>4. Column(row, c) + CellWidth(row[c]) <= Column(row, e)
    BY <2>3, ColumnsGoUp
  <2>5. Column(row, c) >= p[2]
    BY <1>1, <1>14, <2>2
  <2>6. Column(row, c) \in Nat /\ p[2] \in Int /\ CellWidth(row[c]) \in {0, 1, 2}
    <3>1. c \in 1 .. Len(row) + 1
      BY <2>3
    <3>2. Column(row, c) \in Nat
      BY <3>1, ColumnsGoUp
    <3>3. CellWidth(row[c]) \in {0, 1, 2}
      BY WidthIsSmall
    <3>4. QED
      BY <3>2, <3>3
  <2>7. CellWidth(row[c]) = 0
    BY <1>14, <2>4, <2>5, <2>6
  <2>8. row[c].kind = "accent"
    <3>1. row[c].kind = "wide" \/ row[c].kind = "accent" \/ CellWidth(row[c]) = 1
      BY DEF CellWidth
    <3>2. row[c].kind = "wide" => CellWidth(row[c]) = 2
      BY DEF CellWidth
    <3>3. QED
      BY <2>7, <3>1, <3>2
  <2>9. d \in 1 .. Len(x)
    BY <1>9, <2>1
  <2>10. x[d] \in G /\ x[d].place # 0 /\ cut[j] = x[d].place
    BY <1>6, <1>8, <1>9, <2>1, <2>9
  <2>11. t[x[d].place] = x[d].kind
    BY <1>4, <2>10 DEF GlyphsOf
  <2>12. QED
    BY <2>2, <2>8, <2>10, <2>11
<1>15. ASSUME r = q[1], Column(row, e) = q[2]
       PROVE  k = Len(cut)
  <2>1. ASSUME NEW d \in 1 .. Len(row), d \in S, ~ (d <= e)
        PROVE  FALSE
    <3>1. Column(row, e) + CellWidth(row[e]) <= Column(row, d)
      BY <2>1, ColumnsGoUp
    <3>2. Column(row, d) < q[2] + 1
      BY <1>1, <1>15, <2>1
    <3>3. Column(row, d) \in Nat /\ Column(row, e) \in Nat
      <4>1. d \in 1 .. Len(row) + 1 /\ e \in 1 .. Len(row) + 1
        OBVIOUS
      <4>2. QED
        BY <4>1, ColumnsGoUp
    <3>4. PICK i, j \in Nat : i = Column(row, e) /\ j = Column(row, d)
      BY <3>3
    <3>5. i + width <= j /\ j < i + 1
      BY <1>13, <1>15, <3>1, <3>2, <3>4
    <3>6. QED
      BY <1>13, <3>5, NotBoth
  <2>2. m = Len(x)
    BY <1>7, <2>1
  <2>3. \A d \in 1 .. Len(s) : d \in U => d <= m
    BY <1>8, <2>2
  <2>4. QED
    BY <1>11, <2>3
<1>16. QED
  BY <1>3, <1>8, <1>12, <1>14, <1>15 DEF CellIsCopied

\* Which end of a selection comes first does not depend on the order they are given in.
LEMMA EndsInOrder ==
  ASSUME NEW p \in Int \X Int, NEW q \in Int \X Int
  PROVE  /\ First(p, q) = First(q, p) /\ Final(p, q) = Final(q, p)
         /\ \/ First(p, q) = p /\ Final(p, q) = q
            \/ First(p, q) = q /\ Final(p, q) = p
         /\ First(p, q)[1] <= Final(p, q)[1]
         /\ First(p, q)[1] = Final(p, q)[1] => First(p, q)[2] <= Final(p, q)[2]
<1>1. AtOrBefore(p, q) \/ AtOrBefore(q, p)
  BY DEF AtOrBefore
<1>2. AtOrBefore(p, q) /\ AtOrBefore(q, p) => p = q
  BY DEF AtOrBefore
<1>3. CASE AtOrBefore(p, q)
  <2>1. First(p, q) = p /\ Final(p, q) = q /\ First(q, p) = p /\ Final(q, p) = q
    BY <1>2, <1>3 DEF First, Final
  <2>2. p[1] <= q[1] /\ (p[1] = q[1] => p[2] <= q[2])
    BY <1>3 DEF AtOrBefore
  <2>3. QED
    BY <2>1, <2>2
<1>4. CASE ~ AtOrBefore(p, q)
  <2>1. First(p, q) = q /\ Final(p, q) = p /\ First(q, p) = q /\ Final(q, p) = p
    BY <1>1, <1>4 DEF First, Final
  <2>2. q[1] <= p[1] /\ (q[1] = p[1] => q[2] <= p[2])
    BY <1>1, <1>4 DEF AtOrBefore
  <2>3. QED
    BY <2>1, <2>2
<1>5. QED
  BY <1>3, <1>4

\* How many rows a selection has.
RowsCounted(a, b, m, n) ==
  /\ 1 .. (IF b < m THEN b ELSE m - 1) - a + 1 = 1 .. n
  /\ a < m => n > 0
  /\ b < m => n = b - a + 1
  /\ \A k \in 1 .. n : a + k \in 1 .. m /\ (a + k - 1) + 1 = a + k

LEMMA RowCount ==
  ASSUME NEW a \in Nat, NEW b \in Nat, NEW m \in Nat, a <= b
  PROVE  \E n \in Nat : RowsCounted(a, b, m, n)
<1>1. PICK h \in Int : h = (IF b < m THEN b ELSE m - 1) - a + 1
  OBVIOUS
<1>2. (IF h > 0 THEN h ELSE 0) \in Nat
  OBVIOUS
<1>3. PICK n \in Nat : n = IF h > 0 THEN h ELSE 0
  BY <1>2
<1>4. 1 .. h = 1 .. n
  BY <1>3
<1>5. (a < m => n > 0) /\ (b < m => n = b - a + 1)
  BY <1>1, <1>3
<1>6. \A k \in 1 .. n : a + k \in 1 .. m /\ (a + k - 1) + 1 = a + k
  BY <1>1, <1>3
<1>7. QED
  BY <1>1, <1>4, <1>5, <1>6 DEF RowsCounted

\* The last of n rows.
IsLast(n, a, b) == n \in 1 .. n /\ a + n - 1 = b /\ a + n = b + 1

LEMMA LastRow ==
  ASSUME NEW a \in Nat, NEW b \in Nat, a <= b, NEW n, n = b - a + 1
  PROVE  IsLast(n, a, b)
BY DEF IsLast

\* The pieces of a selection, row by row.
CutsAre(cuts, n, G, layout, f, l) ==
  /\ f[1] < Len(layout) => n > 0
  /\ l[1] < Len(layout) => n = l[1] - f[1] + 1
  /\ cuts \in Seq(Seq(G)) /\ Len(cuts) = n
  /\ \A k \in 1 .. n :
       /\ f[1] + k \in 1 .. Len(layout)
       /\ cuts[k] = Cut(layout[f[1] + k], f[1] + k - 1, f, l)

LEMMA CutsUnfold ==
  ASSUME NEW G, NEW layout \in Seq(Seq(G)), NEW p \in Int \X Int, NEW q \in Int \X Int, NEW f, NEW l,
         f = First(p, q), l = Final(p, q), p[1] \in Nat, q[1] \in Nat
  PROVE  \E n \in Nat : CutsAre(CutsOf(layout, p, q), n, G, layout, f, l)
<1>1. f \in Int \X Int /\ l \in Int \X Int /\ f[1] \in Nat /\ l[1] \in Nat /\ f[1] <= l[1]
  BY EndsInOrder
<1>2. PICK a, b, m \in Nat : a = f[1] /\ b = l[1] /\ m = Len(layout) /\ a <= b
  BY <1>1
<1>3. PICK n \in Nat : RowsCounted(a, b, m, n)
  BY <1>2, RowCount
<1>4. /\ 1 .. (IF b < m THEN b ELSE m - 1) - a + 1 = 1 .. n
      /\ a < m => n > 0
      /\ b < m => n = b - a + 1
      /\ \A k \in 1 .. n : a + k \in 1 .. m /\ (a + k - 1) + 1 = a + k
  BY <1>3 DEF RowsCounted
<1>5. PICK r : r = RowsFrom(layout, f, l)
  OBVIOUS
<1>6. r = [k \in 1 .. n |-> a + k - 1]
  <2>1. r = [k \in 1 .. (IF b < m THEN b ELSE m - 1) - a + 1 |-> a + k - 1]
    BY <1>2, <1>5 DEF RowsFrom
  <2>2. QED
    BY <1>4, <2>1
<1>7. Len(r) = n /\ \A k \in 1 .. n : r[k] = a + k - 1
  BY <1>2, <1>4, <1>6
<1>8. PICK cuts : cuts = CutsOf(layout, p, q)
  OBVIOUS
<1>9. cuts = [k \in 1 .. n |-> Cut(layout[r[k] + 1], r[k], f, l)]
  BY <1>5, <1>7, <1>8 DEF CutsOf
<1>10. \A k \in 1 .. n : a + k \in 1 .. m /\ r[k] + 1 = a + k /\ r[k] = a + k - 1
  BY <1>4, <1>7
<1>11. \A k \in 1 .. n : cuts[k] = Cut(layout[a + k], a + k - 1, f, l)
  BY <1>9, <1>10
<1>12. PICK V : V = Seq(G)
  OBVIOUS
<1>13. \A k \in 1 .. n : cuts[k] \in V
  <2>1. ASSUME NEW k \in 1 .. n
        PROVE  cuts[k] \in V
    <3>1. PICK row : row = layout[a + k]
      OBVIOUS
    <3>2. layout \in Seq(V) /\ a + k \in 1 .. Len(layout)
      BY <1>2, <1>10, <1>12
    <3>3. row \in Seq(G)
      BY <1>12, <3>1, <3>2
    <3>4. \A S : Kept(S, row) \in Seq(G)
      BY <3>3, KeptElement
    <3>5. cuts[k] = Cut(row, a + k - 1, f, l)
      BY <1>11, <3>1
    <3>6. Cut(row, a + k - 1, f, l) \in Seq(G)
      BY <3>4 DEF Cut
    <3>7. QED
      BY <1>12, <3>5, <3>6
  <2>2. QED
    BY <2>1
<1>14. cuts \in Seq(V) /\ Len(cuts) = n
  <2>1. PICK g \in [1 .. n -> V] : g = cuts
    BY <1>9, <1>13
  <2>2. g \in Seq(V) /\ Len(g) = n
    BY ONLY n \in Nat, g \in [1 .. n -> V]
  <2>3. QED
    BY <2>1, <2>2
<1>15. (a < m => n > 0) /\ (b < m => n = b - a + 1)
  BY <1>4
<1>16. CutsAre(cuts, n, G, layout, f, l)
  BY <1>2, <1>10, <1>11, <1>12, <1>14, <1>15 DEF CutsAre
<1>17. QED
  BY <1>8, <1>16

\* What is highlighted is what is copied.
LEMMA CopiedAsShown ==
  ASSUME NEW t \in Seq(Letters), NEW layout \in Seq(Seq(GlyphsOf(t))),
         NEW p \in Int \X Int, NEW q \in Int \X Int, p[1] \in Nat, q[1] \in Nat
  PROVE  /\ Highlighted(layout, p, q) = Extracted(layout, p, q)
         /\ Highlighted(layout, p, q) = Highlighted(layout, q, p)
<1>1. PICK cuts : cuts = CutsOf(layout, p, q)
  OBVIOUS
<1>2. PICK G : G = GlyphsOf(t)
  OBVIOUS
<1>3. PICK f, l : f = First(p, q) /\ l = Final(p, q)
  OBVIOUS
<1>4. cuts \in Seq(Seq(G))
  <2>1. PICK n \in Nat : CutsAre(cuts, n, G, layout, f, l)
    BY <1>1, <1>2, <1>3, CutsUnfold
  <2>2. QED
    BY <2>1 DEF CutsAre
<1>5. \A k \in 1 .. Len(cuts) : PlacesIn(Cleaned(cuts[k])) = PlacesIn(cuts[k])
  <2>1. PICK V : V = Seq(G)
    OBVIOUS
  <2>2. \A k \in 1 .. Len(cuts) : cuts[k] \in V
    BY <1>4, <2>1
  <2>3. \A x \in V : PlacesIn(Cleaned(x)) = PlacesIn(x)
    BY <1>2, <2>1, NothingCleaned
  <2>4. QED
    BY <2>2, <2>3
<1>6. [k \in 1 .. Len(cuts) |-> PlacesIn(Cleaned(cuts[k]))] = [k \in 1 .. Len(cuts) |-> PlacesIn(cuts[k])]
  BY <1>5
<1>7. Extracted(layout, p, q) = Flat([k \in 1 .. Len(cuts) |-> PlacesIn(Cleaned(cuts[k]))])
  BY <1>1 DEF Extracted
<1>8. Highlighted(layout, p, q) = Flat([k \in 1 .. Len(cuts) |-> PlacesIn(cuts[k])])
  BY <1>1 DEF Highlighted
<1>9. CutsOf(layout, q, p) = CutsOf(layout, p, q)
  <2>1. First(p, q) = First(q, p) /\ Final(p, q) = Final(q, p)
    BY EndsInOrder
  <2>2. QED
    BY <2>1 DEF CutsOf
<1>10. Highlighted(layout, q, p) = Highlighted(layout, p, q)
  BY <1>9 DEF Highlighted
<1>11. QED
  BY <1>6, <1>7, <1>8, <1>10

\* A character at one end of a selection is first of what is highlighted, but for accents, or last.
Copied(t, chars, place) ==
  \E k \in 1 .. Len(chars) :
    /\ chars[k] = place
    /\ \/ k = Len(chars)
       \/ \A j \in 1 .. k - 1 : t[chars[j]] = "accent"

LEMMA PressIsShown ==
  ASSUME NEW t \in Seq(Letters), NEW layout \in Seq(Seq(GlyphsOf(t))),
         NEW p \in Int \X Int, NEW q \in Int \X Int, p[1] \in Nat, q[1] \in Nat,
         NEW place, place # 0, HasCell(layout, p, place)
  PROVE  Copied(t, Highlighted(layout, p, q), place)
<1>1. PICK G : G = GlyphsOf(t)
  OBVIOUS
<1>2. PICK V : V = Seq(G)
  OBVIOUS
<1>3. layout \in Seq(V) /\ Len(layout) \in Nat
  BY <1>1, <1>2
<1>4. PICK f, l : f = First(p, q) /\ l = Final(p, q)
  OBVIOUS
<1>5. PICK cuts : cuts = CutsOf(layout, p, q)
  OBVIOUS
<1>6. PICK n \in Nat :
         /\ f[1] < Len(layout) => n > 0
         /\ l[1] < Len(layout) => n = l[1] - f[1] + 1
         /\ cuts \in Seq(Seq(G)) /\ Len(cuts) = n
         /\ \A k \in 1 .. n :
              /\ f[1] + k \in 1 .. Len(layout)
              /\ cuts[k] = Cut(layout[f[1] + k], f[1] + k - 1, f, l)
  <2>1. layout \in Seq(Seq(G))
    BY <1>1
  <2>2. PICK n \in Nat : CutsAre(cuts, n, G, layout, f, l)
    BY <1>4, <1>5, <2>1, CutsUnfold
  <2>3. QED
    BY <2>2 DEF CutsAre
<1>7. /\ f \in Int \X Int /\ l \in Int \X Int /\ f[1] \in Nat /\ l[1] \in Nat /\ f[1] <= l[1]
      /\ f[1] = l[1] => f[2] <= l[2]
      /\ (f = p /\ l = q) \/ (f = q /\ l = p)
  BY <1>4, EndsInOrder
<1>8. p[1] < Len(layout) /\ p[1] + 1 \in 1 .. Len(layout)
  BY <1>3 DEF HasCell
<1>9. PICK row : row = layout[p[1] + 1]
  OBVIOUS
<1>10. row \in Seq(GlyphsOf(t))
  BY <1>1, <1>2, <1>3, <1>8, <1>9
<1>11. PICK e \in 1 .. Len(row) : row[e].place = place /\ CellWidth(row[e]) > 0 /\ Column(row, e) = p[2]
  BY <1>9 DEF HasCell
<1>12. PICK ss : ss = [k \in 1 .. n |-> PlacesIn(cuts[k])]
  OBVIOUS
<1>13. ss \in Seq(Seq(Nat)) /\ Len(ss) = n /\ \A k \in 1 .. n : ss[k] = PlacesIn(cuts[k])
  <2>1. \A k \in 1 .. n : cuts[k] \in V
    BY <1>2, <1>6
  <2>2. PICK W : W = Seq(Nat)
    OBVIOUS
  <2>3. \A x \in V : PlacesIn(x) \in W
    BY <1>1, <1>2, <2>2, PlacesUnfold
  <2>4. ss \in [1 .. n -> W]
    BY <1>12, <2>1, <2>3
  <2>5. ss \in Seq(W) /\ Len(ss) = n
    BY ONLY <2>4, n \in Nat
  <2>6. QED
    BY <1>12, <2>2, <2>5
<1>14. PICK chars : chars = Highlighted(layout, p, q)
  OBVIOUS
<1>15. chars = Flat(ss)
  BY <1>5, <1>6, <1>12, <1>14 DEF Highlighted
<1>16. CASE f = p /\ l = q
  <2>1. PICK one : one = 1 /\ one \in 1 .. n /\ f[1] + one - 1 = p[1] /\ f[1] + one = p[1] + 1
    <3>1. PICK a \in Nat : a = f[1] /\ a = p[1]
      BY <1>7, <1>16
    <3>2. n > 0
      BY <1>6, <1>8, <3>1
    <3>3. 1 \in 1 .. n
      BY <3>2
    <3>4. a + 1 - 1 = a
      OBVIOUS
    <3>5. QED
      BY <3>1, <3>3, <3>4
  <2>2. cuts[one] = Cut(row, p[1], f, l)
    BY <1>6, <1>9, <2>1
  <2>3. PICK cut : cut = PlacesIn(Cut(row, p[1], f, l))
    OBVIOUS
  <2>4. p[1] \in Int /\ (p[1] = f[1] => Column(row, e) >= f[2]) /\ (p[1] = l[1] => Column(row, e) < l[2] + 1)
    BY <1>7, <1>11, <1>16
  <2>5. PICK k \in 1 .. Len(cut) : cut \in Seq(Nat) /\ cut[k] = place /\ \A j \in 1 .. k - 1 : t[cut[j]] = "accent"
    <3>1. row[e].place # 0 /\ p[1] = f[1] /\ Column(row, e) = f[2]
      BY <1>11, <1>16
    <3>2. PICK r \in Int : r = p[1]
      BY <2>4
    <3>3. r = p[1] /\ cut = PlacesIn(Cut(row, r, f, l)) /\ CellWidth(row[e]) > 0
      BY <1>11, <2>3, <3>2
    <3>4. (r = f[1] => Column(row, e) >= f[2]) /\ (r = l[1] => Column(row, e) < l[2] + 1)
      BY <2>4, <3>3
    <3>5. CellIsCopied(t, cut, row, e, r, f, l)
      BY <1>7, <1>10, <3>1, <3>3, <3>4, CutHasCell
    <3>6. QED
      BY <1>11, <3>1, <3>3, <3>5 DEF CellIsCopied
  <2>6. ss[1] = cut /\ ss # <<>>
    BY <1>13, <2>1, <2>2, <2>3
  <2>7. chars \in Seq(Nat) /\ Len(cut) <= Len(chars) /\ \A j \in 1 .. Len(cut) : chars[j] = cut[j]
    BY <1>13, <1>15, <2>6, FlatEnds
  <2>8. k \in 1 .. Len(chars) /\ \A j \in 1 .. k - 1 : j \in 1 .. Len(cut)
    <3>1. Len(cut) \in Nat
      BY <2>5
    <3>2. QED
      BY <2>7, <3>1
  <2>9. chars[k] = place /\ \A j \in 1 .. k - 1 : t[chars[j]] = "accent"
    BY <2>5, <2>7, <2>8
  <2>10. QED
    BY <1>14, <2>8, <2>9 DEF Copied
<1>17. CASE f = q /\ l = p
  <2>1. n \in 1 .. n /\ f[1] + n - 1 = p[1] /\ f[1] + n = p[1] + 1
    <3>1. PICK a, b \in Nat : a = f[1] /\ b = p[1] /\ b = l[1] /\ a <= b
      BY <1>7, <1>17
    <3>2. n = b - a + 1
      BY <1>6, <1>8, <3>1
    <3>3. n \in 1 .. n /\ a + n - 1 = b /\ a + n = b + 1
      <4>1. IsLast(n, a, b)
        BY <3>1, <3>2, LastRow
      <4>2. QED
        BY <4>1 DEF IsLast
    <3>4. QED
      BY <3>1, <3>3
  <2>2. cuts[n] = Cut(row, p[1], f, l)
    BY <1>6, <1>9, <2>1
  <2>3. PICK cut : cut = PlacesIn(Cut(row, p[1], f, l))
    OBVIOUS
  <2>4. p[1] \in Int /\ (p[1] = f[1] => Column(row, e) >= f[2]) /\ (p[1] = l[1] => Column(row, e) < l[2] + 1)
    BY <1>7, <1>11, <1>17
  <2>5. cut \in Seq(Nat) /\ \E k \in 1 .. Len(cut) : cut[k] = place /\ k = Len(cut)
    <3>1. row[e].place # 0 /\ p[1] = l[1] /\ Column(row, e) = l[2]
      BY <1>11, <1>17
    <3>2. PICK r \in Int : r = p[1]
      BY <2>4
    <3>3. r = p[1] /\ cut = PlacesIn(Cut(row, r, f, l)) /\ CellWidth(row[e]) > 0
      BY <1>11, <2>3, <3>2
    <3>4. (r = f[1] => Column(row, e) >= f[2]) /\ (r = l[1] => Column(row, e) < l[2] + 1)
      BY <2>4, <3>3
    <3>5. CellIsCopied(t, cut, row, e, r, f, l)
      BY <1>7, <1>10, <3>1, <3>3, <3>4, CutHasCell
    <3>6. QED
      BY <1>11, <3>1, <3>3, <3>5 DEF CellIsCopied
  <2>6. ss[n] = cut /\ ss # <<>> /\ cut # <<>> /\ cut[Len(cut)] = place
    BY <1>13, <2>1, <2>2, <2>3, <2>5
  <2>7. chars \in Seq(Nat) /\ chars # <<>> /\ chars[Len(chars)] = place
    BY <1>13, <1>15, <2>6, FlatEnds
  <2>8. Len(chars) \in 1 .. Len(chars)
    BY <2>7
  <2>9. QED
    BY <1>14, <2>7, <2>8 DEF Copied
<1>18. QED
  BY <1>7, <1>16, <1>17

\* The rows of a frame are characters, and there is one at least.
LEMMA RowsType ==
  ASSUME NEW t \in Seq(Letters), NEW width, NEW r, r = Layout(t, width)
  PROVE  /\ r \in Seq(Seq(Glyph)) /\ r \in Seq(Seq(GlyphsOf(t)))
         /\ Len(r) \in Nat /\ Len(r) >= 1
<1>1. PICK G : G = GlyphsOf(t) /\ G \subseteq Glyph
  BY DEF GlyphsOf
<1>2. PICK H : H = Glyph
  OBVIOUS
<1>3. r \in Seq(Seq(G)) /\ r # <<>>
  BY <1>1, LayoutType
<1>4. PICK V, W : V = Seq(G) /\ W = Seq(H)
  OBVIOUS
<1>5. r \in Seq(V) /\ Len(r) \in Nat /\ Len(r) >= 1
  BY <1>3, <1>4
<1>6. \A k \in 1 .. Len(r) : r[k] \in W
  <2>1. \A k \in 1 .. Len(r) : r[k] \in V
    BY <1>5
  <2>2. V \subseteq W
    <3>1. ASSUME NEW x \in V
          PROVE  x \in W
      <4>1. x \in Seq(G) /\ G \subseteq H
        BY <1>1, <1>2, <1>4
      <4>2. x \in Seq(H)
        BY ONLY <4>1
      <4>3. QED
        BY <1>4, <4>2
    <3>2. QED
      BY <3>1
  <2>3. QED
    BY <2>1, <2>2
<1>7. r \in Seq(W)
  <2>1. r \in Seq(V)
    BY <1>5
  <2>2. QED
    BY ONLY <2>1, <1>6
<1>8. QED
  BY <1>1, <1>2, <1>3, <1>4, <1>5, <1>7

\* The point of a cell that the mouse is on is in the layout, which may end above it.
PointFits(p, x, y) ==
  /\ p \in Nat \X Nat /\ p[1] < Len(rows) /\ p[2] = x
  /\ top + y < Len(rows) => p = <<top + y, x>>

LEMMA PointInLayout ==
  ASSUME top \in Nat, Len(rows) \in Nat, Len(rows) >= 1, NEW x \in Nat, NEW y \in Nat
  PROVE  PointFits(PointAt(x, y), x, y)
<1>1. CASE top + y < Len(rows)
  BY <1>1 DEF PointAt, PointFits
<1>2. CASE ~ (top + y < Len(rows))
  BY <1>2 DEF PointAt, PointFits
<1>3. QED
  BY <1>1, <1>2

\* The character that the mouse is on is there.
LEMMA UnderIsThere ==
  ASSUME NEW t \in Seq(Letters), rows \in Seq(Seq(GlyphsOf(t))),
         NEW p \in Nat \X Nat, p[1] < Len(rows)
  PROVE  /\ Under(p) \in 0 .. Len(t)
         /\ Under(p) # 0 => HasCell(rows, p, Under(p))
<1>1. PICK G, V : G = GlyphsOf(t) /\ V = Seq(G)
  OBVIOUS
<1>2. p[1] \in Nat /\ Len(rows) \in Nat
  OBVIOUS
<1>3. p[1] + 1 \in 1 .. Len(rows)
  BY <1>2
<1>4. PICK row \in Seq(G) : row = rows[p[1] + 1]
  <2>1. rows \in Seq(V)
    BY <1>1
  <2>2. rows[p[1] + 1] \in V
    BY <1>3, <2>1
  <2>3. QED
    BY <1>1, <2>2
<1> DEFINE here == rows[p[1] + 1]
           hit == {i \in 1 .. Len(here) : Column(here, i) = p[2] /\ CellWidth(here[i]) > 0}
<1>5. Under(p) = IF hit = {} THEN 0 ELSE here[CHOOSE i \in hit : TRUE].place
  BY Zenon DEF Under
<1>6. here = row /\ \A i \in hit : i \in 1 .. Len(row) /\ Column(row, i) = p[2] /\ CellWidth(row[i]) > 0
  BY <1>4
<1> HIDE DEF here, hit
<1>7. CASE hit = {}
  <2>1. Under(p) = 0
    BY <1>5, <1>7
  <2>2. Len(t) \in Nat
    OBVIOUS
  <2>3. QED
    BY <2>1, <2>2
<1>8. CASE hit # {}
  <2>1. PICK i \in hit : Under(p) = row[i].place
    <3>1. (CHOOSE i \in hit : TRUE) \in hit
      BY <1>8
    <3>2. Under(p) = row[CHOOSE i \in hit : TRUE].place
      BY <1>5, <1>6, <1>8
    <3>3. QED
      BY <3>1, <3>2
  <2>2. i \in 1 .. Len(row) /\ Column(row, i) = p[2] /\ CellWidth(row[i]) > 0
    BY <1>6, <2>1
  <2>3. row[i] \in G
    BY <1>4, <2>2
  <2>4. row[i].place \in 0 .. Len(t)
    <3>1. PICK c : c = row[i]
      OBVIOUS
    <3>2. c.place \in Nat /\ (c.place # 0 => c.place \in 1 .. Len(t))
      BY <1>1, <2>3, <3>1 DEF GlyphsOf, Glyph
    <3>3. PICK n \in Nat : n = Len(t)
      OBVIOUS
    <3>4. QED
      BY <3>1, <3>2, <3>3
  <2>5. HasCell(rows, p, Under(p))
    BY <1>4, <2>1, <2>2 DEF HasCell
  <2>6. QED
    BY <2>1, <2>4, <2>5
<1>9. QED
  BY <1>7, <1>8

LEMMA LastTopType == \A layout : Len(layout) \in Nat => LastTop(layout) \in Nat
  BY TranscriptBounds DEF LastTop

LEMMA TextInitInv == TextInit => TextInv
<1> SUFFICES ASSUME TextInit
             PROVE  TextInv
  OBVIOUS
<1> USE DEF TextInit
<1>1. TextTypeOK
  <2>1. wide \in Widths
    BY TranscriptBounds
  <2>2. message = <<>> /\ Len(message) = 0 /\ message \in Seq(Letters)
    OBVIOUS
  <2>3. 0 \in 0 .. MaxText /\ 0 <= MaxText
    BY TranscriptBounds
  <2>4. offset = 0 /\ top = 0 /\ pressed = 0 /\ reflowed = FALSE /\ turn = "draw"
    OBVIOUS
  <2>5. rows = <<>>
    OBVIOUS
  <2> HIDE DEF TextInit
  <2>6. top \in 0 .. LastTop(rows)
    BY <2>4, <2>5, LastTopType
  <2>7. QED
    BY <2>1, <2>2, <2>3, <2>4, <2>6 DEF TextTypeOK
<1>2. rows \in Seq(Seq(Glyph))
  OBVIOUS
<1>3. anchor \in Int \X Int /\ extent \in Int \X Int /\ anchor = NoPoint
  BY DEF NoPoint
<1>4. MarksPart /\ PressPart
  BY DEF MarksPart, PressPart
<1>5. CopiesTheSelection
  BY DEF CopiesTheSelection, NoCopy
<1>6. QED
  BY <1>1, <1>2, <1>3, <1>4, <1>5 DEF TextInv

LEMMA DrawTranscriptInv == TextInv /\ DrawTranscript => TextInv'
<1> SUFFICES ASSUME TextInv, DrawTranscript
             PROVE  TextInv'
  OBVIOUS
<1>1. PICK width \in Widths :
         rows' = Layout(message, width) /\ wide' = width
         /\ reflowed' = (anchor # NoPoint /\ (reflowed \/ width # wide))
  BY DEF DrawTranscript
<1>2. /\ message' = message /\ anchor' = anchor /\ extent' = extent /\ pressed' = pressed
      /\ turn' = "drawn" /\ clipboard' = NoCopy
  BY DEF DrawTranscript
<1>3. /\ message \in Seq(Letters) /\ Len(message) <= MaxText /\ wide \in Widths /\ offset \in Nat
      /\ pressed \in 0 .. MaxText /\ reflowed \in BOOLEAN
  BY DEF TextInv, TextTypeOK
<1>4. rows' \in Seq(Seq(Glyph)) /\ rows' \in Seq(Seq(GlyphsOf(message))) /\ Len(rows') \in Nat
  BY <1>1, <1>3, RowsType
<1>5. offset' \in Nat /\ top' \in 0 .. LastTop(rows') /\ offset' + top' = LastTop(rows')
  <2>1. PICK last \in Nat : last = LastTop(rows')
    BY <1>4, LastTopType
  <2>2. offset' = (IF offset > last THEN last ELSE offset) /\ top' = last - offset'
    BY <2>1 DEF DrawTranscript
  <2>3. QED
    BY <1>3, <2>1, <2>2
<1>6. TextTypeOK'
  BY <1>1, <1>2, <1>3, <1>5 DEF TextTypeOK
<1>7. anchor \in Int \X Int /\ extent \in Int \X Int /\ (anchor # NoPoint => anchor[1] \in Nat)
  BY DEF TextInv
<1>8. MarksPart'
  <2>1. CASE anchor = NoPoint
    BY <2>1 DEF DrawTranscript, MarksPart
  <2>2. CASE anchor # NoPoint
    <3>1. marked' = [ends |-> {anchor, extent}, chars |-> Highlighted(rows', anchor, extent)]
      BY <2>2 DEF DrawTranscript
    <3>2. /\ anchor \in marked'.ends /\ extent \in marked'.ends /\ marked'.ends = {anchor, extent}
          /\ marked'.chars = Highlighted(rows', anchor, extent)
      BY <3>1
    <3>3. QED
      BY <1>2, <1>7, <3>2 DEF MarksPart
  <2>3. QED
    BY <2>1, <2>2
<1>9. PressPart'
  <2>1. ASSUME pressed # 0
        PROVE  /\ anchor # NoPoint
               /\ ~ reflowed' => /\ HasCell(rows', anchor, pressed)
                                 /\ Grows(rows', Layout(message, width))
    <3>1. anchor # NoPoint /\ (~ reflowed => /\ HasCell(rows, anchor, pressed)
                                             /\ Grows(rows, Layout(message, wide)))
      BY <2>1 DEF TextInv, PressPart
    <3>2. ASSUME ~ reflowed'
          PROVE  HasCell(rows', anchor, pressed) /\ Grows(rows', Layout(message, width))
      <4>1. width = wide /\ ~ reflowed
        BY <1>1, <3>1, <3>2
      <4>2. PICK a, b : a = rows /\ b = rows' /\ Grows(a, b) /\ HasCell(a, anchor, pressed)
        BY <1>1, <3>1, <4>1
      <4>3. a \in Seq(Seq(Glyph)) /\ b \in Seq(Seq(Glyph))
        BY <1>4, <4>2 DEF TextInv
      <4>4. HasCell(b, anchor, pressed) /\ Grows(b, b)
        BY <4>2, <4>3, CellStays, GrowsTwice
      <4>5. QED
        BY <1>1, <4>2, <4>4
    <3>3. QED
      BY <3>1, <3>2
  <2>2. QED
    BY <1>1, <1>2, <2>1 DEF PressPart
<1>10. CopiesTheSelection'
  BY <1>2 DEF CopiesTheSelection, NoCopy
<1>11. QED
  BY <1>1, <1>2, <1>4, <1>6, <1>7, <1>8, <1>9, <1>10 DEF TextInv

LEMMA GrowInv ==
  ASSUME TextInv, NEW sort \in Letters, Grow(sort)
  PROVE  TextInv'
<1>1. /\ message' = Append(message, sort) /\ Len(message) < MaxText
      /\ turn' = "draw" /\ clipboard' = NoCopy /\ marked' = NoMarks
      /\ UNCHANGED <<offset, rows, top, wide, anchor, extent, pressed>>
  BY DEF Grow
<1>2. /\ message \in Seq(Letters) /\ wide \in Widths /\ offset \in Nat /\ top \in 0 .. LastTop(rows)
      /\ pressed \in 0 .. MaxText /\ reflowed \in BOOLEAN /\ rows \in Seq(Seq(Glyph))
  BY DEF TextInv, TextTypeOK
<1>3. message' \in Seq(Letters) /\ Len(message') <= MaxText
  <2>1. message' \in Seq(Letters) /\ Len(message') = Len(message) + 1 /\ Len(message) \in Nat
    BY <1>1, <1>2
  <2>2. QED
    BY <1>1, <2>1, TranscriptBounds
<1>4. reflowed' = (anchor # NoPoint /\ (reflowed \/
        \E k \in 1 .. Len(LinesOf(message)) : ~ IsPrefix(LinesOf(message)[k], LinesOf(message')[k])))
  BY DEF Grow
<1>5. TextTypeOK'
  BY <1>1, <1>2, <1>3, <1>4 DEF TextTypeOK
<1>6. PressPart'
  <2>1. ASSUME pressed # 0, ~ reflowed'
        PROVE  HasCell(rows, anchor, pressed) /\ Grows(rows, Layout(message', wide))
    <3>1. anchor # NoPoint /\ ~ reflowed
      BY <1>4, <2>1 DEF TextInv, PressPart
    <3>2. HasCell(rows, anchor, pressed) /\ Grows(rows, Layout(message, wide))
      BY <2>1, <3>1 DEF TextInv, PressPart
    <3>3. \A k \in 1 .. Len(LinesOf(message)) : IsPrefix(LinesOf(message)[k], LinesOf(message')[k])
      BY <1>4, <2>1, <3>1
    <3>4. PICK t, u : t = message /\ u = message'
      OBVIOUS
    <3>5. PICK a, b, c : a = rows /\ b = Layout(t, wide) /\ c = Layout(u, wide)
      OBVIOUS
    <3>6. Grows(b, c)
      BY <1>1, <1>2, <3>3, <3>4, <3>5, LayoutGrows
    <3>7. b \in Seq(Seq(Glyph)) /\ c \in Seq(Seq(Glyph)) /\ a \in Seq(Seq(Glyph))
      BY <1>2, <1>3, <3>4, <3>5, RowsType
    <3>8. Grows(a, c)
      BY <3>2, <3>4, <3>5, <3>6, <3>7, GrowsTwice
    <3>9. QED
      BY <3>2, <3>4, <3>5, <3>8
  <2>2. QED
    BY <1>1, <2>1 DEF PressPart, TextInv
<1>7. MarksPart' /\ CopiesTheSelection'
  BY <1>1 DEF MarksPart, CopiesTheSelection, NoCopy
<1>8. QED
  BY <1>1, <1>2, <1>5, <1>6, <1>7 DEF TextInv

LEMMA IdleInv == TextInv /\ Idle => TextInv'
<1> SUFFICES ASSUME TextInv, Idle
             PROVE  TextInv'
  OBVIOUS
<1>1. /\ turn' = "draw" /\ clipboard' = NoCopy /\ marked' = NoMarks
      /\ UNCHANGED <<message, offset, rows, top, wide, anchor, extent, pressed, reflowed>>
  BY DEF Idle
<1>2. TextTypeOK' /\ PressPart' /\ MarksPart' /\ CopiesTheSelection'
  BY <1>1 DEF TextInv, TextTypeOK, PressPart, MarksPart, CopiesTheSelection, NoCopy
<1>3. QED
  BY <1>1, <1>2 DEF TextInv

\* While the mouse is used the last frame stands.
LEMMA FrameStands ==
  ASSUME TextInv, mouseEvent
  PROVE  /\ rows = Layout(message, wide) /\ message \in Seq(Letters) /\ wide \in Widths
         /\ rows \in Seq(Seq(Glyph)) /\ rows \in Seq(Seq(GlyphsOf(message)))
         /\ Len(rows) \in Nat /\ Len(rows) >= 1 /\ top \in Nat
         /\ MarksPart /\ (UNCHANGED <<rows, marked>> => MarksPart')
<1>1. turn # "draw" /\ turn' = "mouse"
  BY DEF mouseEvent
<1>2. /\ rows = Layout(message, wide) /\ message \in Seq(Letters) /\ wide \in Widths
      /\ top \in 0 .. LastTop(rows)
  BY <1>1 DEF TextInv, TextTypeOK
<1>3. /\ rows \in Seq(Seq(Glyph)) /\ rows \in Seq(Seq(GlyphsOf(message)))
      /\ Len(rows) \in Nat /\ Len(rows) >= 1
  BY <1>2, RowsType
<1>4. MarksPart /\ (UNCHANGED <<rows, marked>> => MarksPart')
  BY <1>1 DEF TextInv, MarksPart
<1>5. top \in Nat
  BY <1>2, <1>3, LastTopType
<1>6. QED
  BY <1>2, <1>3, <1>4, <1>5

LEMMA PressInv ==
  ASSUME TextInv, NEW x \in Columns, NEW y \in 0 .. Height, Press(x, y)
  PROVE  TextInv'
<1>1. /\ mouseEvent /\ anchor' = PointAt(x, y) /\ extent' = PointAt(x, y)
      /\ pressed' = IF top + y < Len(rows) THEN Under(<<top + y, x>>) ELSE 0
      /\ reflowed' = FALSE /\ clipboard' = NoCopy
      /\ UNCHANGED <<message, offset, rows, top, wide, marked>>
  BY DEF Press
<1>2. /\ rows = Layout(message, wide) /\ message \in Seq(Letters)
      /\ rows \in Seq(Seq(Glyph)) /\ rows \in Seq(Seq(GlyphsOf(message)))
      /\ Len(rows) \in Nat /\ Len(rows) >= 1 /\ top \in Nat
  BY <1>1, FrameStands
<1>3. MarksPart'
  BY <1>1, FrameStands
<1>4. x \in Nat /\ y \in Nat
  BY TranscriptBounds
<1>5. PointFits(PointAt(x, y), x, y)
  BY <1>2, <1>4, PointInLayout
<1>6. /\ anchor' \in Nat \X Nat /\ anchor'[1] < Len(rows) /\ extent' = anchor'
      /\ top + y < Len(rows) => anchor' = <<top + y, x>>
  BY <1>1, <1>5 DEF PointFits
<1>7. pressed' \in 0 .. Len(message) /\ (pressed' # 0 => HasCell(rows, anchor', pressed'))
  <2>1. CASE top + y < Len(rows)
    <3>1. PICK p \in Nat \X Nat : p = <<top + y, x>> /\ p[1] < Len(rows)
      <4>1. top + y \in Nat
        BY <1>2, <1>4
      <4>2. <<top + y, x>> \in Nat \X Nat /\ <<top + y, x>>[1] = top + y
        BY <1>4, <4>1
      <4>3. QED
        BY <2>1, <4>2
    <3>2. PICK t : t = message
      OBVIOUS
    <3>3. Under(p) \in 0 .. Len(t) /\ (Under(p) # 0 => HasCell(rows, p, Under(p)))
      BY <1>2, <3>1, <3>2, UnderIsThere
    <3>4. QED
      BY <1>1, <1>6, <2>1, <3>1, <3>2, <3>3
  <2>2. CASE ~ (top + y < Len(rows))
    <3>1. pressed' = 0 /\ Len(message) \in Nat
      BY <1>1, <1>2, <2>2
    <3>2. QED
      BY <3>1
  <2>3. QED
    BY <2>1, <2>2
<1>8. pressed' \in 0 .. MaxText
  <2>1. PICK n \in Nat : n = Len(message) /\ n <= MaxText
    BY <1>2 DEF TextInv, TextTypeOK
  <2>2. QED
    BY <1>7, <2>1, TranscriptBounds
<1>9. TextTypeOK'
  BY <1>1, <1>8 DEF TextTypeOK, TextInv, mouseEvent
<1>10. PressPart'
  <2>1. anchor' # NoPoint
    BY <1>6 DEF NoPoint
  <2>2. Grows(rows, Layout(message, wide))
    <3>1. PICK a : a = rows
      OBVIOUS
    <3>2. a \in Seq(Seq(Glyph))
      BY <1>2, <3>1
    <3>3. QED
      BY <1>2, <3>1, <3>2, GrowsTwice
  <2>3. QED
    BY <1>1, <1>7, <2>1, <2>2 DEF PressPart
<1>11. CopiesTheSelection'
  BY <1>1 DEF CopiesTheSelection, NoCopy
<1>12. anchor' \in Int \X Int /\ extent' \in Int \X Int /\ anchor'[1] \in Nat
  BY <1>6
<1>13. QED
  BY <1>1, <1>2, <1>3, <1>9, <1>10, <1>11, <1>12 DEF TextInv

LEMMA PressOutsideInv == TextInv /\ PressOutside => TextInv'
<1> SUFFICES ASSUME TextInv, PressOutside
             PROVE  TextInv'
  OBVIOUS
<1>1. /\ mouseEvent /\ anchor' = NoPoint /\ extent' = NoPoint /\ pressed' = 0
      /\ clipboard' = NoCopy /\ reflowed' = FALSE
      /\ UNCHANGED <<message, offset, rows, top, wide, marked>>
  BY DEF PressOutside
<1>2. MarksPart' /\ rows = Layout(message, wide)
  BY <1>1, FrameStands
<1>3. TextTypeOK'
  <2>1. 0 \in 0 .. MaxText
    BY TranscriptBounds
  <2>2. TextTypeOK /\ turn' = "mouse"
    BY <1>1 DEF TextInv, mouseEvent
  <2>3. QED
    BY <1>1, <2>1, <2>2 DEF TextTypeOK
<1>4. PressPart' /\ CopiesTheSelection'
  BY <1>1 DEF PressPart, CopiesTheSelection, NoCopy
<1>5. NoPoint \in Int \X Int
  BY DEF NoPoint
<1>6. QED
  BY <1>1, <1>2, <1>3, <1>4, <1>5 DEF TextInv

LEMMA DragInv ==
  ASSUME TextInv, NEW x \in Columns, NEW y \in 0 .. Height, Drag(x, y)
  PROVE  TextInv'
<1>1. /\ mouseEvent /\ extent' = PointAt(x, y)
      /\ UNCHANGED <<message, offset, rows, top, wide, marked, anchor, pressed, reflowed, clipboard>>
  BY DEF Drag
<1>2. /\ rows = Layout(message, wide) /\ Len(rows) \in Nat /\ Len(rows) >= 1 /\ top \in Nat /\ MarksPart'
  BY <1>1, FrameStands
<1>3. x \in Nat /\ y \in Nat
  BY TranscriptBounds
<1>4. PointFits(PointAt(x, y), x, y)
  BY <1>2, <1>3, PointInLayout
<1>5. extent' \in Int \X Int
  BY <1>1, <1>4 DEF PointFits
<1>6. TextTypeOK' /\ PressPart' /\ CopiesTheSelection'
  BY <1>1 DEF TextTypeOK, TextInv, PressPart, CopiesTheSelection, mouseEvent
<1>7. QED
  BY <1>1, <1>2, <1>5, <1>6 DEF TextInv

LEMMA SamePair ==
  ASSUME NEW a, NEW b, NEW p, NEW q, {a, b} = {p, q}
  PROVE  (p = a /\ q = b) \/ (p = b /\ q = a)
OBVIOUS

LEMMA ReleaseInv ==
  ASSUME TextInv, NEW x \in Columns, NEW y \in 0 .. Height, Release(x, y)
  PROVE  TextInv'
<1>1. /\ mouseEvent /\ anchor # NoPoint
      /\ clipboard' = [chars |-> Extracted(rows, anchor, PointAt(x, y)),
                       marks |-> marked.chars,
                       asMarked |-> marked.ends = {anchor, PointAt(x, y)},
                       from |-> IF reflowed THEN 0 ELSE pressed]
      /\ anchor' = NoPoint /\ extent' = NoPoint /\ pressed' = 0 /\ reflowed' = FALSE
      /\ UNCHANGED <<message, offset, rows, top, wide, marked>>
  BY DEF Release
<1>2. /\ rows = Layout(message, wide) /\ message \in Seq(Letters)
      /\ rows \in Seq(Seq(GlyphsOf(message)))
      /\ Len(rows) \in Nat /\ Len(rows) >= 1 /\ top \in Nat /\ MarksPart /\ MarksPart'
  BY <1>1, FrameStands
<1>3. x \in Nat /\ y \in Nat
  BY TranscriptBounds
<1>4. PointFits(PointAt(x, y), x, y)
  BY <1>2, <1>3, PointInLayout
<1>5. PICK to : to = PointAt(x, y)
  OBVIOUS
<1>6. PICK layout, t, from : layout = rows /\ t = message /\ from = anchor
  OBVIOUS
<1>7. to \in Int \X Int /\ to[1] \in Nat /\ from \in Int \X Int /\ from[1] \in Nat
  BY <1>1, <1>4, <1>5, <1>6 DEF PointFits, TextInv
<1>8. t \in Seq(Letters) /\ layout \in Seq(Seq(GlyphsOf(t)))
  BY <1>2, <1>6
<1>9. /\ Highlighted(layout, from, to) = Extracted(layout, from, to)
      /\ Highlighted(layout, from, to) = Highlighted(layout, to, from)
  BY <1>7, <1>8, CopiedAsShown
<1>10. clipboard'.chars = Highlighted(layout, from, to)
  BY <1>1, <1>5, <1>6, <1>9
<1>11. clipboard'.asMarked => clipboard'.chars = clipboard'.marks
  <2>1. SUFFICES ASSUME marked.ends = {from, to}
                 PROVE  marked.chars = Highlighted(layout, from, to)
    BY <1>1, <1>5, <1>6, <1>10
  <2>2. marked # NoMarks
    <3>1. from \in marked.ends /\ from # NoPoint
      BY <1>1, <1>6, <2>1
    <3>2. NoMarks.ends = {NoPoint}
      BY DEF NoMarks
    <3>3. QED
      BY <3>1, <3>2
  <2>3. PICK p \in marked.ends, q \in marked.ends :
           marked.ends = {p, q} /\ marked.chars = Highlighted(rows, p, q)
    BY <1>2, <2>2 DEF MarksPart
  <2>4. (p = from /\ q = to) \/ (p = to /\ q = from)
    BY <2>1, <2>3, SamePair
  <2>5. QED
    BY <1>6, <1>9, <2>3, <2>4
<1>12. clipboard'.from # 0 => Copied(t, clipboard'.chars, clipboard'.from)
  <2>1. SUFFICES ASSUME ~ reflowed, pressed # 0
                 PROVE  Copied(t, Highlighted(layout, from, to), pressed)
    BY <1>1, <1>10
  <2>2. HasCell(layout, from, pressed)
    BY <1>6, <2>1 DEF TextInv, PressPart
  <2>3. QED
    BY <1>7, <1>8, <2>1, <2>2, PressIsShown
<1>13. CopiesTheSelection'
  BY <1>1, <1>6, <1>11, <1>12 DEF CopiesTheSelection, Copied
<1>14. TextTypeOK' /\ PressPart'
  <2>1. 0 \in 0 .. MaxText
    BY TranscriptBounds
  <2>2. TextTypeOK /\ turn' = "mouse"
    BY <1>1 DEF TextInv, mouseEvent
  <2>3. QED
    BY <1>1, <2>1, <2>2 DEF TextTypeOK, PressPart
<1>15. NoPoint \in Int \X Int
  BY DEF NoPoint
<1>16. QED
  BY <1>1, <1>2, <1>13, <1>14, <1>15 DEF TextInv

LEMMA ScrollInv == TextInv /\ Scroll => TextInv'
<1> SUFFICES ASSUME TextInv, Scroll
             PROVE  TextInv'
  OBVIOUS
<1>1. /\ mouseEvent /\ clipboard' = NoCopy
      /\ UNCHANGED <<message, rows, top, wide, marked, anchor, extent, pressed, reflowed>>
  BY DEF Scroll
<1>2. offset' \in Nat
  BY DEF Scroll, ScrollStep, TextInv, TextTypeOK
<1>3. rows = Layout(message, wide) /\ MarksPart'
  BY <1>1, FrameStands
<1>4. TextTypeOK' /\ PressPart' /\ CopiesTheSelection'
  BY <1>1, <1>2 DEF TextTypeOK, TextInv, PressPart, mouseEvent, CopiesTheSelection, NoCopy
<1>5. QED
  BY <1>1, <1>3, <1>4 DEF TextInv

LEMMA TextStep == TextInv /\ [TextNext]_textVars => TextInv'
<1> SUFFICES ASSUME TextInv, [TextNext]_textVars
             PROVE  TextInv'
  OBVIOUS
<1>1. CASE UNCHANGED textVars
  <2>1. TextTypeOK' /\ PressPart' /\ MarksPart' /\ CopiesTheSelection'
    BY <1>1 DEF textVars, TextInv, TextTypeOK, PressPart, MarksPart, CopiesTheSelection
  <2>2. QED
    BY <1>1, <2>1 DEF textVars, TextInv
<1>2. ASSUME NEW sort \in Letters, Grow(sort) PROVE TextInv'
  BY <1>2, GrowInv
<1>3. ASSUME NEW x \in {c \in Columns : c <= wide}, NEW y \in 0 .. Height,
             Press(x, y) \/ Drag(x, y) \/ Release(x, y)
      PROVE  TextInv'
  BY <1>3, PressInv, DragInv, ReleaseInv
<1>4. CASE DrawTranscript \/ Idle \/ PressOutside \/ Scroll
  BY <1>4, DrawTranscriptInv, IdleInv, PressOutsideInv, ScrollInv
<1>5. QED
  BY <1>1, <1>2, <1>3, <1>4 DEF TextNext

\* What is copied is what was highlighted, and begins or ends with the character that was
\* pressed on (render_messages, screen_to_content, apply_selection_highlight and
\* extract_selection): of any text, any widths of the window and any selection.
THEOREM SelectionIsCopied == TextSpec => [](TextTypeOK /\ CopiesTheSelection)
<1>1. TextInv => TextTypeOK /\ CopiesTheSelection
  BY DEF TextInv
<1>2. QED
  BY <1>1, TextInitInv, TextStep, PTL DEF TextSpec
==============================================================================
