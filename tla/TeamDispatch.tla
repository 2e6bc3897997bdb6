----------------------------- MODULE TeamDispatch -----------------------------
(***************************************************************************)
(* Remote execution: omt's scheduler takes a member from its TeamManager   *)
(* (bins/omt/src/team.rs), sends the task to the member's A2A server       *)
(* (executor.rs, libs/a2a/src/client.rs) and gives the member back.  The   *)
(* server is another omt (api.rs, libs/a2a/src/server.rs): one record per  *)
(* task id, one execution per request.                                     *)
(*                                                                         *)
(* Every `omh run` joins the team of the omt it finds, as a member without *)
(* endpoint (bins/omh/src/run.rs): a process that the scheduler started    *)
(* for a local task does so too.  Roles are left out: a pick is among the  *)
(* members of one role.  Members with an endpoint all lead to one server.  *)
(***************************************************************************)
EXTENDS Integers, FiniteSets

CONSTANTS
  Job,          \* ids of the tasks the scheduler dispatches
  Instance,     \* instance ids of members, in the order of joining
  Capacity,     \* capacity of a member
  RobinPeriod,  \* a period of the round robin counter: a common multiple of all list lengths
  MaxSends      \* bound of the model: attempts of each job

ASSUME TeamBounds ==
  /\ Instance \subseteq Nat
  /\ Capacity \in Nat \ {0} /\ MaxSends \in [Job -> Nat \ {0}]
  /\ RobinPeriod \in Nat \ {0}
  /\ \A n \in 1 .. Cardinality(Instance) : RobinPeriod % n = 0

VARIABLES
  members,    \* instances in TeamState.members
  gone,       \* instances that left or expired; an id is not given out again
  serves,     \* members that gave an endpoint when they joined
  active,     \* TeamMember.active_tasks
  reported,   \* members whose active_tasks a heartbeat has overwritten
  robin,      \* the round robin counter of the role
  phase,      \* where each job's dispatch is
  target,     \* the member it was given
  sends,      \* attempts so far
  posted,   \* tasks/send on their way to the server: <<job, attempt>>
  executing,  \* on_task_send running there
  replies,    \* answers on their way back: [req, verdict]
  store       \* A2aTaskState of each task id at the server

team == <<members, gone, serves, active, reported, robin>>
server == <<posted, executing, replies, store>>
teamVars == <<team, phase, target, sends, server>>

Verdict == {"Completed", "Failed"}
TerminalStatus == {"Completed", "Failed", "Canceled"}
Request == UNION {{j} \X (1 .. MaxSends[j]) : j \in Job}

TeamTypeOK ==
  /\ members \in SUBSET Instance /\ gone \in SUBSET Instance
  /\ serves \in SUBSET Instance /\ reported \in SUBSET Instance
  /\ active \in [Instance -> 0 .. Capacity] /\ robin \in 0 .. RobinPeriod - 1
  /\ phase \in [Job -> {"idle", "local", "picked", "awaiting", "failed", "done"}]
  /\ target \in [Job -> SUBSET Instance]
  /\ sends \in [Job -> Nat] /\ \A j \in Job : sends[j] <= MaxSends[j]
  /\ posted \in SUBSET Request /\ executing \in SUBSET Request
  /\ replies \in SUBSET [req : Request, verdict : Verdict]
  /\ store \in [Job -> {"none", "Working"} \cup TerminalStatus]

TeamInit ==
  /\ members = {} /\ gone = {} /\ serves = {} /\ reported = {}
  /\ active = [i \in Instance |-> 0] /\ robin = 0
  /\ phase = [j \in Job |-> "idle"] /\ target = [j \in Job |-> {}]
  /\ sends = [j \in Job |-> 0]
  /\ posted = {} /\ executing = {} /\ replies = {}
  /\ store = [j \in Job |-> "none"]
------------------------------------------------------------------------------
(***************************************************************************)
(* The team.                                                               *)
(***************************************************************************)
JoinAs(i, endpoint) ==
  /\ i \notin members \cup gone
  /\ \A k \in Instance \ (members \cup gone) : i <= k
  /\ members' = members \cup {i}
  /\ serves' = IF endpoint THEN serves \cup {i} ELSE serves
  /\ active' = [active EXCEPT ![i] = 0]
  /\ UNCHANGED <<gone, reported, robin, phase, target, sends, server>>

\* handle_join, for an agent that runs an A2A server.
ServerJoins(i) == JoinAs(i, TRUE)

\* try_join_omt_team, in the omh child of a local task: endpoint "", capacity 1.
OmhJoins(i) == (\E j \in Job : phase[j] = "local") /\ JoinAs(i, FALSE)

Drop(i) ==
  /\ i \in members
  /\ members' = members \ {i}
  /\ gone' = gone \cup {i}
  /\ UNCHANGED <<serves, active, reported, robin, phase, target, sends, server>>

\* handle_leave; expire_stale, which only the dashboard runs.  omh sends no
\* heartbeat, so any of its members may be stale at any time.
Leave(i) == Drop(i)

\* handle_heartbeat believes the member's own count.
Heartbeat(i) ==
  /\ i \in members /\ i \in serves
  /\ \E n \in 0 .. Capacity : active' = [active EXCEPT ![i] = n]
  /\ reported' = reported \cup {i}
  /\ UNCHANGED <<members, gone, serves, robin, phase, target, sends, server>>

\* Mutant: a member with as many tasks as its capacity is still a candidate.
CandidatesToCapacity == {i \in members : active[i] <= Capacity}

Candidates == {i \in members : active[i] < Capacity}

\* The candidates sorted by load, equals in any order; the counter indexes them all.
AtIndex(n) ==
  {i \in Candidates :
     /\ Cardinality({k \in Candidates : active[k] < active[i]}) <= n
     /\ n < Cardinality({k \in Candidates : active[k] <= active[i]})}

\* pick_member, which also counts the task.
PickMember(j, i) ==
  /\ phase[j] = "idle" /\ sends[j] < MaxSends[j]
  /\ i \in AtIndex(robin % Cardinality(Candidates))
  /\ active' = [active EXCEPT ![i] = @ + 1]
  /\ robin' = (robin + 1) % RobinPeriod
  /\ target' = [target EXCEPT ![j] = {i}]
  /\ phase' = [phase EXCEPT ![j] = "picked"]
  /\ UNCHANGED <<members, gone, serves, reported, sends, server>>

\* No candidate: the task runs as an omh child of this omt.
RunLocally(j) ==
  /\ phase[j] = "idle" /\ Candidates = {} /\ sends[j] < MaxSends[j]
  /\ phase' = [phase EXCEPT ![j] = "local"]
  /\ UNCHANGED <<team, target, sends, server>>

LocalEnds(j) ==
  /\ phase[j] = "local"
  /\ phase' = [phase EXCEPT ![j] = "done"]
  /\ UNCHANGED <<team, target, sends, server>>
------------------------------------------------------------------------------
(***************************************************************************)
(* run_remote_task, and task_done after it.                                *)
(***************************************************************************)

\* Mutant: the slot is given back only when the task succeeded.
GivenBackIf(j, p) ==
  IF p = "done" THEN [i \in Instance |-> IF i \in target[j] \cap members /\ active[i] > 0
                                           THEN active[i] - 1 ELSE active[i]]
  ELSE active

\* task_done: saturating, and nothing for a member that has gone.
GivenBack(j, p) ==
  [i \in Instance |-> IF i \in target[j] \cap members /\ active[i] > 0
                        THEN active[i] - 1 ELSE active[i]]

Settle(j, p) ==
  /\ active' = GivenBack(j, p)
  /\ target' = [target EXCEPT ![j] = {}]
  /\ phase' = [phase EXCEPT ![j] = p]
  /\ UNCHANGED <<members, gone, serves, reported, robin>>

\* The client posts to the endpoint; there is none to post to for an omh member.
SendTask(j) ==
  /\ phase[j] = "picked" /\ target[j] \subseteq serves
  /\ sends' = [sends EXCEPT ![j] = @ + 1]
  /\ posted' = posted \cup {<<j, sends'[j]>>}
  /\ phase' = [phase EXCEPT ![j] = "awaiting"]
  /\ UNCHANGED <<team, target, executing, replies, store>>

SendNowhere(j) ==
  /\ phase[j] = "picked" /\ ~ (target[j] \subseteq serves)
  /\ sends' = [sends EXCEPT ![j] = @ + 1]
  /\ Settle(j, "failed")
  /\ UNCHANGED server

Answered(j) ==
  /\ phase[j] = "awaiting"
  /\ \E r \in replies :
       /\ r.req = <<j, sends[j]>>
       /\ replies' = replies \ {r}
       /\ Settle(j, IF r.verdict = "Completed" THEN "done" ELSE "failed")
  /\ UNCHANGED <<sends, posted, executing, store>>

\* The connection breaks: exit code 1.  A request may or may not have arrived.
ConnectionLost(j) ==
  /\ phase[j] = "awaiting"
  /\ posted' \in {posted, posted \ {<<j, sends[j]>>}}
  /\ replies' = {r \in replies : r.req[1] # j}
  /\ Settle(j, "failed")
  /\ UNCHANGED <<sends, executing, store>>

\* Mutant: a verdict can be cancelled.
CancelAny(s) == IF s = "none" THEN s ELSE "Canceled"

\* on_task_cancel refuses an unknown id and a verdict, and stops nothing.
CanceledFrom(s) == IF s \in {"none"} \cup TerminalStatus THEN s ELSE "Canceled"

\* The token: select drops the request, cancel_task is tried, the task failed.
CancelTask(j) ==
  /\ phase[j] = "awaiting"
  /\ store' \in {store, [store EXCEPT ![j] = CanceledFrom(@)]}
  /\ replies' = {r \in replies : r.req[1] # j}
  /\ Settle(j, "failed")
  /\ UNCHANGED <<sends, posted, executing>>

\* The scheduler tries a failed task again, with the same task id.
RetryJob(j) ==
  /\ phase[j] = "failed" /\ sends[j] < MaxSends[j]
  /\ phase' = [phase EXCEPT ![j] = "idle"]
  /\ UNCHANGED <<team, target, sends, server>>
------------------------------------------------------------------------------
(***************************************************************************)
(* The server.                                                             *)
(***************************************************************************)

\* on_task_send records Working over whatever the id had, then plans and runs.
ReceiveTask(q) ==
  /\ q \in posted
  /\ posted' = posted \ {q}
  /\ executing' = executing \cup {q}
  /\ store' = [store EXCEPT ![q[1]] = "Working"]
  /\ UNCHANGED <<team, phase, target, sends, replies>>

Awaited(q) == phase[q[1]] = "awaiting" /\ sends[q[1]] = q[2]

\* The verdict is written whatever the record says by then.
FinishTask(q) ==
  /\ q \in executing
  /\ executing' = executing \ {q}
  /\ \E v \in Verdict :
       /\ store' = [store EXCEPT ![q[1]] = v]
       /\ replies' = IF Awaited(q) THEN replies \cup {[req |-> q, verdict |-> v]} ELSE replies
  /\ UNCHANGED <<team, phase, target, sends, posted>>

\* The HTTP server drops the handler of a client that has hung up: the execution is
\* gone, the record stays Working.
HandlerDropped(q) ==
  /\ q \in executing /\ ~ Awaited(q)
  /\ executing' = executing \ {q}
  /\ UNCHANGED <<team, phase, target, sends, posted, replies, store>>

TeamNext ==
  \/ \E i \in Instance :
       \/ ServerJoins(i)
       \/ OmhJoins(i)
       \/ Leave(i)
       \/ Heartbeat(i)
       \/ \E j \in Job : PickMember(j, i)
  \/ \E j \in Job :
       \/ RunLocally(j)
       \/ LocalEnds(j)
       \/ SendTask(j)
       \/ SendNowhere(j)
       \/ Answered(j)
       \/ ConnectionLost(j)
       \/ CancelTask(j)
       \/ RetryJob(j)
  \/ \E q \in Request :
       \/ ReceiveTask(q)
       \/ FinishTask(q)
       \/ HandlerDropped(q)

TeamSpec == TeamInit /\ [][TeamNext]_teamVars
------------------------------------------------------------------------------
(***************************************************************************)
(* Properties.                                                             *)
(***************************************************************************)
InFlight(i) == {j \in Job : i \in target[j]}

\* Through joins, leaves, lost connections, cancellations and retries, the count of
\* a member is exactly the tasks it was given and has not given back, so that it
\* never has more than its capacity; unless its own heartbeat has said otherwise.
SlotsAreConserved ==
  \A i \in members \ reported : active[i] = Cardinality(InFlight(i))

\* A verdict is changed only by an execution of the same id: one that ends, or a
\* retry that begins.  A cancel that comes too late leaves it alone.
VerdictsNotCancelled ==
  [][\A j \in Job :
       (store[j] \in TerminalStatus /\ store'[j] # store[j])
         => executing' # executing]_teamVars

=============================================================================
