------------------------------- MODULE ToolGate -------------------------------
(***************************************************************************)
(* What stands between a tool call of the model and its execution: the     *)
(* agent's permission policy (libs/permission), the PreToolUse hooks that  *)
(* apply it and ask the user (libs/hook), the registry of tools            *)
(* (libs/tool), and the MCP servers whose tools are registered while the   *)
(* session already runs (harness.rs, connect_mcp_servers).                 *)
(*                                                                         *)
(* The calls of one answer run one after the other (agent_runtime.rs).     *)
(* Only the TUI answers requests for approval; a call that asks in an      *)
(* `omh run` waits for ever.  Rules are the tools they match; what a tool  *)
(* does, the audit hooks, and names, inputs and texts are left out.        *)
(***************************************************************************)
EXTENDS Integers, Sequences, FiniteSets

CONSTANTS
  Tool,        \* names of tools
  Builtin,     \* those registered when the harness starts
  Level,       \* PermissionLevel as numbers, ReadOnly first
  MaxCalls     \* bound of the model: tool calls of a session

ASSUME GateBounds ==
  /\ Builtin \subseteq Tool /\ Level \subseteq Nat /\ 0 \in Level
  /\ MaxCalls \in Nat

VARIABLES
  agent,       \* permission_rules of the agent that runs, or NoAgent
  required,    \* required_permission of each registered tool
  offered,     \* tools named in the request to the model
  call,        \* the tool of the current call, none between calls
  at,          \* where the call is
  verdict,     \* what the guard made of it
  ran,         \* calls that were executed: [tool, verdict, needs]
  answered,     \* how each call ended, in order
  dialogs           \* the session has a TUI

gateVars == <<agent, required, offered, call, at, verdict, ran, answered, dialogs>>

Registered == DOMAIN required

Policy == [deny : SUBSET Tool, ask : SUBSET Tool, allow : SUBSET Tool, level : Level]
NoAgent == [deny |-> {}, ask |-> {}, allow |-> {}, level |-> -1]
GateVerdict == {"none", "unknown", "allow", "deny", "ask", "consent", "refused"}

GateTypeOK ==
  /\ agent \in Policy \cup {NoAgent}
  /\ Registered \subseteq Tool /\ \A t \in Registered : required[t] \in Level
  /\ offered \in SUBSET Tool /\ call \in SUBSET Tool
  /\ at \in {"idle", "guard", "waiting", "execute"} /\ verdict \in GateVerdict
  /\ Len(answered) <= MaxCalls /\ dialogs \in BOOLEAN

GateInit ==
  /\ agent = NoAgent
  /\ required = [t \in Builtin |-> 0]
  /\ offered = {} /\ call = {} /\ at = "idle" /\ verdict = "none"
  /\ ran = {} /\ answered = <<>> /\ dialogs = FALSE
------------------------------------------------------------------------------
(***************************************************************************)
(* The session.                                                            *)
(***************************************************************************)

\* specs_for_permission: the tools that the agent's level allows.
Offer(p) == {t \in Registered : required[t] <= p.level}

\* The agent is chosen, its levels and those of the builtins are what they are.
BeginSession(p, needs, tui) ==
  /\ agent = NoAgent
  /\ agent' = p /\ required' = needs /\ dialogs' = tui
  /\ offered' = {t \in DOMAIN needs : needs[t] <= p.level}
  /\ UNCHANGED <<call, at, verdict, ran, answered>>

\* An MCP server has connected: its tools are registered as ReadOnly, over any tool
\* of the same name.
RegisterMcpTool(t) ==
  /\ agent # NoAgent
  /\ required' = [u \in Registered \cup {t} |-> IF u = t THEN 0 ELSE required[u]]
  /\ UNCHANGED <<agent, offered, call, at, verdict, ran, answered, dialogs>>

\* The next request names the tools registered by then.
NextRequest ==
  /\ agent # NoAgent /\ at = "idle"
  /\ offered' = Offer(agent)
  /\ UNCHANGED <<agent, required, call, at, verdict, ran, answered, dialogs>>

\* The model calls a tool, also one it was not offered.
CallTool(t) ==
  /\ agent # NoAgent /\ at = "idle" /\ Len(answered) < MaxCalls
  /\ call' = {t} /\ at' = "guard" /\ verdict' = "none"
  /\ UNCHANGED <<agent, required, offered, ran, answered, dialogs>>
------------------------------------------------------------------------------
(***************************************************************************)
(* PermissionGuardHook; the other hooks of PreToolUse only log.            *)
(***************************************************************************)

\* Mutant: the allow rules are looked at first.
EvaluateAllowFirst(p, t, needs) ==
  CASE t \in p.allow -> "allow"
    [] t \in p.deny /\ t \notin p.allow -> "deny"
    [] t \in p.ask /\ t \notin p.allow \cup p.deny -> "ask"
    [] OTHER -> IF needs <= p.level THEN "allow" ELSE "ask"

\* evaluate: deny rules, ask rules, allow rules, then the levels.
Evaluate(p, t, needs) ==
  CASE t \in p.deny -> "deny"
    [] t \in p.ask \ p.deny -> "ask"
    [] t \in p.allow \ (p.ask \cup p.deny) -> "allow"
    [] OTHER -> IF needs <= p.level THEN "allow" ELSE "ask"

\* A tool that is not registered is left to the execution.
Guard(t) ==
  /\ at = "guard" /\ t \in call
  /\ verdict' = IF t \in Registered THEN Evaluate(agent, t, required[t]) ELSE "unknown"
  /\ at' = CASE verdict' = "ask" -> "waiting"
             [] verdict' = "deny" -> "idle"
             [] OTHER -> "execute"
  /\ call' = IF verdict' = "deny" THEN {} ELSE call
  /\ answered' = IF verdict' = "deny" THEN Append(answered, "denied") ELSE answered
  /\ UNCHANGED <<agent, required, offered, ran, dialogs>>

\* request_approval: what the user answers, or Deny when the channel is gone.
UserApproves ==
  /\ at = "waiting" /\ dialogs
  /\ at' = "execute" /\ verdict' = "consent"
  /\ UNCHANGED <<agent, required, offered, call, ran, answered, dialogs>>

UserDenies ==
  /\ at = "waiting" /\ dialogs
  /\ at' = "idle" /\ verdict' = "refused" /\ call' = {}
  /\ answered' = Append(answered, "denied")
  /\ UNCHANGED <<agent, required, offered, ran, dialogs>>
------------------------------------------------------------------------------
(***************************************************************************)
(* ToolRegistry::execute.                                                  *)
(***************************************************************************)

\* The ErrorTracker sees every result in a context of its own, in which no other error
\* is counted, and what PostToolUse answers is not looked at.
Execute(t) ==
  /\ at = "execute" /\ t \in call
  /\ at' = "idle" /\ call' = {}
  /\ IF t \in Registered
       THEN /\ ran' = ran \cup {[tool |-> t, verdict |-> verdict, needs |-> required[t]]}
            /\ \E r \in {"output", "failed"} : answered' = Append(answered, r)
       ELSE /\ answered' = Append(answered, "failed")
            /\ UNCHANGED ran
  /\ UNCHANGED <<agent, required, offered, verdict, dialogs>>

GateNext ==
  \/ \E p \in Policy, needs \in [Builtin -> Level], tui \in BOOLEAN :
       BeginSession(p, needs, tui)
  \/ \E t \in Tool :
       \/ RegisterMcpTool(t)
       \/ CallTool(t)
       \/ Guard(t)
       \/ Execute(t)
  \/ NextRequest
  \/ UserApproves
  \/ UserDenies

GateSpec == GateInit /\ [][GateNext]_gateVars
------------------------------------------------------------------------------
(***************************************************************************)
(* Properties.                                                             *)
(***************************************************************************)

\* Whatever is registered while calls are judged and wait for the user: of the tools
\* that the guard knew, none runs that a deny rule names, and none runs without the
\* user's consent that an ask rule names, or that needs more than the agent's level
\* with no allow rule for it.
RunsOnlyAsPermitted ==
  \A r \in ran : r.verdict # "unknown" =>
    /\ r.tool \notin agent.deny
    /\ \/ r.verdict = "consent"
       \/ r.tool \notin agent.ask /\ (r.tool \in agent.allow \/ r.needs <= agent.level)
=============================================================================
