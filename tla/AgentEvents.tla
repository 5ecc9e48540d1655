----------------------------- MODULE AgentEvents -----------------------------
(***************************************************************************)
(* The event contract of the agent: the discriminated union of             *)
(* backend/app/agent/events.py, with the fields a reader of the stream     *)
(* acts on.  Prose, summaries and token usage are left out.                *)
(***************************************************************************)
EXTENDS Naturals, Sequences

CONSTANTS
    Names,         \* tool names a model can put in a tool_use block
    MaxToolCalls   \* AGENT_MAX_TOOL_CALLS

ASSUME BudgetAssumption == MaxToolCalls \in Nat

NoCall == [open |-> FALSE]
OpenCall(name) == [open |-> TRUE, name |-> name]

ErrorCodes == {"tool_failed", "llm_failed", "rate_limited"}

TextDelta == [type |-> "text"]
ToolUse(name) == [type |-> "tool_use", name |-> name]
ToolResult(name, truncated) ==
    [type |-> "tool_result", name |-> name, truncated |-> truncated]
Error(code) == [type |-> "error", code |-> code]
Done(toolCalls) == [type |-> "done", tool_calls |-> toolCalls]

AgentEvent ==
         {TextDelta}
    \cup {ToolUse(n) : n \in Names}
    \cup {ToolResult(n, b) : n \in Names, b \in BOOLEAN}
    \cup {Error(c) : c \in ErrorCodes}
    \cup {Done(k) : k \in 0..MaxToolCalls}
=============================================================================
