----------------------------- MODULE EventStream -----------------------------
(***************************************************************************)
(* What one assistant turn promises to whoever reads its event stream.     *)
(*                                                                         *)
(* `backend/app/agent/events.py` fixes the event shapes, and its two       *)
(* readers (the SSE adapter of api/chat.py and the eval runner) rely on    *)
(* nothing else: text may come at any time between tool calls, a tool is   *)
(* announced before it runs and its outcome is the very next event, an     *)
(* error is the last thing before the end, and `done` is the end.  The     *)
(* reader may go away at any moment, after which nothing more is sent.     *)
(*                                                                         *)
(* This is the abstract specification; AgentTurn, the loop of runner.py,   *)
(* is shown to implement it.                                               *)
(***************************************************************************)
EXTENDS AgentEvents, FiniteSets

VARIABLES
    sent,     \* the events delivered so far, oldest first
    status,   \* "open", "failing" (error sent), "finished" or "closed"
    call,     \* the tool announced and not yet answered, or NoCall
    used      \* tools announced so far

vars == <<sent, status, call, used>>

TypeOK ==
    /\ sent \in Seq(AgentEvent)
    /\ status \in {"open", "failing", "finished", "closed"}
    /\ call \in {NoCall} \cup {OpenCall(n) : n \in Names}
    /\ used \in 0..MaxToolCalls

Init ==
    /\ sent = <<>>
    /\ status = "open"
    /\ call = NoCall
    /\ used = 0

-----------------------------------------------------------------------------

Emit(event) == sent' = Append(sent, event)

EmitText ==
    /\ status = "open" /\ call = NoCall
    /\ Emit(TextDelta)
    /\ UNCHANGED <<status, call, used>>

EmitToolUse(name) ==
    /\ status = "open" /\ call = NoCall
    /\ used < MaxToolCalls
    /\ Emit(ToolUse(name))
    /\ call' = OpenCall(name)
    /\ used' = used + 1
    /\ UNCHANGED status

EmitToolResult(name, truncated) ==
    /\ status = "open" /\ call = OpenCall(name)
    /\ Emit(ToolResult(name, truncated))
    /\ call' = NoCall
    /\ UNCHANGED <<status, used>>

EmitError(code) ==
    /\ status = "open" /\ call = NoCall
    /\ Emit(Error(code))
    /\ status' = "failing"
    /\ UNCHANGED <<call, used>>

EmitDone ==
    /\ status \in {"open", "failing"} /\ call = NoCall
    /\ Emit(Done(used))
    /\ status' = "finished"
    /\ UNCHANGED <<call, used>>

\* The reader hung up; a call in progress is abandoned.
Close ==
    /\ status \in {"open", "failing"}
    /\ status' = "closed"
    /\ call' = NoCall
    /\ UNCHANGED <<sent, used>>

Next ==
    \/ EmitText
    \/ \E n \in Names : EmitToolUse(n)
    \/ \E n \in Names, b \in BOOLEAN : EmitToolResult(n, b)
    \/ \E c \in ErrorCodes : EmitError(c)
    \/ EmitDone
    \/ Close

Spec == Init /\ [][Next]_vars

-----------------------------------------------------------------------------

\* Positions of the stream that carry a tool_use event.
Announced == {i \in 1..Len(sent) : sent[i].type = "tool_use"}

(* `done` is "Terminal event. Always emitted" (events.py:69): nothing is    *)
(* ever delivered after it, and after an error only `done` is.              *)
EndsOnce ==
    \A i \in 1..Len(sent) :
        /\ sent[i].type = "done" => i = Len(sent)
        /\ sent[i].type = "error" =>
               \/ i = Len(sent)
               \/ i + 1 = Len(sent) /\ sent[i + 1].type = "done"

(* Every announced tool is answered by the next event, under the same name, *)
(* unless it is still running or the reader left: the chat panel pairs a    *)
(* tool_result with the pending chip of that name and nothing else.         *)
ResultFollowsUse ==
    \A i \in Announced :
        \/ i = Len(sent)
        \/ /\ sent[i + 1].type = "tool_result"
           /\ sent[i + 1].name = sent[i].name

(* No result appears that was not announced just before it.                 *)
NoOrphanResult ==
    \A i \in 1..Len(sent) :
        sent[i].type = "tool_result" =>
            /\ i > 1
            /\ sent[i - 1].type = "tool_use"
            /\ sent[i - 1].name = sent[i].name

(* The number of calls `done` reports is the number of tool_use events the  *)
(* reader saw, and within the budget: evals grade the turn on that number.  *)
DoneCountsCalls ==
    \A i \in 1..Len(sent) :
        sent[i].type = "done" =>
            /\ sent[i].tool_calls = Cardinality(Announced)
            /\ sent[i].tool_calls <= MaxToolCalls

StreamGrammar == EndsOnce /\ ResultFollowsUse /\ NoOrphanResult /\ DoneCountsCalls
=============================================================================
