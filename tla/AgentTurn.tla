------------------------------ MODULE AgentTurn ------------------------------
(***************************************************************************)
(* One assistant turn: `run_agent` of backend/app/agent/runner.py with the *)
(* `execute_tool` it calls, driven by the SSE response of api/chat.py.     *)
(*                                                                         *)
(* The turn alternates between streaming a model reply and running the     *)
(* tools the reply asks for, under a budget of tool calls and a deadline   *)
(* on the monotonic clock.  Everything the model, the database, the clock  *)
(* and the reader may do is a nondeterministic choice.                     *)
(*                                                                         *)
(* Time is counted in ticks and passes in any state, also while the        *)
(* generator is suspended at a `yield` and the reader is slow.             *)
(***************************************************************************)
EXTENDS AgentEvents, FiniteSets

CONSTANTS
    Tools,        \* the names TOOLS registers; Names \ Tools are made up
    Deadline,     \* AGENT_TURN_TIMEOUT_SECONDS, in ticks
    MaxClock,     \* bound on the clock
    MaxBatch,     \* bound on the tool calls of one model reply
    MaxChunks     \* bound on the text chunks of one model reply

ASSUME TurnAssumption ==
    /\ Tools \subseteq Names
    /\ Deadline \in Nat /\ MaxClock \in Nat /\ Deadline < MaxClock
    /\ MaxBatch \in Nat /\ MaxChunks \in Nat

VARIABLES
    pc,            \* where the generator is
    clock,         \* time.monotonic() - started
    conversation,  \* the provider messages sent with the next model call
    calls,         \* tool calls of the current reply still to be made
    results,       \* tool_result blocks collected for the current reply
    toolCallsMade, \* tool_calls_made
    chunks,        \* text chunks of the reply being streamed
    session,       \* the request's one DB session: "usable" or "aborted"
    sent           \* history: the events delivered to the reader

batch == <<conversation, calls, results, toolCallsMade>>

vars == <<pc, clock, batch, chunks, session, sent>>

-----------------------------------------------------------------------------
(* Data.  A tool call has a provider-issued id and a name; ids are unique   *)
(* within the turn, so the k-th call made carries id k.                     *)

CallIds == 1..MaxToolCalls
Call == [id : CallIds, name : Names]
Result == [tool_use_id : CallIds, is_error : BOOLEAN]

UserText == [role |-> "user"]
AssistantToolUse(ids) == [role |-> "assistant", tool_use |-> ids]
UserToolResults(rs) == [role |-> "user", tool_result |-> rs]

Message ==
         [role : {"user"}]
    \cup [role : {"assistant"}, tool_use : Seq(CallIds)]
    \cup [role : {"user"}, tool_result : Seq(Result)]

PC == {"top",       \* about to test the deadline and call the model
       "stream",    \* inside `async for event in llm.stream_turn(...)`
       "calls",     \* between two tool calls of the reply
       "announced", \* suspended at `yield ToolUse`
       "exec",      \* inside `asyncio.timeout(remaining): execute_tool`
       "closing",   \* about to `yield done()`
       "finished",
       "gone"}      \* the reader hung up: generator closed or cancelled

TypeOK ==
    /\ pc \in PC
    /\ clock \in 0..MaxClock
    /\ conversation \in Seq(Message)
    /\ calls \in Seq(Call)
    /\ results \in Seq(Result)
    /\ toolCallsMade \in 0..MaxToolCalls
    /\ chunks \in 0..MaxChunks
    /\ session \in {"usable", "aborted"}
    /\ sent \in Seq(AgentEvent)

Init ==
    /\ pc = "top"
    /\ clock = 0
    /\ conversation = <<UserText>>
    /\ calls = <<>>
    /\ results = <<>>
    /\ toolCallsMade = 0
    /\ chunks = 0
    /\ session = "usable"
    /\ sent = <<>>

Emit(event) == sent' = Append(sent, event)

-----------------------------------------------------------------------------
(* The loop around the model.                                               *)

\* `if time.monotonic() > deadline`: give up before calling the model again.
OutOfTime ==
    /\ pc = "top" /\ clock > Deadline
    /\ Emit(Error("llm_failed"))
    /\ pc' = "closing"
    /\ UNCHANGED <<clock, batch, chunks, session>>

CallModel ==
    /\ pc = "top" /\ clock <= Deadline
    /\ pc' = "stream"
    /\ chunks' = 0
    /\ UNCHANGED <<clock, batch, session, sent>>

\* A TextChunk; an empty one is swallowed and changes nothing.
StreamText ==
    /\ pc = "stream" /\ chunks < MaxChunks
    /\ Emit(TextDelta)
    /\ chunks' = chunks + 1
    /\ UNCHANGED <<pc, clock, batch, session>>

\* The stream ended without a TurnComplete.
NoReply ==
    /\ pc = "stream"
    /\ Emit(Error("llm_failed"))
    /\ pc' = "closing"
    /\ UNCHANGED <<clock, batch, chunks, session>>

\* The provider raised: a 429 is reported apart from every other failure.
ModelRaises(code) ==
    /\ pc = "stream" /\ code \in {"rate_limited", "llm_failed"}
    /\ Emit(Error(code))
    /\ pc' = "closing"
    /\ UNCHANGED <<clock, batch, chunks, session>>

\* A reply with no tool call is the answer: leave the loop.
FinalReply ==
    /\ pc = "stream"
    /\ pc' = "closing"
    /\ UNCHANGED <<clock, batch, chunks, session, sent>>

\* Mistake to rule out: the budget admits one call too many.
OverBudgetOffByOne(n) == toolCallsMade + n > MaxToolCalls + 1

\* The budget is tested for the reply as a whole, before any of it runs.
OverBudget(n) == toolCallsMade + n > MaxToolCalls

BudgetExceeded(n) ==
    /\ pc = "stream" /\ OverBudget(n)
    /\ Emit(Error("tool_failed"))
    /\ pc' = "closing"
    /\ UNCHANGED <<clock, batch, chunks, session>>

\* Echo the assistant turn into the conversation and start on its calls.
ToolReply(names) ==
    /\ pc = "stream" /\ ~OverBudget(Len(names))
    /\ calls' = [i \in 1..Len(names) |->
                    [id |-> toolCallsMade + i, name |-> names[i]]]
    /\ conversation' = Append(conversation,
            AssistantToolUse([i \in 1..Len(names) |-> toolCallsMade + i]))
    /\ results' = <<>>
    /\ pc' = "calls"
    /\ UNCHANGED <<clock, toolCallsMade, chunks, session, sent>>

-----------------------------------------------------------------------------
(* The loop over the calls of one reply.                                    *)

\* Mistake to rule out: the call is announced but not counted.
AnnounceUncounted ==
    /\ pc = "calls" /\ calls # <<>>
    /\ Emit(ToolUse(Head(calls).name))
    /\ pc' = "announced"
    /\ UNCHANGED <<clock, batch, chunks, session>>

AnnounceCall ==
    /\ pc = "calls" /\ calls # <<>>
    /\ toolCallsMade' = toolCallsMade + 1
    /\ Emit(ToolUse(Head(calls).name))
    /\ pc' = "announced"
    /\ UNCHANGED <<clock, conversation, calls, results, chunks, session>>

\* `yield ToolResult` and `results.append`, shared by every way a call ends.
Report(failed, truncated) ==
    /\ Emit(ToolResult(Head(calls).name, truncated))
    /\ results' = Append(results,
            [tool_use_id |-> Head(calls).id, is_error |-> failed])
    /\ calls' = Tail(calls)
    /\ pc' = "calls"
    /\ UNCHANGED <<clock, conversation, toolCallsMade, chunks>>

\* Mistake to rule out: a call that is not run leaves no tool_result block.
SkipCallSilently ==
    /\ pc = "announced" /\ clock >= Deadline
    /\ Emit(ToolResult(Head(calls).name, FALSE))
    /\ calls' = Tail(calls)
    /\ pc' = "calls"
    /\ UNCHANGED <<clock, conversation, results, toolCallsMade, chunks, session>>

\* `remaining <= 0`: the call is answered without being run.
SkipCall ==
    /\ pc = "announced" /\ clock >= Deadline
    /\ Report(TRUE, FALSE)
    /\ UNCHANGED session

StartCall ==
    /\ pc = "announced" /\ clock < Deadline
    /\ pc' = "exec"
    /\ UNCHANGED <<clock, batch, chunks, session, sent>>

\* An unregistered name, arguments that do not validate, or a service error
\* such as "device not found": a failed outcome that costs the session nothing.
ToolRefuses ==
    /\ pc = "exec"
    /\ Report(TRUE, FALSE)
    /\ UNCHANGED session

\* A query answered; only possible while the transaction still takes queries.
ToolAnswers(truncated) ==
    /\ pc = "exec" /\ Head(calls).name \in Tools /\ session = "usable"
    /\ Report(FALSE, truncated)
    /\ UNCHANGED session

\* The database raised.  execute_tool reports it and nobody rolls back, so the
\* transaction the session is in stays aborted.
ToolHitsDatabaseError ==
    /\ pc = "exec" /\ Head(calls).name \in Tools
    /\ Report(TRUE, FALSE)
    /\ session' = "aborted"

\* Mistake to rule out: TimeoutError escapes to the outer handler.
TimeoutEscapes ==
    /\ pc = "exec" /\ clock >= Deadline
    /\ Emit(Error("llm_failed"))
    /\ pc' = "closing"
    /\ UNCHANGED <<clock, batch, chunks, session>>

\* asyncio.timeout fires at the deadline and cancels whatever was awaited: a
\* query in flight leaves its transaction aborted.
ToolTimesOut ==
    /\ pc = "exec" /\ clock >= Deadline
    /\ Report(TRUE, FALSE)
    /\ session' \in {session, "aborted"}

ToolReturns ==
    \/ ToolRefuses
    \/ \E truncated \in BOOLEAN : ToolAnswers(truncated)
    \/ ToolHitsDatabaseError

\* All results of the reply go back as one user message.
FinishBatch ==
    /\ pc = "calls" /\ calls = <<>>
    /\ conversation' = Append(conversation, UserToolResults(results))
    /\ pc' = "top"
    /\ UNCHANGED <<clock, calls, results, toolCallsMade, chunks, session, sent>>

-----------------------------------------------------------------------------
(* The end, the clock and the reader.                                       *)

\* Mistake to rule out: `done` is yielded inside the try, after the loop.
DoneUnlessError ==
    /\ pc = "closing"
    /\ IF sent # <<>> /\ sent[Len(sent)].type = "error"
       THEN UNCHANGED sent
       ELSE Emit(Done(toolCallsMade))
    /\ pc' = "finished"
    /\ UNCHANGED <<clock, batch, chunks, session>>

YieldDone ==
    /\ pc = "closing"
    /\ Emit(Done(toolCallsMade))
    /\ pc' = "finished"
    /\ UNCHANGED <<clock, batch, chunks, session>>

Ended == pc \in {"finished", "gone"}

\* The SSE response is torn down: CancelledError or GeneratorExit is not an
\* `Exception`, so it passes every handler and no `done` is sent.
ReaderLeaves ==
    /\ ~Ended
    /\ pc' = "gone"
    /\ UNCHANGED <<clock, batch, chunks, session, sent>>

\* While a tool runs the timeout is armed, so time does not pass the deadline.
Tick ==
    /\ ~Ended
    /\ clock < MaxClock
    /\ pc = "exec" => clock < Deadline
    /\ clock' = clock + 1
    /\ UNCHANGED <<pc, batch, chunks, session, sent>>

Terminated == Ended /\ UNCHANGED vars

\* The tool names of a reply.
Batches == UNION {[1..n -> Names] : n \in 1..MaxBatch}

ModelEnds ==
    \/ NoReply
    \/ \E code \in ErrorCodes : ModelRaises(code)
    \/ FinalReply
    \/ \E n \in 1..MaxBatch : BudgetExceeded(n)
    \/ \E names \in Batches : ToolReply(names)

LoopStep ==
    \/ OutOfTime
    \/ CallModel
    \/ AnnounceCall
    \/ SkipCall
    \/ StartCall
    \/ FinishBatch
    \/ YieldDone

Next ==
    \/ LoopStep
    \/ StreamText
    \/ ModelEnds
    \/ ToolReturns
    \/ ToolTimesOut
    \/ ReaderLeaves
    \/ Tick
    \/ Terminated

\* The event loop runs the generator, the clock advances, the timer fires and
\* the provider's stream ends one way or another.  Nothing obliges a tool to
\* return or a reader to stay.
Fairness ==
    /\ WF_vars(LoopStep)
    /\ WF_vars(Tick)
    /\ WF_vars(ToolTimesOut)
    /\ WF_vars(ModelEnds)

Spec == Init /\ [][Next]_vars

FairSpec == Spec /\ Fairness

-----------------------------------------------------------------------------
(* Properties.                                                              *)

IsToolUse(m) == m.role = "assistant"
IsToolResult(m) == "tool_result" \in DOMAIN m

\* Message `answer` answers exactly the calls of `request`, in their order.
Answers(answer, request) ==
    /\ IsToolResult(answer)
    /\ Len(answer.tool_result) = Len(request.tool_use)
    /\ \A k \in 1..Len(request.tool_use) :
          answer.tool_result[k].tool_use_id = request.tool_use[k]

(* Whenever the model is called, every assistant tool_use message is        *)
(* followed by ONE user message that answers exactly its calls (the         *)
(* provider rejects anything else), and a user message comes last.          *)
(* runner.py:138-193; threatened by every early exit of the two loops.      *)
RequestWellFormed ==
    pc = "stream" =>
        /\ conversation[Len(conversation)].role = "user"
        /\ \A i \in 1..Len(conversation) :
              IsToolUse(conversation[i]) =>
                  /\ i < Len(conversation)
                  /\ Answers(conversation[i + 1], conversation[i])

\* What the reader of the stream may rely on, as the abstract machine sees it.
StreamStatus ==
    IF pc = "finished" THEN "finished"
    ELSE IF pc = "gone" THEN "closed"
    ELSE IF sent # <<>> /\ sent[Len(sent)].type = "error" THEN "failing"
    ELSE "open"

CallInProgress ==
    IF pc \in {"announced", "exec"} THEN OpenCall(Head(calls).name) ELSE NoCall

ES == INSTANCE EventStream WITH
          status <- StreamStatus, call <- CallInProgress, used <- toolCallsMade

(* The loop implements the event contract of events.py: text and tools      *)
(* alternate, a call is answered before anything else is sent, an error is  *)
(* followed by `done` only, and `done` is last.                             *)
RefinesEventStream == ES!Spec

(* The stream, read as a whole by a reader who keeps every event, obeys     *)
(* that contract; in particular `done` reports the calls really announced,  *)
(* and the cap "is a real ceiling" (runner.py:126) on them.                 *)
StreamGrammar == ES!StreamGrammar

(* "the stream always ends with a `done` event" (README.md:145): a turn     *)
(* whose reader stays delivers one, even when a tool never returns.         *)
TurnEnds == <>(pc = "gone" \/ (sent # <<>> /\ sent[Len(sent)].type = "done"))

(* "Timeouts: 60s total per turn" (docs/SPEC.md:363): the model is not      *)
(* still being waited for once the turn's time is over, with a tick of      *)
(* grace.                                                                   *)
WholeTurnBounded == pc = "stream" => clock <= Deadline + 1

(* After a tool error "the model gets a chance to recover"                  *)
(* (docs/SPEC.md:357): a registered tool that is run can still answer.      *)
RecoveryPossible ==
    pc = "exec" /\ Head(calls).name \in Tools => session = "usable"
=============================================================================
