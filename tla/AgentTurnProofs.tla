--------------------------- MODULE AgentTurnProofs ---------------------------
(***************************************************************************)
(* The turn loop keeps its conversation well formed and implements the     *)
(* event contract, for every budget, deadline and set of tools.            *)
(***************************************************************************)
EXTENDS AgentTurn, TLAPS

Running == {"top", "stream", "calls", "announced", "exec"}
InBatch == pc \in {"calls", "announced", "exec"}

Request == conversation[Len(conversation)]

(* While a reply's calls are being made, the last message is the assistant  *)
(* turn that asked for them; the results collected answer a prefix of its   *)
(* ids and the calls left carry the rest.                                   *)
BatchInProgress ==
    InBatch =>
        /\ conversation # <<>> /\ IsToolUse(Request)
        /\ Len(results) + Len(calls) = Len(Request.tool_use)
        /\ \A k \in 1..Len(results) :
              results[k].tool_use_id = Request.tool_use[k]
        /\ \A k \in 1..Len(calls) :
              calls[k].id = Request.tool_use[Len(results) + k]

(* Outside a batch every assistant message is answered; inside, all but the *)
(* last.                                                                    *)
Paired ==
    pc \in Running =>
        \A i \in 1..Len(conversation) :
            IsToolUse(conversation[i]) =>
                \/ i = Len(conversation) /\ InBatch
                \/ /\ i < Len(conversation)
                   /\ Answers(conversation[i + 1], conversation[i])

UserSpeaksLast ==
    pc \in {"top", "stream"} =>
        conversation # <<>> /\ Request.role = "user"

(* The rest of the reply still fits the budget it was admitted under.       *)
BudgetKept ==
    /\ pc = "calls" => toolCallsMade + Len(calls) <= MaxToolCalls
    /\ pc \in {"announced", "exec"} =>
          calls # <<>> /\ toolCallsMade + Len(calls) - 1 <= MaxToolCalls

\* An error is sent only on the way out of the loop.
NoErrorYet ==
    pc \in Running => sent = <<>> \/ sent[Len(sent)].type # "error"

IInv == TypeOK /\ BatchInProgress /\ Paired /\ UserSpeaksLast /\ BudgetKept
            /\ NoErrorYet

USE BudgetAssumption, TurnAssumption DEF batch

\* What Append does to a sequence.
LEMMA AppendFacts ==
    ASSUME NEW S, NEW s \in Seq(S), NEW e \in S
    PROVE  /\ Append(s, e) \in Seq(S)
           /\ Append(s, e) # <<>>
           /\ Len(s) \in Nat
           /\ Len(Append(s, e)) = Len(s) + 1
           /\ Append(s, e)[Len(s) + 1] = e
           /\ \A i \in 1..Len(s) : Append(s, e)[i] = s[i]
  OBVIOUS

\* What Head and Tail do to a nonempty sequence.
LEMMA HeadTailFacts ==
    ASSUME NEW S, NEW s \in Seq(S), s # <<>>
    PROVE  /\ Len(s) \in Nat /\ Len(s) > 0
           /\ Head(s) = s[1] /\ s[1] \in S
           /\ Tail(s) \in Seq(S)
           /\ Len(Tail(s)) = Len(s) - 1
           /\ \A i \in 1..Len(s) - 1 : Tail(s)[i] = s[i + 1]
  OBVIOUS

LEMMA InitIInv == Init => IInv
  <1> SUFFICES ASSUME Init PROVE IInv
    OBVIOUS
  <1>1. TypeOK
    BY DEF Init, TypeOK, PC, Message, UserText
  <1>2. BatchInProgress /\ BudgetKept /\ NoErrorYet
    BY DEF Init, BatchInProgress, InBatch, BudgetKept, NoErrorYet
  <1>3. Paired /\ UserSpeaksLast
    BY DEF Init, Paired, UserSpeaksLast, Request, UserText, IsToolUse
  <1>4. QED
    BY <1>1, <1>2, <1>3 DEF IInv

\* Whatever ends a call, the call is well typed and there was one to end.
LEMMA ReportTypes ==
    ASSUME TypeOK, BudgetKept, pc \in {"announced", "exec"},
           NEW failed \in BOOLEAN, NEW truncated \in BOOLEAN,
           Report(failed, truncated),
           session' \in {"usable", "aborted"}
    PROVE  TypeOK'
  <1>1. calls \in Seq(Call) /\ calls # <<>>
    BY DEF TypeOK, BudgetKept
  <1>2. Head(calls) \in Call /\ Tail(calls) \in Seq(Call)
    BY <1>1, HeadTailFacts
  <1>3. ToolResult(Head(calls).name, truncated) \in AgentEvent
    BY <1>2 DEF Call, AgentEvent
  <1>4. [tool_use_id |-> Head(calls).id, is_error |-> failed] \in Result
    BY <1>2 DEF Call, Result
  <1>5. sent' \in Seq(AgentEvent) /\ results' \in Seq(Result)
    BY <1>3, <1>4, AppendFacts DEF Report, Emit, TypeOK
  <1>6. QED
    BY <1>2, <1>5 DEF Report, TypeOK, PC

LEMMA TypeKept == IInv /\ [Next]_vars => TypeOK'
  <1> SUFFICES ASSUME IInv, [Next]_vars PROVE TypeOK'
    OBVIOUS
  <1>t. TypeOK /\ BudgetKept
    BY DEF IInv
  <1>e. \A c \in ErrorCodes : Error(c) \in AgentEvent
    BY DEF AgentEvent
  <1>1. CASE OutOfTime
    BY <1>1, <1>t, <1>e DEF OutOfTime, Emit, TypeOK, PC, ErrorCodes
  <1>2. CASE CallModel
    BY <1>2, <1>t DEF CallModel, TypeOK, PC
  <1>3. CASE AnnounceCall
    <2>1. Head(calls) \in Call
      BY <1>3, <1>t, HeadTailFacts DEF AnnounceCall, TypeOK
    <2>2. ToolUse(Head(calls).name) \in AgentEvent
      BY <2>1 DEF Call, AgentEvent
    <2>3. Len(calls) > 0 /\ Len(calls) \in Nat
      BY <1>3, <1>t DEF AnnounceCall, TypeOK
    <2>4. toolCallsMade + 1 \in 0..MaxToolCalls
      BY <1>3, <1>t, <2>3 DEF AnnounceCall, TypeOK, BudgetKept
    <2>5. QED
      BY <1>3, <1>t, <2>2, <2>4 DEF AnnounceCall, Emit, TypeOK, PC
  <1>4. CASE SkipCall
    BY <1>4, <1>t, ReportTypes DEF SkipCall, TypeOK
  <1>5. CASE StartCall
    BY <1>5, <1>t DEF StartCall, TypeOK, PC
  <1>6. CASE FinishBatch
    <2>1. UserToolResults(results) \in Message
      BY <1>t DEF UserToolResults, Message, TypeOK
    <2>2. QED
      BY <1>6, <1>t, <2>1 DEF FinishBatch, TypeOK, PC
  <1>7. CASE YieldDone
    <2>1. Done(toolCallsMade) \in AgentEvent
      BY <1>t DEF AgentEvent, TypeOK
    <2>2. QED
      BY <1>7, <1>t, <2>1 DEF YieldDone, Emit, TypeOK, PC
  <1>8. CASE StreamText
    <2>1. TextDelta \in AgentEvent
      BY DEF AgentEvent
    <2>2. QED
      BY <1>8, <1>t, <2>1 DEF StreamText, Emit, TypeOK, PC
  <1>9. CASE NoReply
    BY <1>9, <1>t, <1>e DEF NoReply, Emit, TypeOK, PC, ErrorCodes
  <1>10. CASE FinalReply
    BY <1>10, <1>t DEF FinalReply, TypeOK, PC
  <1>11. ASSUME NEW c \in ErrorCodes, ModelRaises(c) PROVE TypeOK'
    <2>1. sent' \in Seq(AgentEvent)
      BY <1>11, <1>t, <1>e, AppendFacts DEF ModelRaises, Emit, TypeOK
    <2>2. QED
      BY <1>11, <1>t, <2>1 DEF ModelRaises, TypeOK, PC
  <1>12. ASSUME NEW n \in 1..MaxBatch, BudgetExceeded(n) PROVE TypeOK'
    BY <1>12, <1>t, <1>e DEF BudgetExceeded, Emit, TypeOK, PC, ErrorCodes
  <1>13. ASSUME NEW names \in Batches, ToolReply(names) PROVE TypeOK'
    <2>1. PICK n \in 1..MaxBatch : names \in [1..n -> Names]
      BY DEF Batches
    <2>2. Len(names) = n /\ n \in Nat
      BY <2>1
    <2>3. \A i \in 1..n : toolCallsMade + i \in CallIds
      BY <1>13, <1>t, <2>2 DEF ToolReply, OverBudget, CallIds, TypeOK
    <2>4. calls' \in Seq(Call)
      BY <1>13, <2>1, <2>2, <2>3 DEF ToolReply, Call
    <2>5. [i \in 1..n |-> toolCallsMade + i] \in Seq(CallIds)
      BY <2>2, <2>3
    <2>6. AssistantToolUse([i \in 1..n |-> toolCallsMade + i]) \in Message
      BY <2>5 DEF AssistantToolUse, Message
    <2>7. QED
      BY <1>13, <1>t, <2>2, <2>4, <2>6 DEF ToolReply, TypeOK, PC
  <1>14. CASE ToolReturns \/ ToolTimesOut
    BY <1>14, <1>t, ReportTypes
       DEF ToolReturns, ToolRefuses, ToolAnswers, ToolHitsDatabaseError,
           ToolTimesOut, TypeOK
  <1>15. CASE ReaderLeaves
    BY <1>15, <1>t DEF ReaderLeaves, TypeOK, PC
  <1>16. CASE Tick
    BY <1>16, <1>t DEF Tick, TypeOK
  <1>17. CASE UNCHANGED vars
    BY <1>17, <1>t DEF vars, TypeOK
  <1>18. QED
    BY <1>1, <1>2, <1>3, <1>4, <1>5, <1>6, <1>7, <1>8, <1>9, <1>12, <1>13,
       <1>14, <1>15, <1>16, <1>17, <1>11, <1>10
       DEF Next, LoopStep, ModelEnds, Terminated

-----------------------------------------------------------------------------
(* The conversation.                                                        *)

\* Answering a call moves it from the calls left to the results collected.
LEMMA ReportKeeps ==
    ASSUME TypeOK, BatchInProgress, Paired, BudgetKept,
           pc \in {"announced", "exec"},
           NEW failed \in BOOLEAN, NEW truncated \in BOOLEAN,
           Report(failed, truncated)
    PROVE  BatchInProgress' /\ Paired' /\ BudgetKept'
  <1>1. /\ calls \in Seq(Call) /\ calls # <<>> /\ results \in Seq(Result)
        /\ conversation \in Seq(Message) /\ toolCallsMade \in Nat
    BY DEF TypeOK, BudgetKept
  <1>2. /\ Len(calls) \in Nat /\ Len(calls) > 0
        /\ Head(calls) = calls[1] /\ Head(calls) \in Call
        /\ Len(Tail(calls)) = Len(calls) - 1
        /\ \A k \in 1..Len(calls) - 1 : Tail(calls)[k] = calls[k + 1]
    BY <1>1, HeadTailFacts
  <1> DEFINE block == [tool_use_id |-> Head(calls).id, is_error |-> failed]
  <1>3. block \in Result /\ block.tool_use_id = calls[1].id
    BY <1>2 DEF Call, Result
  <1>4. results' = Append(results, block)
    BY DEF Report
  <1> HIDE DEF block
  <1>5. /\ Len(results) \in Nat /\ Len(results') = Len(results) + 1
        /\ results'[Len(results) + 1] = block
        /\ \A k \in 1..Len(results) : results'[k] = results[k]
    BY <1>1, <1>3, <1>4, AppendFacts
  <1>6. /\ pc' = "calls" /\ calls' = Tail(calls)
        /\ UNCHANGED <<conversation, toolCallsMade>> /\ Request' = Request
    BY DEF Report, Request
  <1>7. BatchInProgress'
    <2>1. /\ conversation # <<>> /\ IsToolUse(Request)
          /\ Len(results) + Len(calls) = Len(Request.tool_use)
          /\ \A k \in 1..Len(results) :
                results[k].tool_use_id = Request.tool_use[k]
          /\ \A k \in 1..Len(calls) :
                calls[k].id = Request.tool_use[Len(results) + k]
      BY DEF BatchInProgress, InBatch
    <2>2. Len(results') + Len(calls') = Len(Request.tool_use)
      <3>1. Len(calls') = Len(calls) - 1
        BY <1>2, <1>6
      <3>2. Len(results') + Len(calls') = Len(results) + Len(calls)
        BY <3>1, <1>2, <1>5
      <3>3. QED
        BY <2>1, <3>2
    <2>3. \A k \in 1..Len(results') :
            results'[k].tool_use_id = Request.tool_use[k]
      <3>1. calls[1].id = Request.tool_use[Len(results) + 1]
        BY <2>1, <1>2
      <3>2. QED
        BY <3>1, <2>1, <1>3, <1>5
    <2>4. \A k \in 1..Len(calls') :
            calls'[k].id = Request.tool_use[Len(results') + k]
      <3> SUFFICES ASSUME NEW k \in 1..Len(calls) - 1
                   PROVE  calls[k + 1].id = Request.tool_use[Len(results) + 1 + k]
        BY <1>2, <1>5, <1>6
      <3>1. k + 1 \in 1..Len(calls)
        BY <1>2
      <3>2. Len(results) + 1 + k = Len(results) + (k + 1)
        BY <1>5
      <3>3. QED
        BY <2>1, <3>1, <3>2
    <2>5. QED
      BY <2>1, <2>2, <2>3, <2>4, <1>6 DEF BatchInProgress, IsToolUse
  <1>8. Paired'
    BY <1>6 DEF Paired, Running, InBatch, Answers
  <1>9. BudgetKept'
    BY <1>1, <1>2, <1>6 DEF BudgetKept
  <1>10. QED
    BY <1>7, <1>8, <1>9

LEMMA ConversationKept ==
    IInv /\ [Next]_vars
        => BatchInProgress' /\ Paired' /\ UserSpeaksLast' /\ BudgetKept'
  <1> DEFINE Kept == BatchInProgress' /\ Paired' /\ UserSpeaksLast'
                       /\ BudgetKept'
  <1> SUFFICES ASSUME IInv, [Next]_vars PROVE Kept
    OBVIOUS
  <1>t. /\ TypeOK /\ BatchInProgress /\ Paired /\ UserSpeaksLast
        /\ BudgetKept
    BY DEF IInv
  <1> USE <1>t
  <1>p. pc \in PC
    BY DEF TypeOK
  \* Steps that leave the loop: nothing is claimed outside Running.
  <1>1. ASSUME pc' \in {"closing", "finished", "gone"} PROVE Kept
    BY <1>1 DEF BatchInProgress, Paired, UserSpeaksLast, BudgetKept, InBatch,
                Running
  \* Steps that stay at the same place and touch none of the four.
  <1>2. ASSUME UNCHANGED <<pc, conversation, calls, results, toolCallsMade>>
        PROVE  Kept
    BY <1>2 DEF BatchInProgress, Paired, UserSpeaksLast, BudgetKept, InBatch,
                Request
  <1>3. CASE CallModel
    BY <1>3 DEF CallModel, BatchInProgress, Paired, UserSpeaksLast, BudgetKept,
                InBatch, Running, Request
  <1>4. CASE AnnounceCall
    <2>1. Len(calls) \in Nat /\ toolCallsMade \in Nat
      BY DEF TypeOK
    <2>2. BudgetKept'
      BY <1>4, <2>1 DEF AnnounceCall, BudgetKept
    <2>3. BatchInProgress' /\ Paired' /\ UserSpeaksLast'
      BY <1>4 DEF AnnounceCall, BatchInProgress, Paired, UserSpeaksLast,
                  InBatch, Running, Request
    <2>4. QED
      BY <2>2, <2>3
  <1>5. CASE StartCall
    BY <1>5 DEF StartCall, BatchInProgress, Paired, UserSpeaksLast, BudgetKept,
                InBatch, Running, Request
  <1>6. CASE SkipCall \/ ToolReturns \/ ToolTimesOut
    <2>1. PICK failed \in BOOLEAN, truncated \in BOOLEAN :
            Report(failed, truncated) /\ pc \in {"announced", "exec"}
      BY <1>6 DEF SkipCall, ToolReturns, ToolRefuses, ToolAnswers,
                  ToolHitsDatabaseError, ToolTimesOut
    <2>2. pc' = "calls"
      BY <2>1 DEF Report
    <2>3. QED
      BY <2>1, <2>2, ReportKeeps DEF UserSpeaksLast
  <1>7. CASE FinishBatch
    <2>1. /\ conversation \in Seq(Message) /\ Len(conversation) \in Nat
          /\ results \in Seq(Result) /\ conversation # <<>>
          /\ Len(conversation) > 0
      BY <1>7 DEF FinishBatch, TypeOK, BatchInProgress, InBatch
    <2> DEFINE answer == UserToolResults(results)
    <2>2. /\ answer \in Message /\ answer.role = "user"
          /\ IsToolResult(answer) /\ answer.tool_result = results
      BY <2>1 DEF UserToolResults, Message, IsToolResult
    <2>3. conversation' = Append(conversation, answer) /\ pc' = "top"
      BY <1>7 DEF FinishBatch
    <2> HIDE DEF answer
    <2>4. /\ Len(conversation') = Len(conversation) + 1
          /\ conversation' # <<>>
          /\ conversation'[Len(conversation) + 1] = answer
          /\ \A i \in 1..Len(conversation) : conversation'[i] = conversation[i]
      BY <2>1, <2>2, <2>3, AppendFacts
    <2>5. Answers(answer, Request)
      BY <1>7, <2>2 DEF FinishBatch, BatchInProgress, InBatch, Answers
    <2>6. UserSpeaksLast'
      BY <2>2, <2>4 DEF UserSpeaksLast, Request
    <2>7. Paired'
      <3> SUFFICES ASSUME NEW i \in 1..Len(conversation),
                          IsToolUse(conversation[i])
                   PROVE  Answers(conversation'[i + 1], conversation[i])
        BY <2>1, <2>2, <2>4 DEF Paired, IsToolUse
      <3>1. CASE i = Len(conversation)
        BY <3>1, <2>4, <2>5 DEF Request
      <3>2. CASE i # Len(conversation)
        <4>1. i + 1 \in 1..Len(conversation)
          BY <3>2, <2>1
        <4>2. Answers(conversation[i + 1], conversation[i])
          BY <1>7, <3>2 DEF FinishBatch, Paired, Running
        <4>3. QED
          BY <4>1, <4>2, <2>4
      <3>3. QED
        BY <3>1, <3>2
    <2>8. QED
      BY <2>3, <2>6, <2>7 DEF BatchInProgress, InBatch, BudgetKept
  <1>8. ASSUME NEW names \in Batches, ToolReply(names) PROVE Kept
    <2>1. PICK n \in 1..MaxBatch : names \in [1..n -> Names]
      BY DEF Batches
    <2>2. Len(names) = n /\ n \in Nat /\ n > 0
      BY <2>1
    <2>3. /\ conversation \in Seq(Message) /\ Len(conversation) \in Nat
          /\ conversation # <<>> /\ Len(conversation) > 0
          /\ toolCallsMade \in Nat /\ toolCallsMade + n <= MaxToolCalls
      BY <1>8, <2>2 DEF ToolReply, OverBudget, TypeOK, UserSpeaksLast
    <2> DEFINE ids == [i \in 1..n |-> toolCallsMade + i]
               request == AssistantToolUse(ids)
    <2>4. ids \in Seq(CallIds) /\ Len(ids) = n
      BY <2>2, <2>3 DEF CallIds
    <2>5. /\ request \in Message /\ IsToolUse(request)
          /\ request.tool_use = ids
      BY <2>4 DEF AssistantToolUse, Message, IsToolUse
    <2>6. /\ conversation' = Append(conversation, request)
          /\ results' = <<>> /\ pc' = "calls"
          /\ toolCallsMade' = toolCallsMade
          /\ calls' = [i \in 1..n |->
                          [id |-> toolCallsMade + i, name |-> names[i]]]
      BY <1>8, <2>2 DEF ToolReply
    <2>7. Len(calls') = n /\ \A k \in 1..n : calls'[k].id = ids[k]
      BY <2>2, <2>6
    <2> HIDE DEF request
    <2>8. /\ Len(conversation') = Len(conversation) + 1
          /\ conversation' # <<>>
          /\ conversation'[Len(conversation) + 1] = request
          /\ \A i \in 1..Len(conversation) : conversation'[i] = conversation[i]
      BY <2>3, <2>5, <2>6, AppendFacts
    <2>9. BatchInProgress'
      <3> HIDE DEF ids
      <3>1. Request' = request
        BY <2>8 DEF Request
      <3>2. Len(results') = 0
        BY <2>6
      <3>3. QED
        BY <2>4, <2>5, <2>7, <2>8, <3>1, <3>2, <2>2 DEF BatchInProgress
    <2>10. Paired'
      <3> SUFFICES ASSUME NEW i \in 1..Len(conversation),
                          IsToolUse(conversation[i])
                   PROVE  Answers(conversation'[i + 1], conversation[i])
        BY <2>3, <2>6, <2>8 DEF Paired, InBatch
      <3>1. /\ i < Len(conversation)
            /\ Answers(conversation[i + 1], conversation[i])
        BY <1>8 DEF ToolReply, Paired, Running, InBatch
      <3>2. i + 1 \in 1..Len(conversation)
        BY <3>1, <2>3
      <3>3. QED
        BY <3>1, <3>2, <2>8
    <2>11. BudgetKept' /\ UserSpeaksLast'
      BY <2>3, <2>6, <2>7 DEF BudgetKept, UserSpeaksLast
    <2>12. QED
      BY <2>9, <2>10, <2>11
  <1>9. CASE \/ OutOfTime \/ YieldDone \/ NoReply \/ FinalReply
             \/ \E c \in ErrorCodes : ModelRaises(c)
             \/ \E n \in 1..MaxBatch : BudgetExceeded(n)
             \/ ReaderLeaves
    BY <1>9, <1>1 DEF OutOfTime, YieldDone, NoReply, FinalReply, ModelRaises,
                      BudgetExceeded, ReaderLeaves
  <1>10. CASE StreamText \/ Tick \/ UNCHANGED vars
    BY <1>10, <1>2 DEF StreamText, Tick, vars
  <1>11. QED
    BY <1>3, <1>4, <1>5, <1>6, <1>7, <1>8, <1>9, <1>10
       DEF Next, LoopStep, ModelEnds, Terminated

LEMMA NoErrorYetKept == IInv /\ [Next]_vars => NoErrorYet'
  <1> SUFFICES ASSUME IInv, [Next]_vars, pc' \in Running
               PROVE  sent' = <<>> \/ sent'[Len(sent')].type # "error"
    BY DEF NoErrorYet
  <1>t. TypeOK /\ NoErrorYet /\ BudgetKept
    BY DEF IInv
  <1>1. ASSUME UNCHANGED sent, pc \in Running
        PROVE  sent' = <<>> \/ sent'[Len(sent')].type # "error"
    BY <1>1, <1>t DEF NoErrorYet
  <1>2. ASSUME NEW e \in AgentEvent, Emit(e), e.type # "error"
        PROVE  sent' = <<>> \/ sent'[Len(sent')].type # "error"
    <2>1. /\ Len(sent') = Len(sent) + 1
          /\ sent'[Len(sent) + 1] = e
      BY <1>2, <1>t, AppendFacts DEF Emit, TypeOK
    <2>2. QED
      BY <2>1, <1>2
  <1>3. CASE CallModel \/ StartCall \/ FinishBatch \/ Tick
    BY <1>3, <1>1 DEF CallModel, StartCall, FinishBatch, Tick, Running
  <1>4. ASSUME NEW names \in Batches, ToolReply(names)
        PROVE  sent' = <<>> \/ sent'[Len(sent')].type # "error"
    BY <1>4, <1>1 DEF ToolReply, Running
  <1>5. CASE UNCHANGED vars
    BY <1>5, <1>1 DEF vars
  <1>6. CASE StreamText
    BY <1>6, <1>2 DEF StreamText, TextDelta, AgentEvent
  <1>7. CASE AnnounceCall
    <2>1. Head(calls) \in Call
      BY <1>7, <1>t, HeadTailFacts DEF AnnounceCall, TypeOK
    <2>2. QED
      BY <1>7, <1>2, <2>1 DEF AnnounceCall, ToolUse, AgentEvent, Call
  <1>8. CASE SkipCall \/ ToolReturns \/ ToolTimesOut
    <2>1. PICK truncated \in BOOLEAN :
            /\ Emit(ToolResult(Head(calls).name, truncated))
            /\ pc \in {"announced", "exec"}
      BY <1>8 DEF SkipCall, ToolReturns, ToolRefuses, ToolAnswers,
                  ToolHitsDatabaseError, ToolTimesOut, Report
    <2>2. Head(calls) \in Call
      BY <2>1, <1>t, HeadTailFacts DEF BudgetKept, TypeOK
    <2>3. QED
      BY <2>1, <2>2, <1>2 DEF ToolResult, AgentEvent, Call
  <1>9. CASE \/ OutOfTime \/ YieldDone \/ NoReply \/ FinalReply
             \/ \E c \in ErrorCodes : ModelRaises(c)
             \/ \E n \in 1..MaxBatch : BudgetExceeded(n)
             \/ ReaderLeaves
    BY <1>9 DEF OutOfTime, YieldDone, NoReply, FinalReply, ModelRaises,
                BudgetExceeded, ReaderLeaves, Running
  <1>10. QED
    BY <1>3, <1>4, <1>5, <1>6, <1>7, <1>8, <1>9
       DEF Next, LoopStep, ModelEnds, Terminated

LEMMA Invariance == Spec => []IInv
  <1>1. Init => IInv
    BY InitIInv
  <1>2. IInv /\ [Next]_vars => IInv'
    BY TypeKept, ConversationKept, NoErrorYetKept DEF IInv
  <1>3. QED
    BY <1>1, <1>2, PTL DEF Spec

(* Every variable of the turn keeps its type: in particular the calls made  *)
(* never exceed the budget, whatever batches the model asks for.            *)
THEOREM TypeCorrect == Spec => []TypeOK
  <1>1. IInv => TypeOK
    BY DEF IInv
  <1>2. QED
    BY <1>1, Invariance, PTL

(* The provider never receives a conversation with an unanswered, partly    *)
(* answered or misordered tool_use: the model is only called between        *)
(* batches, when every assistant message is paired.                         *)
THEOREM RequestsWellFormed == Spec => []RequestWellFormed
  <1>1. IInv => RequestWellFormed
    BY DEF IInv, Paired, UserSpeaksLast, RequestWellFormed, Running, InBatch,
           Request
  <1>2. QED
    BY <1>1, Invariance, PTL

-----------------------------------------------------------------------------
(* The event contract.                                                      *)

LEMMA StepRefines == IInv /\ [Next]_vars => [ES!Next]_ES!vars
  <1> SUFFICES ASSUME IInv, [Next]_vars PROVE [ES!Next]_ES!vars
    OBVIOUS
  \* EventStream has its own copy of the vocabulary, with the same meaning.
  <1>v. /\ ES!NoCall = NoCall /\ ES!TextDelta = TextDelta
        /\ ES!ErrorCodes = ErrorCodes /\ ES!Done(toolCallsMade) = Done(toolCallsMade)
        /\ \A c : ES!Error(c) = Error(c)
        /\ \A n : ES!OpenCall(n) = OpenCall(n) /\ ES!ToolUse(n) = ToolUse(n)
        /\ \A n, b : ES!ToolResult(n, b) = ToolResult(n, b)
    BY DEF NoCall, ES!NoCall, TextDelta, ES!TextDelta, ErrorCodes,
           ES!ErrorCodes, Done, ES!Done, Error, ES!Error, OpenCall,
           ES!OpenCall, ToolUse, ES!ToolUse, ToolResult, ES!ToolResult
  <1>t. TypeOK /\ NoErrorYet /\ BudgetKept
    BY DEF IInv
  <1>o. pc \in Running => StreamStatus = "open"
    BY <1>t DEF StreamStatus, Running, NoErrorYet
  <1> DEFINE Stutter == UNCHANGED <<sent, StreamStatus, CallInProgress,
                                    toolCallsMade>>
  <1>s. Stutter => [ES!Next]_ES!vars
    BY DEF ES!vars
  <1> HIDE DEF Stutter
  <1>c. pc \in {"announced", "exec"} => Head(calls) \in Call
    BY <1>t, HeadTailFacts DEF BudgetKept, TypeOK
  \* An error sent by the loop is the last event of the stream.
  <1>e. ASSUME NEW code \in ErrorCodes, Emit(Error(code)),
               pc \in {"top", "stream"}, pc' = "closing",
               UNCHANGED toolCallsMade
        PROVE  [ES!Next]_ES!vars
    <2>1. Error(code) \in AgentEvent
      BY DEF AgentEvent
    <2>2. sent' # <<>> /\ sent'[Len(sent')] = Error(code)
      <3>1. sent' = Append(sent, Error(code)) /\ sent \in Seq(AgentEvent)
        BY <1>e, <1>t DEF Emit, TypeOK
      <3>2. QED
        BY ONLY <2>1, <3>1, AppendFacts
    <2>3. StreamStatus = "open" /\ StreamStatus' = "failing"
      BY <1>e, <1>o, <2>2 DEF StreamStatus, Running, Error
    <2>4. CallInProgress = NoCall /\ CallInProgress' = NoCall
      BY <1>e DEF CallInProgress
    <2>5. ES!EmitError(code)
      BY <1>v, <2>3, <2>4, <1>e DEF ES!EmitError, ES!Emit, Emit
    <2>6. QED
      BY <2>5, <1>v DEF ES!Next
  \* However a call ends, its result is the next event of the stream.
  <1>r. ASSUME NEW failed \in BOOLEAN, NEW truncated \in BOOLEAN,
               Report(failed, truncated), pc \in {"announced", "exec"}
        PROVE  [ES!Next]_ES!vars
    <2> DEFINE name == Head(calls).name
    <2>1. name \in Names
      BY <1>r, <1>c DEF Call
    <2>2. ToolResult(name, truncated) \in AgentEvent
      BY <2>1 DEF AgentEvent
    <2>3. sent' # <<>> /\ sent'[Len(sent')] = ToolResult(name, truncated)
      <3>1. sent' = Append(sent, ToolResult(name, truncated))
        BY <1>r DEF Report, Emit
      <3>2. sent \in Seq(AgentEvent)
        BY <1>t DEF TypeOK
      <3>3. QED
        BY ONLY <2>2, <3>1, <3>2, AppendFacts
    <2>4. StreamStatus = "open" /\ StreamStatus' = "open"
      BY <1>r, <1>o, <2>3 DEF Report, StreamStatus, Running, ToolResult
    <2>5. CallInProgress = OpenCall(name) /\ CallInProgress' = NoCall
      BY <1>r DEF Report, CallInProgress
    <2>6. ES!EmitToolResult(name, truncated)
      BY <1>v, <2>4, <2>5, <1>r DEF ES!EmitToolResult, ES!Emit, Report, Emit
    <2>7. QED
      BY <2>1, <2>6 DEF ES!Next
  <1>1. CASE OutOfTime
    BY <1>1, <1>e DEF OutOfTime, ErrorCodes
  <1>2. CASE CallModel \/ FinishBatch
    <2>1. pc \in Running /\ pc' \in Running /\ UNCHANGED <<sent, toolCallsMade>>
      BY <1>2 DEF CallModel, FinishBatch, Running
    <2>2. StreamStatus' = StreamStatus
      BY <2>1 DEF StreamStatus, Running
    <2>3. CallInProgress' = NoCall /\ CallInProgress = NoCall
      BY <1>2 DEF CallModel, FinishBatch, CallInProgress
    <2>4. QED
      BY <2>1, <2>2, <2>3, <1>s DEF Stutter
  <1>3. CASE AnnounceCall
    <2> DEFINE name == Head(calls).name
    <2>1. Head(calls) \in Call /\ Len(calls) \in Nat /\ Len(calls) > 0
      BY <1>3, <1>t, HeadTailFacts DEF AnnounceCall, TypeOK
    <2>2. name \in Names /\ toolCallsMade < MaxToolCalls
      BY <1>3, <2>1, <1>t DEF Call, AnnounceCall, BudgetKept, TypeOK
    <2>3. ToolUse(name) \in AgentEvent
      BY <2>2 DEF AgentEvent
    <2>4. sent' # <<>> /\ sent'[Len(sent')] = ToolUse(name)
      BY <2>3, <1>3, <1>t, AppendFacts DEF AnnounceCall, Emit, TypeOK
    <2>5. StreamStatus = "open" /\ StreamStatus' = "open"
      BY <1>3, <1>o, <2>4 DEF AnnounceCall, StreamStatus, Running, ToolUse
    <2>6. CallInProgress = NoCall /\ CallInProgress' = OpenCall(name)
      BY <1>3 DEF AnnounceCall, CallInProgress
    <2>7. ES!EmitToolUse(name)
      BY <1>v, <2>2, <2>5, <2>6, <1>3 DEF ES!EmitToolUse, ES!Emit, AnnounceCall, Emit
    <2>8. QED
      BY <2>2, <2>7 DEF ES!Next
  <1>4. CASE SkipCall \/ ToolReturns \/ ToolTimesOut
    <2>1. PICK failed \in BOOLEAN, truncated \in BOOLEAN :
            Report(failed, truncated) /\ pc \in {"announced", "exec"}
      BY <1>4 DEF SkipCall, ToolReturns, ToolRefuses, ToolAnswers,
                  ToolHitsDatabaseError, ToolTimesOut
    <2>2. QED
      BY <2>1, <1>r
  <1>5. CASE StartCall
    <2>1. UNCHANGED <<sent, toolCallsMade, StreamStatus, CallInProgress>>
      BY <1>5 DEF StartCall, StreamStatus, CallInProgress
    <2>2. QED
      BY <2>1, <1>s DEF Stutter
  <1>6. CASE YieldDone
    <2>1. StreamStatus \in {"open", "failing"} /\ StreamStatus' = "finished"
      BY <1>6 DEF YieldDone, StreamStatus
    <2>2. CallInProgress = NoCall /\ CallInProgress' = NoCall
      BY <1>6 DEF YieldDone, CallInProgress
    <2>3. ES!EmitDone
      BY <1>v, <1>6, <2>1, <2>2 DEF YieldDone, ES!EmitDone, ES!Emit, Emit
    <2>4. QED
      BY <2>3 DEF ES!Next
  <1>7. CASE StreamText
    <2>1. TextDelta \in AgentEvent
      BY DEF AgentEvent
    <2>2. sent' # <<>> /\ sent'[Len(sent')] = TextDelta
      BY <2>1, <1>7, <1>t, AppendFacts DEF StreamText, Emit, TypeOK
    <2>3. StreamStatus = "open" /\ StreamStatus' = "open"
      BY <1>7, <1>o, <2>2 DEF StreamText, StreamStatus, Running, TextDelta
    <2>4. CallInProgress = NoCall /\ CallInProgress' = NoCall
      BY <1>7 DEF StreamText, CallInProgress
    <2>5. ES!EmitText
      BY <1>v, <1>7, <2>3, <2>4 DEF StreamText, ES!EmitText, ES!Emit, Emit
    <2>6. QED
      BY <2>5 DEF ES!Next
  <1>8. CASE NoReply
    BY <1>8, <1>e DEF NoReply, ErrorCodes
  <1>9. ASSUME NEW c \in ErrorCodes, ModelRaises(c) PROVE [ES!Next]_ES!vars
    BY <1>9, <1>e DEF ModelRaises
  <1>10. CASE FinalReply
    <2>1. StreamStatus = "open" /\ StreamStatus' = "open"
      BY <1>10, <1>o, <1>t
         DEF FinalReply, StreamStatus, Running, NoErrorYet
    <2>2. CallInProgress' = CallInProgress
      BY <1>10 DEF FinalReply, CallInProgress
    <2>3. QED
      BY <1>10, <2>1, <2>2, <1>s DEF FinalReply, Stutter
  <1>11. ASSUME NEW n \in 1..MaxBatch, BudgetExceeded(n)
         PROVE  [ES!Next]_ES!vars
    BY <1>11, <1>e DEF BudgetExceeded, ErrorCodes
  <1>12. ASSUME NEW names \in Batches, ToolReply(names)
         PROVE  [ES!Next]_ES!vars
    <2>1. UNCHANGED <<sent, toolCallsMade, StreamStatus, CallInProgress>>
      BY <1>12 DEF ToolReply, StreamStatus, CallInProgress
    <2>2. QED
      BY <2>1, <1>s DEF Stutter
  <1>13. CASE ReaderLeaves
    <2>1. StreamStatus \in {"open", "failing"} /\ StreamStatus' = "closed"
      BY <1>13 DEF ReaderLeaves, Ended, StreamStatus
    <2>2. CallInProgress' = NoCall
      BY <1>13 DEF ReaderLeaves, CallInProgress
    <2>3. ES!Close
      BY <1>v, <1>13, <2>1, <2>2 DEF ReaderLeaves, ES!Close
    <2>4. QED
      BY <2>3 DEF ES!Next
  <1>14. CASE Tick
    <2>1. UNCHANGED <<sent, toolCallsMade, StreamStatus, CallInProgress>>
      BY <1>14 DEF Tick, StreamStatus, CallInProgress
    <2>2. QED
      BY <2>1, <1>s DEF Stutter
  <1>15. CASE UNCHANGED vars
    <2>1. UNCHANGED <<sent, toolCallsMade, StreamStatus, CallInProgress>>
      BY <1>15 DEF vars, StreamStatus, CallInProgress
    <2>2. QED
      BY <2>1, <1>s DEF Stutter
  <1>16. QED
    BY <1>1, <1>2, <1>3, <1>4, <1>5, <1>6, <1>7, <1>8, <1>9, <1>10, <1>11,
       <1>12, <1>13, <1>14, <1>15
       DEF Next, LoopStep, ModelEnds, Terminated

(* run_agent implements the event contract of events.py for every budget,   *)
(* deadline and tool set, and whenever the reader hangs up.                 *)
THEOREM Refinement == Spec => RefinesEventStream
  <1>1. Init => ES!Init
    BY DEF Init, ES!Init, StreamStatus, CallInProgress, NoCall, ES!NoCall
  <1>2. IInv /\ [Next]_vars => [ES!Next]_ES!vars
    BY StepRefines
  <1>3. QED
    BY <1>1, <1>2, Invariance, PTL DEF Spec, RefinesEventStream, ES!Spec

-----------------------------------------------------------------------------
ESP == INSTANCE EventStreamProofs WITH
           status <- StreamStatus, call <- CallInProgress, used <- toolCallsMade

(* Hence every reader of a real turn sees a well-formed stream: what        *)
(* StreamGrammarHolds proves of the contract carries over.                  *)
THEOREM TurnStreamGrammar == Spec => []StreamGrammar
  <1>1. ESP!Spec => []ESP!StreamGrammar
    BY ESP!StreamGrammarHolds
  <1>2. ES!Init => ESP!Init
    BY DEF ES!Init, ESP!Init, ES!NoCall, ESP!NoCall
  <1>3. [ES!Next]_ES!vars => [ESP!Next]_ESP!vars
    BY DEF ES!Next, ESP!Next, ES!vars, ESP!vars,
           ES!EmitText, ES!EmitToolUse, ES!EmitToolResult, ES!EmitError,
           ES!EmitDone, ES!Close, ES!Emit, ES!NoCall, ES!OpenCall,
           ES!TextDelta, ES!ToolUse, ES!ToolResult, ES!Error, ES!ErrorCodes,
           ES!Done,
           ESP!EmitText, ESP!EmitToolUse, ESP!EmitToolResult, ESP!EmitError,
           ESP!EmitDone, ESP!Close, ESP!Emit, ESP!NoCall, ESP!OpenCall,
           ESP!TextDelta, ESP!ToolUse, ESP!ToolResult, ESP!Error,
           ESP!ErrorCodes, ESP!Done
  <1>c. ESP!Cardinality(ESP!Announced) = ES!Cardinality(ES!Announced)
    BY DEF ES!Announced, ESP!Announced, ES!Cardinality, ESP!Cardinality
  <1>4. ESP!StreamGrammar => StreamGrammar
    BY <1>c DEF StreamGrammar, ES!StreamGrammar, ESP!StreamGrammar,
           ES!EndsOnce, ES!ResultFollowsUse, ES!NoOrphanResult,
           ES!DoneCountsCalls, ES!Announced,
           ESP!EndsOnce, ESP!ResultFollowsUse, ESP!NoOrphanResult,
           ESP!DoneCountsCalls, ESP!Announced
  <1>5. QED
    BY <1>1, <1>2, <1>3, <1>4, Refinement, PTL
       DEF RefinesEventStream, ES!Spec, ESP!Spec
=============================================================================
