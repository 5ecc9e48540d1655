-------------------------- MODULE EventStreamProofs --------------------------
(***************************************************************************)
(* Every behaviour of EventStream obeys StreamGrammar, for every set of    *)
(* tool names and every budget.                                            *)
(***************************************************************************)
EXTENDS EventStream, TLAPS, FiniteSetTheorems

LastType == sent[Len(sent)].type

Ending == {"error", "done"}

(* The strengthening: how `status`, `call` and `used`, which the actions    *)
(* test, are reflected in the history `sent`, which the grammar is about.   *)
Tracked ==
    /\ used = Cardinality(Announced)
    /\ call # NoCall =>
          /\ status = "open"
          /\ sent # <<>>
          /\ sent[Len(sent)] = ToolUse(call.name)
    /\ status \in {"open", "failing"} /\ call = NoCall /\ sent # <<>> =>
          LastType # "tool_use"
    /\ status = "open" => \A i \in 1..Len(sent) : sent[i].type \notin Ending
    /\ status = "failing" =>
          /\ sent # <<>> /\ LastType = "error"
          /\ \A i \in 1..Len(sent) - 1 : sent[i].type \notin Ending

IInv == TypeOK /\ Tracked /\ StreamGrammar

USE BudgetAssumption

\* What Append does to a stream of events.
LEMMA AppendEvent ==
    ASSUME NEW s \in Seq(AgentEvent), NEW e \in AgentEvent
    PROVE  /\ Append(s, e) \in Seq(AgentEvent)
           /\ Append(s, e) # <<>>
           /\ Len(Append(s, e)) = Len(s) + 1
           /\ Len(s) \in Nat
           /\ Append(s, e)[Len(s) + 1] = e
           /\ \A i \in 1..Len(s) : Append(s, e)[i] = s[i]
  OBVIOUS

\* Announced grows by one element exactly when a tool_use is sent.
LEMMA AnnouncedAfterEmit ==
    ASSUME TypeOK, NEW e \in AgentEvent, Emit(e)
    PROVE  /\ IsFiniteSet(Announced)
           /\ Cardinality(Announced) \in Nat
           /\ e.type # "tool_use" => Announced' = Announced
           /\ e.type = "tool_use" =>
                Cardinality(Announced') = Cardinality(Announced) + 1
  <1>1. /\ sent' = Append(sent, e)
        /\ sent \in Seq(AgentEvent)
    BY DEF TypeOK, Emit
  <1>2. /\ Len(sent) \in Nat
        /\ Len(sent') = Len(sent) + 1
        /\ sent'[Len(sent) + 1] = e
        /\ \A i \in 1..Len(sent) : sent'[i] = sent[i]
    BY <1>1, AppendEvent
  <1>3. IsFiniteSet(Announced) /\ Cardinality(Announced) \in Nat
    <2>1. IsFiniteSet(1..Len(sent))
      BY <1>2, FS_Interval
    <2>2. Announced \subseteq 1..Len(sent)
      BY DEF Announced
    <2>3. QED
      BY <2>1, <2>2, FS_Subset, FS_CardinalityType
  <1>4. ASSUME e.type # "tool_use" PROVE Announced' = Announced
    BY <1>2, <1>4 DEF Announced
  <1>5. ASSUME e.type = "tool_use"
        PROVE  Cardinality(Announced') = Cardinality(Announced) + 1
    <2>1. Announced' = Announced \cup {Len(sent) + 1}
      BY <1>2, <1>5 DEF Announced
    <2>2. Len(sent) + 1 \notin Announced
      BY <1>2 DEF Announced
    <2>3. QED
      BY <2>1, <2>2, <1>3, FS_AddElement
  <1>6. QED
    BY <1>3, <1>4, <1>5

LEMMA InitIInv == Init => IInv
  <1> SUFFICES ASSUME Init PROVE IInv
    OBVIOUS
  <1>1. /\ sent = <<>> /\ Len(sent) = 0 /\ sent \in Seq(AgentEvent)
        /\ status = "open" /\ call = NoCall /\ used = 0
    BY DEF Init
  <1>2. Announced = {} /\ Cardinality(Announced) = 0
    BY <1>1, FS_EmptySet DEF Announced
  <1>3. TypeOK
    BY <1>1 DEF TypeOK
  <1>4. Tracked
    BY <1>1, <1>2 DEF Tracked, NoCall
  <1>5. StreamGrammar
    BY <1>1, <1>2 DEF StreamGrammar, EndsOnce, ResultFollowsUse,
                      NoOrphanResult, DoneCountsCalls
  <1>6. QED
    BY <1>3, <1>4, <1>5 DEF IInv

(* The two facts about a step that the grammar needs: an event is sent only *)
(* while nothing final was sent, and the event fits what came before it.    *)
LEMMA GrammarKept ==
    ASSUME TypeOK, Tracked, StreamGrammar, NEW e \in AgentEvent, Emit(e),
           \A i \in 1..Len(sent) : sent[i].type # "done",
           \A i \in 1..Len(sent) : sent[i].type = "error" =>
               i = Len(sent) /\ e.type = "done",
           sent # <<>> /\ LastType = "tool_use" =>
               e.type = "tool_result" /\ e.name = sent[Len(sent)].name,
           e.type = "tool_result" =>
               /\ sent # <<>> /\ LastType = "tool_use"
               /\ e.name = sent[Len(sent)].name,
           e.type = "done" => e.tool_calls = used
    PROVE  StreamGrammar'
  <1>1. /\ sent' = Append(sent, e)
        /\ sent \in Seq(AgentEvent)
        /\ used \in Nat /\ used <= MaxToolCalls
        /\ used = Cardinality(Announced)
    BY DEF TypeOK, Emit, Tracked
  <1>2. /\ Len(sent) \in Nat
        /\ Len(sent') = Len(sent) + 1
        /\ sent'[Len(sent) + 1] = e
        /\ \A i \in 1..Len(sent) : sent'[i] = sent[i]
        /\ sent # <<>> <=> Len(sent) > 0
    BY <1>1, AppendEvent
  <1>3. EndsOnce'
    BY <1>2 DEF EndsOnce
  <1>4. ResultFollowsUse'
    <2> SUFFICES ASSUME NEW i \in 1..Len(sent), sent[i].type = "tool_use"
                 PROVE  /\ sent'[i + 1].type = "tool_result"
                        /\ sent'[i + 1].name = sent'[i].name
      BY <1>2 DEF ResultFollowsUse, Announced
    <2>1. CASE i = Len(sent)
      BY <2>1, <1>2 DEF LastType
    <2>2. CASE i # Len(sent)
      <3>1. i \in Announced /\ i + 1 \in 1..Len(sent)
        BY <2>2, <1>2 DEF Announced
      <3>2. QED
        BY <3>1, <2>2, <1>2 DEF StreamGrammar, ResultFollowsUse
    <2>3. QED
      BY <2>1, <2>2
  <1>5. NoOrphanResult'
    <2> SUFFICES ASSUME NEW i \in 1..Len(sent) + 1,
                        sent'[i].type = "tool_result"
                 PROVE  /\ i > 1
                        /\ sent'[i - 1].type = "tool_use"
                        /\ sent'[i - 1].name = sent'[i].name
      BY <1>2 DEF NoOrphanResult
    <2>1. CASE i = Len(sent) + 1
      BY <2>1, <1>2 DEF LastType
    <2>2. CASE i \in 1..Len(sent)
      <3>1. i > 1 /\ i - 1 \in 1..Len(sent)
        BY <2>2, <1>2 DEF StreamGrammar, NoOrphanResult
      <3>2. QED
        BY <3>1, <2>2, <1>2 DEF StreamGrammar, NoOrphanResult
    <2>3. QED
      BY <2>1, <2>2, <1>2
  <1>6. DoneCountsCalls'
    <2>1. e.type # "tool_use" => Cardinality(Announced') = used
      BY <1>1, AnnouncedAfterEmit
    <2>2. QED
      BY <2>1, <1>1, <1>2 DEF DoneCountsCalls
  <1>7. QED
    BY <1>3, <1>4, <1>5, <1>6 DEF StreamGrammar

LEMMA TypeKept == TypeOK /\ Tracked /\ [Next]_vars => TypeOK'
  <1> SUFFICES ASSUME TypeOK, Tracked, [Next]_vars PROVE TypeOK'
    OBVIOUS
  <1> USE DEF TypeOK, Emit, AgentEvent
  <1>1. CASE EmitText
    BY <1>1 DEF EmitText
  <1>2. ASSUME NEW n \in Names, EmitToolUse(n) PROVE TypeOK'
    BY <1>2 DEF EmitToolUse
  <1>3. ASSUME NEW n \in Names, NEW b \in BOOLEAN, EmitToolResult(n, b)
        PROVE  TypeOK'
    BY <1>3 DEF EmitToolResult
  <1>4. ASSUME NEW c \in ErrorCodes, EmitError(c) PROVE TypeOK'
    BY <1>4 DEF EmitError
  <1>5. CASE EmitDone
    BY <1>5 DEF EmitDone
  <1>6. CASE Close
    BY <1>6 DEF Close
  <1>7. CASE UNCHANGED vars
    BY <1>7 DEF vars
  <1>8. QED
    BY <1>1, <1>2, <1>3, <1>4, <1>5, <1>6, <1>7 DEF Next

\* The three kinds of event-sending step, as GrammarKept wants them.
LEMMA RestKept ==
    TypeOK /\ Tracked /\ StreamGrammar /\ [Next]_vars
        => Tracked' /\ StreamGrammar'
  <1> SUFFICES ASSUME TypeOK, Tracked, StreamGrammar, [Next]_vars
               PROVE  Tracked' /\ StreamGrammar'
    OBVIOUS
  <1>s. /\ sent \in Seq(AgentEvent) /\ Len(sent) \in Nat
        /\ sent # <<>> <=> Len(sent) > 0
        /\ used \in Nat
    BY DEF TypeOK
  <1>1. CASE EmitText
    <2>1. TextDelta \in AgentEvent /\ Emit(TextDelta)
      BY <1>1 DEF EmitText, AgentEvent
    <2>2. StreamGrammar'
      BY <1>1, <1>s, <2>1, GrammarKept
         DEF EmitText, Tracked, Ending, TextDelta
    <2>3. Tracked'
      BY <1>1, <1>s, <2>1, AppendEvent, AnnouncedAfterEmit
         DEF EmitText, Emit, Tracked, Ending, TextDelta, LastType
    <2>4. QED
      BY <2>2, <2>3
  <1>2. ASSUME NEW n \in Names, EmitToolUse(n)
        PROVE  Tracked' /\ StreamGrammar'
    <2>1. ToolUse(n) \in AgentEvent /\ Emit(ToolUse(n))
      BY <1>2 DEF EmitToolUse, AgentEvent
    <2>2. StreamGrammar'
      BY <1>2, <1>s, <2>1, GrammarKept
         DEF EmitToolUse, Tracked, Ending, ToolUse
    <2>3. call' # NoCall /\ call'.name = n /\ status' = "open"
      BY <1>2 DEF EmitToolUse, OpenCall, NoCall
    <2>4. /\ used' = Cardinality(Announced)'
          /\ sent' # <<>> /\ sent'[Len(sent')] = ToolUse(n)
          /\ \A i \in 1..Len(sent') : sent'[i].type \notin Ending
      BY <1>2, <1>s, <2>1, AppendEvent, AnnouncedAfterEmit
         DEF EmitToolUse, Emit, Tracked, Ending, ToolUse
    <2>5. Tracked'
      BY <2>3, <2>4 DEF Tracked
    <2>6. QED
      BY <2>2, <2>5
  <1>3. ASSUME NEW n \in Names, NEW b \in BOOLEAN, EmitToolResult(n, b)
        PROVE  Tracked' /\ StreamGrammar'
    <2>1. ToolResult(n, b) \in AgentEvent /\ Emit(ToolResult(n, b))
      BY <1>3 DEF EmitToolResult, AgentEvent
    <2>2. /\ call # NoCall /\ call.name = n
          /\ sent # <<>> /\ sent[Len(sent)] = ToolUse(n)
      BY <1>3 DEF EmitToolResult, OpenCall, NoCall, Tracked
    <2>3. StreamGrammar'
      BY <1>3, <1>s, <2>1, <2>2, GrammarKept
         DEF EmitToolResult, Tracked, Ending, ToolResult, ToolUse, LastType
    <2>4. Tracked'
      BY <1>3, <1>s, <2>1, <2>2, AppendEvent, AnnouncedAfterEmit
         DEF EmitToolResult, Emit, Tracked, Ending, ToolResult, LastType
    <2>5. QED
      BY <2>3, <2>4
  <1>4. ASSUME NEW c \in ErrorCodes, EmitError(c)
        PROVE  Tracked' /\ StreamGrammar'
    <2>1. Error(c) \in AgentEvent /\ Emit(Error(c))
      BY <1>4 DEF EmitError, AgentEvent
    <2>2. StreamGrammar'
      BY <1>4, <1>s, <2>1, GrammarKept DEF EmitError, Tracked, Ending, Error
    <2>3. Tracked'
      BY <1>4, <1>s, <2>1, AppendEvent, AnnouncedAfterEmit
         DEF EmitError, Emit, Tracked, Ending, Error, LastType
    <2>4. QED
      BY <2>2, <2>3
  <1>5. CASE EmitDone
    <2>1. Done(used) \in AgentEvent /\ Emit(Done(used))
      BY <1>5 DEF EmitDone, AgentEvent, TypeOK
    <2>2. StreamGrammar'
      BY <1>5, <1>s, <2>1, GrammarKept
         DEF EmitDone, Tracked, Ending, Done, LastType
    <2>3. Tracked'
      BY <1>5, <1>s, <2>1, AppendEvent, AnnouncedAfterEmit
         DEF EmitDone, Emit, Tracked, Ending, Done, LastType
    <2>4. QED
      BY <2>2, <2>3
  <1>6. CASE Close
    <2>1. UNCHANGED Announced
      BY <1>6 DEF Close, Announced
    <2>2. StreamGrammar'
      BY <1>6, <2>1 DEF Close, StreamGrammar, EndsOnce, ResultFollowsUse,
                        NoOrphanResult, DoneCountsCalls
    <2>3. Tracked'
      BY <1>6, <2>1 DEF Close, Tracked
    <2>4. QED
      BY <2>2, <2>3
  <1>7. CASE UNCHANGED vars
    BY <1>7 DEF vars, Tracked, LastType, Announced, StreamGrammar, EndsOnce,
                ResultFollowsUse, NoOrphanResult, DoneCountsCalls
  <1>8. QED
    BY <1>1, <1>2, <1>3, <1>4, <1>5, <1>6, <1>7 DEF Next

(* Whoever keeps the events of a turn sees a well-formed stream: `done`     *)
(* last and once, errors only before it, each tool result right behind its  *)
(* announcement, and the reported number of calls exact and in budget.      *)
THEOREM StreamGrammarHolds == Spec => []StreamGrammar
  <1>1. Init => IInv
    BY InitIInv
  <1>2. IInv /\ [Next]_vars => IInv'
    BY TypeKept, RestKept DEF IInv
  <1>3. IInv => StreamGrammar
    BY DEF IInv
  <1>4. QED
    BY <1>1, <1>2, <1>3, PTL DEF Spec
=============================================================================
