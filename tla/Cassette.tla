------------------------------- MODULE Cassette -------------------------------
(***************************************************************************)
(* One case of the eval suite: evals/cassette.py records the replies of the*)
(* model while run_agent answers the case, or plays them back to it, and   *)
(* evals/runner.py flattens what run_agent emits into a transcript.        *)
(*                                                                         *)
(* The case is run again and again, recorded or replayed, and the tool     *)
(* budget may be set otherwise in between.  Of run_agent only what the     *)
(* transcript sees is here (AgentTurn has the rest).  The tools answer from*)
(* fixtures and a pinned clock, so a reply from the tape fits the          *)
(* conversation as it did when it was taped.                               *)
(***************************************************************************)
EXTENDS Naturals, Sequences

CONSTANTS
    Chunks,     \* pieces of text
    Tools,      \* tool calls, with their arguments
    Budgets     \* values of agent_max_tool_calls

VARIABLES
    disk,         \* the cassette file: Missing, Torn, or its turns
    recorded,     \* history: how the run that wrote the file went
    mode,         \* EVAL_MODE
    budget,       \* agent_max_tool_calls of this run
    reel,         \* RecordingLLMClient._turns
    position,     \* CassetteLLMClient._index
    transcript,   \* text and tool calls so far, and whether an Error came
    pc,           \* where the run is
    verdict       \* what pytest reports, up to the graders

vars == <<disk, recorded, mode, budget, reel, position, transcript, pc, verdict>>

-----------------------------------------------------------------------------

UpTo(S, n) == UNION {[1..k -> S] : k \in 0..n}
Turn == [text : UpTo(Chunks, 1), calls : UpTo(Tools, 2)]

Missing == [state |-> "missing", turns |-> <<>>]
Torn == [state |-> "torn", turns |-> <<>>]
Tape(turns) == [state |-> "whole", turns |-> turns]

Silence == [text |-> <<>>, calls |-> <<>>, failed |-> FALSE]

TypeOK ==
    /\ disk.state \in {"missing", "torn", "whole"} /\ disk.turns \in Seq(Turn)
    /\ mode \in {"replay", "record", "live"}
    /\ budget \in Budgets
    /\ reel \in Seq(Turn)
    /\ position \in 0..Len(disk.turns)
    /\ transcript \in [text : Seq(Chunks), calls : Seq(Tools), failed : BOOLEAN]
    /\ Len(transcript.calls) <= budget
    /\ pc \in {"asking", "closing", "ended"}
    /\ verdict \in {"none", "skipped", "broken", "failed", "graded"}

InitFor(budgets) ==
    /\ disk = Missing
    /\ recorded = [transcript |-> Silence, budget |-> 0]
    /\ mode = "replay" /\ budget \in budgets
    /\ reel = <<>> /\ position = 0
    /\ transcript = Silence
    /\ pc = "ended" /\ verdict = "none"

Init == InitFor(Budgets)

-----------------------------------------------------------------------------

\* CassetteLLMClient opens its file when it is made: a case without one is
\* skipped, and a file that is not JSON is an error of the test.
Start(m, b) ==
    /\ pc = "ended"
    /\ mode' = m /\ budget' = b
    /\ reel' = <<>> /\ position' = 0
    /\ transcript' = Silence
    /\ verdict' = IF m # "replay" \/ disk.state = "whole" THEN "none"
                  ELSE IF disk = Missing THEN "skipped" ELSE "broken"
    /\ pc' = IF verdict' = "none" THEN "asking" ELSE "ended"
    /\ UNCHANGED <<disk, recorded>>

\* run_agent with a complete reply: its text has been emitted; without calls it
\* is the answer, beyond the budget an Error, and otherwise the calls are made.
HearUnbounded(turn) ==
    /\ transcript' = [transcript EXCEPT !.text = @ \o turn.text, !.calls = @ \o turn.calls]
    /\ pc' = IF turn.calls = <<>> \/ Len(transcript.calls) >= budget THEN "closing" ELSE "asking"
    /\ UNCHANGED <<disk, recorded, mode, budget, verdict>>

Hear(turn) ==
    LET over == Len(transcript.calls) + Len(turn.calls) > budget
    IN  /\ transcript' = [text |-> transcript.text \o turn.text,
                          calls |-> IF over THEN transcript.calls ELSE transcript.calls \o turn.calls,
                          failed |-> over]
        /\ pc' = IF over \/ turn.calls = <<>> THEN "closing" ELSE "asking"
        /\ UNCHANGED <<disk, recorded, mode, budget, verdict>>

\* The turn ends with an Error, after the text of a reply that broke off.
Fail(text) ==
    /\ transcript' = [transcript EXCEPT !.text = @ \o text, !.failed = TRUE]
    /\ pc' = "closing"
    /\ UNCHANGED <<disk, recorded, mode, budget, reel, position, verdict>>

LiveTurn(turn) ==
    /\ pc = "asking" /\ mode # "replay"
    /\ reel' = IF mode = "record" THEN Append(reel, turn) ELSE reel
    /\ Hear(turn)
    /\ UNCHANGED position

\* The API fails, the reply has no end, or the time of the turn is spent.
LiveFails(text) ==
    /\ pc = "asking" /\ mode # "replay"
    /\ Fail(text)

ReplayTurn ==
    /\ pc = "asking" /\ mode = "replay" /\ position < Len(disk.turns)
    /\ Hear(disk.turns[position + 1])
    /\ position' = position + 1
    /\ UNCHANGED reel

\* The agent asks for more than was taped: CassetteMissing, which run_agent
\* reports as an Error like any other.
TapeRunsOutQuietly ==
    /\ pc = "asking" /\ mode = "replay" /\ position = Len(disk.turns)
    /\ Hear([text |-> <<>>, calls |-> <<>>])
    /\ UNCHANGED <<reel, position>>

TapeRunsOutSkipping ==
    /\ pc = "asking" /\ mode = "replay" /\ position = Len(disk.turns)
    /\ verdict' = "skipped" /\ pc' = "ended"
    /\ UNCHANGED <<disk, recorded, mode, budget, reel, position, transcript>>

TapeRunsOut ==
    /\ pc = "asking" /\ mode = "replay" /\ position = Len(disk.turns)
    /\ Fail(<<>>)

Outcome == IF transcript.failed THEN "failed" ELSE "graded"

\* The recorder saves whatever was taped, and the transcript is graded.
CloseBeforeAnswer ==
    /\ pc = "closing"
    /\ disk' = IF mode = "record" THEN Tape(SubSeq(reel, 1, Len(reel) - 1)) ELSE disk
    /\ recorded' = IF mode = "record" THEN [transcript |-> transcript, budget |-> budget]
                   ELSE recorded
    /\ pc' = "ended" /\ verdict' = Outcome
    /\ UNCHANGED <<mode, budget, reel, position, transcript>>

Close ==
    /\ pc = "closing"
    /\ disk' = IF mode = "record" THEN Tape(reel) ELSE disk
    /\ recorded' = IF mode = "record" THEN [transcript |-> transcript, budget |-> budget]
                   ELSE recorded
    /\ pc' = "ended" /\ verdict' = Outcome
    /\ UNCHANGED <<mode, budget, reel, position, transcript>>

\* The process is killed: nothing is saved, or half the file is written.
Killed ==
    /\ pc # "ended"
    /\ \/ UNCHANGED disk
       \/ pc = "closing" /\ mode = "record" /\ disk' = Torn
    /\ position' = 0
    /\ pc' = "ended"
    /\ UNCHANGED <<recorded, mode, budget, reel, transcript, verdict>>

Next ==
    \/ \E m \in {"replay", "record", "live"}, b \in Budgets : Start(m, b)
    \/ \E turn \in Turn : LiveTurn(turn)
    \/ \E text \in UpTo(Chunks, 1) : LiveFails(text)
    \/ ReplayTurn \/ TapeRunsOut \/ Close \/ Killed

Spec == Init /\ [][Next]_vars

-----------------------------------------------------------------------------
(* A replay that is graded is graded on what the recorded run said and did, *)
(* and that run had no error: a recording that broke off, ran out of time or*)
(* out of budget, or was never finished, is surfaced "rather than silently  *)
(* ending the conversation" (cassette.py:114).                              *)
ReplayTellsRecording ==
    mode = "replay" /\ verdict = "graded" =>
        disk.state = "whole" /\ transcript = recorded.transcript

(* CI replays "for determinism" (cassette.py:3): a run that was recorded    *)
(* without an error never fails in replay while the budget is no smaller.   *)
CleanTapeReplays ==
    /\ mode = "replay" /\ verdict = "failed"
    /\ ~recorded.transcript.failed
    => budget < recorded.budget

(* "A case with no cassette is skipped, not failed" (runner.py:14), and no  *)
(* other case is skipped: behaviour that has changed never looks like a     *)
(* missing recording.                                                       *)
SkippedMeansUnrecorded == verdict = "skipped" => disk = Missing
=============================================================================
