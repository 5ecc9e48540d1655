------------------------------- MODULE MCParts -------------------------------
(* One TLC instance for four small parts that share no state with each      *)
(* other or with the rest, Grading among them: a behaviour is of one of     *)
(* them, and the other three stay as they start.                            *)
EXTENDS Grading

CONSTANTS
    Values, MaxText,                                      \* SseReader
    Chunks, Tools, Budgets,                               \* Cassette
    Accounts, Nobody, Slots, TTL, Lifetime, MaxTime, MaxTokens   \* TokenGate

\* The first line makes the cases below cases of Grading: a name to forbid, room
\* for one expectation, calls enough for a ceiling of 2.
ASSUME PartsAssumption ==
    /\ Names # {} /\ MaxExpected >= 1 /\ MaxActual >= 2
    /\ MaxText \in Nat /\ Values \cap {"data", "junk", "nl"} = {}
    /\ Budgets \subseteq Nat /\ Budgets # {}
    /\ Nobody \notin Accounts
    /\ TTL \in Nat \ {0} /\ Lifetime \in Nat \ {0}
    /\ MaxTime \in Nat /\ MaxTokens \in Nat

VARIABLES
    part,                                                         \* who moves
    text, received, buffer, yielded, ended,                       \* SseReader
    disk, recorded, mode, budget, reel, position, transcript, pc, verdict,
                                                                  \* Cassette
    now, created, present, tokens, known, requests                \* TokenGate

Sse == INSTANCE SseReader
Tape == INSTANCE Cassette
Gate == INSTANCE TokenGate

sse == <<text, received, buffer, yielded, ended>>
cassette == <<disk, recorded, mode, budget, reel, position, transcript, pc, verdict>>
gate == <<now, created, present, tokens, known, requests>>

partsVars == <<part, sse, vars, cassette, gate>>

\* Expectations that accept something; the ceiling and the forbidden tools,
\* which the loops do not look at, are set where there is one at most.
CasesWith(n, ceilings, forbidden) ==
    [expected : SeqUpTo([name : Names, accepts : SUBSET Args \ {{}}], n),
     mode : Modes, ceiling : ceilings, forbidden : forbidden]

Cases == CasesWith(MaxExpected, {NoCeiling}, {{}})
           \cup CasesWith(1, {NoCeiling, 2}, {{}, {CHOOSE n \in Names : TRUE}})

NoCase == [expected |-> <<>>, mode |-> "set", ceiling |-> NoCeiling, forbidden |-> {}]

PartsInit ==
    /\ part \in {"sse", "grading", "cassette", "gate"}
    /\ Sse!InitFor(IF part = "sse" THEN Sse!Bodies ELSE {<<>>})
    /\ IF part = "grading" THEN InitFor(Cases, SeqUpTo(Call, MaxActual))
                           ELSE InitFor({NoCase}, {<<>>})
    /\ Tape!InitFor(IF part = "cassette" THEN Budgets ELSE {CHOOSE b \in Budgets : TRUE})
    /\ Gate!Init

PartsNext ==
    \/ /\ part = "sse" /\ Sse!Next
       /\ UNCHANGED <<part, vars, cassette, gate>>
    \/ /\ part = "grading" /\ Next
       /\ UNCHANGED <<part, sse, cassette, gate>>
    \/ /\ part = "cassette" /\ Tape!Next
       /\ UNCHANGED <<part, sse, vars, gate>>
    \/ /\ part = "gate" /\ Gate!Next
       /\ UNCHANGED <<part, sse, vars, cassette>>

PartsSpec == PartsInit /\ [][PartsNext]_partsVars

-----------------------------------------------------------------------------
(* The properties of the other three, each explained in its part's module.  *)

\* The part that moves; the others are as they started.
PartsTypeOK ==
    CASE part = "sse" -> Sse!TypeOK
      [] part = "grading" -> TypeOK
      [] part = "cassette" -> Tape!TypeOK
      [] part = "gate" -> Gate!TypeOK

(* api.ts apiStream: every event the server wrote, wherever chunks are cut. *)
EveryEventDelivered == part = "sse" => Sse!EveryEventDelivered

(* cassette.py, runner.py: a graded replay says what was recorded.          *)
ReplayTellsRecording == Tape!ReplayTellsRecording

(* cassette.py: a run recorded without an error replays without one.        *)
CleanTapeReplays == Tape!CleanTapeReplays

(* runner.py: only a case that was never recorded is skipped.               *)
SkippedMeansUnrecorded == Tape!SkippedMeansUnrecorded

(* deps.py get_current_user: nobody is let in after the account is gone.    *)
AcceptedExisted == Gate!AcceptedExisted

(* deps.py get_current_user: nobody is turned away without a reason.        *)
RefusedWithReason == Gate!RefusedWithReason

(* deps.py get_current_user: a user or a 401, which the cache can break.    *)
ResolvesOrRefuses == Gate!ResolvesOrRefuses
=============================================================================
