------------------------------- MODULE Grading -------------------------------
(***************************************************************************)
(* grade_tools of evals/grading.py: the calls an agent made are compared   *)
(* with those a case expects, in one of three modes.  The two loops take   *)
(* the expectations one by one and choose a call for each, for good; what  *)
(* they compute is stated apart from them, as the existence of a pairing.  *)
(*                                                                         *)
(* An argument pattern is the set of arguments it accepts (match_arg); a   *)
(* call that lacks an expected argument has one that nothing accepts.      *)
(***************************************************************************)
EXTENDS Naturals, Sequences

CONSTANTS
    Names,         \* tool names
    Args,          \* what a call may carry
    MaxExpected,   \* bound: expectations of a case
    MaxActual,     \* bound: calls of a transcript
    NoCeiling      \* max_tools is not set

ASSUME GradingAssumption ==
    MaxExpected \in Nat /\ MaxActual \in Nat /\ NoCeiling \notin Nat

VARIABLES
    case,        \* expected calls, mode, ceiling and forbidden tools
    actual,      \* the calls made
    handled,     \* expectations the loop is done with
    cursor,      \* ordered: the last call taken
    remaining,   \* set: the calls not taken yet
    failed,      \* whether there are problems
    graded       \* grade_tools has returned

vars == <<case, actual, handled, cursor, remaining, failed, graded>>

-----------------------------------------------------------------------------

Call == [name : Names, arg : Args]
Expectation == [name : Names, accepts : SUBSET Args]
Modes == {"exact", "set", "ordered"}
SeqUpTo(S, n) == UNION {[1..k -> S] : k \in 0..n}

Case == [expected : SeqUpTo(Expectation, MaxExpected), mode : Modes,
         ceiling : 0..MaxActual \cup {NoCeiling}, forbidden : SUBSET Names]

Expected == case.expected
Wanted == 1..Len(Expected)
Made == 1..Len(actual)

TypeOK ==
    /\ case \in Case
    /\ actual \in SeqUpTo(Call, MaxActual)
    /\ handled \in 0..Len(Expected)
    /\ cursor \in 0..Len(actual)
    /\ remaining \subseteq Made
    /\ failed \in BOOLEAN /\ graded \in BOOLEAN

-----------------------------------------------------------------------------
(* Before the loops.                                                        *)

SameName(e, i) == Expected[e].name = actual[i].name
Satisfies(e, i) == SameName(e, i) /\ actual[i].arg \in Expected[e].accepts

WithinLimits ==
    /\ case.ceiling = NoCeiling \/ Len(actual) <= case.ceiling
    /\ \A i \in Made : actual[i].name \notin case.forbidden

SameSequence == Wanted = Made /\ \A e \in Wanted : SameName(e, e)

\* sorted(names) = sorted(names): some pairing of equal names uses up both.
Bijections == {f \in [Wanted -> Made] :
                  /\ \A d, e \in Wanted : f[d] = f[e] => d = e
                  /\ \A i \in Made : \E e \in Wanted : f[e] = i}
SameMultiset == \E f \in Bijections : \A e \in Wanted : SameName(e, f[e])

\* What the exact mode and the name checks find at once.
FailedAtOnce ==
    \/ ~WithinLimits
    \/ case.mode = "exact" /\ ~(SameSequence /\ \A e \in Wanted : Satisfies(e, e))
    \/ case.mode = "set" /\ ~SameMultiset

InitFor(cases, transcripts) ==
    /\ case \in cases
    /\ actual \in transcripts
    /\ handled = 0 /\ cursor = 0
    /\ remaining = Made
    /\ failed = FailedAtOnce
    /\ graded = FALSE

Init == InitFor(Case, SeqUpTo(Call, MaxActual))

-----------------------------------------------------------------------------
(* The loops.                                                               *)

First(S) == CHOOSE i \in S : \A j \in S : i <= j

\* "Pair each expectation with a call that satisfies it."
PairByName ==
    /\ ~graded /\ case.mode = "set" /\ SameMultiset
    /\ handled < Len(Expected)
    /\ LET e == handled + 1
           hits == {i \in remaining : SameName(e, i)}
       IN  /\ failed' = (failed \/ hits = {})
           /\ remaining' = IF hits = {} THEN remaining ELSE remaining \ {First(hits)}
    /\ handled' = handled + 1
    /\ UNCHANGED <<case, actual, cursor, graded>>

Pair ==
    /\ ~graded /\ case.mode = "set" /\ SameMultiset
    /\ handled < Len(Expected)
    /\ LET e == handled + 1
           hits == {i \in remaining : Satisfies(e, i)}
           named == {i \in remaining : SameName(e, i)}
       IN  /\ failed' = (failed \/ hits = {})
           /\ remaining' = IF hits # {} THEN remaining \ {First(hits)}
                           ELSE IF named # {} THEN remaining \ {First(named)}
                           ELSE remaining
    /\ handled' = handled + 1
    /\ UNCHANGED <<case, actual, cursor, graded>>

\* The next call that satisfies the whole expectation; failing that, the next
\* of its name; failing that, the loop is left.
ScanNamesOnly ==
    /\ ~graded /\ case.mode = "ordered"
    /\ handled < Len(Expected)
    /\ LET e == handled + 1
           named == {i \in Made : i > cursor /\ SameName(e, i)}
       IN  /\ failed' = (failed \/ named = {} \/ ~Satisfies(e, First(named)))
           /\ cursor' = IF named # {} THEN First(named) ELSE cursor
           /\ handled' = IF named # {} THEN e ELSE Len(Expected)
    /\ UNCHANGED <<case, actual, remaining, graded>>

Scan ==
    /\ ~graded /\ case.mode = "ordered"
    /\ handled < Len(Expected)
    /\ LET e == handled + 1
           hits == {i \in Made : i > cursor /\ Satisfies(e, i)}
           named == {i \in Made : i > cursor /\ SameName(e, i)}
       IN  /\ failed' = (failed \/ hits = {})
           /\ cursor' = IF hits # {} THEN First(hits)
                        ELSE IF named # {} THEN First(named) ELSE cursor
           /\ handled' = IF named # {} THEN e ELSE Len(Expected)
    /\ UNCHANGED <<case, actual, remaining, graded>>

Return ==
    /\ ~graded
    /\ \/ case.mode = "exact"
       \/ case.mode = "set" /\ ~SameMultiset
       \/ handled = Len(Expected)
    /\ graded' = TRUE
    /\ UNCHANGED <<case, actual, handled, cursor, remaining, failed>>

Next == Pair \/ Scan \/ Return

Spec == Init /\ [][Next]_vars

-----------------------------------------------------------------------------
(* What the modes mean: a pairing of every expectation with a call of its   *)
(* own that satisfies it; in order, for `ordered`; of all calls, for `set`; *)
(* position by position, for `exact`.                                       *)

Increasing(f) == \A d, e \in Wanted : d < e => f[d] < f[e]

Pairing(f) == \A e \in Wanted : Satisfies(e, f[e])

Matches ==
    CASE case.mode = "exact" -> Wanted = Made /\ Pairing([e \in Wanted |-> e])
      [] case.mode = "set" -> \E f \in Bijections : Pairing(f)
      [] case.mode = "ordered" -> \E f \in [Wanted -> Made] : Increasing(f) /\ Pairing(f)

Passed == graded /\ ~failed

(* A case never passes without a full pairing, whatever order the calls     *)
(* came in and whichever the loops took first.                              *)
PassMeansMatch == Passed => WithinLimits /\ Matches

(* In order, taking the earliest call that fits loses nothing: "a model     *)
(* that fans out ... is still matched against the call the case meant"      *)
(* (grading.py:261).                                                        *)
OrderedMatchPasses ==
    graded /\ case.mode # "set" /\ WithinLimits /\ Matches => ~failed

(* "Pair each expectation with a call that satisfies it, not merely the     *)
(* first one sharing its name" (grading.py:243): when there is such a       *)
(* pairing, the case passes.                                                *)
SetMatchPasses ==
    graded /\ case.mode = "set" /\ WithinLimits /\ Matches => ~failed
=============================================================================
