----------------------------- MODULE PartsProofs -----------------------------
(* Proofs about the parts of MCParts, for any values of the constants: that *)
(* a case passes only with a full pairing and in order the greedy choice    *)
(* finds one (Grading); that nobody is accepted without an account and      *)
(* nobody refused without a reason, whatever the cache holds (TokenGate);   *)
(* that a graded replay tells what was recorded (Cassette); that every      *)
(* event is delivered, wherever the chunks are cut (SseReader); and so of   *)
(* the behaviours of all of them side by side.                              *)
EXTENDS MCParts, FiniteSets, SequenceTheorems, FiniteSetTheorems, WellFoundedInduction, TLAPS

-----------------------------------------------------------------------------
(* Grading.                                                                 *)

\* First picks the least.
LEMMA FirstIsLeast ==
    ASSUME NEW S, S \subseteq Nat, S # {}
    PROVE  First(S) \in S /\ \A j \in S : First(S) <= j
  <1> DEFINE R == OpToRel(<, Nat)
  <1>1. IsWellFoundedOn(R, Nat)
    BY NatLessThanWellFounded
  <1>2. PICK i \in S : \A j \in S : ~(<<j, i>> \in R)
    <2> HIDE DEF R
    <2> QED
      BY <1>1, WFMin
  <1>3. \A j \in S : i <= j
    <2> SUFFICES ASSUME NEW j \in S, j < i PROVE FALSE
      OBVIOUS
    <2>1. <<j, i>> \in R
      BY DEF OpToRel
    <2> QED
      BY <1>2, <2>1
  <1> QED
    BY <1>3 DEF First

-----------------------------------------------------------------------------
(* Types.                                                                   *)

\* A function on 1..k is a sequence of length k.
LEMMA UpToIsSeq ==
    ASSUME NEW S, NEW n \in Nat, NEW s \in SeqUpTo(S, n)
    PROVE  s \in Seq(S) /\ Len(s) \in Nat
  <1>1. PICK k \in 0..n : s \in [1..k -> S]
    BY DEF SeqUpTo
  <1>2. s \in Seq(S)
    BY <1>1, SeqDef
  <1> QED
    BY <1>2, LenProperties

LEMMA Sizes ==
    TypeOK => /\ Len(Expected) \in Nat /\ Len(actual) \in Nat
              /\ case.mode \in Modes
  <1> SUFFICES ASSUME TypeOK
               PROVE  Len(Expected) \in Nat /\ Len(actual) \in Nat /\ case.mode \in Modes
    OBVIOUS
  <1>1. case \in Case /\ actual \in SeqUpTo(Call, MaxActual)
    BY DEF TypeOK
  <1>2. Expected \in SeqUpTo(Expectation, MaxExpected) /\ case.mode \in Modes
    BY <1>1 DEF Case, Expected
  <1> QED
    BY <1>1, <1>2, UpToIsSeq, GradingAssumption

LEMMA InitTyped == Init => TypeOK
  <1> SUFFICES ASSUME Init PROVE TypeOK
    OBVIOUS
  <1>1. case \in Case /\ actual \in SeqUpTo(Call, MaxActual)
    BY DEF Init, InitFor
  <1>2. Expected \in SeqUpTo(Expectation, MaxExpected)
    BY <1>1 DEF Case, Expected
  <1>3. Len(Expected) \in Nat /\ Len(actual) \in Nat
    BY <1>1, <1>2, UpToIsSeq, GradingAssumption
  <1>4. failed \in BOOLEAN
    <2>1. failed = FailedAtOnce
      BY DEF Init, InitFor
    <2>2. FailedAtOnce \in BOOLEAN
      BY DEF FailedAtOnce
    <2> QED
      BY <2>1, <2>2
  <1>5. handled = 0 /\ cursor = 0 /\ remaining = Made /\ graded = FALSE
    BY DEF Init, InitFor
  <1>6. handled \in 0..Len(Expected) /\ cursor \in 0..Len(actual)
    BY <1>3, <1>5
  <1>7. remaining \subseteq Made /\ graded \in BOOLEAN
    BY <1>5
  <1> QED
    BY <1>1, <1>4, <1>6, <1>7 DEF TypeOK

LEMMA TypeKept == TypeOK /\ [Next]_vars => TypeOK'
  <1> SUFFICES ASSUME TypeOK, [Next]_vars PROVE TypeOK'
    OBVIOUS
  <1>0. Len(Expected) \in Nat /\ Len(actual) \in Nat
    BY Sizes
  <1>1. CASE Pair
    <2>1. UNCHANGED <<case, actual, cursor, graded>> /\ handled' = handled + 1
          /\ handled < Len(Expected)
      BY <1>1 DEF Pair
    <2>2. remaining' \subseteq remaining
      BY <1>1 DEF Pair
    <2>3. failed' \in BOOLEAN
      BY <1>1 DEF Pair, TypeOK
    <2> QED
      BY <1>0, <2>1, <2>2, <2>3 DEF TypeOK, Expected, Made
  <1>2. CASE Scan
    <2> DEFINE e == handled + 1
               hits == {i \in Made : i > cursor /\ Satisfies(e, i)}
               named == {i \in Made : i > cursor /\ SameName(e, i)}
    <2>1. /\ UNCHANGED <<case, actual, remaining, graded>> /\ handled < Len(Expected)
          /\ handled' \in {e, Len(Expected)}
          /\ \/ hits # {} /\ cursor' = First(hits)
             \/ named # {} /\ cursor' = First(named)
             \/ cursor' = cursor
      BY <1>2 DEF Scan
    <2>2. hits \subseteq Nat /\ named \subseteq Nat /\ hits \subseteq Made /\ named \subseteq Made
      BY DEF Made
    <2>3. cursor' \in Made \cup {cursor}
      BY <2>1, <2>2, FirstIsLeast
    <2>4. failed' \in BOOLEAN
      BY <1>2 DEF Scan, TypeOK
    <2>5. cursor' \in 0..Len(actual) /\ handled' \in 0..Len(Expected)
      BY <1>0, <2>1, <2>3 DEF TypeOK, Made
    <2> QED
      BY <2>1, <2>4, <2>5 DEF TypeOK, Expected, Made
  <1>3. CASE Return
    BY <1>3 DEF Return, TypeOK, Expected, Made
  <1>4. CASE UNCHANGED vars
    BY <1>4 DEF vars, TypeOK, Expected, Made
  <1> QED
    BY <1>1, <1>2, <1>3, <1>4 DEF Next

-----------------------------------------------------------------------------
(* The case and the transcript stay as they are, and so does what is        *)
(* computed from them.                                                      *)

LEMMA Frame ==
    ASSUME [Next]_vars
    PROVE  /\ case' = case /\ actual' = actual
           /\ Expected' = Expected /\ Wanted' = Wanted /\ Made' = Made
           /\ WithinLimits' <=> WithinLimits
           /\ FailedAtOnce' <=> FailedAtOnce
           /\ SameMultiset' <=> SameMultiset
           /\ \A e, i : Satisfies(e, i)' <=> Satisfies(e, i)
  <1>1. case' = case /\ actual' = actual
    BY DEF Next, Pair, Scan, Return, vars
  <1>2. Expected' = Expected
    BY <1>1 DEF Expected
  <1>3. Wanted' = Wanted /\ Made' = Made
    BY <1>1, <1>2 DEF Wanted, Made
  <1>4. \A e, i : SameName(e, i)' <=> SameName(e, i)
    BY <1>1, <1>2 DEF SameName
  <1>5. \A e, i : Satisfies(e, i)' <=> Satisfies(e, i)
    BY <1>1, <1>2, <1>4 DEF Satisfies
  <1>6. WithinLimits' <=> WithinLimits
    BY <1>1, <1>3 DEF WithinLimits
  <1>7. SameMultiset' <=> SameMultiset
    <2>1. Bijections' = Bijections
      BY <1>3 DEF Bijections
    <2> QED
      BY <1>3, <1>4, <2>1 DEF SameMultiset
  <1>8. SameSequence' <=> SameSequence
    BY <1>3, <1>4 DEF SameSequence
  <1>9. FailedAtOnce' <=> FailedAtOnce
    BY <1>1, <1>3, <1>5, <1>6, <1>7, <1>8 DEF FailedAtOnce
  <1> QED
    BY <1>1, <1>2, <1>3, <1>5, <1>6, <1>7, <1>9

-----------------------------------------------------------------------------
(* The inductive invariant: what the loops have done so far.                *)

\* As long as nothing has failed, the expectations handled have calls of their
\* own, among those taken.
SetPaired ==
    case.mode = "set" /\ ~failed =>
        \E f \in [1..handled -> Made \ remaining] :
            /\ \A d, e \in 1..handled : f[d] = f[e] => d = e
            /\ \A e \in 1..handled : Satisfies(e, f[e])

\* In order, too, and up to the cursor.
OrderPaired ==
    case.mode = "ordered" /\ ~failed =>
        \E f \in [1..handled -> 1..cursor] :
            /\ \A d, e \in 1..handled : d < e => f[d] < f[e]
            /\ \A e \in 1..handled : Satisfies(e, f[e])

\* No pairing in order is ever ahead of the loop's.
Earliest ==
    case.mode = "ordered" /\ WithinLimits =>
        \A g \in [Wanted -> Made] : Increasing(g) /\ Pairing(g) =>
            /\ ~failed
            /\ handled = 0 => cursor = 0
            /\ handled # 0 => cursor <= g[handled]

Verdict ==
    /\ FailedAtOnce => failed
    /\ case.mode = "exact" => (failed <=> FailedAtOnce)
    /\ graded /\ case.mode # "exact" => handled = Len(Expected) \/ failed

IInv == TypeOK /\ SetPaired /\ OrderPaired /\ Earliest /\ Verdict

LEMMA InitHolds == Init => IInv
  <1> SUFFICES ASSUME Init PROVE IInv
    OBVIOUS
  <1>0. handled = 0 /\ graded = FALSE /\ cursor = 0
    BY DEF Init, InitFor
  <1>1. TypeOK
    BY InitTyped
  <1>2. failed <=> FailedAtOnce
    BY DEF Init, InitFor
  <1>3. SetPaired
    <2> DEFINE f == [e \in 1..0 |-> 0]
    <2>1. f \in [1..0 -> Made \ remaining] /\ \A e \in 1..0 : FALSE
      OBVIOUS
    <2> HIDE DEF f
    <2> QED
      BY <1>0, <2>1 DEF SetPaired
  <1>4. OrderPaired
    <2> DEFINE f == [e \in 1..0 |-> 0]
    <2>1. f \in [1..0 -> 1..0] /\ \A e \in 1..0 : FALSE
      OBVIOUS
    <2> HIDE DEF f
    <2> QED
      BY <1>0, <2>1 DEF OrderPaired
  <1>5. Earliest
    <2> SUFFICES ASSUME case.mode = "ordered", WithinLimits PROVE ~failed
      BY <1>0 DEF Earliest
    <2> QED
      BY <1>2 DEF FailedAtOnce
  <1>6. Verdict
    BY <1>0, <1>2 DEF Verdict
  <1> QED
    BY <1>1, <1>3, <1>4, <1>5, <1>6 DEF IInv

LEMMA PairKeeps ==
    IInv /\ Pair => SetPaired' /\ OrderPaired' /\ Earliest' /\ Verdict'
  <1> SUFFICES ASSUME IInv, Pair PROVE SetPaired' /\ OrderPaired' /\ Earliest' /\ Verdict'
    OBVIOUS
  <1> DEFINE e == handled + 1
             hits == {i \in remaining : Satisfies(e, i)}
  <1>1. /\ ~graded /\ case.mode = "set" /\ graded' = graded
        /\ failed' = (failed \/ hits = {})
        /\ hits # {} => remaining' = remaining \ {First(hits)}
        /\ handled' = e
    BY DEF Pair
  <1>2. /\ case' = case /\ Made' = Made /\ Expected' = Expected
        /\ (FailedAtOnce' <=> FailedAtOnce)
        /\ \A d, i : Satisfies(d, i)' <=> Satisfies(d, i)
    BY Frame DEF Next
  <1>3. handled \in Nat /\ remaining \subseteq Made
    <2>1. Len(Expected) \in Nat
      BY Sizes DEF IInv
    <2> QED
      BY <2>1 DEF IInv, TypeOK
  <1>4. SetPaired'
    <2> SUFFICES ASSUME ~failed'
                 PROVE  (\E f \in [1..handled -> Made \ remaining] :
                            /\ \A d, b \in 1..handled : f[d] = f[b] => d = b
                            /\ \A b \in 1..handled : Satisfies(b, f[b]))'
      BY DEF SetPaired
    <2>1. ~failed /\ hits # {}
      BY <1>1
    <2>2. PICK f \in [1..handled -> Made \ remaining] :
              /\ \A d, b \in 1..handled : f[d] = f[b] => d = b
              /\ \A b \in 1..handled : Satisfies(b, f[b])
      BY <1>1, <2>1 DEF IInv, SetPaired
    <2> DEFINE i == First(hits)
               g == [b \in 1..e |-> IF b = e THEN i ELSE f[b]]
    <2>3. i \in hits
      <3>0. Made \subseteq Nat
        BY DEF Made
      <3>1. hits \subseteq Nat
        BY <1>3, <3>0
      <3> HIDE DEF hits
      <3> QED
        BY <2>1, <3>1, FirstIsLeast
    <2> HIDE DEF i
    <2>4. i \in remaining /\ i \in Made /\ Satisfies(e, i)
      BY <1>3, <2>3
    <2>5. remaining' = remaining \ {i}
      BY <1>1, <2>1 DEF i
    <2>6. \A b \in 1..e : b = e \/ b \in 1..handled
      BY <1>3
    <2>7. g \in [1..e -> Made \ remaining']
      BY <2>2, <2>4, <2>5, <2>6
    <2>8. \A d, b \in 1..e : g[d] = g[b] => d = b
      BY <2>2, <2>4, <2>6
    <2>9. \A b \in 1..e : Satisfies(b, g[b])
      BY <2>2, <2>4, <2>6
    <2> HIDE DEF g
    <2> QED
      BY <1>1, <1>2, <2>7, <2>8, <2>9
  <1>5. OrderPaired' /\ Earliest'
    BY <1>1, <1>2 DEF OrderPaired, Earliest
  <1>6. Verdict'
    BY <1>1, <1>2 DEF IInv, Verdict
  <1> QED
    BY <1>4, <1>5, <1>6

LEMMA ScanKeeps ==
    IInv /\ Scan => SetPaired' /\ OrderPaired' /\ Earliest' /\ Verdict'
  <1> SUFFICES ASSUME IInv, Scan PROVE SetPaired' /\ OrderPaired' /\ Earliest' /\ Verdict'
    OBVIOUS
  <1> DEFINE e == handled + 1
             hits == {i \in Made : i > cursor /\ Satisfies(e, i)}
             named == {i \in Made : i > cursor /\ SameName(e, i)}
  <1>1. /\ ~graded /\ case.mode = "ordered" /\ graded' = graded
        /\ handled < Len(Expected)
        /\ failed' = (failed \/ hits = {})
        /\ hits # {} => cursor' = First(hits)
        /\ named # {} => handled' = e
    BY DEF Scan
  <1>2. /\ case' = case /\ Made' = Made /\ Wanted' = Wanted /\ Expected' = Expected
        /\ (WithinLimits' <=> WithinLimits)
        /\ (FailedAtOnce' <=> FailedAtOnce)
        /\ \A d, i : Satisfies(d, i)' <=> Satisfies(d, i)
    BY Frame DEF Next
  <1>3. handled \in Nat /\ cursor \in Nat /\ cursor <= Len(actual)
        /\ Len(Expected) \in Nat /\ Len(actual) \in Nat
    <2>1. Len(Expected) \in Nat /\ Len(actual) \in Nat
      BY Sizes DEF IInv
    <2> QED
      BY <2>1 DEF IInv, TypeOK
  <1>4. ASSUME hits # {}
        PROVE  /\ First(hits) \in Made /\ First(hits) > cursor /\ Satisfies(e, First(hits))
               /\ \A j \in hits : First(hits) <= j
               /\ cursor' = First(hits) /\ handled' = e
    <2>1. hits \subseteq Nat /\ hits \subseteq Made
      BY DEF Made
    <2>2. First(hits) \in hits /\ \A j \in hits : First(hits) <= j
      <3> HIDE DEF hits
      <3> QED
        BY <1>4, <2>1, FirstIsLeast
    <2>3. named # {}
      BY <1>4 DEF Satisfies
    <2> QED
      BY <1>1, <1>4, <2>2, <2>3
  <1>5. OrderPaired'
    <2> SUFFICES ASSUME ~failed'
                 PROVE  (\E f \in [1..handled -> 1..cursor] :
                            /\ \A d, b \in 1..handled : d < b => f[d] < f[b]
                            /\ \A b \in 1..handled : Satisfies(b, f[b]))'
      BY DEF OrderPaired
    <2>1. ~failed /\ hits # {}
      BY <1>1
    <2>2. PICK f \in [1..handled -> 1..cursor] :
              /\ \A d, b \in 1..handled : d < b => f[d] < f[b]
              /\ \A b \in 1..handled : Satisfies(b, f[b])
      BY <1>1, <2>1 DEF IInv, OrderPaired
    <2> DEFINE i == First(hits)
               g == [b \in 1..e |-> IF b = e THEN i ELSE f[b]]
    <2>3. i \in Nat /\ i > cursor /\ Satisfies(e, i) /\ cursor' = i /\ handled' = e
      BY <1>3, <1>4, <2>1 DEF Made
    <2> HIDE DEF i
    <2>4. \A b \in 1..e : b \in Nat /\ (b = e \/ b \in 1..handled)
      BY <1>3
    <2>5. \A b \in 1..handled : f[b] \in Nat /\ 1 <= f[b] /\ f[b] <= cursor
      BY <1>3, <2>2
    <2>6. g \in [1..e -> 1..i]
      BY <1>3, <2>3, <2>4, <2>5
    <2>7. \A d, b \in 1..e : d < b => g[d] < g[b]
      BY <1>3, <2>2, <2>3, <2>4, <2>5
    <2>8. \A b \in 1..e : Satisfies(b, g[b])
      BY <2>2, <2>3, <2>4
    <2> HIDE DEF g
    <2> QED
      BY <1>2, <2>3, <2>6, <2>7, <2>8
  <1>6. Earliest'
    <2> SUFFICES ASSUME WithinLimits',
                        NEW g \in [Wanted' -> Made'], Increasing(g)', Pairing(g)'
                 PROVE  (/\ ~failed
                         /\ handled = 0 => cursor = 0
                         /\ handled # 0 => cursor <= g[handled])'
      BY DEF Earliest
    <2>1. g \in [Wanted -> Made] /\ Increasing(g) /\ Pairing(g)
      BY <1>2 DEF Increasing, Pairing
    <2>2. ~failed /\ (handled = 0 => cursor = 0) /\ (handled # 0 => cursor <= g[handled])
      BY <1>1, <1>2, <2>1 DEF IInv, Earliest
    <2>3. e \in Wanted /\ g[e] \in Made /\ g[e] \in Nat
      BY <1>1, <1>3, <2>1 DEF Wanted, Made
    <2>4. g[e] > cursor
      <3>1. CASE handled = 0
        BY <2>2, <2>3, <3>1 DEF Made
      <3>2. CASE handled # 0
        <4>1. handled \in Wanted /\ handled < e
          BY <1>1, <1>3, <3>2 DEF Wanted
        <4>2. g[handled] < g[e] /\ g[handled] \in Nat
          BY <1>3, <2>1, <2>3, <4>1 DEF Increasing, Made
        <4> QED
          BY <1>3, <2>2, <2>3, <3>2, <4>2
      <3> QED
        BY <3>1, <3>2
    <2>5. Satisfies(e, g[e])
      BY <2>1, <2>3 DEF Pairing
    <2>6. g[e] \in hits
      BY <2>3, <2>4, <2>5
    <2>7. ~failed' /\ handled' = e /\ cursor' <= g[e]
      BY <1>1, <1>4, <2>2, <2>6
    <2> QED
      BY <1>3, <2>7
  <1>7. SetPaired'
    BY <1>1, <1>2 DEF SetPaired
  <1>8. Verdict'
    BY <1>1, <1>2 DEF IInv, Verdict
  <1> QED
    BY <1>5, <1>6, <1>7, <1>8

LEMMA ReturnKeeps ==
    IInv /\ (Return \/ UNCHANGED vars) => SetPaired' /\ OrderPaired' /\ Earliest' /\ Verdict'
  <1> SUFFICES ASSUME IInv, Return \/ UNCHANGED vars
               PROVE  SetPaired' /\ OrderPaired' /\ Earliest' /\ Verdict'
    OBVIOUS
  <1>1. /\ handled' = handled /\ cursor' = cursor /\ remaining' = remaining /\ failed' = failed
        /\ graded' => graded \/ case.mode = "exact" \/ (case.mode = "set" /\ ~SameMultiset)
                             \/ handled = Len(Expected)
    BY DEF Return, vars
  <1>2. /\ case' = case /\ Made' = Made /\ Wanted' = Wanted /\ Expected' = Expected
        /\ (WithinLimits' <=> WithinLimits)
        /\ (FailedAtOnce' <=> FailedAtOnce)
        /\ \A d, i : Satisfies(d, i)' <=> Satisfies(d, i)
    BY Frame DEF Next
  <1>3. SetPaired'
    BY <1>1, <1>2 DEF IInv, SetPaired
  <1>4. OrderPaired'
    BY <1>1, <1>2 DEF IInv, OrderPaired
  <1>5. Earliest'
    <2> SUFFICES ASSUME case.mode = "ordered", WithinLimits,
                        NEW g \in [Wanted -> Made], Increasing(g), Pairing(g)
                 PROVE  /\ ~failed
                        /\ handled = 0 => cursor = 0
                        /\ handled # 0 => cursor <= g[handled]
      BY <1>1, <1>2 DEF Earliest, Increasing, Pairing
    <2> QED
      BY DEF IInv, Earliest
  <1>6. Verdict'
    BY <1>1, <1>2 DEF IInv, Verdict, FailedAtOnce
  <1> QED
    BY <1>3, <1>4, <1>5, <1>6

LEMMA GradingKept == IInv /\ [Next]_vars => IInv'
  BY TypeKept, PairKeeps, ScanKeeps, ReturnKeeps DEF IInv, Next

(* What the loops have done so far, for every case and every transcript.    *)
THEOREM Invariance == Spec => []IInv
  <1>1. Init => IInv
    BY InitHolds
  <1>2. IInv /\ [Next]_vars => IInv'
    BY GradingKept
  <1> QED
    BY <1>1, <1>2, PTL DEF Spec

-----------------------------------------------------------------------------
(* A set of calls that is paired without repetition is paired in full.      *)
LEMMA InjectionIsBijection ==
    ASSUME TypeOK, SameMultiset,
           NEW f \in [Wanted -> Made], \A d, e \in Wanted : f[d] = f[e] => d = e
    PROVE  f \in Bijections
  <1>1. IsFiniteSet(Wanted) /\ IsFiniteSet(Made)
    BY Sizes, FS_Interval DEF Wanted, Made
  <1>2. PICK g \in Bijections : TRUE
    BY DEF SameMultiset
  <1>3. /\ g \in [Wanted -> Made]
        /\ \A d, e \in Wanted : g[d] = g[e] => d = e
        /\ \A i \in Made : \E e \in Wanted : g[e] = i
    BY DEF Bijections
  <1>4. g \in Injection(Wanted, Made) /\ g \in Surjection(Wanted, Made)
    BY <1>3 DEF Injection, Surjection, IsInjective
  <1>5. Cardinality(Wanted) = Cardinality(Made)
    BY <1>1, <1>4, FS_Injection
  <1>6. f \in Injection(Wanted, Made)
    BY DEF Injection, IsInjective
  <1>7. f \in Surjection(Wanted, Made)
    BY <1>1, <1>5, <1>6, FS_Injection
  <1> QED
    BY <1>7 DEF Surjection, Bijections

(* PassMeansMatch: no case passes without a full pairing.                   *)
THEOREM PassMatches == Spec => []PassMeansMatch
  <1>1. IInv => PassMeansMatch
    <2> SUFFICES ASSUME IInv, graded, ~failed PROVE WithinLimits /\ Matches
      BY DEF PassMeansMatch, Passed
    <2>1. ~FailedAtOnce
      BY DEF IInv, Verdict
    <2>2. WithinLimits
      BY <2>1 DEF FailedAtOnce
    <2>3. CASE case.mode = "exact"
      <3>1. Wanted = Made /\ \A e \in Wanted : Satisfies(e, e)
        BY <2>1, <2>3 DEF FailedAtOnce, SameSequence
      <3>2. Pairing([e \in Wanted |-> e])
        BY <3>1 DEF Pairing
      <3> QED
        BY <2>2, <2>3, <3>1, <3>2 DEF Matches
    <2>4. CASE case.mode = "set"
      <3>1. SameMultiset /\ handled = Len(Expected)
        BY <2>1, <2>4 DEF IInv, Verdict, FailedAtOnce
      <3>2. PICK f \in [Wanted -> Made] :
                /\ \A d, e \in Wanted : f[d] = f[e] => d = e
                /\ \A e \in Wanted : Satisfies(e, f[e])
        BY <2>4, <3>1 DEF IInv, SetPaired, Wanted
      <3>3. f \in Bijections
        BY <3>1, <3>2, InjectionIsBijection DEF IInv
      <3> QED
        BY <2>2, <2>4, <3>2, <3>3 DEF Matches, Pairing
    <2>5. CASE case.mode = "ordered"
      <3>1. handled = Len(Expected)
        BY <2>5 DEF IInv, Verdict
      <3>2. PICK f \in [Wanted -> 1..cursor] :
                /\ \A d, e \in Wanted : d < e => f[d] < f[e]
                /\ \A e \in Wanted : Satisfies(e, f[e])
        BY <2>5, <3>1 DEF IInv, OrderPaired, Wanted
      <3>3. 1..cursor \subseteq Made
        BY Sizes DEF IInv, TypeOK, Made
      <3>4. f \in [Wanted -> Made]
        BY <3>2, <3>3
      <3> QED
        BY <2>2, <2>5, <3>2, <3>4 DEF Matches, Pairing, Increasing
    <2> QED
      BY <2>3, <2>4, <2>5, Sizes DEF IInv, Modes
  <1> QED
    BY <1>1, Invariance, PTL

(* OrderedMatchPasses: in order, the greedy choice finds a pairing whenever *)
(* there is one.                                                            *)
THEOREM OrderedMatches == Spec => []OrderedMatchPasses
  <1>1. IInv => OrderedMatchPasses
    <2> SUFFICES ASSUME IInv, graded, case.mode # "set", WithinLimits, Matches PROVE ~failed
      BY DEF OrderedMatchPasses
    <2>1. CASE case.mode = "exact"
      <3>1. Wanted = Made /\ Pairing([e \in Wanted |-> e])
        BY <2>1 DEF Matches
      <3>2. \A e \in Wanted : Satisfies(e, e)
        BY <3>1 DEF Pairing
      <3>3. SameSequence
        BY <3>1, <3>2 DEF SameSequence, Satisfies
      <3> QED
        BY <2>1, <3>2, <3>3 DEF IInv, Verdict, FailedAtOnce
    <2>2. CASE case.mode = "ordered"
      <3>1. PICK f \in [Wanted -> Made] : Increasing(f) /\ Pairing(f)
        BY <2>2 DEF Matches
      <3> QED
        BY <2>2, <3>1 DEF IInv, Earliest
    <2> QED
      BY <2>1, <2>2, Sizes DEF IInv, Modes
  <1> QED
    BY <1>1, Invariance, PTL

-----------------------------------------------------------------------------
(* TokenGate.                                                               *)

\* What the proofs need to know of the constants.
Parameters ==
    /\ Nobody \notin Accounts
    /\ TTL \in Nat /\ Lifetime \in Nat /\ MaxTime \in Nat /\ MaxTokens \in Nat

-----------------------------------------------------------------------------
(* The inductive invariant.                                                 *)

\* Tokens are minted for accounts that have signed up, and ids are not reused:
\* an account that does not exist any more never will again.
MintedForCreated == \A t \in 1..Len(tokens) : tokens[t].account \in created

Passing == {"cached", "lookUp", "resume", "accepted"}

\* A request past the first two gates came with a token that was good then.
Presented(r) ==
    r.pc \in Passing =>
        /\ r.token \in 1..Len(tokens)
        /\ r.account = tokens[r.token].account
        /\ r.since < tokens[r.token].expires

\* And what the third gate found is still true of who came without an account.
LookedUp(r) ==
    /\ r.pc \in {"cached", "lookUp"} => r.existed \/ r.account \notin present
    /\ r.pc = "resume" => IF r.found THEN r.existed ELSE r.account \notin present
    /\ r.pc = "accepted" => r.existed

Refusal(r) ==
    r.pc = "refused" =>
        \/ r.token = Gate!Forged
        \/ /\ r.token \in 1..Len(tokens)
           /\ \/ tokens[r.token].expires <= now
              \/ tokens[r.token].account \notin present

\* A login waits for the password of somebody who has signed up.
Verifying(r) == r.pc = "verify" => r.account \in created

Gated(r) == Presented(r) /\ LookedUp(r) /\ Refusal(r) /\ Verifying(r)

GateIInv == Gate!TypeOK /\ MintedForCreated /\ \A s \in Slots : Gated(requests[s])

LEMMA GateInit == Parameters /\ Gate!Init => GateIInv
  <1> SUFFICES ASSUME Parameters, Gate!Init PROVE GateIInv
    OBVIOUS
  <1>1. Gate!Init
    OBVIOUS
  <1>2. Gate!NoRequest \in Gate!Request
    BY DEF Parameters, Gate!NoRequest, Gate!Request, Gate!Forged
  <1>3. Gate!TypeOK
    BY <1>1, <1>2 DEF Gate!Init, Gate!TypeOK, Parameters
  <1>4. Gated(Gate!NoRequest)
    BY DEF Gate!NoRequest, Gated, Presented, LookedUp, Refusal, Verifying, Passing
  <1>5. MintedForCreated
    BY <1>1 DEF Gate!Init, MintedForCreated
  <1> QED
    BY <1>1, <1>3, <1>4, <1>5 DEF GateIInv, Gate!Init

\* A test has an outcome.
LEMMA Noted == ASSUME NEW a, NEW S PROVE \E f \in BOOLEAN : f = (a \in S)
  <1>1. (a \in S) \in BOOLEAN
    OBVIOUS
  <1> QED
    BY <1>1

\* An entry of the cache that is set to expire no later than the others may.
LEMMA Entry ==
    ASSUME NEW n \in Nat, NEW k \in [Accounts -> Nat], NEW a, \A b \in Accounts : k[b] <= n
    PROVE  [k EXCEPT ![a] = n] \in [Accounts -> Nat]
           /\ \A b \in Accounts : [k EXCEPT ![a] = n][b] <= n
  <1>1. [k EXCEPT ![a] = n] \in [Accounts -> Nat]
    OBVIOUS
  <1>2. ASSUME NEW b \in Accounts PROVE [k EXCEPT ![a] = n][b] <= n
    <2>1. [k EXCEPT ![a] = n][b] = IF b = a THEN n ELSE k[b]
      OBVIOUS
    <2>2. k[b] <= n /\ k[b] \in Nat
      OBVIOUS
    <2> QED
      BY <2>1, <2>2
  <1> QED
    BY <1>1, <1>2

-----------------------------------------------------------------------------
(* What the steps do to the tables and to a request.                        *)

\* The tables only grow, except that accounts go and never come back.
Grown ==
    /\ now \in Nat /\ now' \in Nat /\ now <= now'
    /\ Len(tokens) \in Nat /\ Len(tokens') \in Nat /\ Len(tokens) <= Len(tokens')
    /\ \A t \in 1..Len(tokens) : tokens'[t] = tokens[t] /\ tokens[t] \in Gate!Token
    /\ created \subseteq created'
    /\ \A a \in created : a \in present' => a \in present

\* A request nobody touches stays as it should be while they do.
LEMMA Undisturbed ==
    ASSUME Grown, MintedForCreated, NEW r \in Gate!Request, Gated(r)
    PROVE  Gated(r)'
  <1>1. Presented(r)'
    BY DEF Grown, Gated, Presented
  <1>2. LookedUp(r)'
    BY DEF Grown, Gated, LookedUp, Presented, Passing, MintedForCreated
  <1>3. Refusal(r)'
    <2> SUFFICES ASSUME r.pc = "refused", r.token # Gate!Forged
                 PROVE  /\ r.token \in 1..Len(tokens')
                        /\ \/ tokens'[r.token].expires <= now'
                           \/ tokens'[r.token].account \notin present'
      BY DEF Refusal
    <2>1. /\ r.token \in 1..Len(tokens)
          /\ tokens[r.token].expires <= now \/ tokens[r.token].account \notin present
      BY DEF Gated, Refusal
    <2>2. tokens'[r.token] = tokens[r.token] /\ tokens[r.token].expires \in Nat
      BY <2>1 DEF Grown, Gate!Token
    <2> QED
      BY <2>1, <2>2 DEF Grown, MintedForCreated
  <1>4. Verifying(r)'
    BY DEF Grown, Gated, Verifying
  <1> QED
    BY <1>1, <1>2, <1>3, <1>4 DEF Gated

\* Nothing but the requests moves.
LEMMA StillGrown ==
    ASSUME GateIInv, Parameters, UNCHANGED <<now, created, tokens>>, present' \subseteq present
    PROVE  Grown
  <1>1. Len(tokens) \in Nat /\ \A t \in 1..Len(tokens) : tokens[t] \in Gate!Token
    BY ElementOfSeq, LenProperties DEF GateIInv, Gate!TypeOK
  <1> QED
    BY <1>1 DEF Grown, GateIInv, Gate!TypeOK, Parameters

\* Signing up and signing in mint a token.
LEMMA Minting ==
    ASSUME GateIInv, Parameters, NEW a \in Accounts, Len(tokens) < MaxTokens,
           tokens' = Gate!Minted(a), a \in created', created \subseteq created',
           UNCHANGED now,
           \A b \in created : b \in present' => b \in present
    PROVE  /\ Grown
           /\ tokens' \in Seq(Gate!Token) /\ Len(tokens') <= MaxTokens
           /\ MintedForCreated'
  <1> DEFINE new == [account |-> a, expires |-> now + Lifetime]
  <1>1. now \in Nat /\ new \in Gate!Token /\ new.account = a
    BY DEF GateIInv, Gate!TypeOK, Parameters, Gate!Token
  <1>2. tokens \in Seq(Gate!Token) /\ tokens' = Append(tokens, new)
    BY DEF GateIInv, Gate!TypeOK, Gate!Minted
  <1> HIDE DEF new
  <1>3. /\ tokens' \in Seq(Gate!Token) /\ Len(tokens) \in Nat /\ Len(tokens') = Len(tokens) + 1
        /\ \A t \in 1..Len(tokens) : tokens'[t] = tokens[t]
        /\ tokens'[Len(tokens) + 1] = new
    BY <1>1, <1>2, AppendProperties, LenProperties
  <1>4. \A t \in 1..Len(tokens) : tokens[t] \in Gate!Token
    BY <1>2, ElementOfSeq
  <1>5. Grown
    BY <1>1, <1>3, <1>4 DEF Grown
  <1>6. MintedForCreated'
    <2> SUFFICES ASSUME NEW t \in 1..Len(tokens') PROVE tokens'[t].account \in created'
      BY DEF MintedForCreated
    <2>1. CASE t \in 1..Len(tokens)
      BY <1>3, <2>1 DEF GateIInv, MintedForCreated
    <2>2. CASE t = Len(tokens) + 1
      BY <1>1, <1>3, <2>2
    <2> QED
      BY <1>3, <2>1, <2>2
  <1> QED
    BY <1>3, <1>5, <1>6 DEF Parameters

\* A step that changes one request at most, to one that is as it should be.
LEMMA OneRequest ==
    ASSUME GateIInv, Grown, NEW s \in Slots, NEW r \in Gate!Request, Gated(r)',
           requests' = [requests EXCEPT ![s] = r]
    PROVE  requests' \in [Slots -> Gate!Request] /\ \A t \in Slots : Gated(requests[t])'
  <1>1. requests' \in [Slots -> Gate!Request]
    BY DEF GateIInv, Gate!TypeOK
  <1>2. requests'[s] = r /\ \A t \in Slots \ {s} : requests'[t] = requests[t]
    BY DEF GateIInv, Gate!TypeOK
  <1>3. \A q \in Gate!Request : Gated(q) => Gated(q)'
    BY Undisturbed DEF GateIInv
  <1>4. ASSUME NEW t \in Slots \ {s} PROVE Gated(requests[t])'
    <2>1. PICK q \in Gate!Request : q = requests[t]
      BY DEF GateIInv, Gate!TypeOK
    <2>2. Gated(q)' /\ requests'[t] = q
      BY <1>2, <1>3, <2>1 DEF GateIInv
    <2> QED
      BY <2>2 DEF Gated, Presented, LookedUp, Refusal, Verifying
  <1>5. Gated(requests[s])'
    BY <1>2 DEF Gated, Presented, LookedUp, Refusal, Verifying
  <1> QED
    BY <1>1, <1>4, <1>5

LEMMA NoRequests ==
    ASSUME GateIInv, Grown, requests' = requests
    PROVE  \A t \in Slots : Gated(requests[t])'
  <1>1. \A q \in Gate!Request : Gated(q) => Gated(q)'
    BY Undisturbed DEF GateIInv
  <1> SUFFICES ASSUME NEW t \in Slots PROVE Gated(requests[t])'
    OBVIOUS
  <1>2. PICK q \in Gate!Request : q = requests[t]
    BY DEF GateIInv, Gate!TypeOK
  <1>3. Gated(q)' /\ requests'[t] = q
    BY <1>1, <1>2 DEF GateIInv
  <1> QED
    BY <1>3 DEF Gated, Presented, LookedUp, Refusal, Verifying

-----------------------------------------------------------------------------

\* A step on one request that leaves the rest of the state alone.
LEMMA Alone ==
    ASSUME GateIInv, Parameters, NEW s \in Slots, NEW r \in Gate!Request, Gated(r)',
           requests' = [requests EXCEPT ![s] = r],
           UNCHANGED <<now, created, tokens, known>>,
           present' \subseteq present
    PROVE  GateIInv'
  <1>1. Grown
    BY StillGrown
  <1>2. requests' \in [Slots -> Gate!Request] /\ \A t \in Slots : Gated(requests[t])'
    BY <1>1, OneRequest
  <1>3. Gate!TypeOK' /\ MintedForCreated'
    BY <1>2 DEF GateIInv, Gate!TypeOK, MintedForCreated
  <1> QED
    BY <1>2, <1>3 DEF GateIInv

LEMMA GateKept == ASSUME GateIInv, Parameters, [Gate!Next]_Gate!vars PROVE GateIInv'
  <1> USE DEF GateIInv
  <1>t. \A s \in Slots : requests[s] \in Gate!Request /\ Gated(requests[s])
    BY DEF Gate!TypeOK
  <1>1. CASE Gate!Tick
    <2>1. /\ now' = now + 1 /\ now \in Nat /\ now' \in 0..MaxTime
          /\ UNCHANGED <<created, present, tokens, known, requests>>
      BY <1>1 DEF Gate!Tick, Gate!TypeOK, Parameters
    <2>2. \A t \in 1..Len(tokens) : tokens[t] \in Gate!Token
      BY ElementOfSeq DEF Gate!TypeOK
    <2>3. Grown
      BY <2>1, <2>2, LenProperties DEF Grown, Gate!TypeOK
    <2>4. \A t \in Slots : Gated(requests[t])'
      BY <2>1, <2>3, NoRequests
    <2>5. Gate!TypeOK' /\ MintedForCreated'
      BY <2>1 DEF Gate!TypeOK, MintedForCreated, Parameters
    <2> QED
      BY <2>4, <2>5
  <1>2. ASSUME NEW a \in Accounts, Gate!Signup(a) PROVE GateIInv'
    <2>1. /\ a \notin created /\ Len(tokens) < MaxTokens /\ tokens' = Gate!Minted(a)
          /\ created' = created \cup {a} /\ present' = present \cup {a}
          /\ UNCHANGED <<now, known, requests>>
      BY <1>2 DEF Gate!Signup
    <2>2. Grown /\ tokens' \in Seq(Gate!Token) /\ Len(tokens') <= MaxTokens /\ MintedForCreated'
      BY <2>1, Minting
    <2>3. \A t \in Slots : Gated(requests[t])'
      BY <2>1, <2>2, NoRequests
    <2>4. Gate!TypeOK'
      BY <2>1, <2>2 DEF Gate!TypeOK
    <2> QED
      BY <2>2, <2>3, <2>4
  <1>3. ASSUME NEW s \in Slots, NEW a \in Accounts, Gate!Login(s, a) PROVE GateIInv'
    <2>1. PICK f \in BOOLEAN : f = (a \in present)
      BY Noted
    <2>2. /\ requests' = [requests EXCEPT ![s] =
                  [Gate!NoRequest EXCEPT !.pc = "verify", !.account = a, !.found = f, !.since = now]]
          /\ a \in created /\ UNCHANGED <<now, created, present, tokens, known>>
      BY <1>3, <2>1, Zenon DEF Gate!Login
    <2>3. PICK r \in Gate!Request : /\ r.pc = "verify" /\ r.account = a
                              /\ requests' = [requests EXCEPT ![s] = r]
      <3>1. [Gate!NoRequest EXCEPT !.pc = "verify", !.account = a, !.found = f, !.since = now]
               \in Gate!Request
        <4>1. now \in 0..MaxTime /\ Gate!NoRequest \in Gate!Request
          BY DEF Gate!NoRequest, Gate!Request, Gate!Forged, Gate!TypeOK, Parameters
        <4> QED
          BY <4>1 DEF Gate!Request
      <3>2. PICK r \in Gate!Request :
               r = [Gate!NoRequest EXCEPT !.pc = "verify", !.account = a, !.found = f, !.since = now]
        BY <3>1
      <3> QED
        BY <2>2, <3>2 DEF Gate!NoRequest
    <2>4. Gated(r)'
      BY <2>2, <2>3 DEF Gated, Presented, LookedUp, Refusal, Verifying, Passing
    <2> QED
      BY <2>2, <2>3, <2>4, Alone
  <1>4. ASSUME NEW s \in Slots, Gate!Verified(s) PROVE GateIInv'
    <2> DEFINE a == requests[s].account
    <2>1. /\ requests[s].pc = "verify" /\ Len(tokens) < MaxTokens
          /\ tokens' = Gate!Minted(a) /\ requests' = [requests EXCEPT ![s] = Gate!NoRequest]
          /\ UNCHANGED <<now, created, present, known>>
      BY <1>4 DEF Gate!Verified
    <2>2. a \in created /\ a \in Accounts
      BY <1>t, <2>1 DEF Gated, Verifying, Gate!TypeOK
    <2> HIDE DEF a
    <2>3. Grown /\ tokens' \in Seq(Gate!Token) /\ Len(tokens') <= MaxTokens /\ MintedForCreated'
      BY <2>1, <2>2, Minting
    <2>4. Gate!NoRequest \in Gate!Request /\ Gated(Gate!NoRequest)'
      BY DEF Gate!NoRequest, Gate!Request, Gate!Forged, Parameters,
             Gated, Presented, LookedUp, Refusal, Verifying, Passing
    <2>5. requests' \in [Slots -> Gate!Request] /\ \A t \in Slots : Gated(requests[t])'
      BY <2>1, <2>3, <2>4, OneRequest
    <2>6. Gate!TypeOK'
      BY <2>1, <2>3, <2>5 DEF Gate!TypeOK
    <2> QED
      BY <2>3, <2>5, <2>6
  \* The request is over.
  <1>r. ASSUME NEW s \in Slots, requests' = [requests EXCEPT ![s] = Gate!NoRequest],
               UNCHANGED <<now, created, tokens, known>>, present' \subseteq present
        PROVE  GateIInv'
    <2>1. Gate!NoRequest \in Gate!Request /\ Gated(Gate!NoRequest)'
      BY DEF Gate!NoRequest, Gate!Request, Gate!Forged, Parameters,
             Gated, Presented, LookedUp, Refusal, Verifying, Passing
    <2> QED
      BY <1>r, <2>1, Alone
  <1>5. ASSUME NEW s \in Slots, Gate!LoginRefused(s) PROVE GateIInv'
    BY <1>5, <1>r DEF Gate!LoginRefused
  <1>6. ASSUME NEW s \in Slots, Gate!Respond(s) PROVE GateIInv'
    BY <1>6, <1>r DEF Gate!Respond
  <1>7. ASSUME NEW s \in Slots, NEW t \in 0..Len(tokens), Gate!Arrive(s, t) PROVE GateIInv'
    <2> DEFINE a == Gate!Decode(t)
               p == IF a = Nobody THEN "refused" ELSE IF now < known[a] THEN "cached" ELSE "lookUp"
    <2>1. PICK e \in BOOLEAN : e = (a \in present)
      BY Noted
    <2>2. /\ requests' = [requests EXCEPT ![s] =
                  [pc |-> p, account |-> a, token |-> t, found |-> FALSE,
                   since |-> now, existed |-> e]]
          /\ UNCHANGED <<now, created, present, tokens, known>>
      BY <1>7, <2>1 DEF Gate!Arrive
    <2>3. CASE a = Nobody
      <3>1. t = Gate!Forged \/ tokens[t].expires <= now
        <4>1. ASSUME t # Gate!Forged, ~(tokens[t].expires <= now) PROVE FALSE
          <5>1. tokens[t] \in Gate!Token /\ a = tokens[t].account
            BY <4>1, ElementOfSeq DEF Gate!Decode, Gate!Forged, Gate!TypeOK
          <5> QED
            BY <2>3, <5>1 DEF Gate!Token, Parameters
        <4> QED
          BY <4>1
      <3>2. PICK r \in Gate!Request : /\ r.pc = "refused" /\ r.token = t
                                /\ requests' = [requests EXCEPT ![s] = r]
        <4>1. p = "refused"
          BY <2>3
        <4>2. [pc |-> p, account |-> a, token |-> t, found |-> FALSE, since |-> now,
               existed |-> e] \in Gate!Request
          BY <2>3, <4>1, LenProperties DEF Gate!Request, Gate!TypeOK, Parameters
        <4>3. PICK r \in Gate!Request : r = [pc |-> p, account |-> a, token |-> t,
                                       found |-> FALSE, since |-> now, existed |-> e]
          BY <4>2
        <4> QED
          BY <2>2, <4>1, <4>3
      <3>3. Gated(r)'
        BY <2>2, <3>1, <3>2, LenProperties
           DEF Gated, Presented, LookedUp, Refusal, Verifying, Passing, Gate!Forged, Gate!TypeOK
      <3> QED
        BY <2>2, <3>2, <3>3, Alone
    <2>4. CASE a # Nobody
      <3>1. /\ t \in 1..Len(tokens) /\ ~(tokens[t].expires <= now)
            /\ a = tokens[t].account
        BY <2>4 DEF Gate!Decode, Gate!Forged
      <3>2. tokens[t] \in Gate!Token
        BY <3>1, ElementOfSeq DEF Gate!TypeOK
      <3>3. a \in Accounts /\ now < tokens[t].expires
        BY <3>1, <3>2 DEF Gate!Token, Gate!TypeOK, Parameters
      <3>4. PICK r \in Gate!Request :
               /\ r.pc \in {"cached", "lookUp"} /\ r.token = t /\ r.account = a
               /\ r.since = now /\ r.existed = e
               /\ requests' = [requests EXCEPT ![s] = r]
        <4>1. PICK q \in {"cached", "lookUp"} : q = p
          BY <2>4
        <4>2. [pc |-> q, account |-> a, token |-> t, found |-> FALSE, since |-> now,
               existed |-> e] \in Gate!Request
          BY <3>1, <3>3, <4>1, LenProperties DEF Gate!Request, Gate!TypeOK, Parameters
        <4>3. PICK r \in Gate!Request : r = [pc |-> q, account |-> a, token |-> t,
                                       found |-> FALSE, since |-> now, existed |-> e]
          BY <4>2
        <4> QED
          BY <2>2, <4>1, <4>3
      <3>5. Presented(r)'
        BY <2>2, <3>1, <3>3, <3>4 DEF Presented
      <3>6. LookedUp(r)'
        BY <2>1, <2>2, <3>4 DEF LookedUp
      <3>7. Refusal(r)' /\ Verifying(r)'
        BY <3>4 DEF Refusal, Verifying
      <3> QED
        BY <2>2, <3>4, <3>5, <3>6, <3>7, Alone DEF Gated
    <2> QED
      BY <2>3, <2>4
  <1>8. ASSUME NEW s \in Slots, Gate!ReadCache(s) PROVE GateIInv'
    <2>1. PICK p \in {"lookUp", "error"} :
             /\ requests[s].pc = "cached" /\ Gate!Moves(s, p)
             /\ UNCHANGED <<now, created, present, tokens, known>>
      BY <1>8 DEF Gate!ReadCache
    <2>2. PICK r \in Gate!Request :
             /\ r.pc = p /\ r.account = requests[s].account /\ r.token = requests[s].token
             /\ r.since = requests[s].since /\ r.existed = requests[s].existed
             /\ requests' = [requests EXCEPT ![s] = r]
      BY <1>t, <2>1 DEF Gate!Moves, Gate!Request, Gate!TypeOK
    <2>3. Gated(r)'
      BY <1>t, <2>1, <2>2 DEF Gated, Presented, LookedUp, Refusal, Verifying, Passing
    <2> QED
      BY <2>1, <2>2, <2>3, Alone
  <1>9. ASSUME NEW s \in Slots, Gate!LookUp(s) PROVE GateIInv'
    <2>1. PICK f \in BOOLEAN : f = (requests[s].account \in present)
      BY Noted
    <2>2. /\ requests[s].pc = "lookUp"
          /\ requests' = [requests EXCEPT ![s] = [@ EXCEPT !.pc = "resume", !.found = f]]
          /\ UNCHANGED <<now, created, present, tokens, known>>
      BY <1>9, <2>1 DEF Gate!LookUp
    <2>3. PICK r \in Gate!Request :
             /\ r.pc = "resume" /\ r.found = f
             /\ r.account = requests[s].account /\ r.token = requests[s].token
             /\ r.since = requests[s].since /\ r.existed = requests[s].existed
             /\ requests' = [requests EXCEPT ![s] = r]
      <3>1. [requests[s] EXCEPT !.pc = "resume", !.found = f] \in Gate!Request
        BY <1>t DEF Gate!Request
      <3>2. PICK r \in Gate!Request : r = [requests[s] EXCEPT !.pc = "resume", !.found = f]
        BY <3>1
      <3>3. requests' = [requests EXCEPT ![s] = r]
        BY <2>2, <3>2
      <3> QED
        BY <1>t, <3>2, <3>3 DEF Gate!Request
    <2>4. Presented(r)' /\ Refusal(r)' /\ Verifying(r)'
      BY <1>t, <2>2, <2>3 DEF Gated, Presented, Refusal, Verifying, Passing
    <2>5. LookedUp(r)'
      BY <1>t, <2>1, <2>2, <2>3 DEF Gated, LookedUp
    <2> QED
      BY <2>2, <2>3, <2>4, <2>5, Alone DEF Gated
  <1>10. ASSUME NEW s \in Slots, Gate!Resume(s) PROVE GateIInv'
    <2> DEFINE p == IF requests[s].found THEN "accepted" ELSE "refused"
    <2> DEFINE a == requests[s].account
    <2>0. /\ requests[s].pc = "resume" /\ Gate!Moves(s, p)
          /\ UNCHANGED <<now, created, present, tokens>>
          /\ known' = known \/ known' = [known EXCEPT ![a] = now + TTL]
      BY <1>10 DEF Gate!Resume
    <2>k. now \in Nat /\ now + TTL \in Nat /\ known \in [Accounts -> Nat]
          /\ \A b \in Accounts : known[b] <= now + TTL
      BY DEF Gate!TypeOK, Parameters
    <2>1. known' \in [Accounts -> Nat] /\ \A b \in Accounts : known'[b] <= now + TTL
      BY <2>0, <2>k, Entry
    <2>2. PICK r \in Gate!Request :
             /\ r.pc = p /\ r.account = requests[s].account /\ r.token = requests[s].token
             /\ r.since = requests[s].since /\ r.existed = requests[s].existed
             /\ requests' = [requests EXCEPT ![s] = r]
      BY <1>t, <2>0 DEF Gate!Moves, Gate!Request, Gate!TypeOK
    <2>3. Gated(r)'
      BY <1>t, <2>0, <2>2 DEF Gated, Presented, LookedUp, Refusal, Verifying, Passing
    <2>4. Grown
      BY <2>0, StillGrown
    <2>5. requests' \in [Slots -> Gate!Request] /\ \A t \in Slots : Gated(requests[t])'
      BY <2>2, <2>3, <2>4, OneRequest
    <2>6. Gate!TypeOK' /\ MintedForCreated'
      BY <2>0, <2>1, <2>5 DEF Gate!TypeOK, MintedForCreated
    <2> QED
      BY <2>5, <2>6
  <1>11. CASE UNCHANGED Gate!vars
    <2>1. UNCHANGED <<now, created, present, tokens, known, requests>>
      BY <1>11 DEF Gate!vars
    <2>2. \A t \in Slots : Gated(requests[t])'
      BY <2>1, StillGrown, NoRequests
    <2> QED
      BY <2>1, <2>2 DEF Gate!TypeOK, MintedForCreated
  <1> QED
    BY <1>1, <1>2, <1>3, <1>4, <1>5, <1>6, <1>7, <1>8, <1>9, <1>10, <1>11 DEF Gate!Next

-----------------------------------------------------------------------------

(* The invariant holds for any number of requests, accounts and tokens.     *)
THEOREM GateInvariance == Gate!Spec => []GateIInv
  <1>1. Parameters
    BY PartsAssumption DEF Parameters
  <1>2. Gate!Init => GateIInv
    BY <1>1, GateInit
  <1>3. GateIInv /\ [Gate!Next]_Gate!vars => GateIInv'
    BY <1>1, GateKept
  <1> QED
    BY <1>2, <1>3, PTL DEF Gate!Spec

-----------------------------------------------------------------------------
(* Cassette.                                                                *)

Text == Seq(Chunks)
Calls == Seq(Tools)
Transcript == [text : Text, calls : Calls, failed : BOOLEAN]

\* h[i] is what has been said and called after the first i of the turns.
Played(turns, h) ==
    /\ h \in [0..Len(turns) -> [text : Text, calls : Calls]]
    /\ h[0].text = <<>> /\ h[0].calls = <<>>
    /\ \A i \in 1..Len(turns) : /\ h[i].text = h[i - 1].text \o turns[i].text
                                /\ h[i].calls = h[i - 1].calls \o turns[i].calls

Says(t, turns, h) == t.text = h[Len(turns)].text /\ t.calls = h[Len(turns)].calls

\* A run of these turns that has not failed said this, within its budget.
RunOf(turns, h, t, b) ==
    /\ Played(turns, h)
    /\ ~t.failed => /\ Says(t, turns, h)
                    /\ \A i \in 0..Len(turns) : Len(h[i].calls) <= b

\* Turns that ask for more, and turns the last of which is the answer.
Asking(turns) == \A i \in 1..Len(turns) : turns[i].calls # <<>>
Answered(turns) ==
    /\ Len(turns) # 0 /\ turns[Len(turns)].calls = <<>>
    /\ \A i \in 1..Len(turns) - 1 : turns[i].calls # <<>>

\* A run is recorded as it goes.
Recording ==
    mode = "record" /\ pc # "ended" =>
        \E h : /\ RunOf(reel, h, transcript, budget)
               /\ IF pc = "closing" /\ ~transcript.failed THEN Answered(reel) ELSE Asking(reel)

\* A replay says what the tape does, as far as it has come.
Replaying(h) ==
    mode = "replay" /\ pc # "ended" =>
        /\ ~transcript.failed =>
              /\ transcript.text = h[position].text /\ transcript.calls = h[position].calls
              /\ pc = "asking" /\ position # 0 => disk.turns[position].calls # <<>>
              /\ pc = "closing" => position # 0 /\ disk.turns[position].calls = <<>>
        /\ transcript.failed => recorded.transcript.failed \/ budget < recorded.budget

\* The file is of the run that wrote it.
OnTape ==
    disk.state = "whole" =>
        \E h : /\ RunOf(disk.turns, h, recorded.transcript, recorded.budget)
               /\ IF recorded.transcript.failed THEN Asking(disk.turns) ELSE Answered(disk.turns)
               /\ Replaying(h)

Phases ==
    /\ recorded \in [transcript : Transcript, budget : Nat]
    /\ mode # "replay" => position = 0
    /\ mode = "replay" /\ pc # "ended" => disk.state = "whole"
    /\ verdict # "none" => pc = "ended"
    /\ pc = "asking" => ~transcript.failed

TapeIInv ==
    /\ Tape!TypeOK /\ Phases /\ Recording /\ OnTape
    /\ Tape!ReplayTellsRecording /\ Tape!CleanTapeReplays /\ Tape!SkippedMeansUnrecorded

\* A reply is a turn of two sequences.
LEMMA Replies ==
    /\ \A turn \in Tape!Turn : turn.text \in Text /\ turn.calls \in Calls
    /\ \A said \in Tape!UpTo(Chunks, 1) : said \in Text
    /\ <<>> \in Text /\ <<>> \in Calls /\ Len(<<>>) = 0
  <1>1. ASSUME NEW S, NEW n \in Nat, NEW q \in Tape!UpTo(S, n) PROVE q \in Seq(S)
    <2>1. PICK k \in 0..n : q \in [1..k -> S]
      BY DEF Tape!UpTo
    <2> QED
      BY <2>1, SeqDef
  <1>2. \A said \in Tape!UpTo(Chunks, 1) : said \in Text
    BY <1>1 DEF Text
  <1>3. \A turn \in Tape!Turn : turn.text \in Text /\ turn.calls \in Calls
    BY <1>1 DEF Tape!Turn, Text, Calls
  <1> QED
    BY <1>2, <1>3 DEF Text, Calls

\* What was said and called of no turn at all.
LEMMA Unplayed ==
    \E h : Played(<<>>, h) /\ h[0].text = <<>> /\ h[0].calls = <<>>
  <1> DEFINE g == [i \in 0..0 |-> [text |-> <<>>, calls |-> <<>>]]
  <1>1. Len(<<>>) = 0 /\ <<>> \in Text /\ <<>> \in Calls
    BY Replies
  <1>2. /\ g \in [0..0 -> [text : Text, calls : Calls]]
        /\ g[0].text = <<>> /\ g[0].calls = <<>>
    BY <1>1
  <1> HIDE DEF g
  <1>3. Played(<<>>, g)
    BY <1>1, <1>2 DEF Played
  <1> QED
    BY <1>2, <1>3

\* One more turn.
Longer(turns, turn, h, turns2) ==
    /\ turns2 \in Seq(Tape!Turn) /\ Len(turns2) = Len(turns) + 1
    /\ turns2[Len(turns2)] = turn
    /\ \A i \in 1..Len(turns) : turns2[i] = turns[i]
    /\ \E h2 : /\ Played(turns2, h2)
               /\ \A i \in 0..Len(turns) : h2[i] = h[i]
               /\ h2[Len(turns2)].text = h[Len(turns)].text \o turn.text
               /\ h2[Len(turns2)].calls = h[Len(turns)].calls \o turn.calls

LEMMA PlayedOn ==
    ASSUME NEW turns \in Seq(Tape!Turn), NEW turn \in Tape!Turn, NEW h, Played(turns, h)
    PROVE  Longer(turns, turn, h, Append(turns, turn))
  <1> DEFINE turns2 == Append(turns, turn)
             n == Len(turns)
             last == [text |-> h[n].text \o turn.text, calls |-> h[n].calls \o turn.calls]
             g == [i \in 0..n + 1 |-> IF i = n + 1 THEN last ELSE h[i]]
  <1>1. /\ turns2 \in Seq(Tape!Turn) /\ n \in Nat /\ Len(turns2) = n + 1
        /\ turns2[n + 1] = turn
        /\ \A i \in 1..n : turns2[i] = turns[i]
    BY AppendProperties, LenProperties
  <1> HIDE DEF n, turns2
  <1>2. h[n].text \in Text /\ h[n].calls \in Calls
    BY <1>1 DEF Played, n
  <1>3. last \in [text : Text, calls : Calls]
    BY <1>2, Replies, ConcatProperties DEF Text, Calls
  <1>4. last.text = h[n].text \o turn.text /\ last.calls = h[n].calls \o turn.calls
    OBVIOUS
  <1> HIDE DEF last
  <1>5. \A i \in 0..n : h[i] \in [text : Text, calls : Calls]
    BY DEF Played, n
  <1>6. /\ g \in [0..n + 1 -> [text : Text, calls : Calls]] /\ g[n + 1] = last
        /\ \A i \in 0..n : g[i] = h[i]
    BY <1>1, <1>3, <1>5
  <1> HIDE DEF g
  <1>7. ASSUME NEW i \in 1..n + 1
        PROVE  /\ g[i].text = g[i - 1].text \o turns2[i].text
               /\ g[i].calls = g[i - 1].calls \o turns2[i].calls
    <2>1. CASE i = n + 1
      <3>1. i - 1 = n /\ n \in 0..n
        BY <1>1, <2>1
      <3> QED
        BY <1>1, <1>4, <1>6, <2>1, <3>1
    <2>2. CASE i # n + 1
      <3>1. i \in 1..n /\ i \in 0..n /\ i - 1 \in 0..n
        BY <1>1, <2>2
      <3> QED
        BY <1>1, <1>6, <3>1 DEF Played, n
    <2> QED
      BY <2>1, <2>2
  <1>8. g[0].text = <<>> /\ g[0].calls = <<>>
    BY <1>1, <1>6 DEF Played
  <1>9. Played(turns2, g)
    BY <1>1, <1>6, <1>7, <1>8 DEF Played
  <1>10. \E h2 : /\ Played(turns2, h2)
                 /\ \A i \in 0..n : h2[i] = h[i]
                 /\ h2[n + 1].text = h[n].text \o turn.text
                 /\ h2[n + 1].calls = h[n].calls \o turn.calls
    BY <1>4, <1>6, <1>9
  <1> QED
    BY <1>1, <1>10 DEF n, turns2, Longer

LEMMA TapeInit ==
    ASSUME Tape!Init PROVE TapeIInv
  <1>1. /\ disk.state = "missing" /\ disk.turns = <<>> /\ mode = "replay" /\ pc = "ended"
        /\ budget \in Budgets /\ reel = <<>> /\ position = 0 /\ verdict = "none"
        /\ transcript = Tape!Silence /\ recorded = [transcript |-> Tape!Silence, budget |-> 0]
    BY DEF Tape!Init, Tape!InitFor, Tape!Missing
  <1>2. Tape!Silence \in Transcript /\ Len(Tape!Silence.calls) = 0 /\ budget \in Nat
    BY <1>1, Replies, PartsAssumption DEF Tape!Silence, Transcript
  <1>3. <<>> \in Seq(Tape!Turn) /\ Len(<<>>) = 0
    OBVIOUS
  <1>4. Tape!TypeOK
    BY <1>1, <1>2, <1>3 DEF Tape!TypeOK, Transcript, Text, Calls
  <1>5. Phases
    BY <1>1, <1>2 DEF Phases
  <1> QED
    BY <1>1, <1>4, <1>5 DEF TapeIInv, Recording, OnTape,
       Tape!ReplayTellsRecording, Tape!CleanTapeReplays, Tape!SkippedMeansUnrecorded

\* The three claims are about a verdict, and only Start and Close reach one.
LEMMA Running ==
    ASSUME verdict = "none"
    PROVE  /\ Tape!ReplayTellsRecording /\ Tape!CleanTapeReplays
           /\ Tape!SkippedMeansUnrecorded
  BY DEF Tape!ReplayTellsRecording, Tape!CleanTapeReplays, Tape!SkippedMeansUnrecorded

LEMMA StartKeeps ==
    ASSUME TapeIInv, NEW m \in {"replay", "record", "live"}, NEW b \in Budgets, Tape!Start(m, b)
    PROVE  TapeIInv'
  <1>1. /\ mode' = m /\ budget' = b /\ reel' = <<>> /\ position' = 0
        /\ transcript' = Tape!Silence /\ disk' = disk /\ recorded' = recorded
        /\ pc' = IF verdict' = "none" THEN "asking" ELSE "ended"
    BY DEF Tape!Start
  <1>2. \/ verdict' = "none" /\ (m # "replay" \/ disk.state = "whole")
        \/ verdict' = "skipped" /\ disk = Tape!Missing
        \/ verdict' = "broken"
    BY DEF Tape!Start
  <1>3. /\ Tape!Silence.text = <<>> /\ Tape!Silence.calls = <<>>
        /\ Tape!Silence.failed = FALSE /\ Tape!Silence \in Transcript
        /\ b \in Nat /\ <<>> \in Seq(Tape!Turn) /\ Len(<<>>) = 0
    BY Replies, PartsAssumption DEF Tape!Silence, Transcript
  <1>4. Tape!TypeOK'
    BY <1>1, <1>2, <1>3, LenProperties DEF TapeIInv, Tape!TypeOK, Transcript, Text, Calls
  <1>5. Phases'
    BY <1>1, <1>2, <1>3 DEF TapeIInv, Phases
  <1>6. Recording'
    <2>1. PICK h : Played(<<>>, h) /\ h[0].text = <<>> /\ h[0].calls = <<>>
      BY Unplayed
    <2>2. RunOf(<<>>, h, Tape!Silence, b)
      BY <1>3, <2>1 DEF RunOf, Says
    <2>3. Asking(<<>>)
      BY <1>3 DEF Asking
    <2> QED
      BY <1>1, <1>3, <2>2, <2>3 DEF Recording
  <1>7. OnTape'
    <2> SUFFICES ASSUME disk.state = "whole"
                 PROVE  \E h : /\ RunOf(disk.turns, h, recorded.transcript, recorded.budget)
                               /\ IF recorded.transcript.failed THEN Asking(disk.turns)
                                  ELSE Answered(disk.turns)
                               /\ Replaying(h)'
      BY <1>1 DEF OnTape
    <2>1. PICK h : /\ RunOf(disk.turns, h, recorded.transcript, recorded.budget)
                   /\ IF recorded.transcript.failed THEN Asking(disk.turns)
                      ELSE Answered(disk.turns)
      BY DEF TapeIInv, OnTape
    <2>2. Replaying(h)'
      BY <1>1, <1>3, <2>1 DEF Replaying, RunOf, Played
    <2> QED
      BY <2>1, <2>2
  <1>8. /\ Tape!ReplayTellsRecording' /\ Tape!CleanTapeReplays'
        /\ Tape!SkippedMeansUnrecorded'
    BY <1>1, <1>2 DEF Tape!ReplayTellsRecording, Tape!CleanTapeReplays,
                      Tape!SkippedMeansUnrecorded, Tape!Missing
  <1> QED
    BY <1>4, <1>5, <1>6, <1>7, <1>8 DEF TapeIInv

\* run_agent with a reply, from the tape or not.
LEMMA Heard ==
    ASSUME TapeIInv, pc = "asking", NEW turn \in Tape!Turn, Tape!Hear(turn)
    PROVE  /\ transcript' \in Transcript /\ Len(transcript'.calls) <= budget
           /\ ~transcript.failed /\ verdict = "none" /\ budget \in Nat
           /\ transcript'.text = transcript.text \o turn.text
           /\ ~transcript'.failed => transcript'.calls = transcript.calls \o turn.calls
           /\ transcript'.failed =>
                 turn.calls # <<>> /\ Len(transcript.calls \o turn.calls) > budget
           /\ pc' \in {"asking", "closing"}
           /\ pc' = "asking" => ~transcript'.failed /\ turn.calls # <<>>
           /\ pc' = "closing" => transcript'.failed \/ turn.calls = <<>>
           /\ UNCHANGED <<disk, recorded, mode, budget, verdict>>
  <1> DEFINE calls == transcript.calls \o turn.calls
             over == Len(transcript.calls) + Len(turn.calls) > budget
  <1>1. /\ transcript \in Transcript /\ budget \in Nat /\ Len(transcript.calls) <= budget
        /\ ~transcript.failed /\ verdict = "none"
    BY PartsAssumption DEF TapeIInv, Tape!TypeOK, Phases, Transcript, Text, Calls
  <1>2. /\ turn.text \in Text /\ turn.calls \in Calls
        /\ transcript.text \in Text /\ transcript.calls \in Calls
    BY <1>1, Replies DEF Transcript
  <1>3. /\ transcript.text \o turn.text \in Text /\ calls \in Calls
        /\ Len(calls) = Len(transcript.calls) + Len(turn.calls)
        /\ Len(transcript.calls) \in Nat /\ Len(turn.calls) \in Nat
    BY <1>2, ConcatProperties, LenProperties DEF Text, Calls
  <1>4. /\ transcript' = [text |-> transcript.text \o turn.text,
                          calls |-> IF over THEN transcript.calls ELSE calls,
                          failed |-> over]
        /\ pc' = IF over \/ turn.calls = <<>> THEN "closing" ELSE "asking"
        /\ UNCHANGED <<disk, recorded, mode, budget, verdict>>
    BY DEF Tape!Hear
  <1>5. turn.calls = <<>> => ~over
    BY <1>1, <1>3, Replies
  <1>6. /\ over => Len(calls) > budget
        /\ ~over => Len(calls) <= budget
    <2>1. budget \in Nat
      BY <1>1
    <2> DEFINE i == Len(transcript.calls)
               j == Len(turn.calls)
               k == Len(calls)
    <2>2. i \in Nat /\ j \in Nat /\ k = i + j
      BY <1>3
    <2> HIDE DEF i, j, k
    <2>3. (i + j > budget => k > budget) /\ (~(i + j > budget) => k <= budget)
      BY <2>1, <2>2
    <2> QED
      BY <2>3 DEF i, j, k
  <1>7. over \in BOOLEAN
    OBVIOUS
  <1> HIDE DEF calls, over
  <1>8. CASE over
    <2>1. /\ transcript'.text = transcript.text \o turn.text
          /\ transcript'.calls = transcript.calls /\ transcript'.failed = TRUE
          /\ transcript' = [text |-> transcript.text \o turn.text,
                            calls |-> transcript.calls, failed |-> TRUE]
      BY <1>4, <1>8
    <2>2. transcript' \in Transcript
      BY <1>2, <1>3, <2>1 DEF Transcript
    <2> QED
      BY <1>1, <1>3, <1>4, <1>5, <1>6, <1>8, <2>1, <2>2 DEF calls
  <1>9. CASE ~over
    <2>1. /\ transcript'.text = transcript.text \o turn.text
          /\ transcript'.calls = calls /\ transcript'.failed = FALSE
          /\ transcript' = [text |-> transcript.text \o turn.text,
                            calls |-> calls, failed |-> FALSE]
      <3>1. over = FALSE
        BY <1>7, <1>9
      <3> QED
        BY <1>4, <3>1
    <2>2. transcript' \in Transcript
      BY <1>2, <1>3, <2>1 DEF Transcript
    <2>3. Len(transcript'.calls) <= budget
      <3>1. Len(calls) <= budget
        BY <1>6, <1>9
      <3> QED
        BY <2>1, <3>1
    <2>4. pc' \in {"asking", "closing"} /\ (pc' = "asking" => turn.calls # <<>>)
          /\ (pc' = "closing" => turn.calls = <<>>)
      BY <1>4, <1>9
    <2>5. UNCHANGED <<disk, recorded, mode, budget, verdict>>
      BY <1>4
    <2> QED
      BY <1>1, <2>1, <2>2, <2>3, <2>4, <2>5 DEF calls
  <1> QED
    BY <1>8, <1>9

LEMMA LiveTurnKeeps ==
    ASSUME TapeIInv, NEW turn \in Tape!Turn, Tape!LiveTurn(turn) PROVE TapeIInv'
  <1>1. /\ pc = "asking" /\ mode # "replay" /\ Tape!Hear(turn) /\ position' = position
        /\ reel' = IF mode = "record" THEN Append(reel, turn) ELSE reel
    BY DEF Tape!LiveTurn
  <1>2. /\ transcript' \in Transcript /\ Len(transcript'.calls) <= budget
        /\ ~transcript.failed /\ verdict = "none" /\ budget \in Nat
        /\ transcript'.text = transcript.text \o turn.text
        /\ ~transcript'.failed => transcript'.calls = transcript.calls \o turn.calls
        /\ transcript'.failed => turn.calls # <<>>
        /\ pc' \in {"asking", "closing"}
        /\ pc' = "asking" => ~transcript'.failed /\ turn.calls # <<>>
        /\ pc' = "closing" => transcript'.failed \/ turn.calls = <<>>
        /\ UNCHANGED <<disk, recorded, mode, budget, verdict>>
    BY <1>1, Heard
  <1>3. reel \in Seq(Tape!Turn)
    BY DEF TapeIInv, Tape!TypeOK
  <1>4. Tape!TypeOK'
    <2>1. reel' \in Seq(Tape!Turn)
      BY <1>1, <1>3
    <2> QED
      BY <1>1, <1>2, <2>1 DEF TapeIInv, Tape!TypeOK, Transcript, Text, Calls
  <1>5. Phases'
    BY <1>1, <1>2 DEF TapeIInv, Phases
  <1>6. Recording'
    <2> SUFFICES ASSUME mode = "record"
                 PROVE  \E h : /\ RunOf(reel', h, transcript', budget)
                               /\ IF pc' = "closing" /\ ~transcript'.failed
                                  THEN Answered(reel') ELSE Asking(reel')
      BY <1>2 DEF Recording
    <2>1. PICK h : RunOf(reel, h, transcript, budget) /\ Asking(reel)
      BY <1>1 DEF TapeIInv, Recording
    <2>2. Played(reel, h) /\ Len(reel) \in Nat /\ reel' = Append(reel, turn)
      BY <1>1, <1>3, <2>1, LenProperties DEF RunOf
    <2>3. /\ Len(reel') = Len(reel) + 1 /\ reel'[Len(reel')] = turn
          /\ \A i \in 1..Len(reel) : reel'[i] = reel[i]
          /\ \E h2 : /\ Played(reel', h2)
                     /\ \A i \in 0..Len(reel) : h2[i] = h[i]
                     /\ h2[Len(reel')].text = h[Len(reel)].text \o turn.text
                     /\ h2[Len(reel')].calls = h[Len(reel)].calls \o turn.calls
      <3>1. Longer(reel, turn, h, Append(reel, turn))
        BY <1>3, <2>2, PlayedOn
      <3>2. Longer(reel, turn, h, reel')
        BY <2>2, <3>1
      <3> QED
        BY <3>2 DEF Longer
    <2>4. PICK h2 : /\ Played(reel', h2)
                    /\ \A i \in 0..Len(reel) : h2[i] = h[i]
                    /\ h2[Len(reel')].text = h[Len(reel)].text \o turn.text
                    /\ h2[Len(reel')].calls = h[Len(reel)].calls \o turn.calls
      BY <2>3
    <2>5. Says(transcript, reel, h) /\ \A i \in 0..Len(reel) : Len(h[i].calls) <= budget
      BY <1>2, <2>1 DEF RunOf
    <2>6. ASSUME ~transcript'.failed
          PROVE  /\ Says(transcript', reel', h2)
                 /\ \A i \in 0..Len(reel') : Len(h2[i].calls) <= budget
      <3>1. Says(transcript', reel', h2)
        BY <1>2, <2>4, <2>5, <2>6 DEF Says
      <3>2. Len(h2[Len(reel')].calls) <= budget
        BY <1>2, <3>1 DEF Says
      <3>3. ASSUME NEW i \in 0..Len(reel') PROVE Len(h2[i].calls) <= budget
        <4>1. i = Len(reel') \/ i \in 0..Len(reel)
          BY <2>2, <2>3
        <4> QED
          BY <2>4, <2>5, <3>2, <4>1
      <3> QED
        BY <3>1, <3>3
    <2>7. RunOf(reel', h2, transcript', budget)
      BY <2>4, <2>6 DEF RunOf
    <2>8. turn.calls # <<>> => Asking(reel')
      BY <2>1, <2>2, <2>3 DEF Asking
    <2>9. turn.calls = <<>> => Answered(reel')
      BY <2>1, <2>2, <2>3 DEF Asking, Answered
    <2> QED
      BY <1>2, <2>7, <2>8, <2>9
  <1>7. OnTape'
    BY <1>1, <1>2 DEF TapeIInv, OnTape, Replaying
  <1>8. verdict' = "none"
    BY <1>2
  <1> QED
    BY <1>4, <1>5, <1>6, <1>7, <1>8, Running
       DEF TapeIInv, Tape!ReplayTellsRecording, Tape!CleanTapeReplays,
           Tape!SkippedMeansUnrecorded

\* The turn breaks off with an Error, live or because the tape is at its end.
LEMMA FailKeeps ==
    ASSUME TapeIInv, NEW said \in Text, pc = "asking", Tape!Fail(said),
           mode = "replay" => position = Len(disk.turns)
    PROVE  TapeIInv'
  <1>1. /\ transcript \in Transcript /\ verdict = "none" /\ ~transcript.failed
        /\ Len(transcript.calls) <= budget
    BY DEF TapeIInv, Tape!TypeOK, Phases, Transcript, Text, Calls
  <1>2. /\ transcript' = [transcript EXCEPT !.text = @ \o said, !.failed = TRUE]
        /\ pc' = "closing"
        /\ UNCHANGED <<disk, recorded, mode, budget, reel, position, verdict>>
    BY DEF Tape!Fail
  <1>3. /\ transcript' \in Transcript /\ transcript'.failed = TRUE
        /\ transcript'.calls = transcript.calls
    <2>1. transcript.text \o said \in Text
      BY <1>1, ConcatProperties DEF Transcript, Text
    <2> QED
      BY <1>1, <1>2, <2>1 DEF Transcript
  <1>4. Tape!TypeOK'
    BY <1>1, <1>2, <1>3 DEF TapeIInv, Tape!TypeOK, Transcript, Text, Calls
  <1>5. Phases'
    BY <1>1, <1>2 DEF TapeIInv, Phases
  <1>6. Recording'
    <2> SUFFICES ASSUME mode = "record"
                 PROVE  \E h : RunOf(reel, h, transcript', budget) /\ Asking(reel)
      BY <1>2, <1>3 DEF Recording
    <2>1. PICK h : RunOf(reel, h, transcript, budget) /\ Asking(reel)
      BY DEF TapeIInv, Recording
    <2> QED
      BY <1>3, <2>1 DEF RunOf
  <1>7. OnTape'
    <2> SUFFICES ASSUME disk.state = "whole"
                 PROVE  \E h : /\ RunOf(disk.turns, h, recorded.transcript, recorded.budget)
                               /\ IF recorded.transcript.failed THEN Asking(disk.turns)
                                  ELSE Answered(disk.turns)
                               /\ Replaying(h)'
      BY <1>2 DEF OnTape
    <2>1. PICK h : /\ RunOf(disk.turns, h, recorded.transcript, recorded.budget)
                   /\ IF recorded.transcript.failed THEN Asking(disk.turns)
                      ELSE Answered(disk.turns)
                   /\ Replaying(h)
      BY DEF TapeIInv, OnTape
    <2>2. mode = "replay" => recorded.transcript.failed
      <3> SUFFICES ASSUME mode = "replay", ~recorded.transcript.failed PROVE FALSE
        OBVIOUS
      <3>1. position # 0 /\ disk.turns[position].calls = <<>>
        BY <2>1 DEF Answered
      <3> QED
        BY <1>1, <2>1, <3>1 DEF Replaying
    <2>3. Replaying(h)'
      BY <1>2, <1>3, <2>2 DEF Replaying
    <2> QED
      BY <2>1, <2>3
  <1>8. verdict' = "none"
    BY <1>1, <1>2
  <1> QED
    BY <1>4, <1>5, <1>6, <1>7, <1>8
       DEF TapeIInv, Tape!ReplayTellsRecording, Tape!CleanTapeReplays,
           Tape!SkippedMeansUnrecorded

LEMMA ReplayTurnKeeps ==
    ASSUME TapeIInv, Tape!ReplayTurn PROVE TapeIInv'
  <1> DEFINE turn == disk.turns[position + 1]
  <1>1. /\ pc = "asking" /\ mode = "replay" /\ position < Len(disk.turns)
        /\ Tape!Hear(turn) /\ position' = position + 1 /\ reel' = reel
    BY DEF Tape!ReplayTurn
  <1>2. /\ disk.turns \in Seq(Tape!Turn) /\ Len(disk.turns) \in Nat
        /\ position \in Nat /\ position + 1 \in 1..Len(disk.turns)
    BY <1>1, LenProperties DEF TapeIInv, Tape!TypeOK
  <1>3. turn \in Tape!Turn
    BY <1>2, ElementOfSeq
  <1>4. turn = disk.turns[position + 1]
    OBVIOUS
  <1> HIDE DEF turn
  <1>5. /\ transcript' \in Transcript /\ Len(transcript'.calls) <= budget
        /\ ~transcript.failed /\ verdict = "none" /\ budget \in Nat
        /\ transcript'.text = transcript.text \o turn.text
        /\ ~transcript'.failed => transcript'.calls = transcript.calls \o turn.calls
        /\ transcript'.failed => Len(transcript.calls \o turn.calls) > budget
        /\ pc' \in {"asking", "closing"}
        /\ pc' = "asking" => ~transcript'.failed /\ turn.calls # <<>>
        /\ pc' = "closing" => transcript'.failed \/ turn.calls = <<>>
        /\ UNCHANGED <<disk, recorded, mode, budget, verdict>>
    BY <1>1, <1>3, Heard
  <1>6. Tape!TypeOK'
    BY <1>1, <1>2, <1>5 DEF TapeIInv, Tape!TypeOK, Transcript, Text, Calls
  <1>7. Phases'
    BY <1>1, <1>5 DEF TapeIInv, Phases
  <1>8. Recording'
    BY <1>1, <1>5 DEF Recording
  <1>9. OnTape'
    <2> SUFFICES ASSUME disk.state = "whole"
                 PROVE  \E h : /\ RunOf(disk.turns, h, recorded.transcript, recorded.budget)
                               /\ IF recorded.transcript.failed THEN Asking(disk.turns)
                                  ELSE Answered(disk.turns)
                               /\ Replaying(h)'
      BY <1>5 DEF OnTape
    <2>1. PICK h : /\ RunOf(disk.turns, h, recorded.transcript, recorded.budget)
                   /\ IF recorded.transcript.failed THEN Asking(disk.turns)
                      ELSE Answered(disk.turns)
                   /\ Replaying(h)
      BY DEF TapeIInv, OnTape
    <2>2. transcript.text = h[position].text /\ transcript.calls = h[position].calls
      BY <1>1, <1>5, <2>1 DEF Replaying
    <2>3. (position + 1) - 1 = position
      BY <1>2
    <2>4. /\ h[position + 1].text = transcript.text \o turn.text
          /\ h[position + 1].calls = transcript.calls \o turn.calls
      BY <1>2, <1>4, <2>1, <2>2, <2>3 DEF RunOf, Played
    <2>5. ASSUME transcript'.failed, ~recorded.transcript.failed
          PROVE  budget < recorded.budget
      <3>1. Len(h[position + 1].calls) <= recorded.budget
        BY <1>2, <2>1, <2>5 DEF RunOf
      <3>2. Len(transcript.calls \o turn.calls) > budget
        BY <1>5, <2>5
      <3>3. /\ Len(transcript.calls \o turn.calls) \in Nat /\ recorded.budget \in Nat
        <4>1. transcript.calls \o turn.calls \in Calls
          BY <1>3, Replies, ConcatProperties
             DEF TapeIInv, Tape!TypeOK, Calls
        <4> QED
          BY <4>1, LenProperties DEF Calls, TapeIInv, Phases
      <3> QED
        <4>1. h[position + 1].calls = transcript.calls \o turn.calls
          BY <2>4
        <4> DEFINE made == Len(transcript.calls \o turn.calls)
        <4>2. made <= recorded.budget /\ made > budget /\ made \in Nat /\ budget \in Nat
          BY <1>5, <3>1, <3>2, <3>3, <4>1
        <4> HIDE DEF made
        <4> QED
          BY <3>3, <4>2
    <2>6. Replaying(h)'
      <3>1. ~transcript'.failed => /\ transcript'.text = h[position'].text
                                   /\ transcript'.calls = h[position'].calls
        BY <1>1, <1>5, <2>4
      <3>2. /\ pc' = "asking" => disk'.turns[position'].calls # <<>>
            /\ pc' = "closing" /\ ~transcript'.failed =>
                  position' # 0 /\ disk'.turns[position'].calls = <<>>
        BY <1>1, <1>2, <1>4, <1>5
      <3>3. transcript'.failed => recorded'.transcript.failed \/ budget' < recorded'.budget
        BY <1>5, <2>5
      <3> QED
        BY <3>1, <3>2, <3>3 DEF Replaying
    <2> QED
      BY <2>1, <2>6
  <1>10. verdict' = "none"
    BY <1>5
  <1> QED
    BY <1>6, <1>7, <1>8, <1>9, <1>10
       DEF TapeIInv, Tape!ReplayTellsRecording, Tape!CleanTapeReplays,
           Tape!SkippedMeansUnrecorded

LEMMA BreakKeeps ==
    ASSUME TapeIInv, Tape!TapeRunsOut \/ \E said \in Tape!UpTo(Chunks, 1) : Tape!LiveFails(said)
    PROVE  TapeIInv'
  <1>1. CASE Tape!TapeRunsOut
    BY <1>1, FailKeeps, Replies DEF Tape!TapeRunsOut
  <1>2. ASSUME NEW said \in Tape!UpTo(Chunks, 1), Tape!LiveFails(said) PROVE TapeIInv'
    <2>1. pc = "asking" /\ mode # "replay" /\ Tape!Fail(said) /\ said \in Text
      BY <1>2, Replies DEF Tape!LiveFails
    <2> QED
      BY <2>1, FailKeeps
  <1> QED
    BY <1>1, <1>2

\* A replay comes to its answer only at the end of a tape that has one.
LEMMA ToldInFull ==
    ASSUME TapeIInv, pc = "closing", mode = "replay"
    PROVE  /\ ~transcript.failed => transcript = recorded.transcript
           /\ transcript.failed => recorded.transcript.failed \/ budget < recorded.budget
  <1>1. /\ transcript \in Transcript /\ recorded.transcript \in Transcript
        /\ disk.state = "whole" /\ position \in 0..Len(disk.turns)
    BY DEF TapeIInv, Tape!TypeOK, Phases, Transcript, Text, Calls
  <1>2. PICK h : /\ RunOf(disk.turns, h, recorded.transcript, recorded.budget)
                 /\ IF recorded.transcript.failed THEN Asking(disk.turns)
                    ELSE Answered(disk.turns)
                 /\ Replaying(h)
    BY <1>1 DEF TapeIInv, OnTape
  <1>3. transcript.failed => recorded.transcript.failed \/ budget < recorded.budget
    BY <1>2 DEF Replaying
  <1>4. ASSUME ~transcript.failed PROVE transcript = recorded.transcript
    <2>1. /\ transcript.text = h[position].text /\ transcript.calls = h[position].calls
          /\ position # 0 /\ disk.turns[position].calls = <<>>
      BY <1>2, <1>4 DEF Replaying
    <2>2. Len(disk.turns) \in Nat
      BY LenProperties DEF TapeIInv, Tape!TypeOK
    <2>3. position \in 1..Len(disk.turns)
      BY <1>1, <2>1, <2>2
    <2>4. ~recorded.transcript.failed
      BY <1>2, <2>1, <2>3 DEF Asking
    <2>5. Answered(disk.turns) /\ Says(recorded.transcript, disk.turns, h)
      BY <1>2, <2>4 DEF RunOf
    <2>6. position = Len(disk.turns)
      <3>1. position \notin 1..Len(disk.turns) - 1
        BY <2>1, <2>5 DEF Answered
      <3> QED
        BY <2>2, <2>3, <3>1
    <2>7. /\ transcript.text = recorded.transcript.text
          /\ transcript.calls = recorded.transcript.calls
      BY <2>1, <2>5, <2>6 DEF Says
    <2>8. transcript.failed = recorded.transcript.failed
      <3>1. transcript.failed \in BOOLEAN /\ recorded.transcript.failed \in BOOLEAN
        BY <1>1 DEF Transcript
      <3> QED
        BY <1>4, <2>4, <3>1
    <2> QED
      BY <1>1, <2>7, <2>8 DEF Transcript
  <1> QED
    BY <1>3, <1>4

\* The file that is written is of this run, and the verdict is reached.
LEMMA CloseKeeps ==
    ASSUME TapeIInv, Tape!Close PROVE TapeIInv'
  <1>1. /\ pc = "closing" /\ pc' = "ended"
        /\ disk' = IF mode = "record" THEN Tape!Tape(reel) ELSE disk
        /\ recorded' = IF mode = "record" THEN [transcript |-> transcript, budget |-> budget]
                       ELSE recorded
        /\ verdict' = IF transcript.failed THEN "failed" ELSE "graded"
        /\ UNCHANGED <<mode, budget, reel, position, transcript>>
    BY DEF Tape!Close, Tape!Outcome
  <1>2. /\ transcript \in Transcript /\ budget \in Nat /\ reel \in Seq(Tape!Turn)
        /\ recorded \in [transcript : Transcript, budget : Nat] /\ transcript.failed \in BOOLEAN
    BY PartsAssumption DEF TapeIInv, Tape!TypeOK, Phases, Transcript, Text, Calls
  <1>3. CASE mode = "record"
    <2>1. /\ disk'.state = "whole" /\ disk'.turns = reel
          /\ recorded'.transcript = transcript /\ recorded'.budget = budget
          /\ recorded' \in [transcript : Transcript, budget : Nat]
      BY <1>1, <1>2, <1>3 DEF Tape!Tape
    <2>2. Tape!TypeOK'
      <3>1. position' = 0 /\ Len(reel) \in Nat
        BY <1>1, <1>2, <1>3, LenProperties DEF TapeIInv, Phases
      <3> QED
        BY <1>1, <1>2, <2>1, <3>1 DEF TapeIInv, Tape!TypeOK
    <2>3. Phases'
      BY <1>1, <1>3, <2>1 DEF TapeIInv, Phases
    <2>4. Recording'
      BY <1>1 DEF Recording
    <2>5. OnTape'
      <3>1. PICK h : /\ RunOf(reel, h, transcript, budget)
                     /\ IF ~transcript.failed THEN Answered(reel) ELSE Asking(reel)
        BY <1>1, <1>3 DEF TapeIInv, Recording
      <3>2. Replaying(h)'
        BY <1>1 DEF Replaying
      <3> QED
        BY <2>1, <3>1, <3>2 DEF OnTape
    <2>6. /\ Tape!ReplayTellsRecording' /\ Tape!CleanTapeReplays'
          /\ Tape!SkippedMeansUnrecorded'
      BY <1>1, <1>3 DEF Tape!ReplayTellsRecording, Tape!CleanTapeReplays,
                        Tape!SkippedMeansUnrecorded
    <2> QED
      BY <2>2, <2>3, <2>4, <2>5, <2>6 DEF TapeIInv
  <1>4. CASE mode # "record"
    <2>1. disk' = disk /\ recorded' = recorded
      BY <1>1, <1>4
    <2>2. Tape!TypeOK'
      BY <1>1, <2>1 DEF TapeIInv, Tape!TypeOK
    <2>3. Phases'
      BY <1>1, <2>1 DEF TapeIInv, Phases
    <2>4. Recording'
      BY <1>1 DEF Recording
    <2>5. OnTape'
      BY <1>1, <2>1 DEF TapeIInv, OnTape, Replaying
    <2>6. ~transcript.failed /\ mode = "replay" => disk.state = "whole"
      BY <1>1 DEF TapeIInv, Phases
    <2>7. Tape!ReplayTellsRecording'
      BY <1>1, <2>1, <2>6, ToldInFull DEF Tape!ReplayTellsRecording
    <2>8. Tape!CleanTapeReplays'
      BY <1>1, <2>1, ToldInFull DEF Tape!CleanTapeReplays
    <2>9. Tape!SkippedMeansUnrecorded'
      BY <1>1 DEF Tape!SkippedMeansUnrecorded
    <2> QED
      BY <2>2, <2>3, <2>4, <2>5, <2>7, <2>8, <2>9 DEF TapeIInv
  <1> QED
    BY <1>3, <1>4

LEMMA KilledKeeps ==
    ASSUME TapeIInv, Tape!Killed PROVE TapeIInv'
  <1>1. /\ pc # "ended" /\ pc' = "ended" /\ position' = 0
        /\ disk' = disk \/ disk' = Tape!Torn
        /\ UNCHANGED <<recorded, mode, budget, reel, transcript, verdict>>
    BY DEF Tape!Killed
  <1>2. verdict' = "none"
    BY <1>1 DEF TapeIInv, Phases, Tape!TypeOK
  <1>3. Tape!TypeOK'
    <2>1. disk.turns \in Seq(Tape!Turn) /\ Tape!Torn.turns \in Seq(Tape!Turn)
      BY DEF TapeIInv, Tape!TypeOK, Tape!Torn
    <2>2. disk'.turns \in Seq(Tape!Turn) /\ disk'.state \in {"missing", "torn", "whole"}
      <3>1. disk.state \in {"missing", "torn", "whole"} /\ Tape!Torn.state = "torn"
        BY DEF TapeIInv, Tape!TypeOK, Tape!Torn
      <3>2. CASE disk' = disk
        BY <2>1, <3>1, <3>2
      <3>3. CASE disk' = Tape!Torn
        BY <2>1, <3>1, <3>3
      <3> QED
        BY <1>1, <3>2, <3>3
    <2>3. position' \in 0..Len(disk'.turns)
      BY <1>1, <2>2, LenProperties
    <2> QED
      BY <1>1, <1>2, <2>2, <2>3 DEF TapeIInv, Tape!TypeOK
  <1>4. Phases'
    BY <1>1, <1>2 DEF TapeIInv, Phases
  <1>5. Recording'
    BY <1>1 DEF Recording
  <1>6. OnTape'
    <2>1. CASE disk' = disk
      BY <1>1, <2>1 DEF TapeIInv, OnTape, Replaying
    <2>2. CASE disk' = Tape!Torn
      BY <2>2 DEF OnTape, Tape!Torn
    <2> QED
      BY <1>1, <2>1, <2>2
  <1> QED
    BY <1>2, <1>3, <1>4, <1>5, <1>6
       DEF TapeIInv, Tape!ReplayTellsRecording, Tape!CleanTapeReplays,
           Tape!SkippedMeansUnrecorded

LEMMA TapeKept ==
    ASSUME TapeIInv, [Tape!Next]_Tape!vars PROVE TapeIInv'
  <1>1. CASE UNCHANGED Tape!vars
    BY <1>1 DEF TapeIInv, Tape!vars, Tape!TypeOK, Phases, Recording, OnTape, Replaying,
                Tape!ReplayTellsRecording, Tape!CleanTapeReplays, Tape!SkippedMeansUnrecorded
  <1> QED
    BY <1>1, StartKeeps, LiveTurnKeeps, BreakKeeps, ReplayTurnKeeps, CloseKeeps, KilledKeeps
       DEF Tape!Next

(* The invariant holds for any tapes, tools and budgets.                    *)
THEOREM TapeInvariance == Tape!Spec => []TapeIInv
  <1>1. Tape!Init => TapeIInv
    BY TapeInit
  <1>2. TapeIInv /\ [Tape!Next]_Tape!vars => TapeIInv'
    BY TapeKept
  <1> QED
    BY <1>1, <1>2, PTL DEF Tape!Spec

-----------------------------------------------------------------------------
(* SseReader.  Sequences are climbed one element at a time: what holds of   *)
(* the empty one and is handed on by Append holds of all.                   *)

\* What holds of 0 and is handed on from n to n + 1 holds of every number.
LEMMA Climb ==
    ASSUME NEW S \in SUBSET Nat, 0 \in S, \A n \in S : n + 1 \in S
    PROVE  S = Nat
  <1> SUFFICES ASSUME Nat \ S # {} PROVE FALSE
    OBVIOUS
  <1> DEFINE R == OpToRel(<, Nat)
  <1>1. IsWellFoundedOn(R, Nat)
    BY NatLessThanWellFounded
  <1>2. PICK i \in Nat \ S : \A j \in Nat \ S : ~(<<j, i>> \in R)
    <2> HIDE DEF R
    <2>1. Nat \ S \subseteq Nat
      OBVIOUS
    <2> QED
      BY <1>1, <2>1, WFMin
  <1>3. i # 0 /\ i - 1 \in Nat
    OBVIOUS
  <1>4. i - 1 \notin S
    BY <1>3
  <1>5. <<i - 1, i>> \in R
    BY <1>3 DEF OpToRel
  <1> QED
    BY <1>2, <1>3, <1>4, <1>5

\* What holds of the empty sequence and is handed on by Append holds of all.
LEMMA ClimbSeq ==
    ASSUME NEW X, NEW G \in SUBSET Seq(X), <<>> \in G,
           \A s \in G : \A x \in X : Append(s, x) \in G
    PROVE  G = Seq(X)
  <1> DEFINE S == {n \in Nat : \A s \in Seq(X) : Len(s) = n => s \in G}
  <1>1. 0 \in S
    BY EmptySeq
  <1>2. ASSUME NEW n \in S PROVE n + 1 \in S
    <2> SUFFICES ASSUME NEW s \in Seq(X), Len(s) = n + 1 PROVE s \in G
      OBVIOUS
    <2>1. s # <<>>
      BY EmptySeq
    <2>2. PICK r \in Seq(X), x \in X : s = Append(r, x)
      BY <2>1, SequenceEmptyOrAppend
    <2>3. Len(r) = n
      BY <2>2, AppendProperties, LenProperties
    <2> QED
      BY <2>2, <2>3
  <1>3. S = Nat
    <2> S \in SUBSET Nat
      OBVIOUS
    <2> HIDE DEF S
    <2> QED
      BY <1>1, <1>2, Climb
  <1> QED
    BY <1>3, LenProperties

-----------------------------------------------------------------------------
(* The ends of a sequence.                                                  *)

\* What Append puts last, and what it leaves in front.
LEMMA Ends ==
    ASSUME NEW S, NEW s \in Seq(S), NEW x \in S
    PROVE  /\ Sse!Last(Append(s, x)) = x
           /\ Sse!Front(Append(s, x)) = s
           /\ Append(s, x) \in Seq(S) /\ Append(s, x) # <<>>
           /\ Append(s, x) = s \o <<x>>
  <1>1. Append(s, x) \in Seq(S) /\ Append(s, x) # <<>> /\ Len(Append(s, x)) = Len(s) + 1
        /\ Append(s, x)[Len(s) + 1] = x /\ \A i \in 1..Len(s) : Append(s, x)[i] = s[i]
    BY AppendProperties
  <1>2. Sse!Front(Append(s, x)) = s
    <2>1. Sse!Front(Append(s, x)) = SubSeq(Append(s, x), 1, Len(s))
      BY <1>1, LenProperties DEF Sse!Front
    <2> QED
      BY <1>1, <2>1, LenProperties
  <1> QED
    BY <1>1, <1>2, AppendIsConcat DEF Sse!Last

\* A sequence that is not empty is its front and its last element.
LEMMA FrontAndLast ==
    ASSUME NEW S, NEW q \in Seq(S), q # <<>>
    PROVE  /\ q = Append(Sse!Front(q), Sse!Last(q))
           /\ Sse!Front(q) \in Seq(S) /\ Sse!Last(q) \in S
  <1>1. PICK r \in Seq(S), x \in S : q = Append(r, x)
    BY SequenceEmptyOrAppend
  <1> QED
    BY <1>1, Ends

\* The end of a concatenation is the end of its second part.
LEMMA EndOfJoined ==
    ASSUME NEW S, NEW p \in Seq(S), NEW q \in Seq(S), q # <<>>
    PROVE  /\ Sse!Last(p \o q) = Sse!Last(q)
           /\ Sse!Front(p \o q) = p \o Sse!Front(q)
           /\ p \o q \in Seq(S) /\ p \o q # <<>>
  <1>1. PICK r \in Seq(S), x \in S : q = Append(r, x)
    BY SequenceEmptyOrAppend
  <1>2. Sse!Front(q) = r /\ Sse!Last(q) = x
    BY <1>1, Ends
  <1>3. q = r \o <<x>> /\ <<x>> \in Seq(S)
    BY <1>1, Ends
  <1>4. p \o q = (p \o r) \o <<x>>
    BY <1>1, <1>3, ConcatAssociative
  <1>5. p \o r \in Seq(S)
    BY <1>1, ConcatProperties
  <1>6. p \o q = Append(p \o r, x)
    BY <1>1, <1>4, <1>5, Ends
  <1> DEFINE w == p \o r
  <1>7. /\ Sse!Last(Append(w, x)) = x /\ Sse!Front(Append(w, x)) = w
        /\ Append(w, x) \in Seq(S) /\ Append(w, x) # <<>>
    <2> HIDE DEF w
    <2>1. w \in Seq(S)
      BY <1>5 DEF w
    <2> QED
      BY <2>1, Ends
  <1> QED
    BY <1>2, <1>6, <1>7

Slides(p, q, x) == Append(p \o q, x) = p \o Append(q, x)

LEMMA AppendFurther ==
    ASSUME NEW S, NEW p \in Seq(S), NEW q \in Seq(S), NEW x \in S
    PROVE  Slides(p, q, x)
  <1>1. p \o q \in Seq(S) /\ <<x>> \in Seq(S)
    BY ConcatProperties
  <1>2. Append(p \o q, x) = (p \o q) \o <<x>> /\ Append(q, x) = q \o <<x>>
    BY <1>1, Ends
  <1> QED
    BY <1>1, <1>2, ConcatAssociative DEF Slides

-----------------------------------------------------------------------------
(* Flattening.                                                              *)

Flattens(f, ss) ==
    f = [i \in 1..Len(ss) |-> IF i = 1 THEN ss[i] ELSE f[i - 1] \o ss[i]]

Associates(a, b, c) == (a \o b) \o c = a \o (b \o c)

LEMMA Association ==
    ASSUME NEW S, NEW a \in Seq(S), NEW b \in Seq(S), NEW c \in Seq(S)
    PROVE  Associates(a, b, c)
  BY ConcatAssociative DEF Associates

\* FlattenSeq is the value of a function that solves its recursion.
LEMMA FlattenSolves ==
    ASSUME NEW T, NEW us \in Seq(T), us # <<>>
    PROVE  \E f : Flattens(f, us) /\ Sse!FlattenSeq(us) = f[Len(us)]
  <1>1. \A ts \in Seq(T) : ts # <<>> => \E f : Flattens(f, ts)
    <2> DEFINE G == {ts \in Seq(T) : ts # <<>> => \E f : Flattens(f, ts)}
    <2>1. <<>> \in G
      BY EmptySeq
    <2>2. ASSUME NEW ts \in G, NEW t \in T PROVE Append(ts, t) \in G
      <3> DEFINE vs == Append(ts, t)
      <3>1. ts \in Seq(T)
        OBVIOUS
      <3>2. /\ vs \in Seq(T) /\ Len(vs) = Len(ts) + 1 /\ vs[Len(ts) + 1] = t
            /\ \A i \in 1..Len(ts) : vs[i] = ts[i]
        BY <3>1, AppendProperties
      <3>3. Len(ts) \in Nat
        BY <3>1, LenProperties
      <3> HIDE DEF vs
      <3>4. CASE ts = <<>>
        <4>1. Len(ts) = 0
          BY <3>4, EmptySeq
        <4>2. Flattens([i \in 1..1 |-> vs[i]], vs)
          BY <3>2, <4>1 DEF Flattens
        <4> QED
          BY <3>2, <4>2 DEF vs
      <3>5. CASE ts # <<>>
        <4>1. PICK f : Flattens(f, ts)
          BY <3>5
        <4> DEFINE n == Len(ts)
                   g == [i \in 1..n + 1 |-> IF i \in 1..n THEN f[i] ELSE f[n] \o t]
        <4>2. n \in Nat /\ n # 0
          BY <3>1, <3>3, <3>5, EmptySeq
        <4>3. \A i \in 1..n : f[i] = IF i = 1 THEN ts[i] ELSE f[i - 1] \o ts[i]
          BY <4>1 DEF Flattens
        <4>4. \A i \in 1..n : g[i] = f[i]
          BY <4>2
        <4>5. g[n + 1] = f[n] \o t
          BY <4>2
        <4>6. \A i \in 1..n + 1 : g[i] = IF i = 1 THEN vs[i] ELSE g[i - 1] \o vs[i]
          <5> SUFFICES ASSUME NEW i \in 1..n + 1
                       PROVE  g[i] = IF i = 1 THEN vs[i] ELSE g[i - 1] \o vs[i]
            OBVIOUS
          <5> HIDE DEF g
          <5>1. CASE i = n + 1
            <6>1. i # 1 /\ i - 1 = n /\ n \in 1..n
              BY <4>2, <5>1
            <6>2. g[i] = g[i - 1] \o vs[i]
              BY <3>2, <4>4, <4>5, <5>1, <6>1
            <6> QED
              BY <6>1, <6>2
          <5>2. CASE i \in 1..n
            <6>1. i # 1 => i - 1 \in 1..n
              BY <4>2, <5>2
            <6> QED
              BY <3>2, <4>3, <4>4, <5>2, <6>1
          <5> QED
            BY <4>2, <5>1, <5>2
        <4>7. g = [i \in 1..Len(vs) |-> g[i]]
          BY <3>2
        <4> HIDE DEF g
        <4>8. Flattens(g, vs)
          BY <3>2, <4>6, <4>7 DEF Flattens
        <4> QED
          BY <3>2, <4>8 DEF vs
      <3> QED
        BY <3>4, <3>5
    <2>3. G = Seq(T)
      <3> G \in SUBSET Seq(T)
        OBVIOUS
      <3> HIDE DEF G
      <3> QED
        BY <2>1, <2>2, ClimbSeq
    <2> QED
      BY <2>3
  <1>2. Len(us) # 0
    BY EmptySeq
  <1> DEFINE f == CHOOSE g : Flattens(g, us)
  <1>3. Flattens(f, us)
    BY <1>1
  <1>4. Sse!FlattenSeq(us) = f[Len(us)]
    BY <1>2 DEF Sse!FlattenSeq, Flattens
  <1> QED
    BY <1>3, <1>4

LEMMA FlattenEmpty == Sse!FlattenSeq(<<>>) = <<>>
  BY EmptySeq DEF Sse!FlattenSeq

\* FlattenSeq adds what is appended at the end.
LEMMA FlattenAppend ==
    ASSUME NEW S, NEW ss \in Seq(Seq(S)), NEW r \in Seq(S)
    PROVE  Sse!FlattenSeq(Append(ss, r)) = Sse!FlattenSeq(ss) \o r
  <1> DEFINE us == Append(ss, r)
             n == Len(ss)
  <1>1. /\ us \in Seq(Seq(S)) /\ Len(us) = n + 1 /\ us[n + 1] = r
        /\ \A i \in 1..n : us[i] = ss[i]
    BY AppendProperties
  <1>2. us # <<>>
    BY AppendProperties
  <1>3. n \in Nat
    BY LenProperties
  <1> HIDE DEF us
  <1>4. PICK g : Flattens(g, us) /\ Sse!FlattenSeq(us) = g[n + 1]
    BY <1>1, <1>2, FlattenSolves
  <1>5. \A i \in 1..n + 1 : g[i] = IF i = 1 THEN us[i] ELSE g[i - 1] \o us[i]
    BY <1>1, <1>4 DEF Flattens
  <1>6. CASE ss = <<>>
    <2>1. n = 0
      BY <1>6, EmptySeq
    <2>2. g[1] = r
      BY <1>1, <1>5, <2>1
    <2>3. Sse!FlattenSeq(us) = r
      BY <1>4, <2>1, <2>2
    <2>4. Sse!FlattenSeq(ss) = <<>>
      BY <1>6, FlattenEmpty
    <2>5. <<>> \o r = r
      BY ConcatEmptySeq
    <2> QED
      BY <2>3, <2>4, <2>5 DEF us
  <1>7. CASE ss # <<>>
    <2>1. PICK f : Flattens(f, ss) /\ Sse!FlattenSeq(ss) = f[n]
      BY <1>7, FlattenSolves
    <2>2. \A i \in 1..n : f[i] = IF i = 1 THEN ss[i] ELSE f[i - 1] \o ss[i]
      BY <2>1 DEF Flattens
    <2>3. n # 0
      BY <1>7, EmptySeq
    <2> DEFINE K == {k \in Nat : k + 1 \in 1..n => f[k + 1] = g[k + 1]}
    <2>4. 0 \in K
      BY <1>1, <1>3, <1>5, <2>2
    <2>5. ASSUME NEW k \in K PROVE k + 1 \in K
      <3> SUFFICES ASSUME k + 2 \in 1..n PROVE f[k + 2] = g[k + 2]
        OBVIOUS
      <3>1. k + 1 \in 1..n /\ k + 2 \in 1..n + 1 /\ k + 2 # 1 /\ (k + 2) - 1 = k + 1
        BY <1>3
      <3>2. f[k + 1] = g[k + 1]
        BY <3>1
      <3>3. f[k + 2] = f[k + 1] \o ss[k + 2]
        BY <2>2, <3>1
      <3>4. g[k + 2] = g[k + 1] \o us[k + 2]
        BY <1>5, <3>1
      <3>5. us[k + 2] = ss[k + 2]
        BY <1>1
      <3> QED
        BY <3>2, <3>3, <3>4, <3>5
    <2>6. K = Nat
      <3> K \in SUBSET Nat
        OBVIOUS
      <3> HIDE DEF K
      <3> QED
        BY <2>4, <2>5, Climb
    <2>7. n - 1 \in Nat /\ (n - 1) + 1 = n /\ n \in 1..n
      BY <1>3, <2>3
    <2>8. f[n] = g[n]
      BY <2>6, <2>7
    <2>9. g[n + 1] = g[n] \o r
      <3>1. n + 1 \in 1..n + 1 /\ n + 1 # 1 /\ (n + 1) - 1 = n
        BY <1>3, <2>3
      <3> QED
        BY <1>1, <1>5, <3>1
    <2> QED
      BY <1>4, <2>1, <2>8, <2>9 DEF us
  <1> QED
    BY <1>6, <1>7

LEMMA FlattenTyped ==
    ASSUME NEW S, NEW ss \in Seq(Seq(S))
    PROVE  Sse!FlattenSeq(ss) \in Seq(S)
  <1> DEFINE G == {ts \in Seq(Seq(S)) : Sse!FlattenSeq(ts) \in Seq(S)}
  <1>1. <<>> \in G
    BY FlattenEmpty, EmptySeq
  <1>2. ASSUME NEW ts \in G, NEW t \in Seq(S) PROVE Append(ts, t) \in G
    <2>1. Sse!FlattenSeq(Append(ts, t)) = Sse!FlattenSeq(ts) \o t
      BY FlattenAppend
    <2>2. Sse!FlattenSeq(ts) \o t \in Seq(S)
      BY ConcatProperties
    <2>3. Append(ts, t) \in Seq(Seq(S))
      BY AppendProperties
    <2> QED
      BY <2>1, <2>2, <2>3
  <1> QED
    <2> G \in SUBSET Seq(Seq(S))
      OBVIOUS
    <2>1. G = Seq(Seq(S))
      <3> HIDE DEF G
      <3> QED
        BY <1>1, <1>2, ClimbSeq
    <2> QED
      BY <2>1

-----------------------------------------------------------------------------
(* Splitting.                                                               *)

Climbs(f, s, d) ==
    f = [n \in 0..Len(s) |-> IF n = 0 THEN <<<<>>>> ELSE Sse!Put(f[n - 1], s[n], d)]

\* Split is the value of a function that solves its recursion.
LEMMA SplitClimbs ==
    ASSUME NEW X, NEW us \in Seq(X), NEW d
    PROVE  \E f : Climbs(f, us, d) /\ Sse!Split(us, d) = f[Len(us)]
  <1>1. \E f : Climbs(f, us, d)
    <2> DEFINE G == {ts \in Seq(X) : \E f : Climbs(f, ts, d)}
    <2>1. <<>> \in G
      <3>1. Climbs([n \in 0..0 |-> <<<<>>>>], <<>>, d)
        BY EmptySeq DEF Climbs
      <3> QED
        BY <3>1, EmptySeq
    <2>2. ASSUME NEW ts \in G, NEW t \in X PROVE Append(ts, t) \in G
      <3> DEFINE vs == Append(ts, t)
                 n == Len(ts)
      <3>1. ts \in Seq(X)
        OBVIOUS
      <3>2. /\ vs \in Seq(X) /\ Len(vs) = n + 1 /\ vs[n + 1] = t
            /\ \A i \in 1..n : vs[i] = ts[i]
        BY <3>1, AppendProperties
      <3>3. n \in Nat
        BY <3>1, LenProperties
      <3>4. PICK f : Climbs(f, ts, d)
        OBVIOUS
      <3>5. \A i \in 0..n : f[i] = IF i = 0 THEN <<<<>>>> ELSE Sse!Put(f[i - 1], ts[i], d)
        BY <3>4 DEF Climbs
      <3> DEFINE g == [i \in 0..n + 1 |-> IF i \in 0..n THEN f[i] ELSE Sse!Put(f[n], t, d)]
      <3>6. /\ \A i \in 0..n : g[i] = f[i]
            /\ g[n + 1] = Sse!Put(f[n], t, d)
        BY <3>3
      <3> HIDE DEF vs
      <3>7. \A i \in 0..n + 1 : g[i] = IF i = 0 THEN <<<<>>>> ELSE Sse!Put(g[i - 1], vs[i], d)
        <4> SUFFICES ASSUME NEW i \in 0..n + 1
                     PROVE  g[i] = IF i = 0 THEN <<<<>>>> ELSE Sse!Put(g[i - 1], vs[i], d)
          OBVIOUS
        <4> HIDE DEF g
        <4>1. CASE i = n + 1
          <5>1. i # 0 /\ i - 1 = n /\ n \in 0..n
            BY <3>3, <4>1
          <5>2. g[i] = Sse!Put(g[i - 1], vs[i], d)
            BY <3>2, <3>6, <4>1, <5>1
          <5> QED
            BY <5>1, <5>2
        <4>2. CASE i \in 0..n
          <5>1. i # 0 => i - 1 \in 0..n /\ i \in 1..n
            BY <3>3, <4>2
          <5> QED
            BY <3>2, <3>5, <3>6, <4>2, <5>1
        <4> QED
          BY <3>3, <4>1, <4>2
      <3>8. g = [i \in 0..Len(vs) |-> g[i]]
        BY <3>2
      <3> HIDE DEF g
      <3>9. Climbs(g, vs, d)
        BY <3>2, <3>7, <3>8 DEF Climbs
      <3> QED
        BY <3>2, <3>9 DEF vs
    <2>3. G = Seq(X)
      <3> G \in SUBSET Seq(X)
        OBVIOUS
      <3> HIDE DEF G
      <3> QED
        BY <2>1, <2>2, ClimbSeq
    <2> QED
      BY <2>3
  <1> DEFINE f == CHOOSE f : Climbs(f, us, d)
  <1>2. Climbs(f, us, d)
    BY <1>1
  <1>3. Sse!Split(us, d) = f[Len(us)]
    BY DEF Sse!Split, Climbs
  <1> QED
    BY <1>2, <1>3

LEMMA SplitEmpty == ASSUME NEW d PROVE Sse!Split(<<>>, d) = <<<<>>>>
  <1>1. <<>> \in Seq({})  /\ Len(<<>>) = 0
    BY EmptySeq
  <1>2. PICK f : Climbs(f, <<>>, d) /\ Sse!Split(<<>>, d) = f[0]
    BY <1>1, SplitClimbs
  <1> QED
    BY <1>1, <1>2 DEF Climbs

\* One more symbol is one more Put.
LEMMA SplitAppend ==
    ASSUME NEW X, NEW s \in Seq(X), NEW x \in X, NEW d
    PROVE  Sse!Split(Append(s, x), d) = Sse!Put(Sse!Split(s, d), x, d)
  <1> DEFINE us == Append(s, x)
             n == Len(s)
  <1>1. /\ us \in Seq(X) /\ Len(us) = n + 1 /\ us[n + 1] = x
        /\ \A i \in 1..n : us[i] = s[i]
    BY AppendProperties
  <1>2. n \in Nat
    BY LenProperties
  <1> HIDE DEF us
  <1>3. PICK f : Climbs(f, s, d) /\ Sse!Split(s, d) = f[n]
    BY SplitClimbs
  <1>4. PICK g : Climbs(g, us, d) /\ Sse!Split(us, d) = g[n + 1]
    BY <1>1, SplitClimbs
  <1>5. \A i \in 0..n : f[i] = IF i = 0 THEN <<<<>>>> ELSE Sse!Put(f[i - 1], s[i], d)
    BY <1>3 DEF Climbs
  <1>6. \A i \in 0..n + 1 : g[i] = IF i = 0 THEN <<<<>>>> ELSE Sse!Put(g[i - 1], us[i], d)
    BY <1>1, <1>4 DEF Climbs
  <1> DEFINE K == {k \in Nat : k \in 0..n => f[k] = g[k]}
  <1>7. 0 \in K
    <2>1. 0 \in 0..n /\ 0 \in 0..n + 1
      BY <1>2
    <2>2. f[0] = <<<<>>>>
      BY <1>5, <2>1
    <2>3. g[0] = <<<<>>>>
      BY <1>6, <2>1
    <2> QED
      BY <2>2, <2>3
  <1>8. ASSUME NEW k \in K PROVE k + 1 \in K
    <2> SUFFICES ASSUME k + 1 \in 0..n PROVE f[k + 1] = g[k + 1]
      OBVIOUS
    <2>1. k \in 0..n /\ k + 1 \in 1..n /\ k + 1 \in 0..n + 1 /\ k + 1 # 0 /\ (k + 1) - 1 = k
      BY <1>2
    <2>2. f[k] = g[k]
      BY <2>1
    <2>3. f[k + 1] = Sse!Put(f[k], s[k + 1], d)
      BY <1>5, <2>1
    <2>4. g[k + 1] = Sse!Put(g[k], us[k + 1], d)
      BY <1>6, <2>1
    <2>5. us[k + 1] = s[k + 1]
      BY <1>1, <2>1
    <2> QED
      BY <2>2, <2>3, <2>4, <2>5
  <1>9. K = Nat
    <2> K \in SUBSET Nat
      OBVIOUS
    <2> HIDE DEF K
    <2> QED
      BY <1>7, <1>8, Climb
  <1>10. f[n] = g[n]
    BY <1>2, <1>9
  <1>11. g[n + 1] = Sse!Put(g[n], x, d)
    <2>1. n + 1 \in 0..n + 1 /\ n + 1 # 0 /\ (n + 1) - 1 = n
      BY <1>2
    <2> QED
      BY <1>1, <1>6, <2>1
  <1> QED
    BY <1>3, <1>4, <1>10, <1>11 DEF us

\* What one more symbol does depends on the last piece only.
Cut(piece, d) ==
    /\ Len(piece) - Len(d) >= 0
    /\ SubSeq(piece, Len(piece) - Len(d) + 1, Len(piece)) = d

Pieces(X) == {ps \in Seq(Seq(X)) : ps # <<>>}

\* A prefix is a sequence.
LEMMA Begun ==
    ASSUME NEW X, NEW s \in Seq(X), NEW n \in 0..Len(s)
    PROVE  SubSeq(s, 1, n) \in Seq(X)
  <1>1. Len(s) \in Nat /\ \A i \in 1..Len(s) : s[i] \in X
    BY LenProperties, ElementOfSeq
  <1>2. \A i \in 1..n : s[i] \in X
    BY <1>1
  <1>3. n \in Int /\ 1 \in Int
    BY <1>1
  <1> QED
    BY <1>1, <1>2, <1>3, SubSeqProperties

\* What takes the place of the last piece.
Turned(last, x, d, t) ==
    /\ Cut(Append(last, x), d) => Sse!Last(t) = <<>>
    /\ ~Cut(Append(last, x), d) => t = <<Append(last, x)>>

Replaces(t, last, x, d, X) ==
    /\ Turned(last, x, d, t)
    /\ \A p \in Seq(Seq(X)) : Sse!Put(Append(p, last), x, d) = p \o t

\* What takes that place is the same whatever was cut before.
LEMMA PutForms ==
    ASSUME NEW X, NEW d \in Seq(X), NEW last \in Seq(X), NEW x \in X
    PROVE  \E t \in Pieces(X) : Replaces(t, last, x, d, X)
  <1>1. PICK piece \in Seq(X) : piece = Append(last, x)
    BY AppendProperties
  <1>2. PICK head : head = SubSeq(piece, 1, Len(piece) - Len(d))
    OBVIOUS
  <1>3. ASSUME NEW p \in Seq(Seq(X))
        PROVE  /\ Sse!Last(Append(p, last)) = last
               /\ Sse!Front(Append(p, last)) = p
    BY Ends
  <1>4. CASE Cut(piece, d)
    <2>1. head \in Seq(X)
      <3>1. Len(piece) \in Nat /\ Len(d) \in Nat /\ Len(piece) - Len(d) >= 0
        BY <1>4, LenProperties DEF Cut
      <3>2. Len(piece) - Len(d) \in 0..Len(piece)
        BY <3>1
      <3> QED
        BY <1>2, <3>2, Begun
    <2>2. PICK t : t = <<head, <<>>>>
      OBVIOUS
    <2>3. t \in Pieces(X) /\ Sse!Last(t) = <<>>
      <3>1. <<>> \in Seq(X)
        BY EmptySeq
      <3> QED
        BY <2>1, <2>2, <3>1 DEF Pieces, Sse!Last
    <2>4. ASSUME NEW p \in Seq(Seq(X))
          PROVE  Sse!Put(Append(p, last), x, d) = p \o t
      BY <1>1, <1>2, <1>3, <1>4, <2>2 DEF Sse!Put, Cut
    <2> QED
      BY <1>1, <1>4, <2>3, <2>4 DEF Turned, Replaces
  <1>5. CASE ~Cut(piece, d)
    <2>1. PICK t : t = <<piece>>
      OBVIOUS
    <2>2. t \in Pieces(X)
      BY <1>1, <2>1 DEF Pieces
    <2>3. ASSUME NEW p \in Seq(Seq(X))
          PROVE  Sse!Put(Append(p, last), x, d) = p \o t
      BY <1>1, <1>3, <1>5, <2>1 DEF Sse!Put, Cut
    <2> QED
      BY <1>1, <1>5, <2>1, <2>2, <2>3 DEF Turned, Replaces
  <1> QED
    BY <1>4, <1>5

LEMMA LastOfPieces ==
    ASSUME NEW X, NEW ps \in Pieces(X)
    PROVE  /\ Sse!Front(ps) \in Seq(Seq(X)) /\ Sse!Last(ps) \in Seq(X)
           /\ ps = Append(Sse!Front(ps), Sse!Last(ps))
  BY FrontAndLast DEF Pieces

LEMMA LastOfJoined ==
    ASSUME NEW X, NEW p \in Seq(Seq(X)), NEW q \in Pieces(X)
    PROVE  /\ Sse!Last(p \o q) = Sse!Last(q)
           /\ Sse!Front(p \o q) = p \o Sse!Front(q)
           /\ p \o q \in Pieces(X)
  BY EndOfJoined DEF Pieces

LEMMA PutTyped ==
    ASSUME NEW X, NEW d \in Seq(X), NEW ps \in Pieces(X), NEW x \in X
    PROVE  Sse!Put(ps, x, d) \in Pieces(X)
  <1>1. PICK p \in Seq(Seq(X)), last \in Seq(X) : ps = Append(p, last)
    BY LastOfPieces
  <1>2. PICK t \in Pieces(X) : Replaces(t, last, x, d, X)
    BY PutForms
  <1>3. Sse!Put(ps, x, d) = p \o t
    BY <1>1, <1>2 DEF Replaces
  <1> QED
    BY <1>3, LastOfJoined

\* Split returns at least one piece.
LEMMA SplitTyped ==
    ASSUME NEW X, NEW d \in Seq(X), NEW s \in Seq(X)
    PROVE  Sse!Split(s, d) \in Pieces(X)
  <1> DEFINE G == {t \in Seq(X) : Sse!Split(t, d) \in Pieces(X)}
  <1>1. <<>> \in G
    <2>1. <<>> \in Seq(X) /\ <<<<>>>> \in Seq(Seq(X)) /\ <<<<>>>> # <<>>
      BY EmptySeq
    <2> QED
      BY <2>1, SplitEmpty DEF Pieces
  <1>2. ASSUME NEW t \in G, NEW x \in X PROVE Append(t, x) \in G
    BY SplitAppend, PutTyped, AppendProperties
  <1>3. G = Seq(X)
    <2> G \in SUBSET Seq(X)
      OBVIOUS
    <2> HIDE DEF G
    <2> QED
      BY <1>1, <1>2, ClimbSeq
  <1> QED
    BY <1>3

\* Pieces cut before play no part.
Aside(p, q, x, d) == Sse!Put(p \o q, x, d) = p \o Sse!Put(q, x, d)

LEMMA PutFurther ==
    ASSUME NEW X, NEW d \in Seq(X), NEW p \in Seq(Seq(X)), NEW q \in Pieces(X), NEW x \in X
    PROVE  Aside(p, q, x, d)
  <1>1. PICK f \in Seq(Seq(X)), last \in Seq(X) : q = Append(f, last)
    BY LastOfPieces
  <1>2. PICK pf \in Seq(Seq(X)) : pf = p \o f
    BY ConcatProperties
  <1>3. p \o q = Append(pf, last)
    <2>1. Slides(p, f, last)
      BY AppendFurther
    <2> QED
      BY <1>1, <1>2, <2>1 DEF Slides
  <1>4. PICK t \in Pieces(X) : Replaces(t, last, x, d, X)
    BY PutForms
  <1>5. Sse!Put(p \o q, x, d) = pf \o t /\ Sse!Put(q, x, d) = f \o t
    BY <1>1, <1>3, <1>4 DEF Replaces
  <1>6. Associates(p, f, t)
    <2>1. t \in Seq(Seq(X))
      BY DEF Pieces
    <2> QED
      BY <2>1, Association
  <1> QED
    BY <1>2, <1>5, <1>6 DEF Associates, Aside

-----------------------------------------------------------------------------
(* What a chunk adds.                                                       *)

\* The last piece holds no delimiter, and is where the text ends.
LEMMA LastWhole ==
    ASSUME NEW X, NEW d \in Seq(X), NEW s \in Seq(X)
    PROVE  Sse!Split(Sse!Last(Sse!Split(s, d)), d) = <<Sse!Last(Sse!Split(s, d))>>
  <1> DEFINE Whole(l) == Sse!Split(l, d) = <<l>>
             G == {t \in Seq(X) : Whole(Sse!Last(Sse!Split(t, d)))}
  <1>1. Whole(<<>>)
    BY SplitEmpty
  <1>2. <<>> \in G
    <2>1. Sse!Last(<<<<>>>>) = <<>>
      BY DEF Sse!Last
    <2> QED
      BY <1>1, <2>1, SplitEmpty, EmptySeq
  <1>3. ASSUME NEW t \in G, NEW x \in X PROVE Append(t, x) \in G
    <2>1. PICK p \in Seq(Seq(X)), last \in Seq(X) :
              Sse!Split(t, d) = Append(p, last) /\ Sse!Last(Sse!Split(t, d)) = last
      BY SplitTyped, LastOfPieces
    <2>2. Whole(last)
      BY <2>1
    <2>3. PICK u \in Pieces(X) : Replaces(u, last, x, d, X)
      BY PutForms
    <2>4. /\ Turned(last, x, d, u)
          /\ \A r \in Seq(Seq(X)) : Sse!Put(Append(r, last), x, d) = r \o u
      BY <2>3 DEF Replaces
    <2>5. Sse!Last(Sse!Split(Append(t, x), d)) = Sse!Last(u)
      <3>1. Sse!Split(Append(t, x), d) = p \o u
        BY <2>1, <2>4, SplitAppend
      <3> QED
        BY <3>1, LastOfJoined
    <2>6. CASE Cut(Append(last, x), d)
      BY <1>1, <2>4, <2>5, <2>6, AppendProperties DEF Turned
    <2>7. CASE ~Cut(Append(last, x), d)
      <3>1. PICK piece \in Seq(X) : piece = Append(last, x)
        BY AppendProperties
      <3>2. u = <<piece>>
        BY <2>4, <2>7, <3>1 DEF Turned
      <3>3. Sse!Last(u) = piece
        BY <3>2 DEF Sse!Last
      <3>4. PICK none \in Seq(Seq(X)) : none = <<>>
        BY EmptySeq
      <3>5. Append(none, last) = <<last>>
        BY <3>4
      <3>6. none \o u = u
        BY <3>4, ConcatEmptySeq DEF Pieces
      <3>7. Sse!Split(piece, d) = u
        BY <2>2, <2>4, <3>1, <3>5, <3>6, SplitAppend
      <3>8. Whole(piece)
        BY <3>2, <3>7
      <3> QED
        BY <2>5, <3>3, <3>8, AppendProperties
    <2> QED
      BY <2>6, <2>7
  <1>4. G = Seq(X)
    <2> G \in SUBSET Seq(X)
      OBVIOUS
    <2> HIDE DEF G
    <2> QED
      BY <1>2, <1>3, ClimbSeq
  <1> QED
    BY <1>4

\* Only the last piece is still open: the rest of the text is split with it.
Further(a, b, d) ==
    Sse!Split(a \o b, d)
      = Sse!Front(Sse!Split(a, d)) \o Sse!Split(Sse!Last(Sse!Split(a, d)) \o b, d)

LEMMA SplitFurther ==
    ASSUME NEW X, NEW d \in Seq(X), NEW a \in Seq(X), NEW b \in Seq(X)
    PROVE  Further(a, b, d)
  <1>1. PICK p \in Seq(Seq(X)), open \in Seq(X) :
            /\ Sse!Split(a, d) = Append(p, open)
            /\ p = Sse!Front(Sse!Split(a, d)) /\ open = Sse!Last(Sse!Split(a, d))
    BY SplitTyped, LastOfPieces
  <1> DEFINE G == {c \in Seq(X) : Sse!Split(a \o c, d) = p \o Sse!Split(open \o c, d)}
  <1>2. <<>> \in G
    <2>1. a \o <<>> = a /\ open \o <<>> = open
      BY ConcatEmptySeq
    <2>2. Sse!Split(open, d) = <<open>>
      BY <1>1, LastWhole
    <2>3. Sse!Split(a, d) = p \o <<open>>
      BY <1>1, Ends
    <2> QED
      BY <2>1, <2>2, <2>3, EmptySeq
  <1>3. ASSUME NEW c \in G, NEW x \in X PROVE Append(c, x) \in G
    <2>1. c \in Seq(X) /\ Sse!Split(a \o c, d) = p \o Sse!Split(open \o c, d)
      OBVIOUS
    <2>2. PICK ac \in Seq(X) : ac = a \o c
      BY <2>1, ConcatProperties
    <2>3. PICK oc \in Seq(X) : oc = open \o c
      BY <2>1, ConcatProperties
    <2>4. PICK cx \in Seq(X) : cx = Append(c, x)
      BY <2>1, AppendProperties
    <2>5. Slides(a, c, x) /\ Slides(open, c, x)
      BY <2>1, AppendFurther
    <2>6. Append(ac, x) = a \o cx
      BY <2>2, <2>4, <2>5 DEF Slides
    <2>7. Append(oc, x) = open \o cx
      BY <2>3, <2>4, <2>5 DEF Slides
    <2>8. Sse!Split(a \o cx, d) = Sse!Put(Sse!Split(ac, d), x, d)
      BY <2>6, SplitAppend
    <2>9. Sse!Split(open \o cx, d) = Sse!Put(Sse!Split(oc, d), x, d)
      BY <2>7, SplitAppend
    <2>10. PICK q \in Pieces(X) : q = Sse!Split(oc, d)
      BY SplitTyped
    <2>11. Aside(p, q, x, d)
      BY PutFurther
    <2>12. Sse!Split(a \o cx, d) = p \o Sse!Split(open \o cx, d)
      BY <2>1, <2>2, <2>3, <2>8, <2>9, <2>10, <2>11 DEF Aside
    <2> QED
      BY <2>4, <2>12
  <1>4. G = Seq(X)
    <2> G \in SUBSET Seq(X)
      OBVIOUS
    <2> HIDE DEF G
    <2> QED
      BY <1>2, <1>3, ClimbSeq
  <1>5. b \in G
    <2> HIDE DEF G
    <2> QED
      BY <1>4
  <1> QED
    BY <1>1, <1>5 DEF Further

\* The text ends with its last piece.
LEMMA LastEnds ==
    ASSUME NEW X, NEW d \in Seq(X), NEW s \in Seq(X)
    PROVE  \E h \in Seq(X) : s = h \o Sse!Last(Sse!Split(s, d))
  <1> DEFINE G == {t \in Seq(X) : \E h \in Seq(X) : t = h \o Sse!Last(Sse!Split(t, d))}
  <1>1. <<>> \in G
    <2>1. Sse!Last(<<<<>>>>) = <<>>
      BY DEF Sse!Last
    <2>2. <<>> \o <<>> = <<>> /\ <<>> \in Seq(X)
      BY EmptySeq, ConcatEmptySeq
    <2> QED
      BY <2>1, <2>2, SplitEmpty
  <1>2. ASSUME NEW t \in G, NEW x \in X PROVE Append(t, x) \in G
    <2>1. PICK p \in Seq(Seq(X)), last \in Seq(X) :
              Sse!Split(t, d) = Append(p, last) /\ Sse!Last(Sse!Split(t, d)) = last
      BY SplitTyped, LastOfPieces
    <2>2. PICK h \in Seq(X) : t = h \o last
      BY <2>1
    <2>3. PICK u \in Pieces(X) : Replaces(u, last, x, d, X)
      BY PutForms
    <2>4. /\ Turned(last, x, d, u)
          /\ \A r \in Seq(Seq(X)) : Sse!Put(Append(r, last), x, d) = r \o u
      BY <2>3 DEF Replaces
    <2>5. Sse!Last(Sse!Split(Append(t, x), d)) = Sse!Last(u)
      <3>1. Sse!Split(Append(t, x), d) = p \o u
        BY <2>1, <2>4, SplitAppend
      <3> QED
        BY <3>1, LastOfJoined
    <2>6. PICK tx \in Seq(X) : tx = Append(t, x)
      BY AppendProperties
    <2>7. \E g \in Seq(X) : tx = g \o Sse!Last(u)
      <3>1. CASE Cut(Append(last, x), d)
        <4>1. Sse!Last(u) = <<>>
          BY <2>4, <3>1 DEF Turned
        <4>2. tx = tx \o <<>>
          BY ConcatEmptySeq
        <4> QED
          BY <4>1, <4>2
      <3>2. CASE ~Cut(Append(last, x), d)
        <4>1. PICK piece \in Seq(X) : piece = Append(last, x)
          BY AppendProperties
        <4>2. Sse!Last(u) = piece
          <5>1. u = <<piece>>
            BY <2>4, <3>2, <4>1 DEF Turned
          <5> QED
            BY <5>1 DEF Sse!Last
        <4>3. Append(t, x) = h \o piece
          <5>1. Slides(h, last, x)
            BY AppendFurther
          <5> QED
            BY <2>2, <4>1, <5>1 DEF Slides
        <4> QED
          BY <2>6, <4>2, <4>3
      <3> QED
        BY <3>1, <3>2
    <2> QED
      BY <2>5, <2>6, <2>7
  <1>3. G = Seq(X)
    <2> G \in SUBSET Seq(X)
      OBVIOUS
    <2> HIDE DEF G
    <2> QED
      BY <1>1, <1>2, ClimbSeq
  <1>4. s \in G
    <2> HIDE DEF G
    <2> QED
      BY <1>3
  <1> QED
    BY <1>4

-----------------------------------------------------------------------------
(* Events.                                                                  *)

Parsed(frames) == [i \in 1..Len(frames) |-> Sse!ParseFrame(frames[i])]

\* Of any frame at all, what is handed out is a value or nothing.
LEMMA FrameTyped == ASSUME NEW f PROVE Sse!ParseFrame(f) \in Seq(Values)
  <1> DEFINE payload == Sse!Payload(f)
  <1>1. CASE Len(payload) = 1 /\ payload[1] \in Values
    <2>1. Sse!ParseFrame(f) = <<payload[1]>>
      BY <1>1 DEF Sse!ParseFrame
    <2> HIDE DEF payload
    <2> QED
      BY <1>1, <2>1
  <1>2. CASE ~(Len(payload) = 1 /\ payload[1] \in Values)
    <2>1. Sse!ParseFrame(f) = <<>>
      BY <1>2 DEF Sse!ParseFrame
    <2> QED
      BY <2>1, EmptySeq
  <1> QED
    BY <1>1, <1>2

LEMMA ParsedTyped ==
    ASSUME NEW T, NEW ps \in Seq(T)
    PROVE  /\ Parsed(ps) \in Seq(Seq(Values)) /\ Len(Parsed(ps)) = Len(ps)
           /\ \A i \in 1..Len(ps) : Parsed(ps)[i] = Sse!ParseFrame(ps[i])
  <1>1. Len(ps) \in Nat
    BY LenProperties
  <1>2. Parsed(ps) \in Seq(Seq(Values))
    BY <1>1, FrameTyped, IsASeq DEF Parsed
  <1> QED
    BY <1>1, <1>2, LenProperties DEF Parsed

LEMMA ParsedAppend ==
    ASSUME NEW T, NEW ps \in Seq(T), NEW s \in T
    PROVE  Parsed(Append(ps, s)) = Append(Parsed(ps), Sse!ParseFrame(s))
  <1> DEFINE n == Len(ps)
  <1>1. PICK qs \in Seq(T) : qs = Append(ps, s)
    BY AppendProperties
  <1>2. Len(qs) = n + 1 /\ qs[n + 1] = s /\ \A i \in 1..n : qs[i] = ps[i]
    BY <1>1, AppendProperties
  <1>3. PICK r \in Seq(Seq(Values)) : r = Parsed(ps)
    BY ParsedTyped
  <1>4. PICK v \in Seq(Values) : v = Sse!ParseFrame(s)
    BY FrameTyped
  <1>5. n \in Nat /\ Len(r) = n /\ \A i \in 1..n : r[i] = Sse!ParseFrame(ps[i])
    BY <1>3, LenProperties, ParsedTyped
  <1>6. PICK w \in Seq(Seq(Values)) : w = Append(r, v)
    BY AppendProperties
  <1>7. Len(w) = n + 1 /\ w[n + 1] = v /\ \A i \in 1..n : w[i] = r[i]
    BY <1>5, <1>6, AppendProperties
  <1>8. PICK u \in Seq(Seq(Values)) : u = Parsed(qs)
    BY ParsedTyped
  <1>9. Len(u) = n + 1 /\ \A i \in 1..n + 1 : u[i] = Sse!ParseFrame(qs[i])
    BY <1>2, <1>8, ParsedTyped
  <1>10. \A i \in 1..n + 1 : u[i] = w[i]
    <2> SUFFICES ASSUME NEW i \in 1..n + 1 PROVE u[i] = w[i]
      OBVIOUS
    <2>1. CASE i = n + 1
      BY <1>2, <1>4, <1>7, <1>9, <2>1
    <2>2. CASE i \in 1..n
      BY <1>2, <1>5, <1>7, <1>9, <2>2
    <2> QED
      BY <1>5, <2>1, <2>2
  <1>11. u = w
    BY <1>7, <1>9, <1>10, SeqEqual
  <1> QED
    BY <1>1, <1>3, <1>4, <1>6, <1>8, <1>11

LEMMA EventsTyped ==
    ASSUME NEW T, NEW ps \in Seq(T) PROVE Sse!Events(ps) \in Seq(Values)
  <1>1. Sse!Events(ps) = Sse!FlattenSeq(Parsed(ps))
    BY DEF Sse!Events, Parsed
  <1>2. PICK r \in Seq(Seq(Values)) : r = Parsed(ps)
    BY ParsedTyped
  <1> QED
    BY <1>1, <1>2, FlattenTyped

\* One more frame is one more event, or none.
LEMMA EventsAppend ==
    ASSUME NEW T, NEW ps \in Seq(T), NEW s \in T
    PROVE  Sse!Events(Append(ps, s)) = Sse!Events(ps) \o Sse!ParseFrame(s)
  <1>1. \A qs : Sse!Events(qs) = Sse!FlattenSeq(Parsed(qs))
    BY DEF Sse!Events, Parsed
  <1>2. PICK r \in Seq(Seq(Values)) : r = Parsed(ps)
    BY ParsedTyped
  <1>3. PICK v \in Seq(Values) : v = Sse!ParseFrame(s)
    BY FrameTyped
  <1>4. Sse!FlattenSeq(Append(r, v)) = Sse!FlattenSeq(r) \o v
    BY FlattenAppend
  <1>5. Parsed(Append(ps, s)) = Append(r, v)
    BY <1>2, <1>3, ParsedAppend
  <1> QED
    BY <1>1, <1>2, <1>3, <1>4, <1>5

LEMMA EventsEmpty == Sse!Events(<<>>) = <<>>
  <1>1. Parsed(<<>>) = <<>>
    <2>1. <<>> \in Seq({})
      BY EmptySeq
    <2>2. Parsed(<<>>) \in Seq(Seq(Values))
      BY <2>1, ParsedTyped
    <2>3. Len(Parsed(<<>>)) = 0
      BY <2>2, LenProperties, EmptySeq DEF Parsed
    <2> QED
      BY <2>2, <2>3, EmptySeq
  <1> QED
    BY <1>1, FlattenEmpty DEF Sse!Events, Parsed

Distributes(p, q) == Sse!Events(p \o q) = Sse!Events(p) \o Sse!Events(q)

\* The events of two lists of frames are those of one and then the other.
LEMMA EventsJoined ==
    ASSUME NEW T, NEW p \in Seq(T), NEW q \in Seq(T)
    PROVE  Distributes(p, q)
  <1> DEFINE G == {r \in Seq(T) : Distributes(p, r)}
  <1>1. <<>> \in G
    <2>1. Sse!Events(p) \in Seq(Values)
      BY EventsTyped
    <2>2. Sse!Events(p) \o <<>> = Sse!Events(p) /\ p \o <<>> = p
      BY <2>1, ConcatEmptySeq
    <2> QED
      BY <2>2, EventsEmpty, EmptySeq DEF Distributes
  <1>2. ASSUME NEW r \in G, NEW x \in T PROVE Append(r, x) \in G
    <2>1. r \in Seq(T) /\ Sse!Events(p \o r) = Sse!Events(p) \o Sse!Events(r)
      BY DEF Distributes
    <2>2. PICK pr \in Seq(T) : pr = p \o r
      BY <2>1, ConcatProperties
    <2>3. PICK rx \in Seq(T) : rx = Append(r, x)
      BY <2>1, AppendProperties
    <2>4. Slides(p, r, x)
      BY <2>1, AppendFurther
    <2>5. Append(pr, x) = p \o rx
      BY <2>2, <2>3, <2>4 DEF Slides
    <2>6. PICK ep \in Seq(Values), er \in Seq(Values), ex \in Seq(Values) :
              ep = Sse!Events(p) /\ er = Sse!Events(r) /\ ex = Sse!ParseFrame(x)
      BY <2>1, EventsTyped, FrameTyped
    <2>7. Sse!Events(p \o rx) = (ep \o er) \o ex
      BY <2>1, <2>2, <2>5, <2>6, EventsAppend
    <2>8. Sse!Events(rx) = er \o ex
      BY <2>1, <2>3, <2>6, EventsAppend
    <2>9. Associates(ep, er, ex)
      BY Association
    <2> QED
      BY <2>3, <2>6, <2>7, <2>8, <2>9 DEF Distributes, Associates
  <1>3. G = Seq(T)
    <2> G \in SUBSET Seq(T)
      OBVIOUS
    <2> HIDE DEF G
    <2> QED
      BY <1>1, <1>2, ClimbSeq
  <1> QED
    BY <1>3

-----------------------------------------------------------------------------
(* What the server writes.                                                  *)

Symbols == Values \cup {"data", "junk", "nl"}

\* The frames of a body, and the body as the list of them with their ends.
Framed(es) == [i \in 1..Len(es) |-> <<"data", es[i]>>]
Written(es) == [i \in 1..Len(es) |-> <<"data", es[i], "nl", "nl">>]

LEMMA Blank == Sse!BlankLine = <<"nl", "nl">> /\ Sse!BlankLine \in Seq(Symbols)
  BY DEF Sse!BlankLine, Symbols

LEMMA Letters ==
    ASSUME NEW e \in Values
    PROVE  /\ "data" \in Symbols /\ "nl" \in Symbols /\ e \in Symbols
           /\ <<>> \in Seq(Symbols) /\ <<"data">> \in Seq(Symbols)
           /\ <<"data", e>> \in Seq(Symbols) /\ <<"data", e, "nl">> \in Seq(Symbols)
           /\ <<"data", e, "nl", "nl">> \in Seq(Symbols)
  BY DEF Symbols

\* Both are sequences as long as the list of events.
LEMMA WrittenTyped ==
    ASSUME NEW es \in Seq(Values)
    PROVE  /\ Framed(es) \in Seq(Seq(Symbols)) /\ Written(es) \in Seq(Seq(Symbols))
           /\ Len(Framed(es)) = Len(es) /\ Len(Written(es)) = Len(es)
           /\ \A i \in 1..Len(es) : /\ Framed(es)[i] = <<"data", es[i]>>
                                    /\ Written(es)[i] = <<"data", es[i], "nl", "nl">>
  <1>1. Len(es) \in Nat /\ \A i \in 1..Len(es) : es[i] \in Values
    BY LenProperties, ElementOfSeq
  <1>2. \A i \in 1..Len(es) : /\ <<"data", es[i]>> \in Seq(Symbols)
                              /\ <<"data", es[i], "nl", "nl">> \in Seq(Symbols)
    BY <1>1 DEF Symbols
  <1>3. Framed(es) \in Seq(Seq(Symbols))
    BY <1>1, <1>2, IsASeq DEF Framed
  <1>4. Written(es) \in Seq(Seq(Symbols))
    BY <1>1, <1>2, IsASeq DEF Written
  <1>5. Len(Framed(es)) = Len(es)
    BY <1>1, <1>3, LenProperties DEF Framed
  <1>6. Len(Written(es)) = Len(es)
    BY <1>1, <1>4, LenProperties DEF Written
  <1> QED
    BY <1>3, <1>4, <1>5, <1>6 DEF Framed, Written

\* One more event is one more frame.
LEMMA WrittenAppend ==
    ASSUME NEW es \in Seq(Values), NEW e \in Values
    PROVE  /\ Framed(Append(es, e)) = Append(Framed(es), <<"data", e>>)
           /\ Written(Append(es, e)) = Append(Written(es), <<"data", e, "nl", "nl">>)
  <1> DEFINE n == Len(es)
  <1>1. PICK fs \in Seq(Values) : fs = Append(es, e)
    BY AppendProperties
  <1>2. n \in Nat /\ Len(fs) = n + 1 /\ fs[n + 1] = e /\ \A i \in 1..n : fs[i] = es[i]
    BY <1>1, AppendProperties, LenProperties
  <1>3. PICK a \in Seq(Symbols) : a = <<"data", e>>
    BY Letters
  <1>4. PICK b \in Seq(Symbols) : b = <<"data", e, "nl", "nl">>
    BY Letters
  <1>5. PICK f \in Seq(Seq(Symbols)) : f = Framed(es)
    BY WrittenTyped
  <1>6. PICK w \in Seq(Seq(Symbols)) : w = Written(es)
    BY WrittenTyped
  <1>7. PICK fa \in Seq(Seq(Symbols)) : fa = Append(f, a)
    BY AppendProperties
  <1>8. PICK wb \in Seq(Seq(Symbols)) : wb = Append(w, b)
    BY AppendProperties
  <1>9. Len(f) = n /\ Len(w) = n
        /\ \A i \in 1..n : f[i] = <<"data", es[i]>> /\ w[i] = <<"data", es[i], "nl", "nl">>
    BY <1>5, <1>6, WrittenTyped
  <1>10. Len(fa) = n + 1 /\ fa[n + 1] = a /\ \A i \in 1..n : fa[i] = f[i]
    BY <1>7, <1>9, AppendProperties
  <1>11. Len(wb) = n + 1 /\ wb[n + 1] = b /\ \A i \in 1..n : wb[i] = w[i]
    BY <1>8, <1>9, AppendProperties
  <1>12. PICK g \in Seq(Seq(Symbols)) : g = Framed(fs)
    BY WrittenTyped
  <1>13. PICK v \in Seq(Seq(Symbols)) : v = Written(fs)
    BY WrittenTyped
  <1>14. Len(g) = n + 1 /\ Len(v) = n + 1
         /\ \A i \in 1..n + 1 : g[i] = <<"data", fs[i]>> /\ v[i] = <<"data", fs[i], "nl", "nl">>
    BY <1>2, <1>12, <1>13, WrittenTyped
  <1>15. \A i \in 1..n + 1 : g[i] = fa[i] /\ v[i] = wb[i]
    <2> SUFFICES ASSUME NEW i \in 1..n + 1 PROVE g[i] = fa[i] /\ v[i] = wb[i]
      OBVIOUS
    <2>1. CASE i = n + 1
      <3>1. g[i] = <<"data", e>> /\ v[i] = <<"data", e, "nl", "nl">>
        BY <1>2, <1>14, <2>1
      <3> QED
        BY <1>3, <1>4, <1>10, <1>11, <2>1, <3>1
    <2>2. CASE i \in 1..n
      <3>1. fs[i] = es[i]
        BY <1>2, <2>2
      <3>2. g[i] = <<"data", es[i]>> /\ v[i] = <<"data", es[i], "nl", "nl">>
        BY <1>14, <3>1
      <3> QED
        BY <1>9, <1>10, <1>11, <2>2, <3>2
    <2> QED
      BY <1>2, <2>1, <2>2
  <1>16. g = fa
    <2>1. Len(g) = Len(fa) /\ \A i \in 1..Len(g) : g[i] = fa[i]
      BY <1>10, <1>14, <1>15
    <2> QED
      BY <2>1, SeqEqual
  <1>17. v = wb
    <2>1. Len(v) = Len(wb) /\ \A i \in 1..Len(v) : v[i] = wb[i]
      BY <1>11, <1>14, <1>15
    <2> QED
      BY <2>1, SeqEqual
  <1> QED
    BY <1>1, <1>3, <1>4, <1>5, <1>6, <1>7, <1>8, <1>12, <1>13, <1>16, <1>17

LEMMA EncodedTyped ==
    ASSUME NEW es \in Seq(Values) PROVE Sse!Encoded(es) \in Seq(Symbols)
  <1>1. Sse!Encoded(es) = Sse!FlattenSeq(Written(es))
    BY DEF Sse!Encoded, Written
  <1>2. PICK w \in Seq(Seq(Symbols)) : w = Written(es)
    BY WrittenTyped
  <1> QED
    BY <1>1, <1>2, FlattenTyped

\* One more event is four more symbols.
LEMMA EncodedAppend ==
    ASSUME NEW es \in Seq(Values), NEW e \in Values
    PROVE  Sse!Encoded(Append(es, e)) = Sse!Encoded(es) \o <<"data", e, "nl", "nl">>
  <1>1. \A fs : Sse!Encoded(fs) = Sse!FlattenSeq(Written(fs))
    BY DEF Sse!Encoded, Written
  <1>2. PICK w \in Seq(Seq(Symbols)) : w = Written(es)
    BY WrittenTyped
  <1>3. PICK b \in Seq(Symbols) : b = <<"data", e, "nl", "nl">>
    BY Letters
  <1>4. Sse!FlattenSeq(Append(w, b)) = Sse!FlattenSeq(w) \o b
    BY FlattenAppend
  <1>5. Written(Append(es, e)) = Append(w, b)
    BY <1>2, <1>3, WrittenAppend
  <1> QED
    BY <1>1, <1>2, <1>3, <1>4, <1>5

LEMMA EncodedEmpty == Sse!Encoded(<<>>) = <<>>
  <1>1. <<>> \in Seq(Values)
    BY EmptySeq
  <1>2. Written(<<>>) \in Seq(Seq(Symbols)) /\ Len(Written(<<>>)) = 0
    BY <1>1, WrittenTyped, EmptySeq
  <1>3. Written(<<>>) = <<>>
    BY <1>2, EmptySeq
  <1> QED
    BY <1>3, FlattenEmpty DEF Sse!Encoded, Written

-----------------------------------------------------------------------------
(* What the reader makes of it.                                             *)

\* What Put does where no delimiter ends.
Stays(p, last, x, d) == Sse!Put(Append(p, last), x, d) = Append(p, Append(last, x))

LEMMA PutOpen ==
    ASSUME NEW X, NEW d \in Seq(X), NEW p \in Seq(Seq(X)), NEW last \in Seq(X), NEW x \in X,
           ~Cut(Append(last, x), d)
    PROVE  Stays(p, last, x, d)
  <1>1. PICK t \in Pieces(X) : Replaces(t, last, x, d, X)
    BY PutForms
  <1>2. PICK piece \in Seq(X) : piece = Append(last, x)
    BY AppendProperties
  <1>3. t = <<piece>>
    BY <1>1, <1>2 DEF Replaces, Turned
  <1>4. Sse!Put(Append(p, last), x, d) = p \o t
    BY <1>1 DEF Replaces
  <1>5. Append(p, piece) = p \o <<piece>>
    OBVIOUS
  <1> QED
    BY <1>2, <1>3, <1>4, <1>5 DEF Stays

\* Two symbols next to each other.
LEMMA Neighbours ==
    ASSUME NEW X, NEW l \in Seq(X), NEW m \in Nat \ {0}, NEW n, n = m + 1, n <= Len(l)
    PROVE  /\ SubSeq(l, m, n) \in Seq(X) /\ Len(SubSeq(l, m, n)) = 2
           /\ SubSeq(l, m, n)[1] = l[m] /\ SubSeq(l, m, n)[2] = l[n]
  <1>1. Len(l) \in Nat /\ \A i \in 1..Len(l) : l[i] \in X
    BY LenProperties, ElementOfSeq
  <1>2. m \in Int /\ n \in Int /\ \A i \in m..n : l[i] \in X
    BY <1>1
  <1>3. n - m + 1 = 2 /\ m + 1 - 1 = m /\ m + 2 - 1 = n /\ m <= n
    BY <1>2
  <1>4. PICK c : c = SubSeq(l, m, n)
    OBVIOUS
  <1>5. c \in Seq(X) /\ Len(c) = 2 /\ \A i \in 1..2 : c[i] = l[m + i - 1]
    BY <1>2, <1>3, <1>4, SubSeqProperties
  <1>6. c[1] = l[m] /\ c[2] = l[n]
    BY <1>2, <1>3, <1>5
  <1> QED
    BY <1>4, <1>5, <1>6

\* No blank line ends where the last but one is no line break.
LEMMA NoBlankLine ==
    ASSUME NEW X, NEW l \in Seq(X), NEW d, Len(d) = 2, Len(l) # 0,
           Len(l) # 1 => l[Len(l) - 1] # d[1]
    PROVE  ~Cut(l, d)
  <1>1. PICK m \in Nat : m = Len(l) - 1 /\ Len(l) = m + 1
    BY LenProperties
  <1>2. CASE m = 0
    BY <1>1, <1>2 DEF Cut
  <1>3. CASE m # 0
    <2>1. PICK n : n = m + 1 /\ n <= Len(l)
      BY <1>1
    <2>2. SubSeq(l, m, n)[1] = l[m]
      BY <1>3, <2>1, Neighbours
    <2>3. Len(l) - Len(d) + 1 = m /\ Len(l) = n
      BY <1>1, <2>1
    <2>4. Cut(l, d) => SubSeq(l, m, n) = d
      BY <2>3 DEF Cut
    <2>5. l[m] # d[1]
      BY <1>1, <1>3
    <2> QED
      BY <2>2, <2>4, <2>5
  <1> QED
    BY <1>2, <1>3

\* The symbols of one event: three that join the open piece and one that ends it.
LEMMA FrameRead ==
    ASSUME NEW s \in Seq(Symbols), NEW p \in Seq(Seq(Symbols)), NEW e \in Values,
           Sse!Split(s, Sse!BlankLine) = Append(p, <<>>)
    PROVE  /\ Sse!Split(s \o <<"data", e>>, Sse!BlankLine) = Append(p, <<"data", e>>)
           /\ Sse!Split(s \o <<"data", e, "nl", "nl">>, Sse!BlankLine)
                = Append(Append(p, <<"data", e>>), <<>>)
  <1> DEFINE d == Sse!BlankLine
  <1>1. /\ "data" \in Symbols /\ "nl" \in Symbols /\ e \in Symbols /\ e # "nl"
        /\ d = <<"nl", "nl">> /\ d \in Seq(Symbols) /\ Len(d) = 2
    BY Blank, PartsAssumption DEF Symbols
  <1> HIDE DEF d
  <1>2. PICK l0 \in Seq(Symbols) : l0 = <<>>
    BY Letters
  <1>3. PICK l1 \in Seq(Symbols) : l1 = <<"data">>
    BY Letters
  <1>4. PICK l2 \in Seq(Symbols) : l2 = <<"data", e>>
    BY Letters
  <1>5. PICK l3 \in Seq(Symbols) : l3 = <<"data", e, "nl">>
    BY Letters
  <1>6. PICK l4 \in Seq(Symbols) : l4 = <<"data", e, "nl", "nl">>
    BY Letters
  <1>7. l1 = Append(l0, "data") /\ l2 = Append(l1, e) /\ l3 = Append(l2, "nl")
         /\ l4 = Append(l3, "nl")
    BY <1>2, <1>3, <1>4, <1>5, <1>6
  <1>8. /\ Len(l1) = 1 /\ Len(l2) = 2 /\ l2[1] = "data" /\ l2[2] = e
         /\ Len(l3) = 3 /\ l3[2] = e
         /\ Len(l4) = 4 /\ l4[1] = "data" /\ l4[2] = e /\ l4[3] = "nl" /\ l4[4] = "nl"
         /\ d[1] = "nl" /\ d[2] = "nl"
    BY <1>1, <1>3, <1>4, <1>5, <1>6
  <1>9. ~Cut(l1, d) /\ ~Cut(l2, d) /\ ~Cut(l3, d)
    <2>1. "data" # "nl" /\ e # "nl"
      BY <1>1
    <2>2. ~Cut(l1, d)
      BY <1>1, <1>8, NoBlankLine
    <2>3. ~Cut(l2, d)
      <3>1. Len(l2) - 1 = 1 /\ l2[1] # d[1]
        BY <1>8, <2>1
      <3> QED
        BY <1>1, <1>8, <3>1, NoBlankLine
    <2>4. ~Cut(l3, d)
      <3>1. Len(l3) - 1 = 2 /\ l3[2] # d[1]
        BY <1>8, <2>1
      <3> QED
        BY <1>1, <1>8, <3>1, NoBlankLine
    <2> QED
      BY <2>2, <2>3, <2>4
  <1>10. PICK s1 \in Seq(Symbols), s2 \in Seq(Symbols), s3 \in Seq(Symbols) :
            s1 = Append(s, "data") /\ s2 = Append(s1, e) /\ s3 = Append(s2, "nl")
    <2>1. PICK s1 \in Seq(Symbols) : s1 = Append(s, "data")
      BY <1>1, AppendProperties
    <2>2. PICK s2 \in Seq(Symbols) : s2 = Append(s1, e)
      BY <1>1, AppendProperties
    <2>3. PICK s3 \in Seq(Symbols) : s3 = Append(s2, "nl")
      BY <1>1, AppendProperties
    <2> QED
      BY <2>1, <2>2, <2>3
  <1>11. Sse!Split(s, d) = Append(p, l0)
    BY <1>2 DEF d
  <1>12. Sse!Split(s1, d) = Append(p, l1)
    <2>1. Sse!Split(s1, d) = Sse!Put(Append(p, l0), "data", d)
      <3>1. Sse!Split(Append(s, "data"), d) = Sse!Put(Sse!Split(s, d), "data", d)
        BY <1>1, SplitAppend
      <3> QED
        BY <1>10, <1>11, <3>1
    <2>2. ~Cut(Append(l0, "data"), d)
      BY <1>7, <1>9
    <2>3. Stays(p, l0, "data", d)
      BY <1>1, <2>2, PutOpen
    <2> QED
      BY <1>7, <2>1, <2>3 DEF Stays
  <1>13. Sse!Split(s2, d) = Append(p, l2)
    <2>1. Sse!Split(s2, d) = Sse!Put(Append(p, l1), e, d)
      <3>1. Sse!Split(Append(s1, e), d) = Sse!Put(Sse!Split(s1, d), e, d)
        BY <1>1, SplitAppend
      <3> QED
        BY <1>10, <1>12, <3>1
    <2>2. ~Cut(Append(l1, e), d)
      BY <1>7, <1>9
    <2>3. Stays(p, l1, e, d)
      BY <1>1, <2>2, PutOpen
    <2> QED
      BY <1>7, <2>1, <2>3 DEF Stays
  <1>14. Sse!Split(s3, d) = Append(p, l3)
    <2>1. Sse!Split(s3, d) = Sse!Put(Append(p, l2), "nl", d)
      <3>1. Sse!Split(Append(s2, "nl"), d) = Sse!Put(Sse!Split(s2, d), "nl", d)
        BY <1>1, SplitAppend
      <3> QED
        BY <1>10, <1>13, <3>1
    <2>2. ~Cut(Append(l2, "nl"), d)
      BY <1>7, <1>9
    <2>3. Stays(p, l2, "nl", d)
      BY <1>1, <2>2, PutOpen
    <2> QED
      BY <1>7, <2>1, <2>3 DEF Stays
  <1>15. Sse!Split(Append(s3, "nl"), d) = Append(Append(p, l2), <<>>)
    <2>1. Sse!Split(Append(s3, "nl"), d) = Sse!Put(Append(p, l3), "nl", d)
      BY <1>1, <1>14, SplitAppend
    <2>2. Sse!Last(Append(p, l3)) = l3 /\ Sse!Front(Append(p, l3)) = p
      BY Ends
    <2>3. 3 \in Nat \ {0} /\ 4 = 3 + 1 /\ 4 <= Len(l4) /\ 1 \in Nat \ {0} /\ 2 = 1 + 1
          /\ 2 <= Len(l4)
      BY <1>8
    <2>4. SubSeq(l4, 3, 4) = d
      <3>1. PICK c \in Seq(Symbols) : c = SubSeq(l4, 3, 4)
        BY <2>3, Neighbours
      <3>2. Len(c) = 2 /\ c[1] = l4[3] /\ c[2] = l4[4]
        BY <2>3, <3>1, Neighbours
      <3>3. \A i \in 1..2 : c[i] = d[i]
        BY <1>8, <3>2
      <3> QED
        BY <1>1, <3>1, <3>2, <3>3, SeqEqual
    <2>5. SubSeq(l4, 1, 2) = l2
      <3>1. PICK c \in Seq(Symbols) : c = SubSeq(l4, 1, 2)
        BY <2>3, Neighbours
      <3>2. Len(c) = 2 /\ c[1] = l4[1] /\ c[2] = l4[2]
        BY <2>3, <3>1, Neighbours
      <3>3. \A i \in 1..2 : c[i] = l2[i]
        BY <1>8, <3>2
      <3> QED
        BY <1>8, <3>1, <3>2, <3>3, SeqEqual
    <2>6. Len(l4) - Len(d) = 2 /\ 2 >= 0 /\ 2 + 1 = 3
      BY <1>1, <1>8
    <2>7. Sse!Put(Append(p, l3), "nl", d) = p \o <<l2, <<>>>>
      BY <1>1, <1>7, <1>8, <2>2, <2>4, <2>5, <2>6 DEF Sse!Put
    <2>8. p \o <<l2, <<>>>> = Append(Append(p, l2), <<>>)
      OBVIOUS
    <2> QED
      BY <2>1, <2>7, <2>8
  <1>16. s \o <<"data", e>> = s2
    BY <1>1, <1>10
  <1>17. s \o <<"data", e, "nl", "nl">> = Append(s3, "nl")
    BY <1>1, <1>10
  <1> QED
    BY <1>4, <1>13, <1>15, <1>16, <1>17 DEF d

\* The pieces of a body are its frames, and nothing after the last of them.
LEMMA EncodedSplit ==
    ASSUME NEW es \in Seq(Values)
    PROVE  Sse!Split(Sse!Encoded(es), Sse!BlankLine) = Append(Framed(es), <<>>)
  <1> DEFINE Fits(fs) == Sse!Split(Sse!Encoded(fs), Sse!BlankLine) = Append(Framed(fs), <<>>)
             G == {fs \in Seq(Values) : Fits(fs)}
  <1>1. <<>> \in G
    <2>1. <<>> \in Seq(Values)
      BY EmptySeq
    <2>2. Framed(<<>>) \in Seq(Seq(Symbols)) /\ Len(Framed(<<>>)) = 0
      BY <2>1, WrittenTyped, EmptySeq
    <2>3. Framed(<<>>) = <<>>
      BY <2>2, EmptySeq
    <2>4. Append(<<>>, <<>>) = <<<<>>>>
      OBVIOUS
    <2> QED
      BY <2>1, <2>3, <2>4, EncodedEmpty, SplitEmpty
  <1>2. ASSUME NEW fs \in G, NEW e \in Values PROVE Append(fs, e) \in G
    <2>1. fs \in Seq(Values) /\ Fits(fs)
      OBVIOUS
    <2>2. PICK s \in Seq(Symbols) : s = Sse!Encoded(fs)
      BY <2>1, EncodedTyped
    <2>3. PICK p \in Seq(Seq(Symbols)) : p = Framed(fs)
      BY <2>1, WrittenTyped
    <2>4. Sse!Split(s \o <<"data", e, "nl", "nl">>, Sse!BlankLine)
            = Append(Append(p, <<"data", e>>), <<>>)
      BY <2>1, <2>2, <2>3, FrameRead
    <2>5. Fits(Append(fs, e))
      BY <2>1, <2>2, <2>3, <2>4, EncodedAppend, WrittenAppend
    <2> QED
      BY <2>1, <2>5, AppendProperties
  <1>3. G = Seq(Values)
    <2> G \in SUBSET Seq(Values)
      OBVIOUS
    <2> HIDE DEF G
    <2> QED
      BY <1>1, <1>2, ClimbSeq
  <1> QED
    BY <1>3

\* One piece flattens to itself.
LEMMA FlattenOne ==
    ASSUME NEW S, NEW r \in Seq(S), NEW rs, rs = [i \in 1..1 |-> r]
    PROVE  Sse!FlattenSeq(rs) = r
  <1>1. PICK none \in Seq(Seq(S)) : none = <<>>
    BY EmptySeq
  <1>2. Sse!FlattenSeq(Append(none, r)) = Sse!FlattenSeq(none) \o r
    BY FlattenAppend
  <1>3. Append(none, r) = rs
    <2>1. Append(none, r) = <<r>>
      BY <1>1
    <2>2. rs = <<r>>
      OBVIOUS
    <2> QED
      BY <2>1, <2>2
  <1>4. <<>> \o r = r
    BY ConcatEmptySeq
  <1> QED
    BY <1>1, <1>2, <1>3, <1>4, FlattenEmpty

\* Of a frame of one line, the payload is what follows the prefix.
LEMMA OneLine ==
    ASSUME NEW f \in Seq(Symbols), Sse!Split(f, <<"nl">>) = <<f>>,
           NEW rest \in Seq(Symbols),
           rest = IF f # <<>> /\ f[1] = "data" THEN Tail(f) ELSE <<>>
    PROVE  Sse!Payload(f) = rest
  <1>1. PICK lines : lines = Sse!Split(f, <<"nl">>) /\ Len(lines) = 1 /\ lines[1] = f
    OBVIOUS
  <1>2. PICK rs : rs = [i \in 1..Len(lines) |->
            IF lines[i] # <<>> /\ lines[i][1] = "data" THEN Tail(lines[i]) ELSE <<>>]
    OBVIOUS
  <1>3. rs = [i \in 1..1 |-> rest]
    BY <1>1, <1>2
  <1>4. Sse!FlattenSeq(rs) = rest
    BY <1>3, FlattenOne
  <1>5. Sse!Payload(f) = Sse!FlattenSeq(rs)
    BY <1>1, <1>2 DEF Sse!Payload
  <1> QED
    BY <1>4, <1>5

LEMMA EmptyFrame == Sse!ParseFrame(<<>>) = <<>>
  <1>1. PICK f \in Seq(Symbols) : f = <<>>
    BY EmptySeq
  <1>2. Sse!Split(f, <<"nl">>) = <<f>>
    BY <1>1, SplitEmpty
  <1>3. Sse!Payload(f) = f
    BY <1>1, <1>2, OneLine
  <1>4. Len(Sse!Payload(f)) # 1
    BY <1>1, <1>3
  <1> QED
    BY <1>1, <1>4 DEF Sse!ParseFrame

\* The frame of an event is read as that event, the empty one as none.
LEMMA EventFrame == ASSUME NEW e \in Values PROVE Sse!ParseFrame(<<"data", e>>) = <<e>>
  <1> DEFINE d == <<"nl">>
  <1>1. d \in Seq(Symbols) /\ Len(d) = 1 /\ d[1] = "nl" /\ e # "nl" /\ "data" # "nl"
    BY PartsAssumption DEF Symbols
  <1> HIDE DEF d
  <1>2. PICK l0 \in Seq(Symbols) : l0 = <<>>
    BY Letters
  <1>3. PICK l1 \in Seq(Symbols) : l1 = <<"data">>
    BY Letters
  <1>4. PICK l2 \in Seq(Symbols) : l2 = <<"data", e>>
    BY Letters
  <1>5. PICK none \in Seq(Seq(Symbols)) : none = <<>>
    BY EmptySeq
  <1>6. "data" \in Symbols /\ e \in Symbols
    BY Letters
  <1>7. l1 = Append(l0, "data") /\ l2 = Append(l1, e) /\ Len(l1) = 1 /\ Len(l2) = 2
        /\ l1[1] = "data" /\ l2[1] = "data" /\ l2[2] = e
    BY <1>2, <1>3, <1>4
  <1>8. ~Cut(l1, d) /\ ~Cut(l2, d)
    <2>1. ASSUME NEW l \in Seq(Symbols), NEW n \in Nat \ {0}, Len(l) = n, l[n] # "nl"
          PROVE  ~Cut(l, d)
      <3>1. Len(l) - Len(d) + 1 = n
        BY <1>1, <2>1
      <3>2. Cut(l, d) => SubSeq(l, n, n) = d
        BY <2>1, <3>1 DEF Cut
      <3>3. SubSeq(l, n, n)[1] = l[n]
        <4>1. \A i \in n..n : l[i] \in Symbols
          BY <2>1, ElementOfSeq
        <4>2. \A i \in 1..n - n + 1 : SubSeq(l, n, n)[i] = l[n + i - 1]
          BY <4>1, SubSeqProperties
        <4>3. 1 \in 1..n - n + 1 /\ n + 1 - 1 = n
          OBVIOUS
        <4> QED
          BY <4>2, <4>3
      <3> QED
        BY <1>1, <2>1, <3>2, <3>3
    <2>2. ~Cut(l1, d)
      <3>1. 1 \in Nat \ {0} /\ l1[1] # "nl"
        BY <1>1, <1>7
      <3> QED
        BY <1>7, <2>1, <3>1
    <2>3. ~Cut(l2, d)
      <3>1. 2 \in Nat \ {0} /\ l2[2] # "nl"
        BY <1>1, <1>7
      <3> QED
        BY <1>7, <2>1, <3>1
    <2> QED
      BY <2>2, <2>3
  <1>9. Sse!Split(l1, d) = Append(none, l1)
    <2>1. Sse!Split(l0, d) = Append(none, l0)
      BY <1>2, <1>5, SplitEmpty
    <2>2. Sse!Split(l1, d) = Sse!Put(Append(none, l0), "data", d)
      BY <1>6, <1>7, <2>1, SplitAppend
    <2>3. ~Cut(Append(l0, "data"), d)
      BY <1>7, <1>8
    <2>4. Stays(none, l0, "data", d)
      BY <1>1, <1>6, <2>3, PutOpen
    <2> QED
      BY <1>7, <2>2, <2>4 DEF Stays
  <1>10. Sse!Split(l2, d) = Append(none, l2)
    <2>1. Sse!Split(l2, d) = Sse!Put(Append(none, l1), e, d)
      BY <1>6, <1>7, <1>9, SplitAppend
    <2>2. ~Cut(Append(l1, e), d)
      BY <1>7, <1>8
    <2>3. Stays(none, l1, e, d)
      BY <1>1, <1>6, <2>2, PutOpen
    <2> QED
      BY <1>7, <2>1, <2>3 DEF Stays
  <1>11. Sse!Split(l2, <<"nl">>) = <<l2>>
    BY <1>5, <1>10 DEF d
  <1>12. Tail(l2) = <<e>> /\ <<e>> \in Seq(Symbols) /\ l2 # <<>>
    BY <1>4, <1>6
  <1>13. Sse!Payload(l2) = <<e>>
    BY <1>7, <1>11, <1>12, OneLine
  <1>14. Len(<<e>>) = 1 /\ <<e>>[1] = e
    OBVIOUS
  <1>15. Sse!ParseFrame(l2) = <<e>>
    BY <1>13, <1>14 DEF Sse!ParseFrame
  <1> QED
    BY <1>4, <1>15

\* The frames of a list of events are read as that list.
LEMMA FramedEvents == ASSUME NEW es \in Seq(Values) PROVE Sse!Events(Framed(es)) = es
  <1> DEFINE ReadBack(fs) == Sse!Events(Framed(fs)) = fs
             G == {fs \in Seq(Values) : ReadBack(fs)}
  <1>1. <<>> \in G
    <2>1. <<>> \in Seq(Values)
      BY EmptySeq
    <2>2. Framed(<<>>) \in Seq(Seq(Symbols)) /\ Len(Framed(<<>>)) = 0
      BY <2>1, WrittenTyped, EmptySeq
    <2>3. Framed(<<>>) = <<>>
      BY <2>2, EmptySeq
    <2> QED
      BY <2>1, <2>3, EventsEmpty
  <1>2. ASSUME NEW fs \in G, NEW e \in Values PROVE Append(fs, e) \in G
    <2>1. fs \in Seq(Values) /\ ReadBack(fs)
      OBVIOUS
    <2>2. PICK p \in Seq(Seq(Symbols)) : p = Framed(fs)
      BY <2>1, WrittenTyped
    <2>3. PICK f \in Seq(Symbols) : f = <<"data", e>>
      BY Letters
    <2>4. Sse!Events(Append(p, f)) = Sse!Events(p) \o Sse!ParseFrame(f)
      BY EventsAppend
    <2>5. Sse!Events(Framed(Append(fs, e))) = fs \o <<e>>
      BY <2>1, <2>2, <2>3, <2>4, EventFrame, WrittenAppend
    <2>6. fs \o <<e>> = Append(fs, e)
      BY <2>1
    <2> QED
      BY <2>1, <2>5, <2>6, AppendProperties
  <1>3. G = Seq(Values)
    <2> G \in SUBSET Seq(Values)
      OBVIOUS
    <2> HIDE DEF G
    <2> QED
      BY <1>1, <1>2, ClimbSeq
  <1> QED
    BY <1>3

LEMMA TwoMore ==
    ASSUME NEW X, NEW p \in Seq(X), NEW b \in X, NEW c \in X
    PROVE  Append(Append(p, b), c) = p \o <<b, c>>
  OBVIOUS

\* Whole or without its last blank line, a body says what was written.
LEMMA EncodedEvents ==
    ASSUME NEW es \in Seq(Values), NEW body,
           body \in {Sse!Encoded(es), SubSeq(Sse!Encoded(es), 1, Len(Sse!Encoded(es)) - 2)}
    PROVE  Sse!Events(Sse!Split(body, Sse!BlankLine)) = es
  <1>1. CASE body = Sse!Encoded(es)
    <2>1. PICK p \in Seq(Seq(Symbols)) : p = Framed(es)
      BY WrittenTyped
    <2>2. PICK none \in Seq(Symbols) : none = <<>>
      BY EmptySeq
    <2>3. Sse!Events(Append(p, none)) = Sse!Events(p) \o Sse!ParseFrame(none)
      BY EventsAppend
    <2>4. es \o <<>> = es
      BY ConcatEmptySeq
    <2>5. Sse!Split(body, Sse!BlankLine) = Append(p, none)
      BY <1>1, <2>1, <2>2, EncodedSplit
    <2> QED
      BY <2>1, <2>2, <2>3, <2>4, <2>5, FramedEvents, EmptyFrame
  <1>2. CASE body = SubSeq(Sse!Encoded(es), 1, Len(Sse!Encoded(es)) - 2)
    <2>1. CASE es = <<>>
      <3>1. Sse!Encoded(es) = <<>>
        BY <2>1, EncodedEmpty
      <3>2. body = <<>>
        BY <1>2, <3>1, SubSeqEmpty, EmptySeq
      <3> QED
        BY <1>1, <3>1, <3>2
    <2>2. CASE es # <<>>
      <3>1. PICK fs \in Seq(Values), e \in Values : es = Append(fs, e)
        BY <2>2, SequenceEmptyOrAppend
      <3>2. PICK s \in Seq(Symbols) : s = Sse!Encoded(fs)
        BY EncodedTyped
      <3>3. PICK p \in Seq(Seq(Symbols)) : p = Framed(fs)
        BY WrittenTyped
      <3>4. PICK f \in Seq(Symbols) : f = <<"data", e>>
        BY Letters
      <3>5. PICK head \in Seq(Symbols) : head = s \o f
        BY ConcatProperties
      <3>6. body = head
        <4>1. PICK blank \in Seq(Symbols) : blank = <<"nl", "nl">>
          BY Blank
        <4>2. Sse!Encoded(es) = s \o <<"data", e, "nl", "nl">>
          BY <3>1, <3>2, EncodedAppend
        <4>3. f \o blank = <<"data", e, "nl", "nl">>
          <5>1. PICK three \in Seq(Symbols) : three = <<"data", e, "nl">>
            BY Letters
          <5>2. PICK four \in Seq(Symbols) : four = <<"data", e, "nl", "nl">>
            BY Letters
          <5>3. three = Append(f, "nl") /\ four = Append(three, "nl")
            BY <3>4, <5>1, <5>2
          <5>4. PICK nl \in Symbols : nl = "nl"
            BY Letters
          <5>5. Append(Append(f, nl), nl) = f \o <<nl, nl>>
            BY TwoMore
          <5>6. Append(Append(f, "nl"), "nl") = f \o <<"nl", "nl">>
            BY <5>4, <5>5
          <5> QED
            BY <4>1, <5>2, <5>3, <5>6
        <4>4. (s \o f) \o blank = s \o (f \o blank)
          BY ConcatAssociative
        <4>5. PICK whole \in Seq(Symbols) : whole = head \o blank
          BY ConcatProperties
        <4>6. Sse!Encoded(es) = whole
          BY <3>5, <4>2, <4>3, <4>4, <4>5
        <4>7. Len(head) \in Nat /\ Len(whole) - 2 = Len(head)
          <5>1. Len(whole) = Len(head) + Len(blank) /\ Len(blank) = 2 /\ Len(head) \in Nat
            BY <4>1, <4>5, ConcatProperties, LenProperties
          <5> QED
            BY <5>1
        <4>8. SubSeq(whole, 1, Len(head)) = head
          BY <4>5, <4>7
        <4> QED
          BY <1>2, <4>6, <4>7, <4>8
      <3>7. Sse!Split(s, Sse!BlankLine) = Append(p, <<>>)
        BY <3>2, <3>3, EncodedSplit
      <3>8. Sse!Split(head, Sse!BlankLine) = Append(p, f)
        BY <3>4, <3>5, <3>7, FrameRead
      <3>9. Sse!Events(Append(p, f)) = Sse!Events(p) \o Sse!ParseFrame(f)
        BY EventsAppend
      <3>10. fs \o <<e>> = es
        BY <3>1
      <3> QED
        BY <3>3, <3>4, <3>6, <3>8, <3>9, <3>10, FramedEvents, EventFrame
    <2> QED
      BY <2>1, <2>2
  <1> QED
    BY <1>1, <1>2

-----------------------------------------------------------------------------
(* The inductive invariant of the reader: it stands where splitting what    *)
(* has arrived in one piece would.                                          *)

SoFar == Sse!Split(SubSeq(text, 1, received), Sse!BlankLine)

SseIInv ==
    /\ text \in Seq(Symbols) /\ received \in 0..Len(text) /\ ended \in BOOLEAN
    /\ buffer = Sse!Last(SoFar)
    /\ ~ended => yielded = Sse!Events(Sse!Front(SoFar))
    /\ ended => received = Len(text) /\ yielded = Sse!Events(SoFar)

LEMMA BoundedIsSeq ==
    ASSUME NEW S, NEW n \in Nat, NEW s \in Sse!BoundedSeq(S, n)
    PROVE  s \in Seq(S)
  <1>1. PICK m \in 0..n : s \in [1..m -> S]
    BY DEF Sse!BoundedSeq, Sse!SeqOf
  <1> QED
    BY <1>1, SeqDef

\* Nothing has arrived.
LEMMA SseInit ==
    ASSUME NEW bodies, bodies \subseteq Seq(Symbols), Sse!InitFor(bodies)
    PROVE  SseIInv
  <1>1. /\ text \in Seq(Symbols) /\ received = 0 /\ buffer = <<>> /\ yielded = <<>>
        /\ ended = FALSE
    BY DEF Sse!InitFor
  <1>2. SubSeq(text, 1, 0) = <<>>
    BY SubSeqEmpty
  <1>3. SoFar = <<<<>>>>
    BY <1>1, <1>2, SplitEmpty DEF SoFar
  <1>4. Sse!Last(<<<<>>>>) = <<>>
    BY DEF Sse!Last
  <1>5. Sse!Front(<<<<>>>>) = <<>>
    BY SubSeqEmpty DEF Sse!Front
  <1>6. received \in 0..Len(text)
    BY <1>1, LenProperties
  <1> QED
    BY <1>1, <1>3, <1>4, <1>5, <1>6, EventsEmpty DEF SseIInv

\* A chunk is split with the piece that was held back.
LEMMA ReadKeeps ==
    ASSUME SseIInv, NEW k \in 1..MaxText, Sse!Read(k) PROVE SseIInv'
  <1> DEFINE d == Sse!BlankLine
  <1>1. /\ ended = FALSE /\ received + k <= Len(text) /\ received' = received + k
        /\ text' = text /\ ended' = ended
    BY DEF Sse!Read, SseIInv
  <1>2. Len(text) \in Nat /\ received \in Nat /\ k \in Nat /\ received <= Len(text)
    BY LenProperties, PartsAssumption DEF SseIInv
  <1>3. text \in Seq(Symbols) /\ d \in Seq(Symbols)
    BY Blank DEF SseIInv
  <1>4. PICK p \in Seq(Symbols) : p = SubSeq(text, 1, received)
    <2>1. received \in 0..Len(text)
      BY DEF SseIInv
    <2> QED
      BY <1>3, <2>1, Begun
  <1>5. PICK c \in Seq(Symbols) : c = SubSeq(text, received + 1, received + k)
    <2>1. \A i \in received + 1..received + k : text[i] \in Symbols
      BY <1>1, <1>2, <1>3, ElementOfSeq
    <2>2. received + 1 \in Int /\ received + k \in Int
      BY <1>2
    <2> QED
      BY <2>1, <2>2, SubSeqProperties
  <1>6. SubSeq(text, 1, received + k) = p \o c
    BY <1>1, <1>2, <1>3, <1>4, <1>5, ConcatAdjacentSubSeq
  <1>7. PICK front \in Seq(Seq(Symbols)), open \in Seq(Symbols) :
            front = Sse!Front(Sse!Split(p, d)) /\ open = Sse!Last(Sse!Split(p, d))
    BY <1>3, SplitTyped, LastOfPieces
  <1>8. SoFar = Sse!Split(p, d) /\ buffer = open /\ yielded = Sse!Events(front)
    BY <1>1, <1>4, <1>7 DEF SoFar, SseIInv
  <1>9. PICK oc \in Seq(Symbols) : oc = open \o c
    BY ConcatProperties
  <1>10. PICK pieces \in Pieces(Symbols) : pieces = Sse!Split(oc, d)
    BY <1>3, SplitTyped
  <1>11. Sse!Split(p \o c, d) = front \o pieces
    <2>1. Further(p, c, d)
      BY <1>3, SplitFurther
    <2> QED
      BY <1>7, <1>9, <1>10, <2>1 DEF Further
  <1>12. SoFar' = front \o pieces
    BY <1>1, <1>6, <1>11 DEF SoFar, Sse!BlankLine
  <1>13. buffer' = Sse!Last(pieces)
         /\ yielded' = Sse!Events(front) \o Sse!Events(Sse!Front(pieces))
    BY <1>5, <1>8, <1>9, <1>10 DEF Sse!Read
  <1>14. /\ Sse!Last(front \o pieces) = Sse!Last(pieces)
         /\ Sse!Front(front \o pieces) = front \o Sse!Front(pieces)
         /\ Sse!Front(pieces) \in Seq(Seq(Symbols))
    BY LastOfJoined, LastOfPieces
  <1>15. buffer' = Sse!Last(SoFar')
    BY <1>12, <1>13, <1>14
  <1>16. yielded' = Sse!Events(Sse!Front(SoFar'))
    <2>1. Distributes(front, Sse!Front(pieces))
      BY <1>14, EventsJoined
    <2> QED
      BY <1>12, <1>13, <1>14, <2>1 DEF Distributes
  <1>17. received' \in 0..Len(text')
    BY <1>1, <1>2
  <1> QED
    BY <1>1, <1>3, <1>15, <1>16, <1>17 DEF SseIInv

\* The piece held back is the last frame.
LEMMA FinishKeeps ==
    ASSUME SseIInv, Sse!Finish PROVE SseIInv'
  <1>1. /\ ended = FALSE /\ ended' = TRUE /\ received = Len(text)
        /\ text' = text /\ received' = received /\ buffer' = buffer
        /\ yielded' = yielded \o Sse!ParseFrame(buffer)
    BY DEF Sse!Finish, SseIInv
  <1>2. SubSeq(text, 1, received) \in Seq(Symbols)
    BY Begun DEF SseIInv
  <1>3. PICK ps \in Pieces(Symbols) : ps = SoFar
    BY <1>2, Blank, SplitTyped DEF SoFar
  <1>4. /\ ps = Append(Sse!Front(ps), Sse!Last(ps))
        /\ Sse!Front(ps) \in Seq(Seq(Symbols)) /\ Sse!Last(ps) \in Seq(Symbols)
    BY LastOfPieces
  <1>5. Sse!Events(ps) = Sse!Events(Sse!Front(ps)) \o Sse!ParseFrame(Sse!Last(ps))
    BY <1>4, EventsAppend
  <1>6. yielded' = Sse!Events(ps)
    BY <1>1, <1>3, <1>5 DEF SseIInv
  <1>7. SoFar' = SoFar
    BY <1>1 DEF SoFar, Sse!BlankLine
  <1> QED
    BY <1>1, <1>3, <1>6, <1>7 DEF SseIInv

LEMMA SseKept ==
    ASSUME SseIInv, [Sse!Next]_Sse!vars PROVE SseIInv'
  <1>1. CASE UNCHANGED Sse!vars
    BY <1>1 DEF SseIInv, SoFar, Sse!vars
  <1> QED
    BY <1>1, ReadKeeps, FinishKeeps DEF Sse!Next

\* What is held back is the end of what has arrived.
LEMMA SseTyped == SseIInv => Sse!TypeOK
  <1> SUFFICES ASSUME SseIInv PROVE Sse!TypeOK
    OBVIOUS
  <1>1. /\ text \in Seq(Symbols) /\ received \in 0..Len(text) /\ ended \in BOOLEAN
        /\ Len(text) \in Nat
    BY LenProperties DEF SseIInv
  <1>2. PICK p \in Seq(Symbols) : p = SubSeq(text, 1, received)
    BY <1>1, Begun
  <1>3. SoFar = Sse!Split(p, Sse!BlankLine) /\ SoFar \in Pieces(Symbols)
    BY <1>2, Blank, SplitTyped DEF SoFar
  <1>4. PICK h \in Seq(Symbols) : p = h \o buffer
    BY <1>2, <1>3, Blank, LastEnds DEF SseIInv
  <1>5. buffer \in Seq(Symbols)
    BY <1>3, LastOfPieces DEF SseIInv
  <1>6. yielded \in Seq(Values)
    <2>1. Sse!Events(SoFar) \in Seq(Values) /\ Sse!Events(Sse!Front(SoFar)) \in Seq(Values)
      BY <1>3, LastOfPieces, EventsTyped DEF Pieces
    <2> QED
      BY <1>1, <2>1 DEF SseIInv
  <1>7. Len(p) = received /\ \A i \in 1..received : p[i] = text[i]
    BY <1>1, <1>2
  <1> DEFINE m == Len(buffer)
             n == Len(h)
  <1>8. m \in Nat /\ n \in Nat /\ n + m = received
        /\ \A i \in 1..m : p[n + i] = buffer[i]
    <2>1. m \in Nat /\ n \in Nat
      BY <1>5, LenProperties
    <2>2. Len(p) = n + m /\ \A i \in 1..n + m : p[i] = IF i <= n THEN h[i] ELSE buffer[i - n]
      BY <1>4, <1>5, ConcatProperties
    <2>3. ASSUME NEW i \in 1..m PROVE p[n + i] = buffer[i]
      <3>1. n + i \in 1..n + m /\ ~(n + i <= n) /\ (n + i) - n = i
        BY <2>1
      <3> QED
        BY <2>2, <3>1
    <2> QED
      BY <1>7, <2>1, <2>2, <2>3
  <1> HIDE DEF m, n
  <1>9. buffer = SubSeq(text, received - m + 1, received)
    <2>1. PICK a \in Int : a = received - m + 1 /\ a = n + 1
      BY <1>8
    <2>2. \A i \in a..received : text[i] \in Symbols
      BY <1>1, <1>8, <2>1, ElementOfSeq
    <2>3. received \in Int
      BY <1>1
    <2>4. PICK c \in Seq(Symbols) : c = SubSeq(text, a, received)
      BY <2>2, <2>3, SubSeqProperties
    <2>5. Len(c) = IF a <= received THEN received - a + 1 ELSE 0
      BY <2>2, <2>3, <2>4, SubSeqProperties
    <2>6. \A i \in 1..received - a + 1 : c[i] = text[a + i - 1]
      BY <2>2, <2>3, <2>4, SubSeqProperties
    <2>7. Len(c) = m
      BY <1>8, <2>1, <2>3, <2>5
    <2>8. ASSUME NEW i \in 1..m PROVE c[i] = buffer[i]
      <3>1. i \in 1..received - a + 1 /\ a + i - 1 = n + i /\ n + i \in 1..received
        BY <1>8, <2>1, <2>3
      <3>2. c[i] = text[n + i]
        BY <2>6, <3>1
      <3> QED
        BY <1>7, <1>8, <3>1, <3>2
    <2>9. c = buffer
      BY <1>5, <2>7, <2>8, SeqEqual DEF m
    <2> QED
      BY <2>1, <2>4, <2>9
  <1>10. m <= received
    BY <1>8
  <1> QED
    BY <1>1, <1>5, <1>6, <1>9, <1>10 DEF m, Sse!TypeOK, Sse!Symbol, Symbols

\* A concatenation begins with its first part.
LEMMA PrefixOf ==
    ASSUME NEW S, NEW a \in Seq(S), NEW b \in Seq(S) PROVE Sse!IsPrefix(a, a \o b)
  <1>1. Len(a) \in Nat /\ Len(b) \in Nat /\ Len(a \o b) = Len(a) + Len(b)
    BY ConcatProperties, LenProperties
  <1>2. SubSeq(a \o b, 1, Len(a)) = a
    OBVIOUS
  <1>3. SubSeq(a, 1, Len(a)) = a
    BY SubSeqFull
  <1> QED
    BY <1>1, <1>2, <1>3 DEF Sse!IsPrefix

\* The invariant says what the property does: of a prefix of the body while it
\* lasts, of the whole of it at the end.
LEMMA SseDelivers == SseIInv => Sse!EveryEventDelivered
  <1> SUFFICES ASSUME SseIInv PROVE Sse!EveryEventDelivered
    OBVIOUS
  <1>1. /\ text \in Seq(Symbols) /\ received \in 0..Len(text) /\ ended \in BOOLEAN
        /\ Len(text) \in Nat
    BY LenProperties DEF SseIInv
  <1>2. PICK p \in Seq(Symbols) : p = SubSeq(text, 1, received)
    BY <1>1, Begun
  <1>3. SoFar = Sse!Split(p, Sse!BlankLine) /\ SoFar \in Pieces(Symbols)
    BY <1>2, Blank, SplitTyped DEF SoFar
  <1>4. ended => yielded = Sse!Events(Sse!Split(text, Sse!BlankLine))
    <2>1. SubSeq(text, 1, Len(text)) = text
      BY <1>1, SubSeqFull
    <2> QED
      BY <2>1 DEF SseIInv, SoFar
  <1>5. Sse!IsPrefix(yielded, Sse!Events(Sse!Split(text, Sse!BlankLine)))
    <2>1. CASE ended
      <3>1. PICK all \in Seq(Values) : all = Sse!Events(Sse!Split(text, Sse!BlankLine))
        BY <1>1, Blank, SplitTyped, EventsTyped DEF Pieces
      <3>2. Sse!IsPrefix(all, all)
        BY LenProperties DEF Sse!IsPrefix
      <3> QED
        BY <1>4, <2>1, <3>1, <3>2
    <2>2. CASE ~ended
      <3>1. PICK front \in Seq(Seq(Symbols)), open \in Seq(Symbols) :
                front = Sse!Front(SoFar) /\ open = Sse!Last(SoFar)
        BY <1>3, LastOfPieces
      <3>2. PICK rest \in Seq(Symbols) : text = p \o rest
        <4>1. PICK rest : rest = SubSeq(text, received + 1, Len(text))
          OBVIOUS
        <4>2. \A i \in received + 1..Len(text) : text[i] \in Symbols
          BY <1>1, ElementOfSeq
        <4>3. rest \in Seq(Symbols)
          BY <1>1, <4>1, <4>2, SubSeqProperties
        <4>4. p \o rest = SubSeq(text, 1, Len(text))
          <5>1. /\ 1 \in 1..Len(text) + 1 /\ received \in 1 - 1..Len(text)
                /\ Len(text) \in received..Len(text)
            BY <1>1
          <5> QED
            BY <1>1, <1>2, <4>1, <5>1, ConcatAdjacentSubSeq
        <4>5. SubSeq(text, 1, Len(text)) = text
          BY <1>1, SubSeqFull
        <4> QED
          BY <4>3, <4>4, <4>5
      <3>3. PICK other \in Pieces(Symbols) : other = Sse!Split(open \o rest, Sse!BlankLine)
        BY Blank, SplitTyped, ConcatProperties
      <3>4. Sse!Split(text, Sse!BlankLine) = front \o other
        <4>1. Further(p, rest, Sse!BlankLine)
          BY Blank, SplitFurther
        <4> QED
          BY <1>3, <3>1, <3>2, <3>3, <4>1 DEF Further
      <3>5. Distributes(front, other)
        BY EventsJoined DEF Pieces
      <3>6. PICK a \in Seq(Values), b \in Seq(Values) :
                a = Sse!Events(front) /\ b = Sse!Events(other)
        BY EventsTyped DEF Pieces
      <3>7. Sse!IsPrefix(a, a \o b)
        BY PrefixOf
      <3>8. yielded = a /\ Sse!Events(Sse!Split(text, Sse!BlankLine)) = a \o b
        BY <2>2, <3>1, <3>4, <3>5, <3>6 DEF SseIInv, Distributes
      <3> QED
        BY <3>7, <3>8
    <2> QED
      BY <1>1, <2>1, <2>2
  <1>6. ended => \A events \in Sse!BoundedSeq(Values, MaxText \div 4 + 1) :
            text \in {Sse!Encoded(events),
                      SubSeq(Sse!Encoded(events), 1, Len(Sse!Encoded(events)) - 2)}
                => yielded = events
    <2>1. MaxText \div 4 + 1 \in Nat
      BY PartsAssumption
    <2> QED
      BY <1>4, <2>1, BoundedIsSeq, EncodedEvents
  <1> QED
    BY <1>5, <1>6 DEF Sse!EveryEventDelivered

-----------------------------------------------------------------------------
(* Side by side: a step of one part leaves the others as they are.          *)

PartsIInv ==
    /\ part \in {"sse", "grading", "cassette", "gate"}
    /\ SseIInv /\ IInv /\ GateIInv /\ TapeIInv

\* The cases of the instance are cases.
LEMMA CasesAreCases == Cases \cup {NoCase} \subseteq Case
  <1>1. ASSUME NEW n \in 0..MaxExpected,
               NEW ceilings, ceilings \subseteq 0..MaxActual \cup {NoCeiling},
               NEW forbidden, forbidden \subseteq SUBSET Names
        PROVE  CasesWith(n, ceilings, forbidden) \subseteq Case
    <2> DEFINE Narrow == [name : Names, accepts : SUBSET Args \ {{}}]
    <2>1. n \in Nat /\ MaxExpected \in Nat /\ n <= MaxExpected
      BY <1>1, GradingAssumption
    <2>2. Narrow \subseteq Expectation
      BY DEF Expectation
    <2>3. SeqUpTo(Narrow, n) \subseteq SeqUpTo(Expectation, MaxExpected)
      <3> HIDE DEF Narrow
      <3> SUFFICES ASSUME NEW s \in SeqUpTo(Narrow, n)
                   PROVE  s \in SeqUpTo(Expectation, MaxExpected)
        OBVIOUS
      <3>1. PICK k \in 0..n : s \in [1..k -> Narrow]
        BY DEF SeqUpTo
      <3>2. s \in [1..k -> Expectation] /\ k \in 0..MaxExpected
        BY <2>1, <2>2, <3>1
      <3> QED
        BY <3>2 DEF SeqUpTo
    <2>4. ASSUME NEW c \in CasesWith(n, ceilings, forbidden) PROVE c \in Case
      <3> HIDE DEF Narrow
      <3>1. c \in [expected : SeqUpTo(Narrow, n), mode : Modes,
                   ceiling : ceilings, forbidden : forbidden]
        BY <2>4 DEF CasesWith, Narrow
      <3> QED
        BY <1>1, <2>3, <3>1 DEF Case
    <2> QED
      BY <2>4
  <1>2. Cases \subseteq Case
    <2>1. MaxExpected \in 0..MaxExpected /\ 1 \in 0..MaxExpected /\ 2 \in 0..MaxActual
      BY GradingAssumption, PartsAssumption
    <2>2. PICK n : n = (CHOOSE m \in Names : TRUE) /\ n \in Names
      BY PartsAssumption
    <2>3. CasesWith(MaxExpected, {NoCeiling}, {{}}) \subseteq Case
      BY <1>1, <2>1
    <2>4. CasesWith(1, {NoCeiling, 2}, {{}, {n}}) \subseteq Case
      BY <1>1, <2>1, <2>2
    <2> QED
      BY <2>2, <2>3, <2>4 DEF Cases
  <1>3. NoCase \in Case
    <2>1. <<>> \in SeqUpTo(Expectation, MaxExpected)
      <3>1. 0 \in 0..MaxExpected /\ <<>> \in [1..0 -> Expectation]
        BY GradingAssumption
      <3> QED
        BY <3>1 DEF SeqUpTo
    <2> QED
      BY <2>1 DEF NoCase, Case, Modes
  <1> QED
    BY <1>2, <1>3

LEMMA SideBySideInit == PartsInit => PartsIInv
  <1> SUFFICES ASSUME PartsInit PROVE PartsIInv
    OBVIOUS
  <1>1. GateIInv
    BY GateInit, PartsAssumption DEF PartsInit, Parameters
  <1>2. PICK budgets \in SUBSET Budgets : Tape!InitFor(budgets)
    <2>1. {CHOOSE b \in Budgets : TRUE} \in SUBSET Budgets
      BY PartsAssumption
    <2> QED
      BY <2>1 DEF PartsInit
  <1>3. Tape!Init
    BY <1>2 DEF Tape!Init, Tape!InitFor
  <1>4. PICK bodies : bodies \subseteq Seq(Symbols) /\ Sse!InitFor(bodies)
    <2>1. Sse!Bodies \subseteq Seq(Symbols)
      BY PartsAssumption, BoundedIsSeq DEF Sse!Bodies, Sse!Symbol, Symbols
    <2>2. {<<>>} \subseteq Seq(Symbols)
      BY EmptySeq
    <2> QED
      BY <2>1, <2>2 DEF PartsInit
  <1>5. SseIInv
    BY <1>4, SseInit
  <1>6. Init
    <2>1. PICK cases, transcripts :
              /\ cases \subseteq Case /\ transcripts \subseteq SeqUpTo(Call, MaxActual)
              /\ InitFor(cases, transcripts)
      <3>1. <<>> \in SeqUpTo(Call, MaxActual)
        <4>1. 0 \in 0..MaxActual /\ <<>> \in [1..0 -> Call]
          BY GradingAssumption
        <4> QED
          BY <4>1 DEF SeqUpTo
      <3>2. CASE part = "grading"
        BY <3>2, CasesAreCases DEF PartsInit
      <3>3. CASE part # "grading"
        BY <3>1, <3>3, CasesAreCases DEF PartsInit
      <3> QED
        BY <3>2, <3>3
    <2> QED
      BY <2>1 DEF Init, InitFor
  <1>7. part \in {"sse", "grading", "cassette", "gate"}
    BY DEF PartsInit
  <1> QED
    BY <1>1, <1>3, <1>5, <1>6, <1>7, TapeInit, InitHolds DEF PartsIInv

LEMMA SideBySideStep ==
    ASSUME [PartsNext]_partsVars
    PROVE  /\ part' = part
           /\ [Sse!Next]_Sse!vars /\ [Next]_vars
           /\ [Gate!Next]_Gate!vars /\ [Tape!Next]_Tape!vars
  BY DEF PartsNext, partsVars, sse, vars, gate, cassette, Sse!vars, Gate!vars, Tape!vars

(* The four invariants hold of the parts side by side, where all of them    *)
(* start and one of them moves.                                             *)
THEOREM SideBySide == PartsSpec => []PartsIInv
  <1>1. PartsIInv /\ [PartsNext]_partsVars => PartsIInv'
    <2> SUFFICES ASSUME PartsIInv, [PartsNext]_partsVars PROVE PartsIInv'
      OBVIOUS
    <2>1. Parameters
      BY PartsAssumption DEF Parameters
    <2>2. SseIInv' /\ IInv'
      BY SideBySideStep, SseKept, GradingKept DEF PartsIInv
    <2>3. GateIInv' /\ TapeIInv'
      BY <2>1, SideBySideStep, GateKept, TapeKept DEF PartsIInv
    <2>4. part' \in {"sse", "grading", "cassette", "gate"}
      BY SideBySideStep DEF PartsIInv
    <2> QED
      BY <2>2, <2>3, <2>4 DEF PartsIInv
  <1> QED
    BY <1>1, SideBySideInit, PTL DEF PartsSpec

(* Every variable of the part that moves keeps its type.                    *)
THEOREM PartsTypeCorrect == PartsSpec => []PartsTypeOK
  <1>1. PartsIInv => PartsTypeOK
    BY SseTyped DEF PartsIInv, PartsTypeOK, IInv, GateIInv, TapeIInv
  <1> QED
    BY <1>1, SideBySide, PTL

(* Every event the server wrote is handed out, once and in order, wherever  *)
(* the chunks are cut and though the last blank line may be lost; and of no *)
(* body is one handed out that it does not have (api.ts:143).               *)
THEOREM EventsDelivered == PartsSpec => []EveryEventDelivered
  <1>1. PartsIInv => EveryEventDelivered
    BY SseDelivers DEF PartsIInv, EveryEventDelivered
  <1> QED
    BY <1>1, SideBySide, PTL

(* No request that came after its account was deleted, or with a token that *)
(* was forged or had expired, is accepted (deps.py:45).                     *)
THEOREM Accepted == PartsSpec => []AcceptedExisted
  <1>1. PartsIInv => AcceptedExisted
    BY LenProperties DEF PartsIInv, GateIInv, Gate!TypeOK, Gated, Presented, LookedUp, Passing,
                         AcceptedExisted, Gate!AcceptedExisted, Gate!Forged
  <1> QED
    BY <1>1, SideBySide, PTL

(* A refusal always has its reason: the token or the account, never the     *)
(* cache (deps.py:50).                                                      *)
THEOREM Refused == PartsSpec => []RefusedWithReason
  <1>1. PartsIInv => RefusedWithReason
    BY DEF PartsIInv, GateIInv, Gated, Refusal, RefusedWithReason, Gate!RefusedWithReason
  <1> QED
    BY <1>1, SideBySide, PTL

(* A replay that is graded says and calls, word for word, what the recorded *)
(* run did, and that run ended without an error (cassette.py:114).          *)
THEOREM ReplayTells == PartsSpec => []ReplayTellsRecording
  <1>1. PartsIInv => ReplayTellsRecording
    BY DEF PartsIInv, TapeIInv, ReplayTellsRecording
  <1> QED
    BY <1>1, SideBySide, PTL

(* A run recorded without an error fails in replay only under a smaller     *)
(* budget of tool calls (cassette.py:3).                                    *)
THEOREM CleanReplays == PartsSpec => []CleanTapeReplays
  <1>1. PartsIInv => CleanTapeReplays
    BY DEF PartsIInv, TapeIInv, CleanTapeReplays
  <1> QED
    BY <1>1, SideBySide, PTL

(* Only a case that has no file is skipped (runner.py:14).                  *)
THEOREM SkippedUnrecorded == PartsSpec => []SkippedMeansUnrecorded
  <1>1. PartsIInv => SkippedMeansUnrecorded
    BY DEF PartsIInv, TapeIInv, SkippedMeansUnrecorded
  <1> QED
    BY <1>1, SideBySide, PTL

=============================================================================
