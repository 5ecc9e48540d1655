------------------------ MODULE TelemetryQueriesProofs ------------------------
(* Proofs about TelemetryQueries, for any readings, bands, windows, limits  *)
(* and caps: what an order and a limit keep, that adjacent windows tile,    *)
(* that an alert is a breach, what a purge counts, and that a tool's result *)
(* fits its cap.                                                            *)
EXTENDS TelemetryQueries, FiniteSetTheorems, WellFoundedInduction, TLAPS

-----------------------------------------------------------------------------
(* Sets of instants.                                                        *)

LEMMA InstantsFinite == Instants \subseteq Nat /\ IsFiniteSet(Instants)
  BY QueryAssumption, FS_Interval DEF Instants

LEMMA Least ==
    ASSUME NEW S \in SUBSET Nat, S # {}
    PROVE  \E m \in S : \A t \in S : m <= t
  <1> DEFINE R == OpToRel(<, Nat)
  <1>1. IsWellFoundedOn(R, Nat)
    BY NatLessThanWellFounded
  <1>2. PICK m \in S : \A t \in S : ~(<<t, m>> \in R)
    <2> HIDE DEF R
    <2> QED
      BY <1>1, WFMin
  <1>3. ASSUME NEW t \in S, t < m PROVE FALSE
    <2>1. <<t, m>> \in R
      BY <1>3 DEF OpToRel
    <2> QED
      BY <1>2, <2>1
  <1> QED
    BY <1>3

\* The latest instant is the least distance from the bound.
LEMMA Latest ==
    ASSUME NEW S \in SUBSET Instants, S # {}
    PROVE  \E m \in S : \A t \in S : t <= m
  <1> DEFINE D == {MaxTime - t : t \in S}
  <1>1. \A t \in S : t \in Nat /\ MaxTime - t \in Nat
    BY QueryAssumption DEF Instants
  <1>2. D \in SUBSET Nat /\ D # {}
    BY <1>1
  <1>3. PICK d \in D : \A e \in D : d <= e
    <2> HIDE DEF D
    <2> QED
      BY <1>2, Least
  <1>4. PICK m \in S : d = MaxTime - m
    OBVIOUS
  <1>5. \A t \in S : MaxTime - m <= MaxTime - t
    BY <1>3, <1>4
  <1> QED
    BY <1>1, <1>5, QueryAssumption

(* `ORDER BY time DESC LIMIT n`: the rows kept are later than those left    *)
(* out, and they are n as soon as any is left out (services/reading.py:159).*)
LEMMA NewestKeeps ==
    ASSUME NEW S \in SUBSET Instants, NEW n \in Nat
    PROVE  /\ Newest(S, n) \subseteq S
           /\ \A t \in Newest(S, n), u \in S \ Newest(S, n) : u < t
           /\ Cardinality(Newest(S, n)) <= n
           /\ S \ Newest(S, n) # {} => Cardinality(Newest(S, n)) = n
  <1> DEFINE N == Newest(S, n)
             Above(t) == {u \in S : u > t}
  <1>1. IsFiniteSet(S) /\ S \subseteq Nat
    BY InstantsFinite, FS_Subset
  <1>2. N = {t \in S : Cardinality(Above(t)) < n} /\ N \subseteq S
    BY DEF Newest
  <1>3. \A t \in S : Above(t) \subseteq S
    OBVIOUS
  <1>4. ASSUME NEW T \in SUBSET S PROVE IsFiniteSet(T) /\ Cardinality(T) \in Nat
    BY <1>1, FS_Subset, FS_CardinalityType
  <1>5. ASSUME NEW t \in N, NEW u \in S \ N PROVE u < t
    <2>0. t \in S /\ u \in S /\ \A v \in S : v \in Nat
      BY <1>1, <1>2
    <2> SUFFICES ASSUME u >= t PROVE FALSE
      BY <2>0, SMT
    <2>1. Above(u) \in SUBSET Above(t)
      <3> HIDE DEF N
      <3> QED
        BY <2>0
    <2>2. Cardinality(Above(u)) <= Cardinality(Above(t))
      <3>1. IsFiniteSet(Above(t))
        BY <1>3, <1>4, <2>0
      <3> HIDE DEF Above
      <3> QED
        BY <2>1, <3>1, FS_Subset
    <2>3. Cardinality(Above(u)) \in Nat /\ Cardinality(Above(t)) \in Nat
      BY <1>2, <1>3, <1>4
    <2>4. Cardinality(Above(t)) < n /\ ~(Cardinality(Above(u)) < n)
      BY <1>2
    <2> HIDE DEF Above
    <2> QED
      BY <2>2, <2>3, <2>4
  \* The earliest row kept has all the others above it.
  <1>6. Cardinality(N) <= n
    <2>1. CASE N = {}
      BY <2>1, FS_EmptySet
    <2>2. CASE N # {}
      <3>1. PICK m \in N : \A t \in N : m <= t
        <4> HIDE DEF N
        <4> QED
          BY <1>1, <1>2, <2>2, Least
      <3>0. \A t, u \in S : t \in Nat /\ (t = u \/ t < u \/ t > u) /\ ~(t < t)
        BY <1>1
      <3>2. N = Above(m) \cup {m} /\ m \notin Above(m)
        <4>1. m \in S /\ m \notin Above(m)
          BY <1>2, <3>0
        <4>2. ASSUME NEW u \in N PROVE u \in Above(m) \cup {m}
          BY <1>2, <3>0, <3>1
        <4>3. ASSUME NEW u \in Above(m) PROVE u \in N
          <5>1. u \in S /\ u > m
            OBVIOUS
          <5> HIDE DEF N
          <5> QED
            BY <1>5, <3>0, <4>1, <5>1
        <4> HIDE DEF N, Above
        <4> QED
          BY <3>1, <4>1, <4>2, <4>3
      <3>3. IsFiniteSet(Above(m)) /\ Cardinality(Above(m)) \in Nat
        BY <1>2, <1>3, <1>4
      <3>4. Cardinality(Above(m)) < n
        BY <1>2
      <3>5. Cardinality(N) = Cardinality(Above(m)) + 1
        <4> HIDE DEF Above, N
        <4> QED
          BY <3>2, <3>3, FS_AddElement
      <3> HIDE DEF Above, N
      <3> QED
        BY <3>3, <3>4, <3>5
    <2> QED
      BY <2>1, <2>2
  \* The latest row left out has exactly those kept above it.
  <1>7. ASSUME S \ N # {} PROVE Cardinality(N) = n
    <2>1. PICK m \in S \ N : \A t \in S \ N : t <= m
      <3>1. S \ N \in SUBSET Instants
        OBVIOUS
      <3> HIDE DEF N
      <3> QED
        BY <1>7, <3>1, Latest
    <2>0. \A t, u \in S : t \in Nat /\ (t = u \/ t < u \/ t > u)
      BY <1>1
    <2>2. N = Above(m)
      <3>1. ASSUME NEW u \in N PROVE u \in Above(m)
        <4>1. u \in S
          BY <1>2
        <4> HIDE DEF N
        <4> QED
          BY <1>5, <2>0, <2>1, <4>1
      <3>2. ASSUME NEW u \in Above(m) PROVE u \in N
        <4>1. u \in S /\ u > m
          OBVIOUS
        <4> HIDE DEF N
        <4> QED
          BY <2>0, <2>1, <4>1
      <3> HIDE DEF N, Above
      <3> QED
        BY <3>1, <3>2
    <2>3. ~(Cardinality(Above(m)) < n)
      BY <1>2, <2>1
    <2>4. Cardinality(N) \in Nat
      BY <1>2, <1>4
    <2> HIDE DEF Above, N
    <2> QED
      BY <1>6, <2>2, <2>3, <2>4
  <1> QED
    BY <1>2, <1>5, <1>6, <1>7

\* Oldest first, as the bucket tool lists them: no more than n are kept.
LEMMA OldestKeeps ==
    ASSUME NEW S \in SUBSET Instants, NEW n \in Nat
    PROVE  /\ Oldest(S, n) \subseteq S
           /\ Cardinality(Oldest(S, n)) <= n
           /\ S \ Oldest(S, n) # {} => Cardinality(Oldest(S, n)) = n
  <1> DEFINE N == Oldest(S, n)
             Below(t) == {u \in S : u < t}
  <1>1. IsFiniteSet(S) /\ S \subseteq Nat
    BY InstantsFinite, FS_Subset
  <1>2. N = {t \in S : Cardinality(Below(t)) < n} /\ N \subseteq S
    BY DEF Oldest
  <1>3. \A t \in S : Below(t) \subseteq S
    OBVIOUS
  <1>4. ASSUME NEW T \in SUBSET S PROVE IsFiniteSet(T) /\ Cardinality(T) \in Nat
    BY <1>1, FS_Subset, FS_CardinalityType
  <1>5. ASSUME NEW t \in N, NEW u \in S \ N PROVE u > t
    <2>0. t \in S /\ u \in S /\ \A v \in S : v \in Nat
      BY <1>1, <1>2
    <2> SUFFICES ASSUME u <= t PROVE FALSE
      BY <2>0, SMT
    <2>1. Below(u) \in SUBSET Below(t)
      <3> HIDE DEF N
      <3> QED
        BY <2>0
    <2>2. Cardinality(Below(u)) <= Cardinality(Below(t))
      <3>1. IsFiniteSet(Below(t))
        BY <1>3, <1>4, <2>0
      <3> HIDE DEF Below
      <3> QED
        BY <2>1, <3>1, FS_Subset
    <2>3. Cardinality(Below(u)) \in Nat /\ Cardinality(Below(t)) \in Nat
      BY <1>2, <1>3, <1>4
    <2>4. Cardinality(Below(t)) < n /\ ~(Cardinality(Below(u)) < n)
      BY <1>2
    <2> HIDE DEF Below
    <2> QED
      BY <2>2, <2>3, <2>4
  <1>6. Cardinality(N) <= n
    <2>1. CASE N = {}
      BY <2>1, FS_EmptySet
    <2>2. CASE N # {}
      <3>1. PICK m \in N : \A t \in N : t <= m
        <4>1. N \in SUBSET Instants
          BY <1>2
        <4> HIDE DEF N
        <4> QED
          BY <2>2, <4>1, Latest
      <3>0. \A t, u \in S : t \in Nat /\ (t = u \/ t < u \/ t > u) /\ ~(t < t)
        BY <1>1
      <3>2. N = Below(m) \cup {m} /\ m \notin Below(m)
        <4>1. m \in S /\ m \notin Below(m)
          BY <1>2, <3>0
        <4>2. ASSUME NEW u \in N PROVE u \in Below(m) \cup {m}
          BY <1>2, <3>0, <3>1
        <4>3. ASSUME NEW u \in Below(m) PROVE u \in N
          <5>1. u \in S /\ u < m
            OBVIOUS
          <5> HIDE DEF N
          <5> QED
            BY <1>5, <3>0, <4>1, <5>1
        <4> HIDE DEF N, Below
        <4> QED
          BY <3>1, <4>1, <4>2, <4>3
      <3>3. IsFiniteSet(Below(m)) /\ Cardinality(Below(m)) \in Nat
        BY <1>2, <1>3, <1>4
      <3>4. Cardinality(Below(m)) < n
        BY <1>2
      <3>5. Cardinality(N) = Cardinality(Below(m)) + 1
        <4> HIDE DEF Below, N
        <4> QED
          BY <3>2, <3>3, FS_AddElement
      <3> HIDE DEF Below, N
      <3> QED
        BY <3>3, <3>4, <3>5
    <2> QED
      BY <2>1, <2>2
  <1>7. ASSUME S \ N # {} PROVE Cardinality(N) = n
    <2>1. PICK m \in S \ N : \A t \in S \ N : m <= t
      <3>1. S \ N \in SUBSET Nat
        BY <1>1
      <3> HIDE DEF N
      <3> QED
        BY <1>7, <3>1, Least
    <2>0. \A t, u \in S : t \in Nat /\ (t = u \/ t < u \/ t > u)
      BY <1>1
    <2>2. N = Below(m)
      <3>1. ASSUME NEW u \in N PROVE u \in Below(m)
        <4>1. u \in S
          BY <1>2
        <4> HIDE DEF N
        <4> QED
          BY <1>5, <2>0, <2>1, <4>1
      <3>2. ASSUME NEW u \in Below(m) PROVE u \in N
        <4>1. u \in S /\ u < m
          OBVIOUS
        <4> HIDE DEF N
        <4> QED
          BY <2>0, <2>1, <4>1
      <3> HIDE DEF N, Below
      <3> QED
        BY <3>1, <3>2
    <2>3. ~(Cardinality(Below(m)) < n)
      BY <1>2, <2>1
    <2>4. Cardinality(N) \in Nat
      BY <1>2, <1>4
    <2> HIDE DEF Below, N
    <2> QED
      BY <1>6, <2>2, <2>3, <2>4
  <1> QED
    BY <1>2, <1>5, <1>6, <1>7

\* A bucket starts within the instants it holds.
LEMMA BucketStarts ==
    ASSUME NEW t \in Instants, NEW width \in Widths
    PROVE  BucketOf(t, width) \in Instants
  <1>1. t \in Nat /\ width \in Nat \ {0} /\ t <= MaxTime
    BY QueryAssumption DEF Instants
  <1>2. t % width \in 0..(width - 1)
    BY <1>1
  <1>3. t % width <= t
    <2>1. CASE width <= t
      BY <1>1, <1>2, <2>1
    <2>2. CASE t < width
      <3>1. t % width = t
        BY <1>1, <2>2
      <3> QED
        BY <1>1, <3>1
    <2> QED
      BY <1>1, <2>1, <2>2
  <1> QED
    BY <1>1, <1>2, <1>3, QueryAssumption DEF BucketOf, Instants

(* `_serialize`: as many rows as leave room for the note that some are      *)
(* missing, all of them when they fit, and none when the note alone is too  *)
(* long (agent/tools.py:108, 126).                                          *)
LEMMA KeptFits ==
    ASSUME NEW n \in Nat
    PROVE  /\ Kept(n) \in 0..n
           /\ n <= Cap => Kept(n) = n
           /\ n > Cap => Envelope + Kept(n) <= Cap \/ (Kept(n) = 0 /\ Cap < Envelope)
  <1>1. CASE n <= Cap
    BY <1>1, QueryAssumption DEF Kept
  <1>2. CASE n > Cap /\ Envelope > Cap
    BY <1>2, QueryAssumption DEF Kept
  <1>3. CASE n > Cap /\ Envelope <= Cap
    <2> DEFINE most == Cap - Envelope
               P(k) == /\ Envelope + k <= Cap
                       /\ \A j \in 0..(n - 1) : Envelope + j <= Cap => j <= k
    <2>1. most \in 0..(n - 1) /\ P(most)
      BY <1>3, QueryAssumption
    <2>2. Kept(n) = CHOOSE k \in 0..(n - 1) : P(k)
      BY <1>3, QueryAssumption DEF Kept
    <2>3. Kept(n) \in 0..(n - 1) /\ P(Kept(n))
      <3> HIDE DEF P, most
      <3> QED
        BY <2>1, <2>2
    <2> QED
      BY <1>3, <2>3, QueryAssumption
  <1> QED
    BY <1>1, <1>2, <1>3, QueryAssumption

LEMMA CutFits ==
    ASSUME NEW rows \in SUBSET Instants, NEW kept,
           \/ kept = Newest(rows, Kept(Cardinality(rows)))
           \/ kept = Oldest(rows, Kept(Cardinality(rows)))
    PROVE  \/ Cardinality(kept) + (IF Cardinality(kept) < Cardinality(rows) THEN Envelope ELSE 0)
                 <= Cap
           \/ kept = {} /\ Cap < Envelope
  <1> DEFINE n == Cardinality(rows)
  <1>1. IsFiniteSet(rows) /\ n \in Nat
    BY InstantsFinite, FS_Subset, FS_CardinalityType
  <1> HIDE DEF n
  <1>2. Kept(n) \in Nat
    BY <1>1, KeptFits
  <1>3. /\ kept \subseteq rows /\ Cardinality(kept) <= Kept(n)
        /\ rows \ kept # {} => Cardinality(kept) = Kept(n)
    BY <1>2, NewestKeeps, OldestKeeps DEF n
  <1>4. Cardinality(kept) \in Nat
    BY <1>1, <1>3, FS_Subset, FS_CardinalityType
  <1>5. CASE n <= Cap
    <2>1. Kept(n) = n
      BY <1>1, <1>5, KeptFits
    <2>2. ~(Cardinality(kept) < n)
      <3>1. CASE rows \ kept # {}
        BY <1>1, <1>3, <2>1, <3>1
      <3>2. CASE rows \ kept = {}
        <4>1. kept = rows
          BY <1>3, <3>2
        <4> QED
          BY <1>1, <4>1 DEF n
      <3> QED
        BY <3>1, <3>2
    <2> QED
      BY <1>1, <1>3, <1>4, <1>5, <2>1, <2>2, QueryAssumption DEF n
  <1>6. CASE n > Cap
    <2>1. CASE Envelope + Kept(n) <= Cap
      <3>1. Cardinality(kept) + Envelope <= Cap /\ Cardinality(kept) <= Cap
        BY <1>2, <1>3, <1>4, <2>1, QueryAssumption
      <3> QED
        BY <1>4, <3>1, QueryAssumption
    <2>2. CASE Kept(n) = 0 /\ Cap < Envelope
      <3>1. Cardinality(kept) = 0 /\ IsFiniteSet(kept)
        BY <1>1, <1>3, <1>4, <2>2, FS_Subset
      <3>2. kept = {}
        BY <3>1, FS_EmptySet
      <3> QED
        BY <2>2, <3>2
    <2> QED
      BY <1>1, <1>6, <2>1, <2>2, KeptFits
  <1> QED
    BY <1>1, <1>5, <1>6, QueryAssumption

-----------------------------------------------------------------------------
(* The inductive invariant.                                                 *)

\* A list is the query's answer on the table as it is, until that changes.
Listed ==
    reply.kind = "list" =>
        /\ reply.limit \in Nat
        /\ reply.rows = Newest(Matching(reply.window), reply.limit)

\* So are the alerts, on the table and the thresholds as they are.
Alerted ==
    reply.kind = "alerts" =>
        /\ reply.limit \in Nat
        /\ reply.rows = {Alert(t) : t \in Newest(Breaching(reply.since), reply.limit)}

IInv == TypeOK /\ Listed /\ Alerted /\ ToolResultFits

LEMMA RowsAreInstants ==
    /\ Stored \subseteq Instants
    /\ \A w : Matching(w) \subseteq Instants
    /\ \A since : Breaching(since) \subseteq Instants
  BY DEF Stored, Matching, Breaching

LEMMA InitHolds == Init => IInv
  BY DEF Init, IInv, TypeOK, NoReply, Listed, Alerted, ToolResultFits

\* A change of the table or the thresholds forgets the answer.
LEMMA ChangeKept == IInv /\ Change => IInv'
  <1> SUFFICES ASSUME TypeOK, Change PROVE IInv'
    BY DEF IInv
  <1>1. reply' = NoReply
    BY DEF Change, Insert, Retune
  <1>2. reading' \in [Instants -> Values \cup {Absent}]
    BY DEF Change, Insert, Retune, TypeOK
  <1>3. band' \in Bands
    BY DEF Change, Insert, Retune, TypeOK
  <1> QED
    BY <1>1, <1>2, <1>3 DEF IInv, TypeOK, NoReply, Listed, Alerted, ToolResultFits

\* A refusal says nothing of the data.
LEMMA Refused ==
    ASSUME IInv, NEW status, Answer(Refusal(status))
    PROVE  IInv'
  BY DEF IInv, Answer, Refusal, TypeOK, Listed, Alerted, ToolResultFits

LEMMA ListKept ==
    ASSUME IInv, NEW w, NEW limit \in 1..(MaxLimit + 1), ListReadings(w, limit)
    PROVE  IInv'
  <1>1. CASE Checked(w) # 200 \/ limit > MaxLimit
    BY <1>1, Refused DEF ListReadings
  <1>2. CASE ~(Checked(w) # 200 \/ limit > MaxLimit)
    <2>1. /\ reply' = [kind |-> "list", window |-> w, limit |-> limit,
                       rows |-> Newest(Matching(w), limit)]
          /\ UNCHANGED <<reading, band>>
      BY <1>2 DEF ListReadings, Answer
    <2>2. TypeOK'
      BY <2>1 DEF IInv, TypeOK
    <2>3. Matching(w)' = Matching(w) /\ limit \in Nat
      BY <2>1, QueryAssumption DEF Matching, Stored, InWindow, Given
    <2>4. Listed'
      BY <2>1, <2>3 DEF Listed, Matching, Stored, InWindow, Given
    <2> QED
      BY <2>1, <2>2, <2>4 DEF IInv, Alerted, ToolResultFits
  <1> QED
    BY <1>1, <1>2

LEMMA AggregateKept ==
    ASSUME IInv, NEW w, NEW width, AggregateReadings(w, width)
    PROVE  IInv'
  <1>1. CASE Checked(w) # 200 \/ TooManyBuckets(Anchored(w, width), width)
    BY <1>1, Refused DEF AggregateReadings
  <1>2. CASE ~(Checked(w) # 200 \/ TooManyBuckets(Anchored(w, width), width))
    <2>1. reply'.kind = "aggregate" /\ UNCHANGED <<reading, band>>
      BY <1>2 DEF AggregateReadings, Answer
    <2> QED
      BY <2>1 DEF IInv, TypeOK, Listed, Alerted, ToolResultFits
  <1> QED
    BY <1>1, <1>2

LEMMA AlertsKept ==
    ASSUME IInv, NEW since, NEW limit \in 1..(MaxLimit + 1), ListAlerts(since, limit)
    PROVE  IInv'
  <1>1. CASE limit > MaxLimit
    BY <1>1, Refused DEF ListAlerts
  <1>2. CASE ~(limit > MaxLimit)
    <2>1. /\ reply' = [kind |-> "alerts", since |-> since, limit |-> limit,
                       rows |-> {Alert(t) : t \in Newest(Breaching(since), limit)}]
          /\ UNCHANGED <<reading, band>>
      BY <1>2 DEF ListAlerts, Answer
    <2>2. TypeOK'
      BY <2>1 DEF IInv, TypeOK
    <2>3. limit \in Nat
      BY QueryAssumption
    <2>4. Alerted'
      BY <2>1, <2>3 DEF Alerted, Alert, Newest, Breaching, Stored, BelowMin, AboveMax, Given
    <2> QED
      BY <2>1, <2>2, <2>4 DEF IInv, Listed, ToolResultFits
  <1> QED
    BY <1>1, <1>2

LEMMA DeleteKept ==
    ASSUME IInv, NEW w, NEW dryRun \in BOOLEAN, DeleteReadings(w, dryRun)
    PROVE  IInv'
  <1>1. CASE Checked(w) # 200 \/ (~Given(w.start) /\ ~Given(w.end))
    BY <1>1, Refused DEF DeleteReadings
  <1>2. CASE ~(Checked(w) # 200 \/ (~Given(w.start) /\ ~Given(w.end)))
    <2>1. /\ reading' = IF dryRun THEN reading
                        ELSE [t \in Instants |-> IF InWindow(t, w) THEN Absent ELSE reading[t]]
          /\ reply' = [kind |-> "deleted", window |-> w, dry |-> dryRun,
                       count |-> Cardinality(Matching(w))]
          /\ band' = band
      BY <1>2 DEF DeleteReadings
    <2>2. reading' \in [Instants -> Values \cup {Absent}]
      BY <2>1 DEF IInv, TypeOK
    <2>3. Cardinality(Matching(w)) \in 0..Cardinality(Instants)
      BY RowsAreInstants, InstantsFinite, FS_Subset, FS_CardinalityType
    <2> QED
      BY <2>1, <2>2, <2>3 DEF IInv, TypeOK, Listed, Alerted, ToolResultFits
  <1> QED
    BY <1>1, <1>2

LEMMA ToolKept ==
    ASSUME IInv, NEW rows \in SUBSET Instants, NEW kept,
           \/ kept = Newest(rows, Kept(Cardinality(rows)))
           \/ kept = Oldest(rows, Kept(Cardinality(rows))),
           ToolReply(rows, kept, Cardinality(rows))
    PROVE  IInv'
  <1>1. /\ reply'.kind = "tool" /\ reply'.kept = kept
        /\ reply'.bytes =
              Cardinality(kept) + (IF Cardinality(kept) < Cardinality(rows) THEN Envelope ELSE 0)
        /\ UNCHANGED <<reading, band>>
    BY DEF ToolReply, Answer
  <1>2. ToolResultFits'
    BY <1>1, CutFits DEF ToolResultFits
  <1> QED
    BY <1>1, <1>2 DEF IInv, TypeOK, Listed, Alerted

LEMMA Kept1 == IInv /\ [Next]_vars => IInv'
  <1> SUFFICES ASSUME IInv, [Next]_vars PROVE IInv'
    OBVIOUS
  <1>1. CASE Change
    BY <1>1, ChangeKept
  <1>2. CASE HttpRequest
    BY <1>2, ListKept, AggregateKept, AlertsKept, DeleteKept DEF HttpRequest
  <1>3. CASE ToolCall
    <2>1. ASSUME NEW w \in ToolWindows, NEW limit \in 1..MaxLimit, QueryTool(w, limit)
          PROVE  IInv'
      <3>1. limit \in Nat
        BY QueryAssumption
      <3>2. Newest(Matching(w), limit) \in SUBSET Instants
        BY <3>1, RowsAreInstants, NewestKeeps
      <3> QED
        BY <2>1, <3>2, ToolKept DEF QueryTool
    <2>2. ASSUME NEW w \in ToolWindows, NEW width \in Widths, AggregateTool(w, width)
          PROVE  IInv'
      <3>1. BucketsOf(Matching(w), width) \in SUBSET Instants
        BY RowsAreInstants, BucketStarts DEF BucketsOf
      <3> QED
        BY <2>2, <3>1, ToolKept DEF AggregateTool
    <2>3. ASSUME NEW since \in Instants, AlertsTool(since)
          PROVE  IInv'
      <3>1. Newest(Breaching(since), MaxLimit) \in SUBSET Instants
        BY QueryAssumption, RowsAreInstants, NewestKeeps
      <3> QED
        BY <2>3, <3>1, ToolKept DEF AlertsTool
    <2> QED
      BY <1>3, <2>1, <2>2, <2>3 DEF ToolCall
  <1>4. CASE UNCHANGED vars
    <2>1. UNCHANGED <<reading, band, reply>>
      BY <1>4 DEF vars
    <2>2. TypeOK' /\ ToolResultFits'
      BY <2>1 DEF IInv, TypeOK, ToolResultFits
    <2>3. Listed'
      BY <2>1 DEF IInv, Listed, Newest, Matching, Stored, InWindow, Given
    <2>4. Alerted'
      <3>1. \A since : Breaching(since)' = Breaching(since)
        BY <2>1 DEF Breaching, Stored, BelowMin, AboveMax
      <3>2. \A t : Alert(t)' = Alert(t)
        BY <2>1 DEF Alert, BelowMin, AboveMax
      <3> QED
        BY <2>1, <3>1, <3>2 DEF IInv, Alerted
    <2> QED
      BY <2>2, <2>3, <2>4 DEF IInv
  <1> QED
    BY <1>1, <1>2, <1>3, <1>4 DEF Next

-----------------------------------------------------------------------------
(* The theorems.                                                            *)

(* An answer stands for the table and the thresholds it was computed from.  *)
THEOREM Invariance == Spec => []IInv
  BY InitHolds, Kept1, PTL DEF Spec

(* The table, the thresholds and the answers keep their types (schemas/     *)
(* reading.py).                                                             *)
THEOREM TypeCorrect == Spec => []TypeOK
  BY Invariance, PTL DEF IInv

(* A limit keeps the latest readings, and cuts only what is beyond it       *)
(* (services/reading.py:159).                                               *)
THEOREM LimitKeeps == Spec => []LimitKeepsNewest
  <1>1. IInv => LimitKeepsNewest
    BY RowsAreInstants, NewestKeeps DEF IInv, Listed, LimitKeepsNewest
  <1> QED
    BY <1>1, Invariance, PTL

(* Adjacent windows share no reading and lose none (services/               *)
(* reading.py:170), in any table.                                           *)
THEOREM Tiling == Spec => []WindowsTile
  <1>1. WindowsTile
    <2> SUFFICES ASSUME NEW a \in Instants, NEW b \in Instants, NEW c \in Instants,
                        a <= b, b <= c
                 PROVE  LET W(x, y) == Matching([start |-> Aware(x), end |-> Aware(y)])
                        IN  W(a, b) \cup W(b, c) = W(a, c) /\ W(a, b) \cap W(b, c) = {}
      BY DEF WindowsTile
    <2>1. ASSUME NEW x \in Instants, NEW y \in Instants
          PROVE  Matching([start |-> Aware(x), end |-> Aware(y)])
                     = {t \in Stored : t >= x /\ t < y}
      <3>1. Given(Aware(x)) /\ Given(Aware(y)) /\ Aware(x).at = x /\ Aware(y).at = y
        <4>1. Aware(x) \in [at : Int, naive : BOOLEAN] /\ Aware(y) \in [at : Int, naive : BOOLEAN]
          BY DEF Instants, Aware
        <4>2. Absent \notin [at : Int, naive : BOOLEAN]
          BY QueryAssumption
        <4>3. Aware(x).at = x /\ Aware(y).at = y
          BY DEF Aware
        <4> QED
          BY <4>1, <4>2, <4>3 DEF Given
      <3> DEFINE w == [start |-> Aware(x), end |-> Aware(y)]
      <3>2. w.start = Aware(x) /\ w.end = Aware(y)
        OBVIOUS
      <3> HIDE DEF w
      <3>3. Matching(w) = {t \in Stored : t >= x /\ t < y}
        BY <3>1, <3>2 DEF Matching, InWindow
      <3> QED
        BY <3>3 DEF w
    <2>2. Stored \subseteq Nat /\ a \in Nat /\ b \in Nat /\ c \in Nat
      BY RowsAreInstants, InstantsFinite
    <2>3. /\ Matching([start |-> Aware(a), end |-> Aware(b)]) = {t \in Stored : t >= a /\ t < b}
          /\ Matching([start |-> Aware(b), end |-> Aware(c)]) = {t \in Stored : t >= b /\ t < c}
          /\ Matching([start |-> Aware(a), end |-> Aware(c)]) = {t \in Stored : t >= a /\ t < c}
      BY <2>1
    <2>4. /\ {t \in Stored : t >= a /\ t < b} \cup {t \in Stored : t >= b /\ t < c}
                 = {t \in Stored : t >= a /\ t < c}
          /\ {t \in Stored : t >= a /\ t < b} \cap {t \in Stored : t >= b /\ t < c} = {}
      <3>1. \A t \in Stored : t \in Nat
        BY <2>2
      <3>2. \A t \in Stored : /\ (t >= a /\ t < b) \/ (t >= b /\ t < c) <=> (t >= a /\ t < c)
                              /\ ~((t >= a /\ t < b) /\ (t >= b /\ t < c))
        BY <2>2, <3>1
      <3> QED
        BY <3>2
    <2> QED
      BY <2>3, <2>4
  <1> QED
    BY <1>1, PTL

(* An alert names a threshold that is set and broken, and none is missing   *)
(* below the limit (services/reading.py:219).                               *)
THEOREM Alerts == Spec => []AlertsAreBreaches
  <1>1. IInv => AlertsAreBreaches
    <2> SUFFICES ASSUME IInv, reply.kind = "alerts"
                 PROVE  /\ \A alert \in reply.rows :
                              /\ alert.threshold # Absent
                              /\ alert.bound = "min" => alert.value < alert.threshold
                              /\ alert.bound = "max" => alert.value > alert.threshold
                        /\ \/ Cardinality(reply.rows) = reply.limit
                           \/ {alert.time : alert \in reply.rows} = Breaching(reply.since)
      BY DEF AlertsAreBreaches
    <2> DEFINE all == Breaching(reply.since)
               kept == Newest(all, reply.limit)
    <2>1. reply.limit \in Nat /\ reply.rows = {Alert(t) : t \in kept}
      BY DEF IInv, Alerted
    <2>2. all \in SUBSET Instants
      BY RowsAreInstants
    <2>3. kept \subseteq all /\ (all \ kept # {} => Cardinality(kept) = reply.limit)
      <3> HIDE DEF all
      <3> QED
        BY <2>1, <2>2, NewestKeeps
    <2>4. ASSUME NEW t \in kept
          PROVE  /\ Alert(t).threshold # Absent
                 /\ Alert(t).bound = "min" => Alert(t).value < Alert(t).threshold
                 /\ Alert(t).bound = "max" => Alert(t).value > Alert(t).threshold
      <3>1. BelowMin(reading[t]) \/ AboveMax(reading[t])
        BY <2>3 DEF Breaching
      <3> QED
        BY <3>1 DEF Alert, BelowMin, AboveMax, Given
    <2>5. \A t : Alert(t).time = t
      BY DEF Alert
    <2>6. CASE all \ kept = {}
      <3>1. {alert.time : alert \in reply.rows} = all
        <4> HIDE DEF all, kept
        <4> QED
          BY <2>1, <2>3, <2>5, <2>6
      <3> QED
        BY <2>1, <2>4, <3>1
    <2>7. CASE all \ kept # {}
      <3> DEFINE f == [t \in kept |-> Alert(t)]
      <3>1. f \in Bijection(kept, reply.rows)
        <4> HIDE DEF all, kept
        <4>1. f \in [kept -> reply.rows] /\ \A a, b \in kept : f[a] = f[b] => a = b
          BY <2>1, <2>5
        <4>2. \A row \in reply.rows : \E t \in kept : f[t] = row
          BY <2>1
        <4> HIDE DEF f
        <4> QED
          BY <4>1, <4>2 DEF Bijection, Injection, Surjection, IsInjective
      <3>2. IsFiniteSet(kept)
        BY <2>2, <2>3, InstantsFinite, FS_Subset
      <3>3. Cardinality(reply.rows) = Cardinality(kept)
        <4> HIDE DEF f, kept
        <4> QED
          BY <3>1, <3>2, FS_Bijection DEF ExistsBijection
      <3> QED
        BY <2>1, <2>3, <2>4, <2>7, <3>3
    <2> QED
      BY <2>6, <2>7
  <1> QED
    BY <1>1, Invariance, PTL

(* What a tool hands to the model fits the cap, the note included, unless   *)
(* it is that note alone and the cap has no room for it (agent/tools.py:108,*)
(* 126).                                                                    *)
THEOREM ToolFits == Spec => []ToolResultFits
  BY Invariance, PTL DEF IInv

(* A purge counts what it removes, and a dry run what it would              *)
(* (services/reading.py:317).                                               *)
THEOREM PurgeCounts == Spec => PurgeCountExact
  <1> DEFINE Exact ==
         reply'.kind = "deleted" =>
            LET gone == {t \in Stored : reading'[t] = Absent}
                kept == Stored \ gone
            IN  /\ reply'.dry => gone = {}
                /\ ~reply'.dry => Cardinality(gone) = reply'.count
                /\ reply'.dry => reply'.count = Cardinality(
                                    {t \in kept : InWindow(t, reply'.window)})
  <1>1. Next => Exact
    <2> SUFFICES ASSUME Next, reply'.kind = "deleted" PROVE Exact
      OBVIOUS
    <2>1. PICK w \in Windows, dryRun \in BOOLEAN : DeleteReadings(w, dryRun)
      BY DEF Next, Change, Insert, Retune, NoReply, HttpRequest, ToolCall, ListReadings,
             AggregateReadings, ListAlerts, QueryTool, AggregateTool, AlertsTool, ToolReply,
             Answer, Refusal
    <2>2. /\ reading' = IF dryRun THEN reading
                        ELSE [t \in Instants |-> IF InWindow(t, w) THEN Absent ELSE reading[t]]
          /\ reply' = [kind |-> "deleted", window |-> w, dry |-> dryRun,
                       count |-> Cardinality(Matching(w))]
      BY <2>1 DEF DeleteReadings, Answer, Refusal
    <2>3. \A t \in Stored : t \in Instants /\ reading[t] # Absent
      BY DEF Stored
    <2>4. CASE dryRun
      <3>1. {t \in Stored : reading'[t] = Absent} = {}
        BY <2>2, <2>3, <2>4
      <3> QED
        BY <2>2, <2>4, <3>1 DEF Matching
    <2>5. CASE ~dryRun
      <3>1. {t \in Stored : reading'[t] = Absent} = Matching(w)
        BY <2>2, <2>3, <2>5 DEF Matching
      <3> QED
        BY <2>2, <2>5, <3>1
    <2> QED
      BY <2>4, <2>5
  <1>2. [Next]_vars => [Exact]_vars
    BY <1>1
  <1> QED
    BY <1>2, PTL DEF Spec, PurgeCountExact
=============================================================================
