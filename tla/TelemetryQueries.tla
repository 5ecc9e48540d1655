--------------------------- MODULE TelemetryQueries ---------------------------
(***************************************************************************)
(* Reading one device's telemetry back: the filters of                     *)
(* backend/app/schemas/reading.py, the queries of services/reading.py and  *)
(* the agent's tools of agent/tools.py that run the same queries without   *)
(* those filters and cut their results to a number of bytes.               *)
(*                                                                         *)
(* Time is counted in steps.  A bound of a request may lack a time zone.   *)
(* Ownership is not here: DataPlane has it.  Rows are sets: every list is  *)
(* ordered by time, so an order and a limit say which of them survive.     *)
(***************************************************************************)
EXTENDS Integers, FiniteSets

CONSTANTS
    MaxTime,       \* bound: the last instant
    Now,           \* the server's clock
    Grace,         \* how far in the future a bound may lie (five minutes)
    Values,        \* readings, integers
    Thresholds,    \* alert thresholds, integers
    Widths,        \* bucket widths (1h, 1d, 1w)
    MaxBuckets,    \* max_aggregate_buckets (1000)
    MaxLimit,      \* max_reading_limit and MAX_TOOL_ROWS (1000)
    Cap,           \* the tool result cap, counted in rows
    Envelope,      \* what {"rows", "truncated", "omitted"} costs, in rows
    Absent         \* a NULL threshold, an omitted bound, no reading

ASSUME QueryAssumption ==
    /\ MaxTime \in Nat /\ Now \in 0..MaxTime /\ Grace \in Nat
    /\ Values \subseteq Int /\ Thresholds \subseteq Int /\ Widths \subseteq Nat \ {0}
    /\ MaxBuckets \in Nat \ {0} /\ MaxLimit \in Nat \ {0}
    /\ Cap \in Nat /\ Envelope \in Nat \ {0}
    /\ Absent \notin Int \cup [at : Int, naive : BOOLEAN]

VARIABLES
    reading,   \* the value stored for each instant, or Absent
    band,      \* the device's thresholds
    reply      \* the answer to the last request, forgotten on a change

vars == <<reading, band, reply>>

-----------------------------------------------------------------------------

Instants == 0..MaxTime
Stored == {t \in Instants : reading[t] # Absent}

Bounds == {Absent} \cup [at : Instants, naive : BOOLEAN]
Windows == [start : Bounds, end : Bounds]

\* Ordered by DataPlane's CHECK constraint.
Bands == {b \in [min : Thresholds \cup {Absent}, max : Thresholds \cup {Absent}] :
             b.min = Absent \/ b.max = Absent \/ b.min <= b.max}

NoReply == [kind |-> "none"]
Refusal(status) == [kind |-> "refused", status |-> status]

TypeOK ==
    /\ reading \in [Instants -> Values \cup {Absent}]
    /\ band \in Bands
    /\ reply.kind \in {"none", "refused", "list", "aggregate", "alerts", "deleted", "tool"}
    /\ reply.kind = "deleted" => reply.count \in 0..Cardinality(Instants)

Init ==
    /\ reading = [t \in Instants |-> Absent]
    /\ band \in Bands
    /\ reply = NoReply

Insert(t, v) ==
    /\ reading[t] = Absent /\ t <= Now + Grace
    /\ reading' = [reading EXCEPT ![t] = v]
    /\ reply' = NoReply
    /\ UNCHANGED band

RetuneHalf(b) ==
    /\ band' = [band EXCEPT !.min = b.min]
    /\ reply' = NoReply
    /\ UNCHANGED reading

Retune(b) ==
    /\ band' = b
    /\ reply' = NoReply
    /\ UNCHANGED reading

-----------------------------------------------------------------------------
(* The filters.                                                             *)

Given(bound) == bound # Absent

\* normalize_bounds compares with an aware clock before ensure_utc: a bound
\* without a time zone raises a TypeError, which is nobody's validation error.
Checked(w) ==
    LET given == {b \in {w.start, w.end} : Given(b)}
    IN  IF \E b \in given : b.naive THEN 500
        ELSE IF \/ \E b \in given : b.at > Now + Grace
                \/ Given(w.start) /\ Given(w.end) /\ w.start.at >= w.end.at THEN 422
        ELSE 200

\* Half-open: start inclusive, end exclusive.
InWindowClosed(t, w) ==
    /\ Given(w.start) => t >= w.start.at
    /\ Given(w.end) => t <= w.end.at

InWindow(t, w) ==
    /\ Given(w.start) => t >= w.start.at
    /\ Given(w.end) => t < w.end.at

Matching(w) == {t \in Stored : InWindow(t, w)}

\* AggregateFilters: an open edge is put as far out as the ceiling allows.
Aware(t) == [at |-> t, naive |-> FALSE]

Anchored(w, width) ==
    LET widest == MaxBuckets * width
        end == IF Given(w.end) THEN w.end.at
               ELSE IF Given(w.start) THEN w.start.at + widest ELSE Now
        start == IF Given(w.start) THEN w.start.at ELSE end - widest
    IN  [start |-> Aware(start), end |-> Aware(end)]

TooManyBuckets(w, width) == w.end.at - w.start.at > MaxBuckets * width

-----------------------------------------------------------------------------
(* The queries.                                                             *)

\* ORDER BY time DESC LIMIT n.
Oldest(times, n) == {t \in times : Cardinality({u \in times : u < t}) < n}
Newest(times, n) == {t \in times : Cardinality({u \in times : u > t}) < n}

\* time_bucket floors.
BucketOf(t, width) == t - (t % width)
BucketsOf(times, width) == {BucketOf(t, width) : t \in times}

BelowMin(v) == Given(band.min) /\ v < band.min
AboveMax(v) == Given(band.max) /\ v > band.max
Breaching(since) ==
    {t \in Stored : t >= since /\ (BelowMin(reading[t]) \/ AboveMax(reading[t]))}

AlertUnguarded(t) ==
    LET under == ~Given(band.min) \/ reading[t] < band.min
    IN  [time |-> t, value |-> reading[t], bound |-> IF under THEN "min" ELSE "max",
         threshold |-> IF under THEN band.min ELSE band.max]

Alert(t) ==
    LET under == BelowMin(reading[t])
    IN  [time |-> t, value |-> reading[t], bound |-> IF under THEN "min" ELSE "max",
         threshold |-> IF under THEN band.min ELSE band.max]

Answer(answer) == reply' = answer /\ UNCHANGED <<reading, band>>

ListReadings(w, limit) ==
    Answer(IF Checked(w) # 200 THEN Refusal(Checked(w))
           ELSE IF limit > MaxLimit THEN Refusal(422)
           ELSE [kind |-> "list", window |-> w, limit |-> limit,
                 rows |-> Newest(Matching(w), limit)])

AggregateReadings(w, width) ==
    LET filled == Anchored(w, width)
    IN  Answer(IF Checked(w) # 200 THEN Refusal(Checked(w))
               ELSE IF TooManyBuckets(filled, width) THEN Refusal(422)
               ELSE [kind |-> "aggregate", window |-> filled, width |-> width,
                     rows |-> BucketsOf(Matching(filled), width)])

\* `since` is only made aware: it has no range.
ListAlerts(since, limit) ==
    Answer(IF limit > MaxLimit THEN Refusal(422)
           ELSE [kind |-> "alerts", since |-> since, limit |-> limit,
                 rows |-> {Alert(t) : t \in Newest(Breaching(since), limit)}])

DeleteReadingsDryToo(w, dryRun) ==
    IF Checked(w) # 200 THEN Answer(Refusal(Checked(w)))
    ELSE IF ~Given(w.start) /\ ~Given(w.end) THEN Answer(Refusal(422))
    ELSE /\ reading' = [t \in Instants |-> IF InWindow(t, w) THEN Absent ELSE reading[t]]
         /\ reply' = [kind |-> "deleted", window |-> w, dry |-> dryRun,
                      count |-> Cardinality(Matching(w))]
         /\ UNCHANGED band

DeleteReadings(w, dryRun) ==
    IF Checked(w) # 200 THEN Answer(Refusal(Checked(w)))
    ELSE IF ~Given(w.start) /\ ~Given(w.end) THEN Answer(Refusal(422))
    ELSE /\ reading' = IF dryRun THEN reading
                       ELSE [t \in Instants |-> IF InWindow(t, w) THEN Absent ELSE reading[t]]
         /\ reply' = [kind |-> "deleted", window |-> w, dry |-> dryRun,
                      count |-> Cardinality(Matching(w))]
         /\ UNCHANGED band

-----------------------------------------------------------------------------
(* The agent's tools: bounds are made aware and nothing else is asked of    *)
(* them; the result is cut from the end until it fits.                      *)

\* How many of n rows _serialize keeps: none, unasked whether the note fits, if
\* the loop finds nothing that does.
KeptGreedily(n) == IF n <= Cap THEN n ELSE Cap

Kept(n) ==
    IF n <= Cap THEN n
    ELSE IF Envelope > Cap THEN 0
    ELSE CHOOSE k \in 0..(n - 1) :
             /\ Envelope + k <= Cap
             /\ \A j \in 0..(n - 1) : Envelope + j <= Cap => j <= k

\* `rows` are the instants or buckets pulled, `kept` those the model sees.
ToolReply(rows, kept, total) ==
    Answer([kind |-> "tool", rows |-> rows, kept |-> kept,
            bytes |-> Cardinality(kept) + IF Cardinality(kept) < total THEN Envelope ELSE 0])

QueryTool(w, limit) ==
    LET rows == Newest(Matching(w), limit)
    IN  ToolReply(rows, Newest(rows, Kept(Cardinality(rows))), Cardinality(rows))

\* Buckets come oldest first, and in any number.
AggregateTool(w, width) ==
    LET rows == BucketsOf(Matching(w), width)
    IN  ToolReply(rows, Oldest(rows, Kept(Cardinality(rows))), Cardinality(rows))

AlertsTool(since) ==
    LET rows == Newest(Breaching(since), MaxLimit)
    IN  ToolReply(rows, Newest(rows, Kept(Cardinality(rows))), Cardinality(rows))

ToolWindows == [start : {Aware(t) : t \in Instants}, end : {Aware(t) : t \in Instants}]

\* An answer is looked at until something changes: requests do not depend on
\* the answers before them.
HttpRequest ==
  /\ reply = NoReply
  /\ \/ \E w \in Windows, limit \in 1..(MaxLimit + 1) : ListReadings(w, limit)
     \/ \E w \in Windows, width \in Widths : AggregateReadings(w, width)
     \/ \E since \in Instants, limit \in 1..(MaxLimit + 1) : ListAlerts(since, limit)
     \/ \E w \in Windows, dryRun \in BOOLEAN : DeleteReadings(w, dryRun)

ToolCall ==
  /\ reply = NoReply
  /\ \/ \E w \in ToolWindows, limit \in 1..MaxLimit : QueryTool(w, limit)
     \/ \E w \in ToolWindows, width \in Widths : AggregateTool(w, width)
     \/ \E since \in Instants : AlertsTool(since)

Change ==
    \/ \E t \in Instants, v \in Values : Insert(t, v)
    \/ \E b \in Bands : Retune(b)

Next == Change \/ HttpRequest \/ ToolCall

Spec == Init /\ [][Next]_vars

-----------------------------------------------------------------------------
(* A limit keeps "the useful thousand", the recent ones (services/          *)
(* reading.py:159): a reading of the window that is left out is older than  *)
(* every one that is returned, and none is left out below the limit.        *)
LimitKeepsNewest ==
    reply.kind = "list" =>
        LET left == Matching(reply.window) \ reply.rows
        IN  /\ \A t \in reply.rows, u \in left : u < t
            /\ left # {} => Cardinality(reply.rows) = reply.limit

(* "Adjacent windows tile without double-counting" (services/reading.py:170)*)
(* whatever the edge: a reading is in exactly one of [a, b) and [b, c) when *)
(* it is in [a, c).                                                         *)
WindowsTile ==
    \A a, b, c \in Instants : a <= b /\ b <= c =>
        LET W(x, y) == Matching([start |-> Aware(x), end |-> Aware(y)])
        IN  W(a, b) \cup W(b, c) = W(a, c) /\ W(a, b) \cap W(b, c) = {}

(* An alert names a threshold the device has and the reading is beyond, and *)
(* no breach since the given instant is missing unless the limit is spent.  *)
AlertsAreBreaches ==
    reply.kind = "alerts" =>
        /\ \A alert \in reply.rows :
               /\ alert.threshold # Absent
               /\ alert.bound = "min" => alert.value < alert.threshold
               /\ alert.bound = "max" => alert.value > alert.threshold
        /\ \/ Cardinality(reply.rows) = reply.limit
           \/ {alert.time : alert \in reply.rows} = Breaching(reply.since)

(* The count a purge answers is the number of readings it removed, and a    *)
(* dry run's the number the same purge would remove now (schemas/           *)
(* reading.py:260).                                                         *)
PurgeCountExact ==
    [][reply'.kind = "deleted" =>
           LET gone == {t \in Stored : reading'[t] = Absent}
               kept == Stored \ gone
           IN  /\ reply'.dry => gone = {}
               /\ ~reply'.dry => Cardinality(gone) = reply'.count
               /\ reply'.dry => reply'.count = Cardinality(
                                   {t \in kept : InWindow(t, reply'.window)})]_vars

(* A tool result fits its cap, with the note that it was cut if it was, or  *)
(* is that note alone and the cap has no room for it (tools.py:126).        *)
ToolResultFits ==
    reply.kind = "tool" =>
        reply.bytes <= Cap \/ (reply.kept = {} /\ Cap < Envelope)

(* "Requests that would exceed 1,000 buckets are rejected" (README.md:32).  *)
BucketCeiling == reply.kind = "aggregate" => Cardinality(reply.rows) <= MaxBuckets

(* "Naive timestamps are interpreted as UTC" (README.md:524): no request    *)
(* ends in an internal error.                                               *)
NoServerError == reply.kind = "refused" => reply.status # 500

(* "Ceiling on rows a single tool call may pull back" (agent/tools.py:30).  *)
ToolRowCeiling == reply.kind = "tool" => Cardinality(reply.rows) <= MaxLimit

(* "The rows that survive are the recent ones" (agent/tools.py:108).        *)
SurvivorsAreRecent ==
    reply.kind = "tool" => \A t \in reply.kept, u \in reply.rows \ reply.kept : u < t
=============================================================================
