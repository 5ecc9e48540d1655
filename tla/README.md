# A TLA+ model of DataBull

DataBull is a sensor telemetry platform: a FastAPI backend over PostgreSQL
(TimescaleDB), an assistant that answers questions about the caller's devices
with tools over the same data, an MCP server, a React client and an eval
harness. This directory models the parts of it whose correctness depends on the
order of things, checks them with TLC on small instances, and proves the
properties that matter most with TLAPS.

## 1. Inventory

| Component | State | Operations | Interacts with | What is hard | What makes it correct |
|---|---|---|---|---|---|
| Agent turn loop (`agent/runner.py`, `events.py`, `llm_client.py`) | conversation, calls of the reply, results collected, tools used, deadline | stream a reply, run its tools, report, end | tools, the model, the SSE reader | failures at any await, timeouts, early exits of two nested loops, a reader that leaves | tool calls and results paired for the provider; a grammar for the stream; `done` always last; a real ceiling on tools |
| Agent tools (`agent/tools.py`) | one shared DB session | four queries, cut to a byte cap | services through repositories | a failed query poisons the session; the cut costs bytes itself | a tool failure never ends the turn, and the next tool can work; a result fits its cap |
| Chat endpoint (`api/chat.py`) | the request's session | build services, stream | loop, reader | the session and its pooled connection live as long as the reader | nothing is sent after the reader left |
| Telemetry writes (`services/*`, `api/*`, `core/deps.py`) | none between requests | signup, delete account, create/update/delete device, ingest, purge | tables | each request is several statements; others run in between | acts as one atomic request, for the owner only; answers tell the truth |
| Telemetry tables (`models/*`, `db/session.py`) | users, devices, readings | statements, commit, rollback | writes, queries | locks, constraints, cascades | no orphan, unique names and addresses, ordered bands |
| Telemetry queries (`services/reading.py`, `schemas/reading.py`) | none | list, aggregate, alerts, purge counts | tables, tools | naive and aware instants, window and bucket arithmetic, limits | half-open windows that tile, the newest rows under a limit, alerts name the bound breached, counts of a purge exact |
| Chat panel (`lib/useChat.ts`, `ChatDrawer.tsx`) | transcript, abort handle, observed mutation, per mount of the drawer | send, stop, clear, apply event, leave | SSE reader, query library | late events and the `finally` of an aborted stream, mutations held while offline | stop stops the stream on screen; events land in their own turn |
| SSE reader (`lib/api.ts`) | buffer | read, finish | chat endpoint, chat panel | chunks cut anywhere | every event once and in order |
| Browser session (`lib/auth.tsx`, `lib/queries.ts`, `App.tsx`) | token, user, loading, query cache, page | sign-in, sign-out, navigate, fetch, poll, any 401 | API | answers that arrive after sign-out, two sign-ins at once or one after another without a sign-out, a tab that sleeps | while one person signs in between two sign-outs, nobody else's fleet is shown; a dead session does not stay on a page that polls |
| Tokens (`core/security.py`, `core/deps.py`) | cache of known users | mint, decode, look up | tables | a cache read twice under a running clock, an account deleted during the lookup | nobody is let in after the account is gone, nobody refused without a reason |
| MCP server and client (`mcp/*`) | runtime, lock, token, cached owner id | build, call, log in again | API | concurrent calls building one runtime and renewing one token, a stale owner id | one runtime, one login; a second 401 means the account is gone; every call ends |
| Eval harness (`evals/*`) | cassette file, reel, transcript | record, replay, grade | agent loop | runs that break off or are killed, greedy pairing | a graded replay says what was recorded; a case passes only with a full pairing |
| Errors, config, pages, scripts | - | pure functions, rendering, one-shot | - | - | not modelled |

`PROJECT.json` lists every component with its status, and every hazard of the
code at its line, with the properties that would catch it.

## 2. Modules

| Module | Models | Role |
|---|---|---|
| `AgentEvents` | `agent/events.py` | the event vocabulary |
| `EventStream` | the contract of `events.py` as its two readers rely on it | abstract specification of a turn's stream |
| `AgentTurn` | `run_agent`, `execute_tool`, the SSE response | detailed specification; implements `EventStream` |
| `TelemetryData` | `models/*` | rows, keys and constraints |
| `TelemetryStore` | the services as atomic operations | abstract specification of the tables |
| `DataPlane` | routers, dependencies and services, statement by statement | detailed specification; implements `TelemetryStore` |
| `TelemetryQueries` | `schemas/reading.py`, the queries of `services/reading.py`, the tools of `agent/tools.py` | one device's readings read back |
| `TokenGate` | `core/security.py`, `core/deps.py`, `api/auth.py` | who a request is from |
| `McpClient` | `mcp/server.py`, `mcp/client.py` | the shared runtime and token of concurrent tool calls |
| `ChatClient` | `lib/useChat.ts`, `ChatDrawer.tsx`, `AppShell.tsx` | the assistant drawer |
| `SseReader` | `apiStream` and `parseFrame` of `lib/api.ts` | reading a stream |
| `SessionAuth` | `lib/auth.tsx`, `lib/queries.ts`, `App.tsx` | the browser session |
| `Grading` | `grade_tools` of `evals/grading.py` | two greedy loops and what they should decide |
| `Cassette` | `evals/cassette.py`, `evals/runner.py` | recording and replaying a case |
| `MCAgentTurn`, `MCDataPlane`, `MCDataPlaneFair`, `MCChatClient`, `MCParts` | | instances for TLC |
| `EventStreamProofs`, `AgentTurnProofs`, `DataPlaneProofs` (with `TelemetryStore`), `McpClientProofs`, `SessionAuthProofs`, `ChatClientProofs`, `TelemetryQueriesProofs`, `PartsProofs` (`Grading`, `TokenGate`, `Cassette`, and the three side by side as in `MCParts`) | | theorems |

In the modules a few operators stand beside the action they vary
(`RenewOnError` beside `Renew`, `InWindowClosed` beside `InWindow`): each is the
code with a plausible mistake in it, and shows that some property would catch
that mistake. No specification uses them.

### AgentTurn

`pc` is where the generator is. `top`/`stream` are the two halves of the outer
`while`, `calls`/`announced`/`exec` those of the loop over a reply's tool calls,
`closing` the final `yield done()`. Each action is one stretch of code between
two suspension points (`yield` or `await`). `conversation` is the list sent to
the provider, reduced to roles and tool ids; `sent` is a history of the events
delivered. The model, the tools, the clock and the reader are nondeterministic:
a reply may end in any of six ways, a tool may answer, refuse, hit a database
error or hang, the reader may leave at any point. Time is counted in ticks and
passes in any state; while a tool runs its timeout is armed, so the clock does
not run past the deadline. `session` tells whether the request's one database
transaction still takes queries. Text, arguments, token counts and cost are left
out; no control depends on them.

Refinement mapping: the abstract `status` is read off `pc` and the last event,
the abstract `call` off `pc` and the call at hand, `used` is `toolCallsMade`.

### DataPlane

A slot is a request being served. `pc` is its next statement: `auth` is
`get_current_user`, `own` is `get_owned_device`, `write` the statement that
changes rows, `commit` the COMMIT. The tables hold what is committed; what a slot has
written and not committed is implied by `pc = "commit"` and its request, plus
`touched`, the instants of the readings it has inserted or deleted.

PostgreSQL is not in the repository. It is modelled as the code relies on it
(READ COMMITTED, the default of the engine in `db/session.py`), and these
definitions are marked external:

- a statement waits for the transactions that hold the rows or index entries it
  needs (`WaitsFor`): an entry of a unique index that is being added or removed,
  a row being changed or deleted (directly or by a cascade), and, for a deletion
  or a rename, the key-share locks that foreign key checks left on the row;
- constraints are tested on the committed tables once there is nothing to wait
  for;
- a statement takes its locks in one step, except a bulk INSERT, which takes
  them row by row. A cycle of waits is broken by aborting one of its members.

Simplifications: a deletion that cascades over several rows in reality waits
while it already holds some of them; the model makes it wait before it takes
any. The values of readings and the type and unit of devices are left out: no write
depends on them. Reads are left out: they change nothing. A token names the
account it was issued for; a missing, expired or forged one is refused before
anything is read.

`LoadDevice` keeps, of a PATCH, only the fields that differ from the row as
loaded: the ORM sends no others. This is where a request carries a stale
view of the device into its write.

Refinement mapping: the identity on the committed tables. Every commit must be
an atomic operation of `TelemetryStore` enabled at that instant.

### TelemetryQueries

One device, its band and its readings. A request picks a window, whose bounds
may be absent or lack a time zone, a limit or a bucket width, and the reply is
kept until something changes. A list is a set of instants: every query orders by
time, so order and limit together say which rows survive, and that is what the
set is. The values inside a bucket are left out: nothing depends on them. Bytes
are counted in rows (`Cap`, `Envelope`), enough to tell whether a cut fits. Under a
cap with no room for the note itself, `_serialize` returns the note alone, unchecked
(agent/tools.py:126), and so does `Kept`; the setting has no lower bound
(config.py:94).

### TokenGate

`Arrive` is the part of `get_current_user` up to the test of the cache,
`ReadCache` the second access to it, `LookUp` and `Resume` the query and what
follows the await. Between the two accesses only the clock moves, since there is
no await; it is a `TTLCache`, which reads the clock at each. A token's number
stands for its signature.

### McpClient

A call waits for the runtime, builds it under the lock if there is none
(`phase = "build"`, the request to `/auth/me`), then sends its own request
(`"run"`). `sent` to `answered` is a request in flight; `login` and `loggedIn`
are `DataBullClient.request` renewing the token all calls share. `Leave`
releases the lock, as `async with` does. The API deletes and registers accounts
and expires tokens at any time, with one exception (`JustRenewed`): a token that
lives 24 hours does not expire within the 15 seconds of the request it was
minted for.

### ChatClient and SseReader

A prompt's number stands for its mutation, its stream and its two turns.
JavaScript runs to completion, so each action is one task with the microtasks
it triggers: Stop and Clear include the `finally` of the stream they abort.
`drawers` keeps the refs of every mount, as closures do: a stream outlives the
drawer that began it. The server's events come in the order `EventStream`
allows. `network` is what the query library believes: while it is `"offline"` a
mutation is held and resumes by itself. `SseReader` works on symbols, of which
only line breaks decide where frames end, so a cut within any other symbol acts
like a cut beside it. `Split` finds the delimiters from the left, symbol by symbol
(`Put`).

### SessionAuth

A sign-in's number is its token. Its two answers, every poll, fetch, mutation and
stream are separate steps; `flight` keeps the token each request was sent with. Of
the query cache only `['devices']` is kept: the other keys name a device or, as the
alerts' does, the moment their page was opened.

The two forms may be opened at any time, signed in or not, by a link, the Back
button or the address, and neither asks whether somebody is signed in; so `Submit`
has no guard but the page. `page` and `PagesOf` say which page sends what: the
polling hooks run on the dashboard and the device page, the fleet is fetched on the
dashboard and on `/devices`, which does not poll. `awake` says that the tab is in front and
the API answers its polls. `since` is a history: the sign-ins submitted since the
last sign-out, with those that were in flight then.

### Grading and Cassette

An argument pattern is the set of arguments it accepts. The two loops of
`grade_tools` take one expectation a step; what they should decide is stated
apart from them, as the existence of a pairing (`Matches`). `Cassette` runs one
case again and again, in any mode and with any budget, and may be killed
anywhere; `recorded` is a history of the run that wrote the file.

## 3. Runs

| Run | Question | Result |
|---|---|---|
| `agent_turn` | does the loop pair calls with results, implement the event contract, and end with `done` for a reader who stays? | yes |
| `agent_timeout` | is the whole turn bounded by the turn timeout (docs/SPEC.md:363)? | **no**: not while the model streams |
| `agent_recovery` | can the model recover from a tool error (docs/SPEC.md:357)? | **no** after a database error: nobody rolls back |
| `plane_accounts` | two concurrent requests of two tenants on accounts and devices | atomic, owner only |
| `plane_fair` | two concurrent requests contending for one device's band or readings | atomic, consistent, success is stored, every request is answered |
| `plane_duplicate` | does `duplicate_reading` mean that the reading exists? | **no**: also after losing a race with a deletion |
| `mcp_calls` | two concurrent tool calls, three kinds of credentials, an account that comes and goes | one runtime, one login, answers are for the runtime's account while it can be asked for, a second 401 means gone, every call ends |
| `mcp_owner` | does a tool only answer for the account it serves (docs/MCP.md:188)? | **no** after the address was registered again |
| `chat_drawer` | two prompts with Stop, Clear, leaving and an unreliable network in any order | handle, transcript and chips stay right |
| `session_cache` | both forms at any time, late answers, dead tokens, sign-outs, pages, a tab that sleeps | one person's session shows nobody else's fleet; a dead session does not stay on a polling page in front |
| `queries_rows` | every window, limit, width and band over five instants | limits, tiling, alerts, counts and cuts are right |
| `parts` | reader, grading, cassette and token gate, one per behaviour | right |

`parts` puts four small components in one instance because each is too small
for an instance of its own. They share no state: a behaviour moves one of them.

### Counterexamples outside the regular runs

These statements of the repository's comments and documents do not hold of the
code. Each has a cfg that makes TLC show it
(`tlc -config <cfg> <module>.tla`).

| Cfg | Statement | What happens |
|---|---|---|
| `DataPlane_name.cfg` | renames "translate a unique-constraint violation into a 409" (README.md:188) | `update_device` answers "You already have a device with that name." to every IntegrityError: also to a name set to null or a threshold beyond the stored other one (services/device.py:99) |
| `DataPlane_band.cfg` | "min < max is enforced on write" (services/reading.py:269) | one threshold can be set equal to the stored other one (schemas/device.py:60, models/device.py:52) |
| `ChatClient_offline.cfg` | "True from submit until the stream ends." (useChat.ts:51) | a prompt submitted offline and cleared is sent on reconnection and streams into the cleared transcript, without Stop |
| `ChatClient_limit.cfg` | "Transcript turns the API will accept" (useChat.ts:37) | the transcript outgrows the API's 50 messages (schemas/chat.py:24), after which every prompt is refused |
| `SessionAuth_forms.cfg` | "the access token and the user it belongs to" (auth.tsx:2) | two sign-ins in flight leave the token of one beside the user of the other |
| `SessionAuth_switch.cfg` | "per-user isolation" (docs/SPEC.md:17) | Ann signs in, goes Back to a form, and Bob signs in: `authenticate` does not clear the cache (auth.tsx:66), so Ann's `['devices']` is there under Bob's name until it is fetched again |
| `SessionAuth_late.cfg` | "A 401 here means ... the session is over" (useChat.ts:168) | the 401 of an earlier session's mutation or stream signs out the next one |
| `McpClient_supplied.cfg` | "A caller-supplied token is used as-is" (mcp/client.py:61) | with a password also on file it is replaced by a token of the password's account |
| `TelemetryQueries_naive.cfg` | "Naive timestamps are interpreted as UTC." (README.md:524) | a naive bound is compared with an aware clock first, a TypeError and a 500 (schemas/reading.py:155) |
| `TelemetryQueries_buckets.cfg` | "Requests that would exceed 1,000 buckets are rejected" (README.md:32) | a range of exactly 1000 widths that is not aligned touches 1001 |
| `TelemetryQueries_tool.cfg` | "Ceiling on rows a single tool call may pull back" (agent/tools.py:30) | `aggregate_window` has neither limit nor range check |
| `TelemetryQueries_cut.cfg` | "the rows that survive are the recent ones" (agent/tools.py:106) | buckets come oldest first, so the recent ones are cut |
| `MCParts_set.cfg` | "Pair each expectation with a call that satisfies it, not merely the first one sharing its name" (evals/grading.py:243) | a lenient expectation takes the only call a stricter one accepts |
| `MCParts_race.cfg` | "Resolve the caller's `User` from the bearer token, or raise 401" (core/deps.py:37) | a cache entry that expires between two accesses is a KeyError and a 500 |

### Bounds

- Agent: a budget of 3 calls in replies of up to 2, so the budget can be met
  exactly, exceeded by a second reply, and exceeded with calls left over; a deadline
  of 2 ticks on a clock that reaches 3, so that it passes before, between and during
  calls. One chunk of text per reply is enough: chunks do not interact.
- Data plane: ids are never reused, so a run ends when they are spent.
  `plane_accounts` has two tenants, devices, names and addresses, so that every
  uniqueness constraint can clash and a device can belong to someone else.
  `plane_fair` has one tenant and one device, and requests that all touch its band
  or its readings (`Contending`): two instants let two bulk INSERTs deadlock, two
  levels let two one-sided updates invert the band. Two slots show every pairwise
  race; the proofs cover any number. Symmetry is used in safety runs only.
- MCP: two calls race for the lock and the renewal; two registrations suffice
  for the account to be gone and to be another.
- Chat: two prompts are one stream and a later one; two calls of two names make
  equal and different chips; the limit on messages is 4, which the second
  prompt's request fits. Three prompts exceed it (`ChatClient_limit.cfg`).
- Session: two people and two sign-ins, so that a second one can be of the same or of
  the other person, at the same time, later without a sign-out, or later with one; one
  mutation, one chat stream, the query for the fleet and one poll. The proof covers any
  number.
- Queries: instants 0 to 4, a clock in the middle, a grace of one: bounds before,
  at and beyond it; widths 1 and 2 with two buckets, limits up to one more than the
  ceiling; three values around two thresholds that may be equal or absent.
- Parts: bodies of up to six symbols (an event is four), cut everywhere; up to three
  expectations and calls; replies of a text and two calls under budgets 1 and 2; two
  requests, two accounts and two tokens over three instants.

### Fairness

- `AgentTurn`: weak fairness of the loop's own steps (the event loop resumes a
  generator whose reader asks for more), of the clock, of the timer that cancels a
  tool, and of the model's stream ending, which the SDK's own timeouts ensure. None
  for tools returning: `done` must come although a tool hangs. None for the reader.
- `DataPlane`: weak fairness of each slot's own steps, the deadlock detector
  included. `Quiescence` is claimed only if clients eventually stop sending: against an
  endless stream of others a waiter could starve, since new key-share locks
  overtake a waiting deletion.
- `McpClient`: weak fairness of each call's own progress: httpx bounds every
  request by a timeout, and a released lock is handed on.
- `SessionAuth`: weak fairness of the poll, its answer and its refusal, where an
  interval runs: only `useReadings`, `useAggregate` and `useAlerts` have a
  `refetchInterval` (queries.ts:96, 115, 131), only the dashboard and the device page
  use them, and the interval pauses in a background tab or offline (`awake`). So
  `DeadSessionEnds` speaks of those pages and of a tab in front; on `/devices` a dead
  session stays on screen until something is clicked, and nothing is claimed there.
  None for the user, for the fleet's fetch or for mutations.
- The other modules claim safety only. Where a behaviour may simply stop (no prompt
  left, all ids spent) the cfg switches the deadlock check off.

## 4. Proofs

All for every value of the constants under the named assumptions.

- `EventStreamProofs!StreamGrammarHolds`: the abstract stream obeys the grammar.
  Induction needs what the last event says about `status` and `call`.
- `AgentTurnProofs!Invariance`: the inductive invariant of the loop. Beside types
  it says that the calls still to be made are the suffix of the last assistant
  message not yet answered in `results`, that their number fits the remaining
  budget, and that all earlier messages are paired. `TypeCorrect` and
  `RequestsWellFormed` follow from it. That `toolCallsMade` is at most
  `MaxToolCalls` is part of `TypeOK`: the budget is tested once per reply, and
  stays right only because the calls left fit what remains of it.
- `AgentTurnProofs!Refinement`: each step of the loop is a step of `EventStream`
  or a stutter; `TurnStreamGrammar` then carries the grammar over to the loop.
- `DataPlaneProofs!StoreConsistent`: `TypeOK /\ Consistent` is inductive for the
  atomic store. The proof has one step per operation, over two lemmas on what
  inserting and deleting rows does to the set of live rows.
- `DataPlaneProofs!Refinement`: the data plane implements the atomic store, for
  any number of concurrent requests. A write statement checks its constraint when
  it runs and takes effect at its commit, with other commits in between, so
  refinement alone is not inductive. The invariant adds four parts: `Shape` (what a
  request can have written where it is), `Known` (a device that was the caller's is
  either still the caller's or gone, and ids are not minted twice), `Sound` (what a
  pending write checked still holds) and `Apart` (no two slots hold conflicting
  locks). `Sound` of one slot survives the commit of another because they are
  `Apart`, and they are because each statement waits (`WaitsFor`): the lemmas on
  write statements use the waits, those on commits use `Apart`. So the proof also
  tells which waits atomicity rests on: it uses none for a purge, nor for an address or
  name that is about to be freed. Types and consistency of the tables come from
  `StoreConsistent` through the refinement; `WrittenByOwner` and
  `SuccessStored` follow from the same invariant.
- `McpClientProofs!Invariance`, for any number of calls and registrations. A second
  401 proves the account gone (`SecondRejection`) because the invariant keeps
  three facts along the way: what is in flight carries a token that was issued
  (`Carrying`), after a renewal one that has not expired (`Fresh`), so a rejection
  means the account, which never comes back under its old id (`Denied`). Fresh rests
  on `JustRenewed`. `Building` (who is inside the lock finds no runtime) gives
  `SingleRuntime`.
  `OwnerAnswers` says that, while the runtime's account can be asked for, every call is
  answered for it, though the calls share and replace one token. A token of the
  password's account is no matter as long as the runtime is of that account: registered
  anew it has another number, and then the old one is gone (`Owned`, `Ageing`: tokens only
  expire and no account comes back). The case that needs work is a supplied token of
  another account than the password's: while it lives it is the only one used, nobody is
  rejected, so nobody logs in as the other account (`Lending`); once it has expired,
  the promise is void (`Foreign`, `Told`), as `McpClient_supplied.cfg` shows.
  `OneLogin` needs a count over all calls: `Counted` says that the first
  logins are at most the calls that failed, and one more once the runtime is built
  or its builder has logged in (`Spent`); `Tokened`, that a client past its first
  login never lacks a token again. A failed build is what makes another first
  login possible, and it is exactly what leaves a failed call behind.
- `SessionAuthProofs!FleetOfOnePersonHolds`, unconditionally: both forms, any number of
  sign-ins at once. If one person alone has signed in since the last sign-out (or was
  then in flight), the name and the fleet on the page are that person's. The
  invariant says where the two come from: the token in use, and the one the fleet's
  fetch carries, are of sign-ins in `since`, which holds all those in flight
  (`OnItsWay`); and so are the user and the cached fleet (`OnScreen`). A sign-out
  may shrink `since` because it empties the cache and drops the fetch. Without "one
  person" it does not hold: `SessionAuth_switch.cfg`, `SessionAuth_forms.cfg`.
- `ChatClientProofs!Invariance`, for any number of prompts, calls and mounts of the
  drawer. On any network, `Fits` relates the three that could drift apart: a drawer's
  handle and observed mutation are streams of that drawer, and a turn shows no more
  calls than its stream has made, each at its place (`ChipsStay`). On a steady network
  `Attached` adds that nothing is held back and that a running stream has the handle
  of its own drawer, hence at most one runs per drawer: that is why the `finally` of a
  stream can only drop its own handle (`StopCanStop`), which the code does not test.
  `Current` and `Honest` say that the transcript on screen, and every request when it
  was made, are of one epoch (`DiscardedStays`). Both claims fail off a steady
  network, as `ChatClient_offline.cfg` shows.
- `TelemetryQueriesProofs!Invariance`: an answer stands for the table and thresholds it
  was computed from, because every write forgets it. The weight is in the lemmas on
  the operators, for any instants: what `Newest` and `Oldest` keep (all rows, or
  exactly as many as the limit: counted at the last row kept and the first left out),
  what `Kept` leaves fits the cap with its note, or is the note alone under a cap with no
  room for it (`ToolFits`), and half-open windows
  tile whichever bounds are absent or naive (`Tiling`). `PurgeCounts` is the action
  property.
- `PartsProofs`, on four parts side by side. Each part's invariant is proved of its
  own specification, then carried to `PartsSpec`, whose steps move one part and leave
  the others alone (`SideBySide`).
  - `PassMatches` and `OrderedMatches`, of `Grading` for any case and transcript.
    `SetPaired` and `OrderPaired` carry a pairing along with each loop; in `set` mode
    it is one-to-one, and onto because equal multisets of names have equally many
    members. `Earliest` is why greedy is right in order: no increasing pairing is
    ever ahead of the cursor.
  - `Accepted` and `Refused`, for any number of requests. `GateIInv` says of each
    request what its position means: past two gates its token was good when it came; a
    row that was found was there then, one that was not found never comes back.
  - `ReplayTells`, `CleanReplays` and `SkippedUnrecorded`, for any tapes, tools and
    budgets. `TapeIInv` says the reel of a recording is what its run has said so far
    (`Recording`), the file is what its run said in full (`OnTape`), and a replay has
    said as much of it as it has played (`Replaying`). What the first `i` replies amount
    to is a history `h` whose existence the invariant asserts (`Played`), which stands
    in for a recursive sum. A graded replay has told all: it closes on a reply
    without calls, and on a tape without an error only the last is one (`Answered`).
  - `EventsDelivered`, for bodies of any length and any cuts. `SseIInv` says the reader
    stands where splitting all that has arrived at once would: it holds back the last
    piece and has yielded the events of the others. A chunk keeps it because the
    pieces of a text only grow at the end (`SplitFurther`): splitting the chunk with
    what was held back is splitting the whole. `SseDelivers` then reads the whole
    body, frame by frame as the server wrote it (`EncodedEvents`). `Split` and
    `FlattenSeq` are recursive functions; what they compute for every body is proved by
    the least length at which a claim fails (`Climb`), the claim being a set of
    lengths, so that no induction theorem with an operator parameter is needed.

The assumptions are on PostgreSQL (the external definitions of section 2), on
clocks (`JustRenewed`) and on the constants (`DataAssumption`,
`DataPlaneAssumption`: bodies have passed their validator; `CredentialsAssumption`,
`SessionAssumption`, `ChatAssumption`, `QueryAssumption`, `GradingAssumption`,
`PartsAssumption`).

Only model-checked: liveness (`TurnEnds`, `Quiescence`, `CallsEnd`,
`DeadSessionEnds`), which is out of the prover's reach.

## 5. Plan

The components of section 1 that carry control are modelled, and every safety
property that a run finds true is proved. What is left, in order:

1. `ChatClient` composed with `AgentTurn` through `EventStream`, instead of with the
   order of events alone.
2. Entries of the query cache under device keys.
3. `StopCanStop` and `DiscardedStays` off a steady network, under the condition the
   counterexample suggests: for prompts that were not submitted offline.

## 6. Not modelled

- The connection pool: a chat stream holds a connection for its whole turn, and enough
  of them exhaust the pool (`db/session.py:27`). Nothing in the repository says
  how many it should serve, so there is nothing to check it against.
- Cryptography (signatures, password hashes), configuration, error rendering, argument
  schemas, prompts, page rendering, charts: pure functions or wording.
- The rubric and metrics of the eval harness (text searches, sums) and its fixtures (data).
- The demo seed and the migrations: one-shot scripts; the schema they create is
  in `TelemetryData`.
- `list_devices` and reads in general beyond `TelemetryQueries`: they change nothing.
- The provider, PostgreSQL, the query library and the browser are modelled only as
  far as the code depends on them.
