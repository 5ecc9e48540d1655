------------------------------ MODULE ChatClient ------------------------------
(***************************************************************************)
(* The assistant drawer: the useChat hook of frontend/src/lib/useChat.ts   *)
(* and the buttons of ChatDrawer.tsx that drive it.                        *)
(*                                                                         *)
(* A prompt becomes a mutation; its mutationFn appends a user and an       *)
(* assistant turn, sends the transcript and applies the events of the      *)
(* stream to that assistant turn.  The query library holds a mutation back *)
(* while the browser is offline and runs it when it is online again.       *)
(*                                                                         *)
(* JavaScript runs to completion: an abort rejects the pending read at     *)
(* once and the hook's `finally` runs before the next click or network     *)
(* event, so Stop and Clear include it.  Prompts are numbered in the order *)
(* of submission, and the number stands for the prompt, for its stream and *)
(* for its two turns.                                                      *)
(***************************************************************************)
EXTENDS Naturals, FiniteSets, Sequences, SequencesExt

CONSTANTS
    Names,          \* tool names
    Networks,       \* the networks a browser may start on
    MaxSends,       \* bound: prompts submitted
    MaxCalls,       \* bound: tool calls of one stream
    MaxMessages     \* the API's limit on messages (50 in schemas/chat.py)

ASSUME ChatAssumption ==
    /\ Networks \subseteq {"steady", "online"}
    /\ MaxSends \in Nat /\ MaxCalls \in Nat /\ MaxMessages \in Nat

VARIABLES
    network,    \* what the query library believes of it: "online" may go
                \* "offline" and back, "steady" is online for good
    drawers,    \* the refs of every mount of the drawer; the last is on screen
    epoch,      \* transcripts discarded so far, by Clear or by a new mount
    sends       \* every prompt submitted: its mutation and its stream

vars == <<network, drawers, epoch, sends>>

-----------------------------------------------------------------------------

None == <<>>

\* A tool chip: the call it stands for, and the result it shows if any.
CallId == (1..MaxSends) \X (1..MaxCalls)
Chip == [name : Names, call : CallId, result : CallId \cup {None}]

Turn == [send : 1..MaxSends, role : {"user", "assistant"}, blank : BOOLEAN,
         tools : Seq(Chip), error : BOOLEAN, usage : BOOLEAN]
Message == [send : 1..MaxSends, role : {"user", "assistant"}]

\* turnsRef, which the screen shows; abortRef, the stream Stop aborts; and the
\* mutation the hook observes (0: none).
Drawer == [turns : Seq(Turn), handle : 0..MaxSends, observed : 0..MaxSends]

\* `drawer` is the mount that submitted the prompt, `epoch` its transcript, and
\* `open` the tool the server has announced and not answered yet.
Stream == [state : {"paused", "open", "ended", "failed"}, drawer : Nat, epoch : Nat,
           request : SUBSET Message, calls : 0..MaxCalls, open : Names \cup {None}]

\* Types, and that a handle is for a stream that is still open.
TypeOK ==
    /\ network \in {"steady", "online", "offline"}
    /\ drawers \in Seq(Drawer) /\ drawers # <<>>
    /\ epoch \in Nat
    /\ Len(sends) <= MaxSends /\ sends \in Seq(Stream)
    /\ \A d \in DOMAIN drawers :
           drawers[d].handle # 0 => sends[drawers[d].handle].state = "open"

NewDrawer == [turns |-> <<>>, handle |-> 0, observed |-> 0]

Init ==
    /\ network \in Networks
    /\ drawers = <<NewDrawer>>
    /\ epoch = 0
    /\ sends = <<>>

Here == Len(drawers)
Shown == drawers[Here]

\* mutation.isPending, which the hook returns as isStreaming.
IsStreaming ==
    Shown.observed # 0 /\ sends[Shown.observed].state \in {"paused", "open"}

Online == network # "offline"

\* Reconnection runs everything that was held back before the user can act.
Settled == ~Online \/ \A n \in DOMAIN sends : sends[n].state # "paused"

-----------------------------------------------------------------------------
(* Submitting a prompt.                                                     *)

NewTurn(n, role, blank) ==
    [send |-> n, role |-> role, blank |-> blank, tools |-> <<>>, error |-> FALSE, usage |-> FALSE]

\* toRequestMessages: turns with nothing in them are left out.  The order of a
\* request is the transcript's, so its messages are all that is kept of it.
RequestMessages(turns) ==
    {[send |-> t.send, role |-> t.role] : t \in {u \in Range(turns) : ~u.blank}}

\* mutationFn up to its first await, on the refs of the drawer it was made in.
Launched(n, mutations, refs) ==
    LET d == mutations[n].drawer
        turns == refs[d].turns
    IN  /\ sends' = [mutations EXCEPT ![n].state = "open",
                        ![n].request = RequestMessages(turns) \cup {[send |-> n, role |-> "user"]}]
        /\ drawers' = [refs EXCEPT ![d].handle = n,
                          ![d].turns = @ \o <<NewTurn(n, "user", FALSE), NewTurn(n, "assistant", TRUE)>>]

\* Submit, a suggestion or Retry.
Send ==
    /\ Settled /\ ~IsStreaming
    /\ Len(sends) < MaxSends
    /\ LET n == Len(sends) + 1
           submitted == Append(sends, [state |-> "paused", drawer |-> Here, epoch |-> epoch,
                                       request |-> {}, calls |-> 0, open |-> None])
           observing == [drawers EXCEPT ![Here].observed = n]
       IN  IF Online THEN Launched(n, submitted, observing)
           ELSE sends' = submitted /\ drawers' = observing
    /\ UNCHANGED <<network, epoch>>

\* The library resumes a mutation it held back, wanted or not.
Resume(n) ==
    /\ Online /\ sends[n].state = "paused"
    /\ Launched(n, sends, drawers)
    /\ UNCHANGED <<network, epoch>>

GoOffline ==
    /\ network = "online" /\ Settled
    /\ network' = "offline"
    /\ UNCHANGED <<drawers, epoch, sends>>

GoOnline ==
    /\ network = "offline"
    /\ network' = "online"
    /\ UNCHANGED <<drawers, epoch, sends>>

-----------------------------------------------------------------------------
(* Events of a stream, applied to the assistant turn it was given.          *)

ApplyEvent(n, change(_)) ==
    drawers' = [drawers EXCEPT ![sends[n].drawer].turns =
                   [t \in 1..Len(@) |->
                       IF @[t].send = n /\ @[t].role = "assistant" THEN change(@[t]) ELSE @[t]]]

Text(n) ==
    /\ sends[n].state = "open" /\ sends[n].open = None /\ Settled
    /\ ApplyEvent(n, LAMBDA turn : [turn EXCEPT !.blank = FALSE])
    /\ UNCHANGED <<network, epoch, sends>>

\* The server announces one tool at a time and answers it next (EventStream).
ToolUse(n, name) ==
    /\ sends[n].state = "open" /\ sends[n].open = None /\ Settled
    /\ sends[n].calls < MaxCalls
    /\ LET k == sends[n].calls + 1
       IN  /\ sends' = [sends EXCEPT ![n].calls = k, ![n].open = name]
           /\ ApplyEvent(n, LAMBDA turn : [turn EXCEPT !.tools =
                  Append(@, [name |-> name, call |-> <<n, k>>, result |-> None])])
    /\ UNCHANGED <<network, epoch>>

\* The most recent pending chip of that name; nothing if there is none.
FillFirst(tools, name, result) ==
    LET i == SelectInSeq(tools, LAMBDA chip : chip.name = name)
    IN  IF i = 0 THEN tools ELSE [tools EXCEPT ![i].result = result]

Fill(tools, name, result) ==
    LET i == SelectLastInSeq(tools, LAMBDA chip : chip.name = name /\ chip.result = None)
    IN  IF i = 0 THEN tools ELSE [tools EXCEPT ![i].result = result]

ToolResult(n) ==
    /\ sends[n].state = "open" /\ sends[n].open # None /\ Settled
    /\ sends' = [sends EXCEPT ![n].open = None]
    /\ ApplyEvent(n, LAMBDA turn : [turn EXCEPT !.tools =
                        Fill(@, sends[n].open, <<n, sends[n].calls>>)])
    /\ UNCHANGED <<network, epoch>>

ErrorOrDone(n) ==
    /\ sends[n].state = "open" /\ sends[n].open = None /\ Settled
    /\ \/ ApplyEvent(n, LAMBDA turn : [turn EXCEPT !.error = TRUE])
       \/ ApplyEvent(n, LAMBDA turn : [turn EXCEPT !.usage = TRUE])
    /\ UNCHANGED <<network, epoch, sends>>

-----------------------------------------------------------------------------
(* The end of a stream.                                                     *)

\* mutationFn's `finally`, whichever stream the handle is for.
KeepHandle(n) == drawers

DropHandle(n) == [drawers EXCEPT ![sends[n].drawer].handle = 0]

\* The body ends, or the request fails: refused, too long, or disconnected.
StreamEnds(n) ==
    /\ sends[n].state = "open" /\ Settled
    /\ \E how \in IF Cardinality(sends[n].request) > MaxMessages THEN {"failed"} ELSE {"ended", "failed"} :
           sends' = [sends EXCEPT ![n].state = how]
    /\ drawers' = DropHandle(n)
    /\ UNCHANGED <<network, epoch>>

\* A 401 signs the user out, and the drawer on screen goes with the page.
Unauthorized(n) ==
    /\ sends[n].state = "open" /\ Settled
    /\ sends' = [sends EXCEPT ![n].state = "failed"]
    /\ drawers' = Append(DropHandle(n), NewDrawer)
    /\ epoch' = epoch + 1
    /\ UNCHANGED network

\* Going to the device list unmounts the drawer and aborts nothing.
Leave ==
    /\ Settled /\ Shown # NewDrawer
    /\ drawers' = Append(drawers, NewDrawer)
    /\ epoch' = epoch + 1
    /\ UNCHANGED <<network, sends>>

-----------------------------------------------------------------------------
(* Stop and Clear.                                                          *)

\* An aborted stream ends in silence: its mutation counts as a success.
Abort ==
    sends' = IF Shown.handle = 0 THEN sends ELSE [sends EXCEPT ![Shown.handle].state = "ended"]

Stop ==
    /\ Settled /\ IsStreaming
    /\ Abort
    /\ drawers' = [drawers EXCEPT ![Here].handle = 0]
    /\ UNCHANGED <<network, epoch>>

\* The button is hidden while the transcript is empty.
ClearWithoutAbort ==
    /\ Settled /\ Shown.turns # <<>>
    /\ drawers' = [drawers EXCEPT ![Here].turns = <<>>, ![Here].observed = 0]
    /\ epoch' = epoch + 1
    /\ UNCHANGED <<network, sends>>

ClearScreenOnly ==
    /\ Settled /\ Shown.turns # <<>>
    /\ Abort
    /\ drawers' = [drawers EXCEPT ![Here].handle = 0, ![Here].observed = 0]
    /\ epoch' = epoch + 1
    /\ UNCHANGED network

Clear ==
    /\ Settled /\ Shown.turns # <<>>
    /\ Abort
    /\ drawers' = [drawers EXCEPT ![Here] = NewDrawer]
    /\ epoch' = epoch + 1
    /\ UNCHANGED network

Event(n) ==
    \/ Text(n) \/ ToolResult(n) \/ ErrorOrDone(n)
    \/ \E name \in Names : ToolUse(n, name)

Next ==
    \/ Send \/ Stop \/ Clear \/ Leave \/ GoOffline \/ GoOnline
    \/ \E n \in DOMAIN sends : Resume(n) \/ Event(n) \/ StreamEnds(n) \/ Unauthorized(n)

Spec == Init /\ [][Next]_vars

-----------------------------------------------------------------------------
(* While the connection holds and the drawer shows Stop, Stop reaches the   *)
(* stream that is running: no earlier stream's `finally` (useChat.ts:174)   *)
(* has taken the handle.                                                    *)
StopReaches == network = "steady" /\ IsStreaming => Shown.handle = Shown.observed

(* isStreaming is "True from submit until the stream ends" (useChat.ts:51): *)
(* no stream of this drawer runs while the drawer says it is idle.          *)
IsStreamingHonest ==
    \A n \in DOMAIN sends :
        sends[n].drawer = Here /\ sends[n].state = "open" => Shown.observed = n

(* While the connection holds, what the user discarded is never sent again: *)
(* every message of a request was written in the transcript it was          *)
(* submitted to (useChat.ts:193).                                           *)
NothingDiscardedSent ==
    network = "steady" => \A n \in DOMAIN sends : \A m \in sends[n].request :
        sends[m.send].epoch = sends[n].epoch

(* Events land in the turn of the stream they came with, and a result in    *)
(* the chip of the call it answers, though both are looked up, by id and by *)
(* name, in a transcript that may have been cleared and begun again.        *)
ChipsInPlace ==
    \A d \in DOMAIN drawers : \A t \in DOMAIN drawers[d].turns :
        LET turn == drawers[d].turns[t]
        IN  \A i \in DOMAIN turn.tools :
                /\ turn.tools[i].call = <<turn.send, i>>
                /\ turn.tools[i].result \in {None, <<turn.send, i>>}

(* A request carries "transcript turns the API will accept" (useChat.ts:37) *)
(* and so is never longer than the API's limit.                             *)
RequestAccepted == \A n \in DOMAIN sends : Cardinality(sends[n].request) <= MaxMessages
=============================================================================
