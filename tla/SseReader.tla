------------------------------ MODULE SseReader ------------------------------
(***************************************************************************)
(* Reading a stream of server-sent events: apiStream and parseFrame of     *)
(* frontend/src/lib/api.ts.  The body arrives in chunks cut anywhere; a    *)
(* frame ends with a blank line.                                           *)
(*                                                                         *)
(* A body is a sequence of symbols: "data" is the prefix `data:`, a member *)
(* of Values a complete JSON value, "junk" any other run of characters and *)
(* "nl" a line break.  A cut inside one of the first three acts as a cut   *)
(* beside it, because only line breaks decide where a frame ends.          *)
(***************************************************************************)
EXTENDS Naturals, Sequences, SequencesExt

CONSTANTS
    Values,    \* JSON values an event may be
    MaxText    \* bound: length of a body

VARIABLES
    text,       \* the whole body, as the server writes it
    received,   \* how much of it has arrived
    buffer,     \* arrived and not yet cut into frames
    yielded,    \* the events handed to the caller
    ended       \* the body is exhausted

vars == <<text, received, buffer, yielded, ended>>

Symbol == Values \cup {"data", "junk", "nl"}

-----------------------------------------------------------------------------
(* Cutting and parsing.                                                     *)

\* The pieces with one more symbol: it joins the last piece, which ends where
\* a delimiter does.
Put(pieces, symbol, delimiter) ==
    LET piece == Append(Last(pieces), symbol)
        rest  == Len(piece) - Len(delimiter)
    IN  Front(pieces) \o
            IF rest >= 0 /\ SubSeq(piece, rest + 1, Len(piece)) = delimiter
            THEN <<SubSeq(piece, 1, rest), <<>>>>
            ELSE <<piece>>

\* s.split(delimiter): the pieces between the delimiters, found from the left.
Split(s, delimiter) ==
    LET upTo[n \in 0..Len(s)] ==
            IF n = 0 THEN <<<<>>>> ELSE Put(upTo[n - 1], s[n], delimiter)
    IN  upTo[Len(s)]

BlankLine == <<"nl", "nl">>

\* What follows `data:` on the lines that start with it.  JSON allows line
\* breaks around a value, so only the rest counts.
Payload(frame) ==
    LET lines == Split(frame, <<"nl">>)
    IN  FlattenSeq([i \in 1..Len(lines) |->
            IF lines[i] # <<>> /\ lines[i][1] = "data" THEN Tail(lines[i]) ELSE <<>>])

\* parseFrame: the event of a frame, or nothing if it has none or is not JSON.
ParseFrame(frame) ==
    LET payload == Payload(frame)
    IN  IF Len(payload) = 1 /\ payload[1] \in Values THEN <<payload[1]>> ELSE <<>>

Events(frames) == FlattenSeq([i \in 1..Len(frames) |-> ParseFrame(frames[i])])

TypeOK ==
    /\ text \in Seq(Symbol)
    /\ received \in 0..Len(text)
    /\ buffer \in Seq(Symbol) /\ Len(buffer) <= received
    /\ buffer = SubSeq(text, received - Len(buffer) + 1, received)
    /\ yielded \in Seq(Values)
    /\ ended \in BOOLEAN

Bodies == BoundedSeq(Symbol, MaxText)

InitFor(bodies) ==
    /\ text \in bodies
    /\ received = 0 /\ buffer = <<>> /\ yielded = <<>> /\ ended = FALSE

Init == InitFor(Bodies)

-----------------------------------------------------------------------------

\* A read returns the next k symbols; the last piece is held back.
Read(k) ==
    /\ ~ended /\ received + k <= Len(text)
    /\ LET pieces == Split(buffer \o SubSeq(text, received + 1, received + k), BlankLine)
       IN  /\ yielded' = yielded \o Events(Front(pieces))
           /\ buffer' = Last(pieces)
    /\ received' = received + k
    /\ UNCHANGED <<text, ended>>

\* "A final frame with no trailing blank line still counts."
FinishDroppingTail ==
    /\ ~ended /\ received = Len(text)
    /\ ended' = TRUE
    /\ UNCHANGED <<text, received, buffer, yielded>>

Finish ==
    /\ ~ended /\ received = Len(text)
    /\ yielded' = yielded \o ParseFrame(buffer)
    /\ ended' = TRUE
    /\ UNCHANGED <<text, received, buffer>>

Next == (\E k \in 1..MaxText : Read(k)) \/ Finish

Spec == Init /\ [][Next]_vars

-----------------------------------------------------------------------------
\* What chat_stream of backend/app/api/chat.py writes for a list of events.
Encoded(events) == FlattenSeq([i \in 1..Len(events) |-> <<"data", events[i], "nl", "nl">>])

(* Every event the server wrote is delivered, once and in order, though     *)
(* chunks are cut anywhere (api.ts:143) and the last blank line may have    *)
(* been lost; and of no body, broken or not, is an event handed out that it *)
(* does not have, or out of its place.                                      *)
EveryEventDelivered ==
    /\ IsPrefix(yielded, Events(Split(text, BlankLine)))
    /\ ended => \A events \in BoundedSeq(Values, MaxText \div 4 + 1) :
           text \in {Encoded(events), SubSeq(Encoded(events), 1, Len(Encoded(events)) - 2)}
               => yielded = events
=============================================================================
