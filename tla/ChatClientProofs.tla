--------------------------- MODULE ChatClientProofs ---------------------------
(* Proofs about ChatClient, for any number of prompts, mounts and tool      *)
(* calls: its types, that Stop reaches the stream that runs, that nothing   *)
(* discarded is sent again, and that a tool's result is shown in the chip   *)
(* of the call it answers.                                                  *)
EXTENDS ChatClient, SequenceTheorems, TLAPS

-----------------------------------------------------------------------------
(* The inductive invariant, of any mutations `ss` and drawers `ds`: a step  *)
(* passes through values that are no state, as mutationFn does.             *)

Typed(ss, ds) ==
    /\ ss \in Seq(Stream) /\ Len(ss) <= MaxSends
    /\ ds \in Seq(Drawer) /\ ds # <<>>

\* A turn is of a stream of its drawer; the chips of an assistant turn are the
\* calls of the stream in order, the last of them pending while one is open.
TurnFits(ss, d, turn) ==
    /\ turn.send \in 1..Len(ss) /\ ss[turn.send].drawer = d
    /\ turn.role = "user" => turn.tools = <<>>
    /\ turn.role = "assistant" =>
          /\ Len(turn.tools) = ss[turn.send].calls
          /\ ss[turn.send].open # None =>
                /\ turn.tools # <<>>
                /\ turn.tools[Len(turn.tools)].name = ss[turn.send].open
                /\ turn.tools[Len(turn.tools)].result = None
    /\ \A i \in 1..Len(turn.tools) :
          /\ turn.tools[i].call = <<turn.send, i>>
          /\ turn.tools[i].result \in {None, <<turn.send, i>>}

DrawerFits(ss, d, drawer) ==
    /\ \A t \in 1..Len(drawer.turns) : TurnFits(ss, d, drawer.turns[t])
    /\ drawer.handle # 0 =>
          /\ drawer.handle \in 1..Len(ss)
          /\ ss[drawer.handle].drawer = d /\ ss[drawer.handle].state = "open"
    /\ drawer.observed # 0 =>
          drawer.observed \in 1..Len(ss) /\ ss[drawer.observed].drawer = d

StreamFits(s, ds) ==
    /\ s.drawer \in 1..Len(ds)
    /\ s.state = "paused" => s.calls = 0 /\ s.open = None

Fits(ss, ds) ==
    /\ \A d \in 1..Len(ds) : DrawerFits(ss, d, ds[d])
    /\ \A n \in 1..Len(ss) : StreamFits(ss[n], ds)

\* Nothing is held back and every running stream has the handle of its drawer.
Attached(ss, ds) ==
    \A n \in 1..Len(ss) :
        /\ ss[n].state # "paused"
        /\ ss[n].state = "open" =>
              ds[ss[n].drawer].handle = n /\ ds[ss[n].drawer].observed = n

\* What the screen shows belongs to the transcript that is not discarded.
Current(ss, ds, ep) ==
    \A t \in 1..Len(ds[Len(ds)].turns) : ss[ds[Len(ds)].turns[t].send].epoch = ep

\* And so did every request when it was made.
Honest(ss) ==
    \A n \in 1..Len(ss) : \A m \in ss[n].request :
        m.send \in 1..Len(ss) /\ ss[m.send].epoch = ss[n].epoch

Steady(ss, ds, ep) == Attached(ss, ds) /\ Current(ss, ds, ep) /\ Honest(ss)

Sane == network \in {"steady", "online", "offline"} /\ epoch \in Nat

IInv ==
    /\ Sane /\ Typed(sends, drawers) /\ Fits(sends, drawers)
    /\ network = "steady" => Steady(sends, drawers, epoch)

-----------------------------------------------------------------------------
(* Sequences of streams and drawers.                                        *)

\* g is f, with e at i, or with e at the end.
Put(f, i, e, g) == g = [f EXCEPT ![i] = e]
Added(f, e, g) == g = Append(f, e)

LEMMA Indices ==
    ASSUME NEW ss, NEW ds, Typed(ss, ds)
    PROVE  /\ Len(ss) \in Nat /\ DOMAIN ss = 1..Len(ss)
           /\ Len(ds) \in Nat \ {0} /\ DOMAIN ds = 1..Len(ds)
           /\ \A n \in 1..Len(ss) : ss[n] \in Stream /\ n \in 1..MaxSends
           /\ \A d \in 1..Len(ds) : ds[d] \in Drawer
  <1>1. Len(ss) \in Nat /\ DOMAIN ss = 1..Len(ss) /\ \A n \in 1..Len(ss) : ss[n] \in Stream
    BY LenProperties, ElementOfSeq DEF Typed
  <1>2. DOMAIN ds = 1..Len(ds) /\ \A d \in 1..Len(ds) : ds[d] \in Drawer
    BY LenProperties, ElementOfSeq DEF Typed
  <1>3. Len(ds) \in Nat \ {0}
    BY EmptySeq DEF Typed
  <1>4. \A n \in 1..Len(ss) : n \in 1..MaxSends
    BY <1>1, ChatAssumption DEF Typed
  <1> QED
    BY <1>1, <1>2, <1>3, <1>4

\* One drawer is redrawn.
LEMMA Redrawn ==
    ASSUME NEW ss, NEW ds, Typed(ss, ds), Fits(ss, ds),
           NEW d \in 1..Len(ds), NEW drawer \in Drawer, DrawerFits(ss, d, drawer),
           NEW ds2, Put(ds, d, drawer, ds2)
    PROVE  /\ Typed(ss, ds2) /\ Fits(ss, ds2)
           /\ Len(ds2) = Len(ds) /\ ds2[d] = drawer
           /\ \A e \in 1..Len(ds) : e # d => ds2[e] = ds[e]
  <1>1. /\ ds2 \in Seq(Drawer) /\ Len(ds2) = Len(ds)
        /\ \A e \in 1..Len(ds) : ds2[e] = IF e = d THEN drawer ELSE ds[e]
    BY ExceptSeq DEF Typed, Put
  <1>2. Len(ds) \in Nat \ {0}
    BY Indices
  <1>3. Typed(ss, ds2)
    BY <1>1, <1>2, EmptySeq DEF Typed
  <1>4. Fits(ss, ds2)
    BY <1>1 DEF Fits, StreamFits
  <1> QED
    BY <1>1, <1>3, <1>4

\* What is left of the streams and the drawers after one of each changed.
Replaced(ss, ds, n, s, drawer, ss2, ds2) ==
    /\ Typed(ss2, ds2) /\ Fits(ss2, ds2)
    /\ Len(ss2) = Len(ss) /\ ss2[n] = s
    /\ \A m \in 1..Len(ss) : m # n => ss2[m] = ss[m]
    /\ s.drawer \in 1..Len(ds) /\ Len(ds2) = Len(ds) /\ ds2[s.drawer] = drawer
    /\ \A e \in 1..Len(ds) : e # s.drawer => ds2[e] = ds[e]

\* A stream and its own drawer change: no other drawer speaks of the stream.
LEMMA Changed ==
    ASSUME NEW ss, NEW ds, Typed(ss, ds), Fits(ss, ds),
           NEW n \in 1..Len(ss), NEW s \in Stream, s.drawer = ss[n].drawer,
           s.state = "paused" => s.calls = 0 /\ s.open = None,
           NEW drawer \in Drawer,
           NEW ss2, Put(ss, n, s, ss2),
           NEW ds2, Put(ds, s.drawer, drawer, ds2),
           DrawerFits(ss2, s.drawer, drawer)
    PROVE  Replaced(ss, ds, n, s, drawer, ss2, ds2)
  <1> DEFINE d == s.drawer
  <1>1. d \in 1..Len(ds)
    BY DEF Fits, StreamFits
  <1> HIDE DEF d
  <1>2. /\ ss2 \in Seq(Stream) /\ Len(ss2) = Len(ss)
        /\ \A m \in 1..Len(ss) : ss2[m] = IF m = n THEN s ELSE ss[m]
    BY ExceptSeq DEF Typed, Put
  <1>3. /\ ds2 \in Seq(Drawer) /\ Len(ds2) = Len(ds)
        /\ \A e \in 1..Len(ds) : ds2[e] = IF e = d THEN drawer ELSE ds[e]
    BY <1>1, ExceptSeq DEF Typed, Put, d
  <1>4. Typed(ss2, ds2)
    <2>1. Len(ds) \in Nat \ {0}
      BY Indices
    <2> QED
      BY <1>2, <1>3, <2>1, EmptySeq DEF Typed
  <1>5. \A m \in 1..Len(ss2) : StreamFits(ss2[m], ds2)
    BY <1>1, <1>2, <1>3 DEF Fits, StreamFits, d
  <1>6. ASSUME NEW e \in 1..Len(ds2), e # d PROVE DrawerFits(ss2, e, ds2[e])
    <2>1. ds2[e] = ds[e] /\ DrawerFits(ss, e, ds[e]) /\ ss[n].drawer # e
      BY <1>3, <1>6 DEF Fits, d
    <2>2. \A m \in 1..Len(ss) : ss[m].drawer = e => m # n /\ ss2[m] = ss[m]
      BY <1>2, <2>1
    <2>3. ASSUME NEW t \in 1..Len(ds[e].turns) PROVE TurnFits(ss2, e, ds[e].turns[t])
      <3>1. TurnFits(ss, e, ds[e].turns[t])
        BY <2>1 DEF DrawerFits
      <3> QED
        BY <1>2, <2>2, <3>1 DEF TurnFits
    <2> QED
      BY <1>2, <2>1, <2>2, <2>3 DEF DrawerFits
  <1>7. Fits(ss2, ds2)
    BY <1>3, <1>5, <1>6 DEF Fits, d
  <1> QED
    BY <1>1, <1>2, <1>3, <1>4, <1>7 DEF d, Replaced

\* A drawer is mounted, with nothing in it.
LEMMA Mounted ==
    ASSUME NEW ss, NEW ds, Typed(ss, ds), Fits(ss, ds),
           NEW ds2, ds2 = Append(ds, NewDrawer)
    PROVE  /\ Typed(ss, ds2) /\ Fits(ss, ds2)
           /\ Len(ds2) = Len(ds) + 1 /\ ds2[Len(ds2)] = NewDrawer
           /\ \A e \in 1..Len(ds) : ds2[e] = ds[e]
  <1>1. NewDrawer \in Drawer
    BY ChatAssumption DEF NewDrawer, Drawer
  <1>2. /\ ds2 \in Seq(Drawer) /\ Len(ds2) = Len(ds) + 1 /\ ds2[Len(ds) + 1] = NewDrawer
        /\ \A e \in 1..Len(ds) : ds2[e] = ds[e]
    BY <1>1, AppendProperties DEF Typed
  <1>3. Len(ds) \in Nat \ {0}
    BY Indices
  <1>4. Typed(ss, ds2)
    BY <1>2, <1>3, EmptySeq DEF Typed
  <1>5. ASSUME NEW d \in 1..Len(ds2) PROVE DrawerFits(ss, d, ds2[d])
    <2>1. CASE d \in 1..Len(ds)
      BY <1>2, <2>1 DEF Fits
    <2>2. CASE d = Len(ds) + 1
      BY <1>2, <2>2 DEF DrawerFits, NewDrawer
    <2> QED
      BY <1>2, <1>3, <2>1, <2>2
  <1>6. \A n \in 1..Len(ss) : StreamFits(ss[n], ds2)
    BY <1>2, <1>3 DEF Fits, StreamFits
  <1> QED
    BY <1>2, <1>4, <1>5, <1>6 DEF Fits

\* A prompt is submitted.
LEMMA Submitted ==
    ASSUME NEW ss, NEW ds, Typed(ss, ds), Fits(ss, ds), Len(ss) < MaxSends,
           NEW s \in Stream, StreamFits(s, ds), s.calls = 0, s.open = None,
           NEW ss2, Added(ss, s, ss2)
    PROVE  /\ Typed(ss2, ds) /\ Fits(ss2, ds)
           /\ Len(ss2) = Len(ss) + 1 /\ ss2[Len(ss) + 1] = s
           /\ \A m \in 1..Len(ss) : ss2[m] = ss[m]
  <1>1. /\ ss2 \in Seq(Stream) /\ Len(ss2) = Len(ss) + 1 /\ ss2[Len(ss) + 1] = s
        /\ \A m \in 1..Len(ss) : ss2[m] = ss[m]
    BY AppendProperties DEF Typed, Added
  <1>2. Len(ss) \in Nat
    BY Indices
  <1>3. Typed(ss2, ds)
    BY <1>1, <1>2, ChatAssumption DEF Typed
  <1>4. ASSUME NEW d \in 1..Len(ds) PROVE DrawerFits(ss2, d, ds[d])
    <2>1. DrawerFits(ss, d, ds[d])
      BY DEF Fits
    <2>2. ASSUME NEW t \in 1..Len(ds[d].turns) PROVE TurnFits(ss2, d, ds[d].turns[t])
      <3> DEFINE turn == ds[d].turns[t]
      <3>1. TurnFits(ss, d, turn)
        BY <2>1 DEF DrawerFits
      <3> HIDE DEF turn
      <3>2. turn.send \in 1..Len(ss) /\ turn.send \in 1..Len(ss2)
        BY <1>1, <1>2, <3>1 DEF TurnFits
      <3>3. ss2[turn.send] = ss[turn.send]
        BY <1>1, <3>2
      <3>4. TurnFits(ss2, d, turn)
        BY <3>1, <3>2, <3>3 DEF TurnFits
      <3> QED
        BY <3>4 DEF turn
    <2> QED
      BY <1>1, <1>2, <2>1, <2>2 DEF DrawerFits
  <1>5. \A m \in 1..Len(ss2) : StreamFits(ss2[m], ds)
    BY <1>1, <1>2 DEF Fits
  <1> QED
    BY <1>1, <1>3, <1>4, <1>5 DEF Fits

-----------------------------------------------------------------------------
(* mutationFn up to its first await.                                        *)

\* A request is made of what the drawer shows, and the new prompt.
LEMMA Requested ==
    ASSUME NEW turns \in Seq(Turn)
    PROVE  /\ RequestMessages(turns) \subseteq Message
           /\ \A m \in RequestMessages(turns) :
                 \E t \in 1..Len(turns) : m.send = turns[t].send
  <1>1. DOMAIN turns = 1..Len(turns) /\ \A t \in 1..Len(turns) : turns[t] \in Turn
    BY LenProperties, ElementOfSeq
  <1> QED
    BY <1>1 DEF RequestMessages, Range, Turn, Message

LEMMA Launching ==
    ASSUME NEW ss, NEW ds, Typed(ss, ds), Fits(ss, ds),
           NEW n \in 1..Len(ss), ss[n].state = "paused", Launched(n, ss, ds),
           NEW d, d = ss[n].drawer
    PROVE  /\ Typed(sends', drawers') /\ Fits(sends', drawers')
           /\ Len(sends') = Len(ss) /\ Len(drawers') = Len(ds) /\ d \in 1..Len(ds)
           /\ \A m \in 1..Len(ss) : m # n => sends'[m] = ss[m]
           /\ \A e \in 1..Len(ds) : e # d => drawers'[e] = ds[e]
           /\ sends'[n].state = "open" /\ sends'[n].drawer = d
           /\ sends'[n].epoch = ss[n].epoch
           /\ sends'[n].request = RequestMessages(ds[d].turns) \cup {[send |-> n, role |-> "user"]}
           /\ drawers'[d].handle = n /\ drawers'[d].observed = ds[d].observed
           /\ \A t \in 1..Len(drawers'[d].turns) :
                 \/ drawers'[d].turns[t].send = n
                 \/ t \in 1..Len(ds[d].turns) /\ drawers'[d].turns[t] = ds[d].turns[t]
  <1> DEFINE request == RequestMessages(ds[d].turns) \cup {[send |-> n, role |-> "user"]}
             s == [ss[n] EXCEPT !.state = "open", !.request = request]
             asked == NewTurn(n, "user", FALSE)
             answered == NewTurn(n, "assistant", TRUE)
             turns == ds[d].turns \o <<asked, answered>>
             drawer == [ds[d] EXCEPT !.handle = n, !.turns = turns]
  <1>1. /\ ss[n] \in Stream /\ n \in 1..MaxSends
        /\ DOMAIN ss = 1..Len(ss) /\ DOMAIN ds = 1..Len(ds)
    BY Indices
  <1>2. /\ d \in 1..Len(ds) /\ ds[d] \in Drawer
        /\ ss[n].calls = 0 /\ ss[n].open = None
    BY Indices DEF Fits, StreamFits
  <1>3. ds[d].turns \in Seq(Turn)
    BY <1>2 DEF Drawer
  <1>4. request \subseteq Message
    BY <1>1, <1>3, Requested DEF Message
  <1>5. /\ s \in Stream /\ s.state = "open" /\ s.drawer = d /\ s.epoch = ss[n].epoch
        /\ s.request = request /\ s.calls = 0 /\ s.open = None
    <2> HIDE DEF request
    <2> QED
      BY <1>1, <1>2, <1>4 DEF Stream
  <1>6. asked \in Turn /\ answered \in Turn
    BY <1>1, EmptySeq DEF NewTurn, Turn
  <1>7. /\ turns \in Seq(Turn) /\ Len(turns) = Len(ds[d].turns) + 2
        /\ \A t \in 1..Len(turns) :
              \/ turns[t] = asked \/ turns[t] = answered
              \/ t \in 1..Len(ds[d].turns) /\ turns[t] = ds[d].turns[t]
    <2> HIDE DEF asked, answered
    <2>1. <<asked, answered>> \in Seq(Turn) /\ Len(<<asked, answered>>) = 2
          /\ <<asked, answered>>[1] = asked /\ <<asked, answered>>[2] = answered
      BY <1>6
    <2>2. /\ turns \in Seq(Turn) /\ Len(turns) = Len(ds[d].turns) + 2
          /\ \A t \in 1..Len(ds[d].turns) + 2 : turns[t] =
                IF t <= Len(ds[d].turns) THEN ds[d].turns[t]
                ELSE <<asked, answered>>[t - Len(ds[d].turns)]
      BY <1>3, <2>1, ConcatProperties
    <2>3. Len(ds[d].turns) \in Nat
      BY <1>3, LenProperties
    <2>4. ASSUME NEW t \in 1..Len(turns)
          PROVE  \/ turns[t] = asked \/ turns[t] = answered
                 \/ t \in 1..Len(ds[d].turns) /\ turns[t] = ds[d].turns[t]
      <3>1. CASE t <= Len(ds[d].turns)
        BY <2>2, <2>3, <3>1
      <3>2. CASE t = Len(ds[d].turns) + 1
        BY <2>1, <2>2, <2>3, <3>2
      <3>3. CASE t = Len(ds[d].turns) + 2
        BY <2>1, <2>2, <2>3, <3>3
      <3> HIDE DEF turns
      <3> QED
        BY <2>2, <2>3, <3>1, <3>2, <3>3
    <2> QED
      BY <2>2, <2>4
  <1>8. /\ drawer \in Drawer /\ drawer.handle = n /\ drawer.observed = ds[d].observed
        /\ drawer.turns = turns
    <2> HIDE DEF turns
    <2>1. n \in 0..MaxSends
      BY <1>1, ChatAssumption
    <2> QED
      BY <1>2, <1>7, <2>1 DEF Drawer
  <1>9. sends' = [ss EXCEPT ![n] = s] /\ drawers' = [ds EXCEPT ![d] = drawer]
    BY <1>1, <1>2 DEF Launched
  <1>10. ASSUME NEW ss2, ss2 = [ss EXCEPT ![n] = s] PROVE DrawerFits(ss2, d, drawer)
    <2> HIDE DEF s, drawer, turns
    <2>1. Len(ss2) = Len(ss) /\ ss2[n] = s /\ \A m \in 1..Len(ss) : m # n => ss2[m] = ss[m]
      BY <1>5, <1>10, ExceptSeq DEF Typed
    <2>2. DrawerFits(ss, d, ds[d])
      BY <1>2 DEF Fits
    <2>3. TurnFits(ss2, d, asked) /\ TurnFits(ss2, d, answered)
      BY <1>5, <2>1 DEF TurnFits, NewTurn
    <2>4. ASSUME NEW t \in 1..Len(ds[d].turns) PROVE TurnFits(ss2, d, ds[d].turns[t])
      <3>1. TurnFits(ss, d, ds[d].turns[t])
        BY <2>2 DEF DrawerFits
      <3> QED
        BY <1>2, <1>5, <2>1, <3>1 DEF TurnFits
    <2>5. \A t \in 1..Len(drawer.turns) : TurnFits(ss2, d, drawer.turns[t])
      <3> HIDE DEF asked, answered
      <3> QED
        BY <1>7, <1>8, <2>3, <2>4
    <2> QED
      BY <1>5, <1>8, <2>1, <2>2, <2>5 DEF DrawerFits
  <1> HIDE DEF s, drawer
  <1>11. /\ Typed(sends', drawers') /\ Fits(sends', drawers')
         /\ Len(sends') = Len(ss) /\ Len(drawers') = Len(ds)
         /\ sends'[n] = s /\ drawers'[d] = drawer
         /\ \A m \in 1..Len(ss) : m # n => sends'[m] = ss[m]
         /\ \A e \in 1..Len(ds) : e # d => drawers'[e] = ds[e]
    <2>1. /\ DrawerFits(sends', s.drawer, drawer)
          /\ Put(ss, n, s, sends') /\ Put(ds, s.drawer, drawer, drawers')
      BY <1>5, <1>9, <1>10 DEF Put
    <2>2. s \in Stream /\ s.drawer = ss[n].drawer /\ s.state # "paused" /\ drawer \in Drawer
      BY <1>5, <1>8
    <2>3. Replaced(ss, ds, n, s, drawer, sends', drawers')
      BY <2>1, <2>2, Changed
    <2> QED
      BY <1>5, <2>3 DEF Replaced
  <1>12. asked.send = n /\ answered.send = n
    BY DEF NewTurn
  <1> HIDE DEF asked, answered, turns, request
  <1> QED
    BY <1>2, <1>5, <1>7, <1>8, <1>11, <1>12 DEF request

-----------------------------------------------------------------------------
(* What the steps do to a connection that holds.                            *)

\* A stream ends, and its drawer drops the handle.
LEMMA Ending ==
    ASSUME NEW ss, NEW ds, Typed(ss, ds), Fits(ss, ds),
           NEW n \in 1..Len(ss), ss[n].state = "open",
           NEW s \in Stream, s.state \in {"ended", "failed"}, s.drawer = ss[n].drawer,
           s.epoch = ss[n].epoch, s.request = ss[n].request,
           s.calls = ss[n].calls, s.open = ss[n].open,
           NEW drawer \in Drawer, drawer.handle = 0,
           drawer.turns \in {<<>>, ds[s.drawer].turns},
           drawer.observed \in {0, ds[s.drawer].observed},
           NEW ss2, Put(ss, n, s, ss2),
           NEW ds2, Put(ds, s.drawer, drawer, ds2)
    PROVE  /\ Typed(ss2, ds2) /\ Fits(ss2, ds2)
           /\ Len(ds2) = Len(ds) /\ ds2[s.drawer] = drawer
           /\ \A ep : Steady(ss, ds, ep) => Steady(ss2, ds2, ep)
  <1> DEFINE d == s.drawer
  <1>0. d \in 1..Len(ds) /\ DrawerFits(ss, d, ds[d])
    BY DEF Fits, StreamFits
  <1>1. ss2 \in Seq(Stream) /\ Len(ss2) = Len(ss)
        /\ \A m \in 1..Len(ss) : ss2[m] = IF m = n THEN s ELSE ss[m]
    BY ExceptSeq DEF Typed, Put
  <1>2. DrawerFits(ss2, d, drawer)
    <2>0. Len(<<>>) = 0
      OBVIOUS
    <2>1. ASSUME NEW t \in 1..Len(drawer.turns) PROVE TurnFits(ss2, d, drawer.turns[t])
      <3>1. drawer.turns = ds[d].turns
        BY <2>0, EmptySeq
      <3>2. TurnFits(ss, d, ds[d].turns[t])
        BY <1>0, <3>1 DEF DrawerFits
      <3> QED
        BY <1>1, <3>1, <3>2 DEF TurnFits
    <2> QED
      BY <1>0, <1>1, <2>1 DEF DrawerFits
  <1>3. /\ Typed(ss2, ds2) /\ Fits(ss2, ds2) /\ Len(ds2) = Len(ds) /\ ds2[d] = drawer
        /\ \A e \in 1..Len(ds) : e # d => ds2[e] = ds[e]
    <2>1. /\ s \in Stream /\ s.drawer = ss[n].drawer /\ s.state # "paused"
          /\ drawer \in Drawer /\ Put(ss, n, s, ss2) /\ Put(ds, s.drawer, drawer, ds2)
      OBVIOUS
    <2>2. DrawerFits(ss2, s.drawer, drawer)
      BY <1>2
    <2> HIDE DEF d
    <2>3. /\ Typed(ss2, ds2) /\ Fits(ss2, ds2)
          /\ s.drawer \in 1..Len(ds) /\ Len(ds2) = Len(ds) /\ ds2[s.drawer] = drawer
          /\ \A e \in 1..Len(ds) : e # s.drawer => ds2[e] = ds[e]
      <3>1. Replaced(ss, ds, n, s, drawer, ss2, ds2)
        BY <2>1, <2>2, Changed
      <3> QED
        BY <3>1 DEF Replaced
    <2> QED
      BY <2>3 DEF d
  <1>4. ASSUME NEW ep, Steady(ss, ds, ep) PROVE Steady(ss2, ds2, ep)
    <2>1. Attached(ss2, ds2)
      <3> SUFFICES ASSUME NEW m \in 1..Len(ss2)
                   PROVE  /\ ss2[m].state # "paused"
                          /\ ss2[m].state = "open" =>
                                /\ ds2[ss2[m].drawer].handle = m
                                /\ ds2[ss2[m].drawer].observed = m
        BY DEF Attached
      <3>1. CASE m = n
        BY <1>1, <3>1
      <3>2. CASE m # n
        <4>1. ss2[m] = ss[m] /\ ss[m].drawer \in 1..Len(ds)
          BY <1>1, <3>2 DEF Fits, StreamFits
        <4>2. ss[m].state = "open" => ss[m].drawer # d
          BY <1>1, <1>4, <3>2 DEF Steady, Attached
        <4> QED
          BY <1>1, <1>3, <1>4, <4>1, <4>2 DEF Steady, Attached
      <3> QED
        BY <3>1, <3>2
    <2>2. Current(ss2, ds2, ep)
      <3> SUFFICES ASSUME NEW t \in 1..Len(ds2[Len(ds2)].turns)
                   PROVE  ss2[ds2[Len(ds2)].turns[t].send].epoch = ep
        BY DEF Current
      <3>1. Len(ds) \in 1..Len(ds)
        BY Indices
      <3>2. ds2[Len(ds2)].turns = ds[Len(ds)].turns
        BY <1>3, <3>1, EmptySeq
      <3>3. TurnFits(ss, Len(ds), ds[Len(ds)].turns[t])
        BY <3>1, <3>2 DEF Fits, DrawerFits
      <3>4. ss[ds[Len(ds)].turns[t].send].epoch = ep
        BY <1>4, <3>2 DEF Steady, Current
      <3> QED
        BY <1>1, <3>2, <3>3, <3>4 DEF TurnFits
    <2>3. Honest(ss2)
      BY <1>1, <1>4 DEF Steady, Honest
    <2> QED
      BY <2>1, <2>2, <2>3 DEF Steady
  <1> QED
    BY <1>3, <1>4

\* Without a handle, no stream of a drawer runs, and it may be wiped.
LEMMA Wiping ==
    ASSUME NEW ss, NEW ds, Typed(ss, ds), Fits(ss, ds),
           NEW d \in 1..Len(ds), ds[d].handle = 0,
           NEW drawer \in Drawer, drawer.handle = 0,
           drawer.turns \in {<<>>, ds[d].turns},
           drawer.observed \in {0, ds[d].observed},
           NEW ds2, Put(ds, d, drawer, ds2)
    PROVE  /\ Typed(ss, ds2) /\ Fits(ss, ds2)
           /\ Len(ds2) = Len(ds) /\ ds2[d] = drawer
           /\ \A ep : Steady(ss, ds, ep) => Steady(ss, ds2, ep)
  <1>0. DrawerFits(ss, d, ds[d]) /\ Len(<<>>) = 0
    BY DEF Fits
  <1>2. DrawerFits(ss, d, drawer)
    <2>1. ASSUME NEW t \in 1..Len(drawer.turns) PROVE TurnFits(ss, d, drawer.turns[t])
      <3>1. drawer.turns = ds[d].turns
        BY <1>0, EmptySeq
      <3> QED
        BY <1>0, <3>1 DEF DrawerFits
    <2> QED
      BY <1>0, <2>1 DEF DrawerFits
  <1>3. /\ Typed(ss, ds2) /\ Fits(ss, ds2) /\ Len(ds2) = Len(ds) /\ ds2[d] = drawer
        /\ \A e \in 1..Len(ds) : e # d => ds2[e] = ds[e]
    BY <1>2, Redrawn
  <1>4. ASSUME NEW ep, Steady(ss, ds, ep) PROVE Steady(ss, ds2, ep)
    <2>0. \A m \in 1..Len(ss) : m # 0
      BY Indices
    <2>1. Attached(ss, ds2)
      BY <1>3, <1>4, <2>0 DEF Steady, Attached, Fits, StreamFits
    <2>2. Current(ss, ds2, ep)
      <3> SUFFICES ASSUME NEW t \in 1..Len(ds2[Len(ds2)].turns)
                   PROVE  ss[ds2[Len(ds2)].turns[t].send].epoch = ep
        BY DEF Current
      <3>1. Len(ds) \in 1..Len(ds)
        BY Indices
      <3>2. ds2[Len(ds2)].turns = ds[Len(ds)].turns
        BY <1>0, <1>3, <3>1, EmptySeq
      <3> QED
        BY <1>4, <3>2 DEF Steady, Current
    <2> QED
      BY <1>4, <2>1, <2>2 DEF Steady
  <1> QED
    BY <1>3, <1>4

\* An empty screen is of whatever transcript begins.
LEMMA Blank ==
    ASSUME NEW ss, NEW ds, NEW ep, NEW ep2, Steady(ss, ds, ep),
           Len(ds[Len(ds)].turns) = 0
    PROVE  Steady(ss, ds, ep2)
  BY DEF Steady, Current

LEMMA Mounting ==
    ASSUME NEW ss, NEW ds, Typed(ss, ds), Fits(ss, ds),
           NEW ep, Steady(ss, ds, ep), NEW ds2, ds2 = Append(ds, NewDrawer)
    PROVE  \A ep2 : Steady(ss, ds2, ep2)
  <1>1. /\ Len(ds2) = Len(ds) + 1 /\ ds2[Len(ds2)] = NewDrawer
        /\ \A e \in 1..Len(ds) : ds2[e] = ds[e]
    BY Mounted
  <1>2. Attached(ss, ds2)
    BY <1>1 DEF Steady, Attached, Fits, StreamFits
  <1>3. \A ep2 : Current(ss, ds2, ep2)
    BY <1>1 DEF Current, NewDrawer
  <1> QED
    BY <1>2, <1>3 DEF Steady

-----------------------------------------------------------------------------
(* The events of a stream.                                                  *)

\* An event changes assistant turns of its own stream, and keeps it running.
LEMMA Hearing ==
    ASSUME IInv, NEW n \in 1..Len(sends), sends[n].state = "open",
           NEW s \in Stream, s.state = "open", s.drawer = sends[n].drawer,
           s.epoch = sends[n].epoch, s.request = sends[n].request,
           NEW turns \in Seq(Turn), Len(turns) = Len(drawers[s.drawer].turns),
           \A t \in 1..Len(turns) :
              IF /\ drawers[s.drawer].turns[t].send = n
                 /\ drawers[s.drawer].turns[t].role = "assistant"
              THEN turns[t].send = n /\ TurnFits(sends', s.drawer, turns[t])
              ELSE turns[t] = drawers[s.drawer].turns[t],
           Put(sends, n, s, sends'),
           drawers' = [drawers EXCEPT ![s.drawer].turns = turns],
           UNCHANGED <<network, epoch>>
    PROVE  IInv'
  <1> DEFINE d == s.drawer
             drawer == [drawers[d] EXCEPT !.turns = turns]
  <1>0. Typed(sends, drawers) /\ Fits(sends, drawers)
    BY DEF IInv
  <1>1. d \in 1..Len(drawers) /\ DrawerFits(sends, d, drawers[d]) /\ drawers[d] \in Drawer
    BY <1>0, Indices DEF Fits, StreamFits
  <1>2. /\ drawer \in Drawer /\ drawer.turns = turns
        /\ drawer.handle = drawers[d].handle /\ drawer.observed = drawers[d].observed
    BY <1>1 DEF Drawer
  <1>3. drawers' = [drawers EXCEPT ![d] = drawer]
    OBVIOUS
  <1> HIDE DEF drawer
  <1>4. Len(sends') = Len(sends)
        /\ \A m \in 1..Len(sends) : sends'[m] = IF m = n THEN s ELSE sends[m]
    BY <1>0, ExceptSeq DEF Typed, Put
  <1>5. ASSUME NEW t \in 1..Len(turns) PROVE TurnFits(sends', d, turns[t])
    <2>1. TurnFits(sends, d, drawers[d].turns[t]) /\ drawers[d].turns[t] \in Turn
      BY <1>1, ElementOfSeq DEF DrawerFits, Drawer
    <2>2. CASE drawers[d].turns[t].send = n /\ drawers[d].turns[t].role = "assistant"
      BY <2>2
    <2>3. CASE ~(drawers[d].turns[t].send = n /\ drawers[d].turns[t].role = "assistant")
      <3>1. turns[t] = drawers[d].turns[t]
        BY <2>3
      <3> QED
        BY <1>4, <2>1, <2>3, <3>1 DEF TurnFits
    <2> QED
      BY <2>2, <2>3
  <1>6. DrawerFits(sends', d, drawer)
    BY <1>1, <1>2, <1>4, <1>5 DEF DrawerFits
  <1>7. /\ Typed(sends', drawers') /\ Fits(sends', drawers')
        /\ Len(drawers') = Len(drawers) /\ drawers'[d] = drawer
        /\ \A e \in 1..Len(drawers) : e # d => drawers'[e] = drawers[e]
    <2>1. Put(drawers, s.drawer, drawer, drawers') /\ DrawerFits(sends', s.drawer, drawer)
      BY <1>3, <1>6 DEF Put
    <2>2. s.state # "paused"
      OBVIOUS
    <2>3. Replaced(sends, drawers, n, s, drawer, sends', drawers')
      BY <1>0, <1>2, <2>1, <2>2, Changed
    <2> QED
      BY <2>3 DEF Replaced
  <1>8. ASSUME network' = "steady" PROVE Steady(sends', drawers', epoch')
    <2>1. Steady(sends, drawers, epoch)
      BY <1>8 DEF IInv
    <2>2. Attached(sends', drawers')
      <3>1. ASSUME NEW m \in 1..Len(sends)
            PROVE  /\ sends'[m].state # "paused"
                   /\ sends'[m].state = "open" =>
                         /\ drawers'[sends'[m].drawer].handle = m
                         /\ drawers'[sends'[m].drawer].observed = m
        <4>1. sends'[m].state = sends[m].state /\ sends'[m].drawer = sends[m].drawer
          BY <1>4
        <4>2. sends[m].drawer \in 1..Len(drawers)
          BY <1>0 DEF Fits, StreamFits
        <4>3. ASSUME NEW e \in 1..Len(drawers)
              PROVE  /\ drawers'[e].handle = drawers[e].handle
                     /\ drawers'[e].observed = drawers[e].observed
          BY <1>2, <1>7
        <4> QED
          BY <2>1, <4>1, <4>2, <4>3 DEF Steady, Attached
      <3> QED
        BY <1>4, <3>1 DEF Attached
    <2>3. Current(sends', drawers', epoch')
      <3> DEFINE h == Len(drawers)
      <3>1. h \in 1..Len(drawers) /\ h = Len(drawers')
        BY <1>0, <1>7, Indices
      <3> HIDE DEF h
      <3>2. /\ Len(drawers'[h].turns) = Len(drawers[h].turns)
            /\ \A t \in 1..Len(drawers[h].turns) :
                  drawers'[h].turns[t].send = drawers[h].turns[t].send
        <4>1. CASE h = d
          <5>1. drawers'[h].turns = turns
            BY <1>2, <1>7, <4>1
          <5>2. Len(turns) = Len(drawers[h].turns)
            BY <4>1
          <5>3. \A t \in 1..Len(turns) : turns[t].send = drawers[h].turns[t].send
            BY <4>1
          <5> QED
            BY <5>1, <5>2, <5>3
        <4>2. CASE h # d
          <5>1. drawers'[h] = drawers[h]
            BY <1>7, <3>1, <4>2
          <5> QED
            BY <5>1
        <4> QED
          BY <4>1, <4>2
      <3>3. \A t \in 1..Len(drawers[h].turns) : drawers[h].turns[t].send \in 1..Len(sends)
        BY <1>0, <3>1 DEF Fits, DrawerFits, TurnFits
      <3>4. \A t \in 1..Len(drawers[h].turns) : sends[drawers[h].turns[t].send].epoch = epoch
        BY <2>1 DEF Steady, Current, h
      <3>5. \A m \in 1..Len(sends) : sends'[m].epoch = sends[m].epoch
        BY <1>4
      <3>6. \A t \in 1..Len(drawers'[h].turns) :
               sends'[drawers'[h].turns[t].send].epoch = epoch'
        BY <3>2, <3>3, <3>4, <3>5
      <3> QED
        BY <3>1, <3>6 DEF Current
    <2>4. Honest(sends')
      <3>1. ASSUME NEW m \in 1..Len(sends)
            PROVE  sends'[m].epoch = sends[m].epoch /\ sends'[m].request = sends[m].request
        BY <1>4
      <3>2. Honest(sends)
        BY <2>1 DEF Steady
      <3> QED
        BY <1>4, <3>1, <3>2 DEF Honest
    <2> QED
      BY <2>2, <2>3, <2>4 DEF Steady
  <1>9. Sane'
    BY DEF IInv, Sane
  <1> QED
    BY <1>7, <1>8, <1>9 DEF IInv

-----------------------------------------------------------------------------
(* Every step keeps the invariant: the user's.                              *)

LEMMA Shows ==
    ASSUME IInv
    PROVE  /\ Typed(sends, drawers) /\ Fits(sends, drawers) /\ Sane
           /\ Here \in 1..Len(drawers) /\ Here \in Nat /\ Shown \in Drawer
           /\ DrawerFits(sends, Here, Shown)
           /\ Len(sends) \in Nat /\ DOMAIN sends = 1..Len(sends)
  BY Indices DEF IInv, Here, Shown, Fits

LEMMA InitInv ==
    ASSUME Init PROVE IInv
  <1>1. NewDrawer \in Drawer
    BY ChatAssumption DEF NewDrawer, Drawer
  <1>2. sends = <<>> /\ drawers = <<NewDrawer>> /\ epoch = 0 /\ Len(<<>>) = 0
    BY DEF Init
  <1>3. /\ drawers \in Seq(Drawer) /\ drawers # <<>> /\ Len(drawers) = 1
        /\ drawers[1] = NewDrawer
    BY <1>1, <1>2
  <1>4. Typed(sends, drawers)
    BY <1>2, <1>3, ChatAssumption DEF Typed
  <1>5. DrawerFits(sends, 1, NewDrawer)
    BY <1>2 DEF DrawerFits, NewDrawer
  <1>6. Fits(sends, drawers)
    BY <1>2, <1>3, <1>5 DEF Fits
  <1>7. Steady(sends, drawers, epoch)
    BY <1>2, <1>3 DEF Steady, Attached, Current, Honest, NewDrawer
  <1>8. Sane
    BY <1>2, ChatAssumption DEF Init, Sane
  <1> QED
    BY <1>4, <1>6, <1>7, <1>8 DEF IInv

\* A prompt asks with what is on screen, and nothing else runs in its drawer.
LEMMA SendKeeps ==
    ASSUME IInv, Send PROVE IInv'
  <1> DEFINE n == Len(sends) + 1
             s == [state |-> "paused", drawer |-> Here, epoch |-> epoch,
                   request |-> {}, calls |-> 0, open |-> None]
             submitted == Append(sends, s)
             shown == [Shown EXCEPT !.observed = n]
             observing == [drawers EXCEPT ![Here] = shown]
  <1>1. /\ Typed(sends, drawers) /\ Fits(sends, drawers) /\ Sane
        /\ Here \in 1..Len(drawers) /\ Here \in Nat /\ Shown \in Drawer
        /\ DrawerFits(sends, Here, Shown) /\ Len(sends) \in Nat
    BY Shows
  <1>2. /\ s \in Stream /\ s.state = "paused" /\ s.drawer = Here /\ s.epoch = epoch
        /\ s.calls = 0 /\ s.open = None
    BY <1>1, ChatAssumption DEF Stream, Sane
  <1>3. StreamFits(s, drawers)
    BY <1>1, <1>2 DEF StreamFits
  <1>4. Len(sends) < MaxSends /\ n \in 1..MaxSends /\ n \in 0..MaxSends
    BY <1>1, ChatAssumption DEF Send
  <1>5. /\ shown \in Drawer /\ shown.turns = Shown.turns /\ shown.handle = Shown.handle
        /\ shown.observed = n
    BY <1>1, <1>4 DEF Drawer
  <1>6. IF Online THEN Launched(n, submitted, observing)
        ELSE sends' = submitted /\ drawers' = observing
    BY <1>1 DEF Send, Shown
  <1>7. network' = network /\ epoch' = epoch /\ ~IsStreaming
    BY DEF Send
  <1> HIDE DEF s, shown
  <1>8. /\ Typed(submitted, drawers) /\ Fits(submitted, drawers)
        /\ Len(submitted) = n /\ submitted[n] = s
        /\ \A m \in 1..Len(sends) : submitted[m] = sends[m]
    <2>1. Added(sends, s, submitted) /\ Len(sends) < MaxSends
      BY <1>4 DEF Added
    <2> HIDE DEF submitted
    <2> QED
      BY <1>1, <1>2, <1>3, <2>1, Submitted
  <1>9. Put(drawers, Here, shown, observing)
    BY DEF Put
  <1> HIDE DEF submitted, observing
  <1>10. DrawerFits(submitted, Here, shown)
    <2>1. DrawerFits(submitted, Here, Shown)
      BY <1>1, <1>8 DEF Fits, Shown
    <2> QED
      BY <1>1, <1>2, <1>5, <1>8, <2>1 DEF DrawerFits
  <1>11. /\ Typed(submitted, observing) /\ Fits(submitted, observing)
         /\ Len(observing) = Len(drawers) /\ observing[Here] = shown
         /\ \A e \in 1..Len(drawers) : e # Here => observing[e] = drawers[e]
    BY <1>1, <1>5, <1>8, <1>9, <1>10, Redrawn
  <1>12. CASE ~Online
    BY <1>1, <1>6, <1>7, <1>11, <1>12 DEF IInv, Sane, Online
  <1>13. CASE Online
    <2> HIDE DEF n
    <2>0. n \in 1..Len(submitted) /\ submitted[n].state = "paused" /\ Here = submitted[n].drawer
      BY <1>1, <1>2, <1>8 DEF n
    <2>1. /\ Typed(sends', drawers') /\ Fits(sends', drawers')
          /\ Len(sends') = n /\ Len(drawers') = Len(drawers)
          /\ \A m \in 1..n : m # n => sends'[m] = submitted[m]
          /\ \A e \in 1..Len(drawers) : e # Here => drawers'[e] = observing[e]
          /\ sends'[n].state = "open" /\ sends'[n].drawer = Here
          /\ sends'[n].epoch = s.epoch
          /\ sends'[n].request = RequestMessages(shown.turns) \cup {[send |-> n, role |-> "user"]}
          /\ drawers'[Here].handle = n /\ drawers'[Here].observed = n
          /\ \A t \in 1..Len(drawers'[Here].turns) :
                \/ drawers'[Here].turns[t].send = n
                \/ t \in 1..Len(shown.turns) /\ drawers'[Here].turns[t] = shown.turns[t]
      <3>1. Launched(n, submitted, observing)
        BY <1>6, <1>13 DEF n
      <3>2. /\ Typed(sends', drawers') /\ Fits(sends', drawers')
            /\ Len(sends') = Len(submitted) /\ Len(drawers') = Len(observing)
            /\ \A m \in 1..Len(submitted) : m # n => sends'[m] = submitted[m]
            /\ \A e \in 1..Len(observing) : e # Here => drawers'[e] = observing[e]
            /\ sends'[n].state = "open" /\ sends'[n].drawer = Here
            /\ sends'[n].epoch = submitted[n].epoch
            /\ sends'[n].request =
                  RequestMessages(observing[Here].turns) \cup {[send |-> n, role |-> "user"]}
            /\ drawers'[Here].handle = n /\ drawers'[Here].observed = observing[Here].observed
            /\ \A t \in 1..Len(drawers'[Here].turns) :
                  \/ drawers'[Here].turns[t].send = n
                  \/ /\ t \in 1..Len(observing[Here].turns)
                     /\ drawers'[Here].turns[t] = observing[Here].turns[t]
        BY <1>11, <2>0, <3>1, Launching
      <3>3. Len(submitted) = n /\ submitted[n] = s
        BY <1>8 DEF n
      <3> QED
        BY <1>5, <1>11, <3>2, <3>3
    <2>2. \A m \in 1..n : m # n => m \in 1..Len(sends) /\ sends'[m] = sends[m]
      BY <1>1, <1>8, <2>1 DEF n
    <2>3. /\ n \in 1..n /\ sends'[n].epoch = epoch
          /\ \A e \in 1..Len(drawers) : e # Here => drawers'[e] = drawers[e]
      BY <1>1, <1>2, <1>11, <2>1 DEF n
    <2>3a. n # 0 /\ 1..Len(sends) \subseteq 1..n /\ \A m \in 1..Len(sends) : m # n
      BY <1>1 DEF n
    <2>4. ASSUME network' = "steady" PROVE Steady(sends', drawers', epoch')
      <3>1. Attached(sends, drawers) /\ Current(sends, drawers, epoch) /\ Honest(sends)
        BY <1>7, <2>4 DEF IInv, Steady
      <3>2. \A m \in 1..Len(sends) : m # 0 /\ sends[m].drawer \in 1..Len(drawers)
        BY <1>1 DEF Fits, StreamFits
      <3>3. \A m \in 1..Len(sends) : sends[m].state = "open" => sends[m].drawer # Here
        BY <1>7, <3>1, <3>2 DEF Attached, IsStreaming, Shown
      <3>4. Attached(sends', drawers')
        <4> SUFFICES ASSUME NEW m \in 1..n
                     PROVE  /\ sends'[m].state # "paused"
                            /\ sends'[m].state = "open" =>
                                  /\ drawers'[sends'[m].drawer].handle = m
                                  /\ drawers'[sends'[m].drawer].observed = m
          BY <2>1 DEF Attached
        <4>1. CASE m = n
          BY <2>1, <4>1
        <4>2. CASE m # n
          BY <2>2, <2>3, <3>1, <3>2, <3>3, <4>2 DEF Attached
        <4> QED
          BY <4>1, <4>2
      <3>5. \A t \in 1..Len(Shown.turns) :
               Shown.turns[t].send \in 1..Len(sends) /\ sends[Shown.turns[t].send].epoch = epoch
        BY <1>1, <3>1 DEF DrawerFits, TurnFits, Current, Here, Shown
      <3>6. Current(sends', drawers', epoch')
        <4> SUFFICES ASSUME NEW t \in 1..Len(drawers'[Here].turns)
                     PROVE  sends'[drawers'[Here].turns[t].send].epoch = epoch
          BY <1>7, <2>1 DEF Current, Here
        <4>1. CASE drawers'[Here].turns[t].send = n
          BY <2>3, <4>1
        <4>2. CASE t \in 1..Len(shown.turns) /\ drawers'[Here].turns[t] = shown.turns[t]
          BY <1>5, <2>2, <2>3a, <3>5, <4>2
        <4> QED
          BY <2>1, <4>1, <4>2
      <3>7. Honest(sends')
        <4> SUFFICES ASSUME NEW i \in 1..n, NEW m \in sends'[i].request
                     PROVE  m.send \in 1..n /\ sends'[m.send].epoch = sends'[i].epoch
          BY <2>1 DEF Honest
        <4>1. CASE i # n
          BY <2>2, <2>3a, <3>1, <4>1 DEF Honest
        <4>2. CASE i = n /\ m \in RequestMessages(shown.turns)
          <5>1. shown.turns \in Seq(Turn)
            BY <1>5 DEF Drawer
          <5>2. \E t \in 1..Len(shown.turns) : m.send = shown.turns[t].send
            BY <4>2, <5>1, Requested
          <5> QED
            BY <1>5, <2>2, <2>3, <2>3a, <3>5, <4>2, <5>2
        <4>3. CASE i = n /\ m = [send |-> n, role |-> "user"]
          BY <2>3, <4>3
        <4> QED
          BY <2>1, <4>1, <4>2, <4>3
      <3> QED
        BY <3>4, <3>6, <3>7 DEF Steady
    <2> QED
      BY <1>1, <1>7, <2>1, <2>4 DEF IInv, Sane
  <1> QED
    BY <1>12, <1>13

LEMMA ResumeKeeps ==
    ASSUME IInv, NEW n \in DOMAIN sends, Resume(n) PROVE IInv'
  <1>1. /\ Typed(sends, drawers) /\ Fits(sends, drawers) /\ Sane /\ n \in 1..Len(sends)
    BY Shows
  <1>2. /\ sends[n].state = "paused" /\ Launched(n, sends, drawers)
        /\ network' = network /\ epoch' = epoch
    BY DEF Resume
  <1>3. Typed(sends', drawers') /\ Fits(sends', drawers')
    BY <1>1, <1>2, Launching
  <1>4. network # "steady"
    BY <1>1, <1>2 DEF IInv, Steady, Attached
  <1> QED
    BY <1>1, <1>2, <1>3, <1>4 DEF IInv, Sane

\* A handle is of a running stream of the drawer, and Stop and Clear end it.
LEMMA Aborting ==
    ASSUME IInv, Abort,
           NEW drawer \in Drawer, drawer.handle = 0,
           drawer.turns \in {<<>>, Shown.turns},
           drawer.observed \in {0, Shown.observed},
           Put(drawers, Here, drawer, drawers')
    PROVE  /\ Typed(sends', drawers') /\ Fits(sends', drawers')
           /\ Len(drawers') = Len(drawers) /\ drawers'[Here] = drawer
           /\ \A ep : Steady(sends, drawers, ep) => Steady(sends', drawers', ep)
  <1>1. /\ Typed(sends, drawers) /\ Fits(sends, drawers) /\ Here \in 1..Len(drawers)
        /\ DrawerFits(sends, Here, Shown) /\ DOMAIN sends = 1..Len(sends)
        /\ Shown = drawers[Here]
    BY Shows DEF Shown
  <1>2. CASE Shown.handle = 0
    <2>1. sends' = sends
      BY <1>2 DEF Abort
    <2> QED
      BY <1>1, <1>2, <2>1, Wiping
  <1>3. CASE Shown.handle # 0
    <2> DEFINE n == Shown.handle
               s == [sends[n] EXCEPT !.state = "ended"]
    <2>1. n \in 1..Len(sends) /\ sends[n].drawer = Here /\ sends[n].state = "open"
      BY <1>1, <1>3 DEF DrawerFits
    <2>2. sends[n] \in Stream
      BY <1>1, <2>1, Indices
    <2>3. /\ s \in Stream /\ s.state = "ended" /\ s.drawer = Here
          /\ s.epoch = sends[n].epoch /\ s.request = sends[n].request
          /\ s.calls = sends[n].calls /\ s.open = sends[n].open
      BY <2>1, <2>2 DEF Stream
    <2>4. Put(sends, n, s, sends')
      BY <1>1, <1>3, <2>1 DEF Put, Abort
    <2> HIDE DEF n, s
    <2>5. s.state \in {"ended", "failed"} /\ s.drawer = sends[n].drawer
      BY <2>1, <2>3
    <2>6. /\ Put(drawers, s.drawer, drawer, drawers')
          /\ drawer.turns \in {<<>>, drawers[s.drawer].turns}
          /\ drawer.observed \in {0, drawers[s.drawer].observed}
      BY <1>1, <2>3
    <2>7. /\ Typed(sends', drawers') /\ Fits(sends', drawers')
          /\ Len(drawers') = Len(drawers) /\ drawers'[s.drawer] = drawer
          /\ \A ep : Steady(sends, drawers, ep) => Steady(sends', drawers', ep)
      BY <1>1, <2>1, <2>3, <2>4, <2>5, <2>6, Ending
    <2> QED
      BY <2>3, <2>7
  <1> QED
    BY <1>2, <1>3

LEMMA StopKeeps ==
    ASSUME IInv, Stop PROVE IInv'
  <1> DEFINE drawer == [Shown EXCEPT !.handle = 0]
  <1>1. /\ Sane /\ Shown \in Drawer /\ Abort /\ network' = network /\ epoch' = epoch
    BY Shows DEF Stop
  <1>2. /\ drawer \in Drawer /\ drawer.handle = 0 /\ drawer.turns = Shown.turns
        /\ drawer.observed = Shown.observed
    BY <1>1, ChatAssumption DEF Drawer
  <1>3. Put(drawers, Here, drawer, drawers')
    BY Shows, Indices DEF Stop, Put, Shown
  <1> HIDE DEF drawer
  <1>4. /\ Typed(sends', drawers') /\ Fits(sends', drawers')
        /\ \A ep : Steady(sends, drawers, ep) => Steady(sends', drawers', ep)
    BY <1>1, <1>2, <1>3, Aborting
  <1> QED
    BY <1>1, <1>4 DEF IInv, Sane

LEMMA ClearKeeps ==
    ASSUME IInv, Clear PROVE IInv'
  <1>1. /\ Sane /\ Abort /\ network' = network /\ epoch' = epoch + 1
    BY Shows DEF Clear
  <1>2. /\ NewDrawer \in Drawer /\ NewDrawer.handle = 0 /\ NewDrawer.turns = <<>>
        /\ NewDrawer.observed = 0
    BY ChatAssumption DEF NewDrawer, Drawer
  <1>3. Put(drawers, Here, NewDrawer, drawers')
    BY DEF Clear, Put
  <1>4. /\ Typed(sends', drawers') /\ Fits(sends', drawers')
        /\ Len(drawers') = Len(drawers) /\ drawers'[Here] = NewDrawer
        /\ \A ep : Steady(sends, drawers, ep) => Steady(sends', drawers', ep)
    BY <1>1, <1>2, <1>3, Aborting
  <1>5. Len(drawers'[Len(drawers')].turns) = 0
    BY <1>2, <1>4 DEF Here
  <1>6. ASSUME network' = "steady" PROVE Steady(sends', drawers', epoch')
    <2>1. Steady(sends', drawers', epoch)
      BY <1>1, <1>4, <1>6 DEF IInv
    <2> QED
      BY <1>5, <2>1, Blank
  <1>7. Sane'
    BY <1>1 DEF Sane
  <1> QED
    BY <1>4, <1>6, <1>7 DEF IInv

LEMMA LeaveKeeps ==
    ASSUME IInv, Leave PROVE IInv'
  <1>1. /\ Typed(sends, drawers) /\ Fits(sends, drawers) /\ Sane
        /\ drawers' = Append(drawers, NewDrawer)
        /\ network' = network /\ epoch' = epoch + 1 /\ sends' = sends
    BY Shows DEF Leave
  <1>2. Typed(sends, drawers') /\ Fits(sends, drawers')
    BY <1>1, Mounted
  <1>3. ASSUME network' = "steady" PROVE Steady(sends, drawers', epoch')
    <2>1. Steady(sends, drawers, epoch)
      BY <1>1, <1>3 DEF IInv
    <2> QED
      BY <1>1, <2>1, Mounting
  <1>4. Sane'
    BY <1>1 DEF Sane
  <1> QED
    BY <1>1, <1>2, <1>3, <1>4 DEF IInv

LEMMA NetworkKeeps ==
    ASSUME IInv, GoOffline \/ GoOnline PROVE IInv'
  BY DEF IInv, Sane, GoOffline, GoOnline

-----------------------------------------------------------------------------
(* The stream's.                                                            *)

\* The mutations, once the one of a stream is over.
Over(n, how, ss) == ss = [sends EXCEPT ![n].state = how]

LEMMA Dropping ==
    ASSUME IInv, NEW n \in 1..Len(sends), sends[n].state = "open",
           NEW how \in {"ended", "failed"}, Over(n, how, sends'),
           NEW ds, ds = DropHandle(n)
    PROVE  /\ Typed(sends', ds) /\ Fits(sends', ds)
           /\ \A ep : Steady(sends, drawers, ep) => Steady(sends', ds, ep)
  <1> DEFINE s == [sends[n] EXCEPT !.state = how]
             d == sends[n].drawer
             drawer == [drawers[d] EXCEPT !.handle = 0]
  <1>1. Typed(sends, drawers) /\ Fits(sends, drawers) /\ DOMAIN sends = 1..Len(sends)
    BY Shows
  <1>2. sends[n] \in Stream /\ d \in 1..Len(drawers) /\ drawers[d] \in Drawer
    BY <1>1, Indices DEF Fits, StreamFits
  <1>3. /\ s \in Stream /\ s.state = how /\ s.drawer = d
        /\ s.epoch = sends[n].epoch /\ s.request = sends[n].request
        /\ s.calls = sends[n].calls /\ s.open = sends[n].open
    BY <1>2 DEF Stream
  <1>4. /\ drawer \in Drawer /\ drawer.handle = 0 /\ drawer.turns = drawers[d].turns
        /\ drawer.observed = drawers[d].observed
    <2> DEFINE old == drawers[d]
    <2>1. old \in Drawer /\ 0 \in 0..MaxSends
      BY <1>2, ChatAssumption
    <2> HIDE DEF old
    <2>2. LET new == [old EXCEPT !.handle = 0]
          IN  /\ new \in Drawer /\ new.handle = 0 /\ new.turns = old.turns
              /\ new.observed = old.observed
      BY <2>1 DEF Drawer
    <2> QED
      BY <2>2 DEF old
  <1>5. Put(sends, n, s, sends') /\ Put(drawers, d, drawer, ds)
    BY <1>1, <1>2, Indices DEF Put, DropHandle, Over
  <1>6. d = sends[n].drawer
    OBVIOUS
  <1> HIDE DEF s, d, drawer
  <1>7. /\ s.state \in {"ended", "failed"} /\ s.drawer = sends[n].drawer
        /\ Put(drawers, s.drawer, drawer, ds)
        /\ drawer.turns \in {<<>>, drawers[s.drawer].turns}
        /\ drawer.observed \in {0, drawers[s.drawer].observed}
    BY <1>3, <1>4, <1>5, <1>6
  <1> QED
    BY <1>1, <1>3, <1>4, <1>5, <1>7, Ending

LEMMA StreamEndsKeeps ==
    ASSUME IInv, NEW n \in DOMAIN sends, StreamEnds(n) PROVE IInv'
  <1>1. n \in 1..Len(sends) /\ sends[n].state = "open" /\ Sane
    BY Shows DEF StreamEnds
  <1>2. PICK how \in {"ended", "failed"} : Over(n, how, sends')
    BY DEF StreamEnds, Over
  <1>3. drawers' = DropHandle(n) /\ network' = network /\ epoch' = epoch
    BY DEF StreamEnds
  <1>4. /\ Typed(sends', drawers') /\ Fits(sends', drawers')
        /\ \A ep : Steady(sends, drawers, ep) => Steady(sends', drawers', ep)
    BY <1>1, <1>2, <1>3, Dropping
  <1> QED
    BY <1>1, <1>3, <1>4 DEF IInv, Sane

LEMMA UnauthorizedKeeps ==
    ASSUME IInv, NEW n \in DOMAIN sends, Unauthorized(n) PROVE IInv'
  <1> DEFINE ds == DropHandle(n)
  <1>1. n \in 1..Len(sends) /\ sends[n].state = "open" /\ Sane
    BY Shows DEF Unauthorized
  <1>2. /\ Over(n, "failed", sends') /\ drawers' = Append(ds, NewDrawer)
        /\ network' = network /\ epoch' = epoch + 1
    BY DEF Unauthorized, Over
  <1>3. /\ Typed(sends', ds) /\ Fits(sends', ds)
        /\ \A ep : Steady(sends, drawers, ep) => Steady(sends', ds, ep)
    BY <1>1, <1>2, Dropping
  <1> HIDE DEF ds
  <1>4. Typed(sends', drawers') /\ Fits(sends', drawers')
    BY <1>2, <1>3, Mounted
  <1>5. ASSUME network' = "steady" PROVE Steady(sends', drawers', epoch')
    <2>1. Steady(sends', ds, epoch)
      BY <1>2, <1>3, <1>5 DEF IInv
    <2> QED
      BY <1>2, <1>3, <2>1, Mounting
  <1>6. Sane'
    BY <1>1, <1>2 DEF Sane
  <1> QED
    BY <1>4, <1>5, <1>6 DEF IInv

\* Text, an error and the usage change neither whose a turn is nor its chips.
LEMMA Remarking ==
    ASSUME IInv, NEW n \in 1..Len(sends), sends[n].state = "open",
           NEW turns, turns \in Seq(Turn), Len(turns) = Len(drawers[sends[n].drawer].turns),
           \A t \in 1..Len(turns) :
              LET old == drawers[sends[n].drawer].turns[t]
              IN  /\ turns[t].send = old.send /\ turns[t].role = old.role
                  /\ turns[t].tools = old.tools
                  /\ ~(old.send = n /\ old.role = "assistant") => turns[t] = old,
           drawers' = [drawers EXCEPT ![sends[n].drawer].turns = turns],
           UNCHANGED <<network, epoch, sends>>
    PROVE  IInv'
  <1> DEFINE s == sends[n]
             d == s.drawer
  <1>1. Typed(sends, drawers) /\ Fits(sends, drawers) /\ s \in Stream
    BY Shows, Indices
  <1>2. d \in 1..Len(drawers) /\ DrawerFits(sends, d, drawers[d])
    BY <1>1 DEF Fits, StreamFits
  <1>3. Put(sends, n, s, sends')
    BY <1>1 DEF Put, Typed
  <1>4. ASSUME NEW t \in 1..Len(turns) PROVE TurnFits(sends', d, turns[t])
    <2>1. TurnFits(sends, d, drawers[d].turns[t])
      BY <1>2 DEF DrawerFits
    <2> QED
      BY <2>1 DEF TurnFits
  <1>5. \A t \in 1..Len(turns) :
           IF drawers[d].turns[t].send = n /\ drawers[d].turns[t].role = "assistant"
           THEN turns[t].send = n /\ TurnFits(sends', d, turns[t])
           ELSE turns[t] = drawers[d].turns[t]
    BY <1>4
  <1> QED
    BY <1>1, <1>3, <1>5, Hearing

LEMMA TextKeeps ==
    ASSUME IInv, NEW n \in DOMAIN sends, Text(n) PROVE IInv'
  <1> DEFINE old == drawers[sends[n].drawer].turns
             turns == [t \in 1..Len(old) |->
                          IF old[t].send = n /\ old[t].role = "assistant"
                          THEN [old[t] EXCEPT !.blank = FALSE] ELSE old[t]]
  <1>1. n \in 1..Len(sends) /\ sends[n].state = "open" /\ UNCHANGED <<network, epoch, sends>>
    BY Shows DEF Text
  <1>2. drawers' = [drawers EXCEPT ![sends[n].drawer].turns = turns]
    BY DEF Text, ApplyEvent
  <1>3. old \in Seq(Turn)
    BY <1>1, Shows, Indices DEF Fits, StreamFits, Drawer
  <1>4. Len(old) \in Nat /\ \A t \in 1..Len(old) : old[t] \in Turn
    BY <1>3, LenProperties, ElementOfSeq
  <1> HIDE DEF old
  <1>5. \A t \in 1..Len(old) : [old[t] EXCEPT !.blank = FALSE] \in Turn
    BY <1>4 DEF Turn
  <1>6. turns \in Seq(Turn) /\ Len(turns) = Len(old)
    BY <1>4, <1>5
  <1>7. \A t \in 1..Len(turns) :
           /\ turns[t].send = old[t].send /\ turns[t].role = old[t].role
           /\ turns[t].tools = old[t].tools
           /\ ~(old[t].send = n /\ old[t].role = "assistant") => turns[t] = old[t]
    BY <1>4, <1>6 DEF Turn
  <1> HIDE DEF turns
  <1> QED
    BY <1>1, <1>2, <1>6, <1>7, Remarking DEF old

LEMMA ErrorOrDoneKeeps ==
    ASSUME IInv, NEW n \in DOMAIN sends, ErrorOrDone(n) PROVE IInv'
  <1> DEFINE old == drawers[sends[n].drawer].turns
             Of(t) == old[t].send = n /\ old[t].role = "assistant"
             errors == [t \in 1..Len(old) |->
                           IF Of(t) THEN [old[t] EXCEPT !.error = TRUE] ELSE old[t]]
             usages == [t \in 1..Len(old) |->
                           IF Of(t) THEN [old[t] EXCEPT !.usage = TRUE] ELSE old[t]]
  <1>1. n \in 1..Len(sends) /\ sends[n].state = "open" /\ UNCHANGED <<network, epoch, sends>>
    BY Shows DEF ErrorOrDone
  <1>2. \/ drawers' = [drawers EXCEPT ![sends[n].drawer].turns = errors]
        \/ drawers' = [drawers EXCEPT ![sends[n].drawer].turns = usages]
    BY DEF ErrorOrDone, ApplyEvent
  <1>3. old \in Seq(Turn)
    BY <1>1, Shows, Indices DEF Fits, StreamFits, Drawer
  <1>4. Len(old) \in Nat /\ \A t \in 1..Len(old) : old[t] \in Turn
    BY <1>3, LenProperties, ElementOfSeq
  <1> HIDE DEF old
  <1>5. /\ \A t \in 1..Len(old) : [old[t] EXCEPT !.error = TRUE] \in Turn
        /\ \A t \in 1..Len(old) : [old[t] EXCEPT !.usage = TRUE] \in Turn
    BY <1>4 DEF Turn
  <1>6. /\ errors \in Seq(Turn) /\ Len(errors) = Len(old)
        /\ usages \in Seq(Turn) /\ Len(usages) = Len(old)
    <2>1. errors \in Seq(Turn) /\ Len(errors) = Len(old)
      <3>1. \A t \in 1..Len(old) : errors[t] \in Turn
        BY <1>4, <1>5
      <3> QED
        BY <1>4, <3>1
    <2>2. usages \in Seq(Turn) /\ Len(usages) = Len(old)
      <3>1. \A t \in 1..Len(old) : usages[t] \in Turn
        BY <1>4, <1>5
      <3> QED
        BY <1>4, <3>1
    <2> QED
      BY <2>1, <2>2
  <1>7. \A turns \in {errors, usages} : \A t \in 1..Len(turns) :
           /\ turns[t].send = old[t].send /\ turns[t].role = old[t].role
           /\ turns[t].tools = old[t].tools
           /\ ~(old[t].send = n /\ old[t].role = "assistant") => turns[t] = old[t]
    BY <1>4, <1>6 DEF Turn
  <1> HIDE DEF errors, usages
  <1>8. CASE drawers' = [drawers EXCEPT ![sends[n].drawer].turns = errors]
    BY <1>1, <1>6, <1>7, <1>8, Remarking DEF old
  <1>9. CASE drawers' = [drawers EXCEPT ![sends[n].drawer].turns = usages]
    BY <1>1, <1>6, <1>7, <1>9, Remarking DEF old
  <1> QED
    BY <1>2, <1>8, <1>9

\* A chip is added for the next call of the stream.
LEMMA ToolUseKeeps ==
    ASSUME IInv, NEW n \in DOMAIN sends, NEW name \in Names, ToolUse(n, name) PROVE IInv'
  <1> DEFINE k == sends[n].calls + 1
             s == [sends[n] EXCEPT !.calls = k, !.open = name]
             d == sends[n].drawer
             old == drawers[d].turns
             chip == [name |-> name, call |-> <<n, k>>, result |-> None]
             Of(t) == old[t].send = n /\ old[t].role = "assistant"
             told(t) == [old[t] EXCEPT !.tools = Append(@, chip)]
             turns == [t \in 1..Len(old) |-> IF Of(t) THEN told(t) ELSE old[t]]
  <1>1. /\ n \in 1..Len(sends) /\ sends[n].state = "open"
        /\ UNCHANGED <<network, epoch>> /\ sends[n].calls < MaxCalls
    BY Shows DEF ToolUse
  <1>2. /\ sends' = [sends EXCEPT ![n].calls = k, ![n].open = name]
        /\ drawers' = [drawers EXCEPT ![d].turns = turns]
    BY DEF ToolUse, ApplyEvent
  <1>3. /\ Typed(sends, drawers) /\ Fits(sends, drawers) /\ DOMAIN sends = 1..Len(sends)
        /\ sends[n] \in Stream /\ n \in 1..MaxSends
    BY <1>1, Shows, Indices
  <1>4. d \in 1..Len(drawers) /\ DrawerFits(sends, d, drawers[d]) /\ drawers[d] \in Drawer
    BY <1>1, <1>3, Indices DEF Fits, StreamFits
  <1>5. old \in Seq(Turn)
    BY <1>4 DEF Drawer
  <1>6. Len(old) \in Nat /\ \A t \in 1..Len(old) : old[t] \in Turn
    BY <1>5, LenProperties, ElementOfSeq
  <1>7. k \in 1..MaxCalls /\ k \in 0..MaxCalls /\ k = sends[n].calls + 1 /\ sends[n].calls \in Nat
    BY <1>1, <1>3, ChatAssumption DEF Stream
  <1> HIDE DEF k
  <1>8. chip \in Chip
    BY <1>3, <1>7 DEF Chip, CallId
  <1>9. /\ s \in Stream /\ s.state = "open" /\ s.drawer = d /\ s.calls = k /\ s.open = name
        /\ s.epoch = sends[n].epoch /\ s.request = sends[n].request
    BY <1>1, <1>3, <1>7 DEF Stream
  <1>10. Put(sends, n, s, sends')
    BY <1>2, <1>3 DEF Put
  <1>11. chip.name = name /\ chip.call = <<n, k>> /\ chip.result = None
    OBVIOUS
  <1> HIDE DEF chip, s
  <1>12. Len(sends') = Len(sends) /\ sends'[n] = s
    BY <1>1, <1>3, <1>9, <1>10, ExceptSeq DEF Typed, Put
  <1>13. ASSUME NEW t \in 1..Len(old), Of(t)
         PROVE  told(t) \in Turn /\ told(t).send = n /\ TurnFits(sends', d, told(t))
    <2>1. TurnFits(sends, d, old[t]) /\ old[t] \in Turn /\ old[t].tools \in Seq(Chip)
      BY <1>4, <1>6 DEF DrawerFits, Turn
    <2>2. Len(old[t].tools) = sends[n].calls
      BY <1>13, <2>1 DEF TurnFits
    <2>3. /\ Append(old[t].tools, chip) \in Seq(Chip) /\ Len(Append(old[t].tools, chip)) = k
          /\ Append(old[t].tools, chip)[k] = chip
          /\ \A i \in 1..Len(old[t].tools) : Append(old[t].tools, chip)[i] = old[t].tools[i]
      BY <1>7, <1>8, <2>1, <2>2, AppendProperties
    <2> DEFINE tools == Append(old[t].tools, chip)
    <2> HIDE DEF old
    <2>4. /\ told(t) \in Turn /\ told(t).send = n /\ told(t).role = "assistant"
          /\ told(t).tools = tools
      BY <1>13, <2>1, <2>3 DEF Turn
    <2> HIDE DEF tools, told
    <2>5. tools # <<>>
      BY <1>7, <2>3, EmptySeq DEF tools
    <2>6. \A i \in 1..k :
             tools[i].call = <<n, i>> /\ tools[i].result \in {None, <<n, i>>}
      <3> SUFFICES ASSUME NEW i \in 1..k
                   PROVE  tools[i].call = <<n, i>> /\ tools[i].result \in {None, <<n, i>>}
        OBVIOUS
      <3>1. CASE i = k
        BY <1>11, <2>3, <3>1 DEF tools
      <3>2. CASE i # k
        <4>1. i \in 1..Len(old[t].tools)
          BY <1>7, <2>2, <3>2
        <4>2. tools[i] = old[t].tools[i]
          BY <2>3, <4>1 DEF tools
        <4> QED
          BY <1>13, <2>1, <4>1, <4>2 DEF TurnFits
      <3> QED
        BY <3>1, <3>2
    <2>7. Len(tools) = k /\ tools[k] = chip
      BY <2>3 DEF tools
    <2> QED
      BY <1>1, <1>9, <1>11, <1>12, <2>4, <2>5, <2>6, <2>7 DEF TurnFits
  <1> HIDE DEF told, old
  <1>14. /\ turns \in Seq(Turn) /\ Len(turns) = Len(old)
         /\ \A t \in 1..Len(old) : turns[t] = IF Of(t) THEN told(t) ELSE old[t]
    BY <1>6, <1>13
  <1> HIDE DEF turns
  <1>15. \A t \in 1..Len(turns) :
            IF /\ drawers[s.drawer].turns[t].send = n
               /\ drawers[s.drawer].turns[t].role = "assistant"
            THEN turns[t].send = n /\ TurnFits(sends', s.drawer, turns[t])
            ELSE turns[t] = drawers[s.drawer].turns[t]
    BY <1>9, <1>13, <1>14 DEF old
  <1>16. Len(turns) = Len(drawers[s.drawer].turns) /\ s.drawer = sends[n].drawer
    BY <1>9, <1>14 DEF old
  <1>17. drawers' = [drawers EXCEPT ![s.drawer].turns = turns]
    BY <1>2, <1>9
  <1> QED
    BY <1>1, <1>9, <1>10, <1>14, <1>15, <1>16, <1>17, Hearing

\* A chip, once it shows its result.
Answered(chip, result, chip2) == chip2 = [chip EXCEPT !.result = result]

\* The chips, once the last of them is `chip`.
Ends(tools, chip, tools2) ==
    /\ tools2 \in Seq(Chip) /\ Len(tools2) = Len(tools)
    /\ \A i \in 1..Len(tools) : tools2[i] = IF i = Len(tools) THEN chip ELSE tools[i]

\* The pending chip of the open tool is the last, so the result goes there.
LEMMA Filled ==
    ASSUME NEW tools \in Seq(Chip), NEW name, NEW result, tools # <<>>,
           tools[Len(tools)].name = name, tools[Len(tools)].result = None,
           NEW chip \in Chip, Answered(tools[Len(tools)], result, chip)
    PROVE  Ends(tools, chip, Fill(tools, name, result))
  <1> DEFINE I == {i \in 1..Len(tools) : tools[i].name = name /\ tools[i].result = None}
  <1>1. Len(tools) \in Nat \ {0}
    BY EmptySeq, LenProperties
  <1>2. Len(tools) \in I /\ \A i \in I : Len(tools) >= i /\ i \in Nat
    BY <1>1
  <1>3. Max(I) = Len(tools)
    <2> HIDE DEF I
    <2> QED
      BY <1>1, <1>2 DEF Max
  <1>4. SelectLastInSeq(tools, LAMBDA c : c.name = name /\ c.result = None) = Len(tools)
    BY <1>2, <1>3 DEF SelectLastInSeq
  <1>5. Fill(tools, name, result) = [tools EXCEPT ![Len(tools)].result = result]
    BY <1>1, <1>4 DEF Fill
  <1>6. Len(tools) \in DOMAIN tools
    BY <1>1, LenProperties
  <1>7. Fill(tools, name, result) = [tools EXCEPT ![Len(tools)] = chip]
    BY <1>5, <1>6 DEF Answered
  <1> QED
    BY <1>1, <1>7, ExceptSeq DEF Ends

LEMMA ToolResultKeeps ==
    ASSUME IInv, NEW n \in DOMAIN sends, ToolResult(n) PROVE IInv'
  <1> DEFINE k == sends[n].calls
             name == sends[n].open
             s == [sends[n] EXCEPT !.open = None]
             d == sends[n].drawer
             old == drawers[d].turns
             Of(t) == old[t].send = n /\ old[t].role = "assistant"
             told(t) == [old[t] EXCEPT !.tools = Fill(@, name, <<n, k>>)]
             turns == [t \in 1..Len(old) |-> IF Of(t) THEN told(t) ELSE old[t]]
  <1>1. /\ n \in 1..Len(sends) /\ sends[n].state = "open"
        /\ UNCHANGED <<network, epoch>> /\ name # None
    BY Shows DEF ToolResult
  <1>2. /\ sends' = [sends EXCEPT ![n].open = None]
        /\ drawers' = [drawers EXCEPT ![d].turns = turns]
    BY DEF ToolResult, ApplyEvent
  <1>3. /\ Typed(sends, drawers) /\ Fits(sends, drawers) /\ DOMAIN sends = 1..Len(sends)
        /\ sends[n] \in Stream /\ n \in 1..MaxSends
    BY <1>1, Shows, Indices
  <1>4. d \in 1..Len(drawers) /\ DrawerFits(sends, d, drawers[d]) /\ drawers[d] \in Drawer
    BY <1>1, <1>3, Indices DEF Fits, StreamFits
  <1>5. old \in Seq(Turn)
    BY <1>4 DEF Drawer
  <1>6. Len(old) \in Nat /\ \A t \in 1..Len(old) : old[t] \in Turn
    BY <1>5, LenProperties, ElementOfSeq
  <1>7. k \in 0..MaxCalls /\ k = sends[n].calls
    BY <1>3 DEF Stream
  <1>8. /\ s \in Stream /\ s.state = "open" /\ s.drawer = d /\ s.calls = k /\ s.open = None
        /\ s.epoch = sends[n].epoch /\ s.request = sends[n].request
    BY <1>1, <1>3 DEF Stream
  <1>9. Put(sends, n, s, sends')
    BY <1>2, <1>3 DEF Put
  <1> HIDE DEF s
  <1>10. Len(sends') = Len(sends) /\ sends'[n] = s
    BY <1>1, <1>3, <1>8, <1>9, ExceptSeq DEF Typed, Put
  <1>11. ASSUME NEW t \in 1..Len(old), Of(t)
         PROVE  told(t) \in Turn /\ told(t).send = n /\ TurnFits(sends', d, told(t))
    <2> DEFINE was == old[t].tools
               tools == Fill(was, name, <<n, k>>)
               chip == [was[k] EXCEPT !.result = <<n, k>>]
    <2>1. TurnFits(sends, d, old[t]) /\ old[t] \in Turn /\ was \in Seq(Chip)
      BY <1>4, <1>6 DEF DrawerFits, Turn
    <2>2. /\ Len(was) = k /\ was # <<>> /\ was[k].name = name /\ was[k].result = None
          /\ \A i \in 1..k : was[i].call = <<n, i>> /\ was[i].result \in {None, <<n, i>>}
      BY <1>1, <1>11, <2>1 DEF TurnFits
    <2> HIDE DEF was, k, name
    <2>3. k \in 1..k /\ k \in 1..MaxCalls /\ was[k] \in Chip
      <3>1. k # 0
        BY <2>1, <2>2, EmptySeq
      <3>2. k \in 1..k /\ k \in 1..MaxCalls
        BY <1>7, <3>1, ChatAssumption
      <3> QED
        BY <2>1, <2>2, <3>2, ElementOfSeq
    <2>4. <<n, k>> \in CallId
      BY <1>3, <2>3 DEF CallId
    <2>5. chip \in Chip /\ chip.call = was[k].call /\ chip.result = <<n, k>>
      BY <2>3, <2>4 DEF Chip
    <2>6. Answered(was[k], <<n, k>>, chip)
      BY DEF Answered
    <2> HIDE DEF chip
    <2>7. /\ tools \in Seq(Chip) /\ Len(tools) = k
          /\ \A i \in 1..k : tools[i] = IF i = k THEN chip ELSE was[i]
      <3> DEFINE result == <<n, k>>
      <3>1. /\ was[Len(was)].name = name /\ was[Len(was)].result = None
            /\ Answered(was[Len(was)], result, chip)
        BY <2>2, <2>6
      <3> HIDE DEF result
      <3>2. Ends(was, chip, Fill(was, name, result))
        BY <2>1, <2>2, <2>5, <3>1, Filled
      <3> QED
        BY <2>2, <3>2 DEF Ends, result
    <2> HIDE DEF old, tools
    <2>8. /\ told(t) \in Turn /\ told(t).send = n /\ told(t).role = "assistant"
          /\ told(t).tools = tools
      BY <1>11, <2>1, <2>7 DEF Turn, tools, was
    <2> HIDE DEF told
    <2>9. \A i \in 1..k :
             tools[i].call = <<n, i>> /\ tools[i].result \in {None, <<n, i>>}
      BY <2>2, <2>5, <2>7
    <2> QED
      BY <1>1, <1>8, <1>10, <2>7, <2>8, <2>9 DEF TurnFits
  <1> HIDE DEF told, old
  <1>12. /\ turns \in Seq(Turn) /\ Len(turns) = Len(old)
         /\ \A t \in 1..Len(old) : turns[t] = IF Of(t) THEN told(t) ELSE old[t]
    BY <1>6, <1>11
  <1> HIDE DEF turns
  <1>13. \A t \in 1..Len(turns) :
            IF /\ drawers[s.drawer].turns[t].send = n
               /\ drawers[s.drawer].turns[t].role = "assistant"
            THEN turns[t].send = n /\ TurnFits(sends', s.drawer, turns[t])
            ELSE turns[t] = drawers[s.drawer].turns[t]
    BY <1>8, <1>11, <1>12 DEF old
  <1>14. Len(turns) = Len(drawers[s.drawer].turns) /\ s.drawer = sends[n].drawer
    BY <1>8, <1>12 DEF old
  <1>15. drawers' = [drawers EXCEPT ![s.drawer].turns = turns]
    BY <1>2, <1>8
  <1> QED
    BY <1>1, <1>8, <1>9, <1>12, <1>13, <1>14, <1>15, Hearing

-----------------------------------------------------------------------------
(* What every run of the drawer keeps, whatever the user and the network do. *)
THEOREM Invariance == Spec => []IInv
  <1>1. IInv /\ [Next]_vars => IInv'
    <2> SUFFICES ASSUME IInv, [Next]_vars PROVE IInv'
      OBVIOUS
    <2>1. CASE Send
      BY <2>1, SendKeeps
    <2>2. CASE Stop
      BY <2>2, StopKeeps
    <2>3. CASE Clear
      BY <2>3, ClearKeeps
    <2>4. CASE Leave
      BY <2>4, LeaveKeeps
    <2>5. CASE GoOffline \/ GoOnline
      BY <2>5, NetworkKeeps
    <2>6. ASSUME NEW n \in DOMAIN sends, Resume(n) PROVE IInv'
      BY <2>6, ResumeKeeps
    <2>7. ASSUME NEW n \in DOMAIN sends, Event(n) PROVE IInv'
      <3>1. CASE Text(n)
        BY <3>1, TextKeeps
      <3>2. CASE ToolResult(n)
        BY <3>2, ToolResultKeeps
      <3>3. CASE ErrorOrDone(n)
        BY <3>3, ErrorOrDoneKeeps
      <3>4. ASSUME NEW name \in Names, ToolUse(n, name) PROVE IInv'
        BY <3>4, ToolUseKeeps
      <3> QED
        BY <2>7, <3>1, <3>2, <3>3, <3>4 DEF Event
    <2>8. ASSUME NEW n \in DOMAIN sends, StreamEnds(n) PROVE IInv'
      BY <2>8, StreamEndsKeeps
    <2>9. ASSUME NEW n \in DOMAIN sends, Unauthorized(n) PROVE IInv'
      BY <2>9, UnauthorizedKeeps
    <2>10. CASE UNCHANGED vars
      BY <2>10 DEF vars, IInv, Sane
    <2> QED
      BY <2>1, <2>2, <2>3, <2>4, <2>5, <2>6, <2>7, <2>8, <2>9, <2>10 DEF Next
  <1> QED
    BY <1>1, InitInv, PTL DEF Spec

(* The transcripts, the handles and the mutations have their types, and a   *)
(* handle is never for a stream that is over (useChat.ts:133, 174).         *)
THEOREM TypeCorrect == Spec => []TypeOK
  <1>1. IInv => TypeOK
    BY Indices DEF IInv, Sane, Typed, Fits, DrawerFits, TypeOK
  <1> QED
    BY <1>1, Invariance, PTL

(* While the connection holds, Stop has the handle of the stream the drawer *)
(* waits for: a `finally` only ever drops a handle of its own                *)
(* (useChat.ts:174), as one stream at most runs in a drawer.                *)
THEOREM StopCanStop == Spec => []StopReaches
  <1>1. IInv => StopReaches
    <2> SUFFICES ASSUME IInv, network = "steady", IsStreaming
                 PROVE  Shown.handle = Shown.observed
      BY DEF StopReaches
    <2>1. /\ Shown.observed \in 1..Len(sends) /\ sends[Shown.observed].drawer = Here
          /\ sends[Shown.observed].state \in {"paused", "open"}
      BY Shows DEF IsStreaming, DrawerFits
    <2>2. Attached(sends, drawers)
      BY DEF IInv, Steady
    <2> QED
      BY <2>1, <2>2 DEF Attached, Shown
  <1> QED
    BY <1>1, Invariance, PTL

(* While the connection holds, every message of a request was written in    *)
(* the transcript the prompt was submitted to: no Clear, sign-out or new    *)
(* page lies between them (useChat.ts:193).                                 *)
THEOREM DiscardedStays == Spec => []NothingDiscardedSent
  <1>1. IInv => NothingDiscardedSent
    BY Shows DEF IInv, Steady, Honest, NothingDiscardedSent
  <1> QED
    BY <1>1, Invariance, PTL

(* Every chip is the call of its place in the stream that the turn is of,   *)
(* and shows no result but that call's, on any network (useChat.ts:110).    *)
THEOREM ChipsStay == Spec => []ChipsInPlace
  <1>1. IInv => ChipsInPlace
    <2> SUFFICES ASSUME IInv, NEW d \in DOMAIN drawers, NEW t \in DOMAIN drawers[d].turns,
                        NEW i \in DOMAIN drawers[d].turns[t].tools
                 PROVE  LET turn == drawers[d].turns[t]
                        IN  /\ turn.tools[i].call = <<turn.send, i>>
                            /\ turn.tools[i].result \in {None, <<turn.send, i>>}
      BY DEF ChipsInPlace
    <2>1. d \in 1..Len(drawers) /\ drawers[d].turns \in Seq(Turn)
      BY Shows, Indices DEF Drawer
    <2>2. t \in 1..Len(drawers[d].turns) /\ drawers[d].turns[t] \in Turn
      BY <2>1, LenProperties, ElementOfSeq
    <2>3. i \in 1..Len(drawers[d].turns[t].tools)
      BY <2>2, LenProperties DEF Turn
    <2> QED
      BY <2>1, <2>2, <2>3, Shows DEF Fits, DrawerFits, TurnFits
  <1> QED
    BY <1>1, Invariance, PTL
=============================================================================
