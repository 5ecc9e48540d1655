--------------------------- MODULE DataPlaneProofs ---------------------------
(***************************************************************************)
(* The data plane implements the atomic store, for every number of         *)
(* concurrent requests and every size of the tables.                       *)
(*                                                                         *)
(* A write statement checks its constraint when it runs and takes effect   *)
(* when its transaction commits.  The invariant says that what it checked  *)
(* still holds in between (Sound), and that it does because the locks keep *)
(* the transactions that could undo it out (Apart).                        *)
(***************************************************************************)
EXTENDS DataPlane, TLAPS

\* Where a request can be, and what it can have written there.
Shape(s) ==
    LET op == request[s].op IN
    /\ pc[s] = "idle" <=> op = "none"
    /\ op = "signup" => pc[s] \in {"write", "commit"}
    /\ pc[s] = "own" => op \in {"update", "delete", "ingest", "purge"}
    /\ touched[s] # {} => (op = "ingest" /\ pc[s] \in {"write", "commit"})
                             \/ Pending(s, "purge")
    /\ Pending(s, "ingest") => touched[s] # {} /\ request[s].rows = <<>>

NewRow(r) ==
    [status |-> "live", owner |-> r.user, name |-> r.name,
     min |-> r.min, max |-> r.max]

\* What stays true of the rows a request names, whatever the others do: ids
\* are not minted twice, and a device that was its user's is no one else's.
Known(s) ==
    LET r == request[s] IN
    /\ r.op = "signup" => accounts[r.user] = Never
    /\ r.op \notin {"signup", "none"} => accounts[r.user] # Never
    /\ r.op = "create" => devices[r.device] = Never /\ Ordered(NewRow(r))
    /\ r.op \in {"update", "delete", "ingest", "purge"}
            /\ pc[s] \in {"write", "commit"}
         => devices[r.device] = Gone \/ r.device \in OwnedBy(devices, r.user)

\* What a statement checked holds until its transaction commits.
Sound(s) ==
    LET r == request[s] IN
    /\ Pending(s, "signup") => ~EmailTaken(accounts, r.email)
    /\ Pending(s, "create") =>
         r.user \in Live(accounts) /\ ~NameTaken(devices, r.user, r.name, r.device)
    /\ Pending(s, "update") /\ r.patch # NoChange =>
         LET row == Patched(devices[r.device], r.patch) IN
         /\ r.device \in Live(devices)
         /\ row.name # None /\ Ordered(row)
         /\ r.patch.name # Keep => ~NameTaken(devices, r.user, r.patch.name, r.device)
    /\ r.op = "ingest" /\ touched[s] # {} =>
         r.device \in Live(devices) /\ Keys(s) \cap readings = {}

\* The name slot s is about to give to a device of u.
Claims(s, u, name) ==
    \/ Pending(s, "create") /\ request[s].user = u /\ request[s].name = name
    \/ /\ Pending(s, "update") /\ request[s].patch.name = name /\ name # Keep
       /\ request[s].user = u

\* Ids of new rows are minted once.
ApartIds(s, t) ==
    LET r == request[s]
        q == request[t]
    IN  /\ r.op = "signup" /\ q.op = "signup" => r.user # q.user
        /\ r.op = "create" /\ q.op = "create" => r.device # q.device

\* Two transactions never hold the same entry of a unique index.
ApartEmails(s, t) ==
    Pending(s, "signup") /\ Pending(t, "signup") => request[s].email # request[t].email

ApartNames(s, t) ==
    \A u \in Users, n \in Names \cup {None} : ~(Claims(s, u, n) /\ Claims(t, u, n))

\* Nobody deletes a row while another transaction refers to it or rewrites it.
ApartOwner(s, t) == Pending(s, "create") => ~ClosesAccount(t, request[s].user)

ApartRows(s, t) ==
    \A d \in Devices :
        /\ Rewrites(s, d) => ~Rewrites(t, d) /\ ~Dooms(t, d)
        /\ References(s, d) => ~Dooms(t, d)
        /\ References(s, d) /\ References(t, d) => touched[s] \cap touched[t] = {}

Apart(s, t) ==
    /\ ApartIds(s, t) /\ ApartEmails(s, t) /\ ApartNames(s, t)
    /\ ApartOwner(s, t) /\ ApartRows(s, t)

Locks ==
    /\ \A s \in Slots : Shape(s) /\ Known(s) /\ Sound(s)
    /\ \A s, t \in Slots : s # t => Apart(s, t)

IInv == TypeOK /\ Store!Consistent /\ Locks

\* The fields of a request, by its operation.
LEMMA Fields ==
    ASSUME NEW r \in Request \cup {NoRequest}
    PROVE  /\ r.op \in {"none", "signup", "close", "create", "update", "delete",
                        "ingest", "purge"}
           /\ r.op = "none" <=> r = NoRequest
           /\ r.op # "none" => r.user \in Users
           /\ r.op = "signup" => r.email \in Emails
           /\ r.op \in {"create", "update", "delete", "ingest", "purge"}
                => r.device \in Devices
           /\ r.op = "create" => r.name \in Names /\ r.min \in Threshold /\ r.max \in Threshold
           /\ r.op = "update" => r.patch \in Patch
           /\ r.op = "ingest" => r.rows \in Seq(Times)
           /\ r.op = "purge" => r.window \in SUBSET Times
BY DEF Request, NoRequest

LEMMA FieldsOf ==
    ASSUME TypeOK, NEW s \in Slots
    PROVE  LET r == request[s] IN
           /\ r \in Request \cup {NoRequest}
           /\ r.op \in {"none", "signup", "close", "create", "update", "delete",
                        "ingest", "purge"}
           /\ r.op = "none" <=> r = NoRequest
           /\ r.op # "none" => r.user \in Users
           /\ r.op = "signup" => r.email \in Emails
           /\ r.op \in {"create", "update", "delete", "ingest", "purge"}
                => r.device \in Devices
           /\ r.op = "create" => r.name \in Names /\ r.min \in Threshold /\ r.max \in Threshold
           /\ r.op = "update" => r.patch \in Patch
           /\ r.op = "ingest" => r.rows \in Seq(Times)
           /\ r.op = "purge" => r.window \in SUBSET Times
  <1>1. request[s] \in Request \cup {NoRequest}
    BY DEF TypeOK
  <1> QED
    BY <1>1, Fields

LEMMA InitIInv == Init => IInv
  <1> SUFFICES ASSUME Init PROVE IInv
    OBVIOUS
  <1>1. TypeOK
    BY DEF Init, TypeOK, Answers
  <1>2. Store!Consistent
    BY DEF Init, Store!Consistent, Store!Referential, Store!Unique, Store!Banded,
           Store!Live, Never
  <1>3. ASSUME NEW s \in Slots PROVE Shape(s) /\ Known(s) /\ Sound(s)
    BY <1>3 DEF Init, Shape, Known, Sound, Pending, NoRequest
  <1>4. ASSUME NEW s \in Slots, NEW t \in Slots PROVE Apart(s, t)
    BY <1>4 DEF Init, Apart, ApartIds, ApartEmails, ApartNames, ApartOwner, ApartRows,
                Pending, NoRequest, Claims, Rewrites, References
  <1> QED
    BY <1>1, <1>2, <1>3, <1>4 DEF IInv, Locks

-----------------------------------------------------------------------------
(* Steps that leave the tables alone.                                       *)

Same(t) == pc'[t] = pc[t] /\ request'[t] = request[t] /\ touched'[t] = touched[t]

\* What one slot does disturbs nothing between the others.
LEMMA Frame ==
    ASSUME IInv, NEW s \in Slots, UNCHANGED tables, \A t \in Slots \ {s} : Same(t)
    PROVE  /\ \A t \in Slots \ {s} : Shape(t)' /\ Known(t)' /\ Sound(t)'
           /\ \A t, v \in Slots \ {s} : t # v => Apart(t, v)'
  <1> USE DEF tables
  <1>1. ASSUME NEW t \in Slots \ {s} PROVE Shape(t)' /\ Known(t)' /\ Sound(t)'
    <2>1. Shape(t) /\ Known(t) /\ Sound(t) /\ Same(t)
      BY DEF IInv, Locks
    <2>2. Shape(t)'
      BY <2>1 DEF Shape, Same, Pending
    <2>3. Known(t)'
      BY <2>1 DEF Known, Same
    <2>4. Sound(t)'
      BY <2>1 DEF Sound, Same, Pending, Keys
    <2> QED
      BY <2>2, <2>3, <2>4
  <1>2. ASSUME NEW t \in Slots \ {s}, NEW v \in Slots \ {s}, t # v PROVE Apart(t, v)'
    <2>1. Apart(t, v) /\ Same(t) /\ Same(v)
      BY <1>2 DEF IInv, Locks
    <2>2. ApartIds(t, v)' /\ ApartEmails(t, v)'
      BY <2>1 DEF Apart, ApartIds, ApartEmails, Same, Pending
    <2>3. ApartNames(t, v)'
      BY <2>1 DEF Apart, ApartNames, Same, Pending, Claims
    <2>4. ApartOwner(t, v)'
      BY <2>1 DEF Apart, ApartOwner, Same, Pending, ClosesAccount
    <2>5. ApartRows(t, v)'
      BY <2>1 DEF Apart, ApartRows, Same, Pending, Rewrites, Dooms, References
    <2> QED
      BY <2>2, <2>3, <2>4, <2>5 DEF Apart
  <1> QED
    BY <1>1, <1>2

LEMMA LocksKept ==
    ASSUME IInv, NEW s \in Slots, UNCHANGED tables, \A t \in Slots \ {s} : Same(t),
           Shape(s)', Known(s)', Sound(s)',
           \A t \in Slots \ {s} : Apart(s, t)' /\ Apart(t, s)'
    PROVE  Locks'
BY Frame DEF Locks

\* A slot that has written nothing holds no lock.
LEMMA QuietSlot ==
    ASSUME NEW s \in Slots, pc'[s] # "commit", touched'[s] = {}
    PROVE  Sound(s)'
BY DEF Sound, Pending

LEMMA QuietPair ==
    ASSUME NEW s \in Slots, NEW t \in Slots, pc'[s] # "commit", touched'[s] = {},
           ApartIds(s, t)', ApartIds(t, s)'
    PROVE  Apart(s, t)' /\ Apart(t, s)'
  <1>1. ApartEmails(s, t)' /\ ApartEmails(t, s)'
    BY DEF ApartEmails, Pending
  <1>2. ApartNames(s, t)' /\ ApartNames(t, s)'
    BY DEF ApartNames, Claims, Pending
  <1>3. ApartOwner(s, t)' /\ ApartOwner(t, s)'
    BY DEF ApartOwner, ClosesAccount, Pending
  <1>4. ApartRows(s, t)' /\ ApartRows(t, s)'
    BY DEF ApartRows, Rewrites, Dooms, References, Pending
  <1> QED
    BY <1>1, <1>2, <1>3, <1>4 DEF Apart

LEMMA GotoFacts ==
    ASSUME TypeOK, NEW s \in Slots, NEW place, Goto(s, place)
    PROVE  pc'[s] = place /\ \A t \in Slots \ {s} : pc'[t] = pc[t]
BY DEF TypeOK, Goto

LEMMA AnswerFacts ==
    ASSUME TypeOK, NEW s \in Slots, NEW code, Answer(s, code)
    PROVE  /\ pc'[s] = "idle" /\ request'[s] = NoRequest /\ touched'[s] = {}
           /\ \A t \in Slots \ {s} : Same(t)
BY DEF TypeOK, Answer, Goto, Same

\* An answered slot is in nobody's way.
LEMMA IdleSlot ==
    ASSUME NEW s \in Slots,
           pc'[s] = "idle", request'[s] = NoRequest, touched'[s] = {}
    PROVE  /\ Shape(s)' /\ Known(s)' /\ Sound(s)'
           /\ \A t \in Slots : Apart(s, t)' /\ Apart(t, s)'
  <1>1. Shape(s)' /\ Known(s)'
    BY DEF Shape, Known, Pending, NoRequest
  <1>2. \A t \in Slots : ApartIds(s, t)' /\ ApartIds(t, s)'
    BY DEF ApartIds, NoRequest
  <1>3. pc'[s] # "commit"
    OBVIOUS
  <1>4. \A t \in Slots : Apart(s, t)' /\ Apart(t, s)'
    BY <1>2, <1>3, QuietPair
  <1> QED
    BY <1>1, <1>3, <1>4, QuietSlot

LEMMA RefusedKept ==
    ASSUME IInv, NEW s \in Slots, NEW code, Refused(s, code)
    PROVE  Locks'
  <1>1. Answer(s, code) /\ UNCHANGED tables /\ TypeOK
    BY DEF Refused, IInv
  <1>2. /\ pc'[s] = "idle" /\ request'[s] = NoRequest /\ touched'[s] = {}
        /\ \A t \in Slots \ {s} : Same(t)
    BY <1>1, AnswerFacts
  <1>3. UNCHANGED tables
    BY <1>1
  <1> QED
    BY <1>2, <1>3, IdleSlot, LocksKept

LEMMA AcceptKept ==
    ASSUME IInv, NEW s \in Slots, NEW r \in Requests, Accept(s, r)
    PROVE  Locks'
  <1>1. TypeOK /\ Shape(s) /\ r \in Request /\ ValidBody(r)
    BY DataPlaneAssumption DEF IInv, Locks
  <1>2. /\ pc[s] = "idle" /\ Minted(r) /\ UNCHANGED <<tables, touched>>
        /\ pc' = [pc EXCEPT ![s] = IF r.op = "signup" THEN "write" ELSE "auth"]
        /\ request' = [request EXCEPT ![s] = r]
    BY DEF Accept, Goto
  <1>3. /\ pc'[s] = IF r.op = "signup" THEN "write" ELSE "auth"
        /\ request'[s] = r /\ touched'[s] = touched[s]
        /\ \A t \in Slots \ {s} : Same(t)
    BY <1>1, <1>2 DEF TypeOK, Same
  <1>4. touched'[s] = {} /\ r.op # "none"
    BY <1>1, <1>2, <1>3 DEF Shape, Request, Pending
  <1>5. Shape(s)'
    BY <1>3, <1>4 DEF Shape, Pending
  <1>6. r.op = "create" => Ordered(NewRow(r))
    <2> SUFFICES ASSUME r.op = "create" PROVE Ordered(NewRow(r))
      OBVIOUS
    <2>1. r.min \in Threshold /\ r.max \in Threshold
      BY <1>1, Fields
    <2>2. r.min # None /\ r.max # None => r.min \in Int /\ r.max \in Int /\ r.min < r.max
      BY <1>1, <2>1, DataAssumption DEF ValidBody, Threshold
    <2> QED
      BY <2>2 DEF Ordered, NewRow
  <1>7. Known(s)'
    BY <1>2, <1>3, <1>4, <1>6 DEF Known, Minted, tables
  <1>8. ASSUME NEW t \in Slots \ {s} PROVE ApartIds(s, t)' /\ ApartIds(t, s)'
    BY <1>2, <1>3 DEF ApartIds, Minted, Same
  <1>9. UNCHANGED tables
    BY <1>2
  <1>10. pc'[s] # "commit"
    BY <1>3
  <1>11. Sound(s)' /\ \A t \in Slots \ {s} : Apart(s, t)' /\ Apart(t, s)'
    BY <1>4, <1>8, <1>10, QuietSlot, QuietPair
  <1> QED
    BY <1>3, <1>5, <1>7, <1>9, <1>11, LocksKept

LEMMA AuthenticateKept ==
    ASSUME IInv, NEW s \in Slots, Authenticate(s)
    PROVE  Locks'
  <1> DEFINE r == request[s]
  <1>1. TypeOK /\ Shape(s) /\ Known(s) /\ \A t \in Slots \ {s} : Apart(s, t) /\ Apart(t, s)
    BY DEF IInv, Locks
  <1>2. /\ pc[s] = "auth" /\ UNCHANGED <<tables, request, touched>>
        /\ Goto(s, IF r.op \in {"create", "close"} THEN "write" ELSE "own")
    BY DEF Authenticate
  <1>3. /\ pc'[s] = IF r.op \in {"create", "close"} THEN "write" ELSE "own"
        /\ \A t \in Slots \ {s} : Same(t)
    BY <1>1, <1>2, GotoFacts DEF Same
  <1>4. UNCHANGED tables /\ request'[s] = r /\ touched'[s] = {} /\ pc'[s] # "commit"
    BY <1>1, <1>2, <1>3 DEF Shape, Pending
  <1>5. Shape(s)'
    BY <1>1, <1>2, <1>3, <1>4, FieldsOf DEF Shape, Pending
  <1>6. Known(s)'
    BY <1>1, <1>3, <1>4 DEF Known, tables
  <1>7. ASSUME NEW t \in Slots \ {s} PROVE ApartIds(s, t)' /\ ApartIds(t, s)'
    BY <1>1, <1>3, <1>4 DEF Apart, ApartIds, Same
  <1>8. Sound(s)' /\ \A t \in Slots \ {s} : Apart(s, t)' /\ Apart(t, s)'
    BY <1>4, <1>7, QuietSlot, QuietPair
  <1> QED
    BY <1>3, <1>4, <1>5, <1>6, <1>8, LocksKept

LEMMA LoadDeviceKept ==
    ASSUME IInv, NEW s \in Slots, LoadDevice(s)
    PROVE  Locks'
  <1> DEFINE r == request[s]
  <1>1. TypeOK /\ Shape(s) /\ Known(s) /\ \A t \in Slots \ {s} : Apart(s, t) /\ Apart(t, s)
    BY DEF IInv, Locks
  <1>2. /\ pc[s] = "own" /\ Visible(s) /\ Goto(s, "write")
        /\ UNCHANGED tables /\ UNCHANGED touched
        /\ request' = IF r.op # "update" THEN request
                     ELSE [request EXCEPT ![s].patch = Changed(devices[r.device], @)]
    BY DEF LoadDevice
  <1>3. r.op \in {"update", "delete", "ingest", "purge"} /\ touched[s] = {}
    BY <1>1, <1>2 DEF Shape, Pending
  <1>4. /\ pc'[s] = "write" /\ touched'[s] = {}
        /\ \A t \in Slots \ {s} : pc'[t] = pc[t]
    BY <1>1, <1>2, <1>3, GotoFacts
  <1>5. request \in [Slots -> Request \cup {NoRequest}]
    BY <1>1 DEF TypeOK
  <1>6. \A t \in Slots \ {s} : request'[t] = request[t]
    BY <1>2, <1>5
  <1>7. request'[s] = r \/ request'[s] = [r EXCEPT !.patch = Changed(devices[r.device], @)]
    BY <1>2, <1>5
  <1>8. r.op = "update" => r \in [op : {"update"}, user : Users, device : Devices, patch : Patch]
    BY <1>5 DEF Request, NoRequest
  <1>9. request'[s].op = r.op /\ request'[s].user = r.user /\ request'[s].device = r.device
    BY <1>2, <1>5, <1>7, <1>8
  <1>10. Shape(s)'
    BY <1>3, <1>4, <1>9 DEF Shape, Pending
  <1>11. Known(s)'
    BY <1>1, <1>2, <1>3, <1>9 DEF Known, Visible, tables
  <1>12. ASSUME NEW t \in Slots \ {s} PROVE ApartIds(s, t)' /\ ApartIds(t, s)'
    BY <1>3, <1>9 DEF ApartIds
  <1>13. pc'[s] # "commit"
    BY <1>4
  <1>14. Sound(s)' /\ \A t \in Slots \ {s} : Apart(s, t)' /\ Apart(t, s)'
    BY <1>4, <1>12, <1>13, QuietSlot, QuietPair
  <1>15. \A t \in Slots \ {s} : Same(t)
    BY <1>2, <1>4, <1>6 DEF Same
  <1> QED
    BY <1>2, <1>10, <1>11, <1>14, <1>15, LocksKept

-----------------------------------------------------------------------------
(* Write statements.                                                        *)

LEMMA WrittenFacts ==
    ASSUME TypeOK, NEW s \in Slots, Written(s)
    PROVE  /\ pc'[s] = "commit" /\ request'[s] = request[s] /\ touched'[s] = touched[s]
           /\ \A t \in Slots \ {s} : Same(t)
BY GotoFacts DEF Written, Same

\* What is left to show of a statement that succeeds.
LEMMA WrittenKept ==
    ASSUME IInv, NEW s \in Slots, pc[s] = "write", Written(s),
           request[s].op \notin {"none", "ingest", "purge"},
           Sound(s)',
           \A t \in Slots \ {s} : /\ ApartEmails(s, t)' /\ ApartEmails(t, s)'
                                  /\ ApartNames(s, t)' /\ ApartNames(t, s)'
                                  /\ ApartOwner(s, t)' /\ ApartOwner(t, s)'
                                  /\ ApartRows(s, t)' /\ ApartRows(t, s)'
    PROVE  Locks'
  <1>1. TypeOK /\ Shape(s) /\ Known(s) /\ \A t \in Slots \ {s} : Apart(s, t) /\ Apart(t, s)
    BY DEF IInv, Locks
  <1>2. /\ pc'[s] = "commit" /\ request'[s] = request[s] /\ touched'[s] = touched[s]
        /\ \A t \in Slots \ {s} : Same(t)
    BY <1>1, WrittenFacts
  <1>3. UNCHANGED tables
    BY DEF Written
  <1>4. Shape(s)'
    BY <1>1, <1>2 DEF Shape, Pending
  <1>5. Known(s)'
    BY <1>1, <1>2, <1>3 DEF Known, tables
  <1>6. ASSUME NEW t \in Slots \ {s} PROVE ApartIds(s, t)' /\ ApartIds(t, s)'
    BY <1>1, <1>2 DEF Apart, ApartIds, Same
  <1>7. ASSUME NEW t \in Slots \ {s} PROVE Apart(s, t)' /\ Apart(t, s)'
    BY <1>6 DEF Apart
  <1> QED
    BY <1>2, <1>3, <1>4, <1>5, <1>7, LocksKept

\* A slot that is about to give a name holds the entry for it.
LEMMA ClaimPending ==
    ASSUME IInv, NEW t \in Slots, NEW u, NEW name, Claims(t, u, name)
    PROVE  NamePending(t, u, name)
  <1> DEFINE d == request[t].device
  <1>1. CASE Pending(t, "create")
    BY <1>1 DEF Claims, NamePending, Pending
  <1>2. CASE Pending(t, "update")
    <2>1. Sound(t) /\ Known(t)
      BY DEF IInv, Locks
    <2>2. request[t].patch.name = name /\ name # Keep /\ request[t].user = u
      BY <1>2 DEF Claims, Pending
    <2>3. request[t].patch # NoChange
      BY <2>2 DEF NoChange
    <2>4. d \in Live(devices)
      BY <1>2, <2>1, <2>3 DEF Sound
    <2>5. d \in OwnedBy(devices, u)
      BY <1>2, <2>1, <2>2, <2>4 DEF Known, Pending, Live, Gone
    <2>6. Renames(t, d)
      BY <1>2, <2>2, <2>3 DEF Renames, Rewrites
    <2> QED
      BY <2>2, <2>5, <2>6 DEF NamePending
  <1> QED
    BY <1>1, <1>2 DEF Claims

LEMMA FlushSignupKept ==
    ASSUME IInv, NEW s \in Slots, FlushSignup(s)
    PROVE  Locks'
  <1> DEFINE e == request[s].email
  <1>1. TypeOK
    BY DEF IInv
  <1>2. CASE EmailTaken(accounts, e)
    BY <1>2, RefusedKept DEF FlushSignup
  <1>3. CASE ~EmailTaken(accounts, e)
    <2>1. /\ Written(s) /\ pc[s] = "write" /\ request[s].op = "signup"
          /\ \A t \in Slots \ {s} : ~EmailPending(t, e)
      BY <1>3 DEF FlushSignup, Runs, WaitsFor
    <2>2. /\ pc'[s] = "commit" /\ request'[s] = request[s] /\ touched'[s] = touched[s]
          /\ \A t \in Slots \ {s} : Same(t)
      BY <1>1, <2>1, WrittenFacts
    <2>3. UNCHANGED tables
      BY <2>1 DEF Written
    <2>4. Sound(s)'
      BY <1>3, <2>1, <2>2, <2>3 DEF Sound, Pending, tables
    <2>5. ASSUME NEW t \in Slots \ {s}
          PROVE  /\ ApartEmails(s, t)' /\ ApartEmails(t, s)'
                 /\ ApartNames(s, t)' /\ ApartNames(t, s)'
                 /\ ApartOwner(s, t)' /\ ApartOwner(t, s)'
                 /\ ApartRows(s, t)' /\ ApartRows(t, s)'
      <3>1. ApartEmails(s, t)' /\ ApartEmails(t, s)'
        BY <2>1, <2>2 DEF ApartEmails, EmailPending, Pending, Same
      <3>2. ApartNames(s, t)' /\ ApartNames(t, s)'
        BY <2>1, <2>2 DEF ApartNames, Claims, Pending
      <3>3. ApartOwner(s, t)' /\ ApartOwner(t, s)'
        BY <2>1, <2>2 DEF ApartOwner, ClosesAccount, Pending
      <3>4. ApartRows(s, t)' /\ ApartRows(t, s)'
        BY <2>1, <2>2 DEF ApartRows, Rewrites, Dooms, References, Pending
      <3> QED
        BY <3>1, <3>2, <3>3, <3>4
    <2> QED
      BY <2>1, <2>4, <2>5, WrittenKept
  <1> QED
    BY <1>2, <1>3

LEMMA FlushCreateKept ==
    ASSUME IInv, NEW s \in Slots, FlushCreate(s)
    PROVE  Locks'
  <1> DEFINE r == request[s]
             wrong == r.user \notin Live(accounts) \/ NameTaken(devices, r.user, r.name, r.device)
  <1>1. TypeOK
    BY DEF IInv
  <1>2. CASE wrong
    BY <1>2, RefusedKept DEF FlushCreate
  <1>3. CASE ~wrong
    <2>1. /\ Written(s) /\ pc[s] = "write" /\ r.op = "create"
          /\ \A t \in Slots \ {s} : ~ClosesAccount(t, r.user) /\ ~NamePending(t, r.user, r.name)
      BY <1>3 DEF FlushCreate, Runs, WaitsFor
    <2>2. /\ pc'[s] = "commit" /\ request'[s] = r /\ touched'[s] = touched[s]
          /\ \A t \in Slots \ {s} : Same(t)
      BY <1>1, <2>1, WrittenFacts
    <2>3. UNCHANGED tables
      BY <2>1 DEF Written
    <2>4. Sound(s)'
      BY <1>3, <2>1, <2>2, <2>3 DEF Sound, Pending, tables
    <2>5. ASSUME NEW t \in Slots \ {s}
          PROVE  /\ ApartEmails(s, t)' /\ ApartEmails(t, s)'
                 /\ ApartNames(s, t)' /\ ApartNames(t, s)'
                 /\ ApartOwner(s, t)' /\ ApartOwner(t, s)'
                 /\ ApartRows(s, t)' /\ ApartRows(t, s)'
      <3>1. ApartEmails(s, t)' /\ ApartEmails(t, s)'
        BY <2>1, <2>2 DEF ApartEmails, Pending
      <3>2. ~Claims(t, r.user, r.name)
        BY <2>1, ClaimPending
      <3>3. ApartNames(s, t)' /\ ApartNames(t, s)'
        BY <2>1, <2>2, <3>2 DEF ApartNames, Claims, Pending, Same
      <3>4. ApartOwner(s, t)' /\ ApartOwner(t, s)'
        BY <2>1, <2>2, <2>3 DEF ApartOwner, ClosesAccount, Pending, Same, tables
      <3>5. ApartRows(s, t)' /\ ApartRows(t, s)'
        BY <2>1, <2>2 DEF ApartRows, Rewrites, Dooms, References, Pending
      <3> QED
        BY <3>1, <3>3, <3>4, <3>5
    <2> QED
      BY <2>1, <2>4, <2>5, WrittenKept
  <1> QED
    BY <1>2, <1>3

\* The row a PATCH leaves.
LEMMA PatchedFields ==
    ASSUME NEW row \in DeviceRow, NEW patch
    PROVE  LET new == Patched(row, patch) IN
           /\ new.status = "live" /\ new.owner = row.owner
           /\ new.name = IF patch.name = Keep THEN row.name ELSE patch.name
           /\ new.min = IF patch.min = Keep THEN row.min ELSE patch.min
           /\ new.max = IF patch.max = Keep THEN row.max ELSE patch.max
           /\ new = [row EXCEPT !.name = new.name, !.min = new.min, !.max = new.max]
BY DEF Patched, DeviceRow

LEMMA LiveRow ==
    ASSUME TypeOK, NEW d \in Live(devices)
    PROVE  d \in Devices /\ devices[d] \in DeviceRow
BY DEF TypeOK, Live, Never, Gone

LEMMA FlushUpdateKept ==
    ASSUME IInv, NEW s \in Slots, FlushUpdate(s)
    PROVE  Locks'
  <1> DEFINE r == request[s]
             d == r.device
             fine == r.patch # NoChange /\ d \in Live(devices) /\ Acceptable(s)
  <1>1. TypeOK
    BY DEF IInv
  <1>2. CASE ~Written(s)
    BY <1>2, RefusedKept DEF FlushUpdate
  <1>3. CASE Written(s)
    <2>1. /\ Written(s) /\ pc[s] = "write" /\ r.op = "update"
          /\ d \in Live(devices) /\ r.patch # NoChange =>
                \A t \in Slots \ {s} :
                   /\ ~Dooms(t, d) /\ ~Rewrites(t, d)
                   /\ r.patch.name # Keep => ~NamePending(t, r.user, r.patch.name)
      BY <1>3 DEF FlushUpdate, Runs, WaitsFor
    <2>2. /\ pc'[s] = "commit" /\ request'[s] = r /\ touched'[s] = touched[s]
          /\ \A t \in Slots \ {s} : Same(t)
      BY <1>1, <2>1, WrittenFacts
    <2>3. UNCHANGED tables
      BY <2>1 DEF Written
    <2>4. r.patch # NoChange => d \in Live(devices) /\ Acceptable(s)
      <3>1. pc'[s] # "idle"
        BY <2>2
      <3>2. \A code : ~Refused(s, code)
        BY <1>1, <3>1, AnswerFacts DEF Refused
      <3> QED
        BY <3>2 DEF FlushUpdate
    <2>5. Sound(s)'
      <3> DEFINE row == Patched(devices[d], r.patch)
      <3>1. ASSUME r.patch # NoChange
            PROVE  /\ d \in Live(devices) /\ row.name # None /\ Ordered(row)
                   /\ r.patch.name # Keep => ~NameTaken(devices, r.user, r.patch.name, d)
        <4>1. d \in Live(devices) /\ Acceptable(s)
          BY <3>1, <2>4
        <4>2. devices[d] \in DeviceRow
          BY <1>1, <4>1, LiveRow
        <4>3. r.patch.name # Keep => row.name = r.patch.name
          BY <4>2, PatchedFields
        <4> QED
          BY <4>1, <4>3 DEF Acceptable
      <3> QED
        BY <2>1, <2>2, <2>3, <3>1 DEF Sound, Pending, tables
    <2>6. ASSUME NEW t \in Slots \ {s}
          PROVE  /\ ApartEmails(s, t)' /\ ApartEmails(t, s)'
                 /\ ApartNames(s, t)' /\ ApartNames(t, s)'
                 /\ ApartOwner(s, t)' /\ ApartOwner(t, s)'
                 /\ ApartRows(s, t)' /\ ApartRows(t, s)'
      <3>1. ApartEmails(s, t)' /\ ApartEmails(t, s)'
        BY <2>1, <2>2 DEF ApartEmails, Pending
      <3>2. r.patch.name # Keep => ~Claims(t, r.user, r.patch.name)
        <4>1. r.patch.name # Keep => r.patch # NoChange
          BY DEF NoChange
        <4> QED
          BY <2>1, <2>4, <4>1, ClaimPending
      <3>3. ApartNames(s, t)' /\ ApartNames(t, s)'
        BY <2>1, <2>2, <3>2 DEF ApartNames, Claims, Pending, Same
      <3>4. ApartOwner(s, t)' /\ ApartOwner(t, s)'
        BY <2>1, <2>2, <2>3 DEF ApartOwner, ClosesAccount, Pending
      <3>5. ApartRows(s, t)' /\ ApartRows(t, s)'
        BY <2>1, <2>2, <2>3, <2>4
           DEF ApartRows, Rewrites, Dooms, References, Pending, Same, tables
      <3> QED
        BY <3>1, <3>3, <3>4, <3>5
    <2> QED
      BY <2>1, <2>5, <2>6, WrittenKept
  <1> QED
    BY <1>2, <1>3

LEMMA FlushDeleteKept ==
    ASSUME IInv, NEW s \in Slots, FlushDelete(s)
    PROVE  Locks'
  <1> DEFINE r == request[s]
  <1>1. TypeOK
    BY DEF IInv
  <1>2. /\ Written(s) /\ pc[s] = "write" /\ r.op \in {"delete", "close"}
        /\ r.op = "delete" /\ r.device \in Live(devices) =>
              \A t \in Slots \ {s} : ~Rewrites(t, r.device) /\ ~References(t, r.device)
        /\ r.op = "close" =>
              \A t \in Slots \ {s} :
                 /\ ~(Pending(t, "create") /\ request[t].user = r.user)
                 /\ \A d \in OwnedBy(devices, r.user) : ~Rewrites(t, d) /\ ~References(t, d)
    BY DEF FlushDelete, Runs, WaitsFor
  <1>3. /\ pc'[s] = "commit" /\ request'[s] = r /\ touched'[s] = touched[s]
        /\ \A t \in Slots \ {s} : Same(t)
    BY <1>1, <1>2, WrittenFacts
  <1>4. UNCHANGED tables
    BY <1>2 DEF Written
  <1>5. Sound(s)'
    BY <1>2, <1>3 DEF Sound, Pending
  <1>6. ASSUME NEW t \in Slots \ {s}
        PROVE  /\ ApartEmails(s, t)' /\ ApartEmails(t, s)'
               /\ ApartNames(s, t)' /\ ApartNames(t, s)'
               /\ ApartOwner(s, t)' /\ ApartOwner(t, s)'
               /\ ApartRows(s, t)' /\ ApartRows(t, s)'
    <2>1. ApartEmails(s, t)' /\ ApartEmails(t, s)'
      BY <1>2, <1>3 DEF ApartEmails, Pending
    <2>2. ApartNames(s, t)' /\ ApartNames(t, s)'
      BY <1>2, <1>3 DEF ApartNames, Claims, Pending
    <2>3. ApartOwner(s, t)' /\ ApartOwner(t, s)'
      BY <1>2, <1>3 DEF ApartOwner, ClosesAccount, Pending, Same
    <2>4. \A d \in Devices : Dooms(s, d)' => ~Rewrites(t, d)' /\ ~References(t, d)'
      BY <1>2, <1>3, <1>4 DEF Rewrites, Dooms, References, Pending, Same, OwnedBy, tables
    <2>5. ApartRows(s, t)' /\ ApartRows(t, s)'
      BY <1>2, <1>3, <2>4 DEF ApartRows, Rewrites, References, Pending
    <2> QED
      BY <2>1, <2>2, <2>3, <2>5
  <1> QED
    BY <1>2, <1>5, <1>6, WrittenKept

LEMMA InsertRowKept ==
    ASSUME IInv, NEW s \in Slots, InsertRow(s)
    PROVE  Locks'
  <1> DEFINE r == request[s]
             h == Head(r.rows)
             wrong == \/ r.device \notin Live(devices)
                      \/ <<r.device, h>> \in readings
                      \/ h \in touched[s]
  <1>1. TypeOK /\ Shape(s) /\ Known(s) /\ Sound(s)
        /\ \A t \in Slots \ {s} : Apart(s, t) /\ Apart(t, s)
    BY DEF IInv, Locks
  <1>2. CASE wrong
    BY <1>2, RefusedKept DEF InsertRow
  <1>3. CASE ~wrong
    <2>1. /\ pc[s] = "write" /\ r.op = "ingest"
          /\ touched' = [touched EXCEPT ![s] = @ \cup {h}]
          /\ request' = [request EXCEPT ![s].rows = Tail(@)]
          /\ Goto(s, IF Tail(r.rows) = <<>> THEN "commit" ELSE "write")
          /\ UNCHANGED tables
          /\ \A t \in Slots \ {s} : /\ ~Dooms(t, r.device)
                                    /\ References(t, r.device) => h \notin touched[t]
      BY <1>3 DEF InsertRow, Runs, WaitsFor
    <2>2. r \in [op : {"ingest"}, user : Users, device : Devices, rows : Seq(Times)]
      BY <1>1, <2>1 DEF TypeOK, Request, NoRequest
    <2>3. /\ request'[s].op = "ingest" /\ request'[s].user = r.user
          /\ request'[s].device = r.device
          /\ \A t \in Slots \ {s} : request'[t] = request[t]
      BY <1>1, <2>1, <2>2 DEF TypeOK
    <2>4. /\ touched'[s] = touched[s] \cup {h}
          /\ \A t \in Slots \ {s} : touched'[t] = touched[t]
      BY <1>1, <2>1 DEF TypeOK
    <2>5. pc'[s] \in {"write", "commit"} /\ \A t \in Slots \ {s} : pc'[t] = pc[t]
      BY <1>1, <2>1, GotoFacts
    <2>6. Shape(s)'
      <3>1. request'[s].rows = Tail(r.rows) /\ (pc'[s] = "commit" => Tail(r.rows) = <<>>)
        BY <1>1, <2>1, <2>2, GotoFacts DEF TypeOK
      <3> QED
        BY <2>3, <2>4, <2>5, <3>1 DEF Shape, Pending
    <2>7. Known(s)'
      BY <1>1, <2>1, <2>3, <2>5 DEF Known, tables
    <2>8. Sound(s)'
      <3>1. r.device \in Live(devices) /\ Keys(s) \cap readings = {}
        BY <1>1, <1>3, <2>1 DEF Sound, Keys
      <3>2. Keys(s)' = Keys(s) \cup {<<r.device, h>>}
        BY <2>3, <2>4 DEF Keys
      <3>3. Live(devices)' = Live(devices) /\ readings' = readings
        BY <2>1 DEF tables
      <3>4. request'[s].device \in Live(devices)' /\ Keys(s)' \cap readings' = {}
        BY <1>3, <2>3, <3>1, <3>2, <3>3
      <3> QED
        BY <2>3, <3>4 DEF Sound, Pending
    <2>9. ASSUME NEW t \in Slots \ {s} PROVE Apart(s, t)' /\ Apart(t, s)'
      <3>1. ApartIds(s, t)' /\ ApartIds(t, s)' /\ ApartEmails(s, t)' /\ ApartEmails(t, s)'
        BY <2>3 DEF ApartIds, ApartEmails, Pending
      <3>2. ApartNames(s, t)' /\ ApartNames(t, s)'
        BY <2>3 DEF ApartNames, Claims, Pending
      <3>3. ApartOwner(s, t)' /\ ApartOwner(t, s)'
        BY <2>3 DEF ApartOwner, ClosesAccount, Pending
      <3>4. /\ ~Dooms(t, r.device)
            /\ References(t, r.device) => touched[t] \cap (touched[s] \cup {h}) = {}
        <4>1. References(t, r.device) /\ touched[s] # {} => touched[t] \cap touched[s] = {}
          BY <1>1, <2>1, <2>2 DEF Apart, ApartRows, References
        <4>2. ~Dooms(t, r.device) /\ (References(t, r.device) => h \notin touched[t])
          BY <2>1
        <4> QED
          BY <4>1, <4>2
      <3>5. /\ ~Dooms(t, r.device)'
            /\ References(t, r.device)' => touched'[t] \cap touched'[s] = {}
        BY <2>1, <2>3, <2>4, <2>5, <3>4 DEF Dooms, References, Pending, tables
      <3>6. \A d : References(s, d)' => d = r.device
        BY <2>3 DEF References
      <3>7. ApartRows(s, t)' /\ ApartRows(t, s)'
        BY <2>3, <3>5, <3>6 DEF ApartRows, Rewrites, Dooms, Pending
      <3> QED
        BY <3>1, <3>2, <3>3, <3>7 DEF Apart
    <2>10. \A t \in Slots \ {s} : Same(t)
      BY <2>3, <2>4, <2>5 DEF Same
    <2> QED
      BY <2>1, <2>6, <2>7, <2>8, <2>9, <2>10, LocksKept
  <1> QED
    BY <1>2, <1>3

LEMMA ExecPurgeKept ==
    ASSUME IInv, NEW s \in Slots, ExecPurge(s)
    PROVE  Locks'
  <1> DEFINE r == request[s]
  <1>1. TypeOK /\ Known(s)
    BY DEF IInv, Locks
  <1>2. CASE r.dry
    BY <1>2, RefusedKept DEF ExecPurge
  <1>3. CASE ~r.dry
    <2>1. /\ pc[s] = "write" /\ r.op = "purge" /\ Goto(s, "commit")
          /\ touched' = [touched EXCEPT ![s] = Window(s)]
          /\ UNCHANGED request /\ UNCHANGED tables
      BY <1>3 DEF ExecPurge, Runs
    <2>2. pc'[s] = "commit" /\ request'[s] = r /\ \A t \in Slots \ {s} : Same(t)
      BY <1>1, <2>1, GotoFacts DEF TypeOK, Same
    <2>3. Shape(s)' /\ Sound(s)'
      BY <2>1, <2>2 DEF Shape, Sound, Pending
    <2>4. Known(s)'
      BY <1>1, <2>1, <2>2 DEF Known, tables
    <2>5. ASSUME NEW t \in Slots \ {s} PROVE Apart(s, t)' /\ Apart(t, s)'
      <3>1. ApartIds(s, t)' /\ ApartIds(t, s)' /\ ApartEmails(s, t)' /\ ApartEmails(t, s)'
        BY <2>1, <2>2 DEF ApartIds, ApartEmails, Pending
      <3>2. ApartNames(s, t)' /\ ApartNames(t, s)'
        BY <2>1, <2>2 DEF ApartNames, Claims, Pending
      <3>3. ApartOwner(s, t)' /\ ApartOwner(t, s)'
        BY <2>1, <2>2 DEF ApartOwner, ClosesAccount, Pending
      <3>4. ApartRows(s, t)' /\ ApartRows(t, s)'
        BY <2>1, <2>2 DEF ApartRows, Rewrites, Dooms, References, Pending
      <3> QED
        BY <3>1, <3>2, <3>3, <3>4 DEF Apart
    <2> QED
      BY <2>1, <2>2, <2>3, <2>4, <2>5, LocksKept
  <1> QED
    BY <1>2, <1>3

-----------------------------------------------------------------------------
(* Commits.                                                                 *)

\* A commit releases the locks of its slot; it must not undo what the others
\* rely on, nor give one of their deletions a row to delete.
LEMMA CommitKept ==
    ASSUME IInv, NEW s \in Slots, NEW code, Answer(s, code),
           \A t \in Slots \ {s} : Known(t)' /\ Sound(t)',
           \A t \in Slots \ {s} : \A d : Dooms(t, d)' => Dooms(t, d),
           \A t \in Slots \ {s} : \A u : ClosesAccount(t, u)' => ClosesAccount(t, u)
    PROVE  Locks'
  <1>1. /\ pc'[s] = "idle" /\ request'[s] = NoRequest /\ touched'[s] = {}
        /\ \A t \in Slots \ {s} : Same(t)
    BY AnswerFacts DEF IInv
  <1>2. /\ Shape(s)' /\ Known(s)' /\ Sound(s)'
        /\ \A t \in Slots : Apart(s, t)' /\ Apart(t, s)'
    BY <1>1, IdleSlot
  <1>3. ASSUME NEW t \in Slots \ {s} PROVE Shape(t)'
    <2>1. Shape(t) /\ Same(t)
      BY <1>1 DEF IInv, Locks
    <2> QED
      BY <2>1 DEF Shape, Same, Pending
  <1>4. ASSUME NEW t \in Slots \ {s}, NEW v \in Slots \ {s}, t # v PROVE Apart(t, v)'
    <2>1. Apart(t, v) /\ Same(t) /\ Same(v)
      BY <1>1, <1>4 DEF IInv, Locks
    <2>2. ApartIds(t, v)' /\ ApartEmails(t, v)'
      BY <2>1 DEF Apart, ApartIds, ApartEmails, Same, Pending
    <2>3. ApartNames(t, v)'
      BY <2>1 DEF Apart, ApartNames, Same, Pending, Claims
    <2>4. ApartOwner(t, v)'
      <3>1. ClosesAccount(v, request[t].user)' => ClosesAccount(v, request[t].user)
        BY <2>1 DEF Same
      <3> QED
        BY <2>1, <3>1 DEF Apart, ApartOwner, Same, Pending
    <2>5. ApartRows(t, v)'
      <3>1. ASSUME NEW d \in Devices
            PROVE  /\ Dooms(v, d)' => Dooms(v, d)
                   /\ Rewrites(t, d)' => Rewrites(t, d)
                   /\ Rewrites(v, d)' => Rewrites(v, d)
                   /\ References(t, d)' => References(t, d)
                   /\ References(v, d)' => References(v, d)
        BY <2>1 DEF Same, Pending, Rewrites, References
      <3>2. /\ touched'[t] = touched[t] /\ touched'[v] = touched[v]
            /\ ApartRows(t, v)
        BY <2>1 DEF Same, Apart
      <3> QED
        BY <3>1, <3>2 DEF ApartRows
    <2> QED
      BY <2>2, <2>3, <2>4, <2>5 DEF Apart
  <1> QED
    BY <1>2, <1>3, <1>4 DEF Locks

LEMMA CommitSignupKept ==
    ASSUME IInv, NEW s \in Slots, NEW code, CommitSignup(s), Answer(s, code)
    PROVE  Locks'
  <1> DEFINE u == request[s].user
             e == request[s].email
  <1>1. TypeOK /\ Known(s) /\ Pending(s, "signup") /\ request[s].op = "signup"
    BY DEF IInv, Locks, CommitSignup, Pending
  <1>2. u \in Users /\ accounts[u] = Never
    BY <1>1, FieldsOf DEF Known
  <1>3. /\ accounts' = [accounts EXCEPT ![u] = Account(e)]
        /\ UNCHANGED devices /\ UNCHANGED readings
    BY DEF CommitSignup
  <1>4. /\ accounts'[u] = Account(e) /\ accounts'[u] # Never
        /\ \A x \in Users \ {u} : accounts'[x] = accounts[x]
        /\ Live(accounts') = Live(accounts) \cup {u}
        /\ Live(accounts) \subseteq Users
    BY <1>1, <1>2, <1>3 DEF TypeOK, Live, Account, Never
  <1>5. \A t \in Slots \ {s} : Same(t)
    BY <1>1, AnswerFacts
  <1>6. ASSUME NEW t \in Slots \ {s} PROVE Known(t)' /\ Sound(t)'
    <2>1. Known(t) /\ Sound(t) /\ Same(t) /\ Apart(s, t)
      BY <1>5 DEF IInv, Locks
    <2>2. request[t].op # "none" => request[t].user \in Users
      BY <1>1, FieldsOf
    <2>3. request[t].op = "signup" => request[t].user # u
      BY <1>1, <2>1 DEF Apart, ApartIds
    <2>4. Known(t)'
      BY <1>3, <1>4, <2>1, <2>2, <2>3 DEF Known, Same
    <2>5. Pending(t, "signup") => ~EmailTaken(accounts', request[t].email)
      <3>1. Pending(t, "signup") => request[t].email # e /\ ~EmailTaken(accounts, request[t].email)
        BY <1>1, <2>1 DEF Apart, ApartEmails, Sound
      <3> QED
        BY <1>2, <1>4, <3>1 DEF EmailTaken, Account
    <2>6. Sound(t)'
      BY <1>3, <1>4, <2>1, <2>5 DEF Sound, Same, Pending, Keys
    <2> QED
      BY <2>4, <2>6
  <1>7. ASSUME NEW t \in Slots \ {s}, NEW d, Dooms(t, d)' PROVE Dooms(t, d)
    BY <1>3, <1>5, <1>7 DEF Dooms, Pending, Same
  <1>8. ASSUME NEW t \in Slots \ {s}, NEW x, ClosesAccount(t, x)' PROVE ClosesAccount(t, x)
    <2>1. Pending(t, "close") /\ request[t].user = x /\ x \in Live(accounts')
      BY <1>5, <1>8 DEF ClosesAccount, Pending, Same
    <2>2. accounts[x] # Never
      BY <2>1 DEF IInv, Locks, Known, Pending
    <2> QED
      BY <1>2, <1>4, <2>1, <2>2 DEF ClosesAccount
  <1> QED
    BY <1>6, <1>7, <1>8, CommitKept

LEMMA CommitCreateKept ==
    ASSUME IInv, NEW s \in Slots, NEW code, CommitCreate(s), Answer(s, code)
    PROVE  Locks'
  <1> DEFINE r == request[s]
             d == r.device
  <1>1. TypeOK /\ Known(s) /\ Sound(s) /\ Pending(s, "create") /\ r.op = "create"
    BY DEF IInv, Locks, CommitCreate, Pending
  <1>2. d \in Devices /\ devices[d] = Never /\ r.user \in Users /\ r.name \in Names
        /\ r.user \in Live(accounts)
    BY <1>1, FieldsOf DEF Known, Sound
  <1>3. /\ devices' = [devices EXCEPT ![d] = NewRow(r)]
        /\ UNCHANGED accounts /\ UNCHANGED readings
    BY DEF CommitCreate, NewRow
  <1>4. /\ devices'[d] = NewRow(r)
        /\ \A x \in Devices \ {d} : devices'[x] = devices[x]
        /\ Live(devices') = Live(devices) \cup {d}
        /\ Live(devices) \subseteq Devices /\ d \notin Live(devices)
    BY <1>1, <1>2, <1>3 DEF TypeOK, Live, NewRow, Never
  <1>5. \A t \in Slots \ {s} : Same(t)
    BY <1>1, AnswerFacts
  \* Only a request for the name just given finds it taken now.
  <1>6. ASSUME NEW u, NEW n, NEW x \in Devices, NameTaken(devices', u, n, x),
               ~NameTaken(devices, u, n, x)
        PROVE  u = r.user /\ n = r.name
    BY <1>4, <1>6 DEF NameTaken, OwnedBy, NewRow
  <1>7. ASSUME NEW t \in Slots \ {s} PROVE Known(t)' /\ Sound(t)'
    <2> DEFINE q == request[t]
    <2>1. Known(t) /\ Sound(t) /\ Same(t) /\ Apart(s, t) /\ q \in Request \cup {NoRequest}
      BY <1>5 DEF IInv, Locks, TypeOK
    <2>2. q.op \in {"create", "update", "delete", "ingest", "purge"} => q.device \in Devices
      BY <2>1, Fields
    <2>3. q.op = "create" => q.device # d
      BY <1>1, <2>1 DEF Apart, ApartIds
    <2>4. q.op \in {"update", "delete", "ingest", "purge"} /\ pc[t] \in {"write", "commit"}
            => q.device # d
      BY <1>2, <1>4, <2>1 DEF Known, OwnedBy, Never, Gone
    <2>5. Known(t)'
      <3>1. /\ request'[t] = q /\ pc'[t] = pc[t] /\ accounts' = accounts
            /\ q.op = "create" => devices'[q.device] = devices[q.device]
            /\ q.op \in {"update", "delete", "ingest", "purge"} /\ pc[t] \in {"write", "commit"}
                 => devices'[q.device] = devices[q.device]
        BY <1>3, <1>4, <2>1, <2>2, <2>3, <2>4 DEF Same
      <3>2. \A x \in Devices \ {d} :
               x \in OwnedBy(devices, q.user) => x \in OwnedBy(devices', q.user)
        BY <1>4 DEF OwnedBy
      <3> QED
        BY <2>1, <2>2, <2>4, <3>1, <3>2 DEF Known
    <2>6. ~Claims(t, r.user, r.name)
      BY <1>1, <1>2, <2>1 DEF Apart, ApartNames, Claims
    <2>7. Pending(t, "create") => ~NameTaken(devices', q.user, q.name, q.device)
      BY <1>6, <2>1, <2>2, <2>6 DEF Sound, Claims, Pending
    <2>8. Pending(t, "update") /\ q.patch # NoChange /\ q.patch.name # Keep
            => ~NameTaken(devices', q.user, q.patch.name, q.device)
      BY <1>6, <2>1, <2>2, <2>6 DEF Sound, Claims, Pending
    <2>9. Sound(t)'
      BY <1>2, <1>3, <1>4, <2>1, <2>2, <2>4, <2>7, <2>8 DEF Sound, Same, Pending, Keys
    <2> QED
      BY <2>5, <2>9
  <1>8. ASSUME NEW t \in Slots \ {s}, NEW x, Dooms(t, x)' PROVE Dooms(t, x)
    <2>1. Known(t) /\ Same(t) /\ Apart(s, t)
      BY <1>5 DEF IInv, Locks
    <2>2. /\ x \in Live(devices')
          /\ \/ Pending(t, "delete") /\ request[t].device = x
             \/ Pending(t, "close") /\ request[t].user = devices'[x].owner
      BY <1>8, <2>1 DEF Dooms, Pending, Same
    <2>3. x # d
      <3> SUFFICES ASSUME x = d PROVE FALSE
        OBVIOUS
      <3>1. CASE Pending(t, "delete") /\ request[t].device = x
        BY <1>2, <1>4, <2>1, <3>1 DEF Known, Pending, OwnedBy, Never, Gone
      <3>2. CASE Pending(t, "close") /\ request[t].user = devices'[x].owner
        BY <1>1, <1>2, <1>4, <2>1, <3>2 DEF Apart, ApartOwner, ClosesAccount, NewRow
      <3> QED
        BY <2>2, <3>1, <3>2
    <2> QED
      BY <1>4, <2>2, <2>3 DEF Dooms
  <1>9. ASSUME NEW t \in Slots \ {s}, NEW u, ClosesAccount(t, u)' PROVE ClosesAccount(t, u)
    BY <1>3, <1>5, <1>9 DEF ClosesAccount, Pending, Same
  <1> QED
    BY <1>7, <1>8, <1>9, CommitKept

LEMMA CommitIngestKept ==
    ASSUME IInv, NEW s \in Slots, NEW code, CommitIngest(s), Answer(s, code)
    PROVE  Locks'
  <1>1. /\ Pending(s, "ingest") /\ touched[s] # {} /\ readings' = readings \cup Keys(s)
        /\ UNCHANGED accounts /\ UNCHANGED devices
    BY DEF CommitIngest, IInv, Locks, Shape
  <1>2. \A t \in Slots \ {s} : Same(t)
    BY AnswerFacts DEF IInv
  <1>3. request[s].op = "ingest" /\ request[s].device \in Devices
    BY <1>1, FieldsOf DEF IInv, Pending
  <1>4. ASSUME NEW t \in Slots \ {s} PROVE Known(t)' /\ Sound(t)'
    <2>1. Known(t) /\ Sound(t) /\ Same(t) /\ Apart(s, t)
      BY <1>2 DEF IInv, Locks
    <2>2. Known(t)'
      BY <1>1, <2>1 DEF Known, Same
    <2>3. request[t].op = "ingest" /\ touched[t] # {} => Keys(t) \cap Keys(s) = {}
      BY <1>1, <1>3, <2>1 DEF Apart, ApartRows, References, Keys
    <2>4. request[t].op = "ingest" /\ touched[t] # {} => Keys(t) \cap readings' = {}
      BY <1>1, <2>1, <2>3 DEF Sound
    <2>5. Sound(t)'
      BY <1>1, <2>1, <2>4 DEF Sound, Same, Pending, Keys
    <2> QED
      BY <2>2, <2>5
  <1>5. ASSUME NEW t \in Slots \ {s}, NEW d, Dooms(t, d)' PROVE Dooms(t, d)
    BY <1>1, <1>2, <1>5 DEF Dooms, Pending, Same
  <1>6. ASSUME NEW t \in Slots \ {s}, NEW u, ClosesAccount(t, u)' PROVE ClosesAccount(t, u)
    BY <1>1, <1>2, <1>6 DEF ClosesAccount, Pending, Same
  <1> QED
    BY <1>4, <1>5, <1>6, CommitKept

LEMMA CommitUpdateKept ==
    ASSUME IInv, NEW s \in Slots, NEW code, CommitUpdate(s), Answer(s, code)
    PROVE  Locks'
  <1> DEFINE r == request[s]
             d == r.device
             row == Patched(devices[d], r.patch)
  <1>1. /\ TypeOK /\ Known(s) /\ Sound(s) /\ Pending(s, "update") /\ r.op = "update"
        /\ UNCHANGED accounts /\ UNCHANGED readings
    BY DEF IInv, Locks, CommitUpdate, Pending
  <1>2. \A t \in Slots \ {s} : Same(t)
    BY <1>1, AnswerFacts
  <1>3. CASE r.patch = NoChange
    <2>1. UNCHANGED devices
      BY <1>3 DEF CommitUpdate
    <2>2. ASSUME NEW t \in Slots \ {s} PROVE Known(t)' /\ Sound(t)'
      <3>1. Known(t) /\ Sound(t) /\ Same(t)
        BY <1>2 DEF IInv, Locks
      <3> QED
        BY <1>1, <2>1, <3>1 DEF Known, Sound, Same, Pending, Keys
    <2>3. ASSUME NEW t \in Slots \ {s}, NEW x, Dooms(t, x)' PROVE Dooms(t, x)
      BY <1>2, <2>1, <2>3 DEF Dooms, Pending, Same
    <2>4. ASSUME NEW t \in Slots \ {s}, NEW u, ClosesAccount(t, u)' PROVE ClosesAccount(t, u)
      BY <1>1, <1>2, <2>4 DEF ClosesAccount, Pending, Same
    <2> QED
      BY <2>2, <2>3, <2>4, CommitKept
  <1>4. CASE r.patch # NoChange
    <2>1. d \in Live(devices) /\ d \in Devices /\ devices[d] \in DeviceRow
      BY <1>1, <1>4, LiveRow DEF Sound
    <2>2. /\ row.status = "live" /\ row.owner = devices[d].owner
          /\ row.name = IF r.patch.name = Keep THEN devices[d].name ELSE r.patch.name
      BY <2>1, PatchedFields
    <2>3. r.user = devices[d].owner /\ r.user \in Users
      BY <1>1, <2>1, FieldsOf DEF Known, Pending, OwnedBy, Live, Gone
    <2>4. devices' = [devices EXCEPT ![d] = row]
      BY <1>4 DEF CommitUpdate
    <2>5. /\ devices'[d] = row
          /\ \A x \in Devices \ {d} : devices'[x] = devices[x]
          /\ Live(devices') = Live(devices) /\ Live(devices) \subseteq Devices
      BY <1>1, <2>1, <2>2, <2>4 DEF TypeOK, Live
    <2>6. \A x \in Live(devices) : devices'[x].owner = devices[x].owner
      BY <2>2, <2>5
    \* Only a request for the name just given finds it taken now.
    <2>7. ASSUME NEW u, NEW n, NEW x \in Devices, NameTaken(devices', u, n, x),
                 ~NameTaken(devices, u, n, x)
          PROVE  u = r.user /\ n = r.patch.name /\ n # Keep
      BY <2>1, <2>2, <2>3, <2>5, <2>6, <2>7 DEF NameTaken, OwnedBy
    <2>8. ASSUME NEW t \in Slots \ {s} PROVE Known(t)' /\ Sound(t)'
      <3> DEFINE q == request[t]
      <3>1. Known(t) /\ Sound(t) /\ Same(t) /\ Apart(s, t) /\ q \in Request \cup {NoRequest}
        BY <1>2 DEF IInv, Locks, TypeOK
      <3>2. q.op \in {"create", "update", "delete", "ingest", "purge"} => q.device \in Devices
        BY <3>1, Fields
      <3>3. OwnedBy(devices', q.user) = OwnedBy(devices, q.user)
        BY <2>5, <2>6 DEF OwnedBy
      <3>4. /\ devices'[d] # Gone /\ devices'[d] # Never
            /\ devices[d] # Gone /\ devices[d] # Never
        BY <2>1, <2>2, <2>5 DEF Gone, Never, DeviceRow
      <3>5. Known(t)'
        BY <1>1, <2>5, <3>1, <3>2, <3>3, <3>4 DEF Known, Same
      <3>6. r.patch.name # Keep => ~Claims(t, r.user, r.patch.name)
        <4>1. r.patch \in Patch
          BY <1>1, FieldsOf
        <4>2. r.patch.name # Keep => r.patch.name \in Names \cup {None}
          BY <4>1 DEF Patch
        <4> QED
          BY <1>1, <2>3, <3>1, <4>2 DEF Apart, ApartNames, Claims
      <3>7. Pending(t, "create") => ~NameTaken(devices', q.user, q.name, q.device)
        BY <2>7, <3>1, <3>2, <3>6 DEF Sound, Claims, Pending
      <3>8. Pending(t, "update") /\ q.patch # NoChange /\ q.patch.name # Keep
              => ~NameTaken(devices', q.user, q.patch.name, q.device)
        BY <2>7, <3>1, <3>2, <3>6 DEF Sound, Claims, Pending
      <3>9. Pending(t, "update") /\ q.patch # NoChange => q.device # d
        <4>1. Rewrites(s, d)
          BY <1>1, <1>4 DEF Rewrites
        <4>2. ~Rewrites(t, d)
          BY <2>1, <3>1, <4>1 DEF Apart, ApartRows
        <4> QED
          BY <4>2 DEF Rewrites
      <3>10. Pending(t, "update") /\ q.patch # NoChange => devices'[q.device] = devices[q.device]
        BY <2>5, <3>2, <3>9 DEF Pending
      <3>11. Sound(t)'
        BY <1>1, <2>5, <3>1, <3>7, <3>8, <3>10 DEF Sound, Same, Pending, Keys
      <3> QED
        BY <3>5, <3>11
    <2>9. ASSUME NEW t \in Slots \ {s}, NEW x, Dooms(t, x)' PROVE Dooms(t, x)
      BY <1>2, <2>5, <2>6, <2>9 DEF Dooms, Pending, Same
    <2>10. ASSUME NEW t \in Slots \ {s}, NEW u, ClosesAccount(t, u)' PROVE ClosesAccount(t, u)
      BY <1>1, <1>2, <2>10 DEF ClosesAccount, Pending, Same
    <2> QED
      BY <2>8, <2>9, <2>10, CommitKept
  <1> QED
    BY <1>3, <1>4

\* Deleting rows that nobody refers to, rewrites or is about to refer to.
LEMMA DeletionKept ==
    ASSUME IInv, NEW s \in Slots, NEW code, Answer(s, code),
           NEW us, NEW ds,
           accounts' = Without(accounts, us), devices' = Without(devices, ds),
           readings' \subseteq readings,
           ds \subseteq Live(devices), \A u \in us : accounts[u] # Never,
           \A t \in Slots \ {s} :
              /\ \A d \in ds : ~Rewrites(t, d) /\ ~References(t, d)
              /\ Pending(t, "create") => request[t].user \notin us
    PROVE  Locks'
  <1>1. \A t \in Slots \ {s} : Same(t)
    BY AnswerFacts DEF IInv
  <1>2. /\ Live(accounts') = Live(accounts) \ us
        /\ \A u \in Live(accounts') : accounts'[u] = accounts[u]
        /\ Live(devices') = Live(devices) \ ds
        /\ \A d \in Live(devices') : devices'[d] = devices[d]
    BY DEF Live, Without, Gone
  <1>3. DOMAIN accounts = Users /\ DOMAIN devices = Devices
    BY DEF IInv, TypeOK
  <1>4. \A u \in Users : accounts'[u] = Never <=> accounts[u] = Never
    BY <1>3 DEF Without, Gone, Never
  <1>5. \A d \in Devices :
           /\ devices[d] = Never => devices'[d] = Never
           /\ devices[d] = Gone => devices'[d] = Gone
    BY <1>3 DEF Without, Gone, Never, Live
  <1>6. \A d \in Devices : d \in ds => devices'[d] = Gone
    BY <1>3 DEF Without
  <1>7. \A u, n, d : NameTaken(devices', u, n, d) => NameTaken(devices, u, n, d)
    BY <1>2 DEF NameTaken, OwnedBy
  <1>8. \A e : EmailTaken(accounts', e) => EmailTaken(accounts, e)
    BY <1>2 DEF EmailTaken
  <1>9. ASSUME NEW t \in Slots \ {s} PROVE Known(t)' /\ Sound(t)'
    <2> DEFINE q == request[t]
    <2>1. Known(t) /\ Sound(t) /\ Same(t) /\ q \in Request \cup {NoRequest}
      BY <1>1 DEF IInv, Locks, TypeOK
    <2>2. /\ q.op # "none" => q.user \in Users
          /\ q.op \in {"create", "update", "delete", "ingest", "purge"} => q.device \in Devices
      BY <2>1, Fields
    <2>3. \A d \in Devices : d \in OwnedBy(devices, q.user) =>
             devices'[d] = Gone \/ d \in OwnedBy(devices', q.user)
      BY <1>2, <1>6 DEF OwnedBy
    <2>5. Known(t)'
      BY <1>4, <1>5, <2>1, <2>2, <2>3 DEF Known, Same
    <2>6. Pending(t, "create") => q.user \in Live(accounts')
      BY <1>2, <2>1 DEF Sound
    <2>7. Pending(t, "update") /\ q.patch # NoChange
            => q.device \in Live(devices') /\ devices'[q.device] = devices[q.device]
      BY <1>2, <2>1 DEF Sound, Rewrites
    <2>8. q.op = "ingest" /\ touched[t] # {} => q.device \in Live(devices')
      BY <1>2, <2>1 DEF Sound, References
    <2>9. Sound(t)'
      BY <1>7, <1>8, <2>1, <2>6, <2>7, <2>8 DEF Sound, Same, Pending, Keys
    <2> QED
      BY <2>5, <2>9
  <1>10. ASSUME NEW t \in Slots \ {s}, NEW d, Dooms(t, d)' PROVE Dooms(t, d)
    BY <1>1, <1>2, <1>10 DEF Dooms, Pending, Same
  <1>11. ASSUME NEW t \in Slots \ {s}, NEW u, ClosesAccount(t, u)' PROVE ClosesAccount(t, u)
    BY <1>1, <1>2, <1>11 DEF ClosesAccount, Pending, Same
  <1> QED
    BY <1>9, <1>10, <1>11, CommitKept

LEMMA WithoutNothing ==
    ASSUME TypeOK
    PROVE  accounts = Without(accounts, {}) /\ devices = Without(devices, {})
BY DEF TypeOK, Without

LEMMA CommitPurgeKept ==
    ASSUME IInv, NEW s \in Slots, NEW code, CommitPurge(s), Answer(s, code)
    PROVE  Locks'
  <1>1. /\ accounts' = Without(accounts, {}) /\ devices' = Without(devices, {})
        /\ readings' \subseteq readings
    BY WithoutNothing DEF CommitPurge, IInv
  <1> QED
    BY <1>1, DeletionKept

LEMMA CommitDeleteKept ==
    ASSUME IInv, NEW s \in Slots, NEW code, CommitDelete(s), Answer(s, code)
    PROVE  Locks'
  <1> DEFINE doomed == {request[s].device} \cap Live(devices)
  <1>1. /\ accounts' = Without(accounts, {}) /\ devices' = Without(devices, doomed)
        /\ readings' \subseteq readings /\ doomed \subseteq Live(devices)
    BY WithoutNothing DEF CommitDelete, IInv
  <1>2. \A d \in doomed : d \in Devices /\ Dooms(s, d)
    BY LiveRow DEF CommitDelete, Dooms, IInv
  <1>3. ASSUME NEW t \in Slots \ {s}, NEW d \in doomed
        PROVE  ~Rewrites(t, d) /\ ~References(t, d)
    BY <1>2 DEF IInv, Locks, Apart, ApartRows
  <1> HIDE DEF doomed
  <1> QED
    BY <1>1, <1>3, DeletionKept

LEMMA CommitCloseKept ==
    ASSUME IInv, NEW s \in Slots, NEW code, CommitClose(s), Answer(s, code)
    PROVE  Locks'
  <1> DEFINE u == request[s].user
             owned == OwnedBy(devices, u)
  <1>1. /\ accounts' = Without(accounts, {u}) /\ devices' = Without(devices, owned)
        /\ readings' \subseteq readings /\ owned \subseteq Live(devices)
        /\ Pending(s, "close")
    BY DEF CommitClose, OwnedBy
  <1>2. \A d \in owned : d \in Devices /\ Dooms(s, d)
    BY <1>1, LiveRow DEF Dooms, OwnedBy, IInv
  <1>3. ASSUME NEW t \in Slots \ {s}, NEW d \in owned
        PROVE  ~Rewrites(t, d) /\ ~References(t, d)
    BY <1>2 DEF IInv, Locks, Apart, ApartRows
  <1>4. accounts[u] # Never
    BY <1>1 DEF IInv, Locks, Known, Pending
  <1>5. ASSUME NEW t \in Slots \ {s}, Pending(t, "create") PROVE request[t].user # u
    BY <1>1, <1>5 DEF IInv, Locks, Sound, Apart, ApartOwner, ClosesAccount
  <1> HIDE DEF owned
  <1> QED
    BY <1>1, <1>3, <1>4, <1>5, DeletionKept

-----------------------------------------------------------------------------
(* Every commit is one operation of the store, or none.                     *)

\* The store's view of the tables is the data plane's.
LEMMA SameView ==
    /\ \A T : Store!Live(T) = Live(T)
    /\ \A T, K : Store!Without(T, K) = Without(T, K)
    /\ \A T, e : Store!EmailTaken(T, e) = EmailTaken(T, e)
    /\ \A T, u : Store!OwnedBy(T, u) = OwnedBy(T, u)
    /\ \A T, u, n, d : Store!NameTaken(T, u, n, d) = NameTaken(T, u, n, d)
    /\ \A row : Store!Ordered(row) = Ordered(row)
    /\ \A R, D : Store!ReadingsOf(R, D) = ReadingsOf(R, D)
    /\ \A e : Store!Account(e) = Account(e)
    /\ Store!Never = Never /\ Store!Gone = Gone
    /\ Store!DeviceRow = DeviceRow /\ Store!AccountRow = AccountRow
    /\ Store!ReadingKey = ReadingKey /\ Store!Thresholds = Threshold
BY DEF Store!Live, Live, Store!Without, Without, Store!EmailTaken, EmailTaken,
       Store!OwnedBy, OwnedBy, Store!NameTaken, NameTaken, Store!Ordered, Ordered,
       Store!ReadingsOf, ReadingsOf, Store!Account, Account, Store!Never, Never,
       Store!Gone, Gone, Store!DeviceRow, DeviceRow, Store!AccountRow, AccountRow,
       Store!ReadingKey, ReadingKey, Store!Thresholds, Threshold

LEMMA CommitSignupIsSignup ==
    ASSUME IInv, NEW s \in Slots, CommitSignup(s)
    PROVE  Store!Next
  <1> DEFINE u == request[s].user
             e == request[s].email
  <1>1. Known(s) /\ Sound(s) /\ Pending(s, "signup") /\ request[s].op = "signup"
    BY DEF IInv, Locks, CommitSignup, Pending
  <1>2. u \in Users /\ e \in Emails
    BY <1>1, FieldsOf DEF IInv
  <1>3. Store!Signup(u, e)
    BY <1>1, SameView DEF CommitSignup, Known, Sound, Store!Signup
  <1> QED
    BY <1>2, <1>3 DEF Store!Next

LEMMA CommitCloseIsClose ==
    ASSUME IInv, NEW s \in Slots, CommitClose(s)
    PROVE  Store!Next \/ UNCHANGED tables
  <1> DEFINE u == request[s].user
             owned == OwnedBy(devices, u)
  <1>1. /\ accounts' = Without(accounts, {u}) /\ devices' = Without(devices, owned)
        /\ readings' = readings \ ReadingsOf(readings, owned)
        /\ TypeOK /\ Known(s) /\ request[s].op = "close"
    BY DEF CommitClose, IInv, Locks, Pending
  <1>2. u \in Users
    BY <1>1, FieldsOf
  <1>3. CASE u \in Live(accounts)
    <2>1. Store!CloseAccount(u)
      BY <1>1, <1>3, SameView DEF Store!CloseAccount
    <2> QED
      BY <1>2, <2>1 DEF Store!Next
  <1>4. CASE u \notin Live(accounts)
    <2>1. accounts[u] = Gone
      BY <1>1, <1>2, <1>4 DEF TypeOK, Known, Live, AccountRow
    <2>2. accounts' = accounts
      BY <1>1, <2>1 DEF TypeOK, Without
    <2>3. owned = {}
      BY <1>4, SameView DEF IInv, Store!Consistent, Store!Referential, OwnedBy
    <2>4. devices' = devices
      BY <1>1, <2>3, WithoutNothing
    <2>5. readings' = readings
      BY <1>1, <2>3 DEF ReadingsOf
    <2> QED
      BY <2>2, <2>4, <2>5 DEF tables
  <1> QED
    BY <1>3, <1>4

LEMMA CommitCreateIsRegister ==
    ASSUME IInv, NEW s \in Slots, CommitCreate(s)
    PROVE  Store!Next
  <1> DEFINE r == request[s]
             row == NewRow(r)
  <1>1. Known(s) /\ Sound(s) /\ Pending(s, "create") /\ r.op = "create"
    BY DEF IInv, Locks, CommitCreate, Pending
  <1>2. /\ r.user \in Users /\ r.device \in Devices /\ r.name \in Names
        /\ r.min \in Threshold /\ r.max \in Threshold
    BY <1>1, FieldsOf DEF IInv
  <1>3. row \in DeviceRow /\ row.owner = r.user /\ row.name = r.name
    BY <1>2 DEF NewRow, DeviceRow, Threshold
  <1>4. /\ devices[r.device] = Never /\ r.user \in Live(accounts) /\ Ordered(row)
        /\ ~NameTaken(devices, r.user, r.name, r.device)
    BY <1>1 DEF Known, Sound
  <1>5. /\ devices' = [devices EXCEPT ![r.device] = row]
        /\ UNCHANGED <<accounts, readings>>
    BY DEF CommitCreate, NewRow
  <1>6. Store!Register(r.device, row)
    BY <1>3, <1>4, <1>5, SameView DEF Store!Register
  <1> QED
    BY <1>2, <1>3, <1>6, SameView DEF Store!Next

LEMMA CommitUpdateIsRevise ==
    ASSUME IInv, NEW s \in Slots, CommitUpdate(s)
    PROVE  Store!Next \/ UNCHANGED tables
  <1> DEFINE r == request[s]
             d == r.device
             row == Patched(devices[d], r.patch)
  <1>1. /\ TypeOK /\ Known(s) /\ Sound(s) /\ Pending(s, "update") /\ r.op = "update"
        /\ UNCHANGED <<accounts, readings>>
    BY DEF IInv, Locks, CommitUpdate, Pending
  <1>2. CASE r.patch = NoChange
    BY <1>1, <1>2 DEF CommitUpdate, tables
  <1>3. CASE r.patch # NoChange
    <2>1. d \in Live(devices) /\ d \in Devices /\ devices[d] \in DeviceRow
      BY <1>1, <1>3, LiveRow DEF Sound
    <2>2. /\ row.name # None /\ Ordered(row)
          /\ r.patch.name # Keep => ~NameTaken(devices, r.user, r.patch.name, d)
      BY <1>1, <1>3 DEF Sound
    <2>3. /\ row.name = IF r.patch.name = Keep THEN devices[d].name ELSE r.patch.name
          /\ row.min = IF r.patch.min = Keep THEN devices[d].min ELSE r.patch.min
          /\ row.max = IF r.patch.max = Keep THEN devices[d].max ELSE r.patch.max
          /\ row = [devices[d] EXCEPT !.name = row.name, !.min = row.min, !.max = row.max]
      BY <2>1, PatchedFields
    <2>4. r.user = devices[d].owner
      BY <1>1, <2>1 DEF Known, Pending, OwnedBy, Live, Gone
    <2>5. ~NameTaken(devices, devices[d].owner, row.name, d)
      <3>1. CASE r.patch.name # Keep
        BY <2>2, <2>3, <2>4, <3>1
      <3>2. CASE r.patch.name = Keep
        BY <2>1, <2>3, <3>2, SameView
           DEF IInv, Store!Consistent, Store!Unique, NameTaken, OwnedBy
      <3> QED
        BY <3>1, <3>2
    <2>6. devices' = [devices EXCEPT ![d] = row]
      BY <1>3 DEF CommitUpdate
    <2>7. r.patch \in Patch
      BY <1>1, FieldsOf
    <2>8. row.name \in Names \cup {None} /\ row.min \in Threshold /\ row.max \in Threshold
      BY <2>1, <2>3, <2>7 DEF DeviceRow, Patch, Threshold
    <2> HIDE DEF row
    <2>9. Store!Revise(d, row.name, row.min, row.max)
      BY <1>1, <2>1, <2>2, <2>3, <2>5, <2>6, SameView DEF Store!Revise
    <2> QED
      BY <2>1, <2>8, <2>9, SameView DEF Store!Next
  <1> QED
    BY <1>2, <1>3

LEMMA CommitDeleteIsRemove ==
    ASSUME IInv, NEW s \in Slots, CommitDelete(s)
    PROVE  Store!Next \/ UNCHANGED tables
  <1> DEFINE d == request[s].device
             doomed == {d} \cap Live(devices)
  <1>1. /\ devices' = Without(devices, doomed) /\ UNCHANGED accounts
        /\ readings' = readings \ ReadingsOf(readings, doomed)
    BY DEF CommitDelete
  <1>2. CASE d \in Live(devices)
    <2>1. doomed = {d} /\ d \in Devices
      BY <1>2, LiveRow DEF IInv
    <2>2. Store!RemoveDevice(d)
      BY <1>1, <1>2, <2>1, SameView DEF Store!RemoveDevice
    <2> QED
      BY <2>1, <2>2 DEF Store!Next
  <1>3. CASE d \notin Live(devices)
    <2>1. doomed = {}
      BY <1>3
    <2>2. devices' = devices
      BY <1>1, <2>1, WithoutNothing DEF IInv
    <2>3. readings' = readings
      BY <1>1, <2>1 DEF ReadingsOf
    <2> QED
      BY <1>1, <2>2, <2>3 DEF tables
  <1> QED
    BY <1>2, <1>3

LEMMA CommitIngestIsAppend ==
    ASSUME IInv, NEW s \in Slots, CommitIngest(s)
    PROVE  Store!Next
  <1> DEFINE d == request[s].device
             ts == touched[s]
  <1>1. /\ request[s].op = "ingest" /\ ts # {} /\ ts \in SUBSET Times
        /\ d \in Live(devices) /\ Keys(s) \cap readings = {} /\ d \in Devices
    BY LiveRow DEF IInv, Locks, Shape, Sound, CommitIngest, Pending, TypeOK
  <1>2. Store!Append(d, ts)
    BY <1>1, SameView DEF CommitIngest, Keys, Store!Append
  <1> QED
    BY <1>1, <1>2 DEF Store!Next

LEMMA CommitPurgeIsPurge ==
    ASSUME IInv, NEW s \in Slots, CommitPurge(s)
    PROVE  Store!Next
  <1> DEFINE d == request[s].device
             ts == touched[s]
  <1>1. d \in Devices /\ ts \in SUBSET Times
    BY FieldsOf DEF IInv, CommitPurge, Pending, TypeOK
  <1>2. Store!Purge(d, ts)
    BY DEF CommitPurge, Keys, Store!Purge
  <1> QED
    BY <1>1, <1>2 DEF Store!Next

LEMMA CommitStep ==
    ASSUME IInv, NEW s \in Slots, Commit(s)
    PROVE  Locks' /\ (Store!Next \/ UNCHANGED tables)
  <1>1. PICK code \in {"ok", "server_error"} : Answer(s, code)
    BY DEF Commit
  <1>2. CASE CommitSignup(s)
    BY <1>1, <1>2, CommitSignupKept, CommitSignupIsSignup
  <1>3. CASE CommitClose(s)
    BY <1>1, <1>3, CommitCloseKept, CommitCloseIsClose
  <1>4. CASE CommitCreate(s)
    BY <1>1, <1>4, CommitCreateKept, CommitCreateIsRegister
  <1>5. CASE CommitUpdate(s)
    BY <1>1, <1>5, CommitUpdateKept, CommitUpdateIsRevise
  <1>6. CASE CommitDelete(s)
    BY <1>1, <1>6, CommitDeleteKept, CommitDeleteIsRemove
  <1>7. CASE CommitIngest(s)
    BY <1>1, <1>7, CommitIngestKept, CommitIngestIsAppend
  <1>8. CASE CommitPurge(s)
    BY <1>1, <1>8, CommitPurgeKept, CommitPurgeIsPurge
  <1> QED
    BY <1>2, <1>3, <1>4, <1>5, <1>6, <1>7, <1>8 DEF Commit

LEMMA WriteStep ==
    ASSUME IInv, NEW s \in Slots, Write(s)
    PROVE  Locks' /\ UNCHANGED tables
  <1>1. CASE FlushSignup(s)
    BY <1>1, FlushSignupKept DEF FlushSignup, Written, Refused
  <1>2. CASE FlushCreate(s)
    BY <1>2, FlushCreateKept DEF FlushCreate, Written, Refused
  <1>3. CASE FlushUpdate(s)
    BY <1>3, FlushUpdateKept DEF FlushUpdate, Written, Refused
  <1>4. CASE FlushDelete(s)
    BY <1>4, FlushDeleteKept DEF FlushDelete, Written
  <1>5. CASE InsertRow(s)
    BY <1>5, InsertRowKept DEF InsertRow, Refused
  <1>6. CASE IngestNothing(s)
    BY <1>6, RefusedKept DEF IngestNothing, Refused
  <1>7. CASE ExecPurge(s)
    BY <1>7, ExecPurgeKept DEF ExecPurge, Refused
  <1> QED
    BY <1>1, <1>2, <1>3, <1>4, <1>5, <1>6, <1>7 DEF Write

LEMMA NextStep ==
    ASSUME IInv, [Next]_vars
    PROVE  Locks' /\ (Store!Next \/ UNCHANGED tables)
  <1>1. ASSUME NEW s \in Slots, NEW r \in Requests, Accept(s, r)
        PROVE  Locks' /\ UNCHANGED tables
    BY <1>1, AcceptKept DEF Accept
  <1>2. ASSUME NEW s \in Slots, Authenticate(s) PROVE Locks' /\ UNCHANGED tables
    BY <1>2, AuthenticateKept DEF Authenticate
  <1>3. ASSUME NEW s \in Slots, LoadDevice(s) PROVE Locks' /\ UNCHANGED tables
    BY <1>3, LoadDeviceKept DEF LoadDevice
  <1>4. ASSUME NEW s \in Slots, Write(s) PROVE Locks' /\ UNCHANGED tables
    BY <1>4, WriteStep
  <1>5. ASSUME NEW s \in Slots, Commit(s)
        PROVE  Locks' /\ (Store!Next \/ UNCHANGED tables)
    BY <1>5, CommitStep
  <1>6. ASSUME NEW s \in Slots,
               \/ RejectToken(s) \/ RejectPassword(s) \/ DeviceNotFound(s)
               \/ LoseConnection(s) \/ BreakDeadlock(s)
        PROVE  Locks' /\ UNCHANGED tables
    <2>1. PICK code : Refused(s, code)
      BY <1>6 DEF RejectToken, RejectPassword, DeviceNotFound, LoseConnection, BreakDeadlock
    <2> QED
      BY <2>1, RefusedKept DEF Refused
  <1>7. CASE UNCHANGED vars
    <2>1. UNCHANGED tables
      BY <1>7 DEF vars
    <2>2. \A s \in Slots : Same(s)
      BY <1>7 DEF vars, Same
    <2>3. ASSUME NEW s \in Slots PROVE Shape(s)' /\ Known(s)' /\ Sound(s)'
      <3>1. Shape(s) /\ Known(s) /\ Sound(s)
        BY DEF IInv, Locks
      <3> QED
        BY <1>7, <3>1 DEF vars, tables, Shape, Known, Sound, Pending, Keys
    <2>4. ASSUME NEW s \in Slots, NEW t \in Slots, s # t PROVE Apart(s, t)'
      <3>1. Apart(s, t)
        BY <2>4 DEF IInv, Locks
      <3> QED
        BY <1>7, <3>1 DEF vars, tables, Apart, ApartIds, ApartEmails, ApartNames, ApartOwner,
                          ApartRows, Pending, Claims, ClosesAccount, Rewrites, Dooms, References
    <2> QED
      BY <2>1, <2>3, <2>4 DEF Locks
  <1> QED
    BY <1>1, <1>2, <1>3, <1>4, <1>5, <1>6, <1>7 DEF Next, Step

-----------------------------------------------------------------------------
(* The store: its TypeOK and Consistent are inductive as they stand, since  *)
(* every operation is atomic and guarded by the constraints.                *)

(* Every operation keeps the tables well typed.                             *)
LEMMA StoreTyped ==
    ASSUME Store!TypeOK, [Store!Next]_Store!vars
    PROVE  (Store!TypeOK)'
<1> USE DataAssumption DEF Store!TypeOK, Store!AccountRow, Store!DeviceRow, Store!Never,
                           Store!Gone, Store!Account, Store!Live
<1>1. ASSUME NEW u \in Users, NEW e \in Emails, Store!Signup(u, e) PROVE Store!TypeOK'
  BY <1>1 DEF Store!Signup
<1>2. ASSUME NEW u \in Users, Store!CloseAccount(u) PROVE Store!TypeOK'
  BY <1>2 DEF Store!CloseAccount, Store!Without, Store!ReadingsOf
<1>3. ASSUME NEW d \in Devices, NEW row \in Store!DeviceRow, Store!Register(d, row) PROVE Store!TypeOK'
  BY <1>3 DEF Store!Register
<1>4. ASSUME NEW d \in Devices, NEW n \in Names \cup {None},
             NEW lo \in Store!Thresholds, NEW hi \in Store!Thresholds, Store!Revise(d, n, lo, hi)
      PROVE  (Store!TypeOK)'
  <2> DEFINE row == [devices[d] EXCEPT !.name = n, !.min = lo, !.max = hi]
  <2>1. d \in Store!Live(devices) /\ n \in Names
    BY <1>4 DEF Store!Revise
  <2>2. devices[d] \in Store!DeviceRow
    BY <2>1
  <2>3. row \in Store!DeviceRow
    BY <2>1, <2>2 DEF Store!Thresholds
  <2>4. devices' = [devices EXCEPT ![d] = row] /\ UNCHANGED <<accounts, readings>>
    BY <1>4 DEF Store!Revise
  <2> QED
    BY <2>3, <2>4
<1>5. ASSUME NEW d \in Devices, Store!RemoveDevice(d) PROVE Store!TypeOK'
  BY <1>5 DEF Store!RemoveDevice, Store!Without, Store!ReadingsOf
<1>6. ASSUME NEW d \in Devices, NEW ts \in SUBSET Times, Store!Append(d, ts) PROVE Store!TypeOK'
  BY <1>6 DEF Store!Append, Store!ReadingKey
<1>7. ASSUME NEW d \in Devices, NEW ts \in SUBSET Times, Store!Purge(d, ts) PROVE Store!TypeOK'
  BY <1>7 DEF Store!Purge
<1>8. CASE UNCHANGED Store!vars
  BY <1>8 DEF Store!vars
<1> QED
  BY <1>1, <1>2, <1>3, <1>4, <1>5, <1>6, <1>7, <1>8 DEF Store!Next

(* Deleting rows deletes no other.                                          *)
LEMMA LiveWithout ==
    ASSUME NEW table, NEW keys
    PROVE  /\ Store!Live(Store!Without(table, keys)) = Store!Live(table) \ keys
           /\ \A k \in Store!Live(table) \ keys : Store!Without(table, keys)[k] = table[k]
BY DEF Store!Live, Store!Without, Store!Gone

(* Storing a row makes it live and touches no other.                        *)
LEMMA LiveExcept ==
    ASSUME NEW table, table = [k \in DOMAIN table |-> table[k]],
           NEW key \in DOMAIN table, NEW row, row.status = "live"
    PROVE  /\ Store!Live([table EXCEPT ![key] = row]) = Store!Live(table) \cup {key}
           /\ [table EXCEPT ![key] = row][key] = row
           /\ \A k \in DOMAIN table \ {key} : [table EXCEPT ![key] = row][k] = table[k]
BY DEF Store!Live

LEMMA StoreKept ==
    ASSUME Store!TypeOK, Store!Consistent, [Store!Next]_Store!vars
    PROVE  Store!Consistent'
<1> USE DEF Store!Consistent
<1>1. ASSUME NEW u \in Users, NEW e \in Emails, Store!Signup(u, e) PROVE Store!Consistent'
  <2>1. accounts' = [accounts EXCEPT ![u] = Store!Account(e)] /\ UNCHANGED <<devices, readings>>
    BY <1>1 DEF Store!Signup
  <2>2. /\ accounts = [k \in DOMAIN accounts |-> accounts[k]]
        /\ u \in DOMAIN accounts /\ Store!Account(e).status = "live"
    BY DEF Store!TypeOK, Store!Account
  <2>3. /\ Store!Live(accounts') = Store!Live(accounts) \cup {u}
        /\ accounts'[u] = Store!Account(e)
        /\ \A v \in Store!Live(accounts) \ {u} : accounts'[v] = accounts[v]
    BY ONLY <2>1, <2>2, LiveExcept DEF Store!Live
  <2>4. Store!Referential'
    BY <2>1, <2>3 DEF Store!Referential
  <2>5. u \notin Store!Live(accounts) /\ \A v \in Store!Live(accounts) : accounts[v].email # e
    BY <1>1 DEF Store!Signup, Store!EmailTaken, Store!Live, Store!Never
  <2>6. ASSUME NEW v \in Store!Live(accounts'), NEW w \in Store!Live(accounts'),
               accounts'[v].email = accounts'[w].email
        PROVE  v = w
    <3>1. accounts'[u].email = e
      BY <2>3 DEF Store!Account
    <3>2. CASE v # u /\ w # u
      BY <3>2, <2>3, <2>6 DEF Store!Unique
    <3>3. CASE v = u \/ w = u
      BY <3>1, <3>3, <2>3, <2>5, <2>6
    <3> QED
      BY <3>2, <3>3
  <2>7. UNCHANGED devices
    BY <2>1
  <2>8. Store!Unique'
    BY <2>6, <2>7 DEF Store!Unique
  <2> QED
    BY <2>7, <2>4, <2>8 DEF Store!Banded
<1>2. ASSUME NEW u \in Users, Store!CloseAccount(u) PROVE Store!Consistent'
  <2> DEFINE owned == Store!OwnedBy(devices, u)
  <2>1. /\ accounts' = Store!Without(accounts, {u}) /\ devices' = Store!Without(devices, owned)
        /\ readings' = readings \ Store!ReadingsOf(readings, owned)
    BY <1>2 DEF Store!CloseAccount
  <2>2. /\ Store!Live(accounts') = Store!Live(accounts) \ {u}
        /\ \A v \in Store!Live(accounts') : accounts'[v] = accounts[v]
    BY <2>1, LiveWithout
  <2>3. /\ Store!Live(devices') = Store!Live(devices) \ owned
        /\ \A d \in Store!Live(devices') : devices'[d] = devices[d]
    BY <2>1, LiveWithout
  <2>4. Store!Referential'
    <3>1. ASSUME NEW d \in Store!Live(devices') PROVE devices'[d].owner \in Store!Live(accounts')
      BY <3>1, <2>2, <2>3 DEF Store!Referential, Store!OwnedBy
    <3>2. ASSUME NEW r \in readings' PROVE r[1] \in Store!Live(devices')
      BY <3>2, <2>1, <2>3 DEF Store!Referential, Store!ReadingsOf
    <3> QED
      BY <3>1, <3>2 DEF Store!Referential
  <2>5. Store!Unique' /\ Store!Banded'
    BY <2>2, <2>3 DEF Store!Unique, Store!Banded
  <2> QED
    BY <2>4, <2>5
<1>3. ASSUME NEW d \in Devices, NEW row \in Store!DeviceRow, Store!Register(d, row) PROVE Store!Consistent'
  <2>1. devices' = [devices EXCEPT ![d] = row] /\ UNCHANGED <<accounts, readings>>
    BY <1>3 DEF Store!Register
  <2>2. /\ devices = [k \in DOMAIN devices |-> devices[k]]
        /\ d \in DOMAIN devices /\ row.status = "live"
    BY DEF Store!TypeOK, Store!DeviceRow
  <2>3. /\ Store!Live(devices') = Store!Live(devices) \cup {d}
        /\ devices'[d] = row
        /\ \A c \in Store!Live(devices) \ {d} : devices'[c] = devices[c]
    BY ONLY <2>1, <2>2, LiveExcept DEF Store!Live
  <2>4. Store!Referential'
    BY <1>3, <2>1, <2>3 DEF Store!Referential, Store!Register
  <2>5. \A c \in Store!Live(devices) \ {d} : ~(devices[c].owner = row.owner /\ devices[c].name = row.name)
    BY <1>3 DEF Store!Register, Store!NameTaken, Store!OwnedBy
  <2>6. ASSUME NEW a \in Store!Live(devices'), NEW b \in Store!Live(devices'),
               devices'[a].owner = devices'[b].owner, devices'[a].name = devices'[b].name
        PROVE  a = b
    <3>1. CASE a # d /\ b # d
      BY <3>1, <2>3, <2>6 DEF Store!Unique
    <3>2. CASE a = d \/ b = d
      BY <3>2, <2>3, <2>5, <2>6
    <3> QED
      BY <3>1, <3>2
  <2>7. UNCHANGED accounts
    BY <2>1
  <2>8. Store!Unique'
    BY <2>6, <2>7 DEF Store!Unique
  <2>9. Store!Banded'
    BY <1>3, <2>3 DEF Store!Banded, Store!Register
  <2> QED
    BY <2>4, <2>8, <2>9
<1>4. ASSUME NEW d \in Devices, NEW n \in Names \cup {None},
             NEW lo \in Store!Thresholds, NEW hi \in Store!Thresholds, Store!Revise(d, n, lo, hi)
      PROVE  Store!Consistent'
  <2> DEFINE row == [devices[d] EXCEPT !.name = n, !.min = lo, !.max = hi]
  <2>1. /\ d \in Store!Live(devices) /\ Store!Ordered(row)
        /\ ~Store!NameTaken(devices, devices[d].owner, n, d)
        /\ devices' = [devices EXCEPT ![d] = row] /\ UNCHANGED <<accounts, readings>>
    BY <1>4 DEF Store!Revise
  <2>2. devices[d] \in Store!DeviceRow
    BY <2>1 DEF Store!TypeOK, Store!Live, Store!Never, Store!Gone
  <2>3. row.status = "live" /\ row.owner = devices[d].owner /\ row.name = n
    BY <2>2 DEF Store!DeviceRow
  <2>4. devices = [k \in DOMAIN devices |-> devices[k]] /\ d \in DOMAIN devices
    BY DEF Store!TypeOK
  <2> HIDE DEF row
  <2>5. /\ Store!Live(devices') = Store!Live(devices) \cup {d}
        /\ devices'[d] = row
        /\ \A c \in Store!Live(devices) \ {d} : devices'[c] = devices[c]
    BY ONLY <2>1, <2>3, <2>4, LiveExcept DEF Store!Live
  <2>6. Store!Referential'
    BY <2>1, <2>3, <2>5 DEF Store!Referential
  <2>7. \A c \in Store!Live(devices) \ {d} : ~(devices[c].owner = row.owner /\ devices[c].name = row.name)
    BY <2>1, <2>3 DEF Store!NameTaken, Store!OwnedBy
  <2>8. ASSUME NEW a \in Store!Live(devices'), NEW b \in Store!Live(devices'),
               devices'[a].owner = devices'[b].owner, devices'[a].name = devices'[b].name
        PROVE  a = b
    <3>1. CASE a # d /\ b # d
      BY <3>1, <2>5, <2>8 DEF Store!Unique
    <3>2. CASE a = d \/ b = d
      BY <3>2, <2>5, <2>7, <2>8
    <3> QED
      BY <3>1, <3>2
  <2>9. UNCHANGED accounts
    BY <2>1
  <2>10. Store!Unique'
    BY <2>8, <2>9 DEF Store!Unique
  <2>11. Store!Banded'
    BY <2>1, <2>5 DEF Store!Banded
  <2> QED
    BY <2>6, <2>10, <2>11
<1>5. ASSUME NEW d \in Devices, Store!RemoveDevice(d) PROVE Store!Consistent'
  <2>1. /\ devices' = Store!Without(devices, {d}) /\ UNCHANGED accounts
        /\ readings' = readings \ Store!ReadingsOf(readings, {d})
    BY <1>5 DEF Store!RemoveDevice
  <2>2. /\ Store!Live(devices') = Store!Live(devices) \ {d}
        /\ \A c \in Store!Live(devices') : devices'[c] = devices[c]
    BY <2>1, LiveWithout
  <2>3. Store!Referential'
    BY <2>1, <2>2 DEF Store!Referential, Store!ReadingsOf
  <2>4. UNCHANGED accounts
    BY <2>1
  <2>5. Store!Unique' /\ Store!Banded'
    BY <2>2, <2>4 DEF Store!Unique, Store!Banded
  <2> QED
    BY <2>3, <2>5
<1>6. ASSUME NEW d \in Devices, NEW ts \in SUBSET Times, Store!Append(d, ts) PROVE Store!Consistent'
  <2>1. /\ d \in Store!Live(devices) /\ UNCHANGED <<accounts, devices>>
        /\ readings' = readings \cup ({d} \X ts)
    BY <1>6 DEF Store!Append
  <2> QED
    BY <2>1 DEF Store!Referential, Store!Unique, Store!Banded
<1>7. ASSUME NEW d \in Devices, NEW ts \in SUBSET Times, Store!Purge(d, ts) PROVE Store!Consistent'
  <2>1. UNCHANGED <<accounts, devices>> /\ readings' \subseteq readings
    BY <1>7 DEF Store!Purge
  <2> QED
    BY <2>1 DEF Store!Referential, Store!Unique, Store!Banded
<1>8. CASE UNCHANGED Store!vars
  BY <1>8 DEF Store!vars, Store!Referential, Store!Unique, Store!Banded
<1> QED
  BY <1>1, <1>2, <1>3, <1>4, <1>5, <1>6, <1>7, <1>8 DEF Store!Next

LEMMA StoreInvariance == Store!Spec => [](Store!TypeOK /\ Store!Consistent)
<1>1. Store!Init => Store!TypeOK /\ Store!Consistent
  BY DEF Store!Init, Store!TypeOK, Store!Consistent, Store!Referential, Store!Unique,
         Store!Banded, Store!Live, Store!Never
<1>2. Store!TypeOK /\ Store!Consistent /\ [Store!Next]_Store!vars => (Store!TypeOK /\ Store!Consistent)'
  BY StoreTyped, StoreKept
<1> QED
  BY <1>1, <1>2, PTL DEF Store!Spec

(* The rows of the tables are well typed, NOT NULL columns included.        *)
THEOREM StoreTypeCorrect == Store!Spec => []Store!TypeOK
BY StoreInvariance, PTL

(* Whatever requests are served, no orphan row is left, no address or name  *)
(* is held twice and no alert band is inverted.                             *)
THEOREM StoreConsistent == Store!Spec => []Store!Consistent
BY StoreInvariance, PTL

-----------------------------------------------------------------------------
(* And so are the tables of the data plane.                                 *)

LEMMA TablesStep ==
    ASSUME IInv, [Next]_vars
    PROVE  /\ [Store!Next]_Store!vars
           /\ Store!TypeOK' /\ Store!Consistent'
  <1>1. [Store!Next]_Store!vars
    BY NextStep DEF tables, Store!vars
  <1>2. Store!TypeOK /\ Store!Consistent
    BY SameView DEF IInv, TypeOK, Store!TypeOK
  <1> QED
    BY <1>1, <1>2, StoreTyped, StoreKept

\* The types of what the slots keep.
SlotsOK ==
    /\ pc \in [Slots -> {"idle", "auth", "own", "write", "commit"}]
    /\ request \in [Slots -> Request \cup {NoRequest}]
    /\ touched \in [Slots -> SUBSET Times]
    /\ answer \in [Slots -> Answers]

LEMMA AnswerTyped ==
    ASSUME SlotsOK, NEW s \in Slots, NEW code \in Answers, Answer(s, code)
    PROVE  SlotsOK'
BY DEF SlotsOK, Answer, Goto

LEMMA WrittenTyped ==
    ASSUME SlotsOK, NEW s \in Slots, Written(s)
    PROVE  SlotsOK'
BY DEF SlotsOK, Written, Goto

LEMMA AcceptTyped ==
    ASSUME SlotsOK, NEW s \in Slots, NEW r \in Requests, Accept(s, r)
    PROVE  SlotsOK'
  <1>1. r \in Request
    BY DataPlaneAssumption
  <1> QED
    BY <1>1 DEF SlotsOK, Accept, Goto, Answers

LEMMA LoadDeviceTyped ==
    ASSUME IInv, SlotsOK, NEW s \in Slots, LoadDevice(s)
    PROVE  SlotsOK'
  <1> DEFINE r == request[s]
             row == devices[r.device]
             patch == Changed(row, r.patch)
  <1>1. /\ Goto(s, "write") /\ UNCHANGED touched /\ UNCHANGED answer
        /\ request' = IF r.op # "update" THEN request ELSE [request EXCEPT ![s].patch = patch]
    BY DEF LoadDevice
  <1>2. r.op = "update" =>
          r \in [op : {"update"}, user : Users, device : Devices, patch : Patch]
    BY DEF SlotsOK, Request, NoRequest
  <1>3. r.op = "update" => patch \in Patch
    BY <1>2 DEF Changed, Patch
  <1>4. r.op = "update" => [r EXCEPT !.patch = patch] \in Request
    BY <1>2, <1>3 DEF Request
  <1>5. request' \in [Slots -> Request \cup {NoRequest}]
    BY <1>1, <1>4 DEF SlotsOK
  <1> QED
    BY <1>1, <1>5 DEF SlotsOK, Goto

LEMMA InsertRowTyped ==
    ASSUME SlotsOK, NEW s \in Slots, InsertRow(s)
    PROVE  SlotsOK'
  <1> DEFINE r == request[s]
  <1>1. CASE Refused(s, "duplicate_reading")
    BY <1>1, AnswerTyped DEF Refused, Answers
  <1>2. CASE ~Refused(s, "duplicate_reading")
    <2>1. /\ r.op = "ingest" /\ r.rows # <<>>
          /\ touched' = [touched EXCEPT ![s] = @ \cup {Head(r.rows)}]
          /\ request' = [request EXCEPT ![s].rows = Tail(@)]
          /\ Goto(s, IF Tail(r.rows) = <<>> THEN "commit" ELSE "write")
          /\ UNCHANGED answer
      BY <1>2 DEF InsertRow, Runs
    <2>2. r \in [op : {"ingest"}, user : Users, device : Devices, rows : Seq(Times)]
      BY <2>1 DEF SlotsOK, Request, NoRequest
    <2>3. Head(r.rows) \in Times /\ Tail(r.rows) \in Seq(Times)
      BY <2>1, <2>2
    <2>4. [r EXCEPT !.rows = Tail(@)] \in Request
      BY <2>2, <2>3 DEF Request
    <2>5. request' \in [Slots -> Request \cup {NoRequest}]
      BY <2>1, <2>4 DEF SlotsOK
    <2>6. touched' \in [Slots -> SUBSET Times]
      BY <2>1, <2>3 DEF SlotsOK
    <2>7. pc' \in [Slots -> {"idle", "auth", "own", "write", "commit"}]
      BY <2>1 DEF SlotsOK, Goto
    <2> QED
      BY <2>1, <2>5, <2>6, <2>7 DEF SlotsOK
  <1> QED
    BY <1>1, <1>2

LEMMA ExecPurgeTyped ==
    ASSUME SlotsOK, NEW s \in Slots, ExecPurge(s)
    PROVE  SlotsOK'
  <1>1. CASE Refused(s, "ok")
    BY <1>1, AnswerTyped DEF Refused, Answers
  <1>2. CASE ~Refused(s, "ok")
    <2>1. /\ request[s].op = "purge" /\ touched' = [touched EXCEPT ![s] = Window(s)]
          /\ Goto(s, "commit") /\ UNCHANGED request /\ UNCHANGED answer
      BY <1>2 DEF ExecPurge, Runs
    <2>2. request[s] \in Request \cup {NoRequest}
      BY DEF SlotsOK
    <2>3. Window(s) \in SUBSET Times
      BY <2>1, <2>2, Fields DEF Window
    <2> QED
      BY <2>1, <2>3 DEF SlotsOK, Goto
  <1> QED
    BY <1>1, <1>2

LEMMA SlotsStep ==
    ASSUME IInv, [Next]_vars
    PROVE  SlotsOK'
  <1>0. SlotsOK
    BY DEF IInv, TypeOK, SlotsOK
  <1>1. ASSUME NEW s \in Slots, NEW r \in Requests, Accept(s, r) PROVE SlotsOK'
    BY <1>0, <1>1, AcceptTyped
  <1>2. ASSUME NEW s \in Slots, Authenticate(s) PROVE SlotsOK'
    BY <1>0, <1>2 DEF SlotsOK, Authenticate, Goto
  <1>3. ASSUME NEW s \in Slots, LoadDevice(s) PROVE SlotsOK'
    BY <1>0, <1>3, LoadDeviceTyped
  <1>4. ASSUME NEW s \in Slots,
               \/ RejectToken(s) \/ RejectPassword(s) \/ DeviceNotFound(s)
               \/ LoseConnection(s) \/ BreakDeadlock(s) \/ Commit(s) \/ IngestNothing(s)
        PROVE  SlotsOK'
    <2>1. PICK code \in Answers : Answer(s, code)
      BY <1>4 DEF RejectToken, RejectPassword, DeviceNotFound, LoseConnection,
                  BreakDeadlock, Commit, IngestNothing, Refused, Answers
    <2> QED
      BY <1>0, <2>1, AnswerTyped
  <1>5. ASSUME NEW s \in Slots, FlushSignup(s) \/ FlushCreate(s) \/ FlushUpdate(s) \/ FlushDelete(s)
        PROVE  SlotsOK'
    <2>1. Written(s) \/ \E code \in Answers : Answer(s, code)
      BY <1>5 DEF FlushSignup, FlushCreate, FlushUpdate, FlushDelete, Refused, Answers
    <2> QED
      BY <1>0, <2>1, AnswerTyped, WrittenTyped
  <1>6. ASSUME NEW s \in Slots, InsertRow(s) \/ ExecPurge(s) PROVE SlotsOK'
    BY <1>0, <1>6, InsertRowTyped, ExecPurgeTyped
  <1>7. CASE UNCHANGED vars
    BY <1>0, <1>7 DEF SlotsOK, vars
  <1> QED
    BY <1>1, <1>2, <1>3, <1>4, <1>5, <1>6, <1>7 DEF Next, Step, Write

LEMMA Invariance == Spec => []IInv
  <1>1. IInv /\ [Next]_vars => IInv'
    <2> SUFFICES ASSUME IInv, [Next]_vars PROVE IInv'
      OBVIOUS
    <2>1. Locks' /\ SlotsOK' /\ Store!TypeOK' /\ Store!Consistent'
      BY NextStep, SlotsStep, TablesStep
    <2>2. TypeOK'
      BY <2>1, SameView DEF TypeOK, SlotsOK, Store!TypeOK
    <2> QED
      BY <2>1, <2>2 DEF IInv
  <1> QED
    BY <1>1, InitIInv, PTL DEF Spec

(* Requests, tables and locks keep their types; in particular no concurrent *)
(* PATCH stores a row that breaks a column constraint.                      *)
THEOREM TypeCorrect == Spec => []TypeOK
  <1>1. IInv => TypeOK
    BY DEF IInv
  <1> QED
    BY <1>1, Invariance, PTL

(* However many requests run at once, their statements interleaved at will, *)
(* the tables move as the atomic store moves.                               *)
THEOREM Refinement == Spec => RefinesStore
  <1>1. Init => Store!Init
    BY SameView DEF Init, Store!Init
  <1>2. IInv /\ [Next]_vars => [Store!Next]_Store!vars
    BY TablesStep
  <1> QED
    BY <1>1, <1>2, Invariance, PTL DEF Spec, RefinesStore, Store!Spec

(* Hence they stay consistent: no orphan, no duplicate, no inverted band.   *)
THEOREM TablesConsistent == Spec => []Consistent
  <1>1. IInv => Consistent
    BY DEF IInv, Consistent
  <1> QED
    BY <1>1, Invariance, PTL

-----------------------------------------------------------------------------
(* Whose rows a step writes, and what a success means.                      *)

\* Only a commit changes the tables, and it answers its request.
LEMMA OnlyCommits ==
    ASSUME IInv, [Next]_vars, ~UNCHANGED <<devices, readings>>
    PROVE  \E s \in Slots : Commit(s) /\ Wrote(s)
  <1>1. PICK s \in Slots : Commit(s)
    <2>1. ~UNCHANGED tables /\ ~UNCHANGED vars
      BY DEF tables, vars
    <2>2. \A s \in Slots :
             /\ Write(s) => UNCHANGED tables
             /\ LoadDevice(s) \/ Authenticate(s) => UNCHANGED tables
             /\ \A r \in Requests : Accept(s, r) => UNCHANGED tables
      BY WriteStep DEF LoadDevice, Authenticate, Accept
    <2>3. \A s \in Slots :
             RejectToken(s) \/ RejectPassword(s) \/ DeviceNotFound(s)
               \/ LoseConnection(s) \/ BreakDeadlock(s) => UNCHANGED tables
      BY DEF RejectToken, RejectPassword, DeviceNotFound, LoseConnection, BreakDeadlock, Refused
    <2> QED
      BY <2>1, <2>2, <2>3 DEF Next, Step
  <1>2. pc[s] = "commit"
    BY <1>1 DEF Commit, CommitSignup, CommitClose, CommitCreate, CommitUpdate,
                CommitDelete, CommitIngest, CommitPurge, Pending
  <1>3. pc'[s] = "idle"
    BY <1>1, AnswerFacts DEF Commit, IInv
  <1> QED
    BY <1>1, <1>2, <1>3 DEF Wrote, Answered

LEMMA OwnerWrites ==
    ASSUME IInv, NEW s \in Slots, Commit(s), NEW d \in Devices,
           \/ devices'[d] # devices[d]
           \/ ReadingsOf(readings', {d}) # ReadingsOf(readings, {d})
    PROVE  /\ request[s].user \in Live(accounts)
           /\ d \in Live(devices) => devices[d].owner = request[s].user
  <1> DEFINE r == request[s]
  <1>1. TypeOK /\ Known(s) /\ Sound(s)
    BY DEF IInv, Locks
  <1>2. /\ \A x \in Live(devices) : devices[x].owner \in Live(accounts)
        /\ \A x \in readings : x[1] \in Live(devices)
    BY SameView DEF IInv, Store!Consistent, Store!Referential
  <1>3. CASE CommitSignup(s)
    BY <1>3 DEF CommitSignup
  <1>4. CASE CommitClose(s)
    <2>1. d \in OwnedBy(devices, r.user)
      BY <1>1, <1>2, <1>4 DEF CommitClose, Without, ReadingsOf, TypeOK
    <2> QED
      BY <1>2, <2>1 DEF OwnedBy
  <1>5. CASE CommitCreate(s)
    <2>1. r.device \in Devices /\ d = r.device
      BY <1>1, <1>5, FieldsOf DEF CommitCreate, Pending, TypeOK
    <2> QED
      BY <1>1, <1>5, <2>1 DEF CommitCreate, Known, Sound, Pending, Live, Never
  <1>6. CASE CommitUpdate(s)
    <2>1. d = r.device /\ r.patch # NoChange
      BY <1>1, <1>6, FieldsOf DEF CommitUpdate, Pending, TypeOK
    <2>2. d \in OwnedBy(devices, r.user)
      BY <1>1, <1>6, <2>1 DEF CommitUpdate, Known, Sound, Pending, Live, Gone
    <2> QED
      BY <1>2, <2>2 DEF OwnedBy
  <1>7. CASE CommitDelete(s)
    <2>1. d = r.device /\ d \in Live(devices)
      BY <1>1, <1>7 DEF CommitDelete, Without, ReadingsOf, TypeOK
    <2>2. d \in OwnedBy(devices, r.user)
      BY <1>1, <1>7, <2>1 DEF CommitDelete, Known, Pending, Live, Gone
    <2> QED
      BY <1>2, <2>2 DEF OwnedBy
  <1>8. CASE CommitIngest(s) \/ CommitPurge(s)
    <2>1. /\ r.op \in {"ingest", "purge"} /\ pc[s] = "commit"
          /\ UNCHANGED devices /\ readings' \in {readings \cup Keys(s), readings \ Keys(s)}
      BY <1>8 DEF CommitIngest, CommitPurge, Pending
    <2>2. d = r.device
      BY <2>1 DEF Keys, ReadingsOf
    <2>3. d \in Live(devices)
      <3>1. CASE CommitIngest(s)
        BY <1>1, <2>1, <2>2, <3>1 DEF CommitIngest, IInv, Locks, Shape, Sound, Pending
      <3>2. CASE CommitPurge(s)
        <4>1. readings' = readings \ Keys(s) /\ UNCHANGED devices
          BY <3>2 DEF CommitPurge
        <4>2. \E x \in readings : x[1] = d
          BY <2>1, <4>1 DEF ReadingsOf
        <4> QED
          BY <1>2, <4>2
      <3> QED
        BY <1>8, <3>1, <3>2
    <2>4. d \in OwnedBy(devices, r.user)
      BY <1>1, <2>1, <2>2, <2>3 DEF Known, Live, Gone
    <2> QED
      BY <1>2, <2>4 DEF OwnedBy
  <1> QED
    BY <1>3, <1>4, <1>5, <1>6, <1>7, <1>8 DEF Commit

(* A device and its readings are written for their owner only, while the    *)
(* account exists.                                                          *)
THEOREM WrittenByOwner == Spec => WritesByOwner
  <1> DEFINE A == \A d \in Devices :
                     \/ devices'[d] # devices[d]
                     \/ ReadingsOf(readings', {d}) # ReadingsOf(readings, {d})
                     => \E s \in Slots :
                           /\ Wrote(s)
                           /\ request[s].user \in Live(accounts)
                           /\ d \in Live(devices) => devices[d].owner = request[s].user
  <1>1. IInv /\ [Next]_vars => A
    <2> SUFFICES ASSUME IInv, [Next]_vars, NEW d \in Devices,
                        \/ devices'[d] # devices[d]
                        \/ ReadingsOf(readings', {d}) # ReadingsOf(readings, {d})
                 PROVE  \E s \in Slots :
                           /\ Wrote(s)
                           /\ request[s].user \in Live(accounts)
                           /\ d \in Live(devices) => devices[d].owner = request[s].user
      OBVIOUS
    <2>1. ~UNCHANGED <<devices, readings>>
      OBVIOUS
    <2>2. PICK s \in Slots : Commit(s) /\ Wrote(s)
      BY <2>1, OnlyCommits
    <2> QED
      BY <2>2, OwnerWrites
  <1> QED
    BY <1>1, Invariance, PTL DEF Spec, WritesByOwner

\* What the answer "ok" to the request r of slot s, after its commit, promises.
Stored(s) ==
    LET r == request[s] IN
    /\ r.op = "signup" => r.user \in Live(accounts')
    /\ r.op = "create" => r.device \in OwnedBy(devices', r.user)
                          /\ r.user \in Live(accounts')
    /\ r.op = "ingest" => Keys(s) \subseteq readings'
                          /\ r.rows = <<>> /\ r.device \in Live(devices')
    /\ r.op = "delete" => r.device \notin Live(devices')
    /\ r.op = "close" => r.user \notin Live(accounts')
                         /\ OwnedBy(devices', r.user) = {}

LEMMA CommitStores ==
    ASSUME IInv, NEW s \in Slots, Commit(s)
    PROVE  Stored(s)
  <1> DEFINE r == request[s]
  <1>1. TypeOK /\ Shape(s) /\ Known(s) /\ Sound(s)
    BY DEF IInv, Locks
  <1>2. CASE CommitSignup(s)
    BY <1>1, <1>2, FieldsOf DEF CommitSignup, Pending, TypeOK, Stored, Live, Account
  <1>3. CASE CommitClose(s)
    <2>1. /\ accounts' = Without(accounts, {r.user})
          /\ devices' = Without(devices, OwnedBy(devices, r.user)) /\ r.op = "close"
      BY <1>3 DEF CommitClose, Pending
    <2>2. r.user \notin Live(accounts') /\ OwnedBy(devices', r.user) = {}
      BY <2>1 DEF Without, Live, OwnedBy, Gone
    <2> QED
      BY <2>1, <2>2 DEF Stored
  <1>4. CASE CommitCreate(s)
    <2>1. /\ devices' = [devices EXCEPT ![r.device] = NewRow(r)] /\ UNCHANGED accounts
          /\ r.op = "create" /\ r.user \in Live(accounts) /\ r.device \in Devices
      BY <1>1, <1>4, FieldsOf DEF CommitCreate, NewRow, Pending, Sound
    <2>2. r.device \in OwnedBy(devices', r.user)
      BY <1>1, <2>1 DEF TypeOK, OwnedBy, Live, NewRow
    <2> QED
      BY <2>1, <2>2 DEF Stored
  <1>5. CASE CommitUpdate(s)
    BY <1>5 DEF CommitUpdate, Pending, Stored
  <1>6. CASE CommitDelete(s)
    <2>1. /\ devices' = Without(devices, {r.device} \cap Live(devices)) /\ r.op = "delete"
      BY <1>6 DEF CommitDelete, Pending
    <2>2. r.device \notin Live(devices')
      BY <2>1 DEF Without, Live, Gone
    <2> QED
      BY <2>1, <2>2 DEF Stored
  <1>7. CASE CommitIngest(s)
    BY <1>1, <1>7 DEF CommitIngest, Shape, Sound, Pending, Stored
  <1>8. CASE CommitPurge(s)
    BY <1>8 DEF CommitPurge, Pending, Stored
  <1> QED
    BY <1>2, <1>3, <1>4, <1>5, <1>6, <1>7, <1>8 DEF Commit

(* A success is in the tables, or what it deletes is out of them.           *)
THEOREM SuccessStored == Spec => SuccessMeansStored
  <1> DEFINE A == \A s \in Slots : Wrote(s) /\ answer'[s] = "ok" => Stored(s)
  <1>1. IInv /\ [Next]_vars => A
    <2> SUFFICES ASSUME IInv, [Next]_vars, NEW s \in Slots, Wrote(s), answer'[s] = "ok"
                 PROVE  Stored(s)
      OBVIOUS
    <2>1. pc[s] = "commit" /\ pc'[s] = "idle" /\ TypeOK
      BY DEF Wrote, Answered, IInv
    <2>2. Commit(s)
      <3>1. ASSUME NEW t \in Slots, NEW code, Answer(t, code) PROVE t = s /\ code = "ok"
        <4>1. t = s
          BY <2>1, <3>1, AnswerFacts DEF Same
        <4> QED
          BY <2>1, <3>1, <4>1 DEF Answer, TypeOK
      <3>2. ASSUME NEW t \in Slots, NEW place, Goto(t, place), place # "idle" PROVE FALSE
        BY <2>1, <3>2, GotoFacts
      <3>3. ASSUME NEW t \in Slots PROVE ~Written(t) /\ ~Authenticate(t) /\ ~LoadDevice(t)
        BY <3>2 DEF Written, Authenticate, LoadDevice
      <3>4. ASSUME NEW t \in Slots, NEW r \in Requests PROVE ~Accept(t, r)
        BY <3>2 DEF Accept
      <3>5. ASSUME NEW t \in Slots
            PROVE  /\ ~RejectToken(t) /\ ~RejectPassword(t) /\ ~DeviceNotFound(t)
                   /\ ~LoseConnection(t) /\ ~BreakDeadlock(t)
        BY <3>1 DEF RejectToken, RejectPassword, DeviceNotFound, LoseConnection,
                    BreakDeadlock, Refused
      <3>6. ASSUME NEW t \in Slots PROVE ~Write(t)
        <4>1. pc[t] = "write" => t # s
          BY <2>1
        <4>2. \A code : ~Answer(t, code) \/ pc[t] # "write"
          BY <3>1, <4>1
        <4> QED
          BY <3>2, <3>3, <4>2 DEF Write, FlushSignup, FlushCreate, FlushUpdate, FlushDelete,
             InsertRow, IngestNothing, ExecPurge, Runs, Refused
      <3>7. ~UNCHANGED vars
        BY <2>1 DEF vars
      <3>8. PICK t \in Slots : Commit(t)
        BY <3>3, <3>4, <3>5, <3>6, <3>7 DEF Next, Step
      <3>9. t = s
        BY <3>1, <3>8 DEF Commit
      <3> QED
        BY <3>8, <3>9
    <2> QED
      BY <2>2, CommitStores
  <1> QED
    BY <1>1, Invariance, PTL DEF Spec, SuccessMeansStored, Stored
=============================================================================
