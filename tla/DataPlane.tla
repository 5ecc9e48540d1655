------------------------------ MODULE DataPlane ------------------------------
(***************************************************************************)
(* The HTTP data plane: routers, dependencies and services of backend/app  *)
(* that change the telemetry tables, over PostgreSQL.                      *)
(*                                                                         *)
(* A request is a pipeline of statements, each on the tables as committed  *)
(* when it runs (READ COMMITTED): find the caller, find the device under   *)
(* its owner, write, commit.  Other requests run between any two of them.  *)
(* What a statement has written and not committed is invisible to others   *)
(* but locked: a statement that meets it waits.  The locks and constraints *)
(* are PostgreSQL's and are modelled from the constraints the tables       *)
(* declare.  A statement takes all the locks it needs in one step, except  *)
(* for a bulk INSERT, which takes them row by row and can deadlock.        *)
(***************************************************************************)
EXTENDS TelemetryData, Sequences

CONSTANTS
    Slots,      \* requests served at the same time
    Requests,   \* bound: the requests clients may send
    Keep        \* a field the body of a PATCH does not set

VARIABLES
    accounts, devices, readings,   \* the tables, as committed
    pc,        \* the next statement of the slot's request
    request,   \* the request it serves
    touched,   \* times of readings it has inserted or deleted, uncommitted
    answer     \* the answer to its last request

tables == <<accounts, devices, readings>>
vars == <<tables, pc, request, touched, answer>>

-----------------------------------------------------------------------------
(* Requests.  create_reading is an ingest of one row.                       *)

Threshold == Levels \cup {None}

Patch ==
    [name : Names \cup {None, Keep},
     min : Threshold \cup {Keep}, max : Threshold \cup {Keep}]

NoChange == [name |-> Keep, min |-> Keep, max |-> Keep]

Request ==
         [op : {"signup"}, user : Users, email : Emails]
    \cup [op : {"close"}, user : Users]
    \cup [op : {"create"}, user : Users, device : Devices, name : Names,
          min : Threshold, max : Threshold]
    \cup [op : {"update"}, user : Users, device : Devices, patch : Patch]
    \cup [op : {"delete"}, user : Users, device : Devices]
    \cup [op : {"ingest"}, user : Users, device : Devices, rows : Seq(Times)]
    \cup [op : {"purge"}, user : Users, device : Devices,
          window : SUBSET Times, dry : BOOLEAN]

NoRequest == [op |-> "none"]

\* The validator of DeviceCreate and DeviceUpdate sees the fields of the body.
ValidBody(r) ==
    /\ r.op = "create" =>
         (r.min # None /\ r.max # None => r.min < r.max)
    /\ r.op = "update" =>
         (r.patch.min \in Levels /\ r.patch.max \in Levels
              => r.patch.min < r.patch.max)

ASSUME DataPlaneAssumption ==
    /\ Requests \subseteq Request /\ \A r \in Requests : ValidBody(r)
    /\ Keep \notin Threshold \cup Names

Answers ==
    {"none", "ok", "invalid_token", "invalid_credentials", "device_not_found",
     "email_already_registered", "device_name_taken", "duplicate_reading",
     "server_error"}

TypeOK ==
    /\ accounts \in [Users -> AccountRow \cup {Never, Gone}]
    /\ devices \in [Devices -> DeviceRow \cup {Never, Gone}]
    /\ readings \subseteq ReadingKey
    /\ pc \in [Slots -> {"idle", "auth", "own", "write", "commit"}]
    /\ request \in [Slots -> Request \cup {NoRequest}]
    /\ touched \in [Slots -> SUBSET Times]
    /\ answer \in [Slots -> Answers]

Init ==
    /\ accounts = [u \in Users |-> Never]
    /\ devices = [d \in Devices |-> Never]
    /\ readings = {}
    /\ pc = [s \in Slots |-> "idle"]
    /\ request = [s \in Slots |-> NoRequest]
    /\ touched = [s \in Slots |-> {}]
    /\ answer = [s \in Slots |-> "none"]

Goto(s, place) == pc' = [pc EXCEPT ![s] = place]

\* Mistake to rule out: the session of a failed request is never closed.
AnswerKeepingSession(s, code) ==
    /\ Goto(s, "idle")
    /\ answer' = [answer EXCEPT ![s] = code]
    /\ UNCHANGED <<request, touched>>

\* The request is answered and its session closed: what it had not committed
\* is rolled back and its locks are released.
Answer(s, code) ==
    /\ Goto(s, "idle")
    /\ answer' = [answer EXCEPT ![s] = code]
    /\ request' = [request EXCEPT ![s] = NoRequest]
    /\ touched' = [touched EXCEPT ![s] = {}]

-----------------------------------------------------------------------------
(* PostgreSQL's locks: what slot t has written and not committed.           *)

Pending(t, op) == pc[t] = "commit" /\ request[t].op = op

Dooms(t, d) ==
    /\ d \in Live(devices)
    /\ \/ Pending(t, "delete") /\ request[t].device = d
       \/ Pending(t, "close") /\ request[t].user = devices[d].owner

Rewrites(t, d) ==
    /\ Pending(t, "update") /\ request[t].device = d
    /\ request[t].patch # NoChange

Renames(t, d) == Rewrites(t, d) /\ request[t].patch.name # Keep

\* The key-share lock that a foreign key check leaves on the device row.
References(t, d) ==
    request[t].op = "ingest" /\ request[t].device = d /\ touched[t] # {}

Purges(t, d) ==
    Pending(t, "purge") /\ request[t].device = d /\ touched[t] # {}

ClosesAccount(t, u) ==
    u \in Live(accounts) /\ Pending(t, "close") /\ request[t].user = u

\* An uncommitted change to the entry for this address in the unique index.
EmailPending(t, email) ==
    \/ Pending(t, "signup") /\ request[t].email = email
    \/ \E u \in Live(accounts) : ClosesAccount(t, u) /\ accounts[u].email = email

\* The same for the unique index on (user_id, name).
NamePending(t, u, name) ==
    \/ Pending(t, "create") /\ request[t].user = u /\ request[t].name = name
    \/ \E d \in OwnedBy(devices, u) :
          \/ Renames(t, d) /\ name \in {request[t].patch.name, devices[d].name}
          \/ Dooms(t, d) /\ devices[d].name = name

\* The readings a purge finds: of its device, in its half-open window.
Window(s) == {t \in request[s].window : <<request[s].device, t>> \in readings}

\* Slot s cannot run its write statement before slot t ends its transaction.
WaitsFor(s, t) ==
    LET r == request[s] IN
    /\ pc[s] = "write" /\ t # s
    /\ \/ r.op = "signup" /\ EmailPending(t, r.email)
       \/ /\ r.op = "create"
          /\ ClosesAccount(t, r.user) \/ NamePending(t, r.user, r.name)
       \/ /\ r.op = "update" /\ r.patch # NoChange /\ r.device \in Live(devices)
          /\ \/ Dooms(t, r.device) \/ Rewrites(t, r.device)
             \/ /\ r.patch.name # Keep
                /\ \/ References(t, r.device)
                   \/ NamePending(t, r.user, r.patch.name)
       \/ /\ r.op = "delete" /\ r.device \in Live(devices)
          /\ \/ Dooms(t, r.device) \/ Rewrites(t, r.device)
             \/ References(t, r.device) \/ Purges(t, r.device)
       \/ /\ r.op = "close"
          /\ \/ ClosesAccount(t, r.user)
             \/ Pending(t, "create") /\ request[t].user = r.user
             \/ \E d \in OwnedBy(devices, r.user) :
                   Rewrites(t, d) \/ Dooms(t, d) \/ References(t, d) \/ Purges(t, d)
       \/ /\ r.op = "ingest" /\ r.rows # <<>>
          /\ \/ Dooms(t, r.device) \/ Renames(t, r.device)
             \/ /\ References(t, r.device) \/ Purges(t, r.device)
                /\ Head(r.rows) \in touched[t]
       \/ /\ r.op = "purge" /\ ~r.dry
          /\ \/ Dooms(t, r.device) /\ Window(s) # {}
             \/ Purges(t, r.device) /\ Window(s) \cap touched[t] # {}

Runs(s, op) ==
    /\ pc[s] = "write" /\ request[s].op = op
    /\ \A t \in Slots : ~WaitsFor(s, t)

Written(s) == Goto(s, "commit") /\ UNCHANGED <<tables, request, touched, answer>>

Refused(s, code) == Answer(s, code) /\ UNCHANGED tables

-----------------------------------------------------------------------------
(* A request arrives.  Its caller's token was issued for an account that    *)
(* exists or existed; ids of new rows are freshly minted.                   *)

Minted(r) ==
    /\ r.op = "signup" =>
         accounts[r.user] = Never /\ \A t \in Slots :
             ~(request[t].op = "signup" /\ request[t].user = r.user)
    /\ r.op # "signup" => accounts[r.user] # Never
    /\ r.op = "create" =>
         devices[r.device] = Never /\ \A t \in Slots :
             ~(request[t].op = "create" /\ request[t].device = r.device)

Accept(s, r) ==
    /\ pc[s] = "idle" /\ Minted(r)
    /\ Goto(s, IF r.op = "signup" THEN "write" ELSE "auth")
    /\ request' = [request EXCEPT ![s] = r]
    /\ answer' = [answer EXCEPT ![s] = "none"]
    /\ UNCHANGED <<tables, touched>>

\* get_current_user: the token names an account that exists now.
Authenticate(s) ==
    /\ pc[s] = "auth" /\ request[s].user \in Live(accounts)
    /\ Goto(s, IF request[s].op \in {"create", "close"} THEN "write" ELSE "own")
    /\ UNCHANGED <<tables, request, touched, answer>>

RejectToken(s) ==
    /\ pc[s] = "auth" /\ request[s].user \notin Live(accounts)
    /\ Refused(s, "invalid_token")

\* POST /auth/me/delete asks for the password again.
RejectPassword(s) ==
    /\ pc[s] = "auth" /\ request[s].op = "close"
    /\ request[s].user \in Live(accounts)
    /\ Refused(s, "invalid_credentials")

\* Mistake to rule out: the device is fetched by id alone.
VisibleToAnyone(s) == request[s].device \in Live(devices)

\* get_owned_device: both predicates are in the WHERE clause.
Visible(s) == request[s].device \in OwnedBy(devices, request[s].user)

\* The ORM sends only what differs from the row as it was loaded.
Changed(row, patch) ==
    [name |-> IF patch.name = row.name THEN Keep ELSE patch.name,
     min |-> IF patch.min = row.min THEN Keep ELSE patch.min,
     max |-> IF patch.max = row.max THEN Keep ELSE patch.max]

LoadDevice(s) ==
    /\ pc[s] = "own" /\ Visible(s)
    /\ Goto(s, "write")
    /\ request' =
         IF request[s].op # "update" THEN request
         ELSE [request EXCEPT ![s].patch = Changed(devices[request[s].device], @)]
    /\ UNCHANGED <<tables, touched, answer>>

DeviceNotFound(s) ==
    /\ pc[s] = "own" /\ ~Visible(s)
    /\ Refused(s, "device_not_found")

-----------------------------------------------------------------------------
(* The write statement, and the constraint that may refuse it.              *)

\* Mistake to rule out: a SELECT looks for the address, and no index does.
FlushSignupUnindexed(s) ==
    /\ pc[s] = "write" /\ request[s].op = "signup"
    /\ IF EmailTaken(accounts, request[s].email)
       THEN Refused(s, "email_already_registered")
       ELSE Written(s)

FlushSignup(s) ==
    /\ Runs(s, "signup")
    /\ IF EmailTaken(accounts, request[s].email)
       THEN Refused(s, "email_already_registered")
       ELSE Written(s)

\* A foreign key violation is an IntegrityError like any other.
FlushCreate(s) ==
    LET r == request[s] IN
    /\ Runs(s, "create")
    /\ IF r.user \notin Live(accounts) \/ NameTaken(devices, r.user, r.name, r.device)
       THEN Refused(s, "device_name_taken")
       ELSE Written(s)

\* The row a PATCH would leave: the fields not sent keep their current values.
Patched(row, patch) ==
    [row EXCEPT !.name = IF patch.name = Keep THEN @ ELSE patch.name,
                !.min = IF patch.min = Keep THEN @ ELSE patch.min,
                !.max = IF patch.max = Keep THEN @ ELSE patch.max]

\* Mistake to rule out: the name column takes NULL.
AcceptableUnchecked(s) ==
    LET r == request[s]
        row == Patched(devices[r.device], r.patch)
    IN  /\ ~NameTaken(devices, r.user, row.name, r.device)
        /\ Ordered(row)

\* Mistake to rule out: no CHECK constraint, only the validator of the body.
AcceptableUnordered(s) ==
    LET r == request[s]
        row == Patched(devices[r.device], r.patch)
    IN  row.name # None /\ ~NameTaken(devices, r.user, row.name, r.device)

\* NOT NULL, the unique index and the CHECK constraint.
Acceptable(s) ==
    LET r == request[s]
        row == Patched(devices[r.device], r.patch)
    IN  /\ row.name # None
        /\ ~NameTaken(devices, r.user, row.name, r.device)
        /\ Ordered(row)

\* An UPDATE that matches no row is a StaleDataError, which nobody catches.
FlushUpdate(s) ==
    LET r == request[s] IN
    /\ Runs(s, "update")
    /\ IF r.patch = NoChange THEN Written(s)
       ELSE IF r.device \notin Live(devices) THEN Refused(s, "server_error")
       ELSE IF ~Acceptable(s) THEN Refused(s, "device_name_taken")
       ELSE Written(s)

\* A DELETE that matches no row is only warned about.
FlushDelete(s) == (Runs(s, "delete") \/ Runs(s, "close")) /\ Written(s)

\* Mistake to rule out: a bulk request is committed row by row.
InsertRowAndCommit(s) ==
    LET r == request[s] IN
    /\ Runs(s, "ingest") /\ r.rows # <<>>
    /\ IF \/ r.device \notin Live(devices)
          \/ <<r.device, Head(r.rows)>> \in readings
       THEN Refused(s, "duplicate_reading")
       ELSE /\ touched' = [touched EXCEPT ![s] = @ \cup {Head(r.rows)}]
            /\ request' = [request EXCEPT ![s].rows = Tail(@)]
            /\ Goto(s, "commit")
            /\ UNCHANGED <<tables, answer>>

\* Mistake to rule out: the look-up of the device is the only check on it.
InsertRowUnreferenced(s) ==
    LET r == request[s] IN
    /\ Runs(s, "ingest") /\ r.rows # <<>>
    /\ IF \/ <<r.device, Head(r.rows)>> \in readings
          \/ Head(r.rows) \in touched[s]
       THEN Refused(s, "duplicate_reading")
       ELSE /\ touched' = [touched EXCEPT ![s] = @ \cup {Head(r.rows)}]
            /\ request' = [request EXCEPT ![s].rows = Tail(@)]
            /\ Goto(s, IF Tail(r.rows) = <<>> THEN "commit" ELSE "write")
            /\ UNCHANGED <<tables, answer>>

\* One row of an INSERT: its key is new, in the table and in the request, and
\* its device exists.
InsertRow(s) ==
    LET r == request[s] IN
    /\ Runs(s, "ingest") /\ r.rows # <<>>
    /\ IF \/ r.device \notin Live(devices)
          \/ <<r.device, Head(r.rows)>> \in readings
          \/ Head(r.rows) \in touched[s]
       THEN Refused(s, "duplicate_reading")
       ELSE /\ touched' = [touched EXCEPT ![s] = @ \cup {Head(r.rows)}]
            /\ request' = [request EXCEPT ![s].rows = Tail(@)]
            /\ Goto(s, IF Tail(r.rows) = <<>> THEN "commit" ELSE "write")
            /\ UNCHANGED <<tables, answer>>

\* A bulk request with no rows is answered at once.
IngestNothing(s) ==
    /\ Runs(s, "ingest") /\ request[s].rows = <<>>
    /\ Refused(s, "ok")

ExecPurge(s) ==
    /\ Runs(s, "purge")
    /\ IF request[s].dry THEN Refused(s, "ok")
       ELSE /\ touched' = [touched EXCEPT ![s] = Window(s)]
            /\ Goto(s, "commit")
            /\ UNCHANGED <<tables, request, answer>>

Write(s) ==
    \/ FlushSignup(s)
    \/ FlushCreate(s)
    \/ FlushUpdate(s)
    \/ FlushDelete(s)
    \/ InsertRow(s)
    \/ IngestNothing(s)
    \/ ExecPurge(s)

-----------------------------------------------------------------------------
(* COMMIT makes the writes of the transaction visible.                      *)

Keys(s) == {request[s].device} \X touched[s]

CommitSignup(s) ==
    /\ Pending(s, "signup")
    /\ accounts' = [accounts EXCEPT ![request[s].user] = Account(request[s].email)]
    /\ UNCHANGED <<devices, readings>>

CommitClose(s) ==
    LET u == request[s].user
        owned == OwnedBy(devices, u)
    IN  /\ Pending(s, "close")
        /\ accounts' = Without(accounts, {u})
        /\ devices' = Without(devices, owned)
        /\ readings' = readings \ ReadingsOf(readings, owned)

CommitCreate(s) ==
    LET r == request[s] IN
    /\ Pending(s, "create")
    /\ devices' = [devices EXCEPT ![r.device] =
          [status |-> "live", owner |-> r.user, name |-> r.name,
           min |-> r.min, max |-> r.max]]
    /\ UNCHANGED <<accounts, readings>>

CommitUpdate(s) ==
    LET r == request[s] IN
    /\ Pending(s, "update")
    /\ devices' = IF r.patch = NoChange THEN devices
                  ELSE [devices EXCEPT ![r.device] = Patched(@, r.patch)]
    /\ UNCHANGED <<accounts, readings>>

CommitDelete(s) ==
    LET doomed == {request[s].device} \cap Live(devices) IN
    /\ Pending(s, "delete")
    /\ devices' = Without(devices, doomed)
    /\ readings' = readings \ ReadingsOf(readings, doomed)
    /\ UNCHANGED accounts

CommitIngest(s) ==
    /\ Pending(s, "ingest")
    /\ readings' = readings \cup Keys(s)
    /\ UNCHANGED <<accounts, devices>>

CommitPurge(s) ==
    /\ Pending(s, "purge")
    /\ readings' = readings \ Keys(s)
    /\ UNCHANGED <<accounts, devices>>

\* The server may lose the connection after the database has committed.
Commit(s) ==
    /\ \/ CommitSignup(s) \/ CommitClose(s) \/ CommitCreate(s) \/ CommitUpdate(s)
       \/ CommitDelete(s) \/ CommitIngest(s) \/ CommitPurge(s)
    /\ \E code \in {"ok", "server_error"} : Answer(s, code)

\* The connection is lost before the commit.
LoseConnection(s) == pc[s] # "idle" /\ Refused(s, "server_error")

\* PostgreSQL breaks a cycle of waits by aborting one statement in it.
BreakDeadlock(s) ==
    /\ \E cycle \in SUBSET Slots :
          s \in cycle /\ \A t \in cycle : \E v \in cycle : WaitsFor(t, v)
    /\ Refused(s, "server_error")

Step(s) ==
    \/ Authenticate(s) \/ RejectToken(s)
    \/ LoadDevice(s) \/ DeviceNotFound(s)
    \/ Write(s)
    \/ Commit(s)
    \/ BreakDeadlock(s)

Next ==
    \E s \in Slots :
        \/ \E r \in Requests : Accept(s, r)
        \/ Step(s)
        \/ RejectPassword(s)
        \/ LoseConnection(s)

Spec == Init /\ [][Next]_vars

\* The event loop resumes every request whose statement can run.
FairSpec == Spec /\ \A s \in Slots : WF_vars(Step(s))

-----------------------------------------------------------------------------
(* Properties.                                                              *)

Answered(s) == pc[s] # "idle" /\ pc'[s] = "idle"

Store == INSTANCE TelemetryStore

(* "Two simultaneous requests cannot both pass a check that only the        *)
(* database can decide atomically" (README.md:188): whatever the            *)
(* interleaving of the statements, each commit does to the tables what one  *)
(* atomic request would, and they stay consistent.                          *)
RefinesStore == Store!Spec

(* So the tables are consistent after every commit: no device or reading    *)
(* outlives its owner, no two accounts share an address or a user's devices *)
(* a name, and no band is inverted.                                         *)
Consistent == Store!Consistent

Wrote(s) == Answered(s) /\ pc[s] = "commit"

(* A device and its readings are changed only for the account that owns the *)
(* device (README.md:186), and only while that account exists: deleting a   *)
(* user locks them out at once (README.md:182), requests already past the   *)
(* look-up of the caller included.                                          *)
WritesByOwner ==
    [][\A d \in Devices :
          \/ devices'[d] # devices[d]
          \/ ReadingsOf(readings', {d}) # ReadingsOf(readings, {d})
          => \E s \in Slots :
                /\ Wrote(s)
                /\ request[s].user \in Live(accounts)
                /\ d \in Live(devices) => devices[d].owner = request[s].user]_vars

(* A request answered with success is in the tables: its row is live and    *)
(* its owner is, all its readings are there, or what it deletes is gone     *)
(* whoever deleted it.                                                      *)
SuccessMeansStored ==
    [][\A s \in Slots :
          LET r == request[s] IN
          Wrote(s) /\ answer'[s] = "ok" =>
              /\ r.op = "signup" => r.user \in Live(accounts')
              /\ r.op = "create" => r.device \in OwnedBy(devices', r.user)
                                    /\ r.user \in Live(accounts')
              /\ r.op = "ingest" => Keys(s) \subseteq readings'
                                    /\ r.rows = <<>> /\ r.device \in Live(devices')
              /\ r.op = "delete" => r.device \notin Live(devices')
              /\ r.op = "close" => r.user \notin Live(accounts')
                                   /\ OwnedBy(devices', r.user) = {}]_vars

(* Once clients stop sending, every request is answered: no request waits   *)
(* for ever for another, and bulk inserts that wait on each other are       *)
(* broken up.                                                               *)
Quiescence ==
    \/ []<><<\E s \in Slots : pc[s] = "idle" /\ pc'[s] # "idle">>_vars
    \/ <>[](\A s \in Slots : pc[s] = "idle")

(* "A reading that duplicates an existing (device, time) pair returns 409   *)
(* duplicate_reading" (README.md:524), and only such a one.                 *)
DuplicateHonest ==
    [][\A s \in Slots :
          Answered(s) /\ answer'[s] = "duplicate_reading" =>
              \/ <<request[s].device, Head(request[s].rows)>> \in readings
              \/ Head(request[s].rows) \in touched[s]]_vars

(* "You already have a device with that name." (services/device.py:98) is   *)
(* said only to a caller who has one.                                       *)
NameConflictHonest ==
    [][\A s \in Slots :
          LET r == request[s]
              name == IF r.op = "create" THEN r.name ELSE r.patch.name
          IN  Answered(s) /\ answer'[s] = "device_name_taken" =>
                  NameTaken(devices, r.user, name, r.device)]_vars

(* "min < max is enforced on write" (services/reading.py:269).              *)
BandEnforced ==
    \A d \in Live(devices) :
        LET row == devices[d] IN
        row.min # None /\ row.max # None => row.min < row.max
=============================================================================
