---------------------------- MODULE TelemetryData ----------------------------
(***************************************************************************)
(* The three tables of the telemetry store (backend/app/models): accounts, *)
(* devices and readings, as TelemetryStore and DataPlane both see them.    *)
(*                                                                         *)
(* Primary keys are uuid4 values minted by the application, so an id that  *)
(* was deleted never comes back: a row is "never" stored, "live" or "gone".*)
(* A reading is its primary key, <<device, time>>; its value is left out.  *)
(***************************************************************************)
EXTENDS Integers

CONSTANTS
    Users, Devices,   \* ids of accounts and devices
    Emails, Names,    \* normalised addresses; device names
    Times,            \* timestamps of readings
    Levels,           \* threshold values
    None              \* SQL NULL

ASSUME DataAssumption ==
    /\ Levels \subseteq Int
    /\ None \notin Levels /\ None \notin Names

Never == [status |-> "never"]
Gone == [status |-> "gone"]

Account(email) == [status |-> "live", email |-> email]

AccountRow == [status : {"live"}, email : Emails]

DeviceRow ==
    [status : {"live"}, owner : Users, name : Names,
     min : Levels \cup {None}, max : Levels \cup {None}]

ReadingKey == Devices \X Times

Live(table) == {k \in DOMAIN table : table[k].status = "live"}

\* ON DELETE CASCADE and DELETE: the rows with these keys, gone for good.
Without(table, keys) ==
    [k \in DOMAIN table |-> IF k \in keys THEN Gone ELSE table[k]]

\* The unique index on users.email.
EmailTaken(accs, email) == \E u \in Live(accs) : accs[u].email = email

OwnedBy(devs, u) == {d \in Live(devs) : devs[d].owner = u}

\* The unique index on devices (user_id, name), for a row other than d.
NameTaken(devs, u, name, d) ==
    \E c \in OwnedBy(devs, u) \ {d} : devs[c].name = name

\* The CHECK constraint on the alert band of a device.
Ordered(row) == row.min # None /\ row.max # None => row.min <= row.max

ReadingsOf(rs, ds) == {r \in rs : r[1] \in ds}
=============================================================================
