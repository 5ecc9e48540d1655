--------------------------- MODULE TelemetryStore ---------------------------
(***************************************************************************)
(* What the telemetry store promises: every request acts at once, on the   *)
(* tables as they are at that instant.                                     *)
(*                                                                         *)
(* The services of backend/app/services do nothing at once: they look the  *)
(* caller up, check the owner, write and commit in separate statements,    *)
(* and lean on the constraints of backend/app/models to settle the races.  *)
(* DataPlane models that, and is checked to implement this specification.  *)
(***************************************************************************)
EXTENDS TelemetryData

VARIABLES
    accounts,   \* users
    devices,    \* devices
    readings    \* keys of readings

vars == <<accounts, devices, readings>>

TypeOK ==
    /\ accounts \in [Users -> AccountRow \cup {Never, Gone}]
    /\ devices \in [Devices -> DeviceRow \cup {Never, Gone}]
    /\ readings \subseteq ReadingKey

Init ==
    /\ accounts = [u \in Users |-> Never]
    /\ devices = [d \in Devices |-> Never]
    /\ readings = {}

-----------------------------------------------------------------------------

Signup(u, email) ==
    /\ accounts[u] = Never /\ ~EmailTaken(accounts, email)
    /\ accounts' = [accounts EXCEPT ![u] = Account(email)]
    /\ UNCHANGED <<devices, readings>>

\* Deleting an account takes its devices and their readings with it.
CloseAccount(u) ==
    /\ u \in Live(accounts)
    /\ accounts' = Without(accounts, {u})
    /\ devices' = Without(devices, OwnedBy(devices, u))
    /\ readings' = readings \ ReadingsOf(readings, OwnedBy(devices, u))

Register(d, row) ==
    /\ devices[d] = Never /\ row.owner \in Live(accounts)
    /\ ~NameTaken(devices, row.owner, row.name, d) /\ Ordered(row)
    /\ devices' = [devices EXCEPT ![d] = row]
    /\ UNCHANGED <<accounts, readings>>

Revise(d, name, min, max) ==
    LET row == [devices[d] EXCEPT !.name = name, !.min = min, !.max = max] IN
    /\ d \in Live(devices) /\ Ordered(row)
    /\ name # None /\ ~NameTaken(devices, devices[d].owner, name, d)
    /\ devices' = [devices EXCEPT ![d] = row]
    /\ UNCHANGED <<accounts, readings>>

RemoveDevice(d) ==
    /\ d \in Live(devices)
    /\ devices' = Without(devices, {d})
    /\ readings' = readings \ ReadingsOf(readings, {d})
    /\ UNCHANGED accounts

\* Readings are appended all together or not at all.
Append(d, times) ==
    /\ d \in Live(devices)
    /\ ({d} \X times) \cap readings = {}
    /\ readings' = readings \cup ({d} \X times)
    /\ UNCHANGED <<accounts, devices>>

Purge(d, times) ==
    /\ readings' = readings \ ({d} \X times)
    /\ UNCHANGED <<accounts, devices>>

Thresholds == Levels \cup {None}

Next ==
    \/ \E u \in Users, e \in Emails : Signup(u, e)
    \/ \E u \in Users : CloseAccount(u)
    \/ \E d \in Devices, row \in DeviceRow : Register(d, row)
    \/ \E d \in Devices, n \in Names \cup {None}, lo, hi \in Thresholds :
          Revise(d, n, lo, hi)
    \/ \E d \in Devices : RemoveDevice(d)
    \/ \E d \in Devices, ts \in SUBSET Times : Append(d, ts) \/ Purge(d, ts)

Spec == Init /\ [][Next]_vars

-----------------------------------------------------------------------------

(* No device without its account, no reading without its device: deleting   *)
(* an account or a device leaves nothing behind (models/device.py:64,       *)
(* models/reading.py:46).                                                   *)
Referential ==
    /\ \A d \in Live(devices) : devices[d].owner \in Live(accounts)
    /\ \A r \in readings : r[1] \in Live(devices)

(* One account per address, one device per owner and name.                  *)
Unique ==
    /\ \A u, v \in Live(accounts) : accounts[u].email = accounts[v].email => u = v
    /\ \A c, d \in Live(devices) :
          devices[c].owner = devices[d].owner /\ devices[c].name = devices[d].name
              => c = d

Banded == \A d \in Live(devices) : Ordered(devices[d])

(* The tables stay consistent, whatever sequence of requests is served.     *)
Consistent == Referential /\ Unique /\ Banded
=============================================================================
