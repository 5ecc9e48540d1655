----------------------------- MODULE MCDataPlane -----------------------------
(* TLC instances of DataPlane: the tables are small and each run sends the  *)
(* requests its question is about.                                          *)
EXTENDS DataPlane, TLC

CONSTANTS
    MaxRows,   \* bound on the rows of a bulk request
    Ops        \* the operations a run sends

BoundedRequest ==
         [op : {"signup"}, user : Users, email : Emails]
    \cup [op : {"close"}, user : Users]
    \cup [op : {"create"}, user : Users, device : Devices, name : Names,
          min : Threshold, max : Threshold]
    \cup [op : {"update"}, user : Users, device : Devices, patch : Patch]
    \cup [op : {"delete"}, user : Users, device : Devices]
    \cup [op : {"ingest"}, user : Users, device : Devices,
          rows : UNION {[1..n -> Times] : n \in 0..MaxRows}]
    \cup [op : {"purge"}, user : Users, device : Devices,
          window : SUBSET Times, dry : BOOLEAN]

MCRequests == {r \in BoundedRequest : r.op \in Ops /\ ValidBody(r)}

Symmetry ==
    Permutations(Slots) \cup Permutations(Users) \cup Permutations(Emails)
        \cup Permutations(Devices) \cup Permutations(Names) \cup Permutations(Times)
=============================================================================
