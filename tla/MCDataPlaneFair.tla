--------------------------- MODULE MCDataPlaneFair ---------------------------
(* DataPlane with fairness, for one user, device and name: the clients      *)
(* contend for the device's band, a bound at a time, and for its readings.  *)
EXTENDS MCDataPlane

ContendingPatches ==
    {NoChange, [NoChange EXCEPT !.min = 2], [NoChange EXCEPT !.max = 1]}

Contending ==
    {r \in MCRequests :
        /\ r.op = "create" => r.min = None /\ r.max = None
        /\ r.op = "update" => r.patch \in ContendingPatches}
=============================================================================
