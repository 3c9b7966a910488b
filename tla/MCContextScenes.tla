--------------------------- MODULE MCContextScenes ---------------------------
(***************************************************************************)
(* ApiContext for TLC in two scenes of one run: the device is replaced     *)
(* again and again under Android requests; accounts are switched, sessions *)
(* are invalidated and time passes under requests of both platforms.       *)
(***************************************************************************)
EXTENDS MCApiContext

VARIABLE scene

SceneInit ==
    /\ Init
    /\ scene \in {"device", "account"}
    /\ device.id = d0 /\ credential = Out

DeviceScene ==
    /\ scene = "device"
    /\ Next
    /\ credential' = Out /\ clock' = 0 /\ UNCHANGED invalidations
    /\ \A r \in Requests :
           pc'[r] \notin {"idle", "limiter", "done"} =>
               call'[r].credential = Out /\ call'[r].platform = "android"

AccountScene ==
    /\ scene = "account"
    /\ Next
    /\ epoch' = 0
    /\ clock' = 0 \/ \A m \in Accounts : invalidations'[m] = 0

SceneSpec == SceneInit /\ [][(DeviceScene \/ AccountScene) /\ UNCHANGED scene]_<<vars, scene>>
=============================================================================
