-------------------------- MODULE MCCredentialStore --------------------------
(***************************************************************************)
(* CredentialStore for TLC, in two scenes of one run: calls of refresh and  *)
(* ensure_current that compete for one account, and ensure_current and      *)
(* apply_current while the host switches between accounts and the process   *)
(* may die.  Calls of the same kind are interchangeable wherever no         *)
(* fairness is involved; accounts are not, the store keeps them in order.   *)
(***************************************************************************)
EXTENDS CredentialStore, TLC

CONSTANTS
    Only,       \* the account of the first scene, the one renewed in the second
    MaxRenewed  \* bound of the second scene: its credentials

VARIABLE scene

Interchangeable == Permutations(Refreshers) \cup Permutations(Ensurers)

Rest(tasks) == \A t \in tasks : pc'[t] = "idle"

SceneInit ==
    /\ Init
    /\ scene \in {"refresh", "ensure"}
    /\ scene = "refresh" => /\ Present(store) \subseteq {Only}
                            /\ \A a \in Accounts \ {Only} : expired[a] = {}

RefreshScene ==
    /\ scene = "refresh"
    /\ Next
    /\ Rest(Ensurers \cup Appliers)
    /\ Present(store') \subseteq {Only}
    /\ switches' <= 1 /\ restarts' = 0

EnsureScene ==
    /\ scene = "ensure"
    /\ Next
    /\ \A a \in Accounts : Len(origin'[a]) <= IF a = Only THEN MaxRenewed ELSE 1
    /\ Rest(Refreshers)

SceneSpec == SceneInit /\ [][(RefreshScene \/ EnsureScene) /\ UNCHANGED scene]_<<vars, scene>>
=============================================================================
