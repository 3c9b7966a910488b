---------------------------- MODULE MCApiContext ----------------------------
(***************************************************************************)
(* Instances of ApiContext for TLC.                                        *)
(***************************************************************************)
EXTENDS ApiContext, TLC

CONSTANTS d0, d1

Out == [musicid |-> 0, musickey |-> ""]
A == [musicid |-> 1, musickey |-> "a"]

OnlyOut == {Out}
TwoCredentials == {Out, A}

Android == {"android"}
BothPlatforms == {"android", "web"}

\* While time stands still and no session is invalidated, requests are bound
\* only to the device and its epoch.
StillSpec == Init /\ [][Next /\ UNCHANGED <<clock, invalidations>>]_vars

Symmetry == Permutations(Requests)
=============================================================================
