----------------------------- MODULE BoundRequest -----------------------------
(***************************************************************************)
(* What ApiContext promises its callers (src/context.rs, build_api_kwargs  *)
(* and docs/architecture.md): at one instant while it is open, a request   *)
(* is bound as a whole to one credential and to the device identity that   *)
(* is current at that instant, and it never changes afterwards.  How the   *)
(* device, its QIMEI and the account's session are read, cached, fetched   *)
(* and re-checked piece by piece is left to ApiContext, which implements   *)
(* this specification.                                                     *)
(***************************************************************************)
EXTENDS Naturals

CONSTANTS Requests, Credentials, Devices, NoQimei, NoSession, NoBinding

VARIABLES
    current,  \* the device identity in force
    epoch,    \* how often it was replaced
    phase,    \* "idle", "open", "bound" or "closed", per request
    binding   \* what a bound request carries

bvars == <<current, epoch, phase, binding>>

\* The identities a request for credential c may carry while d is current.
Bindings(c, d) ==
    [credential : {c}, device : {d}, qimei : {NoQimei, d},
     session : {NoSession} \cup [musicid : {c.musicid}, device : {d}]]

Open(r) ==
    /\ phase[r] = "idle"
    /\ phase' = [phase EXCEPT ![r] = "open"]
    /\ UNCHANGED <<current, epoch, binding>>

Replace(d) ==
    /\ current' = d
    /\ epoch' = epoch + 1
    /\ UNCHANGED <<phase, binding>>

Bind(r) ==
    /\ phase[r] = "open"
    /\ phase' = [phase EXCEPT ![r] = "bound"]
    /\ \E c \in Credentials : \E b \in Bindings(c, current) :
          binding' = [binding EXCEPT ![r] = b]
    /\ UNCHANGED <<current, epoch>>

\* The request was answered, failed, was cancelled or dropped.
Close(r) ==
    /\ phase[r] \in {"open", "bound"}
    /\ phase' = [phase EXCEPT ![r] = "closed"]
    /\ binding' = [binding EXCEPT ![r] = NoBinding]
    /\ UNCHANGED <<current, epoch>>

Init ==
    /\ current \in Devices
    /\ epoch = 0
    /\ phase = [r \in Requests |-> "idle"]
    /\ binding = [r \in Requests |-> NoBinding]

Next ==
    \/ \E d \in Devices : Replace(d)
    \/ \E r \in Requests : Open(r) \/ Bind(r) \/ Close(r)

Spec == Init /\ [][Next]_bvars
=============================================================================
