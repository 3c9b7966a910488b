------------------------------ MODULE MCProgress ------------------------------
(***************************************************************************)
(* Liveness, in one run: a call of the context, a call of the store, a QR  *)
(* login by polling and a login of the mobile app end.  A behaviour is one *)
(* of one part, which "part" names, as in MCClients; fairness is that of   *)
(* each module, of the part that runs.                                     *)
(***************************************************************************)
EXTENDS QrLogin, MobileLogin

CONSTANTS
    Requests, Batches, Cancellable, Devices, Platforms, MaxDeviceRetries, Lifetime,
    NoQimei, NoSession, NoCredential, NoPayload, NoRequest,
    MaxEpoch, MaxClock, MaxInvalidations,
    Refreshers, Ensurers, Appliers, StoreAccounts, MaxTurns, NoTask, NoLock, NoAccount,
    MaxIssued, MaxSwitches, MaxRestarts

VARIABLES
    part,
    credential, device, epoch, sessions, stateLock, clock, pc, call, cancelled, payload,
    cookie, result, began, invalidations,
    store, disk, locks, arc, holder, current, tPc, tCall, tResult, expired, origin, lost,
    switches, tBegan, restarts

Context == INSTANCE ApiContext WITH Credentials <- {[musicid |-> 0, musickey |-> ""]}
Store == INSTANCE CredentialStore WITH
            Accounts <- StoreAccounts,
            client <- current, pc <- tPc, call <- tCall, result <- tResult, began <- tBegan

MCMessages == [type : {"scanned", "cookies", "timeout"}, qos : {0, 1}, id : Ids]

contextPart ==
    <<credential, device, epoch, sessions, stateLock, clock, pc, call, cancelled, payload,
      cookie, result, began, invalidations>>
storePart ==
    <<store, disk, locks, arc, holder, current, tPc, tCall, tResult, expired, origin, lost,
      switches, tBegan, restarts>>
parts == <<part, contextPart, storePart, qrLogin, mobileLogin>>

Init ==
    /\ part \in {"context", "store", "qr", "mobile"}
    /\ Context!Init
    /\ Store!Init
    /\ part # "store" => expired = [a \in StoreAccounts |-> {}]
                         /\ store.accounts = [a \in StoreAccounts |-> Store!Absent]
    /\ part # "qr" => setup = [kind |-> "Qq", repeat |-> FALSE]
    /\ QrInit
    /\ MobileInit

ContextDoes(A) == part = "context" /\ A /\ UNCHANGED <<part, storePart, qrLogin, mobileLogin>>
StoreDoes(A) == part = "store" /\ A /\ UNCHANGED <<part, contextPart, qrLogin, mobileLogin>>
QrDoes(A) == part = "qr" /\ A /\ UNCHANGED <<part, contextPart, storePart, mobileLogin>>
MobileDoes(A) == part = "mobile" /\ A /\ UNCHANGED <<part, contextPart, storePart, qrLogin>>

Next ==
    \/ ContextDoes(Context!Next)
    \/ StoreDoes(Store!Next)
    \/ QrDoes(QrNext)
    \/ MobileDoes(MobileNext)

\* The runtime polls every future, timers fire, HTTP requests end or time out;
\* the callers, the device, the server of a QR login and the broker owe
\* nothing.
Spec ==
    /\ Init /\ [][Next]_parts
    /\ \A r \in Requests : WF_contextPart(part = "context" /\ Context!Progress(r))
    /\ \A t \in Refreshers \cup Ensurers : WF_storePart(part = "store" /\ Store!Progress(t))
    /\ WF_qrLogin(part = "qr" /\ QrStep) /\ WF_qrLogin(part = "qr" /\ QrTick)
    /\ WF_mobileLogin(part = "mobile" /\ MqttStep)
    /\ WF_mobileLogin(part = "mobile" /\ MobileExchange)
    /\ WF_mobileLogin(part = "mobile" /\ MqttTick)

\* Caller c has made its call; it has returned.
Calls(c) ==
    \/ part = "context" /\ pc[c] = "limiter"
    \/ part = "store" /\ tPc[c] # "idle"
    \/ part = "qr" /\ qrPc # "idle"
    \/ part = "mobile" /\ mPc = "listen"
Returns(c) ==
    \/ part = "context" /\ pc[c] = "done"
    \/ part = "store" /\ tPc[c] = "done"
    \/ part = "qr" /\ qrPc = "idle"
    \/ part = "mobile" /\ mPc = "over"

\* Every call returns: a CGI request while the device is replaced and another
\* call is dropped with state_lock in its hands; refresh and ensure_current
\* while locks are dropped by other tasks and the process restarts; a QR login
\* whatever the server answers, and a login of the mobile app, once
\* subscribed, whatever the broker does.
CallsEnd == \A c \in Requests : Calls(c) ~> Returns(c)
=============================================================================
