------------------------------ MODULE ApiContext ------------------------------
(***************************************************************************)
(* The request context shared by every API module (src/context.rs): one    *)
(* global credential, one device identity with its epoch, the per-account  *)
(* Android session cache and the singleflight lock under which sessions    *)
(* and QIMEI fingerprints are applied for.                                 *)
(*                                                                         *)
(* Concurrent calls of request_cgi run step by step, one step per read or  *)
(* write of shared state, interleaved with callers that replace the        *)
(* device, switch the credential or invalidate a session, and with time.   *)
(***************************************************************************)
EXTENDS Naturals

CONSTANTS
    Requests,          \* concurrent calls of request_cgi and request_cgi_batch
    Batches,           \* those that are request_cgi_batch
    Cancellable,       \* the calls whose CancellationToken the caller may cancel
    Credentials,       \* the credentials in use, the logged-out one included
    Devices,           \* device identities (android_id, imei, ...)
    Platforms,         \* target platforms of the calls
    MaxDeviceRetries,  \* MAX_DEVICE_RETRIES, 5 in the code
    Lifetime,          \* seconds a QIMEI or a session is usable, 86_400
    NoQimei, NoSession, NoCredential, NoPayload, NoRequest, \* absent values
    MaxEpoch, MaxClock, MaxInvalidations  \* bounds on the environment

ASSUME ContextAssumption ==
    /\ MaxDeviceRetries \in Nat /\ MaxDeviceRetries > 0
    /\ Lifetime \in Nat /\ Lifetime > 0
    /\ Devices # {} /\ NoQimei \notin Devices
    /\ Platforms # {}
    /\ NoRequest \notin Requests
    /\ [musicid |-> 0, musickey |-> ""] \in Credentials
    /\ NoCredential \notin Credentials
    /\ {c.musicid : c \in Credentials} \subseteq Nat

VARIABLES
    credential,  \* ApiContext::credential
    device,      \* ApiContext::device
    epoch,       \* ApiContext::device_epoch
    sessions,    \* ApiContext::sessions, by musicid
    stateLock,   \* holder of ApiContext::state_lock
    clock,       \* now()
    pc,          \* where each request is
    call,        \* local variables of each request
    cancelled,   \* RequestOptions::cancellation of each request
    payload,     \* comm of the CGI request each call has built
    cookie,      \* credential in its Cookie header, once on the wire
    result,      \* what each call returned
    began,       \* epoch and time when each call was made
    invalidations \* calls of invalidate_session, by musicid

context == <<credential, device, epoch, sessions, clock, invalidations>>
history == <<cancelled, payload, cookie, result, began>>
vars == <<context, stateLock, pc, call, history>>

-----------------------------------------------------------------------------
\* Data

Accounts == {c.musicid : c \in Credentials}
Device == [id : Devices, qimei : Devices \cup {NoQimei}, saved : Nat]

\* What the server answered a GetSession for: the uid/sid pair stands for the
\* credential, device and QIMEI the request carried.
Sid == [credential : Credentials, device : Devices,
        qimei : Devices \cup {NoQimei}, gen : Nat]
AndroidSession == [sid : Sid, acquired : Nat, epoch : Nat]

Comm == [credential : Credentials, device : Devices,
         qimei : Devices \cup {NoQimei},
         session : AndroidSession \cup {NoSession}, platform : Platforms]

ASSUME AbsentAssumption == NoSession \notin AndroidSession /\ NoPayload \notin Comm

\* Default::default() for Credential: musicid 0, empty musickey.
LoggedOut == [musicid |-> 0, musickey |-> ""]
CanLogin(c) == c.musicid # 0 /\ c.musickey # ""

Labels == {"idle", "limiter", "snapshot", "done", "send", "reply",
    "session.epoch", "session.cached", "session.lock", "session.snapshot",
    "session.lookup", "session.post", "session.verify", "session.insert",
    "qimei.cached", "qimei.lock", "qimei.lookup", "qimei.snapshot",
    "fetch.check", "fetch.cache", "fetch.http", "fetch.commit",
    "check.session", "check.snapshot", "check.qimei", "device", "check.device"}

\* Between acquiring and releasing state_lock.
Locked == {"session.snapshot", "session.lookup", "session.post",
    "session.verify", "session.insert", "qimei.lookup", "qimei.snapshot",
    "fetch.check", "fetch.cache", "fetch.http", "fetch.commit"}

\* Where the future may be suspended, and so dropped by its caller.
AwaitPoints == {"limiter", "session.cached", "session.lock", "session.lookup",
    "session.post", "session.insert", "qimei.lock", "fetch.http", "reply"}

Results == {"none", "ok", "error", "device replaced", "login required",
            "cancelled", "dropped"}

AnyDevice == CHOOSE d \in Devices : TRUE
AnyPlatform == CHOOSE p \in Platforms : TRUE

\* The locals of a call before it runs and after it returned.
NoCall == [credential |-> LoggedOut, platform |-> AnyPlatform,
           tries |-> 0, inner |-> 0, snap |-> 0, read |-> 0,
           held |-> [epoch |-> 0,
                     device |-> [id |-> AnyDevice, qimei |-> NoQimei, saved |-> 0]],
           fetching |-> "session",
           sid |-> [credential |-> LoggedOut, device |-> AnyDevice,
                    qimei |-> NoQimei, gen |-> 0],
           session |-> NoSession, qimei |-> NoQimei, device |-> AnyDevice]

CallLocals == [credential : Credentials, platform : Platforms,
    tries : 0 .. MaxDeviceRetries - 1, inner : 0 .. MaxDeviceRetries - 1, snap : Nat, read : Nat,
    held : [epoch : Nat, device : Device],
    fetching : {"session", "qimei"}, sid : Sid,
    session : AndroidSession \cup {NoSession},
    qimei : Devices \cup {NoQimei}, device : Devices]

\* Mutant of Valid: a session is still used at the second it expires.
ValidAtExpiry(s, e) == s # NoSession /\ clock <= s.acquired + Lifetime /\ s.epoch = e

\* AndroidSession::valid
Valid(s, e) == s # NoSession /\ clock < s.acquired + Lifetime /\ s.epoch = e

\* qimei_if_fresh: Some(qimei), or NoQimei for None.
QimeiIfFresh(d) ==
    IF d.qimei # NoQimei /\ clock < d.saved + Lifetime THEN d.qimei ELSE NoQimei

\* The key of the call's session in the cache.
AccountOf(r) == call[r].credential.musicid

-----------------------------------------------------------------------------
\* Control

Goto(r, l) == pc' = [pc EXCEPT ![r] = l]
Local(r, c) == call' = [call EXCEPT ![r] = c]

Quiet == UNCHANGED <<context, history, stateLock>>

NotBegun == [epoch |-> 0, clock |-> 0]

\* Mutant of Finish: state_lock outlives the call.
FinishHolding(r, outcome) ==
    /\ Goto(r, "done")
    /\ result' = [result EXCEPT ![r] = outcome]
    /\ Local(r, NoCall)
    /\ payload' = [payload EXCEPT ![r] = NoPayload]
    /\ cookie' = [cookie EXCEPT ![r] = NoCredential]
    /\ began' = [began EXCEPT ![r] = NotBegun]
    /\ cancelled' = [cancelled EXCEPT ![r] = FALSE]
    /\ UNCHANGED <<context, stateLock>>

\* A return, an error propagated by `?`, or a dropped future: the guard of
\* state_lock is released with the locals.
Finish(r, outcome) ==
    /\ Goto(r, "done")
    /\ result' = [result EXCEPT ![r] = outcome]
    /\ Local(r, NoCall)
    /\ payload' = [payload EXCEPT ![r] = NoPayload]
    /\ cookie' = [cookie EXCEPT ![r] = NoCredential]
    /\ began' = [began EXCEPT ![r] = NotBegun]
    /\ cancelled' = [cancelled EXCEPT ![r] = FALSE]
    /\ stateLock' = IF stateLock = r THEN NoRequest ELSE stateLock
    /\ UNCHANGED context

\* The next turn of the loop of build_api_kwargs starts from nothing.
Turn(r) ==
    /\ Local(r, [NoCall EXCEPT !.tries = call[r].tries + 1,
                !.credential = call[r].credential, !.platform = call[r].platform])
    /\ Goto(r, "snapshot")
    /\ Quiet

\* Mutant of Rebuild: the loop is one turn short.
RebuildOnceLess(r) ==
    IF call[r].tries + 2 >= MaxDeviceRetries THEN Finish(r, "device replaced") ELSE Turn(r)

\* `continue` in the loop of build_api_kwargs.
Rebuild(r) ==
    IF call[r].tries + 1 = MaxDeviceRetries THEN Finish(r, "device replaced") ELSE Turn(r)

\* `continue` in the loop of session_for or get_cached_qimei.
Refetch(r) ==
    IF call[r].inner + 1 = MaxDeviceRetries
    THEN Finish(r, "device replaced")
    ELSE /\ Local(r, [call[r] EXCEPT !.inner = @ + 1])
         /\ Goto(r, IF call[r].fetching = "session"
                    THEN "session.snapshot" ELSE "qimei.lookup")
         /\ Quiet

\* Mutant of SessionReady: the guard lives on into get_cached_qimei.
SessionReadyHolding(r, s) ==
    /\ Local(r, [call[r] EXCEPT !.session = s])
    /\ UNCHANGED stateLock
    /\ Goto(r, "check.session")

\* session_for returns s to build_api_kwargs, releasing state_lock if held.
SessionReady(r, s) ==
    /\ Local(r, [call[r] EXCEPT !.session = s])
    /\ stateLock' = IF stateLock = r THEN NoRequest ELSE stateLock
    /\ Goto(r, "check.session")

\* get_cached_qimei returns q to build_api_kwargs.
QimeiReady(r, q) ==
    /\ Local(r, [call[r] EXCEPT !.qimei = q])
    /\ stateLock' = IF stateLock = r THEN NoRequest ELSE stateLock
    /\ Goto(r, "check.qimei")

\* fetch_session sends GetSession with the held device and the QIMEI q.
PostGetSession(r, q) ==
    /\ Local(r, [call[r] EXCEPT !.sid =
                  [credential |-> call[r].credential, device |-> call[r].held.device.id,
                   qimei |-> q, gen |-> invalidations[AccountOf(r)]]])
    /\ Goto(r, "session.post")
    /\ UNCHANGED stateLock

\* qimei_for_snapshot has its answer, for GetSession or for the request itself.
Fetched(r, q) ==
    IF call[r].fetching = "session" THEN PostGetSession(r, q) ELSE QimeiReady(r, q)

\* On to a label with nothing but the program counter changed.
Proceed(r, l) == Goto(r, l) /\ UNCHANGED call /\ Quiet

-----------------------------------------------------------------------------
\* request_cgi, up to build_api_kwargs

\* The caller invokes request_cgi and waits for the rate limiter.
Invoke(r) ==
    /\ pc[r] = "idle"
    /\ began' = [began EXCEPT ![r] = [epoch |-> epoch, clock |-> clock]]
    /\ Goto(r, "limiter")
    /\ UNCHANGED <<context, stateLock, call, cancelled, payload, cookie, result>>

\* The call takes its credential once: the option's, else the global one.
Grant(r) ==
    \E c \in Credentials \cup {NoCredential}, p \in Platforms, login \in BOOLEAN :
        LET effective == IF c = NoCredential THEN credential ELSE c IN
        IF login /\ ~CanLogin(effective) THEN Finish(r, "login required")
        ELSE /\ Local(r, [call[r] EXCEPT !.credential = effective, !.platform = p])
             /\ Goto(r, "snapshot")
             /\ Quiet

\* The limiter grants the call; cancellation wins over it.
Admit(r) ==
    /\ pc[r] = "limiter" /\ r \notin Batches
    /\ IF cancelled[r] THEN Finish(r, "cancelled") ELSE Grant(r)

\* request_cgi_batch waits for the limiter whether cancelled or not.
AdmitBatch(r) ==
    /\ pc[r] = "limiter" /\ r \in Batches
    /\ Grant(r)

\* One turn of the loop of build_api_kwargs begins.
Snapshot(r) ==
    /\ pc[r] = "snapshot"
    /\ Local(r, [call[r] EXCEPT !.snap = epoch])
    /\ Goto(r, IF call[r].platform = "android" THEN "session.epoch" ELSE "check.snapshot")
    /\ Quiet

-----------------------------------------------------------------------------
\* session_for

ReadEpoch(r) ==
    /\ pc[r] = "session.epoch"
    /\ Local(r, [call[r] EXCEPT !.read = epoch])
    /\ Goto(r, "session.cached")
    /\ Quiet

\* Fast path: the cached session is valid for the epoch read before.
CachedSession(r) ==
    /\ pc[r] = "session.cached"
    /\ LET s == sessions[AccountOf(r)] IN
       IF Valid(s, call[r].read)
       THEN SessionReady(r, s) /\ UNCHANGED <<context, history>>
       ELSE Proceed(r, "session.lock")

LockForSession(r) ==
    /\ pc[r] = "session.lock"
    /\ stateLock = NoRequest
    /\ stateLock' = r
    /\ Local(r, [call[r] EXCEPT !.inner = 0, !.fetching = "session"])
    /\ Goto(r, "session.snapshot")
    /\ UNCHANGED <<context, history>>

\* device_snapshot: device and epoch under one lock.
Hold(r) ==
    Local(r, [call[r] EXCEPT !.held = [epoch |-> epoch, device |-> device]])

SnapshotForSession(r) ==
    /\ pc[r] = "session.snapshot"
    /\ Hold(r)
    /\ Goto(r, "session.lookup")
    /\ Quiet

\* Mutant of LookupSession: no second look at the cache under the lock.
LookupSessionNot(r) == pc[r] = "session.lookup" /\ Proceed(r, "fetch.check")

\* Another request may have filled the cache while this one waited.
LookupSession(r) ==
    /\ pc[r] = "session.lookup"
    /\ LET s == sessions[AccountOf(r)] IN
       IF Valid(s, call[r].held.epoch)
       THEN SessionReady(r, s) /\ UNCHANGED <<context, history>>
       ELSE Proceed(r, "fetch.check")

\* Mutant of GetSessionReply: the session is tagged with the epoch of its arrival.
GetSessionReplyLate(r) ==
    /\ pc[r] = "session.post"
    /\ Local(r, [call[r] EXCEPT !.session =
          [sid |-> call[r].sid, acquired |-> clock, epoch |-> epoch]])
    /\ Goto(r, "session.verify")
    /\ Quiet

\* The answer arrives; fetch_session drops it if the device was replaced.
GetSessionReply(r) ==
    /\ pc[r] = "session.post"
    /\ IF epoch # call[r].held.epoch THEN Refetch(r)
       ELSE /\ Local(r, [call[r] EXCEPT !.session =
                  [sid |-> call[r].sid, acquired |-> clock, epoch |-> call[r].held.epoch]])
            /\ Goto(r, "session.verify")
            /\ Quiet

\* session_for compares the epochs once more before it takes the cache lock.
VerifySession(r) ==
    /\ pc[r] = "session.verify"
    /\ IF epoch # call[r].held.epoch THEN Refetch(r)
       ELSE Proceed(r, "session.insert")

InsertSession(r) ==
    /\ pc[r] = "session.insert"
    /\ sessions' = [sessions EXCEPT ![AccountOf(r)] = call[r].session]
    /\ SessionReady(r, call[r].session)
    /\ UNCHANGED <<credential, device, epoch, clock, invalidations, history>>

-----------------------------------------------------------------------------
\* get_cached_qimei and qimei_for_snapshot

CachedQimei(r) ==
    /\ pc[r] = "qimei.cached"
    /\ LET q == QimeiIfFresh(device) IN
       IF q # NoQimei THEN QimeiReady(r, q) /\ UNCHANGED <<context, history>>
       ELSE Proceed(r, "qimei.lock")

LockForQimei(r) ==
    /\ pc[r] = "qimei.lock"
    /\ stateLock = NoRequest
    /\ stateLock' = r
    /\ Local(r, [call[r] EXCEPT !.inner = 0, !.fetching = "qimei"])
    /\ Goto(r, "qimei.lookup")
    /\ UNCHANGED <<context, history>>

LookupQimei(r) ==
    /\ pc[r] = "qimei.lookup"
    /\ LET q == QimeiIfFresh(device) IN
       IF q # NoQimei THEN QimeiReady(r, q) /\ UNCHANGED <<context, history>>
       ELSE Proceed(r, "qimei.snapshot")

SnapshotForQimei(r) ==
    /\ pc[r] = "qimei.snapshot"
    /\ Hold(r)
    /\ Goto(r, "fetch.check")
    /\ Quiet

\* Nothing to fetch if the snapshot has a fresh QIMEI; else its epoch must hold.
CheckSnapshot(r) ==
    /\ pc[r] = "fetch.check"
    /\ LET q == QimeiIfFresh(call[r].held.device) IN
       IF q # NoQimei THEN Fetched(r, q) /\ UNCHANGED <<context, history>>
       ELSE IF epoch # call[r].held.epoch THEN Refetch(r)
       ELSE Proceed(r, "fetch.cache")

\* qimei_from_cache reads the current device, not the snapshot.
ReadCache(r) ==
    /\ pc[r] = "fetch.cache"
    /\ LET q == QimeiIfFresh(device) IN
       IF q # NoQimei THEN Fetched(r, q) /\ UNCHANGED <<context, history>>
       ELSE Proceed(r, "fetch.http")

\* fetch_qimei_http answers: no QIMEI could be parsed, or one that is committed next.
QimeiReply(r) ==
    /\ pc[r] = "fetch.http"
    /\ \E parsed \in BOOLEAN :
        IF epoch # call[r].held.epoch THEN Refetch(r)
        ELSE IF parsed THEN Proceed(r, "fetch.commit")
        ELSE Fetched(r, NoQimei) /\ UNCHANGED <<context, history>>

\* The fetched QIMEI, that of the held device, is written to the current one.
Commit(r) ==
    /\ device' = [device EXCEPT !.qimei = call[r].held.device.id, !.saved = clock]
    /\ Fetched(r, call[r].held.device.id)
    /\ UNCHANGED <<credential, epoch, sessions, clock, invalidations, history>>

\* Mutant of CommitQimei: no comparison under the device lock.
CommitQimeiBlindly(r) == pc[r] = "fetch.commit" /\ Commit(r)

\* commit_qimei compares the epochs and writes the device under one lock.
CommitQimei(r) ==
    /\ pc[r] = "fetch.commit"
    /\ IF epoch # call[r].held.epoch THEN Refetch(r)
       ELSE Commit(r)

-----------------------------------------------------------------------------
\* build_api_kwargs, after the session and the QIMEI are there

CheckSession(r) ==
    /\ pc[r] = "check.session"
    /\ IF call[r].session.epoch # epoch THEN Rebuild(r) ELSE Proceed(r, "check.snapshot")

CheckEpoch(r) ==
    /\ pc[r] = "check.snapshot"
    /\ IF epoch # call[r].snap THEN Rebuild(r)
       ELSE Proceed(r, IF call[r].platform = "android" THEN "qimei.cached" ELSE "check.qimei")

\* Mutant of CheckQimei: the epoch after get_cached_qimei is taken as it is.
CheckQimeiNot(r) ==
    /\ pc[r] = "check.qimei"
    /\ Local(r, [call[r] EXCEPT !.read = epoch])
    /\ Goto(r, "device")
    /\ Quiet

CheckQimei(r) ==
    /\ pc[r] = "check.qimei"
    /\ IF \/ epoch # call[r].snap
          \/ call[r].session # NoSession /\ call[r].session.epoch # epoch
       THEN Rebuild(r)
       ELSE /\ Local(r, [call[r] EXCEPT !.read = epoch])
            /\ Goto(r, "device")
            /\ Quiet

\* The device the comm is built from; a QIMEI committed to it replaces the
\* one get_cached_qimei returned.
ReadDevice(r) ==
    /\ pc[r] = "device"
    /\ Local(r, [call[r] EXCEPT !.device = device.id,
                     !.qimei = IF QimeiIfFresh(device) # NoQimei THEN device.qimei ELSE @])
    /\ Goto(r, "check.device")
    /\ Quiet

\* build_comm, from the locals.
BuildComm(r) ==
    /\ payload' = [payload EXCEPT ![r] =
          [credential |-> call[r].credential, device |-> call[r].device,
           qimei |-> call[r].qimei, session |-> call[r].session,
           platform |-> call[r].platform]]
    /\ Goto(r, "send")
    /\ UNCHANGED <<context, stateLock, call, cancelled, cookie, result, began>>

\* Mutant of Build: the device just read is trusted.
BuildUnchecked(r) == pc[r] = "check.device" /\ BuildComm(r)

\* The last comparison of epochs; then build_comm.
Build(r) ==
    /\ pc[r] = "check.device"
    /\ IF epoch # call[r].read THEN Rebuild(r) ELSE BuildComm(r)

\* Mutant of Send: the Cookie is that of the global credential.
SendGlobalCookie(r) ==
    /\ pc[r] = "send"
    /\ cookie' = [cookie EXCEPT ![r] = credential]
    /\ Goto(r, "reply")
    /\ UNCHANGED <<context, stateLock, call, cancelled, payload, result, began>>

\* The Cookie comes from the same credential; a cancelled call sends nothing.
Send(r) ==
    /\ pc[r] = "send"
    /\ IF cancelled[r] THEN Finish(r, "cancelled")
       ELSE /\ cookie' = [cookie EXCEPT ![r] = call[r].credential]
            /\ Goto(r, "reply")
            /\ UNCHANGED <<context, stateLock, call, cancelled, payload, result, began>>

\* The answer is parsed, or refused (response limit, status, envelope); a
\* call cancelled meanwhile does not return it.
Reply(r) ==
    /\ pc[r] = "reply" /\ r \notin Batches
    /\ \E good \in BOOLEAN :
        Finish(r, IF cancelled[r] THEN "cancelled" ELSE IF good THEN "ok" ELSE "error")

\* A batch looks at its token only inside the transport: an answer that came
\* before the cancellation is returned.
ReplyBatch(r) ==
    /\ pc[r] = "reply" /\ r \in Batches
    /\ \/ \E good \in BOOLEAN : Finish(r, IF good THEN "ok" ELSE "error")
       \/ cancelled[r] /\ Finish(r, "cancelled")

\* A transport, status or parse error of the QIMEI or GetSession request.
FetchError(r) ==
    /\ pc[r] \in {"fetch.http", "session.post"}
    /\ Finish(r, "error")

-----------------------------------------------------------------------------
\* The callers and the environment

\* The caller's token is cancelled.
Cancel(r) ==
    /\ r \in Cancellable
    /\ pc[r] \notin {"idle", "done"}
    /\ ~cancelled[r]
    /\ cancelled' = [cancelled EXCEPT ![r] = TRUE]
    /\ UNCHANGED <<context, stateLock, pc, call, payload, cookie, result, began>>

\* The caller drops the future at an await (a timeout or select! around it).
Drop(r) ==
    /\ pc[r] \in AwaitPoints
    /\ Finish(r, "dropped")

\* set_device (Client::load_device): a device as it was saved, with its own
\* QIMEI or none; device and epoch change under one lock.
SetDevice ==
    /\ epoch < MaxEpoch
    /\ \E id \in Devices, t \in 0..clock : \E q \in {NoQimei, id} :
        /\ q = NoQimei => t = 0
        /\ device' = [id |-> id, qimei |-> q, saved |-> t]
    /\ epoch' = epoch + 1
    /\ UNCHANGED <<credential, sessions, clock, invalidations, stateLock, pc, call, history>>

\* set_credential (a login, a switch of account, the local half of logout).
SetCredential ==
    /\ \E c \in Credentials : credential' = c
    /\ UNCHANGED <<device, epoch, sessions, clock, invalidations, stateLock, pc, call, history>>

\* invalidate_session, after a logout or a refresh.
InvalidateSession ==
    /\ \E m \in Accounts :
        /\ invalidations[m] < MaxInvalidations
        /\ sessions' = [sessions EXCEPT ![m] = NoSession]
        /\ invalidations' = [invalidations EXCEPT ![m] = @ + 1]
    /\ UNCHANGED <<credential, device, epoch, clock, stateLock, pc, call, history>>

Tick ==
    /\ clock < MaxClock
    /\ clock' = clock + 1
    /\ UNCHANGED <<credential, device, epoch, sessions, invalidations, stateLock, pc, call, history>>

-----------------------------------------------------------------------------
Init ==
    /\ credential \in Credentials
    /\ device \in {[id |-> id, qimei |-> NoQimei, saved |-> 0] : id \in Devices}
    /\ epoch = 0
    /\ sessions = [m \in Accounts |-> NoSession]
    /\ stateLock = NoRequest
    /\ clock = 0
    /\ pc = [r \in Requests |-> "idle"]
    /\ call = [r \in Requests |-> NoCall]
    /\ cancelled = [r \in Requests |-> FALSE]
    /\ payload = [r \in Requests |-> NoPayload]
    /\ cookie = [r \in Requests |-> NoCredential]
    /\ result = [r \in Requests |-> "none"]
    /\ began = [r \in Requests |-> NotBegun]
    /\ invalidations = [m \in Accounts |-> 0]

\* What the runtime and the transport (bounded by its timeouts) make happen.
Progress(r) ==
    \/ Admit(r) \/ AdmitBatch(r) \/ Snapshot(r)
    \/ ReadEpoch(r) \/ CachedSession(r) \/ LockForSession(r) \/ SnapshotForSession(r)
    \/ LookupSession(r) \/ GetSessionReply(r) \/ VerifySession(r) \/ InsertSession(r)
    \/ CachedQimei(r) \/ LockForQimei(r) \/ LookupQimei(r) \/ SnapshotForQimei(r)
    \/ CheckSnapshot(r) \/ ReadCache(r) \/ QimeiReply(r) \/ CommitQimei(r)
    \/ CheckSession(r) \/ CheckEpoch(r) \/ CheckQimei(r) \/ ReadDevice(r)
    \/ Build(r) \/ Send(r) \/ Reply(r) \/ ReplyBatch(r) \/ FetchError(r)

Environment == SetDevice \/ SetCredential \/ InvalidateSession \/ Tick

Next ==
    \/ \E r \in Requests : Invoke(r) \/ Progress(r) \/ Cancel(r) \/ Drop(r)
    \/ Environment

Spec == Init /\ [][Next]_vars

-----------------------------------------------------------------------------
\* Properties

\* The variables hold what the code's types allow.
TypeOK ==
    /\ credential \in Credentials
    /\ device \in Device
    /\ epoch \in Nat
    /\ sessions \in [Accounts -> AndroidSession \cup {NoSession}]
    /\ stateLock \in Requests \cup {NoRequest}
    /\ clock \in Nat
    /\ pc \in [Requests -> Labels]
    /\ call \in [Requests -> CallLocals]
    /\ cancelled \in [Requests -> BOOLEAN]
    /\ payload \in [Requests -> Comm \cup {NoPayload}]
    /\ cookie \in [Requests -> Credentials \cup {NoCredential}]
    /\ result \in [Requests -> Results]
    /\ began \in [Requests -> [epoch : Nat, clock : Nat]]
    /\ invalidations \in [Accounts -> Nat]

\* The identity a session or a QIMEI was issued to is that of device d.
QimeiOf(q, d) == q \in {NoQimei, d}
IssuedTo(s, d) == s.sid.device = d /\ QimeiOf(s.sid.qimei, d)

\* Whatever set_device does while a request is built, the comm that goes out
\* carries one device: its session was issued to it and its QIMEI is its own.
OneDevice ==
    \A r \in Requests :
        payload[r] # NoPayload /\ payload[r].platform = "android" =>
            /\ payload[r].session # NoSession
            /\ IssuedTo(payload[r].session, payload[r].device)
            /\ QimeiOf(payload[r].qimei, payload[r].device)

\* Whatever set_credential does meanwhile, comm, Cookie and session of a
\* request belong to one account ("credential A + session B" cannot happen).
OneAccount ==
    \A r \in Requests : payload[r] # NoPayload =>
        /\ cookie[r] \in {NoCredential, payload[r].credential}
        /\ payload[r].session # NoSession =>
             payload[r].session.sid.credential.musicid = payload[r].credential.musicid

\* A QIMEI or session applied for under a replaced device never reaches the
\* new one: the device keeps its own QIMEI, and a cached session of the
\* current epoch was issued to the current device.
NoWriteBack ==
    /\ QimeiOf(device.qimei, device.id)
    /\ \A m \in Accounts : sessions[m] # NoSession /\ sessions[m].epoch = epoch =>
            IssuedTo(sessions[m], device.id)

\* A call gives up with device_replaced_error only if the device really was
\* replaced MAX_DEVICE_RETRIES times while the call ran.
GivesUpForCause ==
    [][\A r \in Requests :
        result[r] = "none" /\ result'[r] = "device replaced" =>
            began[r].epoch + MaxDeviceRetries <= epoch]_vars

\* state_lock singleflight: its holder is the request between acquiring and
\* releasing it, so no returned, failed or dropped call leaves it taken.
SingleFlight == \A r \in Requests : pc[r] \in Locked <=> stateLock = r

\* Concurrent requests with a stale cache apply once: a GetSession or a QIMEI
\* request is under way only while there is no usable answer to share.
AppliesOnce ==
    \A r \in Requests : call[r].held.epoch = epoch =>
        /\ pc[r] = "session.post" => ~Valid(sessions[AccountOf(r)], epoch)
        /\ pc[r] = "fetch.http" => QimeiIfFresh(device) = NoQimei

\* A call never sends a session that had expired before the call was made.
UsableWhenCalled ==
    \A r \in Requests :
        payload[r] # NoPayload /\ payload[r].session # NoSession =>
            began[r].clock < payload[r].session.acquired + Lifetime

-----------------------------------------------------------------------------
\* The inductive invariant behind OneDevice, OneAccount, NoWriteBack,
\* SingleFlight and GivesUpForCause.  It relates what a request holds to the
\* current epoch: whatever was read, fetched or cached under the epoch that is
\* still current belongs to the current device; nothing is said of the rest.

\* A device_snapshot taken by session_for or get_cached_qimei is in use.
Holding == {"session.lookup", "session.post", "session.verify", "session.insert",
    "fetch.check", "fetch.cache", "fetch.http", "fetch.commit"}

\* A turn of build_api_kwargs' loop has begun.
Building(r) == pc[r] \notin {"idle", "limiter", "snapshot", "done"}

\* session_for has returned in this turn.
AfterSession(r) ==
    \/ pc[r] \in {"check.session", "check.snapshot", "qimei.cached", "qimei.lock",
         "qimei.lookup", "qimei.snapshot", "check.qimei", "device", "check.device"}
    \/ /\ pc[r] \in {"fetch.check", "fetch.cache", "fetch.http", "fetch.commit"}
       /\ call[r].fetching = "qimei"

AfterQimei == {"check.qimei", "device", "check.device", "send", "reply"}

\* Every turn of a loop that `continue`d has seen one more replacement.
EpochInv(r) ==
    /\ pc[r] \in {"limiter", "snapshot"} => began[r].epoch + call[r].tries <= epoch
    /\ Building(r) => /\ began[r].epoch + call[r].tries <= call[r].snap
                      /\ call[r].snap <= epoch
    /\ pc[r] \in Locked => began[r].epoch + call[r].inner <= epoch
    /\ pc[r] \in Holding => /\ began[r].epoch + call[r].inner <= call[r].held.epoch
                            /\ call[r].snap <= call[r].held.epoch
                            /\ call[r].held.epoch <= epoch
    /\ pc[r] = "session.cached" => call[r].snap <= call[r].read /\ call[r].read <= epoch
    /\ pc[r] \in {"device", "check.device"} => call[r].read = call[r].snap

\* What the fetch under state_lock holds.
FetchInv(r) ==
    /\ pc[r] \in {"session.snapshot", "session.lookup", "session.post",
                  "session.verify", "session.insert"} => call[r].fetching = "session"
    /\ pc[r] \in {"qimei.lookup", "qimei.snapshot"} => call[r].fetching = "qimei"
    /\ pc[r] \in Holding =>
        /\ QimeiOf(call[r].held.device.qimei, call[r].held.device.id)
        /\ call[r].held.epoch = epoch => call[r].held.device.id = device.id
    /\ pc[r] = "session.post" =>
        /\ call[r].sid.credential = call[r].credential
        /\ call[r].sid.device = call[r].held.device.id
        /\ call[r].held.epoch = epoch => QimeiOf(call[r].sid.qimei, call[r].sid.device)
    /\ pc[r] \in {"session.verify", "session.insert"} =>
        /\ call[r].session # NoSession
        /\ call[r].session.epoch = call[r].held.epoch

\* The session a request holds.
SessionInv(r) ==
    /\ Building(r) /\ call[r].session # NoSession =>
        /\ call[r].session.sid.credential.musicid = AccountOf(r)
        /\ call[r].snap <= call[r].session.epoch
        /\ call[r].session.epoch <= epoch
        /\ call[r].session.epoch = epoch => IssuedTo(call[r].session, device.id)
    /\ AfterSession(r) /\ call[r].platform = "android" => call[r].session # NoSession
    /\ pc[r] = "check.session" => call[r].session # NoSession
    /\ pc[r] = "snapshot" => call[r].session = NoSession

\* The QIMEI and the device it is about to send.
IdentityInv(r) ==
    /\ pc[r] \notin AfterQimei => call[r].qimei = NoQimei
    /\ pc[r] \in {"check.qimei", "device", "check.device"} /\ call[r].snap = epoch =>
        QimeiOf(call[r].qimei, device.id)
    /\ pc[r] = "check.device" /\ call[r].read = epoch => call[r].device = device.id

PayloadInv(r) ==
    /\ pc[r] \in {"send", "reply"} <=> payload[r] # NoPayload
    /\ pc[r] = "send" => payload[r].credential = call[r].credential
    /\ pc[r] \in {"idle", "limiter", "done"} => call[r] = NoCall
    /\ pc[r] # "reply" => cookie[r] = NoCredential

RequestInv(r) ==
    EpochInv(r) /\ FetchInv(r) /\ SessionInv(r) /\ IdentityInv(r) /\ PayloadInv(r)

CacheInv ==
    \A m \in Accounts : sessions[m] # NoSession =>
        /\ sessions[m].sid.credential.musicid = m
        /\ sessions[m].epoch <= epoch

IInv ==
    /\ TypeOK
    /\ SingleFlight
    /\ NoWriteBack
    /\ OneDevice
    /\ OneAccount
    /\ CacheInv
    /\ \A r \in Requests : RequestInv(r)

-----------------------------------------------------------------------------
\* The refinement: what a request is bound to is its payload.
Phase(r) ==
    CASE pc[r] = "idle" -> "idle"
      [] pc[r] = "done" -> "closed"
      [] pc[r] \in {"send", "reply"} -> "bound"
      [] OTHER -> "open"

SessionOwner(s) ==
    IF s = NoSession THEN NoSession
    ELSE [musicid |-> s.sid.credential.musicid, device |-> s.sid.device]

Binding(r) ==
    IF payload[r] = NoPayload THEN NoPayload
    ELSE [credential |-> payload[r].credential, device |-> payload[r].device,
          qimei |-> payload[r].qimei, session |-> SessionOwner(payload[r].session)]

Bound == INSTANCE BoundRequest WITH
    current <- device.id,
    phase <- [r \in Requests |-> Phase(r)],
    binding <- [r \in Requests |-> Binding(r)],
    NoBinding <- NoPayload

\* Every request is bound at one instant, as a whole, to the device identity
\* current at that instant (build_api_kwargs' last comparison of epochs).
BoundAtOnce == Bound!Spec

\* docs/architecture.md:30: a GetSession request is bound to the device
\* snapshot it starts from. Violated: see the README.
GetSessionBound ==
    \A r \in Requests : pc[r] = "session.post" =>
        QimeiOf(call[r].sid.qimei, call[r].sid.device)

\* src/modules/login.rs:478: a session applied for before the account was
\* invalidated is not usable any more. Violated: see the README.
InvalidationSticks ==
    \A m \in Accounts :
        sessions[m] # NoSession => sessions[m].sid.gen = invalidations[m]
=============================================================================
