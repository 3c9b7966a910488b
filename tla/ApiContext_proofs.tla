-------------------------- MODULE ApiContext_proofs --------------------------
(***************************************************************************)
(* Proofs about ApiContext, for every set of requests, credentials and     *)
(* devices and every value of the bounds: its types, and its inductive     *)
(* invariant, one device and one account per request, nothing written back *)
(* to a replaced device, and state_lock held exactly by the request        *)
(* applying.                                                               *)
(***************************************************************************)
EXTENDS ApiContext, TLAPS

-----------------------------------------------------------------------------
\* Types

LEMMA ZeroTurns == 0 \in 0 .. MaxDeviceRetries - 1
<1>1. MaxDeviceRetries \in Nat /\ MaxDeviceRetries > 0
  BY ContextAssumption
<1>2. QED
  BY <1>1

LEMMA NoCallType == NoCall \in CallLocals
<1>1. AnyDevice \in Devices
  BY ContextAssumption DEF AnyDevice
<1>2. AnyPlatform \in Platforms
  BY ContextAssumption DEF AnyPlatform
<1>3. LoggedOut \in Credentials
  BY ContextAssumption DEF LoggedOut
<1>4. QED
  BY <1>1, <1>2, <1>3, ZeroTurns DEF NoCall, CallLocals, Device, Sid

\* A call's account is a key of the session cache.
LEMMA AccountType ==
    ASSUME TypeOK, NEW r \in Requests
    PROVE  AccountOf(r) \in Accounts
  BY DEF TypeOK, AccountOf, Accounts, CallLocals

\* Locals stay well typed when a field is given a value of its type.
LEMMA UpdateType ==
    ASSUME NEW c \in CallLocals
    PROVE  /\ \A e \in Nat : [c EXCEPT !.snap = e] \in CallLocals
           /\ \A e \in Nat : [c EXCEPT !.read = e] \in CallLocals
           /\ \A s \in AndroidSession \cup {NoSession} :
                [c EXCEPT !.session = s] \in CallLocals
           /\ \A q \in Devices \cup {NoQimei} : [c EXCEPT !.qimei = q] \in CallLocals
           /\ \A h \in [epoch : Nat, device : Device] :
                [c EXCEPT !.held = h] \in CallLocals
           /\ \A s \in Sid : [c EXCEPT !.sid = s] \in CallLocals
           /\ \A d \in Devices, q \in Devices \cup {NoQimei} :
                [c EXCEPT !.device = d, !.qimei = q] \in CallLocals
           /\ \A i \in 0 .. MaxDeviceRetries - 1, f \in {"session", "qimei"} :
                [c EXCEPT !.inner = i, !.fetching = f] \in CallLocals
           /\ \A i \in 0 .. MaxDeviceRetries - 1 : [c EXCEPT !.inner = i] \in CallLocals
           /\ \A k \in Credentials, p \in Platforms :
                [c EXCEPT !.credential = k, !.platform = p] \in CallLocals
           /\ \A i \in 0 .. MaxDeviceRetries - 1, k \in Credentials, p \in Platforms :
                [c EXCEPT !.tries = i, !.credential = k, !.platform = p] \in CallLocals
  BY DEF CallLocals

\* The fields of a call that runs.
LEMMA FieldType ==
    ASSUME TypeOK, NEW r \in Requests
    PROVE  /\ call[r] \in CallLocals
           /\ call[r].credential \in Credentials
           /\ call[r].platform \in Platforms
           /\ call[r].tries \in 0 .. MaxDeviceRetries - 1
           /\ call[r].inner \in 0 .. MaxDeviceRetries - 1
           /\ call[r].snap \in Nat /\ call[r].read \in Nat
           /\ call[r].held.epoch \in Nat /\ call[r].held.device.id \in Devices
           /\ call[r].held.device \in Device
           /\ call[r].fetching \in {"session", "qimei"}
           /\ call[r].sid \in Sid
           /\ call[r].session \in AndroidSession \cup {NoSession}
           /\ call[r].qimei \in Devices \cup {NoQimei}
           /\ call[r].device \in Devices
  BY DEF TypeOK, CallLocals, Device

LEMMA QimeiType ==
    ASSUME TypeOK, NEW d \in Device
    PROVE  QimeiIfFresh(d) \in Devices \cup {NoQimei}
  BY DEF QimeiIfFresh, Device

\* What every step of a call does to its own program counter and locals.
LEMMA MoveType ==
    ASSUME TypeOK, NEW r \in Requests, NEW l \in Labels, NEW c \in CallLocals,
           Goto(r, l), Local(r, c)
    PROVE  pc' \in [Requests -> Labels] /\ call' \in [Requests -> CallLocals]
  BY DEF TypeOK, Goto, Local

LEMMA ContextType ==
    ASSUME TypeOK, UNCHANGED context
    PROVE  /\ credential' \in Credentials /\ device' \in Device /\ epoch' \in Nat
           /\ sessions' \in [Accounts -> AndroidSession \cup {NoSession}]
           /\ clock' \in Nat /\ invalidations' \in [Accounts -> Nat]
  BY DEF TypeOK, context

LEMMA HistoryType ==
    ASSUME TypeOK, UNCHANGED history
    PROVE  /\ cancelled' \in [Requests -> BOOLEAN]
           /\ payload' \in [Requests -> Comm \cup {NoPayload}]
           /\ cookie' \in [Requests -> Credentials \cup {NoCredential}]
           /\ result' \in [Requests -> Results]
           /\ began' \in [Requests -> [epoch : Nat, clock : Nat]]
  BY DEF TypeOK, history

LEMMA QuietType ==
    ASSUME TypeOK, NEW r \in Requests, NEW l \in Labels, NEW c \in CallLocals,
           Goto(r, l), Local(r, c), UNCHANGED <<context, history>>,
           stateLock' \in Requests \cup {NoRequest}
    PROVE  TypeOK'
  BY MoveType, ContextType, HistoryType DEF TypeOK

LEMMA ProceedType ==
    ASSUME TypeOK, NEW r \in Requests, NEW l \in Labels, Proceed(r, l)
    PROVE  TypeOK'
  BY ContextType, HistoryType DEF TypeOK, Proceed, Goto, Quiet

LEMMA FinishType ==
    ASSUME TypeOK, NEW r \in Requests, NEW o \in Results, Finish(r, o)
    PROVE  TypeOK'
<1>1. pc' \in [Requests -> Labels] /\ call' \in [Requests -> CallLocals]
  BY MoveType, NoCallType DEF Finish, Labels
<1>2. QED
  BY <1>1, ContextType DEF TypeOK, Finish, NotBegun

LEMMA RebuildType ==
    ASSUME TypeOK, NEW r \in Requests, Rebuild(r)
    PROVE  TypeOK'
<1>1. CASE call[r].tries + 1 = MaxDeviceRetries
  BY <1>1, FinishType DEF Rebuild, Results
<1>2. CASE call[r].tries + 1 # MaxDeviceRetries
  <2>1. call[r].tries + 1 \in 0 .. MaxDeviceRetries - 1
    <3>1. MaxDeviceRetries \in Nat /\ call[r].tries \in 0 .. MaxDeviceRetries - 1
      BY FieldType, ContextAssumption
    <3>2. QED
      BY <1>2, <3>1
  <2> DEFINE c == [NoCall EXCEPT !.tries = call[r].tries + 1,
                     !.credential = call[r].credential, !.platform = call[r].platform]
  <2>2. c \in CallLocals
    BY <2>1, FieldType, UpdateType, NoCallType
  <2>3. Goto(r, "snapshot") /\ Local(r, c) /\ Quiet
    BY <1>2 DEF Rebuild, Turn
  <2>4. QED
    BY <2>2, <2>3, QuietType DEF Quiet, Labels, TypeOK
<1>3. QED
  BY <1>1, <1>2

LEMMA RefetchType ==
    ASSUME TypeOK, NEW r \in Requests, Refetch(r)
    PROVE  TypeOK'
<1>1. CASE call[r].inner + 1 = MaxDeviceRetries
  BY <1>1, FinishType DEF Refetch, Results
<1>2. CASE call[r].inner + 1 # MaxDeviceRetries
  <2>1. call[r].inner + 1 \in 0 .. MaxDeviceRetries - 1
    <3>1. MaxDeviceRetries \in Nat /\ call[r].inner \in 0 .. MaxDeviceRetries - 1
      BY FieldType, ContextAssumption
    <3>2. QED
      BY <1>2, <3>1
  <2> DEFINE c == [call[r] EXCEPT !.inner = call[r].inner + 1]
  <2>2. c \in CallLocals
    BY <2>1, FieldType, UpdateType
  <2>3. PICK l \in {"session.snapshot", "qimei.lookup"} :
          Goto(r, l) /\ Local(r, c) /\ Quiet
    BY <1>2 DEF Refetch
  <2>4. QED
    BY <2>2, <2>3, QuietType DEF Quiet, Labels, TypeOK
<1>3. QED
  BY <1>1, <1>2

LEMMA GrantType ==
    ASSUME TypeOK, NEW r \in Requests, Grant(r)
    PROVE  TypeOK'
<1>1. CASE Finish(r, "login required")
  BY <1>1, FinishType DEF Results
<1>2. CASE \E k \in Credentials, p \in Platforms :
             /\ Local(r, [call[r] EXCEPT !.credential = k, !.platform = p])
             /\ Goto(r, "snapshot") /\ Quiet
  <2>1. PICK k \in Credentials, p \in Platforms :
             /\ Local(r, [call[r] EXCEPT !.credential = k, !.platform = p])
             /\ Goto(r, "snapshot") /\ Quiet
    BY <1>2
  <2>2. [call[r] EXCEPT !.credential = k, !.platform = p] \in CallLocals
    BY FieldType, UpdateType
  <2>3. QED
    BY <2>1, <2>2, QuietType DEF Quiet, TypeOK, Labels
<1>3. QED
  BY <1>1, <1>2 DEF Grant, TypeOK

LEMMA SessionReadyType ==
    ASSUME TypeOK, NEW r \in Requests, NEW s \in AndroidSession \cup {NoSession},
           SessionReady(r, s), UNCHANGED <<context, history>>
    PROVE  TypeOK'
<1>1. [call[r] EXCEPT !.session = s] \in CallLocals
  BY FieldType, UpdateType
<1>2. stateLock' \in Requests \cup {NoRequest}
  BY DEF SessionReady, TypeOK
<1>3. QED
  BY <1>1, <1>2, QuietType DEF SessionReady, Labels

\* The context may change as well: commit_qimei writes the device.
LEMMA FetchedType ==
    ASSUME TypeOK, NEW r \in Requests, NEW q \in Devices \cup {NoQimei},
           Fetched(r, q) \/ QimeiReady(r, q)
    PROVE  /\ pc' \in [Requests -> Labels] /\ call' \in [Requests -> CallLocals]
           /\ stateLock' \in Requests \cup {NoRequest}
<1>1. CASE PostGetSession(r, q)
  <2> DEFINE s == [credential |-> call[r].credential, device |-> call[r].held.device.id,
                   qimei |-> q, gen |-> invalidations[AccountOf(r)]]
  <2>1. s \in Sid
    BY FieldType, AccountType DEF Sid, TypeOK
  <2>2. [call[r] EXCEPT !.sid = s] \in CallLocals
    BY <2>1, FieldType, UpdateType
  <2>3. QED
    BY <2>2, <1>1, MoveType DEF PostGetSession, Labels, TypeOK
<1>2. CASE QimeiReady(r, q)
  <2>1. [call[r] EXCEPT !.qimei = q] \in CallLocals
    BY FieldType, UpdateType
  <2>2. QED
    BY <2>1, <1>2, MoveType DEF QimeiReady, Labels, TypeOK
<1>3. QED
  BY <1>1, <1>2 DEF Fetched

LEMMA FetchedQuietType ==
    ASSUME TypeOK, NEW r \in Requests, NEW q \in Devices \cup {NoQimei},
           Fetched(r, q) \/ QimeiReady(r, q), UNCHANGED <<context, history>>
    PROVE  TypeOK'
  BY FetchedType, ContextType, HistoryType DEF TypeOK

\* Every step keeps the variables well typed.
LEMMA TypeStep == TypeOK /\ [Next]_vars => TypeOK'
<1> SUFFICES ASSUME TypeOK, [Next]_vars
             PROVE  TypeOK'
  OBVIOUS
<1>1. ASSUME NEW r \in Requests, Invoke(r)
      PROVE  TypeOK'
  BY <1>1, ContextType DEF Invoke, TypeOK, Goto, Labels
<1>2. ASSUME NEW r \in Requests, Admit(r)
      PROVE  TypeOK'
  BY <1>2, GrantType, FinishType DEF Admit, Results
<1>3. ASSUME NEW r \in Requests, AdmitBatch(r)
      PROVE  TypeOK'
  BY <1>3, GrantType DEF AdmitBatch
<1>4. ASSUME NEW r \in Requests, Snapshot(r)
      PROVE  TypeOK'
  <2>1. [call[r] EXCEPT !.snap = epoch] \in CallLocals
    BY FieldType, UpdateType DEF TypeOK
  <2>2. QED
    BY <2>1, <1>4, QuietType DEF Snapshot, Quiet, TypeOK, Labels
<1>5. ASSUME NEW r \in Requests, ReadEpoch(r)
      PROVE  TypeOK'
  <2>1. [call[r] EXCEPT !.read = epoch] \in CallLocals
    BY FieldType, UpdateType DEF TypeOK
  <2>2. QED
    BY <2>1, <1>5, QuietType DEF ReadEpoch, Quiet, TypeOK, Labels
<1>6. ASSUME NEW r \in Requests, CachedSession(r)
      PROVE  TypeOK'
  BY <1>6, SessionReadyType, ProceedType, AccountType DEF CachedSession, TypeOK, Labels
<1>7. ASSUME NEW r \in Requests, LockForSession(r)
      PROVE  TypeOK'
  <2>1. [call[r] EXCEPT !.inner = 0, !.fetching = "session"] \in CallLocals
    BY FieldType, UpdateType, ZeroTurns
  <2>2. QED
    BY <2>1, <1>7, QuietType DEF LockForSession, Labels
<1>8. ASSUME NEW r \in Requests, LockForQimei(r)
      PROVE  TypeOK'
  <2>1. [call[r] EXCEPT !.inner = 0, !.fetching = "qimei"] \in CallLocals
    BY FieldType, UpdateType, ZeroTurns
  <2>2. QED
    BY <2>1, <1>8, QuietType DEF LockForQimei, Labels
<1>9. ASSUME NEW r \in Requests, SnapshotForSession(r)
      PROVE  TypeOK'
  <2>1. [call[r] EXCEPT !.held = [epoch |-> epoch, device |-> device]] \in CallLocals
    BY FieldType, UpdateType DEF TypeOK
  <2>2. QED
    BY <2>1, <1>9, QuietType DEF SnapshotForSession, Hold, Quiet, TypeOK, Labels
<1>10. ASSUME NEW r \in Requests, SnapshotForQimei(r)
      PROVE  TypeOK'
  <2>1. [call[r] EXCEPT !.held = [epoch |-> epoch, device |-> device]] \in CallLocals
    BY FieldType, UpdateType DEF TypeOK
  <2>2. QED
    BY <2>1, <1>10, QuietType DEF SnapshotForQimei, Hold, Quiet, TypeOK, Labels
<1>11. ASSUME NEW r \in Requests, LookupSession(r)
      PROVE  TypeOK'
  BY <1>11, SessionReadyType, ProceedType, AccountType DEF LookupSession, TypeOK, Labels
<1>12. ASSUME NEW r \in Requests, GetSessionReply(r)
      PROVE  TypeOK'
  <2> DEFINE s == [sid |-> call[r].sid, acquired |-> clock, epoch |-> call[r].held.epoch]
  <2>1. s \in AndroidSession
    BY FieldType DEF AndroidSession, TypeOK
  <2>2. [call[r] EXCEPT !.session = s] \in CallLocals
    BY <2>1, FieldType, UpdateType
  <2>3. QED
    BY <2>2, <1>12, QuietType, RefetchType DEF GetSessionReply, Quiet, TypeOK, Labels
<1>13. ASSUME NEW r \in Requests, VerifySession(r)
      PROVE  TypeOK'
  BY <1>13, ProceedType, RefetchType DEF VerifySession, Labels
<1>14. ASSUME NEW r \in Requests, InsertSession(r)
      PROVE  TypeOK'
  <2>1. [call[r] EXCEPT !.session = call[r].session] \in CallLocals
    BY FieldType, UpdateType
  <2>2. pc' \in [Requests -> Labels] /\ call' \in [Requests -> CallLocals]
    BY <2>1, <1>14, MoveType DEF InsertSession, SessionReady, Labels
  <2>3. sessions' \in [Accounts -> AndroidSession \cup {NoSession}]
    BY <1>14, FieldType DEF InsertSession, TypeOK
  <2>4. stateLock' \in Requests \cup {NoRequest}
    BY <1>14 DEF InsertSession, SessionReady, TypeOK
  <2>5. QED
    BY <2>2, <2>3, <2>4, <1>14, HistoryType DEF InsertSession, TypeOK
<1>15. ASSUME NEW r \in Requests, CachedQimei(r)
      PROVE  TypeOK'
  <2>1. QimeiIfFresh(device) \in Devices \cup {NoQimei}
    BY QimeiType DEF TypeOK
  <2>2. QED
    BY <2>1, <1>15, FetchedQuietType, ProceedType DEF CachedQimei, Labels
<1>16. ASSUME NEW r \in Requests, LookupQimei(r)
      PROVE  TypeOK'
  <2>1. QimeiIfFresh(device) \in Devices \cup {NoQimei}
    BY QimeiType DEF TypeOK
  <2>2. QED
    BY <2>1, <1>16, FetchedQuietType, ProceedType DEF LookupQimei, Labels
<1>17. ASSUME NEW r \in Requests, CheckSnapshot(r)
      PROVE  TypeOK'
  <2>1. QimeiIfFresh(call[r].held.device) \in Devices \cup {NoQimei}
    BY QimeiType, FieldType
  <2>2. QED
    BY <2>1, <1>17, FetchedQuietType, ProceedType, RefetchType DEF CheckSnapshot, Labels
<1>18. ASSUME NEW r \in Requests, ReadCache(r)
      PROVE  TypeOK'
  <2>1. QimeiIfFresh(device) \in Devices \cup {NoQimei}
    BY QimeiType DEF TypeOK
  <2>2. QED
    BY <2>1, <1>18, FetchedQuietType, ProceedType DEF ReadCache, Labels
<1>19. ASSUME NEW r \in Requests, QimeiReply(r)
      PROVE  TypeOK'
  BY <1>19, FetchedQuietType, ProceedType, RefetchType DEF QimeiReply, Labels
<1>20. ASSUME NEW r \in Requests, CommitQimei(r)
      PROVE  TypeOK'
  <2>1. CASE Refetch(r)
    BY <2>1, RefetchType
  <2>2. CASE Commit(r)
    <3>1. call[r].held.device.id \in Devices
      BY FieldType
    <3>2. device' \in Device
      BY <3>1, <2>2 DEF Commit, TypeOK, Device
    <3>3. QED
      BY <3>1, <3>2, <2>2, FetchedType, HistoryType DEF Commit, TypeOK
  <2>3. QED
    BY <2>1, <2>2, <1>20 DEF CommitQimei
<1>21. ASSUME NEW r \in Requests, CheckSession(r)
      PROVE  TypeOK'
  BY <1>21, RebuildType, ProceedType DEF CheckSession, Labels
<1>22. ASSUME NEW r \in Requests, CheckEpoch(r)
      PROVE  TypeOK'
  BY <1>22, RebuildType, ProceedType DEF CheckEpoch, Labels
<1>23. ASSUME NEW r \in Requests, CheckQimei(r)
      PROVE  TypeOK'
  <2>1. [call[r] EXCEPT !.read = epoch] \in CallLocals
    BY FieldType, UpdateType DEF TypeOK
  <2>2. QED
    BY <2>1, <1>23, QuietType, RebuildType DEF CheckQimei, Quiet, TypeOK, Labels
<1>24. ASSUME NEW r \in Requests, ReadDevice(r)
      PROVE  TypeOK'
  <2> DEFINE q == IF QimeiIfFresh(device) # NoQimei THEN device.qimei ELSE call[r].qimei
  <2>1. device.id \in Devices /\ q \in Devices \cup {NoQimei}
    BY FieldType DEF TypeOK, Device
  <2>2. [call[r] EXCEPT !.device = device.id, !.qimei = q] \in CallLocals
    BY <2>1, FieldType, UpdateType
  <2>3. QED
    BY <2>2, <1>24, QuietType DEF ReadDevice, Quiet, TypeOK, Labels
<1>25. ASSUME NEW r \in Requests, Build(r)
      PROVE  TypeOK'
  <2>1. CASE Rebuild(r)
    BY <2>1, RebuildType
  <2>2. CASE BuildComm(r)
    <3>1. [credential |-> call[r].credential, device |-> call[r].device,
           qimei |-> call[r].qimei, session |-> call[r].session,
           platform |-> call[r].platform] \in Comm
      BY FieldType DEF Comm
    <3>2. payload' \in [Requests -> Comm \cup {NoPayload}]
      BY <3>1, <2>2 DEF BuildComm, TypeOK
    <3>3. QED
      BY <3>2, <2>2, ContextType DEF BuildComm, TypeOK, Goto, Labels
  <2>3. QED
    BY <2>1, <2>2, <1>25 DEF Build
<1>26. ASSUME NEW r \in Requests, Send(r)
      PROVE  TypeOK'
  <2>1. CASE Finish(r, "cancelled")
    BY <2>1, FinishType DEF Results
  <2>2. CASE cookie' = [cookie EXCEPT ![r] = call[r].credential] /\ ~cancelled[r]
    BY <2>2, <1>26, FieldType, ContextType DEF Send, TypeOK, Goto, Labels
  <2>3. QED
    BY <2>1, <2>2, <1>26 DEF Send
<1>27. ASSUME NEW r \in Requests, Reply(r)
      PROVE  TypeOK'
  BY <1>27, FinishType DEF Reply, Results
<1>28. ASSUME NEW r \in Requests, ReplyBatch(r)
      PROVE  TypeOK'
  BY <1>28, FinishType DEF ReplyBatch, Results
<1>29. ASSUME NEW r \in Requests, FetchError(r)
      PROVE  TypeOK'
  BY <1>29, FinishType DEF FetchError, Results
<1>30. ASSUME NEW r \in Requests, Cancel(r)
      PROVE  TypeOK'
  BY <1>30, ContextType DEF Cancel, TypeOK
<1>31. ASSUME NEW r \in Requests, Drop(r)
      PROVE  TypeOK'
  BY <1>31, FinishType DEF Drop, Results
<1>32. ASSUME SetDevice
      PROVE  TypeOK'
  BY <1>32, HistoryType DEF SetDevice, TypeOK, Device
<1>33. ASSUME SetCredential
      PROVE  TypeOK'
  BY <1>33, HistoryType DEF SetCredential, TypeOK
<1>34. ASSUME InvalidateSession
      PROVE  TypeOK'
  BY <1>34, HistoryType DEF InvalidateSession, TypeOK
<1>35. ASSUME Tick
      PROVE  TypeOK'
  BY <1>35, HistoryType DEF Tick, TypeOK
<1>36. CASE UNCHANGED vars
  BY <1>36, ContextType, HistoryType DEF vars, TypeOK
<1>37. QED
  BY <1>1, <1>2, <1>3, <1>4, <1>5, <1>6, <1>7, <1>8, <1>9, <1>10, <1>11,
     <1>12, <1>13, <1>14, <1>15, <1>16, <1>17, <1>18, <1>19, <1>20,
     <1>21, <1>22, <1>23, <1>24, <1>25, <1>26, <1>27, <1>28, <1>29,
     <1>30, <1>31, <1>32, <1>33, <1>34, <1>35, <1>36
     DEF Next, Progress, Environment

LEMMA TypeInit == Init => TypeOK
<1> SUFFICES ASSUME Init
             PROVE  TypeOK
  OBVIOUS
<1>1. device \in Device
  BY DEF Init, Device
<1>2. QED
  BY <1>1, NoCallType DEF Init, TypeOK, Labels, Results, NotBegun

\* The variables always hold what the code's types allow; the counters of the
\* retry loops stay below MAX_DEVICE_RETRIES.
THEOREM TypeCorrect == Spec => []TypeOK
  BY TypeInit, TypeStep, PTL DEF Spec

-----------------------------------------------------------------------------
\* What a step leaves alone

Untouched(q) ==
    /\ pc'[q] = pc[q] /\ call'[q] = call[q]
    /\ payload'[q] = payload[q] /\ cookie'[q] = cookie[q] /\ began'[q] = began[q]

\* The part of the context RequestInv speaks of.
SameIdentity == epoch' = epoch /\ device'.id = device.id

LEMMA Frame ==
    ASSUME NEW q \in Requests, RequestInv(q), Untouched(q), SameIdentity
    PROVE  RequestInv(q)'
<1> USE DEF Untouched, SameIdentity
<1>1. EpochInv(q)'
  BY DEF RequestInv, EpochInv, Building
<1>2. FetchInv(q)'
  BY DEF RequestInv, FetchInv, QimeiOf
<1>3. SessionInv(q)'
  BY DEF RequestInv, SessionInv, Building, AfterSession, AccountOf, IssuedTo, QimeiOf
<1>4. IdentityInv(q)'
  BY DEF RequestInv, IdentityInv, QimeiOf
<1>5. PayloadInv(q)'
  BY DEF RequestInv, PayloadInv
<1>6. QED
  BY <1>1, <1>2, <1>3, <1>4, <1>5 DEF RequestInv

\* A replaced device makes what is known of the old one void: every epoch a
\* request holds is now in the past.
LEMMA ReplacedFrame ==
    ASSUME TypeOK, NEW q \in Requests, RequestInv(q), Untouched(q), epoch' = epoch + 1
    PROVE  RequestInv(q)'
<1> USE DEF Untouched
<1>0. /\ epoch \in Nat /\ call[q].snap \in Nat /\ call[q].read \in Nat
      /\ call[q].held.epoch \in Nat /\ call[q].tries \in Nat /\ call[q].inner \in Nat
      /\ began[q].epoch \in Nat
      /\ call[q].session # NoSession => call[q].session.epoch \in Nat
  BY FieldType DEF TypeOK, AndroidSession
<1>1. EpochInv(q)'
  BY <1>0 DEF RequestInv, EpochInv, Building
<1>2. FetchInv(q)'
  BY <1>0 DEF RequestInv, FetchInv, QimeiOf, EpochInv, Holding
<1>3. SessionInv(q)'
  BY <1>0 DEF RequestInv, SessionInv, Building, AfterSession, AccountOf
<1>4. IdentityInv(q)'
  BY <1>0 DEF RequestInv, IdentityInv, EpochInv, Building
<1>5. PayloadInv(q)'
  BY DEF RequestInv, PayloadInv
<1>6. QED
  BY <1>1, <1>2, <1>3, <1>4, <1>5 DEF RequestInv

\* The request that holds state_lock is the one between taking and releasing it.
Releases(r) ==
    /\ pc'[r] \in Locked => stateLock \in {r, NoRequest}
    /\ stateLock' = IF pc'[r] \in Locked THEN r
                    ELSE IF stateLock = r THEN NoRequest ELSE stateLock

LEMMA CallStep ==
    ASSUME IInv, NEW r \in Requests, SameIdentity,
           \A q \in Requests \ {r} : Untouched(q),
           RequestInv(r)', Releases(r)
    PROVE  SingleFlight' /\ \A q \in Requests : RequestInv(q)'
<1>1. \A q \in Requests : RequestInv(q)'
  BY Frame DEF IInv
<1>2. SingleFlight'
  BY ContextAssumption DEF IInv, SingleFlight, Releases, Untouched
<1>3. QED
  BY <1>1, <1>2

\* No step that leaves device, cache, comm and Cookie alone can disturb these.
LEMMA Keep ==
    ASSUME IInv, UNCHANGED <<sessions, device, epoch, payload, cookie>>
    PROVE  NoWriteBack' /\ OneDevice' /\ OneAccount' /\ CacheInv'
  BY DEF IInv, NoWriteBack, OneDevice, OneAccount, CacheInv, QimeiOf, IssuedTo

\* What a step of r does to the locals.
LEMMA Moved ==
    ASSUME TypeOK, NEW r \in Requests, NEW l, NEW c, Goto(r, l), Local(r, c)
    PROVE  /\ pc'[r] = l /\ call'[r] = c
           /\ \A q \in Requests \ {r} : pc'[q] = pc[q] /\ call'[q] = call[q]
  BY DEF TypeOK, Goto, Local

LEMMA QuietStep ==
    ASSUME IInv, TypeOK', NEW r \in Requests, NEW l, NEW c, Goto(r, l), Local(r, c),
           UNCHANGED <<context, history>>, Releases(r), RequestInv(r)'
    PROVE  IInv'
<1>1. \A q \in Requests \ {r} : Untouched(q)
  BY Moved DEF Untouched, history, IInv
<1>2. SameIdentity
  BY DEF SameIdentity, context
<1>3. NoWriteBack' /\ OneDevice' /\ OneAccount' /\ CacheInv'
  BY Keep DEF context, history
<1>4. QED
  BY <1>1, <1>2, <1>3, CallStep DEF IInv

\* A call that ends leaves nothing behind.
LEMMA FinishKeeps ==
    ASSUME IInv, NEW r \in Requests, NEW o \in Results, Finish(r, o)
    PROVE  IInv'
<1>0. TypeOK /\ TypeOK'
  BY FinishType DEF IInv
<1>1. /\ pc'[r] = "done" /\ call'[r] = NoCall /\ payload'[r] = NoPayload
      /\ cookie'[r] = NoCredential /\ began'[r] = NotBegun
  BY <1>0, Moved DEF Finish, TypeOK
<1>2. \A q \in Requests \ {r} : Untouched(q)
  BY <1>0, Moved DEF Finish, Untouched, TypeOK
<1>3. SameIdentity
  BY DEF Finish, SameIdentity, context
<1>4. Releases(r)
  BY <1>1 DEF Releases, Locked, Finish
<1>5. RequestInv(r)'
  <2>1. EpochInv(r)'
    BY <1>1 DEF EpochInv, Building, Locked, Holding
  <2>2. FetchInv(r)'
    BY <1>1 DEF FetchInv, Holding
  <2>3. SessionInv(r)'
    BY <1>1 DEF SessionInv, Building, AfterSession
  <2>4. IdentityInv(r)'
    BY <1>1 DEF IdentityInv, AfterQimei, NoCall
  <2>5. PayloadInv(r)'
    BY <1>1 DEF PayloadInv
  <2>6. QED
    BY <2>1, <2>2, <2>3, <2>4, <2>5 DEF RequestInv
<1>6. NoWriteBack' /\ CacheInv'
  BY DEF IInv, NoWriteBack, CacheInv, QimeiOf, IssuedTo, Finish, context
<1>7. \A q \in Requests : payload'[q] # NoPayload =>
         payload'[q] = payload[q] /\ cookie'[q] = cookie[q]
  BY <1>1, <1>2 DEF Untouched
<1>8. OneDevice' /\ OneAccount'
  BY <1>7 DEF IInv, OneDevice, OneAccount, IssuedTo, QimeiOf
<1>9. QED
  BY <1>0, <1>2, <1>3, <1>4, <1>5, <1>6, <1>8, CallStep DEF IInv

-----------------------------------------------------------------------------
\* The steps that several actions share

\* The numbers a request holds.
LEMMA Numbers ==
    ASSUME TypeOK, NEW r \in Requests
    PROVE  /\ epoch \in Nat /\ call[r].snap \in Nat /\ call[r].read \in Nat
           /\ call[r].held.epoch \in Nat /\ call[r].tries \in Nat /\ call[r].inner \in Nat
           /\ began[r].epoch \in Nat
           /\ call[r].session # NoSession =>
                call[r].session \in AndroidSession /\ call[r].session.epoch \in Nat
  BY FieldType DEF TypeOK, AndroidSession

\* A step of r that only moves on keeps comm, Cookie and start.
LEMMA QuietHistory ==
    ASSUME NEW r \in Requests, UNCHANGED <<context, history>>
    PROVE  /\ payload'[r] = payload[r] /\ cookie'[r] = cookie[r] /\ began'[r] = began[r]
           /\ epoch' = epoch /\ device' = device /\ sessions' = sessions
  BY DEF context, history

\* Where state_lock is neither taken nor released.
LEMMA StaysOutside ==
    ASSUME IInv, NEW r \in Requests, pc[r] \notin Locked, pc'[r] \notin Locked,
           UNCHANGED stateLock
    PROVE  Releases(r)
  BY DEF IInv, SingleFlight, Releases

LEMMA StaysInside ==
    ASSUME IInv, NEW r \in Requests, pc[r] \in Locked, pc'[r] \in Locked,
           UNCHANGED stateLock
    PROVE  Releases(r)
  BY DEF IInv, SingleFlight, Releases

\* The session a request holds stays the right one as long as nobody touches it.
LEMMA SessionFrame ==
    ASSUME NEW r \in Requests, SessionInv(r), Building(r), SameIdentity,
           call'[r].session = call[r].session, call'[r].snap = call[r].snap,
           call'[r].credential = call[r].credential,
           call'[r].platform = call[r].platform,
           AfterSession(r)' => AfterSession(r), pc'[r] \notin {"check.session", "snapshot"}
    PROVE  SessionInv(r)'
  BY DEF SessionInv, SameIdentity, AccountOf, IssuedTo, QimeiOf

\* Another turn of build_api_kwargs' loop, after one more replacement.
LEMMA RebuildKeeps ==
    ASSUME IInv, TypeOK', NEW r \in Requests, Rebuild(r), Building(r),
           pc[r] \notin Locked \cup {"send", "reply"}, call[r].snap < epoch
    PROVE  IInv'
<1> DEFINE c == [NoCall EXCEPT !.tries = call[r].tries + 1,
                   !.credential = call[r].credential, !.platform = call[r].platform]
<1>1. CASE Finish(r, "device replaced")
  BY <1>1, FinishKeeps DEF Results
<1>2. CASE Turn(r)
  <2>1. Goto(r, "snapshot") /\ Local(r, c) /\ Quiet
    BY <1>2 DEF Turn
  <2>2. /\ pc'[r] = "snapshot" /\ call'[r] = c
    BY <2>1, Moved DEF IInv
  <2>3. /\ call'[r].tries = call[r].tries + 1 /\ call'[r].inner = 0
        /\ call'[r].session = NoSession /\ call'[r].qimei = NoQimei
    BY <2>2 DEF NoCall
  <2>4. /\ payload'[r] = payload[r] /\ cookie'[r] = cookie[r] /\ began'[r] = began[r]
        /\ epoch' = epoch
    BY <2>1, QuietHistory DEF Quiet
  <2>5. EpochInv(r)'
    <3>1. began[r].epoch + call[r].tries <= call[r].snap
      BY DEF IInv, RequestInv, EpochInv
    <3>2. began[r].epoch + (call[r].tries + 1) <= epoch
      BY <3>1, Numbers DEF IInv
    <3>3. QED
      BY <3>2, <2>2, <2>3, <2>4 DEF EpochInv, Building, Locked, Holding
  <2>6. FetchInv(r)' /\ SessionInv(r)' /\ IdentityInv(r)'
    BY <2>2, <2>3 DEF FetchInv, Holding, SessionInv, Building, AfterSession, IdentityInv, AfterQimei
  <2>7. PayloadInv(r)'
    BY <2>2, <2>4 DEF IInv, RequestInv, PayloadInv
  <2>8. Releases(r)
    BY <2>1, <2>2, StaysOutside DEF Quiet, Locked
  <2>9. QED
    BY <2>1, <2>5, <2>6, <2>7, <2>8, QuietStep DEF Quiet, RequestInv
<1>3. QED
  BY <1>1, <1>2 DEF Rebuild

\* Another turn of the loop of session_for or get_cached_qimei.
LEMMA RefetchKeeps ==
    ASSUME IInv, TypeOK', NEW r \in Requests, Refetch(r),
           pc[r] \in Holding, call[r].held.epoch # epoch
    PROVE  IInv'
<1> DEFINE c == [call[r] EXCEPT !.inner = call[r].inner + 1]
           l == IF call[r].fetching = "session" THEN "session.snapshot" ELSE "qimei.lookup"
<1>1. CASE Finish(r, "device replaced")
  BY <1>1, FinishKeeps DEF Results
<1>2. CASE Goto(r, l) /\ Local(r, c) /\ Quiet
  <2>1. /\ pc'[r] = l /\ call'[r] = c
    BY <1>2, Moved DEF IInv
  <2>2. /\ call'[r].inner = call[r].inner + 1 /\ call'[r].tries = call[r].tries
        /\ call'[r].snap = call[r].snap /\ call'[r].fetching = call[r].fetching
        /\ call'[r].session = call[r].session /\ call'[r].qimei = call[r].qimei
        /\ call'[r].credential = call[r].credential
        /\ call'[r].platform = call[r].platform
    BY <2>1, FieldType DEF CallLocals, IInv
  <2>3. /\ payload'[r] = payload[r] /\ cookie'[r] = cookie[r] /\ began'[r] = began[r]
        /\ epoch' = epoch /\ device' = device
    BY <1>2, QuietHistory DEF Quiet
  <2>4. EpochInv(r)'
    <3>1. /\ began[r].epoch + call[r].inner <= call[r].held.epoch
          /\ call[r].held.epoch <= epoch
          /\ began[r].epoch + call[r].tries <= call[r].snap /\ call[r].snap <= epoch
      BY DEF IInv, RequestInv, EpochInv, Building, Holding
    <3>2. began[r].epoch + (call[r].inner + 1) <= epoch
      BY <3>1, Numbers DEF IInv
    <3>3. QED
      BY <3>1, <3>2, <2>1, <2>2, <2>3 DEF EpochInv, Building, Locked, Holding
  <2>5. FetchInv(r)'
    BY <2>1, <2>2, FieldType DEF FetchInv, Holding, IInv
  <2>6. SessionInv(r)'
    <3>1. SessionInv(r) /\ FetchInv(r)
      BY DEF IInv, RequestInv
    <3>2. AfterSession(r)' => AfterSession(r)
      BY <3>1, <2>1, <2>2, FieldType DEF AfterSession, FetchInv, Holding, IInv
    <3>3. Building(r) /\ SameIdentity /\ pc'[r] \notin {"check.session", "snapshot"}
      BY <2>1, <2>3 DEF Building, Holding, SameIdentity
    <3>4. QED
      BY <3>1, <3>2, <3>3, <2>2, SessionFrame
  <2>7. IdentityInv(r)'
    BY <2>1, <2>2 DEF IInv, RequestInv, IdentityInv, AfterQimei, Holding
  <2>8. PayloadInv(r)'
    BY <2>1, <2>2, <2>3 DEF IInv, RequestInv, PayloadInv, Holding
  <2>9. Releases(r)
    BY <1>2, <2>1, StaysInside DEF Quiet, Locked, Holding
  <2>10. QED
    BY <1>2, <2>4, <2>5, <2>6, <2>7, <2>8, <2>9, QuietStep DEF Quiet, RequestInv
<1>3. QED
  BY <1>1, <1>2 DEF Refetch

\* A step that only moves on, from one label to the next of the same phase.
LEMMA ProceedKeeps ==
    ASSUME IInv, TypeOK', NEW r \in Requests, NEW l, Proceed(r, l),
           <<pc[r], l>> \in
             {<<"session.cached", "session.lock">>, <<"session.lookup", "fetch.check">>,
              <<"session.verify", "session.insert">>, <<"qimei.cached", "qimei.lock">>,
              <<"qimei.lookup", "qimei.snapshot">>, <<"fetch.check", "fetch.cache">>,
              <<"fetch.cache", "fetch.http">>, <<"fetch.http", "fetch.commit">>,
              <<"check.session", "check.snapshot">>, <<"check.snapshot", "qimei.cached">>,
              <<"check.snapshot", "check.qimei">>}
    PROVE  IInv'
<1>1. /\ Goto(r, l) /\ Local(r, call[r]) /\ Quiet
  BY DEF Proceed, Local, IInv, TypeOK
<1>2. pc'[r] = l /\ call'[r] = call[r]
  BY <1>1, Moved DEF IInv
<1>3. /\ payload'[r] = payload[r] /\ cookie'[r] = cookie[r] /\ began'[r] = began[r]
      /\ epoch' = epoch /\ device' = device
  BY <1>1, QuietHistory DEF Quiet
<1>4. RequestInv(r)
  BY DEF IInv
<1>5. EpochInv(r)'
  BY <1>2, <1>3, <1>4 DEF RequestInv, EpochInv, Building, Locked, Holding
<1>6. FetchInv(r)'
  BY <1>2, <1>3, <1>4 DEF RequestInv, FetchInv, Holding, QimeiOf
<1>7. SessionInv(r)'
  <2>1. AfterSession(r)' => AfterSession(r) \/ pc[r] = "check.session"
    BY <1>2, <1>4 DEF RequestInv, FetchInv, AfterSession
  <2>2. AfterSession(r)' => AfterSession(r)
    BY <2>1 DEF AfterSession
  <2>3. QED
    BY <1>2, <1>3, <1>4, <2>2, SessionFrame DEF RequestInv, Building, SameIdentity
<1>8. IdentityInv(r)'
  BY <1>2, <1>3, <1>4 DEF RequestInv, IdentityInv, AfterQimei, QimeiOf
<1>9. PayloadInv(r)'
  BY <1>2, <1>3, <1>4 DEF RequestInv, PayloadInv
<1>10. Releases(r)
  BY <1>1, <1>2, StaysInside, StaysOutside DEF Quiet, Locked
<1>11. QED
  BY <1>1, <1>5, <1>6, <1>7, <1>8, <1>9, <1>10, QuietStep DEF Quiet, RequestInv

\* session_for hands over a session of this account that is no older than the
\* turn's snapshot and, if of the current epoch, of the current device.
LEMMA SessionReadyKeeps ==
    ASSUME IInv, NEW r \in Requests, NEW s \in AndroidSession, SessionReady(r, s),
           pc[r] \in {"session.cached", "session.lookup", "session.insert"},
           s.sid.credential.musicid = AccountOf(r),
           call[r].snap <= s.epoch, s.epoch <= epoch,
           s.epoch = epoch => IssuedTo(s, device.id),
           UNCHANGED history, epoch' = epoch, device' = device
    PROVE  RequestInv(r)' /\ Releases(r)
<1>1. pc'[r] = "check.session" /\ call'[r] = [call[r] EXCEPT !.session = s]
  BY Moved DEF SessionReady, IInv
<1>2. /\ call'[r].session = s /\ call'[r].snap = call[r].snap
      /\ call'[r].tries = call[r].tries /\ call'[r].qimei = call[r].qimei
      /\ call'[r].credential = call[r].credential /\ s # NoSession
  BY <1>1, FieldType, AbsentAssumption DEF CallLocals, IInv
<1>3. /\ payload'[r] = payload[r] /\ cookie'[r] = cookie[r] /\ began'[r] = began[r]
  BY DEF history
<1>4. RequestInv(r)
  BY DEF IInv
<1>5. EpochInv(r)'
  BY <1>1, <1>2, <1>3, <1>4 DEF RequestInv, EpochInv, Building, Locked, Holding
<1>6. FetchInv(r)'
  BY <1>1 DEF FetchInv, Holding
<1>7. SessionInv(r)'
  BY <1>1, <1>2 DEF SessionInv, AccountOf, IssuedTo, QimeiOf
<1>8. IdentityInv(r)'
  BY <1>1, <1>2, <1>4 DEF RequestInv, IdentityInv, AfterQimei
<1>9. PayloadInv(r)'
  BY <1>1, <1>3, <1>4 DEF RequestInv, PayloadInv
<1>10. Releases(r)
  BY <1>1 DEF Releases, SessionReady, Locked
<1>11. QED
  BY <1>5, <1>6, <1>7, <1>8, <1>9, <1>10 DEF RequestInv

\* get_cached_qimei hands over a QIMEI that is the current device's own unless
\* the device was replaced since the turn's snapshot.
LEMMA QimeiReadyKeeps ==
    ASSUME IInv, NEW r \in Requests, NEW q \in Devices \cup {NoQimei}, QimeiReady(r, q),
           AfterSession(r), pc[r] \notin {"check.session", "check.device", "device"},
           call[r].snap = epoch => QimeiOf(q, device.id),
           UNCHANGED history, SameIdentity
    PROVE  RequestInv(r)' /\ Releases(r)
<1>1. pc'[r] = "check.qimei" /\ call'[r] = [call[r] EXCEPT !.qimei = q]
  BY Moved DEF QimeiReady, IInv
<1>2. /\ call'[r].session = call[r].session /\ call'[r].snap = call[r].snap
      /\ call'[r].tries = call[r].tries /\ call'[r].qimei = q
      /\ call'[r].credential = call[r].credential
      /\ call'[r].platform = call[r].platform
  BY <1>1, FieldType DEF CallLocals, IInv
<1>3. /\ payload'[r] = payload[r] /\ cookie'[r] = cookie[r] /\ began'[r] = began[r]
      /\ epoch' = epoch /\ device'.id = device.id
  BY DEF history, SameIdentity
<1>4. RequestInv(r) /\ Building(r)
  BY DEF IInv, AfterSession, Building
<1>5. EpochInv(r)'
  BY <1>1, <1>2, <1>3, <1>4 DEF RequestInv, EpochInv, Building, Locked, Holding
<1>6. FetchInv(r)'
  BY <1>1 DEF FetchInv, Holding
<1>7. SessionInv(r)'
  BY <1>1, <1>2, <1>4, SessionFrame DEF RequestInv
<1>8. IdentityInv(r)'
  BY <1>1, <1>2, <1>3 DEF IdentityInv, AfterQimei, QimeiOf
<1>9. PayloadInv(r)'
  BY <1>1, <1>3, <1>4 DEF RequestInv, PayloadInv, AfterSession
<1>10. Releases(r)
  BY <1>1 DEF Releases, QimeiReady, Locked
<1>11. QED
  BY <1>5, <1>6, <1>7, <1>8, <1>9, <1>10 DEF RequestInv

Fetching == {"fetch.check", "fetch.cache", "fetch.http", "fetch.commit"}

\* qimei_for_snapshot has an answer that is the snapshot's own QIMEI unless the
\* device was replaced since: GetSession goes out with it, or the request does.
LEMMA FetchedKeeps ==
    ASSUME IInv, NEW r \in Requests, NEW q \in Devices \cup {NoQimei}, Fetched(r, q),
           pc[r] \in Fetching,
           call[r].held.epoch = epoch => QimeiOf(q, call[r].held.device.id),
           UNCHANGED history, SameIdentity
    PROVE  RequestInv(r)' /\ Releases(r)
<1> DEFINE s == [credential |-> call[r].credential, device |-> call[r].held.device.id,
                 qimei |-> q, gen |-> invalidations[AccountOf(r)]]
<1>1. RequestInv(r) /\ Building(r) /\ TypeOK
  BY DEF IInv, Building, Fetching
<1>2. /\ call[r].held.epoch = epoch => call[r].held.device.id = device.id
      /\ call[r].snap <= call[r].held.epoch /\ call[r].held.epoch <= epoch
  BY <1>1 DEF RequestInv, FetchInv, EpochInv, Holding, Fetching
<1>3. CASE PostGetSession(r, q)
  <2>1. pc'[r] = "session.post" /\ call'[r] = [call[r] EXCEPT !.sid = s]
    BY <1>1, <1>3, Moved DEF PostGetSession
  <2>2. /\ call'[r].session = call[r].session /\ call'[r].snap = call[r].snap
        /\ call'[r].tries = call[r].tries /\ call'[r].qimei = call[r].qimei
        /\ call'[r].inner = call[r].inner /\ call'[r].held = call[r].held
        /\ call'[r].credential = call[r].credential
        /\ call'[r].platform = call[r].platform
        /\ call'[r].fetching = call[r].fetching /\ call'[r].sid = s
    BY <1>1, <2>1, FieldType DEF CallLocals
  <2>3. /\ payload'[r] = payload[r] /\ cookie'[r] = cookie[r] /\ began'[r] = began[r]
        /\ epoch' = epoch /\ device'.id = device.id
    BY DEF history, SameIdentity
  <2>4. call[r].fetching = "session"
    BY <1>3, <1>1, <2>1 DEF Fetched, QimeiReady, Goto, TypeOK
  <2>5. EpochInv(r)'
    BY <2>1, <2>2, <2>3, <1>1 DEF RequestInv, EpochInv, Building, Locked, Holding, Fetching
  <2>6. FetchInv(r)'
    BY <2>1, <2>2, <2>3, <2>4, <1>1 DEF RequestInv, FetchInv, Holding, QimeiOf, Fetching
  <2>7. SessionInv(r)'
    BY <2>1, <2>2, <1>1, SessionFrame DEF RequestInv, AfterSession
  <2>8. IdentityInv(r)'
    BY <2>1, <2>2, <1>1 DEF RequestInv, IdentityInv, AfterQimei, Fetching
  <2>9. PayloadInv(r)'
    BY <2>1, <2>3, <1>1 DEF RequestInv, PayloadInv, Fetching
  <2>10. Releases(r)
    BY <1>3, <2>1, StaysInside DEF PostGetSession, Locked, Fetching
  <2>11. QED
    BY <2>5, <2>6, <2>7, <2>8, <2>9, <2>10 DEF RequestInv
<1>4. CASE QimeiReady(r, q) /\ call[r].fetching # "session"
  <2>1. AfterSession(r)
    BY <1>4, <1>1, FieldType DEF AfterSession, Fetching
  <2>2. call[r].snap = epoch => QimeiOf(q, device.id)
    <3>1. call[r].snap = epoch => call[r].held.epoch = epoch
      BY <1>1, <1>2, Numbers
    <3>2. QED
      BY <3>1, <1>2 DEF QimeiOf
  <2>3. QED
    BY <1>4, <2>1, <2>2, QimeiReadyKeeps DEF Fetching
<1>5. QED
  BY <1>3, <1>4 DEF Fetched

\* What the steps above do to the other requests.
LEMMA OthersUntouched ==
    ASSUME TypeOK, NEW r \in Requests, NEW l, NEW c, Goto(r, l), Local(r, c),
           UNCHANGED history
    PROVE  \A q \in Requests \ {r} : Untouched(q)
  BY Moved DEF Untouched, history

LEMMA FetchedUntouched ==
    ASSUME TypeOK, NEW r \in Requests, NEW q, Fetched(r, q) \/ QimeiReady(r, q),
           UNCHANGED history
    PROVE  \A p \in Requests \ {r} : Untouched(p)
<1>1. CASE PostGetSession(r, q)
  BY <1>1, OthersUntouched DEF PostGetSession
<1>2. CASE QimeiReady(r, q)
  BY <1>2, OthersUntouched DEF QimeiReady
<1>3. QED
  BY <1>1, <1>2 DEF Fetched

LEMMA ContextKeeps ==
    ASSUME IInv, TypeOK', NEW r \in Requests, UNCHANGED <<context, history>>,
           \A p \in Requests \ {r} : Untouched(p), RequestInv(r)', Releases(r)
    PROVE  IInv'
<1>1. SameIdentity
  BY DEF SameIdentity, context
<1>2. NoWriteBack' /\ OneDevice' /\ OneAccount' /\ CacheInv'
  BY Keep DEF context, history
<1>3. QED
  BY <1>1, <1>2, CallStep DEF IInv

-----------------------------------------------------------------------------
\* The steps before build_api_kwargs' loop and at its start

LEMMA InvokeKeeps ==
    ASSUME IInv, TypeOK', NEW r \in Requests, Invoke(r)
    PROVE  IInv'
<1>1. /\ pc'[r] = "limiter" /\ pc[r] = "idle" /\ began'[r].epoch = epoch
      /\ call'[r] = call[r] /\ payload'[r] = payload[r] /\ cookie'[r] = cookie[r]
      /\ epoch' = epoch
  BY DEF Invoke, Goto, IInv, TypeOK, context
<1>2. \A q \in Requests \ {r} : Untouched(q)
  BY DEF Invoke, Goto, IInv, TypeOK, Untouched
<1>3. SameIdentity /\ UNCHANGED stateLock
  BY DEF Invoke, SameIdentity, context
<1>4. RequestInv(r)
  BY DEF IInv
<1>5. call[r] = NoCall /\ call[r].tries = 0 /\ call[r].qimei = NoQimei
  BY <1>1, <1>4 DEF RequestInv, PayloadInv, NoCall
<1>6. EpochInv(r)'
  BY <1>1, <1>5, Numbers DEF EpochInv, Building, Locked, Holding, IInv
<1>7. FetchInv(r)' /\ SessionInv(r)' /\ IdentityInv(r)'
  BY <1>1, <1>5 DEF FetchInv, Holding, SessionInv, Building, AfterSession, IdentityInv, AfterQimei
<1>8. PayloadInv(r)'
  BY <1>1, <1>4, <1>5 DEF RequestInv, PayloadInv
<1>9. Releases(r)
  BY <1>1, <1>3, StaysOutside DEF Locked
<1>10. NoWriteBack' /\ OneDevice' /\ OneAccount' /\ CacheInv'
  BY Keep DEF Invoke, context
<1>11. QED
  BY <1>2, <1>3, <1>6, <1>7, <1>8, <1>9, <1>10, CallStep DEF IInv, RequestInv

LEMMA GrantKeeps ==
    ASSUME IInv, TypeOK', NEW r \in Requests, pc[r] = "limiter", Grant(r)
    PROVE  IInv'
<1>1. CASE Finish(r, "login required")
  BY <1>1, FinishKeeps DEF Results
<1>2. ASSUME NEW k \in Credentials, NEW p \in Platforms,
             Local(r, [call[r] EXCEPT !.credential = k, !.platform = p]),
             Goto(r, "snapshot"), Quiet
      PROVE  IInv'
  <2> DEFINE c == [call[r] EXCEPT !.credential = k, !.platform = p]
  <2>1. pc'[r] = "snapshot" /\ call'[r] = c
    BY <1>2, Moved DEF IInv
  <2>2. /\ payload'[r] = payload[r] /\ cookie'[r] = cookie[r] /\ began'[r] = began[r]
        /\ epoch' = epoch
    BY <1>2, QuietHistory DEF Quiet
  <2>3. RequestInv(r)
    BY DEF IInv
  <2>4. call[r] = NoCall
    BY <2>3 DEF RequestInv, PayloadInv
  <2>5. /\ call'[r].tries = call[r].tries /\ call'[r].session = NoSession
        /\ call'[r].qimei = NoQimei
    BY <2>1, <2>4 DEF NoCall
  <2>6. EpochInv(r)'
    BY <2>1, <2>2, <2>3, <2>5 DEF RequestInv, EpochInv, Building, Locked, Holding
  <2>7. FetchInv(r)' /\ SessionInv(r)' /\ IdentityInv(r)'
    BY <2>1, <2>5 DEF FetchInv, Holding, SessionInv, Building, AfterSession, IdentityInv, AfterQimei
  <2>8. PayloadInv(r)'
    BY <2>1, <2>2, <2>3 DEF RequestInv, PayloadInv
  <2>9. Releases(r)
    BY <1>2, <2>1, StaysOutside DEF Quiet, Locked
  <2>10. QED
    BY <1>2, <2>6, <2>7, <2>8, <2>9, QuietStep DEF Quiet, RequestInv
<1>3. QED
  BY <1>1, <1>2 DEF Grant, IInv, TypeOK

LEMMA SnapshotKeeps ==
    ASSUME IInv, TypeOK', NEW r \in Requests, Snapshot(r)
    PROVE  IInv'
<1> DEFINE c == [call[r] EXCEPT !.snap = epoch]
           l == IF call[r].platform = "android" THEN "session.epoch" ELSE "check.snapshot"
<1>1. Goto(r, l) /\ Local(r, c) /\ Quiet /\ pc[r] = "snapshot"
  BY DEF Snapshot
<1>2. /\ pc'[r] = l /\ call'[r] = c
  BY <1>1, Moved DEF IInv
<1>3. /\ call'[r].tries = call[r].tries /\ call'[r].snap = epoch
      /\ call'[r].platform = call[r].platform
      /\ call'[r].session = call[r].session /\ call'[r].qimei = call[r].qimei
  BY <1>2, FieldType DEF CallLocals, IInv
<1>4. /\ payload'[r] = payload[r] /\ cookie'[r] = cookie[r] /\ began'[r] = began[r]
      /\ epoch' = epoch
  BY <1>1, QuietHistory DEF Quiet
<1>5. RequestInv(r)
  BY DEF IInv
<1>6. EpochInv(r)'
  BY <1>1, <1>2, <1>3, <1>4, <1>5, Numbers DEF RequestInv, EpochInv, Building, Locked, Holding, IInv
<1>7. FetchInv(r)'
  BY <1>2 DEF FetchInv, Holding
<1>8. SessionInv(r)'
  BY <1>1, <1>2, <1>3, <1>5 DEF RequestInv, SessionInv, AfterSession
<1>9. IdentityInv(r)'
  BY <1>1, <1>2, <1>3, <1>5 DEF RequestInv, IdentityInv, AfterQimei
<1>10. PayloadInv(r)'
  BY <1>1, <1>2, <1>4, <1>5 DEF RequestInv, PayloadInv
<1>11. Releases(r)
  BY <1>1, <1>2, StaysOutside DEF Quiet, Locked
<1>12. QED
  BY <1>1, <1>6, <1>7, <1>8, <1>9, <1>10, <1>11, QuietStep DEF Quiet, RequestInv

-----------------------------------------------------------------------------
\* session_for

LEMMA ReadEpochKeeps ==
    ASSUME IInv, TypeOK', NEW r \in Requests, ReadEpoch(r)
    PROVE  IInv'
<1> DEFINE c == [call[r] EXCEPT !.read = epoch]
<1>1. /\ Goto(r, "session.cached") /\ Local(r, c) /\ Quiet
      /\ pc[r] = "session.epoch"
  BY DEF ReadEpoch
<1>2. /\ pc'[r] = "session.cached" /\ call'[r] = c
  BY <1>1, Moved DEF IInv
<1>3. /\ call'[r].tries = call[r].tries /\ call'[r].snap = call[r].snap
      /\ call'[r].platform = call[r].platform /\ call'[r].credential = call[r].credential
      /\ call'[r].session = call[r].session /\ call'[r].qimei = call[r].qimei
      /\ call'[r].read = epoch
  BY <1>2, FieldType DEF CallLocals, IInv
<1>4. /\ payload'[r] = payload[r] /\ cookie'[r] = cookie[r] /\ began'[r] = began[r]
      /\ epoch' = epoch /\ device' = device
  BY <1>1, QuietHistory DEF Quiet
<1>5. RequestInv(r)
  BY DEF IInv
<1>6. EpochInv(r)'
  BY <1>1, <1>2, <1>3, <1>4, <1>5, Numbers DEF RequestInv, EpochInv, Building, Locked, Holding, IInv
<1>7. FetchInv(r)'
  BY <1>2 DEF FetchInv, Holding
<1>8. SessionInv(r)'
  BY <1>1, <1>2, <1>3, <1>4, <1>5, SessionFrame
     DEF RequestInv, Building, AfterSession, SameIdentity
<1>9. IdentityInv(r)'
  BY <1>1, <1>2, <1>3, <1>5 DEF RequestInv, IdentityInv, AfterQimei
<1>10. PayloadInv(r)'
  BY <1>1, <1>2, <1>4, <1>5 DEF RequestInv, PayloadInv
<1>11. Releases(r)
  BY <1>1, <1>2, StaysOutside DEF Quiet, Locked
<1>12. QED
  BY <1>1, <1>6, <1>7, <1>8, <1>9, <1>10, <1>11, QuietStep DEF Quiet, RequestInv

\* A session from the cache is one of the account that asks for it.
LEMMA CachedKeeps ==
    ASSUME IInv, TypeOK', NEW r \in Requests, NEW s, NEW e \in Nat,
           pc[r] \in {"session.cached", "session.lookup"},
           s = sessions[AccountOf(r)], Valid(s, e), call[r].snap <= e, e <= epoch,
           SessionReady(r, s), UNCHANGED <<context, history>>
    PROVE  IInv'
<1>1. s \in AndroidSession /\ s # NoSession /\ s.epoch = e
  BY AccountType DEF IInv, TypeOK, Valid
<1>2. s.sid.credential.musicid = AccountOf(r)
  BY <1>1, AccountType DEF IInv, CacheInv
<1>3. s.epoch = epoch => IssuedTo(s, device.id)
  BY <1>1, AccountType DEF IInv, NoWriteBack
<1>4. RequestInv(r)' /\ Releases(r)
  BY <1>1, <1>2, <1>3, SessionReadyKeeps DEF context
<1>5. \A q \in Requests \ {r} : Untouched(q)
  BY OthersUntouched DEF SessionReady, IInv
<1>6. QED
  BY <1>4, <1>5, ContextKeeps

LEMMA CachedSessionKeeps ==
    ASSUME IInv, TypeOK', NEW r \in Requests, CachedSession(r)
    PROVE  IInv'
<1> DEFINE s == sessions[AccountOf(r)]
<1>1. CASE Valid(s, call[r].read) /\ SessionReady(r, s) /\ UNCHANGED <<context, history>>
  <2>1. /\ pc[r] = "session.cached" /\ call[r].read \in Nat
        /\ call[r].snap <= call[r].read /\ call[r].read <= epoch
    BY FieldType DEF CachedSession, IInv, RequestInv, EpochInv
  <2>2. QED
    BY <1>1, <2>1, CachedKeeps
<1>2. CASE Proceed(r, "session.lock")
  BY <1>2, ProceedKeeps DEF CachedSession
<1>3. QED
  BY <1>1, <1>2 DEF CachedSession

LEMMA LookupSessionKeeps ==
    ASSUME IInv, TypeOK', NEW r \in Requests, LookupSession(r)
    PROVE  IInv'
<1> DEFINE s == sessions[AccountOf(r)]
<1>1. CASE Valid(s, call[r].held.epoch) /\ SessionReady(r, s)
           /\ UNCHANGED <<context, history>>
  <2>1. /\ pc[r] = "session.lookup" /\ call[r].held.epoch \in Nat
        /\ call[r].snap <= call[r].held.epoch /\ call[r].held.epoch <= epoch
    BY FieldType DEF LookupSession, IInv, RequestInv, EpochInv, Holding
  <2>2. QED
    BY <1>1, <2>1, CachedKeeps
<1>2. CASE Proceed(r, "fetch.check")
  BY <1>2, ProceedKeeps DEF LookupSession
<1>3. QED
  BY <1>1, <1>2 DEF LookupSession

LEMMA LockForSessionKeeps ==
    ASSUME IInv, TypeOK', NEW r \in Requests, LockForSession(r)
    PROVE  IInv'
<1> DEFINE c == [call[r] EXCEPT !.inner = 0, !.fetching = "session"]
<1>1. /\ Goto(r, "session.snapshot") /\ Local(r, c) /\ UNCHANGED <<context, history>>
      /\ pc[r] = "session.lock" /\ stateLock = NoRequest /\ stateLock' = r
  BY DEF LockForSession
<1>2. /\ pc'[r] = "session.snapshot" /\ call'[r] = c
  BY <1>1, Moved DEF IInv
<1>3. /\ call'[r].tries = call[r].tries /\ call'[r].snap = call[r].snap
      /\ call'[r].platform = call[r].platform /\ call'[r].credential = call[r].credential
      /\ call'[r].session = call[r].session /\ call'[r].qimei = call[r].qimei
      /\ call'[r].inner = 0 /\ call'[r].fetching = "session"
  BY <1>2, FieldType DEF CallLocals, IInv
<1>4. /\ payload'[r] = payload[r] /\ cookie'[r] = cookie[r] /\ began'[r] = began[r]
      /\ epoch' = epoch /\ device' = device
  BY <1>1, QuietHistory
<1>5. RequestInv(r)
  BY DEF IInv
<1>6. EpochInv(r)'
  <2>1. /\ began[r].epoch + call[r].tries <= call[r].snap /\ call[r].snap <= epoch
    BY <1>1, <1>5 DEF RequestInv, EpochInv, Building
  <2>2. began[r].epoch + 0 <= epoch
    BY <2>1, Numbers DEF IInv
  <2>3. QED
    BY <1>2, <1>3, <1>4, <2>1, <2>2 DEF EpochInv, Building, Locked, Holding
<1>7. FetchInv(r)'
  BY <1>2, <1>3 DEF FetchInv, Holding
<1>8. SessionInv(r)'
  BY <1>1, <1>2, <1>3, <1>4, <1>5, SessionFrame
     DEF RequestInv, Building, AfterSession, SameIdentity
<1>9. IdentityInv(r)'
  BY <1>1, <1>2, <1>3, <1>5 DEF RequestInv, IdentityInv, AfterQimei
<1>10. PayloadInv(r)'
  BY <1>1, <1>2, <1>4, <1>5 DEF RequestInv, PayloadInv
<1>11. Releases(r)
  BY <1>1, <1>2 DEF Releases, Locked
<1>12. QED
  BY <1>1, <1>6, <1>7, <1>8, <1>9, <1>10, <1>11, QuietStep DEF RequestInv

\* device and epoch are read under one lock: they belong together.
LEMMA SnapshotForSessionKeeps ==
    ASSUME IInv, TypeOK', NEW r \in Requests, SnapshotForSession(r)
    PROVE  IInv'
<1> DEFINE c == [call[r] EXCEPT !.held = [epoch |-> epoch, device |-> device]]
<1>1. /\ Goto(r, "session.lookup") /\ Local(r, c) /\ Quiet
      /\ pc[r] = "session.snapshot"
  BY DEF SnapshotForSession, Hold
<1>2. /\ pc'[r] = "session.lookup" /\ call'[r] = c
  BY <1>1, Moved DEF IInv
<1>3. /\ call'[r].tries = call[r].tries /\ call'[r].snap = call[r].snap
      /\ call'[r].platform = call[r].platform /\ call'[r].credential = call[r].credential
      /\ call'[r].session = call[r].session /\ call'[r].qimei = call[r].qimei
      /\ call'[r].inner = call[r].inner /\ call'[r].fetching = call[r].fetching
      /\ call'[r].held.epoch = epoch /\ call'[r].held.device = device
  BY <1>2, FieldType DEF CallLocals, IInv
<1>4. /\ payload'[r] = payload[r] /\ cookie'[r] = cookie[r] /\ began'[r] = began[r]
      /\ epoch' = epoch /\ device' = device
  BY <1>1, QuietHistory DEF Quiet
<1>5. RequestInv(r)
  BY DEF IInv
<1>6. EpochInv(r)'
  <2>1. epoch <= epoch
    BY Numbers DEF IInv
  <2>2. QED
    BY <1>1, <1>2, <1>3, <1>4, <1>5, <2>1
       DEF RequestInv, EpochInv, Building, Locked, Holding
<1>7. FetchInv(r)'
  BY <1>1, <1>2, <1>3, <1>4, <1>5 DEF RequestInv, FetchInv, Holding, IInv, NoWriteBack, QimeiOf
<1>8. SessionInv(r)'
  BY <1>1, <1>2, <1>3, <1>4, <1>5, SessionFrame
     DEF RequestInv, Building, AfterSession, SameIdentity
<1>9. IdentityInv(r)'
  BY <1>1, <1>2, <1>3, <1>5 DEF RequestInv, IdentityInv, AfterQimei
<1>10. PayloadInv(r)'
  BY <1>1, <1>2, <1>4, <1>5 DEF RequestInv, PayloadInv
<1>11. Releases(r)
  BY <1>1, <1>2, StaysInside DEF Quiet, Locked
<1>12. QED
  BY <1>1, <1>6, <1>7, <1>8, <1>9, <1>10, <1>11, QuietStep DEF Quiet, RequestInv

LEMMA GetSessionReplyKeeps ==
    ASSUME IInv, TypeOK', NEW r \in Requests, GetSessionReply(r)
    PROVE  IInv'
<1> DEFINE s == [sid |-> call[r].sid, acquired |-> clock, epoch |-> call[r].held.epoch]
           c == [call[r] EXCEPT !.session = s]
<1>1. pc[r] = "session.post"
  BY DEF GetSessionReply
<1>2. CASE epoch # call[r].held.epoch
  BY <1>1, <1>2, RefetchKeeps DEF GetSessionReply, Holding
<1>3. CASE epoch = call[r].held.epoch
  <2>1. Goto(r, "session.verify") /\ Local(r, c) /\ Quiet
    BY <1>3 DEF GetSessionReply
  <2>2. /\ pc'[r] = "session.verify" /\ call'[r] = c
    BY <2>1, Moved DEF IInv
  <2>3. /\ call'[r].tries = call[r].tries /\ call'[r].snap = call[r].snap
        /\ call'[r].platform = call[r].platform
        /\ call'[r].credential = call[r].credential
        /\ call'[r].session = s /\ call'[r].qimei = call[r].qimei
        /\ call'[r].inner = call[r].inner /\ call'[r].fetching = call[r].fetching
        /\ call'[r].held = call[r].held
    BY <2>2, FieldType DEF CallLocals, IInv
  <2>4. /\ payload'[r] = payload[r] /\ cookie'[r] = cookie[r] /\ began'[r] = began[r]
        /\ epoch' = epoch /\ device' = device
    BY <2>1, QuietHistory DEF Quiet
  <2>5. RequestInv(r)
    BY DEF IInv
  <2>6. s \in AndroidSession /\ s # NoSession
    BY FieldType, AbsentAssumption DEF IInv, TypeOK, AndroidSession
  <2>7. EpochInv(r)'
    BY <1>1, <2>2, <2>3, <2>4, <2>5 DEF RequestInv, EpochInv, Building, Locked, Holding
  <2>8. FetchInv(r)'
    BY <1>1, <2>2, <2>3, <2>4, <2>5, <2>6 DEF RequestInv, FetchInv, Holding, QimeiOf
  <2>9. SessionInv(r)'
    <3>1. /\ call[r].sid.credential = call[r].credential
          /\ IssuedTo(s, device.id)
      BY <1>1, <1>3, <2>5 DEF RequestInv, FetchInv, IssuedTo, QimeiOf, Holding
    <3>2. call[r].snap <= epoch
      BY <1>1, <2>5 DEF RequestInv, EpochInv, Building
    <3>3. epoch <= epoch
      BY Numbers DEF IInv
    <3>4. QED
      BY <1>3, <2>2, <2>3, <2>4, <2>6, <3>1, <3>2, <3>3
         DEF SessionInv, AfterSession, AccountOf, IssuedTo, QimeiOf
  <2>10. IdentityInv(r)'
    BY <1>1, <2>2, <2>3, <2>5 DEF RequestInv, IdentityInv, AfterQimei
  <2>11. PayloadInv(r)'
    BY <1>1, <2>2, <2>4, <2>5 DEF RequestInv, PayloadInv
  <2>12. Releases(r)
    BY <1>1, <2>1, <2>2, StaysInside DEF Quiet, Locked
  <2>13. QED
    BY <2>1, <2>7, <2>8, <2>9, <2>10, <2>11, <2>12, QuietStep DEF Quiet, RequestInv
<1>4. QED
  BY <1>2, <1>3

LEMMA VerifySessionKeeps ==
    ASSUME IInv, TypeOK', NEW r \in Requests, VerifySession(r)
    PROVE  IInv'
<1>1. CASE epoch # call[r].held.epoch
  BY <1>1, RefetchKeeps DEF VerifySession, Holding
<1>2. CASE epoch = call[r].held.epoch
  BY <1>2, ProceedKeeps DEF VerifySession
<1>3. QED
  BY <1>1, <1>2

\* What goes into the cache is tagged with the epoch it was applied for under:
\* if that is over, no check of the current epoch will ever accept it.
LEMMA InsertSessionKeeps ==
    ASSUME IInv, TypeOK', NEW r \in Requests, InsertSession(r)
    PROVE  IInv'
<1> DEFINE s == call[r].session
           m == AccountOf(r)
<1>1. RequestInv(r) /\ pc[r] = "session.insert" /\ TypeOK
  BY DEF IInv, InsertSession
<1>2. /\ s # NoSession /\ s \in AndroidSession
      /\ s.sid.credential.musicid = m
      /\ call[r].snap <= s.epoch /\ s.epoch <= epoch
      /\ s.epoch = epoch => IssuedTo(s, device.id)
  BY <1>1, FieldType DEF RequestInv, FetchInv, SessionInv, Building
<1>3. /\ sessions' = [sessions EXCEPT ![m] = s] /\ m \in Accounts
      /\ SessionReady(r, s) /\ UNCHANGED history
      /\ epoch' = epoch /\ device' = device
  BY <1>1, AccountType DEF InsertSession
<1>4. RequestInv(r)' /\ Releases(r)
  BY <1>1, <1>2, <1>3, SessionReadyKeeps
<1>5. \A q \in Requests \ {r} : Untouched(q)
  BY <1>1, <1>3, OthersUntouched DEF SessionReady
<1>6. \A n \in Accounts : sessions'[n] = IF n = m THEN s ELSE sessions[n]
  BY <1>1, <1>3 DEF TypeOK
<1>7. NoWriteBack' /\ CacheInv'
  BY <1>2, <1>3, <1>6 DEF IInv, NoWriteBack, CacheInv, IssuedTo, QimeiOf
<1>8. OneDevice' /\ OneAccount'
  BY <1>3 DEF IInv, OneDevice, OneAccount, history, IssuedTo, QimeiOf
<1>9. QED
  BY <1>3, <1>4, <1>5, <1>7, <1>8, CallStep DEF IInv, SameIdentity

-----------------------------------------------------------------------------
\* get_cached_qimei

\* A fresh QIMEI of the current device is that device's own.
LEMMA FreshIsOwn ==
    ASSUME IInv
    PROVE  /\ QimeiIfFresh(device) \in Devices \cup {NoQimei}
           /\ QimeiOf(QimeiIfFresh(device), device.id)
<1>1. QimeiIfFresh(device) \in Devices \cup {NoQimei}
  BY QimeiType DEF IInv, TypeOK
<1>2. QED
  BY <1>1 DEF IInv, NoWriteBack, QimeiIfFresh, QimeiOf

LEMMA CurrentQimeiKeeps ==
    ASSUME IInv, TypeOK', NEW r \in Requests, UNCHANGED <<context, history>>,
           QimeiReady(r, QimeiIfFresh(device)), AfterSession(r),
           pc[r] \in {"qimei.cached", "qimei.lookup"}
    PROVE  IInv'
<1>1. RequestInv(r)' /\ Releases(r)
  BY FreshIsOwn, QimeiReadyKeeps DEF context, SameIdentity
<1>2. \A p \in Requests \ {r} : Untouched(p)
  BY FetchedUntouched DEF IInv
<1>3. QED
  BY <1>1, <1>2, ContextKeeps

LEMMA CachedQimeiKeeps ==
    ASSUME IInv, TypeOK', NEW r \in Requests, CachedQimei(r)
    PROVE  IInv'
  BY CurrentQimeiKeeps, ProceedKeeps DEF CachedQimei, AfterSession

LEMMA LockForQimeiKeeps ==
    ASSUME IInv, TypeOK', NEW r \in Requests, LockForQimei(r)
    PROVE  IInv'
<1> DEFINE c == [call[r] EXCEPT !.inner = 0, !.fetching = "qimei"]
<1>1. /\ Goto(r, "qimei.lookup") /\ Local(r, c) /\ UNCHANGED <<context, history>>
      /\ pc[r] = "qimei.lock" /\ stateLock = NoRequest /\ stateLock' = r
  BY DEF LockForQimei
<1>2. /\ pc'[r] = "qimei.lookup" /\ call'[r] = c
  BY <1>1, Moved DEF IInv
<1>3. /\ call'[r].tries = call[r].tries /\ call'[r].snap = call[r].snap
      /\ call'[r].platform = call[r].platform /\ call'[r].credential = call[r].credential
      /\ call'[r].session = call[r].session /\ call'[r].qimei = call[r].qimei
      /\ call'[r].inner = 0 /\ call'[r].fetching = "qimei"
  BY <1>2, FieldType DEF CallLocals, IInv
<1>4. /\ payload'[r] = payload[r] /\ cookie'[r] = cookie[r] /\ began'[r] = began[r]
      /\ epoch' = epoch /\ device' = device
  BY <1>1, QuietHistory
<1>5. RequestInv(r)
  BY DEF IInv
<1>6. EpochInv(r)'
  <2>1. /\ began[r].epoch + call[r].tries <= call[r].snap /\ call[r].snap <= epoch
    BY <1>1, <1>5 DEF RequestInv, EpochInv, Building
  <2>2. began[r].epoch + 0 <= epoch
    BY <2>1, Numbers DEF IInv
  <2>3. QED
    BY <1>2, <1>3, <1>4, <2>1, <2>2 DEF EpochInv, Building, Locked, Holding
<1>7. FetchInv(r)'
  BY <1>2, <1>3 DEF FetchInv, Holding
<1>8. SessionInv(r)'
  BY <1>1, <1>2, <1>3, <1>4, <1>5, SessionFrame
     DEF RequestInv, Building, AfterSession, SameIdentity
<1>9. IdentityInv(r)'
  BY <1>1, <1>2, <1>3, <1>5 DEF RequestInv, IdentityInv, AfterQimei
<1>10. PayloadInv(r)'
  BY <1>1, <1>2, <1>4, <1>5 DEF RequestInv, PayloadInv
<1>11. Releases(r)
  BY <1>1, <1>2 DEF Releases, Locked
<1>12. QED
  BY <1>1, <1>6, <1>7, <1>8, <1>9, <1>10, <1>11, QuietStep DEF RequestInv

LEMMA LookupQimeiKeeps ==
    ASSUME IInv, TypeOK', NEW r \in Requests, LookupQimei(r)
    PROVE  IInv'
  BY CurrentQimeiKeeps, ProceedKeeps DEF LookupQimei, AfterSession

LEMMA SnapshotForQimeiKeeps ==
    ASSUME IInv, TypeOK', NEW r \in Requests, SnapshotForQimei(r)
    PROVE  IInv'
<1> DEFINE c == [call[r] EXCEPT !.held = [epoch |-> epoch, device |-> device]]
<1>1. /\ Goto(r, "fetch.check") /\ Local(r, c) /\ Quiet
      /\ pc[r] = "qimei.snapshot"
  BY DEF SnapshotForQimei, Hold
<1>2. /\ pc'[r] = "fetch.check" /\ call'[r] = c
  BY <1>1, Moved DEF IInv
<1>3. /\ call'[r].tries = call[r].tries /\ call'[r].snap = call[r].snap
      /\ call'[r].platform = call[r].platform /\ call'[r].credential = call[r].credential
      /\ call'[r].session = call[r].session /\ call'[r].qimei = call[r].qimei
      /\ call'[r].inner = call[r].inner /\ call'[r].fetching = call[r].fetching
      /\ call'[r].held.epoch = epoch /\ call'[r].held.device = device
  BY <1>2, FieldType DEF CallLocals, IInv
<1>4. /\ payload'[r] = payload[r] /\ cookie'[r] = cookie[r] /\ began'[r] = began[r]
      /\ epoch' = epoch /\ device' = device
  BY <1>1, QuietHistory DEF Quiet
<1>5. RequestInv(r)
  BY DEF IInv
<1>6. EpochInv(r)'
  <2>1. epoch <= epoch
    BY Numbers DEF IInv
  <2>2. QED
    BY <1>1, <1>2, <1>3, <1>4, <1>5, <2>1
       DEF RequestInv, EpochInv, Building, Locked, Holding
<1>7. FetchInv(r)'
  BY <1>1, <1>2, <1>3, <1>4, <1>5 DEF RequestInv, FetchInv, Holding, IInv, NoWriteBack, QimeiOf
<1>8. SessionInv(r)'
  BY <1>1, <1>2, <1>3, <1>4, <1>5, SessionFrame
     DEF RequestInv, Building, AfterSession, SameIdentity
<1>9. IdentityInv(r)'
  BY <1>1, <1>2, <1>3, <1>5 DEF RequestInv, IdentityInv, AfterQimei
<1>10. PayloadInv(r)'
  BY <1>1, <1>2, <1>4, <1>5 DEF RequestInv, PayloadInv
<1>11. Releases(r)
  BY <1>1, <1>2, StaysInside DEF Quiet, Locked
<1>12. QED
  BY <1>1, <1>6, <1>7, <1>8, <1>9, <1>10, <1>11, QuietStep DEF Quiet, RequestInv

-----------------------------------------------------------------------------
\* qimei_for_snapshot, commit_qimei

LEMMA AnswerKeeps ==
    ASSUME IInv, TypeOK', NEW r \in Requests, NEW q \in Devices \cup {NoQimei},
           Fetched(r, q), pc[r] \in Fetching, UNCHANGED <<context, history>>,
           call[r].held.epoch = epoch => QimeiOf(q, call[r].held.device.id)
    PROVE  IInv'
<1>1. RequestInv(r)' /\ Releases(r)
  BY FetchedKeeps DEF context, SameIdentity
<1>2. \A p \in Requests \ {r} : Untouched(p)
  BY FetchedUntouched DEF IInv
<1>3. QED
  BY <1>1, <1>2, ContextKeeps

LEMMA CheckSnapshotKeeps ==
    ASSUME IInv, TypeOK', NEW r \in Requests, CheckSnapshot(r)
    PROVE  IInv'
<1> DEFINE q == QimeiIfFresh(call[r].held.device)
<1>1. pc[r] = "fetch.check"
  BY DEF CheckSnapshot
<1>2. CASE q # NoQimei
  <2>1. q \in Devices \cup {NoQimei}
    BY QimeiType, FieldType DEF IInv
  <2>2. QimeiOf(call[r].held.device.qimei, call[r].held.device.id)
    BY <1>1 DEF IInv, RequestInv, FetchInv, Holding
  <2>3. QimeiOf(q, call[r].held.device.id)
    BY <2>1, <2>2 DEF QimeiIfFresh, QimeiOf
  <2>4. QED
    BY <1>1, <1>2, <2>1, <2>3, AnswerKeeps DEF CheckSnapshot, Fetching
<1>3. CASE q = NoQimei /\ epoch # call[r].held.epoch
  BY <1>1, <1>3, RefetchKeeps DEF CheckSnapshot, Holding
<1>4. CASE q = NoQimei /\ epoch = call[r].held.epoch
  BY <1>1, <1>4, ProceedKeeps DEF CheckSnapshot
<1>5. QED
  BY <1>2, <1>3, <1>4

\* qimei_from_cache reads the current device; as long as the epoch of the
\* snapshot lasts that is the snapshot's device.
LEMMA ReadCacheKeeps ==
    ASSUME IInv, TypeOK', NEW r \in Requests, ReadCache(r)
    PROVE  IInv'
<1>1. pc[r] = "fetch.cache"
  BY DEF ReadCache
<1>2. CASE QimeiIfFresh(device) # NoQimei
  <2>1. call[r].held.epoch = epoch => QimeiOf(QimeiIfFresh(device), call[r].held.device.id)
    BY <1>1, FreshIsOwn DEF IInv, RequestInv, FetchInv, Holding
  <2>2. QED
    BY <1>1, <1>2, <2>1, FreshIsOwn, AnswerKeeps DEF ReadCache, Fetching
<1>3. CASE QimeiIfFresh(device) = NoQimei
  BY <1>1, <1>3, ProceedKeeps DEF ReadCache
<1>4. QED
  BY <1>2, <1>3

LEMMA QimeiReplyKeeps ==
    ASSUME IInv, TypeOK', NEW r \in Requests, QimeiReply(r)
    PROVE  IInv'
<1>1. pc[r] = "fetch.http"
  BY DEF QimeiReply
<1>2. CASE Refetch(r) /\ epoch # call[r].held.epoch
  BY <1>1, <1>2, RefetchKeeps DEF Holding
<1>3. CASE Proceed(r, "fetch.commit")
  BY <1>1, <1>3, ProceedKeeps
<1>4. CASE Fetched(r, NoQimei) /\ UNCHANGED <<context, history>>
  BY <1>1, <1>4, AnswerKeeps DEF QimeiOf, Fetching
<1>5. QED
  BY <1>2, <1>3, <1>4 DEF QimeiReply

\* The epoch is compared and the device written under one lock: what is
\* written is the device's own QIMEI.
LEMMA CommitQimeiKeeps ==
    ASSUME IInv, TypeOK', NEW r \in Requests, CommitQimei(r)
    PROVE  IInv'
<1>1. pc[r] = "fetch.commit"
  BY DEF CommitQimei
<1>2. CASE epoch # call[r].held.epoch
  BY <1>1, <1>2, RefetchKeeps DEF CommitQimei, Holding
<1>3. CASE epoch = call[r].held.epoch
  <2> DEFINE d == call[r].held.device.id
  <2>1. /\ device' = [device EXCEPT !.qimei = d, !.saved = clock] /\ Fetched(r, d)
        /\ UNCHANGED <<epoch, sessions, history>>
    BY <1>3 DEF CommitQimei, Commit
  <2>2. d = device.id /\ d \in Devices /\ device \in Device
    BY <1>1, <1>3, FieldType DEF IInv, RequestInv, FetchInv, Holding, TypeOK
  <2>3. device'.id = device.id /\ device'.qimei = device.id
    BY <2>1, <2>2 DEF Device
  <2>4. SameIdentity
    BY <2>1, <2>3 DEF SameIdentity
  <2>5. RequestInv(r)' /\ Releases(r)
    BY <1>1, <2>1, <2>2, <2>4, FetchedKeeps DEF QimeiOf, Fetching
  <2>6. \A p \in Requests \ {r} : Untouched(p)
    BY <2>1, FetchedUntouched DEF IInv
  <2>7. NoWriteBack' /\ CacheInv'
    BY <2>1, <2>3 DEF IInv, NoWriteBack, CacheInv, IssuedTo, QimeiOf
  <2>8. OneDevice' /\ OneAccount'
    BY <2>1 DEF IInv, OneDevice, OneAccount, history, IssuedTo, QimeiOf
  <2>9. QED
    BY <2>4, <2>5, <2>6, <2>7, <2>8, CallStep DEF IInv
<1>4. QED
  BY <1>2, <1>3

-----------------------------------------------------------------------------
\* build_api_kwargs after the session and the QIMEI are there

LEMMA CheckSessionKeeps ==
    ASSUME IInv, TypeOK', NEW r \in Requests, CheckSession(r)
    PROVE  IInv'
<1>1. pc[r] = "check.session"
  BY DEF CheckSession
<1>2. CASE call[r].session.epoch # epoch
  <2>1. /\ call[r].session # NoSession /\ call[r].snap <= call[r].session.epoch
        /\ call[r].session.epoch <= epoch
    BY <1>1 DEF IInv, RequestInv, SessionInv, Building
  <2>2. call[r].snap < epoch
    BY <1>2, <2>1, Numbers DEF IInv
  <2>3. QED
    BY <1>1, <1>2, <2>2, RebuildKeeps DEF CheckSession, Building, Locked
<1>3. CASE call[r].session.epoch = epoch
  BY <1>1, <1>3, ProceedKeeps DEF CheckSession
<1>4. QED
  BY <1>2, <1>3

\* A turn's snapshot that is not the current epoch is an older one.
LEMMA SnapshotIsPast ==
    ASSUME IInv, NEW r \in Requests, Building(r), call[r].snap # epoch
    PROVE  call[r].snap < epoch
<1>1. call[r].snap <= epoch
  BY DEF IInv, RequestInv, EpochInv
<1>2. QED
  BY <1>1, Numbers DEF IInv

LEMMA CheckEpochKeeps ==
    ASSUME IInv, TypeOK', NEW r \in Requests, CheckEpoch(r)
    PROVE  IInv'
<1>1. pc[r] = "check.snapshot"
  BY DEF CheckEpoch
<1>2. CASE epoch # call[r].snap
  BY <1>1, <1>2, SnapshotIsPast, RebuildKeeps DEF CheckEpoch, Building, Locked
<1>3. CASE epoch = call[r].snap
  BY <1>1, <1>3, ProceedKeeps DEF CheckEpoch
<1>4. QED
  BY <1>2, <1>3

LEMMA CheckQimeiKeeps ==
    ASSUME IInv, TypeOK', NEW r \in Requests, CheckQimei(r)
    PROVE  IInv'
<1> DEFINE c == [call[r] EXCEPT !.read = epoch]
<1>1. pc[r] = "check.qimei" /\ Building(r) /\ RequestInv(r)
  BY DEF CheckQimei, Building, IInv
<1>2. CASE Rebuild(r) /\ (\/ epoch # call[r].snap
                          \/ call[r].session # NoSession /\ call[r].session.epoch # epoch)
  <2>1. call[r].snap # epoch
    <3>1. call[r].session # NoSession =>
            call[r].snap <= call[r].session.epoch /\ call[r].session.epoch <= epoch
      BY <1>1 DEF RequestInv, SessionInv
    <3>2. QED
      BY <1>2, <3>1, Numbers DEF IInv
  <2>2. QED
    BY <1>1, <1>2, <2>1, SnapshotIsPast, RebuildKeeps DEF Locked
<1>3. CASE Local(r, c) /\ Goto(r, "device") /\ Quiet /\ epoch = call[r].snap
  <2>1. /\ pc'[r] = "device" /\ call'[r] = c
    BY <1>3, Moved DEF IInv
  <2>2. /\ call'[r].tries = call[r].tries /\ call'[r].snap = call[r].snap
        /\ call'[r].platform = call[r].platform
        /\ call'[r].credential = call[r].credential
        /\ call'[r].session = call[r].session /\ call'[r].qimei = call[r].qimei
        /\ call'[r].read = epoch
    BY <2>1, FieldType DEF CallLocals, IInv
  <2>3. /\ payload'[r] = payload[r] /\ cookie'[r] = cookie[r] /\ began'[r] = began[r]
        /\ epoch' = epoch /\ device' = device
    BY <1>3, QuietHistory DEF Quiet
  <2>4. EpochInv(r)'
    BY <1>1, <1>3, <2>1, <2>2, <2>3 DEF RequestInv, EpochInv, Building, Locked, Holding
  <2>5. FetchInv(r)'
    BY <2>1 DEF FetchInv, Holding
  <2>6. SessionInv(r)'
    BY <1>1, <2>1, <2>2, <2>3, SessionFrame DEF RequestInv, AfterSession, SameIdentity
  <2>7. IdentityInv(r)'
    BY <1>1, <2>1, <2>2, <2>3 DEF RequestInv, IdentityInv, AfterQimei, QimeiOf
  <2>8. PayloadInv(r)'
    BY <1>1, <2>1, <2>3 DEF RequestInv, PayloadInv
  <2>9. Releases(r)
    BY <1>1, <1>3, <2>1, StaysOutside DEF Quiet, Locked
  <2>10. QED
    BY <1>3, <2>4, <2>5, <2>6, <2>7, <2>8, <2>9, QuietStep DEF Quiet, RequestInv
<1>4. QED
  BY <1>2, <1>3 DEF CheckQimei

LEMMA ReadDeviceKeeps ==
    ASSUME IInv, TypeOK', NEW r \in Requests, ReadDevice(r)
    PROVE  IInv'
<1> DEFINE q == IF QimeiIfFresh(device) # NoQimei THEN device.qimei ELSE call[r].qimei
           c == [call[r] EXCEPT !.device = device.id, !.qimei = q]
<1>1. /\ Goto(r, "check.device") /\ Local(r, c) /\ Quiet
      /\ pc[r] = "device"
  BY DEF ReadDevice
<1>2. /\ pc'[r] = "check.device" /\ call'[r] = c
  BY <1>1, Moved DEF IInv
<1>3. /\ call'[r].tries = call[r].tries /\ call'[r].snap = call[r].snap
      /\ call'[r].platform = call[r].platform /\ call'[r].credential = call[r].credential
      /\ call'[r].session = call[r].session /\ call'[r].qimei = q
      /\ call'[r].read = call[r].read /\ call'[r].device = device.id
  BY <1>2, FieldType DEF CallLocals, IInv
<1>4. /\ payload'[r] = payload[r] /\ cookie'[r] = cookie[r] /\ began'[r] = began[r]
      /\ epoch' = epoch /\ device' = device
  BY <1>1, QuietHistory DEF Quiet
<1>5. RequestInv(r)
  BY DEF IInv
<1>6. EpochInv(r)'
  BY <1>1, <1>2, <1>3, <1>4, <1>5 DEF RequestInv, EpochInv, Building, Locked, Holding
<1>7. FetchInv(r)'
  BY <1>2 DEF FetchInv, Holding
<1>8. SessionInv(r)'
  BY <1>1, <1>2, <1>3, <1>4, <1>5, SessionFrame
     DEF RequestInv, Building, AfterSession, SameIdentity
<1>9. IdentityInv(r)'
  <2>1. QimeiOf(device.qimei, device.id)
    BY DEF IInv, NoWriteBack
  <2>2. call[r].snap = epoch => QimeiOf(call[r].qimei, device.id)
    BY <1>1, <1>5 DEF RequestInv, IdentityInv
  <2>3. QED
    BY <1>2, <1>3, <1>4, <2>1, <2>2 DEF IdentityInv, AfterQimei, QimeiOf
<1>10. PayloadInv(r)'
  BY <1>1, <1>2, <1>4, <1>5 DEF RequestInv, PayloadInv
<1>11. Releases(r)
  BY <1>1, <1>2, StaysOutside DEF Quiet, Locked
<1>12. QED
  BY <1>1, <1>6, <1>7, <1>8, <1>9, <1>10, <1>11, QuietStep DEF Quiet, RequestInv

\* If the last comparison finds the snapshot's epoch, session, QIMEI and device
\* are all of the device in force.
LEMMA BuildIsBound ==
    ASSUME IInv, NEW r \in Requests, pc[r] = "check.device", call[r].read = epoch
    PROVE  /\ call[r].device = device.id
           /\ QimeiOf(call[r].qimei, device.id)
           /\ call[r].session # NoSession =>
                /\ IssuedTo(call[r].session, device.id)
                /\ call[r].session.sid.credential.musicid = AccountOf(r)
           /\ call[r].platform = "android" => call[r].session # NoSession
<1>1. RequestInv(r) /\ Building(r) /\ AfterSession(r)
  BY DEF IInv, Building, AfterSession
<1>2. call[r].snap = epoch
  BY <1>1 DEF RequestInv, EpochInv
<1>3. call[r].session # NoSession =>
        call[r].snap <= call[r].session.epoch /\ call[r].session.epoch <= epoch
  BY <1>1 DEF RequestInv, SessionInv
<1>4. call[r].session # NoSession => call[r].session.epoch = epoch
  BY <1>2, <1>3, Numbers DEF IInv
<1>5. QED
  BY <1>1, <1>2, <1>4 DEF RequestInv, SessionInv, IdentityInv

LEMMA BuildKeeps ==
    ASSUME IInv, TypeOK', NEW r \in Requests, Build(r)
    PROVE  IInv'
<1> DEFINE p == [credential |-> call[r].credential, device |-> call[r].device,
                 qimei |-> call[r].qimei, session |-> call[r].session,
                 platform |-> call[r].platform]
<1>1. pc[r] = "check.device" /\ Building(r) /\ RequestInv(r) /\ TypeOK
  BY DEF Build, Building, IInv
<1>2. CASE epoch # call[r].read
  <2>1. call[r].snap # epoch
    BY <1>1, <1>2 DEF RequestInv, EpochInv
  <2>2. QED
    BY <1>1, <1>2, <2>1, SnapshotIsPast, RebuildKeeps DEF Build, Locked
<1>3. CASE epoch = call[r].read
  <2>1. /\ payload' = [payload EXCEPT ![r] = p] /\ pc'[r] = "send"
        /\ \A q \in Requests \ {r} : pc'[q] = pc[q]
        /\ UNCHANGED <<context, stateLock, call, cookie, began>>
    BY <1>1, <1>3 DEF Build, BuildComm, Goto, TypeOK
  <2>2. p \in Comm /\ p # NoPayload
    BY <1>1, FieldType, AbsentAssumption DEF Comm
  <2>3. /\ payload'[r] = p /\ \A q \in Requests \ {r} : payload'[q] = payload[q]
    BY <1>1, <2>1 DEF TypeOK
  <2>4. SameIdentity /\ epoch' = epoch /\ device' = device /\ sessions' = sessions
    BY <2>1 DEF SameIdentity, context
  <2>5. \A q \in Requests \ {r} : Untouched(q)
    BY <2>1, <2>3 DEF Untouched
  <2>6. EpochInv(r)'
    BY <1>1, <2>1, <2>4 DEF RequestInv, EpochInv, Building, Locked, Holding
  <2>7. FetchInv(r)'
    BY <2>1 DEF FetchInv, Holding
  <2>8. SessionInv(r)'
    BY <1>1, <2>1, <2>4, SessionFrame DEF RequestInv, AfterSession
  <2>9. IdentityInv(r)'
    BY <2>1 DEF IdentityInv, AfterQimei
  <2>10. PayloadInv(r)'
    BY <1>1, <2>1, <2>2, <2>3 DEF RequestInv, PayloadInv
  <2>11. Releases(r)
    BY <1>1, <2>1, StaysOutside DEF Locked
  <2>12. NoWriteBack' /\ CacheInv'
    BY <2>4 DEF IInv, NoWriteBack, CacheInv, IssuedTo, QimeiOf
  <2>13. OneDevice'
    <3>1. p.platform = "android" =>
            /\ p.session # NoSession /\ IssuedTo(p.session, p.device)
            /\ QimeiOf(p.qimei, p.device)
      BY <1>1, <1>3, BuildIsBound
    <3>2. QED
      BY <2>3, <3>1 DEF IInv, OneDevice, IssuedTo, QimeiOf
  <2>14. OneAccount'
    <3>1. cookie[r] = NoCredential
      BY <1>1 DEF RequestInv, PayloadInv
    <3>2. p.session # NoSession => p.session.sid.credential.musicid = p.credential.musicid
      BY <1>1, <1>3, BuildIsBound DEF AccountOf
    <3>3. QED
      BY <2>1, <2>3, <3>1, <3>2 DEF IInv, OneAccount
  <2>15. QED
    BY <2>4, <2>5, <2>6, <2>7, <2>8, <2>9, <2>10, <2>11, <2>12, <2>13, <2>14, CallStep
       DEF IInv, RequestInv
<1>4. QED
  BY <1>2, <1>3

LEMMA SendKeeps ==
    ASSUME IInv, TypeOK', NEW r \in Requests, Send(r)
    PROVE  IInv'
<1>1. pc[r] = "send" /\ RequestInv(r) /\ TypeOK
  BY DEF Send, IInv
<1>2. CASE Finish(r, "cancelled")
  BY <1>2, FinishKeeps DEF Results
<1>3. CASE ~cancelled[r]
  <2>1. /\ cookie'[r] = call[r].credential /\ pc'[r] = "reply"
        /\ \A q \in Requests \ {r} : pc'[q] = pc[q] /\ cookie'[q] = cookie[q]
        /\ UNCHANGED <<context, stateLock, call, payload, began>>
    BY <1>1, <1>3 DEF Send, Goto, TypeOK
  <2>2. SameIdentity /\ epoch' = epoch /\ device' = device /\ sessions' = sessions
    BY <2>1 DEF SameIdentity, context
  <2>3. \A q \in Requests \ {r} : Untouched(q)
    BY <2>1 DEF Untouched
  <2>4. EpochInv(r)'
    BY <1>1, <2>1, <2>2 DEF RequestInv, EpochInv, Building, Locked, Holding
  <2>5. FetchInv(r)'
    BY <2>1 DEF FetchInv, Holding
  <2>6. SessionInv(r)'
    BY <1>1, <2>1, <2>2, SessionFrame DEF RequestInv, AfterSession, Building
  <2>7. IdentityInv(r)'
    BY <2>1 DEF IdentityInv, AfterQimei
  <2>8. PayloadInv(r)'
    BY <1>1, <2>1 DEF RequestInv, PayloadInv
  <2>9. Releases(r)
    BY <1>1, <2>1, StaysOutside DEF Locked
  <2>10. NoWriteBack' /\ CacheInv' /\ OneDevice'
    BY <2>1, <2>2 DEF IInv, NoWriteBack, CacheInv, OneDevice, IssuedTo, QimeiOf
  <2>11. OneAccount'
    <3>1. payload[r].credential = call[r].credential
      BY <1>1 DEF RequestInv, PayloadInv
    <3>2. QED
      BY <2>1, <3>1 DEF IInv, OneAccount
  <2>12. QED
    BY <2>2, <2>3, <2>4, <2>5, <2>6, <2>7, <2>8, <2>9, <2>10, <2>11, CallStep
       DEF IInv, RequestInv
<1>4. QED
  BY <1>2, <1>3 DEF Send

-----------------------------------------------------------------------------
\* The callers and the environment

\* set_device makes every epoch a request holds a past one; what is cached of
\* the old device is tagged with an epoch that never comes back.
LEMMA SetDeviceKeeps ==
    ASSUME IInv, TypeOK', SetDevice
    PROVE  IInv'
<1>1. epoch' = epoch + 1 /\ QimeiOf(device'.qimei, device'.id)
  BY DEF SetDevice, QimeiOf
<1>2. UNCHANGED <<sessions, stateLock, pc, call, payload, cookie, began>>
  BY DEF SetDevice, history
<1>3. epoch \in Nat
  BY DEF IInv, TypeOK
<1>4. \A r \in Requests : RequestInv(r)'
  BY <1>1, <1>2, ReplacedFrame DEF IInv, Untouched
<1>5. NoWriteBack' /\ CacheInv'
  <2>1. \A m \in Accounts : sessions[m] # NoSession =>
           sessions[m].epoch \in Nat /\ sessions[m].epoch <= epoch
    BY DEF IInv, TypeOK, CacheInv, AndroidSession
  <2>2. \A m \in Accounts : sessions[m] # NoSession =>
           sessions[m].epoch # epoch + 1 /\ sessions[m].epoch <= epoch + 1
    BY <1>3, <2>1
  <2>3. QED
    BY <1>1, <1>2, <2>2 DEF IInv, NoWriteBack, CacheInv
<1>6. SingleFlight' /\ OneDevice' /\ OneAccount'
  BY <1>2 DEF IInv, SingleFlight, OneDevice, OneAccount, IssuedTo, QimeiOf
<1>7. QED
  BY <1>4, <1>5, <1>6 DEF IInv

\* Nothing IInv speaks of changes, but sessions that are forgotten.
LEMMA ForgetKeeps ==
    ASSUME IInv, TypeOK',
           UNCHANGED <<device, epoch, stateLock, pc, call, payload, cookie, began>>,
           \A m \in Accounts : sessions'[m] \in {sessions[m], NoSession}
    PROVE  IInv'
<1>1. \A r \in Requests : RequestInv(r)'
  BY Frame DEF IInv, Untouched, SameIdentity
<1>2. NoWriteBack' /\ CacheInv'
  BY DEF IInv, NoWriteBack, CacheInv, QimeiOf, IssuedTo
<1>3. SingleFlight' /\ OneDevice' /\ OneAccount'
  BY DEF IInv, SingleFlight, OneDevice, OneAccount, IssuedTo, QimeiOf
<1>4. QED
  BY <1>1, <1>2, <1>3 DEF IInv

LEMMA InvStep == IInv /\ [Next]_vars => IInv'
<1> SUFFICES ASSUME IInv, [Next]_vars
             PROVE  IInv'
  OBVIOUS
<1>1. TypeOK'
  BY TypeStep DEF IInv
<1>2. ASSUME NEW r \in Requests, Invoke(r)
      PROVE  IInv'
  BY <1>1, <1>2, InvokeKeeps
<1>3. ASSUME NEW r \in Requests, Admit(r) \/ AdmitBatch(r)
      PROVE  IInv'
  BY <1>1, <1>3, GrantKeeps, FinishKeeps DEF Admit, AdmitBatch, Results
<1>4. ASSUME NEW r \in Requests,
             \/ Snapshot(r) \/ ReadEpoch(r) \/ CachedSession(r) \/ LockForSession(r)
             \/ SnapshotForSession(r) \/ LookupSession(r) \/ GetSessionReply(r)
             \/ VerifySession(r) \/ InsertSession(r)
      PROVE  IInv'
  BY <1>1, <1>4, SnapshotKeeps, ReadEpochKeeps, CachedSessionKeeps, LockForSessionKeeps,
     SnapshotForSessionKeeps, LookupSessionKeeps, GetSessionReplyKeeps,
     VerifySessionKeeps, InsertSessionKeeps
<1>5. ASSUME NEW r \in Requests,
             \/ CachedQimei(r) \/ LockForQimei(r) \/ LookupQimei(r) \/ SnapshotForQimei(r)
             \/ CheckSnapshot(r) \/ ReadCache(r) \/ QimeiReply(r) \/ CommitQimei(r)
      PROVE  IInv'
  BY <1>1, <1>5, CachedQimeiKeeps, LockForQimeiKeeps, LookupQimeiKeeps,
     SnapshotForQimeiKeeps, CheckSnapshotKeeps, ReadCacheKeeps, QimeiReplyKeeps,
     CommitQimeiKeeps
<1>6. ASSUME NEW r \in Requests,
             \/ CheckSession(r) \/ CheckEpoch(r) \/ CheckQimei(r) \/ ReadDevice(r)
             \/ Build(r) \/ Send(r)
      PROVE  IInv'
  BY <1>1, <1>6, CheckSessionKeeps, CheckEpochKeeps, CheckQimeiKeeps, ReadDeviceKeeps,
     BuildKeeps, SendKeeps
<1>7. ASSUME NEW r \in Requests, Reply(r) \/ ReplyBatch(r) \/ FetchError(r) \/ Drop(r)
      PROVE  IInv'
  BY <1>7, FinishKeeps DEF Reply, ReplyBatch, FetchError, Drop, Results
<1>8. ASSUME NEW r \in Requests, Cancel(r)
      PROVE  IInv'
  BY <1>1, <1>8, ForgetKeeps DEF Cancel, context
<1>9. CASE SetDevice
  BY <1>1, <1>9, SetDeviceKeeps
<1>10. CASE SetCredential \/ Tick \/ UNCHANGED vars
  <2>1. UNCHANGED <<device, epoch, sessions, stateLock, pc, call, payload, cookie, began>>
    BY <1>10 DEF SetCredential, Tick, vars, context, history
  <2>2. QED
    BY <1>1, <2>1, ForgetKeeps
<1>11. CASE InvalidateSession
  <2>1. \A m \in Accounts : sessions'[m] \in {sessions[m], NoSession}
    BY <1>11 DEF InvalidateSession, IInv, TypeOK
  <2>2. QED
    BY <1>1, <1>11, <2>1, ForgetKeeps DEF InvalidateSession, history
<1>12. QED
  BY <1>2, <1>3, <1>4, <1>5, <1>6, <1>7, <1>8, <1>9, <1>10, <1>11
     DEF Next, Progress, Environment

LEMMA InvInit == Init => IInv
<1> SUFFICES ASSUME Init
             PROVE  IInv
  OBVIOUS
<1>1. TypeOK
  BY TypeInit
<1>2. SingleFlight /\ NoWriteBack /\ OneDevice /\ OneAccount /\ CacheInv
  <2>1. SingleFlight
    BY ContextAssumption DEF Init, SingleFlight, Locked
  <2>2. device.qimei = NoQimei
    BY DEF Init
  <2>3. \A m \in Accounts : sessions[m] = NoSession
    BY DEF Init
  <2>4. \A r \in Requests : payload[r] = NoPayload
    BY DEF Init
  <2>5. QED
    BY <2>1, <2>2, <2>3, <2>4 DEF NoWriteBack, QimeiOf, OneDevice, OneAccount, CacheInv
<1>3. ASSUME NEW r \in Requests
      PROVE  RequestInv(r)
  <2>1. /\ pc[r] = "idle" /\ call[r] = NoCall /\ payload[r] = NoPayload
        /\ cookie[r] = NoCredential
    BY DEF Init
  <2>2. EpochInv(r) /\ FetchInv(r)
    BY <2>1 DEF EpochInv, Building, Locked, Holding, FetchInv
  <2>3. SessionInv(r) /\ IdentityInv(r) /\ PayloadInv(r)
    BY <2>1 DEF SessionInv, Building, AfterSession, IdentityInv, AfterQimei, PayloadInv, NoCall
  <2>4. QED
    BY <2>2, <2>3 DEF RequestInv
<1>4. QED
  BY <1>1, <1>2, <1>3 DEF IInv

\* IInv is inductive.
THEOREM Invariance == Spec => []IInv
  BY InvInit, InvStep, PTL DEF Spec

-----------------------------------------------------------------------------
\* The safety properties

\* However often set_device runs while a request is built, the comm that goes
\* out carries one device: session, QIMEI and device_id are of one identity.
THEOREM OneDeviceHolds == Spec => []OneDevice
<1>1. IInv => OneDevice
  BY DEF IInv
<1>2. QED
  BY <1>1, Invariance, PTL

\* comm, session and Cookie of a request are of one account, however often
\* set_credential runs.
THEOREM OneAccountHolds == Spec => []OneAccount
<1>1. IInv => OneAccount
  BY DEF IInv
<1>2. QED
  BY <1>1, Invariance, PTL

\* Nothing fetched under a replaced device is written to the new one.
THEOREM NoWriteBackHolds == Spec => []NoWriteBack
<1>1. IInv => NoWriteBack
  BY DEF IInv
<1>2. QED
  BY <1>1, Invariance, PTL

\* state_lock is held exactly by the request between taking and releasing it.
THEOREM SingleFlightHolds == Spec => []SingleFlight
<1>1. IInv => SingleFlight
  BY DEF IInv
<1>2. QED
  BY <1>1, Invariance, PTL
=============================================================================
