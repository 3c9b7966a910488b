------------------------ MODULE ApiContextBound_proofs ------------------------
(***************************************************************************)
(* ApiContext implements BoundRequest, and a call gives up only after      *)
(* MAX_DEVICE_RETRIES replacements of the device.  No call sends a session *)
(* that had expired before it was made, and none asks the server for what  *)
(* is in the cache.                                                        *)
(***************************************************************************)
EXTENDS ApiContext_proofs

-----------------------------------------------------------------------------
\* Every step of a call is one of five kinds

OpenLabels == Labels \ {"idle", "done", "send", "reply"}

\* The call goes on, not yet bound.
Moves(r) ==
    /\ pc[r] \in OpenLabels
    /\ \E l \in OpenLabels : Goto(r, l)
    /\ SameIdentity /\ UNCHANGED <<payload, result>>

\* The call ends, but not for a replaced device.
Ends(r) ==
    /\ pc[r] \notin {"idle", "done"}
    /\ \E o \in Results \ {"device replaced"} : Finish(r, o)

\* The call gives up, and has cause.
GivesUp(r) ==
    /\ pc[r] \notin {"idle", "done"}
    /\ Finish(r, "device replaced")
    /\ began[r].epoch + MaxDeviceRetries <= epoch

Binds(r) ==
    /\ pc[r] = "check.device" /\ call[r].read = epoch
    /\ BuildComm(r)

Sends(r) ==
    /\ pc[r] = "send" /\ Goto(r, "reply")
    /\ SameIdentity /\ UNCHANGED <<payload, result>>

LEMMA QuietMoves ==
    ASSUME NEW r \in Requests, pc[r] \in OpenLabels, NEW l \in OpenLabels, Goto(r, l),
           UNCHANGED <<context, history>>
    PROVE  Moves(r)
  BY DEF Moves, SameIdentity, context, history

LEMMA ProceedMoves ==
    ASSUME NEW r \in Requests, pc[r] \in OpenLabels, NEW l \in OpenLabels, Proceed(r, l)
    PROVE  Moves(r)
  BY QuietMoves DEF Proceed, Quiet

LEMMA SessionReadyMoves ==
    ASSUME NEW r \in Requests, pc[r] \in OpenLabels, NEW s, SessionReady(r, s),
           epoch' = epoch, device' = device, UNCHANGED history
    PROVE  Moves(r)
  BY DEF SessionReady, Moves, SameIdentity, history, OpenLabels, Labels

LEMMA FetchedMoves ==
    ASSUME NEW r \in Requests, pc[r] \in OpenLabels, NEW q,
           Fetched(r, q) \/ QimeiReady(r, q), SameIdentity, UNCHANGED history
    PROVE  Moves(r)
<1>1. \E l \in OpenLabels : Goto(r, l)
  BY DEF Fetched, PostGetSession, QimeiReady, OpenLabels, Labels
<1>2. QED
  BY <1>1 DEF Moves, history

\* The last turn of build_api_kwargs' loop has seen MAX_DEVICE_RETRIES replacements.
LEMMA RebuildMoves ==
    ASSUME IInv, NEW r \in Requests, Rebuild(r), Building(r), call[r].snap # epoch,
           pc[r] \in OpenLabels
    PROVE  Moves(r) \/ GivesUp(r)
<1>1. CASE call[r].tries + 1 = MaxDeviceRetries
  <2>1. began[r].epoch + call[r].tries <= call[r].snap /\ call[r].snap < epoch
    BY SnapshotIsPast DEF IInv, RequestInv, EpochInv
  <2>2. began[r].epoch + (call[r].tries + 1) <= epoch
    BY <2>1, Numbers DEF IInv
  <2>3. QED
    BY <1>1, <2>2 DEF Rebuild, GivesUp, OpenLabels
<1>2. CASE call[r].tries + 1 # MaxDeviceRetries
  BY <1>2, QuietMoves DEF Rebuild, Turn, Quiet, OpenLabels, Labels
<1>3. QED
  BY <1>1, <1>2

LEMMA RefetchMoves ==
    ASSUME IInv, NEW r \in Requests, Refetch(r), pc[r] \in Holding,
           call[r].held.epoch # epoch
    PROVE  Moves(r) \/ GivesUp(r)
<1>1. pc[r] \in OpenLabels
  BY DEF Holding, OpenLabels, Labels
<1>2. CASE call[r].inner + 1 = MaxDeviceRetries
  <2>1. /\ began[r].epoch + call[r].inner <= call[r].held.epoch
        /\ call[r].held.epoch <= epoch
    BY DEF IInv, RequestInv, EpochInv
  <2>2. began[r].epoch + (call[r].inner + 1) <= epoch
    BY <2>1, Numbers DEF IInv
  <2>3. QED
    BY <1>1, <1>2, <2>2 DEF Refetch, GivesUp, OpenLabels
<1>3. CASE call[r].inner + 1 # MaxDeviceRetries
  BY <1>1, <1>3, QuietMoves DEF Refetch, Quiet, OpenLabels, Labels
<1>4. QED
  BY <1>2, <1>3

Kinds(r) == Moves(r) \/ Ends(r) \/ GivesUp(r) \/ Binds(r) \/ Sends(r)

LEMMA CallKinds ==
    ASSUME IInv, NEW r \in Requests, Progress(r) \/ Drop(r)
    PROVE  Kinds(r)
<1>1. CASE Admit(r) \/ AdmitBatch(r)
  <2>1. pc[r] \in OpenLabels /\ pc[r] \notin {"idle", "done"}
    BY <1>1 DEF Admit, AdmitBatch, OpenLabels, Labels
  <2>2. CASE Finish(r, "cancelled") \/ Finish(r, "login required")
    BY <2>1, <2>2 DEF Ends, Results, Kinds
  <2>3. CASE Goto(r, "snapshot") /\ Quiet
    BY <2>1, <2>3, QuietMoves DEF Quiet, OpenLabels, Labels, Kinds
  <2>4. QED
    BY <1>1, <2>2, <2>3 DEF Admit, AdmitBatch, Grant
<1>2. CASE \/ Snapshot(r) \/ ReadEpoch(r) \/ LockForSession(r) \/ SnapshotForSession(r)
           \/ LockForQimei(r) \/ SnapshotForQimei(r) \/ ReadDevice(r)
  <2>1. pc[r] \in OpenLabels /\ UNCHANGED <<context, history>>
        /\ \E l \in OpenLabels : Goto(r, l)
    BY <1>2 DEF Snapshot, ReadEpoch, LockForSession, SnapshotForSession, LockForQimei,
       SnapshotForQimei, ReadDevice, Quiet, OpenLabels, Labels
  <2>2. QED
    BY <2>1, QuietMoves DEF Kinds
<1>3. CASE CachedSession(r) \/ LookupSession(r) \/ InsertSession(r)
  <2>1. pc[r] \in OpenLabels
    BY <1>3 DEF CachedSession, LookupSession, InsertSession, OpenLabels, Labels
  <2>2. CASE CachedSession(r) \/ LookupSession(r)
    BY <2>1, <2>2, SessionReadyMoves, ProceedMoves
       DEF CachedSession, LookupSession, context, OpenLabels, Labels, Kinds
  <2>3. CASE InsertSession(r)
    BY <2>1, <2>3, SessionReadyMoves DEF InsertSession, Kinds
  <2>4. QED
    BY <1>3, <2>2, <2>3
<1>4. CASE GetSessionReply(r) \/ VerifySession(r)
  <2>1. pc[r] \in OpenLabels /\ pc[r] \in Holding
    BY <1>4 DEF GetSessionReply, VerifySession, OpenLabels, Labels, Holding
  <2>2. CASE epoch # call[r].held.epoch
    BY <1>4, <2>1, <2>2, RefetchMoves DEF GetSessionReply, VerifySession, Kinds
  <2>3. CASE epoch = call[r].held.epoch
    <3>1. \E l \in OpenLabels : Goto(r, l) /\ Quiet
      BY <1>4, <2>3 DEF GetSessionReply, VerifySession, Proceed, OpenLabels, Labels
    <3>2. QED
      BY <2>1, <3>1, QuietMoves DEF Quiet, Kinds
  <2>4. QED
    BY <2>2, <2>3
<1>5. CASE CachedQimei(r) \/ LookupQimei(r)
  <2>1. pc[r] \in OpenLabels
    BY <1>5 DEF CachedQimei, LookupQimei, OpenLabels, Labels
  <2>2. QED
    BY <1>5, <2>1, FetchedMoves, ProceedMoves
       DEF CachedQimei, LookupQimei, context, SameIdentity, OpenLabels, Labels, Kinds
<1>6. CASE CheckSnapshot(r) \/ ReadCache(r) \/ QimeiReply(r)
  <2>1. pc[r] \in OpenLabels /\ pc[r] \in Holding
    BY <1>6 DEF CheckSnapshot, ReadCache, QimeiReply, OpenLabels, Labels, Holding
  <2>2. CASE Refetch(r) /\ epoch # call[r].held.epoch
    BY <2>1, <2>2, RefetchMoves DEF Kinds
  <2>3. ASSUME NEW q, Fetched(r, q) \/ QimeiReady(r, q), UNCHANGED <<context, history>>
        PROVE  Kinds(r)
    BY <2>1, <2>3, FetchedMoves DEF context, SameIdentity, Kinds
  <2>4. ASSUME NEW l \in OpenLabels, Proceed(r, l)
        PROVE  Kinds(r)
    BY <2>1, <2>4, ProceedMoves DEF Kinds
  <2>5. QED
    BY <1>6, <2>2, <2>3, <2>4 DEF CheckSnapshot, ReadCache, QimeiReply, OpenLabels, Labels
<1>7. CASE CommitQimei(r)
  <2>1. pc[r] \in OpenLabels /\ pc[r] \in Holding
    BY <1>7 DEF CommitQimei, OpenLabels, Labels, Holding
  <2>2. CASE Refetch(r) /\ epoch # call[r].held.epoch
    BY <2>1, <2>2, RefetchMoves DEF Kinds
  <2>3. CASE Commit(r)
    <3>1. SameIdentity /\ UNCHANGED history
      BY <2>3 DEF Commit, SameIdentity, IInv, TypeOK, Device
    <3>2. QED
      BY <2>1, <2>3, <3>1, FetchedMoves DEF Commit, Kinds
  <2>4. QED
    BY <1>7, <2>2, <2>3 DEF CommitQimei
<1>8. CASE CheckSession(r) \/ CheckEpoch(r) \/ CheckQimei(r)
  <2>1. pc[r] \in OpenLabels /\ Building(r) /\ RequestInv(r)
    BY <1>8 DEF CheckSession, CheckEpoch, CheckQimei, OpenLabels, Labels, Building, IInv
  <2>2. CASE Rebuild(r)
    <3>1. \/ epoch # call[r].snap
          \/ call[r].session # NoSession /\ call[r].session.epoch # epoch
          \/ \E l \in OpenLabels : Goto(r, l) /\ Quiet
      BY <1>8, <2>1 DEF CheckSession, CheckEpoch, CheckQimei, RequestInv, SessionInv,
         Proceed, OpenLabels, Labels
    <3>2. call[r].session # NoSession =>
            call[r].snap <= call[r].session.epoch /\ call[r].session.epoch <= epoch
      BY <2>1 DEF RequestInv, SessionInv
    <3>3. CASE call[r].snap # epoch
      BY <2>1, <2>2, <3>3, RebuildMoves DEF Kinds
    <3>4. CASE call[r].snap = epoch
      <4>1. \E l \in OpenLabels : Goto(r, l) /\ Quiet
        BY <3>1, <3>2, <3>4, Numbers DEF IInv
      <4>2. QED
        BY <2>1, <4>1, QuietMoves DEF Quiet, Kinds
    <3>5. QED
      BY <3>3, <3>4
  <2>3. CASE \E l \in OpenLabels : Goto(r, l) /\ Quiet
    BY <2>1, <2>3, QuietMoves DEF Quiet, Kinds
  <2>4. QED
    BY <1>8, <2>2, <2>3 DEF CheckSession, CheckEpoch, CheckQimei, Proceed, OpenLabels, Labels
<1>9. CASE Build(r)
  <2>1. pc[r] \in OpenLabels /\ Building(r) /\ call[r].read = call[r].snap
    BY <1>9 DEF Build, OpenLabels, Labels, Building, IInv, RequestInv, EpochInv
  <2>2. CASE epoch # call[r].read
    BY <1>9, <2>1, <2>2, RebuildMoves DEF Build, Kinds
  <2>3. CASE epoch = call[r].read
    BY <1>9, <2>3 DEF Build, Binds, Kinds
  <2>4. QED
    BY <2>2, <2>3
<1>10. CASE Send(r)
  BY <1>10 DEF Send, Sends, Ends, Results, SameIdentity, context, Kinds
<1>11. CASE Reply(r) \/ ReplyBatch(r) \/ FetchError(r) \/ Drop(r)
  <2>1. pc[r] \notin {"idle", "done"}
    BY <1>11 DEF Reply, ReplyBatch, FetchError, Drop, AwaitPoints
  <2>2. \E o \in Results \ {"device replaced"} : Finish(r, o)
    BY <1>11 DEF Reply, ReplyBatch, FetchError, Drop, Results
  <2>3. QED
    BY <2>1, <2>2 DEF Ends, Kinds
<1>12. QED
  BY <1>1, <1>2, <1>3, <1>4, <1>5, <1>6, <1>7, <1>8, <1>9, <1>10, <1>11 DEF Progress

-----------------------------------------------------------------------------
\* GivesUpForCause

HasCause(r) ==
    result[r] = "none" /\ result'[r] = "device replaced" =>
        began[r].epoch + MaxDeviceRetries <= epoch

LEMMA CauseStep == IInv /\ [Next]_vars => \A q \in Requests : HasCause(q)
<1> SUFFICES ASSUME IInv, [Next]_vars, NEW q \in Requests
             PROVE  HasCause(q)
  OBVIOUS
<1>1. result \in [Requests -> Results]
  BY DEF IInv, TypeOK
<1>2. CASE UNCHANGED result
  BY <1>2 DEF HasCause
<1>3. ASSUME NEW r \in Requests, Progress(r) \/ Drop(r)
      PROVE  HasCause(q)
  <2>1. CASE Moves(r) \/ Sends(r) \/ Binds(r)
    BY <1>2, <2>1 DEF Moves, Sends, Binds, BuildComm
  <2>2. CASE Ends(r)
    BY <1>1, <2>2 DEF Ends, Finish, HasCause
  <2>3. CASE GivesUp(r)
    BY <1>1, <2>3 DEF GivesUp, Finish, HasCause
  <2>4. QED
    BY <1>3, <2>1, <2>2, <2>3, CallKinds DEF Kinds
<1>4. CASE UNCHANGED vars
  BY <1>2, <1>4 DEF vars, history
<1>5. CASE Environment
  BY <1>2, <1>5 DEF Environment, SetDevice, SetCredential, InvalidateSession, Tick, history
<1>6. ASSUME NEW r \in Requests, Invoke(r) \/ Cancel(r)
      PROVE  HasCause(q)
  BY <1>2, <1>6 DEF Invoke, Cancel
<1>7. QED
  BY <1>3, <1>4, <1>5, <1>6 DEF Next

\* A call ends with device_replaced_error only if set_device ran
\* MAX_DEVICE_RETRIES times since the call was made.
THEOREM GivesUpHolds == Spec => GivesUpForCause
<1>1. IInv /\ [Next]_vars => [\A r \in Requests : HasCause(r)]_vars
  BY CauseStep
<1>2. Spec => [][\A r \in Requests : HasCause(r)]_vars
  BY <1>1, Invariance, PTL DEF Spec
<1>3. QED
  BY <1>2 DEF GivesUpForCause, HasCause

-----------------------------------------------------------------------------
\* BoundAtOnce

\* What is bound does not depend on the program counter.
LEMMA Stutters ==
    ASSUME \A q \in Requests : Phase(q)' = Phase(q), UNCHANGED payload, SameIdentity
    PROVE  UNCHANGED Bound!bvars
<1>1. [q \in Requests |-> Phase(q)]' = [q \in Requests |-> Phase(q)]
  OBVIOUS
<1>2. [q \in Requests |-> Binding(q)]' = [q \in Requests |-> Binding(q)]
  BY DEF Binding, SessionOwner
<1>3. QED
  BY <1>1, <1>2 DEF Bound!bvars, SameIdentity

\* One call changes phase, and with it what it is bound to.
LEMMA PhaseStep ==
    ASSUME TypeOK, NEW r \in Requests, NEW l \in Labels, Goto(r, l),
           \A q \in Requests \ {r} : payload'[q] = payload[q]
    PROVE  /\ [q \in Requests |-> Phase(q)]' =
                [[q \in Requests |-> Phase(q)] EXCEPT ![r] = Phase(r)']
           /\ [q \in Requests |-> Binding(q)]' =
                [[q \in Requests |-> Binding(q)] EXCEPT ![r] = Binding(r)']
<1>1. \A q \in Requests \ {r} : Phase(q)' = Phase(q)
  BY DEF Goto, TypeOK, Phase
<1>2. \A q \in Requests \ {r} : Binding(q)' = Binding(q)
  BY DEF Binding, SessionOwner
<1>3. QED
  BY <1>1, <1>2

\* What the last comparison of epochs lets through is of the device in force.
LEMMA BoundBinding ==
    ASSUME IInv, NEW r \in Requests, Binds(r)
    PROVE  Binding(r)' \in Bound!Bindings(call[r].credential, device.id)
<1> DEFINE p == [credential |-> call[r].credential, device |-> call[r].device,
                 qimei |-> call[r].qimei, session |-> call[r].session,
                 platform |-> call[r].platform]
<1>1. p \in Comm /\ p # NoPayload
  BY FieldType, AbsentAssumption DEF IInv, Comm
<1>2. payload'[r] = p
  BY DEF Binds, BuildComm, IInv, TypeOK
<1>3. /\ p.device = device.id /\ QimeiOf(p.qimei, device.id)
      /\ p.session # NoSession =>
           /\ p.session.sid.device = device.id
           /\ p.session.sid.credential.musicid = p.credential.musicid
  BY BuildIsBound DEF Binds, IssuedTo, AccountOf
<1>4. Binding(r)' = [credential |-> p.credential, device |-> p.device,
                     qimei |-> p.qimei, session |-> SessionOwner(p.session)]
  BY <1>1, <1>2 DEF Binding, SessionOwner
<1>5. SessionOwner(p.session) \in
        {NoSession} \cup [musicid : {p.credential.musicid}, device : {device.id}]
  BY <1>3 DEF SessionOwner
<1>6. QED
  BY <1>3, <1>4, <1>5 DEF Bound!Bindings, QimeiOf

LEMMA BoundInit == Init => Bound!Init
<1> SUFFICES ASSUME Init
             PROVE  Bound!Init
  OBVIOUS
<1>1. device.id \in Devices
  BY DEF Init
<1>2. \A r \in Requests : Phase(r) = "idle" /\ Binding(r) = NoPayload
  BY DEF Init, Phase, Binding
<1>3. QED
  BY <1>1, <1>2 DEF Init, Bound!Init

LEMMA BoundStep == IInv /\ IInv' /\ [Next]_vars => [Bound!Next]_Bound!bvars
<1> SUFFICES ASSUME IInv, IInv', [Next]_vars
             PROVE  Bound!Next \/ UNCHANGED Bound!bvars
  BY DEF Bound!bvars
<1>0. TypeOK
  BY DEF IInv
<1>1. ASSUME NEW r \in Requests, Moves(r) \/ Sends(r)
      PROVE  UNCHANGED Bound!bvars
  BY <1>0, <1>1, Stutters DEF Moves, Sends, OpenLabels, Labels, Phase, Goto, TypeOK
<1>2. ASSUME NEW r \in Requests, NEW o \in Results, Finish(r, o), pc[r] \notin {"idle", "done"}
      PROVE  Bound!Close(r)
  <2>1. Goto(r, "done") /\ payload' = [payload EXCEPT ![r] = NoPayload] /\ UNCHANGED context
    BY <1>2 DEF Finish
  <2>2. Phase(r)' = "closed" /\ Binding(r)' = NoPayload /\ Phase(r) \in {"open", "bound"}
    BY <1>0, <1>2, <2>1 DEF Goto, TypeOK, Phase, Binding
  <2>3. \A q \in Requests \ {r} : payload'[q] = payload[q]
    BY <1>0, <2>1 DEF TypeOK
  <2>4. QED
    BY <1>0, <2>1, <2>2, <2>3, PhaseStep DEF Bound!Close, context, Labels
<1>3. ASSUME NEW r \in Requests, Binds(r)
      PROVE  Bound!Bind(r)
  <2>1. Goto(r, "send") /\ UNCHANGED context
    BY <1>3 DEF Binds, BuildComm
  <2>2. Phase(r)' = "bound" /\ Phase(r) = "open"
    BY <1>0, <1>3, <2>1 DEF Goto, TypeOK, Phase, Binds
  <2>3. \A q \in Requests \ {r} : payload'[q] = payload[q]
    BY <1>0, <1>3 DEF Binds, BuildComm, TypeOK
  <2>4. call[r].credential \in Credentials
    BY <1>0, FieldType
  <2>5. QED
    BY <1>0, <1>3, <2>1, <2>2, <2>3, <2>4, PhaseStep, BoundBinding
       DEF Bound!Bind, context, Labels
<1>4. ASSUME NEW r \in Requests, Invoke(r)
      PROVE  Bound!Open(r)
  <2>1. Goto(r, "limiter") /\ UNCHANGED <<context, payload>> /\ pc[r] = "idle"
    BY <1>4 DEF Invoke
  <2>2. Phase(r)' = "open" /\ Phase(r) = "idle" /\ Binding(r)' = Binding(r)
    BY <1>0, <2>1 DEF Goto, TypeOK, Phase, Binding, SessionOwner
  <2>3. QED
    BY <1>0, <2>1, <2>2, PhaseStep DEF Bound!Open, context, Labels
<1>5. CASE SetDevice
  <2>1. epoch' = epoch + 1 /\ UNCHANGED <<pc, payload>> /\ device'.id \in Devices
    BY <1>5 DEF SetDevice, history
  <2>2. [q \in Requests |-> Phase(q)]' = [q \in Requests |-> Phase(q)]
    BY <2>1 DEF Phase
  <2>3. [q \in Requests |-> Binding(q)]' = [q \in Requests |-> Binding(q)]
    BY <2>1 DEF Binding, SessionOwner
  <2>4. Bound!Replace(device'.id)
    BY <2>1, <2>2, <2>3 DEF Bound!Replace
  <2>5. QED
    BY <2>1, <2>4 DEF Bound!Next
<1>6. CASE SetCredential \/ InvalidateSession \/ Tick \/ UNCHANGED vars
  <2>1. UNCHANGED <<pc, payload, epoch, device>>
    BY <1>6 DEF SetCredential, InvalidateSession, Tick, vars, context, history
  <2>2. QED
    BY <2>1, Stutters DEF SameIdentity, Phase
<1>7. ASSUME NEW r \in Requests, Cancel(r)
      PROVE  UNCHANGED Bound!bvars
  <2>1. UNCHANGED <<pc, payload, epoch, device>>
    BY <1>7 DEF Cancel, context
  <2>2. QED
    BY <2>1, Stutters DEF SameIdentity, Phase
<1>8. ASSUME NEW r \in Requests, Progress(r) \/ Drop(r)
      PROVE  Bound!Next \/ UNCHANGED Bound!bvars
  <2>1. CASE Moves(r) \/ Sends(r)
    BY <1>1, <2>1
  <2>2. CASE Ends(r) \/ GivesUp(r)
    BY <1>2, <2>2 DEF Ends, GivesUp, Results, Bound!Next
  <2>3. CASE Binds(r)
    BY <1>3, <2>3 DEF Bound!Next
  <2>4. QED
    BY <1>8, <2>1, <2>2, <2>3, CallKinds DEF Kinds
<1>9. QED
  BY <1>4, <1>5, <1>6, <1>7, <1>8 DEF Next, Environment, Bound!Next

\* ApiContext implements BoundRequest: at one instant while it is open, every
\* request is bound, as a whole, to one credential and to the device in force.
THEOREM Refinement == Spec => BoundAtOnce
  BY BoundInit, BoundStep, Invariance, PTL DEF Spec, BoundAtOnce, Bound!Spec

-----------------------------------------------------------------------------
\* What the steps of one call do to the other calls and to the context

LEMMA FinishApart ==
    ASSUME TypeOK, NEW r \in Requests, NEW o, Finish(r, o), NEW q \in Requests \ {r}
    PROVE  Untouched(q)
  BY Moved DEF Finish, Untouched, TypeOK

LEMMA RebuildApart ==
    ASSUME TypeOK, NEW r \in Requests, Rebuild(r) \/ Refetch(r), NEW q \in Requests \ {r}
    PROVE  Untouched(q) /\ UNCHANGED context
<1>1. CASE \E o : Finish(r, o)
  BY <1>1, FinishApart DEF Finish
<1>2. CASE Turn(r)
  BY <1>2, OthersUntouched DEF Turn, Quiet
<1>3. CASE \E l, c : Goto(r, l) /\ Local(r, c) /\ Quiet
  BY <1>3, OthersUntouched DEF Quiet
<1>4. QED
  BY <1>1, <1>2, <1>3 DEF Rebuild, Refetch

LEMMA ProceedApart ==
    ASSUME TypeOK, NEW r \in Requests, NEW l, Proceed(r, l), NEW q \in Requests \ {r}
    PROVE  Untouched(q) /\ UNCHANGED context
  BY DEF Proceed, Quiet, Goto, TypeOK, Untouched, history

\* What a step of call r leaves to call q: nothing of q's, the epoch and the
\* time, and device and cache unless r has state_lock.
Apart(r, q) ==
    /\ Untouched(q) /\ epoch' = epoch /\ clock' = clock
    /\ UNCHANGED <<sessions, device>> \/ pc[r] \in Locked

LEMMA CallApart ==
    ASSUME IInv, NEW r \in Requests, Progress(r) \/ Drop(r), NEW q \in Requests \ {r}
    PROVE  Apart(r, q)
<1>0. TypeOK
  BY DEF IInv
<1>1. CASE \E o : Finish(r, o)
  BY <1>0, <1>1, FinishApart DEF Finish, context, Apart
<1>2. CASE Rebuild(r) \/ Refetch(r)
  BY <1>0, <1>2, RebuildApart DEF context, Apart
<1>3. CASE \E l : Proceed(r, l)
  BY <1>0, <1>3, ProceedApart DEF context, Apart
<1>4. CASE \E l, c : Goto(r, l) /\ Local(r, c) /\ UNCHANGED <<context, history>>
  BY <1>0, <1>4, OthersUntouched DEF context, Apart
<1>5. ASSUME NEW s, SessionReady(r, s), UNCHANGED <<context, history>>
      PROVE  Apart(r, q)
  BY <1>0, <1>5, OthersUntouched DEF SessionReady, context, Apart
<1>6. ASSUME NEW d, Fetched(r, d) \/ QimeiReady(r, d), UNCHANGED <<context, history>>
      PROVE  Apart(r, q)
  BY <1>0, <1>6, FetchedUntouched DEF context, Apart
<1>7. CASE Admit(r) \/ AdmitBatch(r)
  BY <1>1, <1>4, <1>7 DEF Admit, AdmitBatch, Grant, Quiet
<1>8. CASE \/ Snapshot(r) \/ ReadEpoch(r) \/ LockForSession(r) \/ SnapshotForSession(r)
           \/ LockForQimei(r) \/ SnapshotForQimei(r) \/ ReadDevice(r)
  BY <1>4, <1>8 DEF Snapshot, ReadEpoch, LockForSession, SnapshotForSession, LockForQimei,
     SnapshotForQimei, ReadDevice, Hold, Quiet
<1>9. CASE CachedSession(r) \/ LookupSession(r)
  BY <1>3, <1>5, <1>9 DEF CachedSession, LookupSession
<1>10. CASE InsertSession(r)
  <2>1. UNCHANGED <<epoch, clock, history>> /\ pc[r] \in Locked
        /\ \E s : SessionReady(r, s)
    BY <1>10 DEF InsertSession, Locked
  <2>2. Untouched(q)
    BY <1>0, <2>1, OthersUntouched DEF SessionReady
  <2>3. QED
    BY <2>1, <2>2 DEF Apart
<1>11. CASE GetSessionReply(r) \/ VerifySession(r)
  BY <1>2, <1>3, <1>4, <1>11 DEF GetSessionReply, VerifySession, Quiet
<1>12. CASE CachedQimei(r) \/ LookupQimei(r)
  BY <1>3, <1>6, <1>12 DEF CachedQimei, LookupQimei
<1>13. CASE CheckSnapshot(r) \/ ReadCache(r) \/ QimeiReply(r)
  BY <1>2, <1>3, <1>6, <1>13 DEF CheckSnapshot, ReadCache, QimeiReply
<1>14. CASE CommitQimei(r)
  <2>1. CASE Commit(r)
    <3>1. UNCHANGED <<epoch, clock, history>> /\ pc[r] \in Locked
          /\ \E d : Fetched(r, d)
      BY <1>14, <2>1 DEF CommitQimei, Commit, Locked
    <3>2. Untouched(q)
      BY <1>0, <3>1, FetchedUntouched
    <3>3. QED
      BY <3>1, <3>2 DEF Apart
  <2>2. QED
    BY <1>2, <1>14, <2>1 DEF CommitQimei
<1>15. CASE CheckSession(r) \/ CheckEpoch(r) \/ CheckQimei(r)
  BY <1>2, <1>3, <1>4, <1>15 DEF CheckSession, CheckEpoch, CheckQimei, Quiet
<1>16. CASE Build(r)
  <2>1. CASE BuildComm(r)
    BY <1>0, <2>1 DEF BuildComm, Goto, TypeOK, Untouched, context, Apart
  <2>2. QED
    BY <1>2, <1>16, <2>1 DEF Build
<1>17. CASE Send(r)
  <2>1. CASE ~cancelled[r]
    BY <1>0, <1>17, <2>1 DEF Send, Goto, TypeOK, Untouched, context, Apart
  <2>2. QED
    BY <1>1, <1>17, <2>1 DEF Send
<1>18. CASE Reply(r) \/ ReplyBatch(r) \/ FetchError(r) \/ Drop(r)
  BY <1>1, <1>18 DEF Reply, ReplyBatch, FetchError, Drop
<1>19. QED
  BY <1>7, <1>8, <1>9, <1>10, <1>11, <1>12, <1>13, <1>14, <1>15, <1>16, <1>17, <1>18
     DEF Progress

-----------------------------------------------------------------------------
\* UsableWhenCalled

\* Session s had not expired when r was called.
Fresh(r, s) == s # NoSession => began[r].clock < s.acquired + Lifetime

Uses(r) ==
    /\ pc[r] \notin {"idle", "done"} => began[r].clock <= clock
    /\ Fresh(r, call[r].session)
    /\ payload[r] # NoPayload => Fresh(r, payload[r].session)

\* The call goes on with the session it has, with none, or with a fresh one.
Carries(r) ==
    /\ pc[r] \notin {"idle", "done"}
    /\ clock' = clock /\ began'[r] = began[r]
    /\ payload'[r] = payload[r] \/ payload'[r].session = call[r].session
    /\ \/ call'[r].session \in {NoSession, call[r].session}
       \/ Fresh(r, call'[r].session)

Over(r) == pc'[r] = "done" /\ call'[r] = NoCall /\ payload'[r] = NoPayload

LEMMA CarriesUses ==
    ASSUME NEW r \in Requests, Uses(r), Carries(r) \/ Over(r)
    PROVE  Uses(r)'
<1>1. CASE Carries(r)
  BY <1>1 DEF Uses, Carries, Fresh
<1>2. CASE Over(r)
  BY <1>2 DEF Uses, Over, Fresh, NoCall
<1>3. QED
  BY <1>1, <1>2

LEMMA FinishOver ==
    ASSUME TypeOK, NEW r \in Requests, NEW o, Finish(r, o)
    PROVE  Over(r)
  BY Moved DEF Finish, Over, TypeOK

LEMMA LocalCarries ==
    ASSUME TypeOK, NEW r \in Requests, pc[r] \notin {"idle", "done"}, NEW l, NEW c,
           Goto(r, l), Local(r, c), clock' = clock, UNCHANGED history,
           c.session \in {NoSession, call[r].session} \/ Fresh(r, c.session)
    PROVE  Carries(r)
  BY Moved DEF Carries, history

\* Giving a value to another local leaves the session of a call.
LEMMA SameSession ==
    ASSUME NEW c \in CallLocals
    PROVE  /\ \A e : [c EXCEPT !.snap = e].session = c.session
           /\ \A e : [c EXCEPT !.read = e].session = c.session
           /\ \A e : [c EXCEPT !.qimei = e].session = c.session
           /\ \A e : [c EXCEPT !.held = e].session = c.session
           /\ \A e : [c EXCEPT !.sid = e].session = c.session
           /\ \A e : [c EXCEPT !.inner = e].session = c.session
           /\ \A e, f : [c EXCEPT !.inner = e, !.fetching = f].session = c.session
           /\ \A e, f : [c EXCEPT !.device = e, !.qimei = f].session = c.session
           /\ \A e, f : [c EXCEPT !.credential = e, !.platform = f].session = c.session
           /\ \A e : [c EXCEPT !.session = e].session = e
  BY DEF CallLocals

LEMMA RebuildCarries ==
    ASSUME TypeOK, NEW r \in Requests, pc[r] \notin {"idle", "done"}, Rebuild(r) \/ Refetch(r)
    PROVE  Carries(r) \/ Over(r)
<1>1. CASE \E o : Finish(r, o)
  BY <1>1, FinishOver
<1>2. CASE Turn(r)
  <2> DEFINE c == [NoCall EXCEPT !.tries = call[r].tries + 1,
                     !.credential = call[r].credential, !.platform = call[r].platform]
  <2>1. c.session = NoSession
    BY DEF NoCall
  <2>2. Goto(r, "snapshot") /\ Local(r, c) /\ clock' = clock /\ UNCHANGED history
    BY <1>2 DEF Turn, Quiet, context
  <2>3. QED
    BY <2>1, <2>2, LocalCarries
<1>3. CASE Refetch(r) /\ ~\E o : Finish(r, o)
  <2> DEFINE c == [call[r] EXCEPT !.inner = call[r].inner + 1]
  <2>1. c.session = call[r].session
    BY FieldType, SameSession
  <2>2. Local(r, c) /\ clock' = clock /\ UNCHANGED history /\ \E l : Goto(r, l)
    BY <1>3 DEF Refetch, Quiet, context
  <2>3. QED
    BY <2>1, <2>2, LocalCarries
<1>4. QED
  BY <1>1, <1>2, <1>3 DEF Rebuild

LEMMA ProceedCarries ==
    ASSUME TypeOK, NEW r \in Requests, pc[r] \notin {"idle", "done"}, NEW l, Proceed(r, l)
    PROVE  Carries(r)
  BY DEF Proceed, Quiet, Carries, context, history

LEMMA SessionReadyCarries ==
    ASSUME TypeOK, NEW r \in Requests, pc[r] \notin {"idle", "done"}, NEW s,
           SessionReady(r, s), clock' = clock, UNCHANGED history,
           s = call[r].session \/ Fresh(r, s)
    PROVE  Carries(r)
<1>1. [call[r] EXCEPT !.session = s].session = s
  BY FieldType, SameSession
<1>2. QED
  BY <1>1, LocalCarries DEF SessionReady

LEMMA FetchedCarries ==
    ASSUME TypeOK, NEW r \in Requests, pc[r] \notin {"idle", "done"}, NEW q,
           Fetched(r, q) \/ QimeiReady(r, q), clock' = clock, UNCHANGED history
    PROVE  Carries(r)
<1>1. \A e : /\ [call[r] EXCEPT !.sid = e].session = call[r].session
             /\ [call[r] EXCEPT !.qimei = e].session = call[r].session
  BY FieldType, SameSession
<1>2. CASE PostGetSession(r, q)
  BY <1>1, <1>2, LocalCarries DEF PostGetSession
<1>3. CASE QimeiReady(r, q)
  BY <1>1, <1>3, LocalCarries DEF QimeiReady
<1>4. QED
  BY <1>2, <1>3 DEF Fetched

\* A cached session that is valid now was valid when the call began.
LEMMA ValidIsFresh ==
    ASSUME TypeOK, NEW r \in Requests, began[r].clock <= clock,
           NEW s \in AndroidSession \cup {NoSession}, NEW e, Valid(s, e)
    PROVE  Fresh(r, s)
<1>1. clock \in Nat /\ began[r].clock \in Nat /\ s.acquired \in Nat /\ Lifetime \in Nat
  BY ContextAssumption DEF TypeOK, AndroidSession, Valid
<1>2. QED
  BY <1>1 DEF Valid, Fresh

LEMMA CallCarries ==
    ASSUME IInv, NEW r \in Requests, Uses(r), Progress(r) \/ Drop(r)
    PROVE  Carries(r) \/ Over(r)
<1>0. TypeOK /\ call[r] \in CallLocals
  BY FieldType DEF IInv
<1>a. pc[r] \notin {"idle", "done"}
  BY DEF Progress, Drop, AwaitPoints, Admit, AdmitBatch, Snapshot, ReadEpoch, CachedSession,
     LockForSession, SnapshotForSession, LookupSession, GetSessionReply, VerifySession,
     InsertSession, CachedQimei, LockForQimei, LookupQimei, SnapshotForQimei, CheckSnapshot,
     ReadCache, QimeiReply, CommitQimei, CheckSession, CheckEpoch, CheckQimei, ReadDevice,
     Build, Send, Reply, ReplyBatch, FetchError
<1>b. began[r].clock <= clock
  BY <1>a DEF Uses
<1>1. CASE \E o : Finish(r, o)
  BY <1>0, <1>1, FinishOver
<1>2. CASE Rebuild(r) \/ Refetch(r)
  BY <1>0, <1>a, <1>2, RebuildCarries
<1>3. CASE \E l : Proceed(r, l)
  BY <1>0, <1>a, <1>3, ProceedCarries
<1>4. ASSUME NEW l, NEW c, Goto(r, l), Local(r, c), UNCHANGED <<context, history>>,
             c.session = call[r].session
      PROVE  Carries(r)
  BY <1>0, <1>a, <1>4, LocalCarries DEF context
<1>6. ASSUME NEW d, Fetched(r, d) \/ QimeiReady(r, d), UNCHANGED <<clock, history>>
      PROVE  Carries(r)
  BY <1>0, <1>a, <1>6, FetchedCarries
<1>7. CASE Admit(r) \/ AdmitBatch(r)
  <2>1. CASE \E k, p : Local(r, [call[r] EXCEPT !.credential = k, !.platform = p])
                       /\ Goto(r, "snapshot") /\ Quiet
    <3>1. PICK k, p : /\ Local(r, [call[r] EXCEPT !.credential = k, !.platform = p])
                      /\ Goto(r, "snapshot") /\ Quiet
      BY <2>1
    <3> DEFINE c == [call[r] EXCEPT !.credential = k, !.platform = p]
    <3>2. c.session = call[r].session
      BY <1>0 DEF CallLocals
    <3>3. Goto(r, "snapshot") /\ Local(r, c) /\ UNCHANGED <<context, history>>
      BY <3>1 DEF Quiet
    <3> HIDE DEF c
    <3>4. QED
      BY <1>4, <3>2, <3>3
  <2>2. QED
    BY <1>1, <1>7, <2>1 DEF Admit, AdmitBatch, Grant
<1>8. CASE \/ Snapshot(r) \/ ReadEpoch(r) \/ LockForSession(r) \/ SnapshotForSession(r)
           \/ LockForQimei(r) \/ SnapshotForQimei(r) \/ ReadDevice(r)
  <2>1. CASE Snapshot(r)
    BY <1>0, <1>4, <2>1, SameSession DEF Snapshot, Quiet
  <2>2. CASE ReadEpoch(r)
    BY <1>0, <1>4, <2>2, SameSession DEF ReadEpoch, Quiet
  <2>3. CASE LockForSession(r)
    <3> DEFINE c == [call[r] EXCEPT !.inner = 0, !.fetching = "session"]
    <3>1. c.session = call[r].session
      BY <1>0 DEF CallLocals
    <3>2. Goto(r, "session.snapshot") /\ Local(r, c) /\ UNCHANGED <<context, history>>
      BY <2>3 DEF LockForSession
    <3> HIDE DEF c
    <3>3. QED
      BY <1>4, <3>1, <3>2
  <2>4. CASE SnapshotForSession(r) \/ SnapshotForQimei(r)
    BY <1>0, <1>4, <2>4, SameSession DEF SnapshotForSession, SnapshotForQimei, Hold, Quiet
  <2>5. CASE LockForQimei(r)
    <3> DEFINE c == [call[r] EXCEPT !.inner = 0, !.fetching = "qimei"]
    <3>1. c.session = call[r].session
      BY <1>0 DEF CallLocals
    <3>2. Goto(r, "qimei.lookup") /\ Local(r, c) /\ UNCHANGED <<context, history>>
      BY <2>5 DEF LockForQimei
    <3> HIDE DEF c
    <3>3. QED
      BY <1>4, <3>1, <3>2
  <2>6. CASE ReadDevice(r)
    <3> DEFINE c == [call[r] EXCEPT !.device = device.id,
                       !.qimei = IF QimeiIfFresh(device) # NoQimei THEN device.qimei ELSE @]
    <3>1. c.session = call[r].session
      BY <1>0 DEF CallLocals
    <3>2. Goto(r, "check.device") /\ Local(r, c) /\ UNCHANGED <<context, history>>
      BY <2>6 DEF ReadDevice, Quiet
    <3> HIDE DEF c
    <3>3. QED
      BY <1>4, <3>1, <3>2
  <2>7. QED
    BY <1>8, <2>1, <2>2, <2>3, <2>4, <2>5, <2>6
<1>9. CASE CachedSession(r) \/ LookupSession(r)
  <2>1. sessions[AccountOf(r)] \in AndroidSession \cup {NoSession}
    BY <1>0, AccountType DEF TypeOK
  <2>2. ASSUME NEW e, Valid(sessions[AccountOf(r)], e),
               SessionReady(r, sessions[AccountOf(r)]), UNCHANGED <<context, history>>
        PROVE  Carries(r)
    BY <1>0, <1>a, <1>b, <2>1, <2>2, ValidIsFresh, SessionReadyCarries DEF context
  <2>3. QED
    BY <1>3, <1>9, <2>2 DEF CachedSession, LookupSession
<1>10. CASE InsertSession(r)
  BY <1>0, <1>a, <1>10, SessionReadyCarries DEF InsertSession
<1>11. CASE GetSessionReply(r)
  <2> DEFINE s == [sid |-> call[r].sid, acquired |-> clock, epoch |-> call[r].held.epoch]
  <2>1. clock \in Nat /\ began[r].clock \in Nat /\ Lifetime \in Nat /\ Lifetime > 0
    BY <1>0, ContextAssumption DEF TypeOK
  <2>2. Fresh(r, s)
    BY <1>b, <2>1 DEF Fresh
  <2>3. [call[r] EXCEPT !.session = s].session = s
    BY <1>0, SameSession
  <2>4. CASE Local(r, [call[r] EXCEPT !.session = s]) /\ Goto(r, "session.verify") /\ Quiet
    BY <1>0, <1>a, <2>2, <2>3, <2>4, LocalCarries DEF Quiet, context
  <2>5. QED
    BY <1>2, <1>11, <2>4 DEF GetSessionReply
<1>12. CASE VerifySession(r)
  BY <1>2, <1>3, <1>12 DEF VerifySession
<1>13. CASE CachedQimei(r) \/ LookupQimei(r)
  BY <1>3, <1>6, <1>13 DEF CachedQimei, LookupQimei, context
<1>14. CASE CheckSnapshot(r) \/ ReadCache(r) \/ QimeiReply(r)
  BY <1>2, <1>3, <1>6, <1>14 DEF CheckSnapshot, ReadCache, QimeiReply, context
<1>15. CASE CommitQimei(r)
  BY <1>2, <1>6, <1>15 DEF CommitQimei, Commit
<1>16. CASE CheckSession(r) \/ CheckEpoch(r)
  BY <1>2, <1>3, <1>16 DEF CheckSession, CheckEpoch
<1>17. CASE CheckQimei(r)
  BY <1>0, <1>2, <1>4, <1>17, SameSession DEF CheckQimei, Quiet
<1>18. CASE Build(r)
  <2>1. CASE BuildComm(r)
    <3>1. payload'[r].session = call[r].session
      BY <1>0, <2>1 DEF BuildComm, TypeOK
    <3>2. QED
      BY <1>a, <2>1, <3>1 DEF BuildComm, Carries, context
  <2>2. QED
    BY <1>2, <1>18, <2>1 DEF Build
<1>19. CASE Send(r)
  <2>1. CASE ~cancelled[r]
    BY <1>a, <1>19, <2>1 DEF Send, Carries, context
  <2>2. QED
    BY <1>1, <1>19, <2>1 DEF Send
<1>20. CASE Reply(r) \/ ReplyBatch(r) \/ FetchError(r) \/ Drop(r)
  BY <1>1, <1>20 DEF Reply, ReplyBatch, FetchError, Drop
<1>21. QED
  BY <1>7, <1>8, <1>9, <1>10, <1>11, <1>12, <1>13, <1>14, <1>15, <1>16, <1>17, <1>18,
     <1>19, <1>20 DEF Progress

\* What other calls and the environment do leaves what a call uses.
LEMMA UsesFrame ==
    ASSUME TypeOK, NEW q \in Requests, Uses(q), Untouched(q), clock' \in Nat, clock <= clock'
    PROVE  Uses(q)'
<1>1. clock \in Nat /\ began[q].clock \in Nat
  BY DEF TypeOK
<1>2. QED
  BY <1>1 DEF Uses, Untouched, Fresh

LEMMA UsesStep ==
    IInv /\ (\A q \in Requests : Uses(q)) /\ [Next]_vars => \A q \in Requests : Uses(q)'
<1> SUFFICES ASSUME IInv, \A q \in Requests : Uses(q), [Next]_vars, NEW q \in Requests
             PROVE  Uses(q)'
  OBVIOUS
<1>0. TypeOK /\ clock \in Nat /\ clock <= clock
  BY DEF IInv, TypeOK
<1>1. CASE Untouched(q) /\ clock' = clock
  BY <1>0, <1>1, UsesFrame
<1>2. ASSUME NEW r \in Requests, Progress(r) \/ Drop(r)
      PROVE  Uses(q)'
  <2>1. CASE q = r
    BY <1>2, <2>1, CallCarries, CarriesUses
  <2>2. CASE q # r
    BY <1>1, <1>2, <2>2, CallApart DEF Apart
  <2>3. QED
    BY <2>1, <2>2
<1>3. ASSUME NEW r \in Requests, Invoke(r)
      PROVE  Uses(q)'
  <2>1. CASE q # r
    <3>1. Untouched(q) /\ clock' = clock
      BY <1>0, <1>3, <2>1 DEF Invoke, Goto, TypeOK, Untouched, context
    <3>2. QED
      BY <1>1, <3>1
  <2>2. CASE q = r
    <3>1. call[r] = NoCall /\ payload[r] = NoPayload
      BY <1>3 DEF IInv, RequestInv, PayloadInv, Invoke
    <3>2. /\ began'[r].clock = clock /\ clock' = clock /\ call'[r] = NoCall
          /\ payload'[r] = NoPayload
      BY <1>0, <1>3, <3>1 DEF Invoke, context, TypeOK
    <3>3. QED
      BY <1>0, <2>2, <3>2 DEF Uses, Fresh, NoCall
  <2>3. QED
    BY <2>1, <2>2
<1>4. ASSUME NEW r \in Requests, Cancel(r)
      PROVE  Uses(q)'
  BY <1>1, <1>4 DEF Cancel, Untouched, context
<1>5. CASE Tick
  <2>1. clock' = clock + 1 /\ Untouched(q)
    BY <1>5 DEF Tick, Untouched, history
  <2>2. clock' \in Nat /\ clock <= clock'
    BY <1>0, <2>1
  <2>3. QED
    BY <1>0, <2>1, <2>2, UsesFrame
<1>6. CASE SetDevice \/ SetCredential \/ InvalidateSession \/ UNCHANGED vars
  BY <1>1, <1>6 DEF SetDevice, SetCredential, InvalidateSession, Untouched, vars, context, history
<1>7. QED
  BY <1>2, <1>3, <1>4, <1>5, <1>6 DEF Next, Environment

\* A call never sends a session that had expired before the call was made, for
\* any lifetime and however the clock runs on while the request is built.
THEOREM UsableHolds == Spec => []UsableWhenCalled
<1> DEFINE U == \A q \in Requests : Uses(q)
<1>1. Init => U
  BY DEF Init, Uses, Fresh, NoCall
<1>2. IInv /\ U /\ [Next]_vars => U'
  BY UsesStep
<1>3. U => UsableWhenCalled
  BY DEF Uses, Fresh, UsableWhenCalled
<1>4. QED
  BY <1>1, <1>2, <1>3, Invariance, PTL DEF Spec

-----------------------------------------------------------------------------
\* AppliesOnce

\* Call r is on its way to a GetSession request, or waits for its answer.
Applying(r) == pc[r] \in Fetching \cup {"session.post"} /\ call[r].fetching = "session"

\* Under the epoch call r fetches for, what it fetches is not there to share.
Applies(r) ==
    call[r].held.epoch = epoch =>
        /\ Applying(r) => ~Valid(sessions[AccountOf(r)], epoch)
        /\ pc[r] = "fetch.http" => QimeiIfFresh(device) = NoQimei

\* Call r fetches nothing after the step.
Leaves(r) == pc'[r] \notin Fetching \cup {"session.post"}

\* Call r goes on with what it fetches, and finds no QIMEI if it is to ask for one.
Stays(r) ==
    /\ UNCHANGED <<sessions, epoch, clock>>
    /\ call'[r].held = call[r].held /\ call'[r].credential = call[r].credential
    /\ call'[r].fetching = call[r].fetching
    /\ pc[r] \in Fetching
    /\ pc'[r] = "fetch.http" => device' = device /\ QimeiIfFresh(device) = NoQimei

LEMMA OwnApplies ==
    ASSUME NEW r \in Requests, Applies(r), Leaves(r) \/ Stays(r)
    PROVE  Applies(r)'
<1>1. CASE Leaves(r)
  BY <1>1 DEF Leaves, Applies, Applying, Fetching
<1>2. CASE Stays(r)
  BY <1>2 DEF Stays, Applies, Applying, Fetching, AccountOf, Valid, QimeiIfFresh
<1>3. QED
  BY <1>1, <1>2

LEMMA RebuildLeaves ==
    ASSUME TypeOK, NEW r \in Requests, Rebuild(r) \/ Refetch(r)
    PROVE  Leaves(r)
<1>1. \A l : Goto(r, l) => pc'[r] = l
  BY DEF Goto, TypeOK
<1>2. QED
  BY <1>1 DEF Rebuild, Refetch, Turn, Finish, Leaves, Fetching

LEMMA FetchedStays ==
    ASSUME TypeOK, NEW r \in Requests, NEW d, Fetched(r, d) \/ QimeiReady(r, d),
           UNCHANGED <<sessions, epoch, clock>>, pc[r] \in Fetching \/ QimeiReady(r, d)
    PROVE  Leaves(r) \/ Stays(r)
<1>1. CASE QimeiReady(r, d)
  BY <1>1, Moved DEF QimeiReady, Leaves, Fetching
<1>2. CASE PostGetSession(r, d) /\ pc[r] \in Fetching
  <2> DEFINE c == [call[r] EXCEPT !.sid =
                     [credential |-> call[r].credential, device |-> call[r].held.device.id,
                      qimei |-> d, gen |-> invalidations[AccountOf(r)]]]
  <2>1. /\ c.held = call[r].held /\ c.credential = call[r].credential
        /\ c.fetching = call[r].fetching
    BY FieldType DEF CallLocals
  <2>2. pc'[r] = "session.post" /\ call'[r] = c
    BY <1>2, Moved DEF PostGetSession
  <2>3. QED
    BY <1>2, <2>1, <2>2 DEF Stays
<1>3. QED
  BY <1>1, <1>2 DEF Fetched

LEMMA ProceedStays ==
    ASSUME TypeOK, NEW r \in Requests, NEW l, Proceed(r, l), pc[r] \in Fetching,
           l = "fetch.http" => QimeiIfFresh(device) = NoQimei
    PROVE  Stays(r)
  BY DEF Proceed, Quiet, Goto, TypeOK, Stays, context

LEMMA CallApplies ==
    ASSUME IInv, NEW r \in Requests, Applies(r), Progress(r) \/ Drop(r)
    PROVE  Applies(r)'
<1>0. TypeOK
  BY DEF IInv
<1>a. \A l : Goto(r, l) => pc'[r] = l
  BY <1>0 DEF Goto, TypeOK
<1>1. CASE \E o : Finish(r, o)
  BY <1>a, <1>1, OwnApplies DEF Finish, Leaves, Fetching
<1>2. CASE Rebuild(r) \/ Refetch(r)
  BY <1>0, <1>2, RebuildLeaves, OwnApplies
<1>3. CASE \E l : Goto(r, l) /\ l \notin Fetching \cup {"session.post"}
  BY <1>a, <1>3, OwnApplies DEF Leaves
<1>4. CASE \E s : SessionReady(r, s)
  BY <1>3, <1>4 DEF SessionReady, Fetching
<1>6. ASSUME NEW d, Fetched(r, d) \/ QimeiReady(r, d), UNCHANGED <<sessions, epoch, clock>>,
             pc[r] \in Fetching \/ QimeiReady(r, d)
      PROVE  Applies(r)'
  BY <1>0, <1>6, FetchedStays, OwnApplies
<1>7. CASE Admit(r) \/ AdmitBatch(r)
  <2>1. CASE Goto(r, "snapshot")
    BY <1>3, <2>1 DEF Fetching
  <2>2. QED
    BY <1>1, <1>7, <2>1 DEF Admit, AdmitBatch, Grant
<1>8. CASE Snapshot(r) \/ ReadEpoch(r) \/ LockForSession(r) \/ SnapshotForSession(r)
           \/ LockForQimei(r) \/ ReadDevice(r)
  BY <1>3, <1>8 DEF Snapshot, ReadEpoch, LockForSession, SnapshotForSession, LockForQimei,
     ReadDevice, Fetching
<1>9. CASE CachedSession(r)
  BY <1>3, <1>4, <1>9 DEF CachedSession, Proceed, Fetching
<1>10. CASE LookupSession(r)
  <2>1. CASE ~Valid(sessions[AccountOf(r)], call[r].held.epoch) /\ Proceed(r, "fetch.check")
    <3>1. /\ UNCHANGED <<sessions, epoch, clock>> /\ call' = call /\ pc'[r] = "fetch.check"
      BY <1>a, <2>1 DEF Proceed, Quiet, context
    <3>2. QED
      BY <2>1, <3>1 DEF Applies, AccountOf, Valid
  <2>2. QED
    BY <1>4, <1>10, <2>1 DEF LookupSession
<1>11. CASE GetSessionReply(r) \/ VerifySession(r)
  BY <1>2, <1>3, <1>11 DEF GetSessionReply, VerifySession, Proceed, Fetching
<1>12. CASE InsertSession(r)
  BY <1>4, <1>12 DEF InsertSession
<1>13. CASE CachedQimei(r) \/ LookupQimei(r)
  BY <1>3, <1>6, <1>13 DEF CachedQimei, LookupQimei, Proceed, Fetching, context
<1>14. CASE SnapshotForQimei(r)
  <2> DEFINE c == [call[r] EXCEPT !.held = [epoch |-> epoch, device |-> device]]
  <2>1. c.fetching = call[r].fetching
    BY <1>0, FieldType DEF CallLocals
  <2>2. call[r].fetching = "qimei"
    BY <1>14 DEF IInv, RequestInv, FetchInv, SnapshotForQimei
  <2>3. pc'[r] = "fetch.check" /\ call'[r] = c
    BY <1>0, <1>14, Moved DEF SnapshotForQimei, Hold
  <2>4. QED
    BY <2>1, <2>2, <2>3 DEF Applies, Applying
<1>15. CASE CheckSnapshot(r) \/ ReadCache(r) \/ QimeiReply(r)
  <2>1. pc[r] \in Fetching
    BY <1>15 DEF CheckSnapshot, ReadCache, QimeiReply, Fetching
  <2>2. CASE \E d : Fetched(r, d) /\ UNCHANGED <<context, history>>
    BY <1>6, <2>1, <2>2 DEF context
  <2>3. CASE \/ Proceed(r, "fetch.cache") \/ Proceed(r, "fetch.commit")
             \/ Proceed(r, "fetch.http") /\ QimeiIfFresh(device) = NoQimei
    BY <1>0, <2>1, <2>3, ProceedStays, OwnApplies
  <2>4. CASE CheckSnapshot(r) \/ ReadCache(r)
    BY <1>2, <2>2, <2>3, <2>4 DEF CheckSnapshot, ReadCache
  <2>5. CASE QimeiReply(r)
    <3>1. \/ Refetch(r)
          \/ Proceed(r, "fetch.commit")
          \/ Fetched(r, NoQimei) /\ UNCHANGED <<context, history>>
      BY <2>5 DEF QimeiReply
    <3>2. QED
      BY <1>2, <2>2, <2>3, <3>1
  <2>6. QED
    BY <1>15, <2>4, <2>5
<1>16. CASE CommitQimei(r)
  BY <1>2, <1>6, <1>16 DEF CommitQimei, Commit, Fetching
<1>17. CASE CheckSession(r) \/ CheckEpoch(r) \/ CheckQimei(r)
  BY <1>2, <1>3, <1>17 DEF CheckSession, CheckEpoch, CheckQimei, Proceed, Fetching
<1>18. CASE Build(r) \/ Send(r)
  BY <1>1, <1>2, <1>3, <1>18 DEF Build, BuildComm, Send, Fetching
<1>19. CASE Reply(r) \/ ReplyBatch(r) \/ FetchError(r) \/ Drop(r)
  BY <1>1, <1>19 DEF Reply, ReplyBatch, FetchError, Drop
<1>20. QED
  BY <1>7, <1>8, <1>9, <1>10, <1>11, <1>12, <1>13, <1>14, <1>15, <1>16, <1>17, <1>18, <1>19
     DEF Progress

\* Only who has state_lock fills the cache, and only one call has it.
LEMMA OthersApply ==
    ASSUME IInv, NEW q \in Requests, Applies(q),
           NEW r \in Requests \ {q}, Progress(r) \/ Drop(r)
    PROVE  Applies(q)'
<1>1. Apart(r, q)
  BY CallApart
<1>2. CASE UNCHANGED <<sessions, device>>
  BY <1>1, <1>2 DEF Apart, Untouched, Applies, Applying, AccountOf, Valid, QimeiIfFresh
<1>3. CASE pc[r] \in Locked
  <2>1. pc[q] \notin Locked
    BY <1>3 DEF IInv, SingleFlight
  <2>2. Leaves(q)
    BY <1>1, <2>1 DEF Apart, Untouched, Leaves, Fetching, Locked
  <2>3. QED
    BY <2>2, OwnApplies
<1>4. QED
  BY <1>1, <1>2, <1>3 DEF Apart

\* An account loses its session, or time passes: what was stale remains stale.
LEMMA StaleFrame ==
    ASSUME TypeOK, NEW q \in Requests, Applies(q), Untouched(q), epoch' = epoch,
           device' = device, clock' \in Nat, clock <= clock',
           \A m \in Accounts : sessions'[m] \in {sessions[m], NoSession}
    PROVE  Applies(q)'
<1>1. AccountOf(q) \in Accounts /\ AccountOf(q)' = AccountOf(q)
  BY AccountType DEF Untouched, AccountOf
<1>2. ASSUME ~Valid(sessions[AccountOf(q)], epoch)
      PROVE  ~Valid(sessions[AccountOf(q)], epoch)'
  <2> DEFINE s == sessions[AccountOf(q)]
  <2>1. CASE s = NoSession \/ s.epoch # epoch \/ sessions'[AccountOf(q)] = NoSession
    BY <1>1, <2>1 DEF Valid
  <2>2. CASE s # NoSession /\ ~(clock < s.acquired + Lifetime)
    <3>1. s.acquired \in Nat /\ clock \in Nat /\ Lifetime \in Nat
      BY <1>1, <2>2, ContextAssumption DEF TypeOK, AndroidSession
    <3>2. ~(clock' < s.acquired + Lifetime)
      BY <2>2, <3>1
    <3>3. QED
      BY <1>1, <2>1, <3>2 DEF Valid
  <2>3. QED
    BY <1>2, <2>1, <2>2 DEF Valid
<1>3. ASSUME QimeiIfFresh(device) = NoQimei
      PROVE  QimeiIfFresh(device)' = NoQimei
  <2>1. device.saved \in Nat /\ clock \in Nat /\ Lifetime \in Nat
    BY ContextAssumption DEF TypeOK, Device
  <2>2. QED
    BY <1>3, <2>1 DEF QimeiIfFresh
<1>4. QED
  BY <1>2, <1>3 DEF Applies, Applying, Untouched

LEMMA AppliesStep ==
    IInv /\ (\A q \in Requests : Applies(q)) /\ [Next]_vars => \A q \in Requests : Applies(q)'
<1> SUFFICES ASSUME IInv, \A q \in Requests : Applies(q), [Next]_vars, NEW q \in Requests
             PROVE  Applies(q)'
  OBVIOUS
<1>0. TypeOK /\ clock \in Nat /\ clock <= clock
  BY DEF IInv, TypeOK
<1>1. CASE Untouched(q) /\ UNCHANGED <<sessions, epoch, device, clock>>
  BY <1>0, <1>1, StaleFrame
<1>2. ASSUME NEW r \in Requests, Progress(r) \/ Drop(r)
      PROVE  Applies(q)'
  BY <1>2, CallApplies, OthersApply
<1>3. ASSUME NEW r \in Requests, Invoke(r)
      PROVE  Applies(q)'
  <2>1. CASE q # r
    <3>1. Untouched(q) /\ UNCHANGED <<sessions, epoch, device, clock>>
      BY <1>0, <1>3, <2>1 DEF Invoke, Goto, TypeOK, Untouched, context
    <3>2. QED
      BY <1>1, <3>1
  <2>2. CASE q = r
    BY <1>0, <1>3, <2>2, OwnApplies DEF Invoke, Goto, TypeOK, Leaves, Fetching
  <2>3. QED
    BY <2>1, <2>2
<1>4. ASSUME NEW r \in Requests, Cancel(r)
      PROVE  Applies(q)'
  BY <1>1, <1>4 DEF Cancel, Untouched, context
<1>5. CASE Tick
  <2>1. clock' = clock + 1 /\ Untouched(q) /\ UNCHANGED <<sessions, epoch, device>>
    BY <1>5 DEF Tick, Untouched, history
  <2>2. clock' \in Nat /\ clock <= clock'
    BY <1>0, <2>1
  <2>3. QED
    BY <1>0, <2>1, <2>2, StaleFrame
<1>6. CASE InvalidateSession
  <2>1. /\ UNCHANGED <<epoch, device, clock>> /\ Untouched(q)
        /\ \A m \in Accounts : sessions'[m] \in {sessions[m], NoSession}
    BY <1>0, <1>6 DEF InvalidateSession, Untouched, TypeOK, history
  <2>2. QED
    BY <1>0, <2>1, StaleFrame
<1>7. CASE SetDevice
  <2>1. epoch' = epoch + 1 /\ Untouched(q)
    BY <1>7 DEF SetDevice, Untouched, history
  <2>2. CASE pc[q] \in Holding
    <3>1. call[q].held.epoch <= epoch /\ call[q].held.epoch \in Nat /\ epoch \in Nat
      BY <1>0, <2>2, FieldType DEF IInv, RequestInv, EpochInv, CallLocals, TypeOK
    <3>2. call[q].held.epoch # epoch + 1
      BY <3>1
    <3>3. QED
      BY <2>1, <3>2 DEF Applies, Untouched
  <2>3. CASE pc[q] \notin Holding
    BY <2>1, <2>3, OwnApplies DEF Leaves, Untouched, Fetching, Holding
  <2>4. QED
    BY <2>2, <2>3
<1>8. CASE SetCredential \/ UNCHANGED vars
  BY <1>1, <1>8 DEF SetCredential, Untouched, vars, context, history
<1>9. QED
  BY <1>2, <1>3, <1>4, <1>5, <1>6, <1>7, <1>8 DEF Next, Environment

\* However many calls find the cache stale, one GetSession request and one
\* QIMEI request are made for it: none is under way while its answer is there.
THEOREM AppliesOnceHolds == Spec => []AppliesOnce
<1> DEFINE A == \A q \in Requests : Applies(q)
<1>1. Init => A
  BY DEF Init, Applies, Applying, Fetching
<1>2. IInv /\ A /\ [Next]_vars => A'
  BY AppliesStep
<1>3. IInv /\ A => AppliesOnce
  <2> SUFFICES ASSUME IInv, A, NEW r \in Requests, call[r].held.epoch = epoch
               PROVE  /\ pc[r] = "session.post" => ~Valid(sessions[AccountOf(r)], epoch)
                      /\ pc[r] = "fetch.http" => QimeiIfFresh(device) = NoQimei
    BY DEF AppliesOnce
  <2>1. pc[r] = "session.post" => Applying(r)
    BY DEF IInv, RequestInv, FetchInv, Applying
  <2>2. QED
    BY <2>1 DEF Applies
<1>4. QED
  BY <1>1, <1>2, <1>3, Invariance, PTL DEF Spec
=============================================================================
