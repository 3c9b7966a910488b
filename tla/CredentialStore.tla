--------------------------- MODULE CredentialStore ---------------------------
(***************************************************************************)
(* The store of login credentials (src/credential_store.rs): a table of    *)
(* accounts with a current one, written through to a backend, and refresh, *)
(* which renews an expired credential over the network under a lock per    *)
(* account that is created on demand and collected when nobody waits.      *)
(*                                                                         *)
(* Concurrent calls of refresh, ensure_current and apply_current run step  *)
(* by step, one step per critical section or await, interleaved with a     *)
(* host that adds, removes and switches accounts, with expiry, dropped     *)
(* futures, a failing backend and crashes of the process.                  *)
(***************************************************************************)
EXTENDS Naturals, Sequences, FiniteSets

CONSTANTS
    Refreshers,   \* calls of refresh
    Ensurers,     \* calls of ensure_current
    Appliers,     \* calls of apply_current
    Accounts,     \* musicids
    MaxTurns,     \* MAX_CURRENT_RETRIES, 4 in the code
    NoTask, NoLock, NoAccount,
    MaxIssued, MaxSwitches, MaxRestarts  \* bounds on the environment

Tasks == Refreshers \cup Ensurers \cup Appliers

ASSUME StoreAssumption ==
    /\ IsFiniteSet(Tasks) /\ NoTask \notin Tasks /\ IsFiniteSet(Accounts)
    /\ Refreshers \cap Ensurers = {}
    /\ Appliers \cap (Refreshers \cup Ensurers) = {}
    /\ Accounts \subseteq Nat /\ NoAccount \notin Accounts
    /\ MaxTurns \in Nat /\ MaxTurns > 0

VARIABLES
    store,     \* CredentialStore::store, the table in memory
    disk,      \* what the backend has
    locks,     \* refresh_locks: the lock in the map, by account
    arc,       \* the Arc of a lock each task holds
    holder,    \* holder of each lock
    client,    \* the credential set in the Client, by ensure and apply_current
    pc,        \* where each task is
    call,      \* local variables of each task
    result,    \* what each call returned
    expired,   \* credentials past their time, by account
    origin,    \* credentials the server issued, by account: what each renews
    lost,      \* credentials whose renewal never reached the store
    switches,  \* how often the current account changed
    began,     \* switches when the call was made
    restarts

shared == <<store, disk, locks, client>>
server == <<expired, origin, lost>>
environment == <<switches, restarts>>
vars == <<shared, server, environment, arc, holder, pc, call, result, began>>

-----------------------------------------------------------------------------
\* Data

\* A credential is its number among those the server issued for the account;
\* musickey and refresh_token are equal just for equal numbers.
Absent == 0

ASSUME NoLockAssumption == NoLock \notin Tasks \X Nat

\* A lock is named after the call, and its turn, that creates it.
LockIds == Tasks \X (0 .. MaxTurns - 1)

Table == [accounts : [Accounts -> Nat], current : Accounts \cup {NoAccount}]
Stored(a) == store.accounts[a]
Present(table) == {a \in Accounts : table.accounts[a] # Absent}
Issued(a) == 1 .. Len(origin[a])

\* The credentials the server has already renewed.
Used(a) == {origin[a][g] : g \in Issued(a)}

\* The first key of the BTreeMap.
First(accounts) ==
    IF accounts = {} THEN NoAccount
    ELSE CHOOSE a \in accounts : \A b \in accounts : a <= b

Labels == {"idle", "lookup", "wait", "read", "network", "commit", "invalidate",
    "unlock", "cleanup", "return", "current", "check", "get", "still",
    "apply", "set", "done"}

\* Between acquiring and releasing the lock of the account.
Guarded == {"read", "network", "commit", "invalidate", "unlock"}

\* Where the future may be suspended, and so dropped by its caller.
AwaitPoints == {"wait", "network", "invalidate"}

Answers == {"none", "ok", "missing", "network error", "backend error"}  \* of refresh
Outcomes == Answers \cup {"empty", "changed repeatedly", "dropped", "crashed"}

Calls == [account : Accounts \cup {NoAccount}, old : Nat, credential : Nat,
          turn : 0 .. MaxTurns - 1, outcome : Answers]
NoCall == [account |-> NoAccount, old |-> Absent, credential |-> Absent,
           turn |-> 0, outcome |-> "none"]

-----------------------------------------------------------------------------
\* Control

Goto(t, l) == pc' = [pc EXCEPT ![t] = l]
Local(t, c) == call' = [call EXCEPT ![t] = c]

\* The result of a critical section that the caller sees later.
Outcome(t, o, g) == Local(t, [call[t] EXCEPT !.outcome = o, !.credential = g])

Finish(t, o) ==
    /\ Goto(t, "done")
    /\ result' = [result EXCEPT ![t] = o]
    /\ Local(t, NoCall)
    /\ began' = [began EXCEPT ![t] = 0]

Quiet == UNCHANGED <<shared, server, environment, arc, holder, result, began>>
Elsewhere == UNCHANGED <<locks, client, server, restarts, arc, holder, result, began>>

\* Mutant of Write: memory is changed although the backend failed.
WriteMemoryFirst(next, ok) ==
    /\ store' = next
    /\ disk' = IF ok THEN next ELSE disk
    /\ switches' = IF next.current # store.current THEN switches + 1 ELSE switches

\* Copy-on-write under the store lock: persist_store, then commit to memory.
Write(next, ok) ==
    /\ store' = IF ok THEN next ELSE store
    /\ disk' = IF ok THEN next ELSE disk
    /\ switches' = IF ok /\ next.current # store.current THEN switches + 1 ELSE switches

-----------------------------------------------------------------------------
\* refresh

Call(t) ==
    /\ pc[t] = "idle"
    /\ \/ /\ t \in Refreshers
          /\ \E a \in Accounts : Local(t, [NoCall EXCEPT !.account = a])
          /\ Goto(t, "lookup")
       \/ t \in Ensurers /\ Local(t, NoCall) /\ Goto(t, "current")
       \/ t \in Appliers /\ Local(t, NoCall) /\ Goto(t, "apply")
    /\ began' = [began EXCEPT ![t] = switches]
    /\ UNCHANGED <<shared, server, environment, arc, holder, result>>

\* Mutant of Lookup: a lock is created without looking for one.
LookupAnew(t) ==
    /\ pc[t] = "lookup"
    /\ locks' = [locks EXCEPT ![call[t].account] = <<t, call[t].turn>>]
    /\ arc' = [arc EXCEPT ![t] = <<t, call[t].turn>>]
    /\ Goto(t, "wait")
    /\ UNCHANGED <<store, disk, client, server, environment, holder, call, result, began>>

\* The lock of the account, created if the map has none.
Lookup(t) ==
    /\ pc[t] = "lookup"
    /\ LET a == call[t].account
           l == IF locks[a] = NoLock THEN <<t, call[t].turn>> ELSE locks[a]
       IN /\ locks' = [locks EXCEPT ![a] = l]
          /\ arc' = [arc EXCEPT ![t] = l]
    /\ Goto(t, "wait")
    /\ UNCHANGED <<store, disk, client, server, environment, holder, call, result, began>>

\* Mutant of Acquire: refresh_locked reads the credential before it waits.
AcquireStale(t) ==
    /\ pc[t] = "wait"
    /\ IF call[t].old = Absent
       THEN Local(t, [call[t] EXCEPT !.old = Stored(call[t].account)])
            /\ UNCHANGED <<pc, holder>>
       ELSE /\ holder[arc[t]] = NoTask
            /\ holder' = [holder EXCEPT ![arc[t]] = t]
            /\ Goto(t, "network") /\ UNCHANGED call
    /\ UNCHANGED <<shared, server, environment, arc, result, began>>

Acquire(t) ==
    /\ pc[t] = "wait"
    /\ holder[arc[t]] = NoTask
    /\ holder' = [holder EXCEPT ![arc[t]] = t]
    /\ Goto(t, "read")
    /\ UNCHANGED <<shared, server, environment, arc, call, result, began>>

\* refresh_locked: nothing to do for a missing or a still valid credential.
Read(t) ==
    /\ pc[t] = "read"
    /\ LET g == Stored(call[t].account) IN
       \/ /\ g = Absent
          /\ Outcome(t, "missing", Absent) /\ Goto(t, "unlock")
       \/ /\ g # Absent /\ g \notin expired[call[t].account]
          /\ Outcome(t, "ok", g) /\ Goto(t, "unlock")
       \/ /\ g # Absent /\ g \in expired[call[t].account]
          /\ Local(t, [call[t] EXCEPT !.old = g]) /\ Goto(t, "network")
    /\ Quiet

\* The server renews the credential it was sent.
Issue(t) ==
    /\ Len(origin[call[t].account]) < MaxIssued
    /\ origin' = [origin EXCEPT ![call[t].account] = Append(@, call[t].old)]

Lose(t) == lost' = [lost EXCEPT ![call[t].account] = @ \cup {call[t].old}]

\* The answer of login.refresh_credential arrives.
Renewed(t) ==
    /\ pc[t] = "network"
    /\ Issue(t)
    /\ Local(t, [call[t] EXCEPT !.credential = Len(origin[call[t].account]) + 1])
    /\ Goto(t, "commit")
    /\ UNCHANGED <<shared, expired, lost, environment, arc, holder, result, began>>

\* It fails; the server may have renewed the credential all the same.
NetworkError(t) ==
    /\ pc[t] = "network"
    /\ Lose(t) /\ (Issue(t) \/ UNCHANGED origin)
    /\ Outcome(t, "network error", Absent)
    /\ Goto(t, "unlock")
    /\ UNCHANGED <<shared, expired, environment, arc, holder, result, began>>

\* The table with the renewed credential in it.
Inserted(t) ==
    [store EXCEPT !.accounts = [@ EXCEPT ![call[t].account] = call[t].credential]]

\* Mutant of Commit: the stored credential may be another one by now.
CommitBlindly(t) ==
    /\ pc[t] = "commit"
    /\ Write(Inserted(t), TRUE) /\ Goto(t, "invalidate")
    /\ UNCHANGED <<lost, call>>
    /\ UNCHANGED <<locks, client, expired, origin, restarts, arc, holder, result, began>>

\* The store is looked at again before the answer is written.
Commit(t) ==
    /\ pc[t] = "commit"
    /\ LET g == Stored(call[t].account) IN
       \/ /\ g = Absent
          /\ Outcome(t, "missing", Absent) /\ Goto(t, "unlock")
          /\ UNCHANGED <<store, disk, switches, lost>>
       \/ /\ g # Absent /\ g # call[t].old
          /\ Outcome(t, "ok", g) /\ Goto(t, "unlock")
          /\ UNCHANGED <<store, disk, switches, lost>>
       \/ /\ g # Absent /\ g = call[t].old
          /\ Write(Inserted(t), TRUE) /\ Goto(t, "invalidate")
          /\ UNCHANGED <<lost, call>>
       \/ /\ g # Absent /\ g = call[t].old
          /\ Write(Inserted(t), FALSE) /\ Goto(t, "unlock")
          /\ Lose(t) /\ Outcome(t, "backend error", Absent)
    /\ UNCHANGED <<locks, client, expired, origin, restarts, arc, holder, result, began>>

\* ApiContext::invalidate_session has the lock of the sessions.
Invalidate(t) ==
    /\ pc[t] = "invalidate"
    /\ Outcome(t, "ok", call[t].credential)
    /\ Goto(t, "unlock")
    /\ Quiet

Unlock(t) ==
    /\ pc[t] = "unlock"
    /\ holder' = [holder EXCEPT ![arc[t]] = NoTask]
    /\ Goto(t, "cleanup")
    /\ UNCHANGED <<shared, server, environment, arc, call, result, began>>

\* Arc::strong_count: the clones the tasks hold and the one in the map.
StrongCount(l) ==
    Cardinality({t \in Tasks : arc[t] = l}) + Cardinality({a \in Accounts : locks[a] = l})

\* Mutant of Cleanup: the entry goes although another task waits for the lock.
CleanupAlways(t) ==
    /\ pc[t] = "cleanup"
    /\ locks' = [locks EXCEPT ![call[t].account] = NoLock]
    /\ Goto(t, "return")
    /\ UNCHANGED <<store, disk, client, server, environment, arc, holder, call, result, began>>

\* Under the lock of the map: the entry goes if nobody else has an Arc of it.
Cleanup(t) ==
    /\ pc[t] = "cleanup"
    /\ locks' = IF StrongCount(arc[t]) = 2
                THEN [locks EXCEPT ![call[t].account] = NoLock] ELSE locks
    /\ Goto(t, "return")
    /\ UNCHANGED <<store, disk, client, server, environment, arc, holder, call, result, began>>

\* The Arc is dropped after the map was unlocked.  ensure_current propagates an
\* error and goes on with a credential.
Return(t) ==
    /\ pc[t] = "return"
    /\ arc' = [arc EXCEPT ![t] = NoLock]
    /\ IF t \in Ensurers /\ call[t].outcome = "ok"
       THEN Goto(t, "still") /\ UNCHANGED <<call, result, began>>
       ELSE Finish(t, call[t].outcome)
    /\ UNCHANGED <<shared, server, environment, holder>>

-----------------------------------------------------------------------------
\* ensure_current, apply_current

\* One turn of the loop: the current account is read ...
ReadCurrent(t) ==
    /\ pc[t] = "current"
    /\ IF store.current = NoAccount THEN Finish(t, "empty")
       ELSE /\ Local(t, [NoCall EXCEPT !.turn = call[t].turn, !.account = store.current])
            /\ Goto(t, "check")
            /\ UNCHANGED <<result, began>>
    /\ UNCHANGED <<shared, server, environment, arc, holder>>

\* ... then whether its credential is expired (a missing one is not) ...
CheckExpired(t) ==
    /\ pc[t] = "check"
    /\ Goto(t, IF Stored(call[t].account) \in expired[call[t].account]
               THEN "lookup" ELSE "get")
    /\ UNCHANGED call /\ Quiet

\* ... then the credential itself ...
Get(t) ==
    /\ pc[t] = "get"
    /\ LET g == Stored(call[t].account) IN
       IF g = Absent THEN Finish(t, "missing")
       ELSE Local(t, [call[t] EXCEPT !.credential = g]) /\ Goto(t, "still")
            /\ UNCHANGED <<result, began>>
    /\ UNCHANGED <<shared, server, environment, arc, holder>>

\* Mutant of Still: the loop ends one turn early.
StillOnceLess(t) ==
    /\ pc[t] = "still"
    /\ IF store.current = call[t].account
       THEN Goto(t, "set") /\ UNCHANGED <<call, result, began>>
       ELSE IF call[t].turn + 2 >= MaxTurns THEN Finish(t, "changed repeatedly")
       ELSE /\ Local(t, [NoCall EXCEPT !.turn = call[t].turn + 1]) /\ Goto(t, "current")
            /\ UNCHANGED <<result, began>>
    /\ UNCHANGED <<shared, server, environment, arc, holder>>

\* ... and last whether the account is still the current one.
Still(t) ==
    /\ pc[t] = "still"
    /\ IF store.current = call[t].account
       THEN Goto(t, "set") /\ UNCHANGED <<call, result, began>>
       ELSE IF call[t].turn + 1 = MaxTurns THEN Finish(t, "changed repeatedly")
       ELSE /\ Local(t, [NoCall EXCEPT !.turn = call[t].turn + 1]) /\ Goto(t, "current")
            /\ UNCHANGED <<result, began>>
    /\ UNCHANGED <<shared, server, environment, arc, holder>>

ReadApplied(t) ==
    /\ pc[t] = "apply"
    /\ IF store.current = NoAccount THEN Finish(t, "empty")
       ELSE /\ Local(t, [NoCall EXCEPT !.account = store.current,
                          !.credential = Stored(store.current)])
            /\ Goto(t, "set") /\ UNCHANGED <<result, began>>
    /\ UNCHANGED <<shared, server, environment, arc, holder>>

\* client.set_credential, after the store was unlocked.
SetClient(t) ==
    /\ pc[t] = "set"
    /\ client' = [account |-> call[t].account, credential |-> call[t].credential]
    /\ Finish(t, "ok")
    /\ UNCHANGED <<store, disk, locks, server, environment, arc, holder>>

-----------------------------------------------------------------------------
\* The host, the clock, and what goes wrong

\* A login adds its credential; a store that was empty makes it current.
Add(a) ==
    /\ Len(origin[a]) < MaxIssued
    /\ origin' = [origin EXCEPT ![a] = Append(@, Absent)]
    /\ \E ok \in BOOLEAN :
        Write([accounts |-> [store.accounts EXCEPT ![a] = Len(origin[a]) + 1],
               current |-> IF Present(store) = {} THEN a ELSE store.current], ok)
    /\ UNCHANGED <<locks, client, expired, lost, restarts, arc, holder, pc, call, result, began>>

\* Mutant of Remove: the current account is left as it was.
RemoveOnly(a) ==
    /\ a \in Present(store)
    /\ Write([store EXCEPT !.accounts = [@ EXCEPT ![a] = Absent]], TRUE)
    /\ Elsewhere /\ UNCHANGED <<pc, call>>

\* The current account, removed, is followed by the first one left.
Remove(a) ==
    /\ a \in Present(store)
    /\ switches < MaxSwitches
    /\ LET left == Present(store) \ {a} IN \E ok \in BOOLEAN :
       Write([accounts |-> [store.accounts EXCEPT ![a] = Absent],
              current |-> IF store.current = a THEN First(left) ELSE store.current], ok)
    /\ Elsewhere /\ UNCHANGED <<pc, call>>

SetCurrent(a) ==
    /\ a \in Present(store) /\ store.current # a
    /\ switches < MaxSwitches
    /\ \E ok \in BOOLEAN : Write([store EXCEPT !.current = a], ok)
    /\ Elsewhere /\ UNCHANGED <<pc, call>>

\* save: the memory image, once more; a failure changes nothing.
Save ==
    /\ disk' = store
    /\ UNCHANGED <<store, locks, client, server, environment, arc, holder, pc, call, result, began>>

Expire(a) ==
    /\ Stored(a) # Absent /\ Stored(a) \notin expired[a]
    /\ expired' = [expired EXCEPT ![a] = @ \cup {Stored(a)}]
    /\ UNCHANGED <<shared, origin, lost, environment, arc, holder, pc, call, result, began>>

\* The locals of t go with it: its guard first, then its Arc.
Release(t) ==
    /\ holder' = [l \in LockIds |-> IF holder[l] = t THEN NoTask ELSE holder[l]]
    /\ arc' = [arc EXCEPT ![t] = NoLock]

\* Mutant of Drop: the lock outlives the future.
DropHolding(t) ==
    /\ pc[t] \in AwaitPoints
    /\ Finish(t, "dropped")
    /\ arc' = [arc EXCEPT ![t] = NoLock]
    /\ UNCHANGED <<shared, server, environment, holder>>

\* The future is dropped at an await: refresh does not get to its clean-up.
\* A request under way may still reach the server.
Drop(t) ==
    /\ pc[t] \in AwaitPoints
    /\ Finish(t, "dropped")
    /\ Release(t)
    /\ IF pc[t] = "network" THEN Lose(t) /\ (Issue(t) \/ UNCHANGED origin)
       ELSE UNCHANGED <<lost, origin>>
    /\ UNCHANGED <<shared, expired, environment>>

\* The process dies and starts again from the backend; calls not made yet are
\* made by the new process.
Restart ==
    /\ restarts < MaxRestarts
    /\ restarts' = restarts + 1
    /\ store' = disk
    /\ locks' = [a \in Accounts |-> NoLock]
    /\ client' = [account |-> NoAccount, credential |-> Absent]
    /\ arc' = [t \in Tasks |-> NoLock]
    /\ holder' = [l \in LockIds |-> NoTask]
    /\ lost' = [a \in Accounts |-> lost[a] \cup
                  {call[t].old : t \in {u \in Tasks : pc[u] \in {"network", "commit"}
                                                      /\ call[u].account = a}}]
    /\ pc' = [t \in Tasks |-> IF pc[t] = "idle" THEN "idle" ELSE "done"]
    /\ result' = [t \in Tasks |-> IF pc[t] \in {"idle", "done"} THEN result[t] ELSE "crashed"]
    /\ call' = [t \in Tasks |-> NoCall]
    /\ began' = [t \in Tasks |-> 0]
    /\ UNCHANGED <<disk, expired, origin, switches>>

-----------------------------------------------------------------------------
\* from_backend, with what the backend has
Init ==
    /\ store \in {s \in [accounts : [Accounts -> {Absent, 1}], current : Accounts \cup {NoAccount}] :
                    IF Present(s) = {} THEN s.current = NoAccount ELSE s.current \in Present(s)}
    /\ disk = store
    /\ locks = [a \in Accounts |-> NoLock]
    /\ arc = [t \in Tasks |-> NoLock]
    /\ holder = [l \in LockIds |-> NoTask]
    /\ client = [account |-> NoAccount, credential |-> Absent]
    /\ pc = [t \in Tasks |-> "idle"]
    /\ call = [t \in Tasks |-> NoCall]
    /\ result = [t \in Tasks |-> "none"]
    /\ expired \in [Accounts -> {{}, {1}}]
    /\ origin = [a \in Accounts |-> <<Absent>>]
    /\ lost = [a \in Accounts |-> {}]
    /\ switches = 0
    /\ began = [t \in Tasks |-> 0]
    /\ restarts = 0

Progress(t) ==
    \/ Lookup(t) \/ Acquire(t) \/ Read(t) \/ Renewed(t) \/ NetworkError(t) \/ Commit(t)
    \/ Invalidate(t) \/ Unlock(t) \/ Cleanup(t) \/ Return(t)
    \/ ReadCurrent(t) \/ CheckExpired(t) \/ Get(t) \/ Still(t)
    \/ ReadApplied(t) \/ SetClient(t)

Next ==
    \/ \E t \in Tasks : Call(t) \/ Progress(t) \/ Drop(t)
    \/ \E a \in Accounts : Add(a) \/ Remove(a) \/ SetCurrent(a) \/ Expire(a)
    \/ Save \/ Restart

Spec == Init /\ [][Next]_vars

FairSpec == Spec /\ \A t \in Tasks : WF_vars(Progress(t))

-----------------------------------------------------------------------------
\* Properties

\* Every variable keeps its type; a task of ensure_current stays below
\* MAX_CURRENT_RETRIES, so it never names a lock that is another turn's.
TypeOK ==
    /\ store \in Table /\ disk \in Table
    /\ locks \in [Accounts -> LockIds \cup {NoLock}]
    /\ arc \in [Tasks -> LockIds \cup {NoLock}]
    /\ holder \in [LockIds -> Tasks \cup {NoTask}]
    /\ client \in [account : Accounts \cup {NoAccount}, credential : Nat]
    /\ pc \in [Tasks -> Labels]
    /\ call \in [Tasks -> Calls]
    /\ result \in [Tasks -> Outcomes]
    /\ expired \in [Accounts -> SUBSET Nat]
    /\ origin \in [Accounts -> Seq(Nat)]
    /\ lost \in [Accounts -> SUBSET Nat]
    /\ switches \in Nat /\ restarts \in Nat
    /\ began \in [Tasks -> Nat]

\* refresh is single-flight per account (credential_store.rs:291): although the
\* entry of a lock is removed and created anew while others wait for the old
\* one, never are two calls between acquiring and releasing a lock of the same
\* account.
OneRefresher ==
    \A t, u \in Tasks :
        pc[t] \in Guarded /\ pc[u] \in Guarded /\ call[t].account = call[u].account => t = u

\* No call sends for renewal a credential that the server has already renewed,
\* unless the answer was lost on the way to the store (a failed request or
\* backend, a dropped future, a crash): a rotated refresh_token is not used again.
NoReuse ==
    \A t \in Tasks :
        pc[t] = "network" =>
            call[t].old \notin Used(call[t].account) \ lost[call[t].account]

\* Copy-on-write (credential_store.rs:140-142): memory is what the backend has,
\* in every state that another caller can see, whatever write has failed.
SameOnDisk == store = disk

\* An account is the current one as long as there are accounts, and it is one
\* that the table has: ensure_current never fails with "does not exist" for a
\* store that only this API has changed, unless it is changed meanwhile.
CurrentInStore ==
    IF Present(store) = {} THEN store.current = NoAccount
    ELSE store.current \in Present(store)

\* Every change of the store is a login, a removal, a switch, or a renewal that
\* replaces exactly the credential it was obtained for: refresh neither revives
\* a removed account nor overwrites a newer credential (credential_store.rs:
\* 293-294).  Locks, failures and crashes are invisible at this level.
Promise == INSTANCE AccountTable WITH table <- store
RenewsOnly == Promise!Spec

\* ensure_current gives up only after the current account changed
\* MAX_CURRENT_RETRIES times while it ran (credential_store.rs:384-387).
GivesUpForCause ==
    [][\A t \in Tasks :
         result[t] = "none" /\ result'[t] = "changed repeatedly" =>
             began[t] + MaxTurns <= switches]_vars

\* As credential_store.rs:359-360 has it: ensure_current does not switch the
\* Client back to an account that is no longer the current one.  The code
\* compares under the lock of the store and sets the Client after it.
NotSwitchedBack ==
    [][\A t \in Ensurers :
         pc[t] = "set" /\ result'[t] = "ok"
         /\ client.account # NoAccount /\ client.account = store.current =>
             client'.account = store.current]_vars

-----------------------------------------------------------------------------
\* The inductive invariant

\* The calls that are to name an account, and those that hold an Arc of its lock.
Looking == {"lookup", "wait", "read", "network", "commit", "invalidate", "unlock",
    "cleanup", "return", "check", "get", "still"}
Using == {"wait", "cleanup", "return"} \cup Guarded

NamedInv == \A t \in Tasks : pc[t] \in Looking => call[t].account \in Accounts

\* Until its clean-up, the lock of a call is the one in the map: as long as any
\* call may wait for it nobody can create another.
HasLock(t) ==
    /\ arc[t] # NoLock <=> pc[t] \in Using
    /\ pc[t] \in Using \ {"return"} => locks[call[t].account] = arc[t]
    /\ pc[t] \in Guarded => holder[arc[t]] = t

LockInv == \A t \in Tasks : HasLock(t)

\* What is sent for renewal, and what comes back, was issued by the server.
Numbered(a) ==
    /\ store.accounts[a] <= Len(origin[a])
    /\ Len(origin[a]) >= 1
    /\ \A g \in Issued(a) : origin[a][g] < g

Answered(t) ==
    LET a == call[t].account IN
    /\ pc[t] \in {"network", "commit"} => call[t].old \in Issued(a)
    /\ pc[t] = "commit" =>
        /\ call[t].credential \in Issued(a) /\ call[t].credential \notin Used(a)
        /\ origin[a][call[t].credential] = call[t].old

IssuedInv ==
    /\ \A a \in Accounts : Numbered(a)
    /\ \A t \in Tasks : Answered(t)

\* A stored credential that was renewed is about to be replaced, or its renewal
\* was lost.
RenewalInv ==
    \A a \in Accounts :
        store.accounts[a] \in Used(a) \ lost[a] =>
            \/ store.accounts[a] = Absent
            \/ \E t \in Tasks : /\ pc[t] = "commit" /\ call[t].account = a
                                /\ call[t].old = store.accounts[a]

\* Each turn of ensure_current has seen the current account change.
TurnCounted(t) ==
    /\ pc[t] \in {"current", "check", "get", "still"} => t \in Ensurers
    /\ t \in Ensurers /\ pc[t] \in Looking \cup {"current"} =>
        began[t] + call[t].turn <= switches
    /\ t \in Ensurers /\ pc[t] \in Looking /\ store.current # call[t].account =>
        began[t] + call[t].turn < switches

TurnInv == \A t \in Tasks : TurnCounted(t)

\* The inductive invariant, in the order in which its parts rest on each other:
\* one lock per account (refresh), numbers the server issued (refresh_locked),
\* what is sent for renewal, and the turns of ensure_current.
IInv ==
    /\ NamedInv /\ LockInv /\ IssuedInv /\ NoReuse /\ RenewalInv
    /\ SameOnDisk /\ CurrentInStore /\ TurnInv
=============================================================================
