------------------------ MODULE CredentialStore_proofs ------------------------
(***************************************************************************)
(* Proofs about CredentialStore, for every set of calls and accounts and   *)
(* every value of MAX_CURRENT_RETRIES and of the bounds.                   *)
(***************************************************************************)
EXTENDS CredentialStore, FiniteSetTheorems, WellFoundedInduction, TLAPS

-----------------------------------------------------------------------------
\* Data

Less == {ss \in Nat \X Nat : ss[1] < ss[2]}

\* A set of numbers that is not empty has a least element.
LEMMA Least ==
    ASSUME NEW S, S \subseteq Nat, S # {}
    PROVE  \E a \in S : \A b \in S : a <= b
<1>1. IsWellFoundedOn(Less, Nat)
  BY NatLessThanWellFounded, Zenon DEF OpToRel, Less
<1>2. PICK a \in S : \A b \in S : <<b, a>> \notin Less
  BY <1>1, WFMin
<1>3. \A b \in S : ~ (b < a)
  BY <1>2 DEF Less
<1>4. QED
  BY <1>3

\* The first key of the accounts that are left is one of them.
LEMMA FirstOfThem ==
    ASSUME NEW left \in SUBSET Accounts, left # {}
    PROVE  First(left) \in left
<1>1. left \subseteq Nat
  BY StoreAssumption
<1>2. \E a \in left : \A b \in left : a <= b
  BY <1>1, Least
<1>3. QED
  BY <1>2 DEF First

LEMMA FirstType ==
    ASSUME NEW left \in SUBSET Accounts
    PROVE  First(left) \in Accounts \cup {NoAccount}
  BY FirstOfThem DEF First

LEMMA TurnsType == MaxTurns \in Nat /\ MaxTurns > 0 /\ 0 \in 0 .. MaxTurns - 1
<1>1. MaxTurns \in Nat /\ MaxTurns > 0
  BY StoreAssumption
<1>2. QED
  BY <1>1

LEMMA NoCallType == NoCall \in Calls
  BY TurnsType DEF NoCall, Calls, Answers, Absent

\* The fields of a call.
LEMMA FieldType ==
    ASSUME NEW c \in Calls
    PROVE  /\ c.account \in Accounts \cup {NoAccount}
           /\ c.old \in Nat /\ c.credential \in Nat
           /\ c.turn \in 0 .. MaxTurns - 1 /\ c.outcome \in Answers
  BY DEF Calls

\* Locals stay well typed when a field is given a value of its type.
LEMMA UpdateType ==
    ASSUME NEW c \in Calls
    PROVE  /\ \A a \in Accounts : [c EXCEPT !.account = a] \in Calls
           /\ \A g \in Nat : [c EXCEPT !.old = g] \in Calls
           /\ \A g \in Nat : [c EXCEPT !.credential = g] \in Calls
           /\ \A i \in 0 .. MaxTurns - 1 : [c EXCEPT !.turn = i] \in Calls
           /\ \A o \in Answers, g \in Nat :
                [c EXCEPT !.outcome = o, !.credential = g] \in Calls
           /\ \A i \in 0 .. MaxTurns - 1, a \in Accounts :
                [c EXCEPT !.turn = i, !.account = a] \in Calls
           /\ \A a \in Accounts, g \in Nat :
                [c EXCEPT !.account = a, !.credential = g] \in Calls
  BY DEF Calls

LEMMA StoredType ==
    ASSUME TypeOK, NEW a \in Accounts
    PROVE  Stored(a) \in Nat
  BY DEF TypeOK, Table, Stored

\* The table with one credential changed.
LEMMA TableUpdate ==
    ASSUME NEW table \in Table, NEW a \in Accounts, NEW g \in Nat
    PROVE  /\ [table EXCEPT !.accounts = [@ EXCEPT ![a] = g]] \in Table
           /\ \A c \in Accounts \cup {NoAccount} :
                [accounts |-> [table.accounts EXCEPT ![a] = g], current |-> c] \in Table
  BY DEF Table

-----------------------------------------------------------------------------
\* Types.  The account of a call that looks at the store is one of the
\* accounts; without it the types are not inductive.

\* What is left alone keeps its type.
LEMMA SharedType ==
    ASSUME TypeOK, UNCHANGED shared
    PROVE  /\ store' \in Table /\ disk' \in Table
           /\ locks' \in [Accounts -> LockIds \cup {NoLock}]
           /\ client' \in [account : Accounts \cup {NoAccount}, credential : Nat]
  BY DEF TypeOK, shared

LEMMA ServerType ==
    ASSUME TypeOK, UNCHANGED server
    PROVE  /\ expired' \in [Accounts -> SUBSET Nat]
           /\ origin' \in [Accounts -> Seq(Nat)]
           /\ lost' \in [Accounts -> SUBSET Nat]
  BY DEF TypeOK, server

LEMMA EnvironmentType ==
    ASSUME TypeOK, UNCHANGED environment
    PROVE  switches' \in Nat /\ restarts' \in Nat
  BY DEF TypeOK, environment

\* A call at a new label, with new locals.
LEMMA MoveType ==
    ASSUME TypeOK, NamedInv, NEW t \in Tasks, NEW l \in Labels, NEW c \in Calls,
           Goto(t, l), Local(t, c), l \in Looking => c.account \in Accounts
    PROVE  pc' \in [Tasks -> Labels] /\ call' \in [Tasks -> Calls] /\ NamedInv'
  BY DEF TypeOK, NamedInv, Goto, Local

LEMMA StandType ==
    ASSUME TypeOK, NamedInv, UNCHANGED <<pc, call>>
    PROVE  pc' \in [Tasks -> Labels] /\ call' \in [Tasks -> Calls] /\ NamedInv'
  BY DEF TypeOK, NamedInv

LEMMA FinishType ==
    ASSUME TypeOK, NamedInv, NEW t \in Tasks, NEW o \in Outcomes, Finish(t, o)
    PROVE  /\ pc' \in [Tasks -> Labels] /\ call' \in [Tasks -> Calls] /\ NamedInv'
           /\ result' \in [Tasks -> Outcomes] /\ began' \in [Tasks -> Nat]
<1>1. "done" \in Labels /\ "done" \notin Looking
  BY DEF Labels, Looking
<1>2. pc' \in [Tasks -> Labels] /\ call' \in [Tasks -> Calls] /\ NamedInv'
  BY <1>1, MoveType, NoCallType DEF Finish
<1>3. result' \in [Tasks -> Outcomes] /\ began' \in [Tasks -> Nat]
  BY DEF Finish, TypeOK
<1>4. QED
  BY <1>2, <1>3

\* A step of a call that changes nothing but its label and its locals.
LEMMA QuietType ==
    ASSUME TypeOK, NamedInv, NEW t \in Tasks, NEW l \in Labels, NEW c \in Calls,
           Goto(t, l), Local(t, c), l \in Looking => c.account \in Accounts, Quiet
    PROVE  TypeOK' /\ NamedInv'
<1>1. pc' \in [Tasks -> Labels] /\ call' \in [Tasks -> Calls] /\ NamedInv'
  BY MoveType
<1>2. QED
  BY <1>1, SharedType, ServerType, EnvironmentType DEF Quiet, TypeOK

LEMMA WriteType ==
    ASSUME TypeOK, NEW next \in Table, NEW ok \in BOOLEAN, Write(next, ok)
    PROVE  store' \in Table /\ disk' \in Table /\ switches' \in Nat
  BY DEF TypeOK, Write

\* Local of an unchanged record.
LEMMA KeepCall ==
    ASSUME TypeOK, NEW t \in Tasks, UNCHANGED call
    PROVE  Local(t, call[t]) /\ call[t] \in Calls
  BY DEF TypeOK, Local

LEMMA CallOf ==
    ASSUME TypeOK, NEW t \in Tasks
    PROVE  call[t] \in Calls
  BY DEF TypeOK

LEMMA CallType ==
    ASSUME TypeOK, NamedInv, NEW t \in Tasks, Call(t)
    PROVE  TypeOK' /\ NamedInv'
<1>1. pc' \in [Tasks -> Labels] /\ call' \in [Tasks -> Calls] /\ NamedInv'
  <2>1. CASE \E a \in Accounts : Local(t, [NoCall EXCEPT !.account = a]) /\ Goto(t, "lookup")
    <3>1. PICK a \in Accounts : Local(t, [NoCall EXCEPT !.account = a]) /\ Goto(t, "lookup")
      BY <2>1
    <3>2. [NoCall EXCEPT !.account = a] \in Calls /\ [NoCall EXCEPT !.account = a].account = a
      BY NoCallType, UpdateType DEF NoCall
    <3>3. QED
      BY <3>1, <3>2, MoveType DEF Labels
  <2>2. CASE Local(t, NoCall) /\ Goto(t, "current")
    BY <2>2, NoCallType, MoveType DEF Labels, Looking
  <2>3. CASE Local(t, NoCall) /\ Goto(t, "apply")
    BY <2>3, NoCallType, MoveType DEF Labels, Looking
  <2>4. QED
    BY <2>1, <2>2, <2>3 DEF Call
<1>2. began' \in [Tasks -> Nat]
  BY DEF Call, TypeOK
<1>3. QED
  BY <1>1, <1>2, SharedType, ServerType, EnvironmentType DEF Call, TypeOK

LEMMA LookupType ==
    ASSUME TypeOK, NamedInv, NEW t \in Tasks, Lookup(t)
    PROVE  TypeOK' /\ NamedInv'
<1>1. call[t].account \in Accounts
  BY DEF Lookup, NamedInv, Looking
<1>2. <<t, call[t].turn>> \in LockIds
  BY CallOf, FieldType DEF LockIds
<1>3. /\ locks' \in [Accounts -> LockIds \cup {NoLock}]
      /\ arc' \in [Tasks -> LockIds \cup {NoLock}]
  BY <1>1, <1>2 DEF Lookup, TypeOK
<1>4. pc' \in [Tasks -> Labels] /\ call' \in [Tasks -> Calls] /\ NamedInv'
  BY <1>1, KeepCall, MoveType DEF Lookup, Labels
<1>5. QED
  BY <1>3, <1>4, ServerType, EnvironmentType DEF Lookup, TypeOK

LEMMA AcquireType ==
    ASSUME TypeOK, NamedInv, NEW t \in Tasks, Acquire(t)
    PROVE  TypeOK' /\ NamedInv'
<1>1. call[t].account \in Accounts
  BY DEF Acquire, NamedInv, Looking
<1>2. pc' \in [Tasks -> Labels] /\ call' \in [Tasks -> Calls] /\ NamedInv'
  BY <1>1, KeepCall, MoveType DEF Acquire, Labels
<1>3. holder' \in [LockIds -> Tasks \cup {NoTask}]
  BY DEF Acquire, TypeOK
<1>4. QED
  BY <1>2, <1>3, SharedType, ServerType, EnvironmentType DEF Acquire, TypeOK

\* A call with an account, at a new label and with one more thing known.
LEMMA LearnType ==
    ASSUME TypeOK, NamedInv, NEW t \in Tasks, NEW l \in Labels, Goto(t, l),
           call[t].account \in Accounts, NEW o \in Answers, NEW g \in Nat,
           \/ Outcome(t, o, g)
           \/ Local(t, [call[t] EXCEPT !.old = g])
           \/ Local(t, [call[t] EXCEPT !.credential = g])
    PROVE  pc' \in [Tasks -> Labels] /\ call' \in [Tasks -> Calls] /\ NamedInv'
<1> DEFINE c1 == [call[t] EXCEPT !.outcome = o, !.credential = g]
           c2 == [call[t] EXCEPT !.old = g]
           c3 == [call[t] EXCEPT !.credential = g]
<1>1. c1 \in Calls /\ c2 \in Calls /\ c3 \in Calls
  BY CallOf, UpdateType
<1>2. /\ c1.account = call[t].account /\ c2.account = call[t].account
      /\ c3.account = call[t].account
  BY CallOf DEF Calls
<1>3. Local(t, c1) \/ Local(t, c2) \/ Local(t, c3)
  BY DEF Outcome
<1> HIDE DEF c1, c2, c3
<1>4. QED
  BY <1>1, <1>2, <1>3, MoveType

LEMMA AnswerTypes ==
    /\ Absent \in Nat
    /\ {"ok", "missing", "network error", "backend error"} \subseteq Answers
    /\ Answers \subseteq Outcomes
    /\ {"unlock", "network", "commit", "invalidate", "cleanup", "get", "still", "set"} \subseteq Labels
  BY DEF Absent, Answers, Outcomes, Labels

LEMMA IssueType ==
    ASSUME TypeOK, NEW t \in Tasks, call[t].account \in Accounts,
           Issue(t) \/ UNCHANGED origin
    PROVE  origin' \in [Accounts -> Seq(Nat)]
<1>1. call[t].old \in Nat /\ origin \in [Accounts -> Seq(Nat)]
  BY CallOf, FieldType DEF TypeOK
<1>2. Append(origin[call[t].account], call[t].old) \in Seq(Nat)
  BY <1>1
<1>3. QED
  BY <1>1, <1>2 DEF Issue

LEMMA LoseType ==
    ASSUME TypeOK, NEW t \in Tasks, call[t].account \in Accounts, Lose(t)
    PROVE  lost' \in [Accounts -> SUBSET Nat]
<1>1. call[t].old \in Nat /\ lost \in [Accounts -> SUBSET Nat]
  BY CallOf, FieldType DEF TypeOK
<1>2. QED
  BY <1>1 DEF Lose

LEMMA ReadType ==
    ASSUME TypeOK, NamedInv, NEW t \in Tasks, Read(t)
    PROVE  TypeOK' /\ NamedInv'
<1> DEFINE g == Stored(call[t].account)
<1>1. call[t].account \in Accounts
  BY DEF Read, NamedInv, Looking
<1>2. g \in Nat
  BY <1>1, StoredType
<1> HIDE DEF g
<1>3. \/ Outcome(t, "missing", Absent) /\ Goto(t, "unlock")
      \/ Outcome(t, "ok", g) /\ Goto(t, "unlock")
      \/ Local(t, [call[t] EXCEPT !.old = g]) /\ Goto(t, "network")
  BY DEF Read, g
<1>4. pc' \in [Tasks -> Labels] /\ call' \in [Tasks -> Calls] /\ NamedInv'
  BY <1>1, <1>2, <1>3, LearnType, AnswerTypes
<1>5. QED
  BY <1>4, SharedType, ServerType, EnvironmentType DEF Read, Quiet, TypeOK

LEMMA RenewedType ==
    ASSUME TypeOK, NamedInv, NEW t \in Tasks, Renewed(t)
    PROVE  TypeOK' /\ NamedInv'
<1>1. call[t].account \in Accounts
  BY DEF Renewed, NamedInv, Looking
<1>2. origin' \in [Accounts -> Seq(Nat)]
  BY <1>1, IssueType DEF Renewed
<1>3. Len(origin[call[t].account]) + 1 \in Nat
  BY <1>1 DEF TypeOK
<1>4. pc' \in [Tasks -> Labels] /\ call' \in [Tasks -> Calls] /\ NamedInv'
  BY <1>1, <1>3, LearnType, AnswerTypes DEF Renewed
<1>5. QED
  BY <1>2, <1>4, SharedType, EnvironmentType DEF Renewed, TypeOK

LEMMA NetworkErrorType ==
    ASSUME TypeOK, NamedInv, NEW t \in Tasks, NetworkError(t)
    PROVE  TypeOK' /\ NamedInv'
<1>1. call[t].account \in Accounts
  BY DEF NetworkError, NamedInv, Looking
<1>2. origin' \in [Accounts -> Seq(Nat)] /\ lost' \in [Accounts -> SUBSET Nat]
  BY <1>1, IssueType, LoseType DEF NetworkError
<1>3. pc' \in [Tasks -> Labels] /\ call' \in [Tasks -> Calls] /\ NamedInv'
  BY <1>1, LearnType, AnswerTypes DEF NetworkError
<1>4. QED
  BY <1>2, <1>3, SharedType, EnvironmentType DEF NetworkError, TypeOK

LEMMA InsertedType ==
    ASSUME TypeOK, NEW t \in Tasks, call[t].account \in Accounts
    PROVE  Inserted(t) \in Table
<1>1. call[t].credential \in Nat /\ store \in Table
  BY CallOf, FieldType DEF TypeOK
<1>2. QED
  BY <1>1, TableUpdate DEF Inserted

LEMMA CommitType ==
    ASSUME TypeOK, NamedInv, NEW t \in Tasks, Commit(t)
    PROVE  TypeOK' /\ NamedInv'
<1> DEFINE g == Stored(call[t].account)
<1>1. call[t].account \in Accounts /\ g \in Nat
  BY StoredType DEF Commit, NamedInv, Looking
<1> HIDE DEF g
<1>2. /\ \/ Outcome(t, "missing", Absent) \/ Outcome(t, "ok", g)
            \/ Outcome(t, "backend error", Absent) \/ Local(t, call[t])
      /\ Goto(t, "unlock") \/ Goto(t, "invalidate")
  BY KeepCall DEF Commit, g
<1>3. pc' \in [Tasks -> Labels] /\ call' \in [Tasks -> Calls] /\ NamedInv'
  BY <1>1, <1>2, CallOf, LearnType, MoveType, AnswerTypes
<1>4. store' \in Table /\ disk' \in Table /\ switches' \in Nat
  <2>1. CASE UNCHANGED <<store, disk, switches>>
    BY <2>1 DEF TypeOK
  <2>2. CASE Write(Inserted(t), TRUE) \/ Write(Inserted(t), FALSE)
    BY <1>1, <2>2, InsertedType, WriteType
  <2>3. QED
    BY <2>1, <2>2 DEF Commit
<1>5. lost' \in [Accounts -> SUBSET Nat]
  BY <1>1, LoseType DEF Commit, TypeOK
<1>6. QED
  BY <1>3, <1>4, <1>5 DEF Commit, TypeOK

LEMMA InvalidateType ==
    ASSUME TypeOK, NamedInv, NEW t \in Tasks, Invalidate(t)
    PROVE  TypeOK' /\ NamedInv'
<1>1. call[t].account \in Accounts /\ call[t].credential \in Nat
  BY CallOf, FieldType DEF Invalidate, NamedInv, Looking
<1>2. pc' \in [Tasks -> Labels] /\ call' \in [Tasks -> Calls] /\ NamedInv'
  BY <1>1, LearnType, AnswerTypes DEF Invalidate
<1>3. QED
  BY <1>2, SharedType, ServerType, EnvironmentType DEF Invalidate, Quiet, TypeOK

LEMMA UnlockType ==
    ASSUME TypeOK, NamedInv, NEW t \in Tasks, Unlock(t)
    PROVE  TypeOK' /\ NamedInv'
<1>1. call[t].account \in Accounts
  BY DEF Unlock, NamedInv, Looking
<1>2. pc' \in [Tasks -> Labels] /\ call' \in [Tasks -> Calls] /\ NamedInv'
  BY <1>1, KeepCall, MoveType, AnswerTypes DEF Unlock
<1>3. holder' \in [LockIds -> Tasks \cup {NoTask}]
  BY DEF Unlock, TypeOK
<1>4. QED
  BY <1>2, <1>3, SharedType, ServerType, EnvironmentType DEF Unlock, TypeOK

LEMMA CleanupType ==
    ASSUME TypeOK, NamedInv, NEW t \in Tasks, Cleanup(t)
    PROVE  TypeOK' /\ NamedInv'
<1>1. call[t].account \in Accounts
  BY DEF Cleanup, NamedInv, Looking
<1>2. pc' \in [Tasks -> Labels] /\ call' \in [Tasks -> Calls] /\ NamedInv'
  BY <1>1, KeepCall, MoveType DEF Cleanup, Labels
<1>3. locks' \in [Accounts -> LockIds \cup {NoLock}]
  BY DEF Cleanup, TypeOK
<1>4. QED
  BY <1>2, <1>3, ServerType, EnvironmentType DEF Cleanup, TypeOK

LEMMA ReturnType ==
    ASSUME TypeOK, NamedInv, NEW t \in Tasks, Return(t)
    PROVE  TypeOK' /\ NamedInv'
<1>1. call[t].account \in Accounts /\ call[t].outcome \in Answers
  BY CallOf, FieldType DEF Return, NamedInv, Looking
<1>2. /\ pc' \in [Tasks -> Labels] /\ call' \in [Tasks -> Calls] /\ NamedInv'
      /\ result' \in [Tasks -> Outcomes] /\ began' \in [Tasks -> Nat]
  <2>1. CASE Goto(t, "still") /\ UNCHANGED <<call, result, began>>
    BY <1>1, <2>1, KeepCall, MoveType, AnswerTypes DEF TypeOK
  <2>2. CASE Finish(t, call[t].outcome)
    BY <1>1, <2>2, FinishType, AnswerTypes
  <2>3. QED
    BY <2>1, <2>2 DEF Return
<1>3. arc' \in [Tasks -> LockIds \cup {NoLock}]
  BY DEF Return, TypeOK
<1>4. QED
  BY <1>2, <1>3, SharedType, ServerType, EnvironmentType DEF Return, TypeOK

\* A step that ends the call, or leaves the result to a later one.
LEMMA TurnType ==
    ASSUME TypeOK, NamedInv, NEW t \in Tasks, NEW l \in Labels, NEW c \in Calls,
           l \in Looking => c.account \in Accounts,
           \/ Goto(t, l) /\ Local(t, c) /\ UNCHANGED <<result, began>>
           \/ \E o \in Outcomes : Finish(t, o),
           UNCHANGED <<shared, server, environment, arc, holder>>
    PROVE  TypeOK' /\ NamedInv'
<1>1. /\ pc' \in [Tasks -> Labels] /\ call' \in [Tasks -> Calls] /\ NamedInv'
      /\ result' \in [Tasks -> Outcomes] /\ began' \in [Tasks -> Nat]
  <2>1. CASE Goto(t, l) /\ Local(t, c) /\ UNCHANGED <<result, began>>
    BY <2>1, MoveType DEF TypeOK
  <2>2. CASE \E o \in Outcomes : Finish(t, o)
    BY <2>2, FinishType
  <2>3. QED
    BY <2>1, <2>2
<1>2. QED
  BY <1>1, SharedType, ServerType, EnvironmentType DEF TypeOK

LEMMA CurrentType ==
    ASSUME TypeOK
    PROVE  store.current \in Accounts \cup {NoAccount}
  BY DEF TypeOK, Table

LEMMA OutcomeTypes == {"empty", "missing", "changed repeatedly", "ok", "dropped", "crashed"} \subseteq Outcomes
  BY DEF Outcomes, Answers

LEMMA ReadCurrentType ==
    ASSUME TypeOK, NamedInv, NEW t \in Tasks, ReadCurrent(t)
    PROVE  TypeOK' /\ NamedInv'
<1> DEFINE c == [NoCall EXCEPT !.turn = call[t].turn, !.account = store.current]
<1>1. CASE store.current = NoAccount
  <2>1. Finish(t, "empty") /\ UNCHANGED <<shared, server, environment, arc, holder>>
    BY <1>1 DEF ReadCurrent
  <2>2. "done" \in Labels /\ "done" \notin Looking
    BY DEF Labels, Looking
  <2>3. QED
    BY <2>1, <2>2, NoCallType, OutcomeTypes, TurnType
<1>2. CASE store.current # NoAccount
  <2>1. store.current \in Accounts /\ call[t].turn \in 0 .. MaxTurns - 1
    BY <1>2, CurrentType, CallOf, FieldType
  <2>2. c \in Calls
    BY <2>1, NoCallType, UpdateType
  <2>3. c.account = store.current
    BY DEF NoCall
  <2>4. /\ Goto(t, "check") /\ Local(t, c)
        /\ UNCHANGED <<result, began, shared, server, environment, arc, holder>>
    BY <1>2 DEF ReadCurrent
  <2> HIDE DEF c
  <2>5. "check" \in Labels
    BY DEF Labels
  <2>6. QED
    BY <2>1, <2>2, <2>3, <2>4, <2>5, TurnType
<1>3. QED
  BY <1>1, <1>2

LEMMA CheckExpiredType ==
    ASSUME TypeOK, NamedInv, NEW t \in Tasks, CheckExpired(t)
    PROVE  TypeOK' /\ NamedInv'
<1>1. call[t].account \in Accounts
  BY DEF CheckExpired, NamedInv, Looking
<1>2. pc' \in [Tasks -> Labels] /\ call' \in [Tasks -> Calls] /\ NamedInv'
  BY <1>1, KeepCall, MoveType DEF CheckExpired, Labels
<1>3. QED
  BY <1>2, SharedType, ServerType, EnvironmentType DEF CheckExpired, Quiet, TypeOK

LEMMA GetType ==
    ASSUME TypeOK, NamedInv, NEW t \in Tasks, Get(t)
    PROVE  TypeOK' /\ NamedInv'
<1> DEFINE g == Stored(call[t].account)
           c == [call[t] EXCEPT !.credential = g]
<1>1. call[t].account \in Accounts /\ g \in Nat
  BY StoredType DEF Get, NamedInv, Looking
<1>2. c \in Calls
  BY <1>1, CallOf, UpdateType
<1>3. c.account = call[t].account
  BY CallOf DEF Calls
<1>4. /\ \/ Finish(t, "missing")
         \/ Goto(t, "still") /\ Local(t, c) /\ UNCHANGED <<result, began>>
      /\ UNCHANGED <<shared, server, environment, arc, holder>>
  BY DEF Get
<1> HIDE DEF c, g
<1>5. QED
  BY <1>1, <1>2, <1>3, <1>4, OutcomeTypes, AnswerTypes, TurnType

\* The loop of ensure_current goes round while there are turns left.
LEMMA StillType ==
    ASSUME TypeOK, NamedInv, NEW t \in Tasks, Still(t)
    PROVE  TypeOK' /\ NamedInv'
<1> DEFINE c == [NoCall EXCEPT !.turn = call[t].turn + 1]
<1>1. UNCHANGED <<shared, server, environment, arc, holder>>
  BY DEF Still
<1>2. CASE Goto(t, "set") /\ UNCHANGED <<call, result, began>>
  <2>1. "set" \in Labels /\ "set" \notin Looking
    BY DEF Labels, Looking
  <2>2. QED
    BY <1>1, <1>2, <2>1, KeepCall, TurnType
<1>3. CASE Finish(t, "changed repeatedly")
  <2>1. "done" \in Labels /\ "done" \notin Looking
    BY DEF Labels, Looking
  <2>2. QED
    BY <1>1, <1>3, <2>1, NoCallType, OutcomeTypes, TurnType
<1>4. CASE /\ call[t].turn + 1 # MaxTurns
           /\ Local(t, c) /\ Goto(t, "current") /\ UNCHANGED <<result, began>>
  <2>1. call[t].turn \in 0 .. MaxTurns - 1
    BY CallOf, FieldType
  <2>2. call[t].turn + 1 \in 0 .. MaxTurns - 1
    BY <1>4, <2>1, TurnsType
  <2>3. c \in Calls
    BY <2>2, NoCallType, UpdateType
  <2>4. "current" \in Labels /\ "current" \notin Looking
    BY DEF Labels, Looking
  <2> HIDE DEF c
  <2>5. QED
    BY <1>1, <1>4, <2>3, <2>4, TurnType
<1>5. QED
  BY <1>2, <1>3, <1>4 DEF Still

LEMMA ReadAppliedType ==
    ASSUME TypeOK, NamedInv, NEW t \in Tasks, ReadApplied(t)
    PROVE  TypeOK' /\ NamedInv'
<1> DEFINE c == [NoCall EXCEPT !.account = store.current, !.credential = Stored(store.current)]
<1>1. UNCHANGED <<shared, server, environment, arc, holder>>
  BY DEF ReadApplied
<1>2. "set" \in Labels /\ "set" \notin Looking
  BY DEF Labels, Looking
<1>3. CASE store.current = NoAccount
  BY <1>1, <1>2, <1>3, NoCallType, OutcomeTypes, TurnType DEF ReadApplied
<1>4. CASE store.current # NoAccount
  <2>1. store.current \in Accounts
    BY <1>4, CurrentType
  <2>2. c \in Calls
    BY <2>1, StoredType, NoCallType, UpdateType
  <2>3. Goto(t, "set") /\ Local(t, c) /\ UNCHANGED <<result, began>>
    BY <1>4 DEF ReadApplied
  <2> HIDE DEF c
  <2>4. QED
    BY <1>1, <1>2, <2>2, <2>3, TurnType
<1>5. QED
  BY <1>3, <1>4

LEMMA SetClientType ==
    ASSUME TypeOK, NamedInv, NEW t \in Tasks, SetClient(t)
    PROVE  TypeOK' /\ NamedInv'
<1>1. call[t].account \in Accounts \cup {NoAccount} /\ call[t].credential \in Nat
  BY CallOf, FieldType
<1>2. client' \in [account : Accounts \cup {NoAccount}, credential : Nat]
  BY <1>1 DEF SetClient
<1>3. /\ pc' \in [Tasks -> Labels] /\ call' \in [Tasks -> Calls] /\ NamedInv'
      /\ result' \in [Tasks -> Outcomes] /\ began' \in [Tasks -> Nat]
  BY FinishType, OutcomeTypes DEF SetClient
<1>4. QED
  BY <1>2, <1>3, ServerType, EnvironmentType DEF SetClient, TypeOK

\* The host writes a table.
LEMMA HostType ==
    ASSUME TypeOK, NamedInv, NEW next \in Table, NEW ok \in BOOLEAN, Write(next, ok),
           Elsewhere, UNCHANGED <<pc, call>>
    PROVE  TypeOK' /\ NamedInv'
<1>1. store' \in Table /\ disk' \in Table /\ switches' \in Nat
  BY WriteType
<1>2. pc' \in [Tasks -> Labels] /\ call' \in [Tasks -> Calls] /\ NamedInv'
  BY StandType
<1>3. QED
  BY <1>1, <1>2, ServerType DEF Elsewhere, TypeOK

LEMMA AddType ==
    ASSUME TypeOK, NamedInv, NEW a \in Accounts, Add(a)
    PROVE  TypeOK' /\ NamedInv'
<1> DEFINE next == [accounts |-> [store.accounts EXCEPT ![a] = Len(origin[a]) + 1],
                    current |-> IF Present(store) = {} THEN a ELSE store.current]
<1>1. Len(origin[a]) + 1 \in Nat /\ Append(origin[a], Absent) \in Seq(Nat)
  <2>1. origin[a] \in Seq(Nat)
    BY DEF TypeOK
  <2>2. QED
    BY <2>1 DEF Absent
<1>2. next \in Table
  <2>1. store \in Table
    BY DEF TypeOK
  <2>2. (IF Present(store) = {} THEN a ELSE store.current) \in Accounts \cup {NoAccount}
    BY CurrentType
  <2>3. QED
    BY <1>1, <2>1, <2>2, TableUpdate
<1>3. \E ok \in BOOLEAN : Write(next, ok)
  BY DEF Add
<1>4. origin' \in [Accounts -> Seq(Nat)]
  BY <1>1 DEF Add, TypeOK
<1> HIDE DEF next
<1>5. store' \in Table /\ disk' \in Table /\ switches' \in Nat
  BY <1>2, <1>3, WriteType
<1>6. pc' \in [Tasks -> Labels] /\ call' \in [Tasks -> Calls] /\ NamedInv'
  BY StandType DEF Add
<1>7. QED
  BY <1>4, <1>5, <1>6 DEF Add, TypeOK

LEMMA RemoveType ==
    ASSUME TypeOK, NamedInv, NEW a \in Accounts, Remove(a)
    PROVE  TypeOK' /\ NamedInv'
<1> DEFINE left == Present(store) \ {a}
           next == [accounts |-> [store.accounts EXCEPT ![a] = Absent],
                    current |-> IF store.current = a THEN First(left) ELSE store.current]
<1>1. left \in SUBSET Accounts
  BY DEF Present
<1>2. (IF store.current = a THEN First(left) ELSE store.current) \in Accounts \cup {NoAccount}
  BY <1>1, FirstType, CurrentType
<1>3. store \in Table /\ Absent \in Nat
  BY DEF TypeOK, Absent
<1>4. next \in Table
  BY <1>2, <1>3, TableUpdate
<1>5. /\ \E ok \in BOOLEAN : Write(next, ok)
      /\ Elsewhere /\ UNCHANGED <<pc, call>>
  BY DEF Remove
<1> HIDE DEF next
<1>6. QED
  BY <1>4, <1>5, HostType

LEMMA SetCurrentType ==
    ASSUME TypeOK, NamedInv, NEW a \in Accounts, SetCurrent(a)
    PROVE  TypeOK' /\ NamedInv'
<1>1. [store EXCEPT !.current = a] \in Table
  BY DEF TypeOK, Table
<1>2. QED
  BY <1>1, HostType DEF SetCurrent

LEMMA DropType ==
    ASSUME TypeOK, NamedInv, NEW t \in Tasks, Drop(t)
    PROVE  TypeOK' /\ NamedInv'
<1>1. /\ pc' \in [Tasks -> Labels] /\ call' \in [Tasks -> Calls] /\ NamedInv'
      /\ result' \in [Tasks -> Outcomes] /\ began' \in [Tasks -> Nat]
  BY FinishType, OutcomeTypes DEF Drop
<1>2. call[t].account \in Accounts
  BY DEF Drop, AwaitPoints, NamedInv, Looking
<1>3. origin' \in [Accounts -> Seq(Nat)]
  BY <1>2, IssueType DEF Drop
<1>4. lost' \in [Accounts -> SUBSET Nat]
  BY <1>2, LoseType DEF Drop, TypeOK
<1>5. /\ arc' \in [Tasks -> LockIds \cup {NoLock}]
      /\ holder' \in [LockIds -> Tasks \cup {NoTask}]
  BY DEF Drop, Release, TypeOK
<1>6. QED
  BY <1>1, <1>3, <1>4, <1>5, SharedType, EnvironmentType DEF Drop, TypeOK

LEMMA RestartType ==
    ASSUME TypeOK, NamedInv, Restart
    PROVE  TypeOK' /\ NamedInv'
<1>1. pc' \in [Tasks -> Labels] /\ result' \in [Tasks -> Outcomes]
  BY OutcomeTypes DEF Restart, TypeOK, Labels
<1>2. call' \in [Tasks -> Calls] /\ began' \in [Tasks -> Nat]
  BY NoCallType DEF Restart
<1>3. NamedInv'
  BY DEF NamedInv, Restart, Looking
<1>4. lost' \in [Accounts -> SUBSET Nat]
  <2>1. \A u \in Tasks : call[u].old \in Nat
    BY CallOf, FieldType
  <2>2. QED
    BY <2>1 DEF Restart, TypeOK
<1>5. store' \in Table /\ disk' \in Table
  BY DEF Restart, TypeOK
<1>6. /\ locks' \in [Accounts -> LockIds \cup {NoLock}]
      /\ arc' \in [Tasks -> LockIds \cup {NoLock}]
      /\ holder' \in [LockIds -> Tasks \cup {NoTask}]
  BY DEF Restart
<1>7. client' \in [account : Accounts \cup {NoAccount}, credential : Nat]
  BY DEF Restart, Absent
<1>8. /\ expired' \in [Accounts -> SUBSET Nat] /\ origin' \in [Accounts -> Seq(Nat)]
      /\ switches' \in Nat /\ restarts' \in Nat
  BY DEF Restart, TypeOK
<1>9. QED
  BY <1>1, <1>2, <1>3, <1>4, <1>5, <1>6, <1>7, <1>8 DEF TypeOK

LEMMA InitType == Init => TypeOK /\ NamedInv
<1> SUFFICES ASSUME Init
             PROVE  TypeOK /\ NamedInv
  OBVIOUS
<1>1. store \in Table /\ disk \in Table
  BY DEF Init, Table, Absent
<1>2. /\ locks \in [Accounts -> LockIds \cup {NoLock}]
      /\ arc \in [Tasks -> LockIds \cup {NoLock}]
      /\ holder \in [LockIds -> Tasks \cup {NoTask}]
      /\ client \in [account : Accounts \cup {NoAccount}, credential : Nat]
  BY DEF Init, Absent
<1>3. pc \in [Tasks -> Labels] /\ call \in [Tasks -> Calls] /\ NamedInv
  BY NoCallType DEF Init, Labels, NamedInv, Looking
<1>4. /\ result \in [Tasks -> Outcomes] /\ began \in [Tasks -> Nat]
      /\ switches \in Nat /\ restarts \in Nat
  BY DEF Init, Outcomes, Answers
<1>5. expired \in [Accounts -> SUBSET Nat] /\ lost \in [Accounts -> SUBSET Nat]
  BY DEF Init
<1>6. origin \in [Accounts -> Seq(Nat)]
  <2>1. <<Absent>> \in Seq(Nat)
    BY DEF Absent
  <2>2. QED
    BY <2>1 DEF Init
<1>7. QED
  BY <1>1, <1>2, <1>3, <1>4, <1>5, <1>6 DEF TypeOK

LEMMA TypeStep == TypeOK /\ NamedInv /\ [Next]_vars => TypeOK' /\ NamedInv'
<1> SUFFICES ASSUME TypeOK, NamedInv, [Next]_vars
             PROVE  TypeOK' /\ NamedInv'
  OBVIOUS
<1>1. ASSUME NEW t \in Tasks, Call(t) \/ Progress(t) \/ Drop(t)
      PROVE  TypeOK' /\ NamedInv'
  BY <1>1, CallType, LookupType, AcquireType, ReadType, RenewedType, NetworkErrorType,
     CommitType, InvalidateType, UnlockType, CleanupType, ReturnType, ReadCurrentType,
     CheckExpiredType, GetType, StillType, ReadAppliedType, SetClientType, DropType
     DEF Progress
<1>2. ASSUME NEW a \in Accounts, Add(a) \/ Remove(a) \/ SetCurrent(a)
      PROVE  TypeOK' /\ NamedInv'
  BY <1>2, AddType, RemoveType, SetCurrentType
<1>3. ASSUME NEW a \in Accounts, Expire(a)
      PROVE  TypeOK' /\ NamedInv'
  BY <1>3, StoredType, StandType, SharedType, EnvironmentType DEF Expire, TypeOK
<1>4. CASE Save
  BY <1>4, StandType, ServerType, EnvironmentType DEF Save, TypeOK
<1>5. CASE Restart
  BY <1>5, RestartType
<1>6. CASE UNCHANGED vars
  BY <1>6, StandType, SharedType, ServerType, EnvironmentType DEF vars, TypeOK
<1>7. QED
  BY <1>1, <1>2, <1>3, <1>4, <1>5, <1>6 DEF Next

\* Every variable keeps its type (TypeOK), and every call of refresh names one
\* of the accounts; in particular ensure_current stays within its
\* MAX_CURRENT_RETRIES turns (credential_store.rs:364).
THEOREM TypeCorrect == Spec => [](TypeOK /\ NamedInv)
  BY InitType, TypeStep, PTL DEF Spec

-----------------------------------------------------------------------------
\* Locks: one call at a time refreshes an account.

\* Two calls under the lock of one account hold the same Arc, and a lock has
\* one holder.
LEMMA OneHolder == LockInv => OneRefresher
<1> SUFFICES ASSUME LockInv, NEW t \in Tasks, NEW u \in Tasks,
                    pc[t] \in Guarded, pc[u] \in Guarded,
                    call[t].account = call[u].account
             PROVE  t = u
  BY DEF OneRefresher
<1>1. Guarded \subseteq Using \ {"return"}
  BY DEF Guarded, Using
<1>2. locks[call[t].account] = arc[t] /\ locks[call[u].account] = arc[u]
  BY <1>1 DEF LockInv, HasLock
<1>3. holder[arc[t]] = t /\ holder[arc[u]] = u
  BY DEF LockInv, HasLock
<1>4. QED
  BY <1>2, <1>3

\* Steps that leave the locks alone and take no call under one.
LEMMA LockFrame ==
    ASSUME LockInv, UNCHANGED <<locks, arc, holder>>, NEW t \in Tasks,
           \A u \in Tasks \ {t} : pc'[u] = pc[u] /\ call'[u] = call[u],
           pc'[t] \in Using <=> pc[t] \in Using,
           pc'[t] \in Guarded => pc[t] \in Guarded,
           pc'[t] \in Using \ {"return"} =>
               pc[t] \in Using \ {"return"} /\ call'[t].account = call[t].account
    PROVE  LockInv'
<1> SUFFICES ASSUME NEW u \in Tasks
             PROVE  HasLock(u)'
  BY DEF LockInv
<1>1. CASE u = t
  BY <1>1 DEF LockInv, HasLock
<1>2. CASE u # t
  BY <1>2 DEF LockInv, HasLock
<1>3. QED
  BY <1>1, <1>2

\* What a step of one call does to the labels and locals of all of them.
LEMMA OthersStay ==
    ASSUME TypeOK, NEW t \in Tasks, NEW l, NEW c, Goto(t, l), Local(t, c)
    PROVE  /\ pc'[t] = l /\ call'[t] = c
           /\ \A u \in Tasks \ {t} : pc'[u] = pc[u] /\ call'[u] = call[u]
  BY DEF TypeOK, Goto, Local

\* What a call learns does not change its account.
LEMMA SameAccount ==
    ASSUME TypeOK, NEW t \in Tasks, NEW o, NEW g,
           \/ Outcome(t, o, g)
           \/ Local(t, [call[t] EXCEPT !.old = g])
           \/ Local(t, [call[t] EXCEPT !.credential = g])
    PROVE  /\ call'[t].account = call[t].account
           /\ call'[t].turn = call[t].turn
           /\ \A u \in Tasks \ {t} : call'[u] = call[u]
<1> DEFINE c1 == [call[t] EXCEPT !.outcome = o, !.credential = g]
           c2 == [call[t] EXCEPT !.old = g]
           c3 == [call[t] EXCEPT !.credential = g]
<1>1. /\ c1.account = call[t].account /\ c1.turn = call[t].turn
      /\ c2.account = call[t].account /\ c2.turn = call[t].turn
      /\ c3.account = call[t].account /\ c3.turn = call[t].turn
  BY CallOf DEF Calls
<1>2. PICK c : Local(t, c) /\ c \in {c1, c2, c3}
  BY DEF Outcome
<1> HIDE DEF c1, c2, c3
<1>3. call'[t] = c /\ \A u \in Tasks \ {t} : call'[u] = call[u]
  BY <1>2 DEF TypeOK, Local
<1>4. QED
  BY <1>1, <1>2, <1>3

LEMMA FinishedLocals ==
    ASSUME TypeOK, NEW t \in Tasks, NEW o, Finish(t, o)
    PROVE  /\ pc'[t] = "done" /\ call'[t] = NoCall /\ result'[t] = o /\ began'[t] = 0
           /\ \A u \in Tasks \ {t} : /\ pc'[u] = pc[u] /\ call'[u] = call[u]
                                     /\ result'[u] = result[u] /\ began'[u] = began[u]
  BY DEF TypeOK, Finish, Goto, Local

LEMMA LookupLock ==
    ASSUME TypeOK, NamedInv, LockInv, NEW t \in Tasks, Lookup(t)
    PROVE  LockInv'
<1> DEFINE a == call[t].account
           l == IF locks[a] = NoLock THEN <<t, call[t].turn>> ELSE locks[a]
<1>1. a \in Accounts
  BY DEF Lookup, NamedInv, Looking
<1>2. /\ locks' = [locks EXCEPT ![a] = l] /\ arc' = [arc EXCEPT ![t] = l]
      /\ UNCHANGED <<holder, call>> /\ Goto(t, "wait") /\ pc[t] = "lookup"
  BY DEF Lookup
<1>3. l # NoLock
  <2>1. call[t].turn \in 0 .. MaxTurns - 1
    BY CallOf, FieldType
  <2>2. <<t, call[t].turn>> \in Tasks \X Nat
    BY <2>1, TurnsType
  <2>3. QED
    BY <2>2, NoLockAssumption
<1>4. /\ pc'[t] = "wait" /\ arc'[t] = l /\ locks'[a] = l
      /\ \A u \in Tasks \ {t} : pc'[u] = pc[u] /\ arc'[u] = arc[u]
      /\ \A b \in Accounts \ {a} : locks'[b] = locks[b]
  BY <1>1, <1>2 DEF TypeOK, Goto
<1>5. ASSUME NEW u \in Tasks
      PROVE  HasLock(u)'
  <2>1. CASE u = t
    BY <1>2, <1>3, <1>4, <2>1 DEF HasLock, Using, Guarded
  <2>2. CASE u # t
    <3>1. pc[u] \in Using \ {"return"} => call[u].account \in Accounts
      BY DEF NamedInv, Looking, Using, Guarded
    <3>2. HasLock(u)
      BY DEF LockInv
    <3>3. pc[u] \in Using \ {"return"} => locks'[call[u].account] = locks[call[u].account]
      <4>1. SUFFICES ASSUME pc[u] \in Using \ {"return"}, call[u].account = a
                     PROVE  locks'[a] = locks[a]
        BY <1>4, <3>1
      <4>2. locks[a] = arc[u] /\ arc[u] # NoLock
        BY <3>2, <4>1 DEF HasLock
      <4>3. QED
        BY <1>4, <4>2
    <3>4. QED
      BY <1>2, <1>4, <2>2, <3>2, <3>3 DEF HasLock
  <2>3. QED
    BY <2>1, <2>2
<1>6. QED
  BY <1>5 DEF LockInv

LEMMA AcquireLock ==
    ASSUME TypeOK, LockInv, NEW t \in Tasks, Acquire(t)
    PROVE  LockInv'
<1>1. /\ pc[t] = "wait" /\ holder[arc[t]] = NoTask
      /\ holder' = [holder EXCEPT ![arc[t]] = t]
      /\ UNCHANGED <<locks, arc, call>>
  BY DEF Acquire, shared
<1>2. pc'[t] = "read" /\ \A u \in Tasks \ {t} : pc'[u] = pc[u]
  BY DEF Acquire, Goto, TypeOK
<1>3. \A u \in Tasks : pc[u] \in Using => arc[u] \in LockIds
  BY DEF LockInv, HasLock, TypeOK
<1>4. arc[t] \in LockIds
  BY <1>1, <1>3 DEF Using
<1>5. holder'[arc[t]] = t /\ \A k \in LockIds \ {arc[t]} : holder'[k] = holder[k]
  BY <1>1, <1>4 DEF TypeOK
<1>6. ASSUME NEW u \in Tasks
      PROVE  HasLock(u)'
  <2>1. HasLock(u) /\ HasLock(t)
    BY DEF LockInv
  <2>2. CASE u = t
    BY <1>1, <1>2, <1>5, <2>1, <2>2 DEF HasLock, Using, Guarded
  <2>3. CASE u # t
    <3>1. pc[u] \in Guarded => holder'[arc[u]] = u
      <4>1. SUFFICES ASSUME pc[u] \in Guarded
                     PROVE  holder'[arc[u]] = u
        OBVIOUS
      <4>2. arc[u] \in LockIds
        BY <1>3, <4>1 DEF Using
      <4>3. holder[arc[u]] = u /\ u # NoTask
        BY <2>1, <4>1, StoreAssumption DEF HasLock
      <4>4. QED
        BY <1>1, <1>5, <4>2, <4>3
    <3>2. QED
      BY <1>1, <1>2, <2>1, <2>3, <3>1 DEF HasLock
  <2>4. QED
    BY <2>2, <2>3
<1>7. QED
  BY <1>6 DEF LockInv

LEMMA UnlockLock ==
    ASSUME TypeOK, LockInv, NEW t \in Tasks, Unlock(t)
    PROVE  LockInv'
<1>1. /\ pc[t] = "unlock" /\ holder' = [holder EXCEPT ![arc[t]] = NoTask]
      /\ UNCHANGED <<locks, arc, call>>
  BY DEF Unlock, shared
<1>2. pc'[t] = "cleanup" /\ \A u \in Tasks \ {t} : pc'[u] = pc[u]
  BY DEF Unlock, Goto, TypeOK
<1>3. HasLock(t) /\ holder[arc[t]] = t
  BY <1>1 DEF LockInv, HasLock, Guarded
<1>4. ASSUME NEW u \in Tasks
      PROVE  HasLock(u)'
  <2>1. HasLock(u)
    BY DEF LockInv
  <2>2. CASE u = t
    BY <1>1, <1>2, <1>3, <2>2 DEF HasLock, Using, Guarded
  <2>3. CASE u # t
    <3>1. pc[u] \in Guarded => holder'[arc[u]] = u
      BY <1>1, <1>3, <2>1, <2>3 DEF HasLock, TypeOK
    <3>2. QED
      BY <1>1, <1>2, <2>1, <2>3, <3>1 DEF HasLock
  <2>4. QED
    BY <2>2, <2>3
<1>5. QED
  BY <1>4 DEF LockInv

\* A count of 2 is one task and one entry of the map.
LEMMA CountOfTwo ==
    ASSUME NEW t \in Tasks, NEW a \in Accounts, locks[a] = arc[t],
           StrongCount(arc[t]) = 2
    PROVE  \A u \in Tasks : arc[u] = arc[t] => u = t
<1> DEFINE T == {u \in Tasks : arc[u] = arc[t]}
           A == {b \in Accounts : locks[b] = arc[t]}
<1>1. IsFiniteSet(T) /\ IsFiniteSet(A)
  <2>1. IsFiniteSet(Tasks) /\ IsFiniteSet(Accounts)
    BY StoreAssumption
  <2>2. T \in SUBSET Tasks /\ A \in SUBSET Accounts
    OBVIOUS
  <2>3. QED
    BY <2>1, <2>2, FS_Subset
<1>2. t \in T /\ a \in A
  OBVIOUS
<1>3. Cardinality(T) + Cardinality(A) = 2
  BY DEF StrongCount
<1> HIDE DEF T, A
<1>4. Cardinality(T) \in Nat /\ Cardinality(A) \in Nat
  BY <1>1, FS_CardinalityType
<1>5. Cardinality(T) # 0 /\ Cardinality(A) # 0
  BY <1>1, <1>2, FS_EmptySet
<1>6. Cardinality(T) = 1
  BY <1>3, <1>4, <1>5
<1>7. \E x : T = {x}
  BY <1>1, <1>6, FS_Singleton
<1>8. \A u \in T : u = t
  BY <1>2, <1>7
<1>9. QED
  BY <1>8 DEF T

LEMMA CleanupLock ==
    ASSUME TypeOK, NamedInv, LockInv, NEW t \in Tasks, Cleanup(t)
    PROVE  LockInv'
<1> DEFINE a == call[t].account
<1>1. /\ pc[t] = "cleanup" /\ UNCHANGED <<arc, holder, call>>
      /\ locks' = IF StrongCount(arc[t]) = 2 THEN [locks EXCEPT ![a] = NoLock] ELSE locks
  BY DEF Cleanup
<1>2. pc'[t] = "return" /\ \A u \in Tasks \ {t} : pc'[u] = pc[u]
  BY DEF Cleanup, Goto, TypeOK
<1>3. a \in Accounts /\ HasLock(t) /\ locks[a] = arc[t]
  BY <1>1 DEF NamedInv, Looking, LockInv, HasLock, Using
<1>4. ASSUME NEW u \in Tasks
      PROVE  HasLock(u)'
  <2>1. HasLock(u)
    BY DEF LockInv
  <2>2. CASE u = t
    BY <1>1, <1>2, <1>3, <2>2 DEF HasLock, Using, Guarded
  <2>3. CASE u # t
    <3>1. pc[u] \in Using \ {"return"} => locks'[call[u].account] = locks[call[u].account]
      <4>1. SUFFICES ASSUME pc[u] \in Using \ {"return"}
                     PROVE  locks'[call[u].account] = locks[call[u].account]
        OBVIOUS
      <4>2. call[u].account \in Accounts
        BY <4>1 DEF NamedInv, Looking, Using, Guarded
      <4>3. locks[call[u].account] = arc[u]
        BY <2>1, <4>1 DEF HasLock
      <4>4. StrongCount(arc[t]) = 2 => call[u].account # a
        BY <1>3, <2>3, <4>3, CountOfTwo
      <4>5. QED
        BY <1>1, <4>2, <4>4 DEF TypeOK
    <3>2. QED
      BY <1>1, <1>2, <2>1, <2>3, <3>1 DEF HasLock
  <2>4. QED
    BY <2>2, <2>3
<1>5. QED
  BY <1>4 DEF LockInv

LEMMA ReturnLock ==
    ASSUME TypeOK, LockInv, NEW t \in Tasks, Return(t)
    PROVE  LockInv'
<1>1. arc' = [arc EXCEPT ![t] = NoLock] /\ UNCHANGED <<locks, holder>>
  BY DEF Return, shared
<1>2. /\ pc'[t] \in {"still", "done"}
      /\ \A u \in Tasks \ {t} : pc'[u] = pc[u] /\ call'[u] = call[u]
  BY FinishedLocals DEF Return, Goto, TypeOK
<1>3. QED
  BY <1>1, <1>2 DEF LockInv, HasLock, Using, Guarded, TypeOK

LEMMA DropLock ==
    ASSUME TypeOK, LockInv, NEW t \in Tasks, Drop(t)
    PROVE  LockInv'
<1>1. /\ arc' = [arc EXCEPT ![t] = NoLock] /\ UNCHANGED locks
      /\ holder' = [l \in LockIds |-> IF holder[l] = t THEN NoTask ELSE holder[l]]
  BY DEF Drop, Release, shared
<1>2. pc'[t] = "done" /\ \A u \in Tasks \ {t} : pc'[u] = pc[u] /\ call'[u] = call[u]
  BY FinishedLocals DEF Drop
<1>3. ASSUME NEW u \in Tasks
      PROVE  HasLock(u)'
  <2>1. HasLock(u)
    BY DEF LockInv
  <2>2. CASE u = t
    BY <1>1, <1>2, <2>2 DEF HasLock, Using, Guarded, TypeOK
  <2>3. CASE u # t
    <3>1. arc'[u] = arc[u] /\ (arc[u] # NoLock => arc[u] \in LockIds)
      BY <1>1, <2>3 DEF TypeOK
    <3>2. pc[u] \in Guarded => arc[u] \in LockIds /\ holder[arc[u]] = u
      BY <2>1, <3>1 DEF HasLock, Using
    <3>3. QED
      BY <1>1, <1>2, <2>1, <2>3, <3>1, <3>2 DEF HasLock
  <2>4. QED
    BY <2>2, <2>3
<1>4. QED
  BY <1>3 DEF LockInv

LEMMA RestartLock ==
    ASSUME TypeOK, Restart
    PROVE  LockInv'
<1>1. \A u \in Tasks : arc'[u] = NoLock /\ pc'[u] \in {"idle", "done"}
  BY DEF Restart
<1>2. QED
  BY <1>1 DEF LockInv, HasLock, Using, Guarded

\* The other steps of a call stay on their side of the lock.
LEMMA PlainLock ==
    ASSUME TypeOK, LockInv, NEW t \in Tasks,
           \/ Call(t) \/ Read(t) \/ Renewed(t) \/ NetworkError(t) \/ Commit(t) \/ Invalidate(t)
           \/ ReadCurrent(t) \/ CheckExpired(t) \/ Get(t) \/ Still(t)
           \/ ReadApplied(t) \/ SetClient(t)
    PROVE  LockInv'
<1>1. UNCHANGED <<locks, arc, holder>>
  BY DEF Call, Read, Renewed, NetworkError, Commit, Invalidate, ReadCurrent, CheckExpired,
     Get, Still, ReadApplied, SetClient, Quiet, shared
<1>2. CASE Read(t) \/ Renewed(t) \/ NetworkError(t) \/ Commit(t) \/ Invalidate(t)
  <2>1. pc[t] \in Guarded /\ pc[t] # "return"
    BY <1>2 DEF Read, Renewed, NetworkError, Commit, Invalidate, Guarded
  <2>2. pc'[t] \in Guarded /\ \A u \in Tasks \ {t} : pc'[u] = pc[u]
    BY <1>2 DEF Read, Renewed, NetworkError, Commit, Invalidate, Guarded, Goto, TypeOK
  <2>3. call'[t].account = call[t].account /\ \A u \in Tasks \ {t} : call'[u] = call[u]
    BY <1>2, SameAccount DEF Read, Renewed, NetworkError, Commit, Invalidate
  <2>4. QED
    BY <1>1, <2>1, <2>2, <2>3, LockFrame DEF Using, Guarded
<1>3. CASE \/ Call(t) \/ ReadCurrent(t) \/ CheckExpired(t) \/ Get(t) \/ Still(t)
           \/ ReadApplied(t) \/ SetClient(t)
  <2>1. pc[t] \notin Using
    BY <1>3 DEF Call, ReadCurrent, CheckExpired, Get, Still, ReadApplied, SetClient, Using, Guarded
  <2>2. pc'[t] \notin Using /\ \A u \in Tasks \ {t} : pc'[u] = pc[u]
    BY <1>3, FinishedLocals DEF Call, ReadCurrent, CheckExpired, Get, Still, ReadApplied,
       SetClient, Goto, TypeOK, Using, Guarded
  <2>3. \A u \in Tasks \ {t} : call'[u] = call[u]
    BY <1>3, FinishedLocals DEF Call, ReadCurrent, CheckExpired, Get, Still, ReadApplied,
       SetClient, Local, TypeOK
  <2>4. QED
    BY <1>1, <2>1, <2>2, <2>3, LockFrame DEF Using
<1>4. QED
  BY <1>2, <1>3

LEMMA LockStep == TypeOK /\ NamedInv /\ LockInv /\ [Next]_vars => LockInv'
<1> SUFFICES ASSUME TypeOK, NamedInv, LockInv, [Next]_vars
             PROVE  LockInv'
  OBVIOUS
<1>1. ASSUME NEW t \in Tasks, Call(t) \/ Progress(t) \/ Drop(t)
      PROVE  LockInv'
  BY <1>1, LookupLock, AcquireLock, UnlockLock, CleanupLock, ReturnLock, DropLock, PlainLock
     DEF Progress
<1>2. ASSUME UNCHANGED <<locks, arc, holder, pc, call>>
      PROVE  LockInv'
  BY <1>2 DEF LockInv, HasLock
<1>3. CASE Restart
  BY <1>3, RestartLock
<1>4. ASSUME NEW a \in Accounts, Add(a) \/ Remove(a) \/ SetCurrent(a) \/ Expire(a)
      PROVE  UNCHANGED <<locks, arc, holder, pc, call>>
  BY <1>4 DEF Add, Remove, SetCurrent, Expire, Elsewhere, shared
<1>5. QED
  BY <1>1, <1>2, <1>3, <1>4 DEF Next, Save, vars, shared

LEMMA LockInit == Init => LockInv
  BY DEF Init, LockInv, HasLock, Using, Guarded

\* refresh is single-flight per account (OneRefresher), although lock entries
\* are collected while others look them up, futures are dropped and the process
\* restarts (credential_store.rs:291-316).
THEOREM OneRefresherHolds == Spec => []OneRefresher
<1>1. Init => TypeOK /\ NamedInv /\ LockInv
  BY InitType, LockInit
<1>2. TypeOK /\ NamedInv /\ LockInv /\ [Next]_vars => TypeOK' /\ NamedInv' /\ LockInv'
  BY TypeStep, LockStep
<1>3. QED
  BY <1>1, <1>2, OneHolder, PTL DEF Spec

-----------------------------------------------------------------------------
\* The table: every step is one of AccountTable, or none.

LEMMA OldInDomain ==
    ASSUME TypeOK, NamedInv, IssuedInv, NEW t \in Tasks, pc[t] = "network"
    PROVE  /\ call[t].account \in Accounts
           /\ call[t].old \in DOMAIN origin[call[t].account]
<1>1. call[t].account \in Accounts
  BY DEF NamedInv, Looking
<1>2. call[t].old \in 1 .. Len(origin[call[t].account])
  BY DEF IssuedInv, Answered, Issued
<1>3. DOMAIN origin[call[t].account] = 1 .. Len(origin[call[t].account])
  BY <1>1 DEF TypeOK
<1>4. QED
  BY <1>1, <1>2, <1>3

\* The server's part of a step: it renews a credential that it has issued.
LEMMA IssueRefines ==
    ASSUME TypeOK, NamedInv, IssuedInv, NEW t \in Tasks, pc[t] = "network",
           Issue(t) \/ UNCHANGED origin, UNCHANGED store
    PROVE  [Promise!Next]_(Promise!tvars)
<1>1. /\ call[t].account \in Accounts
      /\ call[t].old \in DOMAIN origin[call[t].account]
  BY OldInDomain
<1>2. CASE Issue(t)
  BY <1>1, <1>2 DEF Issue, Promise!Next, Promise!Issue
<1>3. CASE UNCHANGED origin
  BY <1>3 DEF Promise!tvars
<1>4. QED
  BY <1>2, <1>3

LEMMA CommitRefines ==
    ASSUME TypeOK, NamedInv, IssuedInv, NEW t \in Tasks, Commit(t)
    PROVE  [Promise!Next]_(Promise!tvars)
<1> DEFINE a == call[t].account
           g == call[t].credential
<1>1. a \in Accounts /\ pc[t] = "commit" /\ UNCHANGED origin
  BY DEF Commit, NamedInv, Looking
<1>2. \/ UNCHANGED store
      \/ store.accounts[a] # Absent /\ store.accounts[a] = call[t].old /\ store' = Inserted(t)
  BY DEF Commit, Write, Stored
<1>3. CASE UNCHANGED store
  BY <1>1, <1>3 DEF Promise!tvars
<1>4. CASE store.accounts[a] # Absent /\ store.accounts[a] = call[t].old /\ store' = Inserted(t)
  <2>1. g \in DOMAIN origin[a] /\ origin[a][g] = store.accounts[a]
    <3>1. g \in 1 .. Len(origin[a]) /\ origin[a][g] = call[t].old
      BY <1>1 DEF IssuedInv, Answered, Issued
    <3>2. DOMAIN origin[a] = 1 .. Len(origin[a])
      BY <1>1 DEF TypeOK
    <3>3. QED
      BY <1>4, <3>1, <3>2
  <2>2. store' = [accounts |-> [store.accounts EXCEPT ![a] = g], current |-> store.current]
    BY <1>4 DEF Inserted, TypeOK, Table
  <2>3. Promise!Renew(a)
    BY <1>1, <1>4, <2>1, <2>2 DEF Promise!Renew
  <2>4. QED
    BY <1>1, <2>3 DEF Promise!Next
<1>5. QED
  BY <1>2, <1>3, <1>4

LEMMA HostRefines ==
    ASSUME TypeOK, NEW a \in Accounts, Add(a) \/ Remove(a) \/ SetCurrent(a)
    PROVE  [Promise!Next]_(Promise!tvars)
<1>1. CASE Add(a)
  <2>1. /\ origin' = [origin EXCEPT ![a] = Append(@, Absent)]
        /\ \/ /\ store'.accounts = [store.accounts EXCEPT ![a] = Len(origin[a]) + 1]
              /\ store'.current \in {store.current, a}
           \/ store' = store
    BY <1>1 DEF Add, Write
  <2>2. QED
    BY <2>1 DEF Promise!Next, Promise!Login
<1>2. CASE Remove(a)
  <2> DEFINE left == Present(store) \ {a}
             next == IF store.current = a THEN First(left) ELSE store.current
  <2>1. next \in Accounts \cup {NoAccount}
    <3>1. left \in SUBSET Accounts
      BY DEF Present
    <3>2. QED
      BY <3>1, FirstType, CurrentType
  <2>2. /\ UNCHANGED origin
        /\ \/ /\ store'.accounts = [store.accounts EXCEPT ![a] = Absent]
              /\ store'.current = next
           \/ store' = store
    BY <1>2 DEF Remove, Write, Elsewhere, server
  <2> HIDE DEF next
  <2>3. QED
    BY <2>1, <2>2 DEF Promise!Next, Promise!Remove, Promise!tvars
<1>3. CASE SetCurrent(a)
  <2>1. store.accounts[a] # Absent /\ UNCHANGED origin
    BY <1>3 DEF SetCurrent, Present, Elsewhere, server
  <2>2. store' = store \/ store' = [store EXCEPT !.current = a]
    BY <1>3 DEF SetCurrent, Write
  <2>3. [store EXCEPT !.current = a] = [accounts |-> store.accounts, current |-> a]
    <3>1. store = [accounts |-> store.accounts, current |-> store.current]
      BY DEF TypeOK, Table
    <3>2. QED
      BY <3>1
  <2>4. QED
    BY <2>1, <2>2, <2>3 DEF Promise!Next, Promise!Switch, Promise!tvars
<1>4. QED
  BY <1>1, <1>2, <1>3

LEMMA StepRefines ==
    ASSUME TypeOK, NamedInv, IssuedInv, SameOnDisk, [Next]_vars
    PROVE  [Promise!Next]_(Promise!tvars)
<1>1. ASSUME UNCHANGED <<store, origin>>
      PROVE  [Promise!Next]_(Promise!tvars)
  BY <1>1 DEF Promise!tvars
<1>2. ASSUME NEW t \in Tasks, Renewed(t) \/ NetworkError(t) \/ Drop(t)
      PROVE  [Promise!Next]_(Promise!tvars)
  <2>1. UNCHANGED store
    BY <1>2 DEF Renewed, NetworkError, Drop, shared
  <2>2. UNCHANGED origin \/ (pc[t] = "network" /\ (Issue(t) \/ UNCHANGED origin))
    BY <1>2 DEF Renewed, NetworkError, Drop
  <2>3. QED
    BY <1>1, <2>1, <2>2, IssueRefines
<1>3. ASSUME NEW t \in Tasks,
             \/ Call(t) \/ Lookup(t) \/ Acquire(t) \/ Read(t) \/ Invalidate(t) \/ Unlock(t)
             \/ Cleanup(t) \/ Return(t) \/ ReadCurrent(t) \/ CheckExpired(t) \/ Get(t)
             \/ Still(t) \/ ReadApplied(t) \/ SetClient(t)
      PROVE  UNCHANGED <<store, origin>>
  BY <1>3 DEF Call, Lookup, Acquire, Read, Invalidate, Unlock, Cleanup, Return, ReadCurrent,
     CheckExpired, Get, Still, ReadApplied, SetClient, Quiet, shared, server
<1>4. ASSUME NEW a \in Accounts, Expire(a)
      PROVE  UNCHANGED <<store, origin>>
  BY <1>4 DEF Expire, shared
<1>5. CASE Restart \/ Save \/ UNCHANGED vars
  BY <1>1, <1>5 DEF Restart, Save, SameOnDisk, vars, shared, server
<1>6. QED
  BY <1>1, <1>2, <1>3, <1>4, <1>5, CommitRefines, HostRefines DEF Next, Progress

LEMMA InitRefines == Init => Promise!Init
<1> SUFFICES ASSUME Init
             PROVE  Promise!Init
  OBVIOUS
<1>1. store \in [accounts : [Accounts -> {Absent, 1}], current : Accounts \cup {NoAccount}]
  BY DEF Init
<1>2. QED
  BY <1>1 DEF Init, Promise!Init

-----------------------------------------------------------------------------
\* What the server has issued.

LEMMA Appended ==
    ASSUME NEW s \in Seq(Nat), NEW e \in Nat
    PROVE  /\ Len(Append(s, e)) = Len(s) + 1
           /\ \A g \in 1 .. Len(s) : Append(s, e)[g] = s[g]
           /\ Append(s, e)[Len(s) + 1] = e
           /\ Len(s) \in Nat
  OBVIOUS

\* One more credential of account a.
LEMMA OneMore ==
    ASSUME TypeOK, NEW a \in Accounts, NEW e \in Nat,
           origin' = [origin EXCEPT ![a] = Append(@, e)]
    PROVE  /\ \A b \in Accounts \ {a} : origin'[b] = origin[b]
           /\ Len(origin[a]) \in Nat /\ Len(origin'[a]) = Len(origin[a]) + 1
           /\ \A g \in Issued(a) : origin'[a][g] = origin[a][g]
           /\ origin'[a][Len(origin[a]) + 1] = e
           /\ Used(a)' = Used(a) \cup {e}
<1>1. origin[a] \in Seq(Nat) /\ origin'[a] = Append(origin[a], e)
  BY DEF TypeOK
<1>2. \A b \in Accounts \ {a} : origin'[b] = origin[b]
  BY DEF TypeOK
<1>3. /\ Len(origin'[a]) = Len(origin[a]) + 1 /\ Len(origin[a]) \in Nat
      /\ \A g \in 1 .. Len(origin[a]) : origin'[a][g] = origin[a][g]
      /\ origin'[a][Len(origin[a]) + 1] = e
  BY <1>1, Appended
<1>4. Used(a)' = Used(a) \cup {e}
  <2>1. \A g \in Nat : g \in 1 .. Len(origin'[a]) <=> g \in 1 .. Len(origin[a]) \/ g = Len(origin[a]) + 1
    BY <1>3
  <2>2. Len(origin[a]) + 1 \in Nat /\ 1 .. Len(origin'[a]) \subseteq Nat /\ 1 .. Len(origin[a]) \subseteq Nat
    BY <1>3
  <2>3. QED
    BY <1>3, <2>1, <2>2 DEF Used, Issued
<1>5. QED
  BY <1>2, <1>3, <1>4 DEF Issued

LEMMA NumberedStep ==
    ASSUME TypeOK, \A a \in Accounts : Numbered(a), [Promise!Next]_(Promise!tvars)
    PROVE  \A a \in Accounts : Numbered(a)'
<1>1. CASE UNCHANGED <<store, origin>>
  BY <1>1 DEF Numbered, Issued
<1>2. ASSUME NEW a \in Accounts, NEW e \in Nat, e <= Len(origin[a]),
             origin' = [origin EXCEPT ![a] = Append(@, e)],
             \A b \in Accounts \ {a} : store'.accounts[b] = store.accounts[b],
             store'.accounts[a] \in {store.accounts[a], Len(origin[a]) + 1}
      PROVE  \A b \in Accounts : Numbered(b)'
  <2>1. /\ \A b \in Accounts \ {a} : origin'[b] = origin[b]
        /\ Len(origin[a]) \in Nat /\ Len(origin'[a]) = Len(origin[a]) + 1
        /\ \A g \in Issued(a) : origin'[a][g] = origin[a][g]
        /\ origin'[a][Len(origin[a]) + 1] = e
    BY <1>2, OneMore
  <2>2. \A b \in Accounts \ {a} : Numbered(b)'
    BY <1>2, <2>1 DEF Numbered, Issued
  <2>3. Numbered(a)'
    <3>1. store.accounts[a] \in Nat /\ Numbered(a)
      BY DEF TypeOK, Table
    <3>2. store'.accounts[a] <= Len(origin'[a]) /\ Len(origin'[a]) >= 1
      BY <1>2, <2>1, <3>1 DEF Numbered
    <3>3. ASSUME NEW g \in 1 .. Len(origin'[a])
          PROVE  origin'[a][g] < g
      <4>1. CASE g \in 1 .. Len(origin[a])
        BY <2>1, <3>1, <4>1 DEF Numbered, Issued
      <4>2. CASE g = Len(origin[a]) + 1
        BY <1>2, <2>1, <4>2
      <4>3. QED
        BY <2>1, <3>3, <4>1, <4>2
    <3>4. QED
      BY <3>2, <3>3 DEF Numbered, Issued
  <2>4. QED
    BY <2>2, <2>3
<1>3. ASSUME NEW a \in Accounts, Promise!Login(a)
      PROVE  \A b \in Accounts : Numbered(b)'
  <2>1. Absent \in Nat /\ Absent <= Len(origin[a])
    BY DEF TypeOK, Absent
  <2>2. /\ origin' = [origin EXCEPT ![a] = Append(@, Absent)]
        /\ \A b \in Accounts \ {a} : store'.accounts[b] = store.accounts[b]
        /\ store'.accounts[a] \in {store.accounts[a], Len(origin[a]) + 1}
    BY <1>3 DEF Promise!Login, TypeOK, Table
  <2>3. QED
    BY <1>2, <2>1, <2>2
<1>4. ASSUME NEW a \in Accounts, Promise!Issue(a)
      PROVE  \A b \in Accounts : Numbered(b)'
  <2>1. PICK g \in DOMAIN origin[a] : origin' = [origin EXCEPT ![a] = Append(@, g)]
    BY <1>4 DEF Promise!Issue
  <2>2. g \in Nat /\ g <= Len(origin[a])
    BY <2>1 DEF TypeOK
  <2>3. UNCHANGED store
    BY <1>4 DEF Promise!Issue
  <2>4. QED
    BY <1>2, <2>1, <2>2, <2>3
<1>5. ASSUME NEW a \in Accounts, Promise!Remove(a) \/ Promise!Switch(a) \/ Promise!Renew(a)
      PROVE  \A b \in Accounts : Numbered(b)'
  <2>1. UNCHANGED origin
    BY <1>5 DEF Promise!Remove, Promise!Switch, Promise!Renew
  <2>2. /\ \A b \in Accounts \ {a} : store'.accounts[b] = store.accounts[b]
        /\ store'.accounts[a] \in {store.accounts[a], Absent} \cup DOMAIN origin[a]
    BY <1>5 DEF Promise!Remove, Promise!Switch, Promise!Renew, TypeOK, Table
  <2>3. store'.accounts[a] <= Len(origin[a])
    BY <2>2 DEF Numbered, TypeOK, Absent
  <2>4. QED
    BY <2>1, <2>2, <2>3 DEF Numbered, Issued
<1>6. QED
  BY <1>1, <1>3, <1>4, <1>5 DEF Promise!Next, Promise!tvars

\* What the server issues: a login's credential, or the renewal of one that a
\* call had under way.
LEMMA OriginStep ==
    ASSUME TypeOK, [Next]_vars
    PROVE  \/ UNCHANGED origin
           \/ \E a \in Accounts : origin' = [origin EXCEPT ![a] = Append(@, Absent)]
           \/ \E t \in Tasks : pc[t] = "network" /\ pc'[t] # "network" /\ Issue(t)
<1>1. ASSUME NEW t \in Tasks, Renewed(t) \/ NetworkError(t) \/ Drop(t)
      PROVE  UNCHANGED origin \/ (pc[t] = "network" /\ pc'[t] # "network" /\ Issue(t))
  BY <1>1, FinishedLocals DEF Renewed, NetworkError, Drop, Goto, TypeOK
<1>2. ASSUME NEW t \in Tasks,
             \/ Call(t) \/ Lookup(t) \/ Acquire(t) \/ Read(t) \/ Commit(t) \/ Invalidate(t)
             \/ Unlock(t) \/ Cleanup(t) \/ Return(t) \/ ReadCurrent(t) \/ CheckExpired(t)
             \/ Get(t) \/ Still(t) \/ ReadApplied(t) \/ SetClient(t)
      PROVE  UNCHANGED origin
  BY <1>2 DEF Call, Lookup, Acquire, Read, Commit, Invalidate, Unlock, Cleanup, Return,
     ReadCurrent, CheckExpired, Get, Still, ReadApplied, SetClient, Quiet, server
<1>3. ASSUME NEW a \in Accounts, Remove(a) \/ SetCurrent(a) \/ Expire(a)
      PROVE  UNCHANGED origin
  BY <1>3 DEF Remove, SetCurrent, Expire, Elsewhere, server
<1>4. ASSUME NEW a \in Accounts, Add(a)
      PROVE  origin' = [origin EXCEPT ![a] = Append(@, Absent)]
  BY <1>4 DEF Add
<1>5. CASE Save \/ Restart \/ UNCHANGED vars
  BY <1>5 DEF Save, Restart, vars, server
<1>6. QED
  BY <1>1, <1>2, <1>3, <1>4, <1>5 DEF Next, Progress

LEMMA LostStep ==
    ASSUME TypeOK, NamedInv, [Next]_vars
    PROVE  \A a \in Accounts : lost[a] \subseteq lost'[a]
<1>1. ASSUME NEW t \in Tasks, NetworkError(t) \/ Drop(t) \/ Commit(t)
      PROVE  UNCHANGED lost \/ Lose(t)
  BY <1>1 DEF NetworkError, Drop, Commit
<1>2. ASSUME NEW t \in Tasks, Lose(t)
      PROVE  \A a \in Accounts : lost[a] \subseteq lost'[a]
  BY <1>2 DEF Lose, TypeOK
<1>3. ASSUME NEW t \in Tasks,
             \/ Call(t) \/ Lookup(t) \/ Acquire(t) \/ Read(t) \/ Renewed(t) \/ Invalidate(t)
             \/ Unlock(t) \/ Cleanup(t) \/ Return(t) \/ ReadCurrent(t) \/ CheckExpired(t)
             \/ Get(t) \/ Still(t) \/ ReadApplied(t) \/ SetClient(t)
      PROVE  UNCHANGED lost
  BY <1>3 DEF Call, Lookup, Acquire, Read, Renewed, Invalidate, Unlock, Cleanup, Return,
     ReadCurrent, CheckExpired, Get, Still, ReadApplied, SetClient, Quiet, server
<1>4. ASSUME NEW a \in Accounts, Add(a) \/ Remove(a) \/ SetCurrent(a) \/ Expire(a)
      PROVE  UNCHANGED lost
  BY <1>4 DEF Add, Remove, SetCurrent, Expire, Elsewhere, server
<1>5. CASE Restart
  BY <1>5 DEF Restart, TypeOK
<1>6. CASE Save \/ UNCHANGED vars
  BY <1>6 DEF Save, vars, server
<1>7. QED
  BY <1>1, <1>2, <1>3, <1>4, <1>5, <1>6 DEF Next, Progress

\* The credentials a step marks as renewed: none, or Absent, or what a call of
\* the account, now past its request, had sent.
Leaving(a) == {t \in Tasks : pc[t] = "network" /\ pc'[t] # "network" /\ call[t].account = a}

LEMMA Growth ==
    ASSUME TypeOK, NamedInv, [Next]_vars, NEW a \in Accounts
    PROVE  /\ Issued(a) \subseteq Issued(a)'
           /\ \A g \in Issued(a) : origin'[a][g] = origin[a][g]
           /\ Used(a) \subseteq Used(a)'
           /\ Used(a)' \subseteq Used(a) \cup {Absent} \cup {call[t].old : t \in Leaving(a)}
<1>1. CASE UNCHANGED origin
  BY <1>1 DEF Issued, Used
<1>2. ASSUME NEW b \in Accounts, NEW e \in Nat, origin' = [origin EXCEPT ![b] = Append(@, e)],
             b = a => e \in {Absent} \cup {call[t].old : t \in Leaving(a)}
      PROVE  /\ Issued(a) \subseteq Issued(a)'
             /\ \A g \in Issued(a) : origin'[a][g] = origin[a][g]
             /\ Used(a) \subseteq Used(a)'
             /\ Used(a)' \subseteq Used(a) \cup {Absent} \cup {call[t].old : t \in Leaving(a)}
  <2>1. CASE b = a
    <3>1. /\ Len(origin[a]) \in Nat /\ Len(origin'[a]) = Len(origin[a]) + 1
          /\ \A g \in Issued(a) : origin'[a][g] = origin[a][g]
          /\ Used(a)' = Used(a) \cup {e}
      BY <1>2, <2>1, OneMore
    <3>2. Issued(a) \subseteq Issued(a)'
      BY <3>1 DEF Issued
    <3>3. QED
      BY <1>2, <2>1, <3>1, <3>2
  <2>2. CASE b # a
    <3>1. origin'[a] = origin[a]
      BY <1>2, <2>2, OneMore
    <3>2. QED
      BY <3>1 DEF Issued, Used
  <2>3. QED
    BY <2>1, <2>2
<1>3. CASE \E b \in Accounts : origin' = [origin EXCEPT ![b] = Append(@, Absent)]
  BY <1>2, <1>3, AnswerTypes
<1>4. ASSUME NEW t \in Tasks, pc[t] = "network" /\ pc'[t] # "network" /\ Issue(t)
      PROVE  /\ Issued(a) \subseteq Issued(a)'
             /\ \A g \in Issued(a) : origin'[a][g] = origin[a][g]
             /\ Used(a) \subseteq Used(a)'
             /\ Used(a)' \subseteq Used(a) \cup {Absent} \cup {call[u].old : u \in Leaving(a)}
  <2>1. call[t].account \in Accounts /\ call[t].old \in Nat
    BY <1>4, CallOf, FieldType DEF NamedInv, Looking
  <2>2. call[t].account = a => t \in Leaving(a)
    BY <1>4 DEF Leaving
  <2>3. origin' = [origin EXCEPT ![call[t].account] = Append(@, call[t].old)]
    BY <1>4 DEF Issue
  <2>4. QED
    BY <1>2, <2>1, <2>2, <2>3
<1>5. QED
  BY <1>1, <1>3, <1>4, OriginStep

\* A step of one call moves no other.
LEMMA OthersWait ==
    ASSUME TypeOK, NEW t \in Tasks, NEW u \in Tasks, t # u, Call(t) \/ Progress(t) \/ Drop(t)
    PROVE  pc'[u] = pc[u] /\ call'[u] = call[u]
<1>1. CASE Read(t) \/ Renewed(t) \/ NetworkError(t) \/ Commit(t) \/ Invalidate(t)
  <2>1. call'[u] = call[u]
    BY <1>1, SameAccount DEF Read, Renewed, NetworkError, Commit, Invalidate
  <2>2. QED
    BY <1>1, <2>1 DEF Read, Renewed, NetworkError, Commit, Invalidate, Goto, TypeOK
<1>2. CASE Call(t) \/ Lookup(t) \/ Acquire(t) \/ Unlock(t) \/ Cleanup(t) \/ CheckExpired(t)
  BY <1>2 DEF Call, Lookup, Acquire, Unlock, Cleanup, CheckExpired, Goto, Local, TypeOK
<1>3. CASE Return(t) \/ ReadCurrent(t) \/ Get(t) \/ Still(t) \/ ReadApplied(t) \/ SetClient(t) \/ Drop(t)
  <2>1. CASE \E o : Finish(t, o)
    BY <2>1, FinishedLocals
  <2>2. CASE \E l, c : Goto(t, l) /\ Local(t, c)
    BY <2>2, OthersStay
  <2>3. CASE \E l : Goto(t, l) /\ UNCHANGED call
    BY <2>3 DEF Goto, TypeOK
  <2>4. (\E o : Finish(t, o)) \/ (\E l, c : Goto(t, l) /\ Local(t, c)) \/ (\E l : Goto(t, l) /\ UNCHANGED call)
    BY <1>3 DEF Return, ReadCurrent, Get, Still, ReadApplied, SetClient, Drop
  <2>5. QED
    BY <2>1, <2>2, <2>3, <2>4
<1>4. QED
  BY <1>1, <1>2, <1>3 DEF Progress

\* A call that has sent its credential, or has the answer, did so before this
\* step, or reads it, or gets the answer.
LEMMA StayBehind ==
    ASSUME TypeOK, [Next]_vars, NEW u \in Tasks, pc'[u] \in {"network", "commit"}
    PROVE  \/ pc'[u] = pc[u] /\ call'[u] = call[u]
           \/ Read(u) \/ Renewed(u)
<1>1. ASSUME NEW t \in Tasks, t # u, Call(t) \/ Progress(t) \/ Drop(t)
      PROVE  pc'[u] = pc[u] /\ call'[u] = call[u]
  BY <1>1, OthersWait
<1>2. ASSUME Call(u) \/ Progress(u) \/ Drop(u)
      PROVE  Read(u) \/ Renewed(u)
  <2>1. \A l \in Labels : Goto(u, l) => pc'[u] = l
    BY DEF Goto, TypeOK
  <2>2. ~(\E o : Finish(u, o))
    BY FinishedLocals
  <2>3. ~(Call(u) \/ Lookup(u) \/ Acquire(u) \/ NetworkError(u) \/ Commit(u) \/ Invalidate(u) \/ Unlock(u) \/ Cleanup(u))
    BY <2>1 DEF Call, Lookup, Acquire, NetworkError, Commit, Invalidate, Unlock, Cleanup, Labels
  <2>4. ~(Return(u) \/ ReadCurrent(u) \/ CheckExpired(u) \/ Get(u) \/ Still(u) \/ ReadApplied(u) \/ SetClient(u) \/ Drop(u))
    BY <2>1, <2>2 DEF Return, ReadCurrent, CheckExpired, Get, Still, ReadApplied, SetClient, Drop, Labels
  <2>5. QED
    BY <1>2, <2>3, <2>4 DEF Progress
<1>3. ASSUME NEW a \in Accounts, Add(a) \/ Remove(a) \/ SetCurrent(a) \/ Expire(a)
      PROVE  UNCHANGED <<pc, call>>
  BY <1>3 DEF Add, Remove, SetCurrent, Expire
<1>4. CASE Restart
  BY <1>4 DEF Restart
<1>5. CASE Save \/ UNCHANGED vars
  BY <1>5 DEF Save, vars
<1>6. QED
  BY <1>1, <1>2, <1>3, <1>4, <1>5 DEF Next

LEMMA IssuedStep ==
    ASSUME TypeOK, NamedInv, LockInv, IssuedInv, SameOnDisk, [Next]_vars
    PROVE  IssuedInv'
<1>1. \A a \in Accounts : Numbered(a)'
  BY StepRefines, NumberedStep DEF IssuedInv
<1>2. ASSUME NEW u \in Tasks, NEW a, a = call[u].account
      PROVE  Answered(u)'
  <2>1. CASE pc'[u] = pc[u] /\ call'[u] = call[u] /\ pc[u] \in {"network", "commit"}
    <3>1. a \in Accounts /\ Answered(u)
      BY <1>2, <2>1 DEF NamedInv, Looking, IssuedInv
    <3>2. /\ Issued(a) \subseteq Issued(a)'
          /\ \A g \in Issued(a) : origin'[a][g] = origin[a][g]
          /\ Used(a)' \subseteq Used(a) \cup {Absent} \cup {call[t].old : t \in Leaving(a)}
      BY <3>1, Growth
    <3>3. pc[u] = "commit" => Leaving(a) = {}
      <4>1. SUFFICES ASSUME pc[u] = "commit", NEW t \in Leaving(a)
                     PROVE  FALSE
        OBVIOUS
      <4>2. pc[t] = "network" /\ t \in Tasks /\ call[t].account = a
        BY DEF Leaving
      <4>3. t = u
        BY <1>2, <4>1, <4>2, OneHolder DEF OneRefresher, Guarded
      <4>4. QED
        BY <4>1, <4>2, <4>3
    <3>4. pc[u] = "commit" => call[u].credential # Absent
      BY <1>2, <3>1 DEF Answered, Issued, Absent
    <3>5. /\ pc[u] \in {"network", "commit"} => call[u].old \in Issued(a)'
          /\ pc[u] = "commit" =>
               /\ call[u].credential \in Issued(a)' /\ call[u].credential \notin Used(a)'
               /\ origin'[a][call[u].credential] = call[u].old
      BY <1>2, <3>1, <3>2, <3>3, <3>4 DEF Answered
    <3>6. QED
      BY <1>2, <2>1, <3>5 DEF Answered, Issued, Used
  <2>2. CASE Read(u)
    <3>1. /\ pc[u] = "read" /\ a \in Accounts /\ UNCHANGED origin
      BY <1>2, <2>2 DEF Read, Quiet, server, NamedInv, Looking
    <3>2. CASE pc'[u] = "network"
      <4>1. /\ Local(u, [call[u] EXCEPT !.old = Stored(a)]) /\ Stored(a) # Absent
        BY <1>2, <2>2, <3>2 DEF Read, Goto, TypeOK
      <4>2. call'[u].old = Stored(a) /\ call'[u].account = a
        BY <1>2, <4>1, CallOf DEF Local, TypeOK, Calls
      <4>3. Stored(a) \in Nat /\ Stored(a) # Absent /\ Stored(a) <= Len(origin[a])
        BY <3>1, <4>1, StoredType DEF IssuedInv, Numbered, Stored
      <4>4. Stored(a) \in 1 .. Len(origin'[a])
        BY <3>1, <4>3 DEF Absent, TypeOK
      <4>5. QED
        BY <3>2, <4>2, <4>4 DEF Answered, Issued
    <3>3. CASE pc'[u] # "network"
      <4>1. pc'[u] = "unlock"
        BY <2>2, <3>3 DEF Read, Goto, TypeOK
      <4>2. QED
        BY <4>1 DEF Answered
    <3>4. QED
      BY <3>2, <3>3
  <2>3. CASE Renewed(u)
    <3> DEFINE g == Len(origin[a]) + 1
    <3>1. /\ pc[u] = "network" /\ a \in Accounts /\ Answered(u)
          /\ origin' = [origin EXCEPT ![a] = Append(@, call[u].old)]
      BY <1>2, <2>3 DEF Renewed, Issue, NamedInv, Looking, IssuedInv
    <3>2. call[u].old \in Nat
      BY CallOf, FieldType
    <3>3. /\ Len(origin[a]) \in Nat /\ Len(origin'[a]) = g
          /\ origin'[a][g] = call[u].old
      BY <3>1, <3>2, OneMore
    <3>4. /\ call'[u].account = a /\ call'[u].old = call[u].old /\ call'[u].credential = g
          /\ pc'[u] = "commit"
      BY <1>2, <2>3, CallOf DEF Renewed, Local, Goto, TypeOK, Calls
    <3>5. g \in Issued(a)' /\ call[u].old \in Issued(a)'
      BY <1>2, <3>1, <3>3 DEF Answered, Issued
    <3>6. g \notin Used(a)'
      <4>1. \A h \in Issued(a)' : origin'[a][h] < h /\ h <= g /\ h \in Nat
        BY <1>1, <3>1, <3>3 DEF Numbered, Issued
      <4>2. \A h \in Issued(a)' : origin'[a][h] # g
        <5>1. SUFFICES ASSUME NEW h \in Issued(a)', origin'[a][h] = g
                       PROVE  FALSE
          OBVIOUS
        <5>2. g < h /\ h <= g /\ h \in Nat /\ g \in Nat
          BY <3>3, <4>1, <5>1
        <5>3. QED
          BY <5>2
      <4>3. QED
        BY <4>2 DEF Used
    <3> HIDE DEF g
    <3>7. QED
      BY <3>3, <3>4, <3>5, <3>6 DEF Answered, Issued, Used
  <2>4. CASE pc'[u] \notin {"network", "commit"}
    BY <2>4 DEF Answered
  <2>5. QED
    BY <2>1, <2>2, <2>3, <2>4, StayBehind
<1>3. QED
  BY <1>1, <1>2 DEF IssuedInv

-----------------------------------------------------------------------------
\* No renewed credential is sent again.

LEMMA ReuseStep ==
    ASSUME TypeOK, NamedInv, LockInv, IssuedInv, NoReuse, RenewalInv, [Next]_vars
    PROVE  NoReuse'
<1> SUFFICES ASSUME NEW u \in Tasks, pc'[u] = "network",
                    NEW a, a = call'[u].account, NEW g, g = call'[u].old
             PROVE  g \notin Used(a)' \ lost'[a]
  BY DEF NoReuse
<1>1. CASE pc'[u] = pc[u] /\ call'[u] = call[u]
  <2>1. pc[u] = "network" /\ a = call[u].account /\ g = call[u].old /\ a \in Accounts
    BY <1>1 DEF NamedInv, Looking
  <2>2. g \notin Used(a) \ lost[a]
    BY <2>1 DEF NoReuse
  <2>3. /\ Used(a)' \subseteq Used(a) \cup {Absent} \cup {call[t].old : t \in Leaving(a)}
        /\ lost[a] \subseteq lost'[a]
    BY <2>1, Growth, LostStep
  <2>4. Leaving(a) = {}
    <3>1. SUFFICES ASSUME NEW t \in Leaving(a)
                   PROVE  FALSE
      OBVIOUS
    <3>2. t \in Tasks /\ pc[t] = "network" /\ pc'[t] # "network" /\ call[t].account = a
      BY DEF Leaving
    <3>3. t = u
      BY <2>1, <3>2, OneHolder DEF OneRefresher, Guarded
    <3>4. QED
      BY <3>2, <3>3
  <2>5. g # Absent
    BY <2>1 DEF IssuedInv, Answered, Issued, Absent
  <2>6. QED
    BY <2>2, <2>3, <2>4, <2>5
<1>2. CASE Read(u)
  <2>1. /\ pc[u] = "read" /\ call[u].account \in Accounts
        /\ UNCHANGED <<origin, lost>> /\ Stored(call[u].account) # Absent
        /\ Local(u, [call[u] EXCEPT !.old = Stored(call[u].account)])
    BY <1>2 DEF Read, Quiet, server, NamedInv, Looking, Goto, TypeOK
  <2>2. a = call[u].account /\ g = store.accounts[a] /\ a \in Accounts /\ g # Absent
    BY <2>1, CallOf DEF Local, TypeOK, Calls, Stored
  <2>3. g \notin Used(a) \ lost[a]
    <3>1. SUFFICES ASSUME g \in Used(a) \ lost[a]
                   PROVE  FALSE
      OBVIOUS
    <3>2. PICK t \in Tasks : pc[t] = "commit" /\ call[t].account = a
      BY <2>2, <3>1 DEF RenewalInv
    <3>3. t = u
      BY <2>1, <2>2, <3>2, OneHolder DEF OneRefresher, Guarded
    <3>4. QED
      BY <2>1, <3>2, <3>3
  <2>4. QED
    BY <2>1, <2>3 DEF Used, Issued
<1>3. CASE Renewed(u)
  BY <1>3 DEF Renewed, Goto, TypeOK
<1>4. QED
  BY <1>1, <1>2, <1>3, StayBehind

\* What a step does to the tables of the store, by the calls that may do it.
LEMMA StoreStep ==
    ASSUME TypeOK, SameOnDisk, [Next]_vars
    PROVE  \/ store' = store
           \/ \E a \in Accounts : Add(a) \/ Remove(a) \/ SetCurrent(a)
           \/ \E t \in Tasks : Commit(t)
<1>1. ASSUME NEW t \in Tasks, Call(t) \/ Progress(t) \/ Drop(t), ~Commit(t)
      PROVE  store' = store
  BY <1>1 DEF Progress, Call, Lookup, Acquire, Read, Renewed, NetworkError, Invalidate, Unlock,
     Cleanup, Return, ReadCurrent, CheckExpired, Get, Still, ReadApplied, SetClient, Drop,
     Quiet, shared
<1>2. ASSUME NEW a \in Accounts, Expire(a)
      PROVE  store' = store
  BY <1>2 DEF Expire, shared
<1>3. CASE Restart \/ Save \/ UNCHANGED vars
  BY <1>3 DEF Restart, Save, SameOnDisk, vars, shared
<1>4. QED
  BY <1>1, <1>2, <1>3 DEF Next

\* A call that had the answer still has it, unless it commits it or the process
\* dies.
LEMMA CommitStays ==
    ASSUME TypeOK, [Next]_vars, NEW u \in Tasks, pc[u] = "commit"
    PROVE  \/ pc'[u] = "commit" /\ call'[u] = call[u]
           \/ Commit(u) \/ Restart
<1>1. ASSUME NEW t \in Tasks, t # u, Call(t) \/ Progress(t) \/ Drop(t)
      PROVE  pc'[u] = pc[u] /\ call'[u] = call[u]
  BY <1>1, OthersWait
<1>2. ASSUME Call(u) \/ Progress(u) \/ Drop(u)
      PROVE  Commit(u)
  BY <1>2 DEF Progress, Call, Lookup, Acquire, Read, Renewed, NetworkError, Invalidate, Unlock,
     Cleanup, Return, ReadCurrent, CheckExpired, Get, Still, ReadApplied, SetClient, Drop,
     AwaitPoints
<1>3. ASSUME NEW a \in Accounts, Add(a) \/ Remove(a) \/ SetCurrent(a) \/ Expire(a)
      PROVE  UNCHANGED <<pc, call>>
  BY <1>3 DEF Add, Remove, SetCurrent, Expire
<1>4. CASE Save \/ UNCHANGED vars
  BY <1>4 DEF Save, vars
<1>5. QED
  BY <1>1, <1>2, <1>3, <1>4 DEF Next

\* The table with the renewed credential in it.
LEMMA InsertedAt ==
    ASSUME TypeOK, NEW t \in Tasks, call[t].account \in Accounts
    PROVE  /\ Inserted(t).accounts[call[t].account] = call[t].credential
           /\ \A a \in Accounts \ {call[t].account} :
                Inserted(t).accounts[a] = store.accounts[a]
           /\ Inserted(t).current = store.current
<1>1. store.accounts \in [Accounts -> Nat] /\ DOMAIN store = {"accounts", "current"}
  BY DEF TypeOK, Table
<1>2. QED
  BY <1>1 DEF Inserted

\* A call whose request is over has the answer, or its renewal is lost.
LEMMA RequestOver ==
    ASSUME TypeOK, [Next]_vars, NEW t \in Tasks, pc[t] = "network", pc'[t] # "network"
    PROVE  Renewed(t) \/ Lose(t) \/ Restart
<1>1. ASSUME Call(t) \/ Progress(t) \/ Drop(t)
      PROVE  Renewed(t) \/ Lose(t)
  BY <1>1 DEF Progress, Call, Lookup, Acquire, Read, NetworkError, Commit, Invalidate, Unlock,
     Cleanup, Return, ReadCurrent, CheckExpired, Get, Still, ReadApplied, SetClient, Drop
<1>2. ASSUME NEW u \in Tasks, u # t, Call(u) \/ Progress(u) \/ Drop(u)
      PROVE  FALSE
  BY <1>2, OthersWait
<1>3. ASSUME NEW a \in Accounts, Add(a) \/ Remove(a) \/ SetCurrent(a) \/ Expire(a)
      PROVE  FALSE
  BY <1>3 DEF Add, Remove, SetCurrent, Expire
<1>4. CASE Save \/ UNCHANGED vars
  BY <1>4 DEF Save, vars
<1>5. QED
  BY <1>1, <1>2, <1>3, <1>4 DEF Next

LEMMA RenewalStep ==
    ASSUME TypeOK, NamedInv, LockInv, IssuedInv, RenewalInv, SameOnDisk, [Next]_vars
    PROVE  RenewalInv'
<1> SUFFICES ASSUME NEW a \in Accounts, NEW s, s = store'.accounts[a],
                    s \in Used(a)' \ lost'[a], s # Absent
             PROVE  \E t \in Tasks : pc'[t] = "commit" /\ call'[t].account = a /\ call'[t].old = s
  BY DEF RenewalInv, Absent
<1>1. s \notin lost[a]
  BY LostStep
<1>2. CASE s = store.accounts[a] /\ s \in Used(a)
  <2>1. PICK t \in Tasks : pc[t] = "commit" /\ call[t].account = a /\ call[t].old = s
    BY <1>1, <1>2 DEF RenewalInv
  <2>2. ~Commit(t)
    <3>1. SUFFICES ASSUME Commit(t)
                   PROVE  FALSE
      OBVIOUS
    <3>2. call[t].credential \notin Used(a)
      BY <2>1 DEF IssuedInv, Answered
    <3>3. \/ store' = Inserted(t)
          \/ Lose(t)
      BY <1>2, <2>1, <3>1 DEF Commit, Write, Stored
    <3>4. store' # Inserted(t)
      BY <1>2, <2>1, <3>2, InsertedAt
    <3>5. ~Lose(t)
      BY <2>1 DEF Lose, TypeOK
    <3>6. QED
      BY <3>3, <3>4, <3>5
  <2>3. ~Restart
    BY <2>1 DEF Restart
  <2>4. QED
    BY <2>1, <2>2, <2>3, CommitStays
<1>3. CASE s = store.accounts[a] /\ s \notin Used(a)
  <2>1. PICK t \in Leaving(a) : s = call[t].old
    BY <1>3, Growth
  <2>2. t \in Tasks /\ pc[t] = "network" /\ pc'[t] # "network" /\ call[t].account = a
    BY <2>1 DEF Leaving
  <2>3. ~Lose(t)
    BY <2>1, <2>2 DEF Lose, TypeOK
  <2>4. ~Restart
    <3>1. Restart => UNCHANGED origin
      BY DEF Restart
    <3>2. UNCHANGED origin => Used(a)' = Used(a)
      BY DEF Used, Issued
    <3>3. QED
      BY <1>3, <3>1, <3>2
  <2>5. Renewed(t)
    BY <2>2, <2>3, <2>4, RequestOver
  <2>6. pc'[t] = "commit" /\ call'[t].account = a /\ call'[t].old = s
    BY <2>1, <2>2, <2>5, CallOf DEF Renewed, Goto, Local, TypeOK, Calls
  <2>7. QED
    BY <2>2, <2>6
<1>4. CASE s # store.accounts[a]
  <2>1. ASSUME NEW b \in Accounts, Add(b)
        PROVE  FALSE
    <3>1. /\ b = a /\ s = Len(origin[a]) + 1
          /\ origin' = [origin EXCEPT ![a] = Append(@, Absent)]
      <4>1. store.accounts \in [Accounts -> Nat]
        BY DEF TypeOK, Table
      <4>2. store'.accounts = [store.accounts EXCEPT ![b] = Len(origin[b]) + 1] \/ store' = store
        BY <2>1 DEF Add, Write
      <4>3. QED
        BY <1>4, <2>1, <4>1, <4>2 DEF Add
    <3>2. Len(origin[a]) \in Nat /\ Len(origin'[a]) = s
      BY <3>1, OneMore, AnswerTypes
    <3>3. Numbered(a)'
      BY StepRefines, NumberedStep DEF IssuedInv
    <3>4. PICK h \in 1 .. Len(origin'[a]) : origin'[a][h] = s
      BY DEF Used, Issued
    <3>5. s < h /\ h <= s /\ h \in Nat /\ s \in Nat
      BY <3>1, <3>2, <3>3, <3>4 DEF Numbered, Issued
    <3>6. QED
      BY <3>5
  <2>2. ASSUME NEW b \in Accounts, Remove(b)
        PROVE  FALSE
    BY <1>4, <2>2 DEF Remove, Write, TypeOK, Table
  <2>3. ASSUME NEW b \in Accounts, SetCurrent(b)
        PROVE  FALSE
    BY <1>4, <2>3 DEF SetCurrent, Write, TypeOK, Table
  <2>4. ASSUME NEW t \in Tasks, Commit(t)
        PROVE  FALSE
    <3>1. pc[t] = "commit" /\ UNCHANGED origin /\ store' = Inserted(t)
      BY <1>4, <2>4 DEF Commit, Write
    <3>2. call[t].account = a /\ s = call[t].credential
      BY <1>4, <3>1 DEF Inserted, TypeOK, Table
    <3>3. s \notin Used(a)
      BY <3>1, <3>2 DEF IssuedInv, Answered
    <3>4. QED
      BY <3>1, <3>3 DEF Used, Issued
  <2>5. QED
    BY <1>4, <2>1, <2>2, <2>3, <2>4, StoreStep
<1>5. QED
  BY <1>2, <1>3, <1>4

-----------------------------------------------------------------------------
\* Memory, backend and the current account.

LEMMA SameStep ==
    ASSUME SameOnDisk, [Next]_vars
    PROVE  SameOnDisk'
<1>1. ASSUME NEW next, NEW ok, Write(next, ok)
      PROVE  SameOnDisk'
  BY <1>1 DEF Write, SameOnDisk
<1>2. ASSUME UNCHANGED <<store, disk>>
      PROVE  SameOnDisk'
  BY <1>2 DEF SameOnDisk
<1>3. ASSUME NEW t \in Tasks, Call(t) \/ Progress(t) \/ Drop(t), ~Commit(t)
      PROVE  UNCHANGED <<store, disk>>
  BY <1>3 DEF Progress, Call, Lookup, Acquire, Read, Renewed, NetworkError, Invalidate, Unlock,
     Cleanup, Return, ReadCurrent, CheckExpired, Get, Still, ReadApplied, SetClient, Drop,
     Quiet, shared
<1>4. ASSUME NEW t \in Tasks, Commit(t)
      PROVE  SameOnDisk'
  BY <1>1, <1>2, <1>4 DEF Commit
<1>5. ASSUME NEW a \in Accounts, Add(a) \/ Remove(a) \/ SetCurrent(a)
      PROVE  SameOnDisk'
  BY <1>1, <1>5 DEF Add, Remove, SetCurrent
<1>6. ASSUME NEW a \in Accounts, Expire(a)
      PROVE  SameOnDisk'
  BY <1>2, <1>6 DEF Expire, shared
<1>7. CASE Save \/ Restart \/ UNCHANGED vars
  BY <1>2, <1>7 DEF Save, Restart, SameOnDisk, vars, shared
<1>8. QED
  BY <1>2, <1>3, <1>4, <1>5, <1>6, <1>7 DEF Next

LEMMA CurrentAdd ==
    ASSUME TypeOK, CurrentInStore, NEW a \in Accounts, Add(a)
    PROVE  CurrentInStore'
<1>1. CASE store' = store
  BY <1>1 DEF CurrentInStore, Present
<1>2. CASE store' = [accounts |-> [store.accounts EXCEPT ![a] = Len(origin[a]) + 1],
                     current |-> IF Present(store) = {} THEN a ELSE store.current]
  <2>1. Len(origin[a]) + 1 # Absent
    <3>1. origin[a] \in Seq(Nat)
      BY DEF TypeOK
    <3>2. Len(origin[a]) \in Nat
      BY <3>1
    <3>3. QED
      BY <3>2 DEF Absent
  <2>2. store.accounts \in [Accounts -> Nat]
    BY DEF TypeOK, Table
  <2>3. Present(store)' = Present(store) \cup {a}
    BY <1>2, <2>1, <2>2 DEF Present
  <2>4. store'.current = IF Present(store) = {} THEN a ELSE store.current
    BY <1>2
  <2>5. QED
    BY <2>3, <2>4 DEF CurrentInStore
<1>3. QED
  BY <1>1, <1>2 DEF Add, Write

LEMMA CurrentRemove ==
    ASSUME TypeOK, CurrentInStore, NEW a \in Accounts, Remove(a)
    PROVE  CurrentInStore'
<1> DEFINE left == Present(store) \ {a}
           next == IF store.current = a THEN First(left) ELSE store.current
<1>1. CASE store' = store
  BY <1>1 DEF CurrentInStore, Present
<1>2. CASE store' = [accounts |-> [store.accounts EXCEPT ![a] = Absent], current |-> next]
  <2>1. store.accounts \in [Accounts -> Nat] /\ a \in Present(store)
    BY DEF Remove, TypeOK, Table
  <2>2. Present(store)' = left /\ store'.current = next
    BY <1>2, <2>1 DEF Present
  <2>3. left = {} => next = NoAccount
    BY <2>1 DEF First, CurrentInStore
  <2>4. left # {} => next \in left
    <3>1. left \in SUBSET Accounts
      BY DEF Present
    <3>2. left # {} => First(left) \in left
      BY <3>1, FirstOfThem
    <3>3. store.current \in Present(store)
      BY <2>1 DEF CurrentInStore
    <3>4. QED
      BY <3>2, <3>3
  <2> HIDE DEF left, next
  <2>5. QED
    BY <2>2, <2>3, <2>4 DEF CurrentInStore
<1>3. QED
  BY <1>1, <1>2 DEF Remove, Write

LEMMA CurrentSet ==
    ASSUME TypeOK, CurrentInStore, NEW a \in Accounts, SetCurrent(a)
    PROVE  CurrentInStore'
<1>1. store' = store \/ store' = [store EXCEPT !.current = a]
  BY DEF SetCurrent, Write
<1>2. store'.accounts = store.accounts /\ store'.current \in {store.current, a}
  BY <1>1 DEF TypeOK, Table
<1>3. Present(store)' = Present(store) /\ a \in Present(store)
  BY <1>2 DEF Present, SetCurrent
<1>4. QED
  BY <1>2, <1>3 DEF CurrentInStore

LEMMA CurrentCommit ==
    ASSUME TypeOK, NamedInv, IssuedInv, CurrentInStore, NEW t \in Tasks, Commit(t)
    PROVE  CurrentInStore'
<1>1. pc[t] = "commit" /\ call[t].account \in Accounts
  BY DEF Commit, NamedInv, Looking
<1>2. CASE store' = store
  BY <1>2 DEF CurrentInStore, Present
<1>3. CASE store' = Inserted(t) /\ store.accounts[call[t].account] # Absent
  <2>1. call[t].credential # Absent
    BY <1>1 DEF IssuedInv, Answered, Issued, Absent
  <2>2. Present(store)' = Present(store) /\ store'.current = store.current
    BY <1>1, <1>3, <2>1, InsertedAt DEF Present
  <2>3. QED
    BY <2>2 DEF CurrentInStore
<1>4. QED
  BY <1>2, <1>3 DEF Commit, Write, Stored

LEMMA CurrentStep ==
    ASSUME TypeOK, NamedInv, IssuedInv, SameOnDisk, CurrentInStore, [Next]_vars
    PROVE  CurrentInStore'
<1>1. CASE store' = store
  BY <1>1 DEF CurrentInStore, Present
<1>2. QED
  BY <1>1, StoreStep, CurrentAdd, CurrentRemove, CurrentSet, CurrentCommit

-----------------------------------------------------------------------------
\* The turns of ensure_current.

\* A change of the current account is counted.
LEMMA SwitchStep ==
    ASSUME TypeOK, NamedInv, SameOnDisk, [Next]_vars
    PROVE  /\ switches' \in {switches, switches + 1}
           /\ store'.current # store.current => switches' = switches + 1
<1>1. ASSUME NEW next, NEW ok, Write(next, ok)
      PROVE  /\ switches' \in {switches, switches + 1}
             /\ store'.current # store.current => switches' = switches + 1
  BY <1>1 DEF Write
<1>2. ASSUME UNCHANGED <<store, switches>>
      PROVE  /\ switches' \in {switches, switches + 1}
             /\ store'.current # store.current => switches' = switches + 1
  BY <1>2
<1>3. ASSUME NEW t \in Tasks, Call(t) \/ Progress(t) \/ Drop(t), ~Commit(t)
      PROVE  UNCHANGED <<store, switches>>
  BY <1>3 DEF Progress, Call, Lookup, Acquire, Read, Renewed, NetworkError, Invalidate, Unlock,
     Cleanup, Return, ReadCurrent, CheckExpired, Get, Still, ReadApplied, SetClient, Drop,
     Quiet, shared, environment
<1>4. ASSUME NEW t \in Tasks, Commit(t)
      PROVE  UNCHANGED <<store, switches>> \/ Write(Inserted(t), TRUE) \/ Write(Inserted(t), FALSE)
  BY <1>4 DEF Commit
<1>5. ASSUME NEW a \in Accounts, Add(a) \/ Remove(a) \/ SetCurrent(a)
      PROVE  \E next, ok : Write(next, ok)
  BY <1>5 DEF Add, Remove, SetCurrent
<1>6. ASSUME NEW a \in Accounts, Expire(a)
      PROVE  UNCHANGED <<store, switches>>
  BY <1>6 DEF Expire, shared, environment
<1>7. CASE Save \/ Restart \/ UNCHANGED vars
  BY <1>2, <1>7 DEF Save, Restart, SameOnDisk, vars, shared, environment
<1>8. QED
  BY <1>1, <1>2, <1>3, <1>4, <1>5, <1>6, <1>7 DEF Next

\* A commit leaves the current account as it is, and so does every other step
\* of a call.
LEMMA CallSwitches ==
    ASSUME TypeOK, NamedInv, NEW t \in Tasks, Call(t) \/ Progress(t) \/ Drop(t)
    PROVE  store'.current = store.current /\ switches' = switches
<1>1. CASE Commit(t)
  <2>1. call[t].account \in Accounts
    BY <1>1 DEF Commit, NamedInv, Looking
  <2>2. Inserted(t).current = store.current
    BY <2>1, InsertedAt
  <2>3. QED
    BY <1>1, <2>2 DEF Commit, Write
<1>2. CASE ~Commit(t)
  BY <1>2 DEF Progress, Call, Lookup, Acquire, Read, Renewed, NetworkError, Invalidate, Unlock,
     Cleanup, Return, ReadCurrent, CheckExpired, Get, Still, ReadApplied, SetClient, Drop,
     Quiet, shared, environment
<1>3. QED
  BY <1>1, <1>2

LEMMA CountType ==
    ASSUME TypeOK, NEW t \in Tasks
    PROVE  began[t] \in Nat /\ call[t].turn \in Nat /\ switches \in Nat
<1>1. call[t].turn \in 0 .. MaxTurns - 1
  BY CallOf, FieldType
<1>2. call[t].turn \in Nat
  BY <1>1, TurnsType
<1>3. QED
  BY <1>2 DEF TypeOK

\* A call that does not move, whatever the others do.
LEMMA StandingTurn ==
    ASSUME TypeOK, TurnInv, NEW u \in Tasks,
           pc'[u] = pc[u], call'[u] = call[u], began'[u] = began[u],
           switches' \in {switches, switches + 1},
           store'.current # store.current => switches' = switches + 1
    PROVE  TurnCounted(u)'
<1>1. began[u] \in Nat /\ call[u].turn \in Nat /\ switches \in Nat
  BY CountType
<1>2. TurnCounted(u)
  BY DEF TurnInv
<1>3. began[u] + call[u].turn <= switches => began[u] + call[u].turn <= switches'
  BY <1>1
<1>4. began[u] + call[u].turn < switches => began[u] + call[u].turn < switches'
  BY <1>1
<1>5. began[u] + call[u].turn <= switches => began[u] + call[u].turn < switches + 1
  BY <1>1
<1>6. QED
  BY <1>2, <1>3, <1>4, <1>5 DEF TurnCounted

\* A call that moves within its turn.
LEMMA MovingTurn ==
    ASSUME TurnInv, NEW t \in Tasks, store'.current = store.current, switches' = switches,
           began'[t] = began[t], pc[t] \in Looking, pc'[t] \in Looking,
           call'[t].account = call[t].account, call'[t].turn = call[t].turn,
           pc'[t] \in {"check", "get", "still"} => t \in Ensurers
    PROVE  TurnCounted(t)'
<1>1. TurnCounted(t) /\ pc'[t] # "current"
  BY DEF TurnInv, Looking
<1>2. QED
  BY <1>1 DEF TurnCounted

\* A call that has ended, or is to set the Client.
LEMMA NoTurn ==
    ASSUME NEW t \in Tasks, pc'[t] \in {"idle", "apply", "set", "done"}
    PROVE  TurnCounted(t)'
  BY DEF TurnCounted, Looking

LEMMA OwnTurn ==
    ASSUME TypeOK, NamedInv, TurnInv, NEW t \in Tasks, Call(t) \/ Progress(t) \/ Drop(t)
    PROVE  TurnCounted(t)'
<1>1. store'.current = store.current /\ switches' = switches
  BY CallSwitches
<1>2. TurnCounted(t)
  BY DEF TurnInv
<1>3. ASSUME \E o : Finish(t, o)
      PROVE  TurnCounted(t)'
  BY <1>3, FinishedLocals, NoTurn
<1>4. CASE Call(t)
  <2>1. CASE t \in Refreshers /\ Goto(t, "lookup")
    BY <2>1, StoreAssumption DEF TurnCounted, Goto, TypeOK
  <2>2. CASE t \in Ensurers /\ Local(t, NoCall) /\ Goto(t, "current")
    <3>1. /\ pc'[t] = "current" /\ call'[t].turn = 0 /\ began'[t] = switches /\ switches \in Nat
      BY <1>4, <2>2 DEF Call, Local, Goto, NoCall, TypeOK
    <3>2. began'[t] + call'[t].turn <= switches'
      BY <1>1, <3>1
    <3>3. QED
      BY <2>2, <3>1, <3>2 DEF TurnCounted, Looking
  <2>3. CASE Goto(t, "apply")
    BY <2>3, NoTurn DEF Goto, TypeOK
  <2>4. QED
    BY <1>4, <2>1, <2>2, <2>3 DEF Call
<1>5. CASE Read(t) \/ Renewed(t) \/ NetworkError(t) \/ Commit(t) \/ Invalidate(t)
  <2>1. call'[t].account = call[t].account /\ call'[t].turn = call[t].turn
    BY <1>5, SameAccount DEF Read, Renewed, NetworkError, Commit, Invalidate
  <2>2. /\ pc[t] \in Looking /\ pc'[t] \in {"network", "commit", "invalidate", "unlock"}
        /\ began'[t] = began[t]
    BY <1>5 DEF Read, Renewed, NetworkError, Commit, Invalidate, Goto, TypeOK, Quiet, Looking
  <2>3. QED
    BY <1>1, <2>1, <2>2, MovingTurn DEF Looking
<1>6. CASE Lookup(t) \/ Acquire(t) \/ Unlock(t) \/ Cleanup(t) \/ CheckExpired(t)
  <2>1. /\ pc[t] \in Looking /\ UNCHANGED <<call, began>>
        /\ pc'[t] \in {"wait", "read", "cleanup", "return", "lookup", "get"}
        /\ pc'[t] = "get" => pc[t] = "check"
    BY <1>6 DEF Lookup, Acquire, Unlock, Cleanup, CheckExpired, Goto, TypeOK, Quiet, Looking
  <2>2. QED
    BY <1>1, <1>2, <2>1, MovingTurn DEF Looking, TurnCounted
<1>7. CASE Return(t)
  <2>1. CASE t \in Ensurers /\ Goto(t, "still") /\ UNCHANGED <<call, began>>
    BY <1>1, <1>7, <2>1, MovingTurn DEF Return, Goto, TypeOK, Looking
  <2>2. QED
    BY <1>3, <1>7, <2>1 DEF Return
<1>8. CASE ReadCurrent(t)
  <2> DEFINE c == [NoCall EXCEPT !.turn = call[t].turn, !.account = store.current]
  <2>1. CASE Local(t, c) /\ Goto(t, "check") /\ UNCHANGED began
    <3>1. c.turn = call[t].turn /\ c.account = store.current
      BY DEF NoCall
    <3>2. call'[t] = c /\ pc'[t] = "check" /\ pc[t] = "current" /\ began'[t] = began[t]
      BY <1>8, <2>1 DEF ReadCurrent, Local, Goto, TypeOK
    <3> HIDE DEF c
    <3>3. t \in Ensurers /\ began[t] + call[t].turn <= switches
      BY <1>2, <3>2 DEF TurnCounted
    <3>4. QED
      BY <1>1, <3>1, <3>2, <3>3 DEF TurnCounted
  <2>2. QED
    BY <1>3, <1>8, <2>1 DEF ReadCurrent
<1>9. CASE Get(t)
  <2> DEFINE c == [call[t] EXCEPT !.credential = Stored(call[t].account)]
  <2>1. CASE Local(t, c) /\ Goto(t, "still") /\ UNCHANGED began
    <3>1. call'[t].account = call[t].account /\ call'[t].turn = call[t].turn
      BY <2>1, SameAccount
    <3>2. pc[t] = "get" /\ pc'[t] = "still" /\ began'[t] = began[t]
      BY <1>9, <2>1 DEF Get, Goto, TypeOK
    <3>3. QED
      BY <1>1, <1>2, <3>1, <3>2, MovingTurn DEF TurnCounted, Looking
  <2>2. QED
    BY <1>3, <1>9, <2>1 DEF Get
<1>10. CASE Still(t)
  <2>1. CASE Goto(t, "set")
    BY <2>1, NoTurn DEF Goto, TypeOK
  <2>2. CASE /\ store.current # call[t].account
             /\ Local(t, [NoCall EXCEPT !.turn = call[t].turn + 1]) /\ Goto(t, "current")
             /\ UNCHANGED began
    <3>1. pc[t] = "still" /\ pc'[t] = "current" /\ began'[t] = began[t]
      BY <1>10, <2>2 DEF Still, Goto, TypeOK
    <3>2. call'[t].turn = call[t].turn + 1
      BY <2>2 DEF Local, TypeOK, NoCall
    <3>3. t \in Ensurers /\ began[t] + call[t].turn < switches
      BY <1>2, <2>2, <3>1 DEF TurnCounted, Looking
    <3>4. began[t] + (call[t].turn + 1) <= switches
      <4>1. began[t] \in Nat /\ call[t].turn \in Nat /\ switches \in Nat
        BY CountType
      <4>2. QED
        BY <3>3, <4>1
    <3>5. QED
      BY <1>1, <3>1, <3>2, <3>3, <3>4 DEF TurnCounted, Looking
  <2>3. QED
    BY <1>3, <1>10, <2>1, <2>2 DEF Still
<1>11. CASE ReadApplied(t) \/ SetClient(t) \/ Drop(t)
  <2>1. (\E o : Finish(t, o)) \/ Goto(t, "set")
    BY <1>11 DEF ReadApplied, SetClient, Drop
  <2>2. Goto(t, "set") => pc'[t] = "set"
    BY DEF Goto, TypeOK
  <2>3. QED
    BY <1>3, <2>1, <2>2, NoTurn
<1>12. QED
  BY <1>4, <1>5, <1>6, <1>7, <1>8, <1>9, <1>10, <1>11 DEF Progress

LEMMA BeganStays ==
    ASSUME TypeOK, NEW t \in Tasks, NEW u \in Tasks, t # u, Call(t) \/ Progress(t) \/ Drop(t)
    PROVE  began'[u] = began[u]
<1>1. CASE \E o : Finish(t, o)
  BY <1>1, FinishedLocals
<1>2. CASE UNCHANGED began
  BY <1>2
<1>3. CASE began' = [began EXCEPT ![t] = switches]
  BY <1>3 DEF TypeOK
<1>4. QED
  BY <1>1, <1>2, <1>3 DEF Progress, Call, Lookup, Acquire, Read, Renewed, NetworkError, Commit,
     Invalidate, Unlock, Cleanup, Return, ReadCurrent, CheckExpired, Get, Still, ReadApplied,
     SetClient, Drop, Quiet

LEMMA TurnStep ==
    ASSUME TypeOK, NamedInv, SameOnDisk, TurnInv, [Next]_vars
    PROVE  TurnInv'
<1> SUFFICES ASSUME NEW u \in Tasks
             PROVE  TurnCounted(u)'
  BY DEF TurnInv
<1>1. ASSUME NEW t \in Tasks, Call(t) \/ Progress(t) \/ Drop(t)
      PROVE  TurnCounted(u)'
  <2>1. CASE t = u
    BY <1>1, <2>1, OwnTurn
  <2>2. CASE t # u
    <3>1. pc'[u] = pc[u] /\ call'[u] = call[u] /\ began'[u] = began[u]
      BY <1>1, <2>2, OthersWait, BeganStays
    <3>2. QED
      BY <3>1, SwitchStep, StandingTurn
  <2>3. QED
    BY <2>1, <2>2
<1>2. ASSUME UNCHANGED <<pc, call, began>>
      PROVE  TurnCounted(u)'
  BY <1>2, SwitchStep, StandingTurn
<1>3. ASSUME NEW a \in Accounts, Add(a) \/ Remove(a) \/ SetCurrent(a) \/ Expire(a)
      PROVE  UNCHANGED <<pc, call, began>>
  BY <1>3 DEF Add, Remove, SetCurrent, Expire, Elsewhere
<1>4. CASE Save \/ UNCHANGED vars
  BY <1>2, <1>4 DEF Save, vars
<1>5. CASE Restart
  <2>1. pc'[u] \in {"idle", "done"}
    BY <1>5 DEF Restart
  <2>2. QED
    BY <2>1, NoTurn
<1>6. QED
  BY <1>1, <1>2, <1>3, <1>4, <1>5 DEF Next

LEMMA LastTurn ==
    ASSUME NEW b \in Nat, NEW i \in Nat, NEW s \in Nat, NEW m, m = i + 1, b + i < s
    PROVE  b + m <= s
  OBVIOUS

\* Only the end of the loop answers "changed repeatedly".
LEMMA GivesUpStep ==
    ASSUME TypeOK, NamedInv, TurnInv, [Next]_vars, NEW t \in Tasks,
           result[t] = "none", result'[t] = "changed repeatedly"
    PROVE  began[t] + MaxTurns <= switches
<1>1. ASSUME NEW u \in Tasks, NEW o \in Outcomes \ {"changed repeatedly"}, Finish(u, o)
      PROVE  FALSE
  BY <1>1, FinishedLocals
<1>2. ASSUME UNCHANGED result
      PROVE  FALSE
  BY <1>2
<1>3. ASSUME NEW u \in Tasks, Call(u) \/ Progress(u) \/ Drop(u), ~Still(u)
      PROVE  FALSE
  <2>1. call[u].outcome \in Outcomes \ {"changed repeatedly"}
    BY CallOf, FieldType DEF Outcomes, Answers
  <2>2. UNCHANGED result \/ \E o \in Outcomes \ {"changed repeatedly"} : Finish(u, o)
    <3>1. CASE \/ Call(u) \/ Lookup(u) \/ Acquire(u) \/ Read(u) \/ Renewed(u) \/ NetworkError(u)
               \/ Commit(u) \/ Invalidate(u) \/ Unlock(u) \/ Cleanup(u) \/ CheckExpired(u)
      BY <3>1 DEF Call, Lookup, Acquire, Read, Renewed, NetworkError, Commit, Invalidate, Unlock,
         Cleanup, CheckExpired, Quiet
    <3>2. CASE Return(u)
      BY <2>1, <3>2 DEF Return
    <3>3. CASE ReadCurrent(u) \/ Get(u) \/ ReadApplied(u) \/ SetClient(u) \/ Drop(u)
      BY <3>3, OutcomeTypes DEF ReadCurrent, Get, ReadApplied, SetClient, Drop
    <3>4. QED
      BY <1>3, <3>1, <3>2, <3>3 DEF Progress
  <2>3. QED
    BY <1>1, <1>2, <2>2
<1>4. ASSUME NEW a \in Accounts, Add(a) \/ Remove(a) \/ SetCurrent(a) \/ Expire(a)
      PROVE  UNCHANGED result
  BY <1>4 DEF Add, Remove, SetCurrent, Expire, Elsewhere
<1>5. Save \/ UNCHANGED vars => UNCHANGED result
  BY DEF Save, vars
<1>6. ~Restart
  BY DEF Restart, TypeOK
<1>7. PICK u \in Tasks : Still(u)
  BY <1>2, <1>3, <1>4, <1>5, <1>6 DEF Next
<1>8. u = t /\ pc[t] = "still" /\ call[t].turn + 1 = MaxTurns /\ store.current # call[t].account
  <2>1. CASE Finish(u, "changed repeatedly")
    BY <1>7, <2>1, FinishedLocals, <1>2 DEF Still
  <2>2. CASE UNCHANGED result
    BY <1>2, <2>2
  <2>3. QED
    BY <1>7, <2>1, <2>2 DEF Still
<1>9. began[t] + call[t].turn < switches
  BY <1>8 DEF TurnInv, TurnCounted, Looking
<1>10. began[t] \in Nat /\ call[t].turn \in Nat /\ switches \in Nat /\ MaxTurns \in Nat
  BY CountType, TurnsType
<1>11. MaxTurns = call[t].turn + 1
  BY <1>8
<1>12. QED
  BY <1>9, <1>10, <1>11, LastTurn

-----------------------------------------------------------------------------
\* Results

LEMMA InitInv == Init => IInv
<1> SUFFICES ASSUME Init
             PROVE  IInv
  OBVIOUS
<1>1. NamedInv /\ LockInv
  BY InitType, LockInit
<1>2. \A t \in Tasks : pc[t] = "idle"
  BY DEF Init
<1>3. IssuedInv
  <2>1. \A a \in Accounts : Len(origin[a]) = 1 /\ origin[a][1] = 0
    BY DEF Init, Absent
  <2>2. \A a \in Accounts : store.accounts[a] \in {0, 1}
    BY DEF Init, Absent
  <2>3. \A a \in Accounts : Numbered(a)
    BY <2>1, <2>2 DEF Numbered, Issued
  <2>4. QED
    BY <1>2, <2>3 DEF IssuedInv, Answered
<1>4. NoReuse
  BY <1>2 DEF NoReuse
<1>5. RenewalInv
  <2>1. \A a \in Accounts : Used(a) = {Absent}
    BY DEF Init, Used, Issued
  <2>2. QED
    BY <2>1 DEF RenewalInv
<1>6. SameOnDisk /\ CurrentInStore
  BY DEF Init, SameOnDisk, CurrentInStore
<1>7. TurnInv
  BY <1>2 DEF TurnInv, TurnCounted, Looking
<1>8. QED
  BY <1>1, <1>3, <1>4, <1>5, <1>6, <1>7 DEF IInv

LEMMA StepInv == TypeOK /\ IInv /\ [Next]_vars => IInv'
<1> SUFFICES ASSUME TypeOK, IInv, [Next]_vars
             PROVE  IInv'
  OBVIOUS
<1>1. /\ NamedInv /\ LockInv /\ IssuedInv /\ NoReuse /\ RenewalInv
      /\ SameOnDisk /\ CurrentInStore /\ TurnInv
  BY DEF IInv
<1>2. NamedInv' /\ LockInv'
  BY <1>1, TypeStep, LockStep
<1>3. IssuedInv' /\ NoReuse' /\ RenewalInv'
  BY <1>1, IssuedStep, ReuseStep, RenewalStep
<1>4. SameOnDisk' /\ CurrentInStore' /\ TurnInv'
  BY <1>1, SameStep, CurrentStep, TurnStep
<1>5. QED
  BY <1>2, <1>3, <1>4 DEF IInv

\* The inductive invariant of the store (IInv): locks, numbers, renewals and
\* turns hold in every state that refresh and ensure_current reach.
THEOREM Invariance == Spec => [](TypeOK /\ IInv)
<1>1. Init => TypeOK /\ IInv
  BY InitType, InitInv
<1>2. TypeOK /\ IInv /\ [Next]_vars => TypeOK' /\ IInv'
  BY TypeStep, StepInv DEF IInv
<1>3. QED
  BY <1>1, <1>2, PTL DEF Spec

\* No call of refresh sends a refresh_token that the server has rotated, unless
\* the answer was lost (NoReuse, credential_store.rs:318-332).
THEOREM NoReuseHolds == Spec => []NoReuse
<1>1. IInv => NoReuse
  BY DEF IInv
<1>2. QED
  BY <1>1, Invariance, PTL

\* Memory is what the backend has, after every write that fails and every crash
\* (SameOnDisk, credential_store.rs:203-273).
THEOREM SameOnDiskHolds == Spec => []SameOnDisk
<1>1. IInv => SameOnDisk
  BY DEF IInv
<1>2. QED
  BY <1>1, Invariance, PTL

\* The current account is one of the store's, and there is one unless the store
\* is empty (CurrentInStore, credential_store.rs:218-273).
THEOREM CurrentHolds == Spec => []CurrentInStore
<1>1. IInv => CurrentInStore
  BY DEF IInv
<1>2. QED
  BY <1>1, Invariance, PTL

\* ensure_current gives up only after MAX_CURRENT_RETRIES changes of the current
\* account (GivesUpForCause, credential_store.rs:361-388).
THEOREM GivesUpHolds == Spec => GivesUpForCause
<1>1. TypeOK /\ IInv /\ [Next]_vars =>
        [\A t \in Tasks : result[t] = "none" /\ result'[t] = "changed repeatedly" =>
             began[t] + MaxTurns <= switches]_vars
  BY GivesUpStep DEF IInv
<1>2. QED
  BY <1>1, Invariance, PTL DEF Spec, GivesUpForCause

\* The store implements AccountTable (RenewsOnly): locks, awaits, failures and
\* crashes are invisible, and a renewal replaces exactly the credential it was
\* obtained for (credential_store.rs:334-351).
THEOREM Refinement == Spec => RenewsOnly
<1>1. TypeOK /\ IInv /\ [Next]_vars => [Promise!Next]_(Promise!tvars)
  BY StepRefines DEF IInv
<1>2. QED
  BY <1>1, InitRefines, Invariance, PTL DEF Spec, RenewsOnly, Promise!Spec
=============================================================================
