----------------------------- MODULE AccountTable -----------------------------
(***************************************************************************)
(* What CredentialStore promises (src/credential_store.rs): one table of   *)
(* accounts that the host edits, and renewals.  A renewal puts in place of *)
(* a credential the one the server issued for it, and of no other: what    *)
(* was removed is not put back, what was replaced meanwhile stays.  Locks, *)
(* the network, the backend and crashes are left to CredentialStore, which *)
(* implements this specification.                                          *)
(***************************************************************************)
EXTENDS Naturals, Sequences

CONSTANTS Accounts, Absent, NoAccount

VARIABLES
    table,   \* [accounts |-> credential or Absent, current |-> account]
    origin   \* per account, what each credential issued was a renewal of

tvars == <<table, origin>>

\* A login: a credential that is a renewal of none.
Login(a) ==
    /\ origin' = [origin EXCEPT ![a] = Append(@, Absent)]
    /\ \/ /\ table'.accounts = [table.accounts EXCEPT ![a] = Len(origin[a]) + 1]
          /\ table'.current \in {table.current, a}
       \/ table' = table

Remove(a) ==
    /\ table'.accounts = [table.accounts EXCEPT ![a] = Absent]
    /\ table'.current \in Accounts \cup {NoAccount}
    /\ UNCHANGED origin

Switch(a) ==
    /\ table.accounts[a] # Absent
    /\ table' = [accounts |-> table.accounts, current |-> a]
    /\ UNCHANGED origin

\* The server renews a credential it has issued.
Issue(a) ==
    /\ \E g \in DOMAIN origin[a] : origin' = [origin EXCEPT ![a] = Append(@, g)]
    /\ UNCHANGED table

Renew(a) ==
    /\ table.accounts[a] # Absent
    /\ \E g \in DOMAIN origin[a] :
        /\ origin[a][g] = table.accounts[a]
        /\ table' = [accounts |-> [table.accounts EXCEPT ![a] = g], current |-> table.current]
    /\ UNCHANGED origin

Init ==
    /\ table.accounts \in [Accounts -> {Absent, 1}]
    /\ table.current \in Accounts \cup {NoAccount}
    /\ DOMAIN table = {"accounts", "current"}
    /\ origin = [a \in Accounts |-> <<Absent>>]

Next == \E a \in Accounts : Login(a) \/ Remove(a) \/ Switch(a) \/ Issue(a) \/ Renew(a)

Spec == Init /\ [][Next]_tvars
=============================================================================
