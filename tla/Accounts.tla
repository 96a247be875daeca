------------------------------ MODULE Accounts ------------------------------
(***************************************************************************)
(* The country accounts: users of a country log in with its code, and the  *)
(* account of that name is to exist and be enabled exactly while enough    *)
(* proxies of the country work.  The orchestrator's reconcile agent and    *)
(* the backend's reconciliation see to that, each with rules of its own,   *)
(* over the rows of ProxyPool, which the other agents and the              *)
(* administrator change, and beside the administrator's own accounts.      *)
(*                                                                         *)
(* The agent's pass and the backend's are a transaction each.  An account  *)
(* is known by its username; only those named like a country matter here.  *)
(* Abstracted: passwords, timestamps, accounts of type all, upper case.    *)
(***************************************************************************)
EXTENDS ProxyPool, FiniteSets

CONSTANT MinWorking   \* the 2 of both reconciliations

ASSUME AccountsAssumption == MinWorking \in Nat \ {0} /\ IsFiniteSet(Proxies)

VARIABLE account   \* the account whose username is a country's code, or None

accountVars == <<poolVars, account>>

AccountRows == [country: Countries \cup {None}, enabled: BOOLEAN, dynamic: BOOLEAN]

AccountsTypeOK ==
    /\ PoolTypeOK
    /\ account \in [Countries -> AccountRows \cup {None}]

AccountsInit == PoolInit /\ account = [c \in Countries |-> None]

HasAccount(c) == account[c] # None
IsDynamic(c)  == HasAccount(c) /\ account[c].dynamic

-----------------------------------------------------------------------------
(* The administrator *)

\* POST /accounts never makes an account dynamic
CreateAccount(c) ==
    /\ Change /\ ~HasAccount(c)
    /\ \E home \in Countries \cup {None}, on \in BOOLEAN :
          account' = [account EXCEPT ![c] = [country |-> home, enabled |-> on, dynamic |-> FALSE]]
    /\ UNCHANGED <<rowVars, authPending, geoPending>>

\* PATCH /accounts/{id}, /enable and /disable.  The tables init_db creates let any
\* account lose its country; schema.sql only those of type all.
PatchAccount(c) ==
    /\ Change /\ HasAccount(c)
    /\ \E home \in Countries \cup {None}, on \in BOOLEAN :
          account' = [account EXCEPT ![c].country = home, ![c].enabled = on]
    /\ UNCHANGED <<rowVars, authPending, geoPending>>

-----------------------------------------------------------------------------
(* The reconciliations *)

\* the countries of which enough proxies in these states are in use
Served(states) ==
    {c \in Countries :
        Cardinality({p \in Proxies : /\ enabled[p] /\ ~quarantined[p]
                                     /\ status[p] \in states /\ country[p] = c}) >= MinWorking}

NewDynamic(c) == [country |-> c, enabled |-> TRUE, dynamic |-> TRUE]

\* mutant of Upserted: on conflict do nothing
InsertedOnly(c) == IF HasAccount(c) THEN account[c] ELSE NewDynamic(c)

\* insert ... on conflict (username) do update set is_enabled = true
Upserted(c) == IF HasAccount(c) THEN [account[c] EXCEPT !.enabled = TRUE] ELSE NewDynamic(c)

\* mutants of Closed: all country accounts are closed, as in the legacy worker, or
\* none when no country is served
ClosedLegacy(a, served) == a.country = None \/ a.country \notin served
ClosedIfAny(a, served)  == a.dynamic /\ served # {} /\ a.country # None /\ a.country \notin served

\* what the second update selects: a country that is null is not different from any,
\* unless no country is served and the update has no such condition
Closed(a, served) ==
    a.dynamic /\ (served = {} \/ (a.country # None /\ a.country \notin served))

\* run_reconcile_cycle
AgentReconciles ==
    LET served == Served({"online", "degraded"})
        upserted == [c \in Countries |-> IF c \in served THEN Upserted(c) ELSE account[c]]
    IN account' = [c \in Countries |->
                      IF upserted[c] # None /\ Closed(upserted[c], served)
                      THEN [upserted[c] EXCEPT !.enabled = FALSE] ELSE upserted[c]]
       /\ UNCHANGED poolVars

\* reconcile_accounts goes by usernames; a manual account in the way of an insert
\* fails the whole transaction
BackendReconciles ==
    LET served == Served({"online"})
    IN /\ \A c \in served : HasAccount(c) => account[c].dynamic
       /\ account' = [c \in Countries |->
                         CASE c \in served -> IF HasAccount(c) THEN Upserted(c) ELSE NewDynamic(c)
                           [] c \notin served /\ IsDynamic(c) ->
                                 [account[c] EXCEPT !.enabled = FALSE]
                           [] OTHER -> account[c]]
       /\ UNCHANGED poolVars

-----------------------------------------------------------------------------
AccountsNext ==
    \/ \E c \in Countries : CreateAccount(c) \/ PatchAccount(c)
    \/ AgentReconciles
    \/ BackendReconciles
    \/ PoolNext /\ UNCHANGED account

\* the queue's cycles come round; nobody need call the backend's reconciliation
AccountsSpec == /\ AccountsInit /\ [][AccountsNext]_accountVars
                /\ WF_accountVars(AuthSelect /\ UNCHANGED account)
                /\ WF_accountVars(AuthBatch /\ UNCHANGED account)
                /\ WF_accountVars(AgentReconciles)

-----------------------------------------------------------------------------
\* No reconciliation, and no change of the pool, takes an account from the
\* administrator: a manual account is disabled by calls to the API only.
ManualKept ==
    \A c \in Countries :
        HasAccount(c) /\ ~account[c].dynamic =>
            /\ ~account[c]'.dynamic
            /\ account[c].enabled /\ ~account[c]'.enabled => changes' > changes
ManualStaysEnabled == [][ManualKept]_accountVars

Works(c)  == c \in Served({"online"})
IsOpen(c) == HasAccount(c) /\ account[c].enabled
\* its account was given another country, or none
Moved(c)  == HasAccount(c) /\ account[c].country # c

\* A country with enough proxies that keep working gets its account and has it
\* enabled, whatever was done to it before.
ServedIsOpen == \A c \in Countries : Works(c) ~> (~Works(c) \/ IsOpen(c) \/ Moved(c))

\* A country whose proxies are gone for good loses its dynamic account.
UnservedIsClosed ==
    \A c \in Countries :
        (IsDynamic(c) /\ ~Works(c)) ~> (Works(c) \/ ~IsOpen(c) \/ Moved(c))
=============================================================================
