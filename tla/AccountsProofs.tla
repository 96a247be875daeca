--------------------------- MODULE AccountsProofs ---------------------------
(***************************************************************************)
(* Proofs about ProxyPool and Accounts, for any proxies and countries:     *)
(* types, what the flags of a proxy say of its row, and that manual        *)
(* accounts are left to the administrator.                                 *)
(***************************************************************************)
EXTENDS Accounts, TLAPS

\* The flags of a row agree with its columns.
PoolInv == PoolTypeOK /\ OverrideHasCountry /\ ReleasedIsNotQuarantine

LEMMA PoolInvInit == PoolInit => PoolInv
BY PoolAssumption DEF PoolInit, PoolInv, PoolTypeOK, ProxyStatus, OverrideHasCountry,
   ReleasedIsNotQuarantine

\* An administrator's call writes one row.
LEMMA AdministerStep ==
    ASSUME PoolInv, NEW p \in Proxies, Administer(p)
    PROVE  PoolInv'
<1> USE PoolAssumption
    DEF PoolInv, PoolTypeOK, OverrideHasCountry, ReleasedIsNotQuarantine, ProxyStatus, Imported,
        Change
<1>1. CASE Import(p)
  BY <1>1 DEF Import
<1>2. CASE Enable(p)
  BY <1>2 DEF Enable
<1>3. CASE Disable(p)
  BY <1>3 DEF Disable
<1>4. CASE Quarantine(p)
  BY <1>4 DEF Quarantine
<1>5. CASE Unquarantine(p)
  BY <1>5 DEF Unquarantine
<1>6. CASE Recheck(p)
  BY <1>6 DEF Recheck
<1>7. ASSUME NEW c \in Countries \cup {None}, SetCountry(p, c)
      PROVE  PoolInv'
  <2>1. PoolTypeOK'
    BY <1>7 DEF SetCountry
  <2>2. \A q \in Proxies : q # p => override'[q] = override[q] /\ country'[q] = country[q]
    BY <1>7 DEF SetCountry
  <2>3. country'[p] = c /\ (override'[p] <=> c # None)
    BY <1>7 DEF SetCountry
  <2>4. OverrideHasCountry'
    BY <2>2, <2>3
  <2>5. ReleasedIsNotQuarantine'
    BY <1>7 DEF SetCountry
  <2> QED
    BY <2>1, <2>4, <2>5
<1> QED
  BY <1>1, <1>2, <1>3, <1>4, <1>5, <1>6, <1>7 DEF Administer

\* An agent writes what it measured or found, never a flag.
LEMMA AgentsStep ==
    ASSUME PoolInv, Agents
    PROVE  PoolInv'
<1> USE PoolAssumption
    DEF PoolInv, PoolTypeOK, OverrideHasCountry, ReleasedIsNotQuarantine, ProxyStatus, Change,
        rowVars
<1>1. CASE AuthSelect
  BY <1>1 DEF AuthSelect
<1>2. CASE AuthBatch
  <2>1. PICK batch \in SUBSET authPending : \E up \in SUBSET batch :
            /\ status' = [p \in Proxies |-> IF p \in up THEN "online"
                                            ELSE IF p \in batch THEN "offline" ELSE status[p]]
            /\ authPending' = authPending \ batch
    BY <1>2 DEF AuthBatch
  <2>2. UNCHANGED <<enabled, quarantined, country, override, geoPending, changes>>
    BY <1>2 DEF AuthBatch
  <2> QED
    BY <2>1, <2>2
<1>3. CASE AuthAborts
  BY <1>3 DEF AuthAborts
<1>4. CASE GeoSelect
  BY <1>4 DEF GeoSelect
<1>5. CASE GeoCommit
  <2>1. PICK found \in [geoPending -> Countries \cup {None}] :
            country' = [p \in Proxies |-> IF p \in geoPending /\ found[p] # None
                                          THEN found[p] ELSE country[p]]
    BY <1>5 DEF GeoCommit
  <2>2. geoPending' = {} /\ UNCHANGED <<status, enabled, quarantined, override, authPending, changes>>
    BY <1>5 DEF GeoCommit
  <2> QED
    BY <2>1, <2>2
<1> QED
  BY <1>1, <1>2, <1>3, <1>4, <1>5 DEF Agents

LEMMA PoolStep ==
    ASSUME PoolInv, PoolNext
    PROVE  PoolInv'
BY AdministerStep, AgentsStep DEF PoolNext

LEMMA PoolStutter ==
    ASSUME PoolInv, UNCHANGED poolVars
    PROVE  PoolInv'
BY DEF PoolInv, PoolTypeOK, OverrideHasCountry, ReleasedIsNotQuarantine, poolVars, rowVars

-----------------------------------------------------------------------------
(* The accounts *)

AccountTypes == account \in [Countries -> AccountRows \cup {None}]

LEMMA TypeParts == AccountsTypeOK <=> PoolTypeOK /\ AccountTypes
BY DEF AccountsTypeOK, AccountTypes

\* An account that is there has the columns of the table.
LEMMA RowOf ==
    ASSUME AccountTypes, NEW c \in Countries, HasAccount(c)
    PROVE  account[c] \in AccountRows
BY DEF AccountTypes, HasAccount

\* What an upsert leaves is a row, enabled, and as dynamic as before.
LEMMA UpsertedRow ==
    ASSUME AccountTypes, NEW c \in Countries
    PROVE  /\ Upserted(c) \in AccountRows
           /\ Upserted(c).enabled
           /\ HasAccount(c) => Upserted(c).dynamic = account[c].dynamic
<1>1. CASE HasAccount(c)
  BY <1>1, RowOf DEF Upserted, AccountRows
<1>2. CASE ~HasAccount(c)
  BY <1>2 DEF Upserted, NewDynamic, AccountRows
<1> QED
  BY <1>1, <1>2

ManualKeptFor(c) ==
    HasAccount(c) /\ ~account[c].dynamic =>
        /\ ~account'[c].dynamic
        /\ account[c].enabled /\ ~account'[c].enabled => changes' > changes

\* The agent's second update looks at is_dynamic, its first only enables.
LEMMA AgentAccounts ==
    ASSUME AccountTypes, AgentReconciles
    PROVE  AccountTypes' /\ \A c \in Countries : ManualKeptFor(c)
<1> DEFINE served == Served({"online", "degraded"})
           up(c)  == IF c \in served THEN Upserted(c) ELSE account[c]
           new(c) == IF up(c) # None /\ Closed(up(c), served)
                     THEN [up(c) EXCEPT !.enabled = FALSE] ELSE up(c)
<1>1. account' = [c \in Countries |-> new(c)]
  BY DEF AgentReconciles
<1>2. ASSUME NEW c \in Countries
      PROVE  /\ up(c) \in AccountRows \cup {None}
             /\ HasAccount(c) => /\ up(c) \in AccountRows
                                 /\ up(c).dynamic = account[c].dynamic
                                 /\ up(c).enabled \/ ~account[c].enabled
  <2>1. CASE c \in served
    BY <2>1, UpsertedRow
  <2>2. CASE c \notin served
    BY <2>2, RowOf DEF AccountTypes, AccountRows
  <2> QED
    BY <2>1, <2>2
<1> HIDE DEF up, served
<1>3. ASSUME NEW c \in Countries
      PROVE  new(c) \in AccountRows \cup {None}
  BY <1>2 DEF AccountRows
<1>4. ASSUME NEW c \in Countries, HasAccount(c), ~account[c].dynamic
      PROVE  new(c) = up(c)
  BY <1>2, <1>4 DEF Closed
<1>5. ASSUME NEW c \in Countries
      PROVE  ManualKeptFor(c)
  BY <1>1, <1>2, <1>4 DEF ManualKeptFor
<1> QED
  BY <1>1, <1>3, <1>5 DEF AccountTypes

\* The backend's pass touches dynamic accounts only.
LEMMA BackendAccounts ==
    ASSUME AccountTypes, BackendReconciles
    PROVE  AccountTypes' /\ \A c \in Countries : ManualKeptFor(c)
<1> DEFINE served == Served({"online"})
           new(c) == CASE c \in served -> IF HasAccount(c) THEN Upserted(c) ELSE NewDynamic(c)
                       [] c \notin served /\ IsDynamic(c) -> [account[c] EXCEPT !.enabled = FALSE]
                       [] OTHER -> account[c]
<1>1. /\ account' = [c \in Countries |-> new(c)]
      /\ \A c \in served : HasAccount(c) => account[c].dynamic
  BY DEF BackendReconciles
<1> HIDE DEF served
<1>2. ASSUME NEW c \in Countries
      PROVE  new(c) \in AccountRows \cup {None}
  <2>1. CASE c \in served
    BY <2>1, UpsertedRow DEF Upserted
  <2>2. CASE c \notin served /\ IsDynamic(c)
    <3>1. account[c] \in AccountRows
      BY <2>2, RowOf DEF IsDynamic
    <3> QED
      BY <2>2, <3>1 DEF AccountRows
  <2>3. CASE c \notin served /\ ~IsDynamic(c)
    BY <2>3 DEF AccountTypes
  <2> QED
    BY <2>1, <2>2, <2>3
<1>3. ASSUME NEW c \in Countries, HasAccount(c), ~account[c].dynamic
      PROVE  new(c) = account[c]
  BY <1>1, <1>3 DEF IsDynamic
<1>4. ASSUME NEW c \in Countries
      PROVE  ManualKeptFor(c)
  BY <1>1, <1>3, <1>4 DEF ManualKeptFor
<1> QED
  BY <1>1, <1>2, <1>4 DEF AccountTypes

\* The administrator's call is a change of his own, and is_dynamic is no field of it.
LEMMA AdministratorAccounts ==
    ASSUME PoolTypeOK, AccountTypes, NEW d \in Countries, CreateAccount(d) \/ PatchAccount(d)
    PROVE  AccountTypes' /\ \A c \in Countries : ManualKeptFor(c)
<1>1. CASE CreateAccount(d)
  BY <1>1 DEF CreateAccount, AccountTypes, AccountRows, HasAccount, ManualKeptFor
<1>2. CASE PatchAccount(d)
  <2>1. PICK home \in Countries \cup {None}, on \in BOOLEAN :
            account' = [account EXCEPT ![d] = [account[d] EXCEPT !.country = home, !.enabled = on]]
    BY <1>2 DEF PatchAccount, AccountTypes
  <2>2. account[d] \in AccountRows /\ changes' > changes
    BY <1>2, RowOf DEF PatchAccount, Change, PoolTypeOK
  <2>3. AccountTypes'
    BY <2>1, <2>2 DEF AccountTypes, AccountRows
  <2>4. \A c \in Countries : ManualKeptFor(c)
    BY <2>1, <2>2 DEF ManualKeptFor, AccountTypes, AccountRows
  <2> QED
    BY <2>3, <2>4
<1> QED
  BY <1>1, <1>2

\* An account that is left alone is kept.
LEMMA SameAccounts ==
    ASSUME AccountTypes, UNCHANGED account
    PROVE  AccountTypes' /\ \A c \in Countries : ManualKeptFor(c)
BY DEF AccountTypes, ManualKeptFor

-----------------------------------------------------------------------------
AccountsInv == PoolInv /\ AccountTypes

LEMMA AccountsStep ==
    ASSUME AccountsInv, [AccountsNext]_accountVars
    PROVE  AccountsInv' /\ \A c \in Countries : ManualKeptFor(c)
<1> USE DEF AccountsInv
<1>1. CASE \E c \in Countries : CreateAccount(c) \/ PatchAccount(c)
  <2>1. PoolTypeOK'
    BY <1>1, PoolAssumption
       DEF CreateAccount, PatchAccount, Change, rowVars, PoolInv, PoolTypeOK
  <2>2. OverrideHasCountry' /\ ReleasedIsNotQuarantine'
    BY <1>1 DEF CreateAccount, PatchAccount, rowVars, PoolInv, OverrideHasCountry,
       ReleasedIsNotQuarantine
  <2> QED
    BY <1>1, <2>1, <2>2, AdministratorAccounts DEF PoolInv
<1>2. CASE AgentReconciles
  BY <1>2, AgentAccounts, PoolStutter DEF AgentReconciles
<1>3. CASE BackendReconciles
  BY <1>3, BackendAccounts, PoolStutter DEF BackendReconciles
<1>4. CASE PoolNext /\ UNCHANGED account
  BY <1>4, PoolStep, SameAccounts
<1>5. CASE UNCHANGED accountVars
  BY <1>5, PoolStutter, SameAccounts DEF accountVars
<1> QED
  BY <1>1, <1>2, <1>3, <1>4, <1>5 DEF AccountsNext

THEOREM AccountsInvariant == AccountsSpec => []AccountsInv
<1>1. AccountsInit => AccountsInv
  BY PoolInvInit DEF AccountsInit, AccountsInv, AccountTypes
<1>2. AccountsInv /\ [AccountsNext]_accountVars => AccountsInv'
  BY AccountsStep
<1> QED
  BY <1>1, <1>2, PTL DEF AccountsSpec

\* Proxies, cycles and accounts stay well typed.
THEOREM AccountsTypeCorrect == AccountsSpec => []AccountsTypeOK
<1>1. AccountsInv => AccountsTypeOK
  BY TypeParts DEF AccountsInv, PoolInv
<1> QED
  BY <1>1, AccountsInvariant, PTL

\* However old the selection a geo cycle writes from, it has found countries for it: a
\* country said to be set by hand is there.
THEOREM OverrideHasCountryTheorem == AccountsSpec => []OverrideHasCountry
BY AccountsInvariant, PTL DEF AccountsInv, PoolInv

\* No call and no agent leaves the status quarantine to a proxy that is not in it.
THEOREM ReleasedTheorem == AccountsSpec => []ReleasedIsNotQuarantine
BY AccountsInvariant, PTL DEF AccountsInv, PoolInv

\* Neither reconciliation makes a manual account dynamic or disables it.
THEOREM ManualTheorem == AccountsSpec => ManualStaysEnabled
<1>1. ASSUME \A c \in Countries : ManualKeptFor(c)
      PROVE  ManualKept
  BY <1>1 DEF ManualKeptFor, ManualKept
<1>2. AccountsInv /\ [AccountsNext]_accountVars => [ManualKept]_accountVars
  BY <1>1, AccountsStep
<1> QED
  BY <1>2, AccountsInvariant, PTL DEF AccountsSpec, ManualStaysEnabled
=============================================================================
