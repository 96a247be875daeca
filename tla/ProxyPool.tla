------------------------------ MODULE ProxyPool ------------------------------
(***************************************************************************)
(* The rows of table `proxies' and those who write them: the administrator *)
(* through the backend, and the auth and geo agents of the workers, which  *)
(* read a list of proxies first and write their results later, by id.      *)
(* The ping and speedtest agents write no column that is modelled here.    *)
(* Abstracted: addresses, statistics, the size and the order of batches.   *)
(***************************************************************************)
EXTENDS Integers

CONSTANTS
    Proxies, Countries,
    None,        \* no country, no proxy (SQL NULL)
    MaxChanges   \* bound: calls of the administrator and failures of agents

ASSUME PoolAssumption ==
    /\ None \notin Proxies /\ None \notin Countries
    /\ MaxChanges \in Nat

VARIABLES
    status, enabled, quarantined, country,
    override,     \* country_manual_override
    authPending,  \* selected by the running auth cycle and not written yet
    geoPending,   \* selected by the running geo cycle, {} between cycles
    changes

rowVars  == <<status, enabled, quarantined, country, override>>
poolVars == <<rowVars, authPending, geoPending, changes>>

\* "absent" is a row not imported yet
ProxyStatus == {"absent", "new", "checking", "online", "degraded", "offline",
                "quarantine", "disabled"}

PoolTypeOK ==
    /\ status      \in [Proxies -> ProxyStatus]
    /\ enabled     \in [Proxies -> BOOLEAN]
    /\ quarantined \in [Proxies -> BOOLEAN]
    /\ country     \in [Proxies -> Countries \cup {None}]
    /\ override    \in [Proxies -> BOOLEAN]
    /\ authPending \subseteq Proxies
    /\ geoPending  \subseteq Proxies
    /\ changes     \in 0..MaxChanges

PoolInit ==
    /\ status      = [p \in Proxies |-> "absent"]
    /\ enabled     = [p \in Proxies |-> FALSE]
    /\ quarantined = [p \in Proxies |-> FALSE]
    /\ country     = [p \in Proxies |-> None]
    /\ override    = [p \in Proxies |-> FALSE]
    /\ authPending = {}
    /\ geoPending  = {}
    /\ changes     = 0

Imported(p) == status[p] # "absent"

-----------------------------------------------------------------------------
\* a change from outside the agents' normal course
Change == changes < MaxChanges /\ changes' = changes + 1

Import(p) ==
    /\ ~Imported(p)
    /\ status'  = [status EXCEPT ![p] = "new"]
    /\ enabled' = [enabled EXCEPT ![p] = TRUE]
    /\ UNCHANGED <<quarantined, country, override, authPending, geoPending, changes>>

\* the status stays what Disable, or an agent since then, made it
Enable(p) ==
    /\ Change /\ Imported(p)
    /\ enabled' = [enabled EXCEPT ![p] = TRUE]
    /\ UNCHANGED <<status, quarantined, country, override, authPending, geoPending>>

Disable(p) ==
    /\ Change /\ Imported(p)
    /\ enabled' = [enabled EXCEPT ![p] = FALSE]
    /\ status'  = [status EXCEPT ![p] = "disabled"]
    /\ UNCHANGED <<quarantined, country, override, authPending, geoPending>>

Quarantine(p) ==
    /\ Change /\ Imported(p)
    /\ quarantined' = [quarantined EXCEPT ![p] = TRUE]
    /\ status'      = [status EXCEPT ![p] = "quarantine"]
    /\ UNCHANGED <<enabled, country, override, authPending, geoPending>>

\* mutant of Unquarantine: the status is left to the agents
UnquarantineFlagOnly(p) ==
    /\ Change /\ Imported(p)
    /\ quarantined' = [quarantined EXCEPT ![p] = FALSE]
    /\ UNCHANGED <<status, enabled, country, override, authPending, geoPending>>

Unquarantine(p) ==
    /\ Change /\ Imported(p)
    /\ quarantined' = [quarantined EXCEPT ![p] = FALSE]
    /\ status'      = [status EXCEPT ![p] = IF @ = "quarantine" THEN "checking" ELSE @]
    /\ UNCHANGED <<enabled, country, override, authPending, geoPending>>

Recheck(p) ==
    /\ Change /\ Imported(p)
    /\ status' = [status EXCEPT ![p] = "checking"]
    /\ UNCHANGED <<enabled, quarantined, country, override, authPending, geoPending>>

\* set-country, and clear-country when c is None
SetCountry(p, c) ==
    /\ Change /\ Imported(p)
    /\ country'  = [country EXCEPT ![p] = c]
    /\ override' = [override EXCEPT ![p] = (c # None)]
    /\ UNCHANGED <<status, enabled, quarantined, authPending, geoPending>>

-----------------------------------------------------------------------------
\* mutant of Checkable: a proxy sent to recheck is taken to be under way already
CheckableSeen(p) == enabled[p] /\ status[p] \in {"new", "online", "offline"}

\* the rows run_auth_cycle selects
Checkable(p) == Imported(p) /\ enabled[p] /\ status[p] # "disabled"

AuthSelect ==
    /\ authPending = {}
    /\ authPending' = {p \in Proxies : Checkable(p)}
    /\ UNCHANGED <<rowVars, geoPending, changes>>

\* a batch is measured, which takes minutes, and written in one transaction;
\* `up' are those that answered
AuthBatch ==
    /\ \E batch \in SUBSET authPending \ {{}} : \E up \in SUBSET batch :
          /\ status' = [p \in Proxies |-> IF p \in up THEN "online"
                                          ELSE IF p \in batch THEN "offline" ELSE status[p]]
          /\ authPending' = authPending \ batch
    /\ UNCHANGED <<enabled, quarantined, country, override, geoPending, changes>>

\* an exception ends the cycle; the batches written remain
AuthAborts ==
    /\ authPending # {} /\ Change
    /\ authPending' = {}
    /\ UNCHANGED <<rowVars, geoPending>>

GeoSelect ==
    /\ geoPending = {}
    /\ geoPending' = {p \in Proxies : Imported(p) /\ ~override[p] /\ country[p] = None}
    /\ UNCHANGED <<rowVars, authPending, changes>>

\* mutant of GeoCommit: a failed lookup is written too
GeoCommitResets ==
    /\ geoPending # {}
    /\ \E found \in [geoPending -> Countries \cup {None}] :
          country' = [p \in Proxies |-> IF p \in geoPending THEN found[p] ELSE country[p]]
    /\ geoPending' = {}
    /\ UNCHANGED <<status, enabled, quarantined, override, authPending, changes>>

\* the countries found are written by id, in one transaction
GeoCommit ==
    /\ geoPending # {}
    /\ \E found \in [geoPending -> Countries \cup {None}] :
          country' = [p \in Proxies |-> IF p \in geoPending /\ found[p] # None
                                        THEN found[p] ELSE country[p]]
    /\ geoPending' = {}
    /\ UNCHANGED <<status, enabled, quarantined, override, authPending, changes>>

-----------------------------------------------------------------------------
Administer(p) ==
    \/ Import(p) \/ Enable(p) \/ Disable(p)
    \/ Quarantine(p) \/ Unquarantine(p) \/ Recheck(p)
    \/ \E c \in Countries \cup {None} : SetCountry(p, c)

Agents == AuthSelect \/ AuthBatch \/ AuthAborts \/ GeoSelect \/ GeoCommit

PoolNext == (\E p \in Proxies : Administer(p)) \/ Agents

PoolSpec == PoolInit /\ [][PoolNext]_poolVars

\* The queue is not frozen for ever and its cycles come round: each auth cycle
\* starts, and ends having written every proxy it selected.
PoolFairSpec == PoolSpec /\ WF_poolVars(AuthSelect) /\ WF_poolVars(AuthBatch)

-----------------------------------------------------------------------------
\* A country said to be set by hand is there: neither the administrator's calls
\* nor an agent that looked at the row before them leave the flag without one.
OverrideHasCountry == \A p \in Proxies : override[p] => country[p] # None

Judged(p) == status[p] \in {"online", "offline"}

\* A proxy released from quarantine, rechecked or new is judged by the auth
\* agent in the end, unless it is taken out of use first.
WaitingIsJudged ==
    \A p \in Proxies :
        (enabled[p] /\ status[p] \in {"new", "checking"})
            ~> (Judged(p) \/ ~enabled[p] \/ quarantined[p])

\* A proxy out of quarantine does not keep the status quarantine.
ReleasedIsNotQuarantine ==
    \A p \in Proxies : status[p] = "quarantine" => quarantined[p]

\* Claimed by the documentation, not kept by the code (see the README).
\* The auth agent checks every enabled proxy.
EnabledIsJudged ==
    \A p \in Proxies :
        enabled[p] ~> (Judged(p) \/ ~enabled[p] \/ quarantined[p])
=============================================================================
