----------------------------- MODULE MCRouting -----------------------------
(* Instances of Routing: how handlers share sessions.                      *)
EXTENDS Routing, TLC

CONSTANTS s1, de

OneSession == [h \in Handlers |-> s1]

\* the session belongs to a country account
German == [s \in Sessions |-> de]

Symmetric == Permutations(Proxies)
=============================================================================
