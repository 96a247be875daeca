--------------------------- MODULE MCSessionStore ---------------------------
(* Instances of SessionStore for TLC.                                      *)
EXTENDS SessionStore, TLC

CONSTANTS a1

\* two logins of one account: the account counter is shared
OneAccount  == [k \in Clients |-> a1]

\* one handler dies before it publishes, one fails in a kill, one does not commit; and
\* one outage of Redis
OneOfEach == [kind \in FaultKinds |-> 1]

Symmetric == Permutations(Clients) \cup Permutations(Sessions)
=============================================================================
