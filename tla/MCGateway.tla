------------------------------ MODULE MCGateway ------------------------------
(* Instances of Gateway for TLC.                                           *)
EXTENDS Gateway, TLC

CONSTANTS a1

OneAccount == [k \in Clients |-> a1]

\* the failures of the store itself are not considered here
NoFaults == [kind \in FaultKinds |-> 0]

Symmetric == Permutations(Handlers) \cup Permutations(Sessions) \cup Permutations(Conns)
=============================================================================
