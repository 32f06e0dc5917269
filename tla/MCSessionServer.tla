-------------------------- MODULE MCSessionServer --------------------------
(* Instances of SessionServer for TLC. *)
EXTENDS SessionServer, TLC

\* Call slots and ids are interchangeable in the safety properties.
Symmetry == Permutations(Calls) \cup Permutations(Ids)
=============================================================================
