--------------------------- MODULE MCQuorumQueue ---------------------------
(* Instances of QuorumQueue for TLC. *)
EXTENDS QuorumQueue, TLC

\* Clients and messages are interchangeable.
QSymmetry == Permutations(Client) \cup Permutations(Command)
=============================================================================
