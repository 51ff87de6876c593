------------------------------- MODULE MCRaft -------------------------------
(* Instances of Raft for TLC. *)
EXTENDS Raft, TLC

\* The nodes are interchangeable.
NodeSymmetry == Permutations(Node)
=============================================================================
