----------------------------- MODULE MCSnapshot -----------------------------
(* Instances of Snapshot for TLC. *)
EXTENDS Snapshot

\* No built-in exchange.
MCNoBuiltin == [x \in {} |-> "direct"]

\* Connections are interchangeable.
ConnSymmetry == Permutations(Conn)
=============================================================================
