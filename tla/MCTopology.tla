----------------------------- MODULE MCTopology -----------------------------
(* Instances of Topology for TLC. *)
EXTENDS Topology

CONSTANT builtinX

\* One built-in exchange.
MCBuiltin == [x \in {builtinX} |-> "direct"]

\* Connections are interchangeable.
ConnSymmetry == Permutations(Conn)
=============================================================================
