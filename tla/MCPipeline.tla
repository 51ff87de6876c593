----------------------------- MODULE MCPipeline -----------------------------
(* Instances of Pipeline for TLC: the item i3 goes to an exchange of its own. *)
EXTENDS Pipeline

CONSTANT i3

MCExchangeOf == [i \in Item |-> IF i = i3 THEN "y" ELSE "x"]
=============================================================================
