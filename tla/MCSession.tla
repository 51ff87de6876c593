---- MODULE MCSession ----
(* Two connections that use the same channel number: one consumes alone and *)
(* in a group, the other in the group only.                                 *)
EXTENDS Session

CONSTANTS c1, c2, q1, q2, g

Use(q, c, gr, x) == [queue |-> q, ch |-> c, group |-> gr, exclusive |-> x]

MCChanNo == [c \in Conn |-> 1]
MCOffer == <<{Use(q1, c1, g, FALSE), Use(q2, c1, None, TRUE)},
             {Use(q1, c2, g, FALSE), Use(q2, c2, None, TRUE)}>>
====
