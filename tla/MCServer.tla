------------------------------ MODULE MCServer ------------------------------
(* Instances of Server for TLC.                                               *)
EXTENDS Server

\* The file the server is started with limits the connections to one per second,
\* which a reload puts in force; the second of two edits lifts that limit.
MCTwoEdits == [v \in 0 .. 2 |-> IF v = 0 THEN 1 ELSE 0]
=============================================================================
