------------------------------ MODULE MCBroker ------------------------------
(* Instances of Broker for TLC: two connections, a queue mainQ whose     *)
(* dead-letter exchange leads to a queue deadQ.                          *)
EXTENDS Broker, TLC

CONSTANTS mainQ, deadQ

\* A channel number of its own for each connection, or one for both.
MCChanOf == [c \in Conn |-> c]
MCSharedChan == [c \in Conn |-> 1]

\* The connections are interchangeable.
ConnSymmetry == Permutations(Conn)

MCMaxLen == [p \in Queue |-> IF p = mainQ THEN 1 ELSE 0]
MCDLX == [p \in Queue |-> IF p = mainQ THEN deadQ ELSE Nil]
MCNoDLX == [p \in Queue |-> Nil]
MCRoutes == {<<mainQ>>, <<mainQ, deadQ>>}
MCOneRoute == {<<mainQ>>}
=============================================================================
