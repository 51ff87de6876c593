------------------------------- MODULE WorkBag -------------------------------
(***************************************************************************)
(* What the broker's dispatchers promise, without queues or workers: a job *)
(* that is accepted is run once, and only a shutdown lets jobs be dropped. *)
(* Pipeline implements this specification.                                 *)
(***************************************************************************)
EXTENDS Naturals

CONSTANT Job

VARIABLES
  waiting,  \* jobs accepted and not run yet
  runs,     \* how often each job was run
  dropped,  \* jobs given up by the shutdown
  closed    \* has the shutdown begun?

vars == <<waiting, runs, dropped, closed>>

Init ==
  /\ waiting = {}
  /\ runs = [j \in Job |-> 0]
  /\ dropped = {}
  /\ closed = FALSE

Fresh(j) == j \notin waiting \cup dropped /\ runs[j] = 0

Accept(j) ==
  /\ Fresh(j)
  /\ waiting' = waiting \cup {j}
  /\ UNCHANGED <<runs, dropped, closed>>

Run(j) ==
  /\ j \in waiting
  /\ waiting' = waiting \ {j}
  /\ runs' = [runs EXCEPT ![j] = 1]
  /\ UNCHANGED <<dropped, closed>>

\* A shutdown may drop a job that waits, or refuse a new one.
Drop(j) ==
  /\ closed
  /\ j \in waiting \/ Fresh(j)
  /\ waiting' = waiting \ {j}
  /\ dropped' = dropped \cup {j}
  /\ UNCHANGED <<runs, closed>>

Close ==
  /\ closed' = TRUE
  /\ UNCHANGED <<waiting, runs, dropped>>

Next == Close \/ \E j \in Job : Accept(j) \/ Run(j) \/ Drop(j)

Spec == Init /\ [][Next]_vars
=============================================================================
