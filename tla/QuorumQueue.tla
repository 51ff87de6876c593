---------------------------- MODULE QuorumQueue ----------------------------
(***************************************************************************)
(* Quorum queues (internal/queue/quorum.go, quorum_manager.go) on the Raft *)
(* nodes of module Raft: one replica of the queue per node.  Publish       *)
(* proposes, then registers a channel under the index it got, then waits   *)
(* for OnCommit or five seconds; each of these is a critical section of a  *)
(* lock of its own, so commits can come in between.  The caller that       *)
(* commits (SetCommitIndex, then OnCommit) is external: the repository's   *)
(* tests play it.                                                          *)
(***************************************************************************)
EXTENDS Raft

CONSTANTS Client,   \* goroutines that call Publish
          Running   \* nodes whose Run loop was started; Create starts none

ASSUME ClientAssumption == None \notin Client /\ Running \subseteq Node

VARIABLES
  messages,  \* QuorumQueue.messages of each replica
  pending,   \* QuorumQueue.pending: the client whose channel is registered
  pub,       \* each client's Publish in progress
  commits,   \* <<node, index>> set by SetCommitIndex, OnCommit to be called
  acked,     \* history: the messages Ack removed from each replica
  outcome    \* history: what became of each message

queueVars == <<messages, pending, pub, commits, acked, outcome>>
qVars == <<vars, queueVars>>

Index == 1 .. MaxLog

Idle == [pc |-> "idle"]

\* "signalled": OnCommit sent on the channel and the waiter has not seen it.
Publishing == [pc : {"proposed", "waiting", "signalled"}, node : Node,
               idx : Index, msg : Command]

\* Create on every node: a cluster of one node promotes itself.
QInit ==
  /\ InitNode
  /\ state = [n \in Node |-> IF peers(n) = {} THEN Leader ELSE Follower]
  /\ pc = [n \in Node |-> IF n \in Running THEN "idle" ELSE "stopped"]
  /\ messages = [n \in Node |-> <<>>]
  /\ pending = [n \in Node |-> [i \in Index |-> None]]
  /\ pub = [k \in Client |-> Idle]
  /\ commits = {}
  /\ acked = [n \in Node |-> {}]
  /\ outcome = [m \in Command |-> "new"]

----------------------------------------------------------------------------
\* Mutant of Publish: the channel waits under the index before the new one.
Publish_OldIndex(k, n, m) ==
  /\ pub[k] = Idle
  /\ outcome[m] = "new"
  /\ Propose(n, m)
  /\ pub' = [pub EXCEPT ![k] = [pc |-> "proposed", node |-> n,
                                idx |-> Len(log[n]), msg |-> m]]
  /\ outcome' = [outcome EXCEPT ![m] = "open"]
  /\ UNCHANGED <<messages, pending, commits, acked>>

\* Publish, first half: Propose appends to the leader's log.
Publish(k, n, m) ==
  /\ pub[k] = Idle
  /\ outcome[m] = "new"
  /\ Propose(n, m)
  /\ pub' = [pub EXCEPT ![k] = [pc |-> "proposed", node |-> n,
                                idx |-> Len(log[n]) + 1, msg |-> m]]
  /\ outcome' = [outcome EXCEPT ![m] = "open"]
  /\ UNCHANGED <<messages, pending, commits, acked>>

\* Publish on a node that does not lead returns Propose's error.
PublishRefused(k, n, m) ==
  /\ pub[k] = Idle
  /\ outcome[m] = "new"
  /\ state[n] # Leader
  /\ outcome' = [outcome EXCEPT ![m] = "failed"]
  /\ UNCHANGED <<vars, messages, pending, pub, commits, acked>>

\* Publish, second half: the channel goes into the map, over any other that
\* is registered under this index.
Register(k) ==
  /\ pub[k].pc = "proposed"
  /\ pending' = [pending EXCEPT ![pub[k].node][pub[k].idx] = k]
  /\ pub' = [pub EXCEPT ![k].pc = "waiting"]
  /\ UNCHANGED <<vars, messages, commits, acked, outcome>>

\* The select takes the channel.
PublishReturns(k) ==
  /\ pub[k].pc = "signalled"
  /\ pub' = [pub EXCEPT ![k] = Idle]
  /\ outcome' = [outcome EXCEPT ![pub[k].msg] = "ok"]
  /\ UNCHANGED <<vars, messages, pending, commits, acked>>

\* Mutant of PublishTimesOut: a committed index is not given up.
PublishTimesOut_OnlyUncommitted(k) ==
  /\ pub[k].pc \in {"waiting", "signalled"}
  /\ commitIndex[pub[k].node] < pub[k].idx
  /\ pub' = [pub EXCEPT ![k] = Idle]
  /\ pending' = [pending EXCEPT ![pub[k].node][pub[k].idx] = None]
  /\ outcome' = [outcome EXCEPT ![pub[k].msg] = "failed"]
  /\ UNCHANGED <<vars, messages, commits, acked>>

\* The select takes the timer, which it may even when the channel is ready;
\* the entry under the index is deleted, whoever registered it.
PublishTimesOut(k) ==
  /\ pub[k].pc \in {"waiting", "signalled"}
  /\ pub' = [pub EXCEPT ![k] = Idle]
  /\ pending' = [pending EXCEPT ![pub[k].node][pub[k].idx] = None]
  /\ outcome' = [outcome EXCEPT ![pub[k].msg] = "failed"]
  /\ UNCHANGED <<vars, messages, commits, acked>>

\* External: a careful caller commits an index of the leader's log once a
\* majority holds the entry, and will call OnCommit.
Commit(n, i) ==
  /\ SetCommitIndex(n, i)
  /\ IsMajority({p \in Node : i \in DOMAIN log[p] /\ log[p][i] = log[n][i]})
  /\ commits' = commits \cup {<<n, i>>}
  /\ UNCHANGED <<messages, pending, pub, acked, outcome>>

\* Committed: the entries up to commitIndex.
Committed(n) == SubSeq(log[n], 1, commitIndex[n])

\* Mutant of Refill: the last committed entry is left out.
Refill_OneShort(msgs, committed) ==
  msgs \o [i \in 1 .. (IF Len(committed) > Len(msgs) + 1
                       THEN Len(committed) - Len(msgs) - 1 ELSE 0) |->
             committed[Len(msgs) + i].cmd]

\* OnCommit's loop: messages is filled up to the length of the committed log,
\* however many Ack took from its front.
Refill(msgs, committed) ==
  msgs \o [i \in 1 .. (IF Len(committed) > Len(msgs)
                       THEN Len(committed) - Len(msgs) ELSE 0) |->
             committed[Len(msgs) + i].cmd]

\* Mutant of OnCommit: every index up to the committed one is forgotten.
OnCommit_ForgetsLower(n, i) ==
  LET k == pending[n][i]
  IN  /\ <<n, i>> \in commits
      /\ commitIndex[n] <= Len(log[n])
      /\ commits' = commits \ {<<n, i>>}
      /\ messages' = [messages EXCEPT ![n] = Refill(@, Committed(n))]
      /\ pending' = [pending EXCEPT ![n] = [j \in Index |-> IF j <= i THEN None ELSE @[j]]]
      /\ pub' = [x \in Client |-> IF x = k THEN [pub[x] EXCEPT !.pc = "signalled"]
                                  ELSE pub[x]]
      /\ UNCHANGED <<vars, acked, outcome>>

\* OnCommit: refill, then signal the client registered under the index.  A commitIndex
\* beyond the log, where Committed would slice out of range, needs a second leader
\* that cuts the log; the step is not taken then.
OnCommit(n, i) ==
  LET k == pending[n][i]
  IN  /\ <<n, i>> \in commits
      /\ commitIndex[n] <= Len(log[n])
      /\ commits' = commits \ {<<n, i>>}
      /\ messages' = [messages EXCEPT ![n] = Refill(@, Committed(n))]
      /\ pending' = [pending EXCEPT ![n][i] = None]
      /\ pub' = [x \in Client |-> IF x = k THEN [pub[x] EXCEPT !.pc = "signalled"]
                                  ELSE pub[x]]
      /\ UNCHANGED <<vars, acked, outcome>>

\* Ack drops the first messages of the replica.
Ack(n, offset) ==
  /\ offset \in 1 .. Len(messages[n])
  /\ messages' = [messages EXCEPT ![n] = SubSeq(@, offset + 1, Len(@))]
  /\ acked' = [acked EXCEPT ![n] = @ \cup {messages[n][j] : j \in 1 .. offset}]
  /\ UNCHANGED <<vars, pending, pub, commits, outcome>>

ClientStep(k) ==
  \/ \E n \in Node, m \in Command : Publish(k, n, m) \/ PublishRefused(k, n, m)
  \/ Register(k)
  \/ PublishReturns(k)
  \/ PublishTimesOut(k)

QNext ==
  \/ \E k \in Client : ClientStep(k)
  \/ \E n \in Node :
       \/ NodeStep(n) /\ UNCHANGED queueVars
       \/ \E i \in Index : Commit(n, i) \/ OnCommit(n, i) \/ Ack(n, i)
  \/ Arrival /\ UNCHANGED queueVars

QSpec == QInit /\ [][QNext]_qVars

\* A Publish in progress goes on: its goroutine runs and time.After fires.
QFairSpec == QSpec /\ \A k \in Client :
  WF_qVars(Register(k) \/ PublishReturns(k) \/ PublishTimesOut(k))

----------------------------------------------------------------------------
(* Properties                                                              *)

\* Type invariant of the queue's fields and of the Publish calls.
QTypeOK ==
  /\ messages \in [Node -> Seq(Command)]
  /\ pending \in [Node -> [Index -> Client \cup {None}]]
  /\ pub \in [Client -> Publishing \cup {Idle}]
  /\ commits \subseteq (Node \X Index)
  /\ acked \in [Node -> SUBSET Command]
  /\ outcome \in [Command -> {"new", "open", "ok", "failed"}]

\* A message whose Publish returned without error was handed to the consumers
\* of the replica: it is in the queue or was acknowledged.
PublishedIsQueued ==
  \A m \in Command : outcome[m] = "ok" =>
    \E n \in Node : m \in acked[n] \cup {messages[n][j] : j \in DOMAIN messages[n]}

\* As long as one node leads, however often it is elected, a Publish that waits
\* is registered, so that OnCommit of its index reaches it: neither another
\* Publish nor another one's timeout took its place.
WaiterRegistered ==
  \A k \in Client : pub[k].pc = "waiting" => pending[pub[k].node][pub[k].idx] = k

\* Every Publish comes back to its caller.
PublishComesBack ==
  \A k \in Client : pub[k] # Idle ~> pub[k] = Idle
=============================================================================
