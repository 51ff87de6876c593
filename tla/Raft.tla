-------------------------------- MODULE Raft --------------------------------
(***************************************************************************)
(* The replicated log behind quorum queues: RaftNode (internal/cluster/    *)
(* raft.go, raft_node.go) on every node of a cluster, joined by a          *)
(* RaftTransport that may delay, reorder or lose a call.                   *)
(*                                                                         *)
(* A node is three kinds of concurrent activity over one RWMutex: the Run  *)
(* goroutine (election timer, heartbeat ticker), the one-shot timer that   *)
(* NewRaftNode arms with time.AfterFunc, and the RPC handlers.  One action *)
(* is one critical section of r.mu, so the places where Run drops the lock *)
(* between reading and acting are interleaving points (variable pc).       *)
(***************************************************************************)
EXTENDS Naturals, Sequences, FiniteSets

CONSTANTS Node,         \* node ids; the peers of n are Node \ {n}
          Command,      \* commands a client proposes
          None,         \* votedFor = ""
          MaxTerm,      \* bound: no election starts above this term
          MaxLog,       \* bound: no proposal makes a log longer than this
          MaxInFlight,  \* bound: AppendEntries calls in flight at once
          MaxFired,     \* bound: nodes on which the AfterFunc timer fires
          MaxStopped,   \* bound: nodes that are stopped
          MaxAtOnce,    \* bound: elections under way, fired timers, stops, failed calls and commits, together
          MaxFailures   \* bound: RequestVote calls that return an error

ASSUME NodeAssumption == IsFiniteSet(Node) /\ None \notin Node
ASSUME BoundAssumption ==
  \A bound \in {MaxTerm, MaxLog, MaxInFlight, MaxFired, MaxStopped,
                  MaxAtOnce, MaxFailures} : bound \in Nat

VARIABLES
  state,        \* role of each node
  currentTerm,
  votedFor,
  log,
  commitIndex,
  timer,        \* the one-shot AfterFunc timer of NewRaftNode
  pc,           \* where the Run goroutine of the node is
  electionTerm, \* startElection's local variable term
  waiting,      \* peers whose RequestVote call startElection still waits for
  votes,        \* nodes counted in startElection's local variable votes
  failures,     \* number of RequestVote calls that returned an error
  voteReqs,     \* RequestVote calls in flight
  appendReqs,   \* AppendEntries calls in flight
  granted,      \* history: <<voter, term, candidate>> for every vote given
  won           \* history: <<node, term>> for every passed majority check

nodeVars == <<state, currentTerm, votedFor>>
logVars  == <<log, commitIndex>>
runVars  == <<pc, electionTerm, waiting, votes>>
vars == <<state, currentTerm, votedFor, log, commitIndex, timer, pc,
          electionTerm, waiting, votes, failures, voteReqs, appendReqs, granted, won>>

Follower  == "follower"
Candidate == "candidate"
Leader    == "leader"

Entry == [index : Nat \ {0}, term : Nat, cmd : Command]

VoteReq == [to : Node, term : Nat, candidate : Node, lastIndex : Nat, lastTerm : Nat]

AppendReq == [to : Node, term : Nat, leaderCommit : Nat, prevIndex : Nat,
              prevTerm : Nat, entries : Seq(Entry)]

\* "won" is between the majority check and BecomeLeader, "beat" is inside
\* sendHeartbeats before it reads the term.
RunPC == {"idle", "requesting", "polling", "won", "beat", "stopped"}

peers(n) == Node \ {n}

LastTerm(lg) == IF lg = <<>> THEN 0 ELSE lg[Len(lg)].term

MinOf(a, b) == IF a < b THEN a ELSE b

----------------------------------------------------------------------------
\* What NewRaftNode leaves behind on every node but for its role and Run.
InitNode ==
  /\ currentTerm = [n \in Node |-> 0]
  /\ votedFor = [n \in Node |-> None]
  /\ log = [n \in Node |-> <<>>]
  /\ commitIndex = [n \in Node |-> 0]
  /\ timer = [n \in Node |-> "armed"]
  /\ electionTerm = [n \in Node |-> 0]
  /\ waiting = [n \in Node |-> {}]
  /\ votes = [n \in Node |-> {}]
  /\ failures = 0
  /\ voteReqs = {}
  /\ appendReqs = {}
  /\ granted = {}
  /\ won = {}

\* NewRaftNode on every node, transports registered and Run started.
Init ==
  /\ InitNode
  /\ state = [n \in Node |-> Follower]
  /\ pc = [n \in Node |-> "idle"]

----------------------------------------------------------------------------
(* Elections                                                               *)

\* The critical section of BecomeCandidate: a new term, and a vote for itself.
BecomeCandidate(n) ==
  /\ currentTerm[n] < MaxTerm
  /\ currentTerm' = [currentTerm EXCEPT ![n] = @ + 1]
  /\ state' = [state EXCEPT ![n] = Candidate]
  /\ votedFor' = [votedFor EXCEPT ![n] = n]
  /\ granted' = granted \cup {<<n, currentTerm[n] + 1, n>>}
  /\ UNCHANGED <<logVars, electionTerm, waiting, votes, voteReqs, appendReqs, won, failures>>

\* What MaxAtOnce bounds: elections under way, fired timers, stopped nodes (those that
\* never ran Run included), failed calls and, twice, nodes with a commit.
AtOnce ==
  Cardinality({p \in Node : pc[p] \in {"requesting", "polling", "won", "stopped"}})
    + Cardinality({p \in Node : timer[p] = "fired"}) + failures
    + 2 * Cardinality({p \in Node : commitIndex[p] > 0})

\* The timer armed by NewRaftNode fires, once, whatever the node is doing by
\* then: nothing re-arms it or stops it but Stop.
AfterFuncFires(n) ==
  /\ timer[n] = "armed"
  /\ Cardinality({p \in Node : timer[p] = "fired"}) < MaxFired /\ AtOnce < MaxAtOnce
  /\ timer' = [timer EXCEPT ![n] = "fired"]
  /\ BecomeCandidate(n)
  /\ UNCHANGED pc

\* Run: the election timer fired and the node is not leader.  Only Run makes a
\* node leader, so the role it read still allows the election when
\* BecomeCandidate takes the lock.
ElectionTimeout(n) ==
  /\ pc[n] = "idle"
  /\ state[n] # Leader
  /\ AtOnce < MaxAtOnce
  /\ BecomeCandidate(n)
  /\ pc' = [pc EXCEPT ![n] = "requesting"]
  /\ UNCHANGED timer

\* startElection reads the term and the log again under a lock of its own and
\* calls every peer; its own vote is counted without looking at votedFor.
RequestVotes(n) ==
  /\ pc[n] = "requesting"
  /\ pc' = [pc EXCEPT ![n] = "polling"]
  /\ electionTerm' = [electionTerm EXCEPT ![n] = currentTerm[n]]
  /\ waiting' = [waiting EXCEPT ![n] = peers(n)]
  /\ votes' = [votes EXCEPT ![n] = {n}]
  /\ voteReqs' = voteReqs \cup
       {[to |-> p, term |-> currentTerm[n], candidate |-> n,
         lastIndex |-> Len(log[n]), lastTerm |-> LastTerm(log[n])] : p \in peers(n)}
  /\ UNCHANGED <<nodeVars, logVars, timer, appendReqs, granted, won, failures>>

\* Mutant of GrantsVote: the vote already given in this term is not looked at.
GrantsVote_IgnoresVote(n, m) ==
  /\ m.term >= currentTerm[n]
  /\ m.lastTerm >= LastTerm(log[n])
  /\ m.lastTerm = LastTerm(log[n]) => m.lastIndex >= Len(log[n])

\* The conditions under which RequestVote gives its vote to request m, once
\* the term of m has been adopted.
GrantsVote(n, m) ==
  LET vf == IF m.term > currentTerm[n] THEN None ELSE votedFor[n]
  IN  /\ m.term >= currentTerm[n]
      /\ vf \in {None, m.candidate}
      /\ m.lastTerm >= LastTerm(log[n])
      /\ m.lastTerm = LastTerm(log[n]) => m.lastIndex >= Len(log[n])

\* The voter's critical section in RequestVote; adopting a newer term clears
\* the vote even when the new request is then refused.
RequestVote(n, m) ==
  /\ IF m.term > currentTerm[n]
     THEN /\ currentTerm' = [currentTerm EXCEPT ![n] = m.term]
          /\ state' = [state EXCEPT ![n] = Follower]
     ELSE UNCHANGED <<currentTerm, state>>
  /\ IF GrantsVote(n, m)
     THEN /\ votedFor' = [votedFor EXCEPT ![n] = m.candidate]
          /\ granted' = granted \cup {<<n, m.term, m.candidate>>}
     ELSE /\ votedFor' = [votedFor EXCEPT
                            ![n] = IF m.term > currentTerm[n] THEN None ELSE @]
          /\ UNCHANGED granted

\* Does the caller of vote request m still wait for its answer?
StillWaiting(m) ==
  /\ pc[m.candidate] = "polling"
  /\ electionTerm[m.candidate] = m.term
  /\ m.to \in waiting[m.candidate]

\* A RequestVote call reaches its peer.  Its answer reaches the caller
\* (answered) or is lost; a caller that gave up does not see it.
HandleRequestVote(m, answered) ==
  /\ m \in voteReqs
  /\ answered => StillWaiting(m)
  /\ voteReqs' = voteReqs \ {m}
  /\ RequestVote(m.to, m)
  /\ IF answered
     THEN /\ waiting' = [waiting EXCEPT ![m.candidate] = @ \ {m.to}]
          /\ votes' = [votes EXCEPT ![m.candidate] =
                         IF GrantsVote(m.to, m) THEN @ \cup {m.to} ELSE @]
     ELSE UNCHANGED <<waiting, votes>>
  /\ UNCHANGED <<logVars, timer, pc, electionTerm, appendReqs, won, failures>>

\* SendRequestVote returns an error: the vote is not counted, and the request
\* may still be on its way.
VoteCallFails(n, p) ==
  /\ pc[n] = "polling"
  /\ p \in waiting[n]
  /\ failures < MaxFailures /\ AtOnce < MaxAtOnce
  /\ failures' = failures + 1
  /\ waiting' = [waiting EXCEPT ![n] = @ \ {p}]
  /\ UNCHANGED <<nodeVars, logVars, timer, pc, electionTerm, votes, voteReqs,
                 appendReqs, granted, won>>

IsMajority(S) == Cardinality(S) > Cardinality(Node) \div 2

\* What startElection checks once every call returned.
WinsElection(n) ==
  /\ state[n] = Candidate
  /\ currentTerm[n] = electionTerm[n]
  /\ IsMajority(votes[n])

\* startElection after wg.Wait: the check is one critical section, BecomeLeader
\* the next.  The local variables term and votes die here.
CheckVotes(n) ==
  /\ pc[n] = "polling"
  /\ waiting[n] = {}
  /\ IF WinsElection(n)
     THEN /\ pc' = [pc EXCEPT ![n] = "won"]
          /\ won' = won \cup {<<n, electionTerm[n]>>}
     ELSE /\ pc' = [pc EXCEPT ![n] = "idle"]
          /\ UNCHANGED won
  /\ electionTerm' = [electionTerm EXCEPT ![n] = 0]
  /\ votes' = [votes EXCEPT ![n] = {}]
  /\ UNCHANGED <<nodeVars, logVars, timer, waiting, voteReqs, appendReqs, granted, failures>>

\* BecomeLeader sets the role and looks at nothing.
BecomeLeader(n) ==
  /\ pc[n] = "won"
  /\ pc' = [pc EXCEPT ![n] = "beat"]
  /\ state' = [state EXCEPT ![n] = Leader]
  /\ UNCHANGED <<currentTerm, votedFor, logVars, timer, electionTerm, waiting,
                 votes, voteReqs, appendReqs, granted, won, failures>>

----------------------------------------------------------------------------
(* Heartbeats and replication                                              *)

\* Run: the heartbeat ticker fires; only a leader goes on to sendHeartbeats.
HeartbeatTick(n) ==
  /\ pc[n] = "idle"
  /\ pc' = [pc EXCEPT ![n] = IF state[n] = Leader THEN "beat" ELSE @]
  /\ UNCHANGED <<nodeVars, logVars, timer, electionTerm, waiting, votes,
                 voteReqs, appendReqs, granted, won, failures>>

\* Calls AppendEntries on every peer without waiting for the answers, which
\* nobody reads.
Broadcast(n, prevIndex, prevTerm, entries) ==
  LET calls == {[to |-> p, term |-> currentTerm[n], leaderCommit |-> commitIndex[n],
                 prevIndex |-> prevIndex, prevTerm |-> prevTerm,
                 entries |-> entries] : p \in peers(n)}
  IN  /\ Cardinality(appendReqs \cup calls) <= MaxInFlight
      /\ appendReqs' = appendReqs \cup calls

\* sendHeartbeats: the term is the one of now, not the one in which the node
\* was found to be leader; no log position is sent along.
SendHeartbeats(n) ==
  /\ pc[n] = "beat"
  /\ pc' = [pc EXCEPT ![n] = "idle"]
  /\ Broadcast(n, 0, 0, <<>>)
  /\ UNCHANGED <<nodeVars, logVars, timer, electionTerm, waiting, votes,
                 voteReqs, granted, won, failures>>

\* ReplicateAll: the last entry of the log, after its predecessor.
ReplicateAll(n) ==
  LET len == Len(log[n])
  IN  /\ state[n] = Leader
      /\ len > 0
      /\ Broadcast(n, len - 1, IF len > 1 THEN log[n][len - 1].term ELSE 0,
                   <<log[n][len]>>)
      /\ UNCHANGED <<nodeVars, logVars, timer, runVars, voteReqs, granted, won, failures>>

\* Mutant of Propose: the index is off by one.
Propose_FromZero(n, c) ==
  /\ state[n] = Leader
  /\ Len(log[n]) < MaxLog
  /\ log' = [log EXCEPT ![n] = Append(@, [index |-> Len(@),
                                          term |-> currentTerm[n], cmd |-> c])]
  /\ UNCHANGED <<nodeVars, commitIndex, timer, runVars, voteReqs, appendReqs,
                 granted, won, failures>>

\* Propose on a node that thinks it leads.
Propose(n, c) ==
  /\ state[n] = Leader
  /\ Len(log[n]) < MaxLog
  /\ log' = [log EXCEPT ![n] = Append(@, [index |-> Len(@) + 1,
                                          term |-> currentTerm[n], cmd |-> c])]
  /\ UNCHANGED <<nodeVars, commitIndex, timer, runVars, voteReqs, appendReqs,
                 granted, won, failures>>

\* SetCommitIndex, as a leader's caller uses it: with the index of an entry
\* of its log, without counting replicas.
SetCommitIndex(n, i) ==
  /\ state[n] = Leader
  /\ i \in DOMAIN log[n]
  /\ i > commitIndex[n] /\ AtOnce + 2 <= MaxAtOnce
  /\ commitIndex' = [commitIndex EXCEPT ![n] = i]
  /\ UNCHANGED <<nodeVars, log, timer, runVars, voteReqs, appendReqs, granted, won, failures>>

\* Mutant of HoldsPrev: a gap before the new entries is not noticed.
HoldsPrev_AcceptsGap(lg, m) ==
  m.prevIndex \in DOMAIN lg => lg[m.prevIndex].term = m.prevTerm

\* AppendEntries: does the follower hold the entry the request builds on?
HoldsPrev(lg, m) ==
  \/ m.prevIndex = 0
  \/ /\ m.prevIndex <= Len(lg)
     /\ lg[m.prevIndex].term = m.prevTerm

\* Mutant of AppendLog: the entries take their places and what follows them stays.
AppendLog_KeepsTail(lg, entries) ==
  [i \in DOMAIN lg \cup {entries[j].index : j \in DOMAIN entries} |->
     IF \E j \in DOMAIN entries : entries[j].index = i
     THEN entries[CHOOSE j \in DOMAIN entries : entries[j].index = i] ELSE lg[i]]

\* AppendEntries' loop: from the first entry that is missing or conflicts on,
\* the request's entries replace the rest of the log.
AppendLog(lg, entries) ==
  LET fresh == {i \in DOMAIN entries : \/ entries[i].index > Len(lg)
                                       \/ lg[entries[i].index].term # entries[i].term}
      first == CHOOSE i \in fresh : \A j \in fresh : i <= j
  IN  IF fresh = {} THEN lg
      ELSE SubSeq(lg, 1, MinOf(entries[first].index - 1, Len(lg)))
             \o SubSeq(entries, first, Len(entries))

\* Mutant of AppendEntries: a heartbeat of the current term clears the vote.
AppendEntries_ClearsVote(n, m) ==
  /\ IF m.term >= currentTerm[n]
     THEN /\ currentTerm' = [currentTerm EXCEPT ![n] = m.term]
          /\ state' = [state EXCEPT ![n] = Follower]
          /\ votedFor' = [votedFor EXCEPT ![n] = None]
     ELSE UNCHANGED nodeVars
  /\ UNCHANGED logVars

\* AppendEntries: a stale call changes nothing; a newer term is adopted even
\* when the entries are then refused; an equal term leaves the role alone.
AppendEntries(n, m) ==
  LET accept == m.term >= currentTerm[n] /\ HoldsPrev(log[n], m)
      newLog == AppendLog(log[n], m.entries)
  IN  /\ IF m.term > currentTerm[n]
         THEN /\ currentTerm' = [currentTerm EXCEPT ![n] = m.term]
              /\ state' = [state EXCEPT ![n] = Follower]
              /\ votedFor' = [votedFor EXCEPT ![n] = None]
         ELSE UNCHANGED nodeVars
      /\ IF accept
         THEN /\ log' = [log EXCEPT ![n] = newLog]
              /\ commitIndex' = [commitIndex EXCEPT ![n] =
                   IF m.leaderCommit > @ THEN MinOf(m.leaderCommit, Len(newLog)) ELSE @]
         ELSE UNCHANGED logVars

\* An AppendEntries call reaches its peer.
HandleAppendEntries(m) ==
  /\ m \in appendReqs
  /\ appendReqs' = appendReqs \ {m}
  /\ AppendEntries(m.to, m)
  /\ UNCHANGED <<timer, runVars, voteReqs, granted, won, failures>>

\* SendAppendEntries fails before the peer sees the call.
LoseAppendEntries(m) ==
  /\ m \in appendReqs
  /\ appendReqs' = appendReqs \ {m}
  /\ UNCHANGED <<nodeVars, logVars, timer, runVars, voteReqs, granted, won, failures>>

\* stopCh is closed and Stop called: Run returns from its select, the AfterFunc
\* timer is stopped, the handlers stay registered.
Stop(n) ==
  /\ pc[n] = "idle"
  /\ Cardinality({p \in Node : pc[p] = "stopped"}) < MaxStopped /\ AtOnce < MaxAtOnce
  /\ pc' = [pc EXCEPT ![n] = "stopped"]
  /\ timer' = [timer EXCEPT ![n] = IF @ = "armed" THEN "stopped" ELSE @]
  /\ UNCHANGED <<nodeVars, logVars, electionTerm, waiting, votes, voteReqs,
                 appendReqs, granted, won, failures>>

----------------------------------------------------------------------------
\* What the goroutines of node n do.
NodeStep(n) ==
  \/ AfterFuncFires(n)
  \/ ElectionTimeout(n)
  \/ RequestVotes(n)
  \/ \E p \in Node : VoteCallFails(n, p)
  \/ CheckVotes(n)
  \/ BecomeLeader(n)
  \/ HeartbeatTick(n)
  \/ SendHeartbeats(n)
  \/ ReplicateAll(n)
  \/ Stop(n)

\* What the transport does.
Arrival ==
  \/ \E m \in voteReqs, answered \in BOOLEAN : HandleRequestVote(m, answered)
  \/ \E m \in appendReqs : HandleAppendEntries(m) \/ LoseAppendEntries(m)

Next ==
  \/ \E n \in Node :
       \/ NodeStep(n)
       \/ \E c \in Command : Propose(n, c)
       \/ \E i \in DOMAIN log[n] : SetCommitIndex(n, i)
  \/ Arrival

Spec == Init /\ [][Next]_vars

----------------------------------------------------------------------------
(* Properties                                                              *)

\* Type invariant of RaftNode's fields, Run's local variables and the network.
TypeOK ==
  /\ state \in [Node -> {Follower, Candidate, Leader}]
  /\ currentTerm \in [Node -> Nat]
  /\ votedFor \in [Node -> Node \cup {None}]
  /\ log \in [Node -> Seq(Entry)]
  /\ commitIndex \in [Node -> Nat]
  /\ timer \in [Node -> {"armed", "fired", "stopped"}]
  /\ pc \in [Node -> RunPC]
  /\ electionTerm \in [Node -> Nat]
  /\ waiting \in [Node -> SUBSET Node]
  /\ votes \in [Node -> SUBSET Node]
  /\ failures \in Nat
  /\ voteReqs \subseteq VoteReq
  /\ appendReqs \subseteq AppendReq
  /\ granted \subseteq (Node \X Nat \X Node)
  /\ won \subseteq (Node \X Nat)

\* At most one node passes startElection's majority check in a term, although
\* the node counts its own vote without checking it, rereads the term after
\* BecomeCandidate released the lock and shares it with the AfterFunc timer.
OneWinnerPerTerm ==
  \A w1, w2 \in won : w1[2] = w2[2] => w1[1] = w2[1]

\* Every entry sits at the position its Index field names, on every node:
\* AppendEntries' slicing with ent.Index never leaves or closes a gap.
LogIndexed ==
  \A n \in Node : \A i \in DOMAIN log[n] : log[n][i].index = i

\* Terms never decrease along a log and never exceed the term of the node that
\* holds it, so RequestVote's comparison of last terms compares recency.
LogTermsOrdered ==
  \A n \in Node : \A i \in DOMAIN log[n] :
    /\ log[n][i].term <= currentTerm[n]
    /\ i > 1 => log[n][i - 1].term <= log[n][i].term

\* What a step may do to a node's term and vote.
VoteKept ==
  \A n \in Node :
    /\ currentTerm'[n] >= currentTerm[n]
    /\ currentTerm'[n] = currentTerm[n] /\ votedFor[n] # None
         => votedFor'[n] = votedFor[n]

\* No handler and no timer takes a term back, or changes a vote within a term.
VoteOncePerTerm == [][VoteKept]_vars

\* A leader is a node that passed the majority check for its current term
\* ("Check if we got majority and are still candidate.", startElection).  Does not
\* hold: a newer term may come between the check and BecomeLeader.
LeaderWonItsTerm ==
  \A n \in Node : state[n] = Leader => <<n, currentTerm[n]>> \in won
=============================================================================
