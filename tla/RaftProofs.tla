----------------------------- MODULE RaftProofs -----------------------------
(***************************************************************************)
(* Theorems about Raft for any finite set of nodes and any bounds, and     *)
(* about the quorum queues that run on it: in general, and with one node   *)
(* that may lead.                                                          *)
(***************************************************************************)
EXTENDS QuorumQueue, Basics, FiniteSetTheorems, SequenceTheorems, TLAPS

USE DEF Follower, Candidate, Leader

----------------------------------------------------------------------------
(* The log operations                                                      *)

\* Where AppendEntries' loop stops: the first entry that is missing from the
\* log or conflicts with it.
FreshEntries(lg, es) ==
  {i \in DOMAIN es : \/ es[i].index > Len(lg)
                     \/ lg[es[i].index].term # es[i].term}

\* Either the whole request is in the log already, or there is a first fresh
\* entry and AppendLog cuts the log before it.
LEMMA AppendLogCases ==
  ASSUME NEW lg \in Seq(Entry), NEW es \in Seq(Entry)
  PROVE  \/ /\ FreshEntries(lg, es) = {}
            /\ AppendLog(lg, es) = lg
         \/ \E f \in FreshEntries(lg, es) :
              /\ \A j \in FreshEntries(lg, es) : f <= j
              /\ AppendLog(lg, es) = SubSeq(lg, 1, MinOf(es[f].index - 1, Len(lg)))
                                       \o SubSeq(es, f, Len(es))
<1> DEFINE F == FreshEntries(lg, es)
<1> DEFINE first == CHOOSE i \in F : \A j \in F : i <= j
<1>0. F \subseteq Nat
  BY DEF FreshEntries
<1>1. CASE F = {}
  BY <1>1 DEF AppendLog, FreshEntries
<1>2. CASE F # {}
  <2>1. \E i \in F : \A j \in F : i <= j
    BY <1>0, <1>2, LeastNat
  <2>2. first \in F /\ \A j \in F : first <= j
    BY <2>1
  <2>3. AppendLog(lg, es) = SubSeq(lg, 1, MinOf(es[first].index - 1, Len(lg)))
                              \o SubSeq(es, first, Len(es))
    BY <1>2 DEF AppendLog, FreshEntries
  <2>4. QED BY <2>2, <2>3
<1>3. QED BY <1>1, <1>2

\* AppendEntries keeps a log a sequence of entries.
LEMMA AppendLogType ==
  ASSUME NEW lg \in Seq(Entry), NEW es \in Seq(Entry)
  PROVE  AppendLog(lg, es) \in Seq(Entry)
<1>1. CASE AppendLog(lg, es) = lg
  BY <1>1
<1>2. ASSUME NEW f \in FreshEntries(lg, es),
             AppendLog(lg, es) = SubSeq(lg, 1, MinOf(es[f].index - 1, Len(lg)))
                                       \o SubSeq(es, f, Len(es))
      PROVE  AppendLog(lg, es) \in Seq(Entry)
  <2>1. f \in 1..Len(es) /\ es[f] \in Entry
    BY ElementOfSeq DEF FreshEntries
  <2>2. MinOf(es[f].index - 1, Len(lg)) \in 0..Len(lg)
    BY <2>1 DEF MinOf, Entry
  <2>3. SubSeq(lg, 1, MinOf(es[f].index - 1, Len(lg))) \in Seq(Entry)
    BY <2>2, SubSeqProperties
  <2>4. SubSeq(es, f, Len(es)) \in Seq(Entry)
    BY <2>1, SubSeqProperties
  <2>5. QED BY <1>2, <2>3, <2>4, ConcatProperties
<1>3. QED BY <1>1, <1>2, AppendLogCases

----------------------------------------------------------------------------
(* Type correctness                                                        *)

\* The initial state is well typed.
LEMMA InitType == Init => TypeOK
BY EmptySeq, NodeAssumption DEF Init, InitNode, TypeOK, RunPC

\* The last term of a log is a term.
LEMMA LastTermType ==
  ASSUME NEW lg \in Seq(Entry)
  PROVE  LastTerm(lg) \in Nat
<1>1. CASE lg = <<>>
  BY <1>1 DEF LastTerm
<1>2. CASE lg # <<>>
  <2>1. Len(lg) \in 1..Len(lg)
    BY <1>2, EmptySeq, LenProperties
  <2>2. lg[Len(lg)] \in Entry
    BY <2>1, ElementOfSeq
  <2>3. QED BY <1>2, <2>2 DEF LastTerm, Entry
<1>3. QED BY <1>1, <1>2

\* The calls of a broadcast are well typed.
LEMMA BroadcastType ==
  ASSUME TypeOK, NEW n \in Node, NEW prevIndex \in Nat, NEW prevTerm \in Nat,
         NEW entries \in Seq(Entry), Broadcast(n, prevIndex, prevTerm, entries)
  PROVE  appendReqs' \subseteq AppendReq
BY DEF TypeOK, Broadcast, AppendReq, peers

\* Every step keeps the types.
LEMMA NextType == TypeOK /\ [Next]_vars => TypeOK'
<1> SUFFICES ASSUME TypeOK, [Next]_vars PROVE TypeOK'
  OBVIOUS
<1> USE DEF TypeOK, nodeVars, logVars, runVars
<1>1. ASSUME NEW n \in Node, AfterFuncFires(n) PROVE TypeOK'
  BY <1>1 DEF AfterFuncFires, BecomeCandidate
<1>2. ASSUME NEW n \in Node, ElectionTimeout(n) PROVE TypeOK'
  BY <1>2 DEF ElectionTimeout, BecomeCandidate, RunPC
<1>3. ASSUME NEW n \in Node, RequestVotes(n) PROVE TypeOK'
  <2>1. Len(log[n]) \in Nat /\ LastTerm(log[n]) \in Nat
    BY LastTermType, LenProperties
  <2>2. voteReqs' \subseteq VoteReq
    BY <1>3, <2>1 DEF RequestVotes, peers, VoteReq
  <2>3. QED BY <1>3, <2>2 DEF RequestVotes, RunPC, peers
<1>4. ASSUME NEW n \in Node, NEW p \in Node, VoteCallFails(n, p) PROVE TypeOK'
  BY <1>4 DEF VoteCallFails
<1>5. ASSUME NEW n \in Node, CheckVotes(n) PROVE TypeOK'
  <2>1. won' \subseteq Node \X Nat
    BY <1>5 DEF CheckVotes
  <2>2. pc' \in [Node -> RunPC]
    BY <1>5 DEF CheckVotes, RunPC
  <2>3. QED BY <1>5, <2>1, <2>2 DEF CheckVotes
<1>6. ASSUME NEW n \in Node, BecomeLeader(n) PROVE TypeOK'
  BY <1>6 DEF BecomeLeader, RunPC
<1>7. ASSUME NEW n \in Node, HeartbeatTick(n) PROVE TypeOK'
  BY <1>7 DEF HeartbeatTick, RunPC
<1>8. ASSUME NEW n \in Node, SendHeartbeats(n) PROVE TypeOK'
  <2>1. appendReqs' \subseteq AppendReq
    BY <1>8, BroadcastType, EmptySeq DEF SendHeartbeats
  <2>2. QED BY <1>8, <2>1 DEF SendHeartbeats, RunPC
<1>9. ASSUME NEW n \in Node, ReplicateAll(n) PROVE TypeOK'
  <2> DEFINE len == Len(log[n])
             prevTerm == IF len > 1 THEN log[n][len - 1].term ELSE 0
  <2>1. len \in Nat \ {0}
    BY <1>9, LenProperties DEF ReplicateAll
  <2>2. log[n][len] \in Entry /\ (len > 1 => log[n][len - 1] \in Entry)
    BY <2>1, ElementOfSeq
  <2>3. len - 1 \in Nat /\ prevTerm \in Nat /\ <<log[n][len]>> \in Seq(Entry)
    BY <2>1, <2>2 DEF Entry
  <2>4. Broadcast(n, len - 1, prevTerm, <<log[n][len]>>)
    BY <1>9 DEF ReplicateAll
  <2> HIDE DEF len, prevTerm
  <2>5. appendReqs' \subseteq AppendReq
    BY <2>3, <2>4, BroadcastType
  <2>6. QED BY <1>9, <2>5 DEF ReplicateAll
<1>10. ASSUME NEW n \in Node, NEW c \in Command, Propose(n, c) PROVE TypeOK'
  <2> DEFINE e == [index |-> Len(log[n]) + 1, term |-> currentTerm[n], cmd |-> c]
  <2>1. e \in Entry
    BY LenProperties DEF Entry
  <2>2. Append(log[n], e) \in Seq(Entry)
    BY <2>1, AppendProperties
  <2>3. log' = [log EXCEPT ![n] = Append(log[n], e)]
    BY <1>10 DEF Propose
  <2> HIDE DEF e
  <2>4. log' \in [Node -> Seq(Entry)]
    BY <2>2, <2>3
  <2>5. QED BY <1>10, <2>4 DEF Propose
<1>11. ASSUME NEW n \in Node, NEW i \in DOMAIN log[n], SetCommitIndex(n, i) PROVE TypeOK'
  <2>1. i \in Nat
    BY LenProperties
  <2>2. QED BY <1>11, <2>1 DEF SetCommitIndex
<1>12. ASSUME NEW n \in Node, Stop(n) PROVE TypeOK'
  BY <1>12 DEF Stop, RunPC
<1>13. ASSUME NEW m \in voteReqs, NEW answered \in BOOLEAN, HandleRequestVote(m, answered)
       PROVE  TypeOK'
  <2>1. m \in VoteReq
    OBVIOUS
  <2>2. m.to \in Node /\ m.candidate \in Node /\ m.term \in Nat
    BY <2>1 DEF VoteReq
  <2>3. /\ state' \in [Node -> {Follower, Candidate, Leader}]
        /\ currentTerm' \in [Node -> Nat]
        /\ votedFor' \in [Node -> Node \cup {None}]
        /\ granted' \subseteq (Node \X Nat \X Node)
    <3>1. CASE GrantsVote(m.to, m)
      <4>1. /\ votedFor' = [votedFor EXCEPT ![m.to] = m.candidate]
            /\ granted' = granted \cup {<<m.to, m.term, m.candidate>>}
        BY <1>13, <3>1 DEF HandleRequestVote, RequestVote
      <4>2. /\ state' \in [Node -> {Follower, Candidate, Leader}]
            /\ currentTerm' \in [Node -> Nat]
        BY <1>13, <2>2 DEF HandleRequestVote, RequestVote
      <4>3. <<m.to, m.term, m.candidate>> \in Node \X Nat \X Node
        BY <2>2
      <4>4. granted' \subseteq Node \X Nat \X Node
        BY <4>1, <4>3
      <4>5. QED BY <2>2, <4>1, <4>2, <4>4
    <3>2. CASE ~GrantsVote(m.to, m)
      BY <1>13, <2>2, <3>2 DEF HandleRequestVote, RequestVote
    <3>3. QED BY <3>1, <3>2
  <2>4. waiting' \in [Node -> SUBSET Node] /\ votes' \in [Node -> SUBSET Node]
    <3>1. CASE answered /\ GrantsVote(m.to, m)
      <4>1. /\ waiting' = [waiting EXCEPT ![m.candidate] = @ \ {m.to}]
            /\ votes' = [votes EXCEPT ![m.candidate] = @ \cup {m.to}]
        BY <1>13, <3>1, Zenon DEF HandleRequestVote
      <4>2. QED BY <2>2, <4>1
    <3>2. CASE answered /\ ~GrantsVote(m.to, m)
      <4>1. /\ waiting' = [waiting EXCEPT ![m.candidate] = @ \ {m.to}]
            /\ votes' = [votes EXCEPT ![m.candidate] = @]
        BY <1>13, <3>2, Zenon DEF HandleRequestVote
      <4>2. QED BY <2>2, <4>1
    <3>3. CASE ~answered
      BY <1>13, <2>2, <3>3 DEF HandleRequestVote
    <3>4. QED BY <3>1, <3>2, <3>3
  <2>5. QED BY <1>13, <2>3, <2>4 DEF HandleRequestVote
<1>14. ASSUME NEW m \in appendReqs, HandleAppendEntries(m) PROVE TypeOK'
  <2>1. m.to \in Node /\ m.term \in Nat /\ m.leaderCommit \in Nat /\ m.entries \in Seq(Entry)
    BY DEF AppendReq
  <2> DEFINE newLog == AppendLog(log[m.to], m.entries)
  <2>2. newLog \in Seq(Entry) /\ Len(newLog) \in Nat
    BY <2>1, AppendLogType, LenProperties
  <2>3. /\ state' \in [Node -> {Follower, Candidate, Leader}]
        /\ currentTerm' \in [Node -> Nat]
        /\ votedFor' \in [Node -> Node \cup {None}]
    BY <1>14, <2>1 DEF HandleAppendEntries, AppendEntries
  <2>4. log' \in [Node -> Seq(Entry)] /\ commitIndex' \in [Node -> Nat]
    <3>1. CASE UNCHANGED logVars
      BY <3>1
    <3>2. CASE /\ log' = [log EXCEPT ![m.to] = newLog]
               /\ commitIndex' = [commitIndex EXCEPT ![m.to] =
                    IF m.leaderCommit > @ THEN MinOf(m.leaderCommit, Len(newLog)) ELSE @]
      <4> HIDE DEF newLog
      <4>1. QED BY <2>1, <2>2, <3>2 DEF MinOf
    <3>3. QED BY <1>14, <3>1, <3>2 DEF HandleAppendEntries, AppendEntries
  <2>5. QED BY <1>14, <2>3, <2>4 DEF HandleAppendEntries
<1>15. ASSUME NEW m \in appendReqs, LoseAppendEntries(m) PROVE TypeOK'
  BY <1>15 DEF LoseAppendEntries
<1>16. CASE UNCHANGED vars
  BY <1>16 DEF vars
<1>17. QED
  BY <1>1, <1>2, <1>3, <1>4, <1>5, <1>6, <1>7, <1>8, <1>9, <1>10, <1>11, <1>12,
     <1>13, <1>14, <1>15, <1>16 DEF Next, NodeStep, Arrival

\* RaftNode's fields, Run's local variables and the calls in flight always
\* have their types, whatever the interleaving of Run, timers and handlers.
THEOREM TypeCorrect == Spec => []TypeOK
BY InitType, NextType, PTL DEF Spec

----------------------------------------------------------------------------
(* One winner per term                                                     *)

\* A vote on record belongs to a term the voter has reached, and is still the
\* voter's vote if that is its current term.
VotesRecorded ==
  \A v, c \in Node, t \in Nat : <<v, t, c>> \in granted =>
    /\ t <= currentTerm[v]
    /\ t = currentTerm[v] => votedFor[v] = c

\* No node has voted twice in a term.
VotesUnique ==
  \A v, c, d \in Node, t \in Nat :
    <<v, t, c>> \in granted /\ <<v, t, d>> \in granted => c = d

\* A candidate has voted for itself in its current term.
CandidateVoted ==
  \A n \in Node : state[n] = Candidate => <<n, currentTerm[n], n>> \in granted

\* Every peer counted by an election has voted for the candidate in the term
\* of that election (the candidate's own vote is only known at the check).
CountedVotes ==
  \A n, p \in Node :
    pc[n] = "polling" /\ p \in votes[n] /\ p # n => <<p, electionTerm[n], n>> \in granted

\* A node that passed the check has the votes of a majority.
WonByMajority ==
  \A n \in Node, t \in Nat : <<n, t>> \in won =>
    \E Q \in SUBSET Node : IsMajority(Q) /\ \A p \in Q : <<p, t, n>> \in granted

\* The inductive invariant of elections.
ElectionInv ==
  /\ VotesRecorded
  /\ VotesUnique
  /\ CandidateVoted
  /\ CountedVotes
  /\ WonByMajority

\* Votes are never taken back, so a majority stays one.
LEMMA WonKept ==
  ASSUME WonByMajority, won' = won, granted \subseteq granted'
  PROVE  WonByMajority'
<1> SUFFICES ASSUME NEW n \in Node, NEW t \in Nat, <<n, t>> \in won
             PROVE  \E Q \in SUBSET Node :
                      IsMajority(Q) /\ \A p \in Q : <<p, t, n>> \in granted'
  BY Zenon DEF WonByMajority, IsMajority
<1>1. PICK Q \in SUBSET Node : IsMajority(Q) /\ \A p \in Q : <<p, t, n>> \in granted
  BY Zenon DEF WonByMajority
<1>2. QED BY <1>1, Zenon

\* A step that gives no vote, starts no election and counts none.
LEMMA NoVoteStep ==
  ASSUME TypeOK, ElectionInv, granted' = granted, won' = won,
         UNCHANGED <<votes, electionTerm>>,
         \A n \in Node : pc'[n] = "polling" => pc[n] = "polling",
         \A n \in Node : state'[n] = Candidate
            => state[n] = Candidate /\ currentTerm'[n] = currentTerm[n],
         currentTerm' \in [Node -> Nat],
         \A n \in Node : \/ currentTerm'[n] > currentTerm[n]
                         \/ currentTerm'[n] = currentTerm[n] /\ votedFor'[n] = votedFor[n]
  PROVE  ElectionInv'
<1> USE DEF ElectionInv
<1>1. VotesRecorded'
  <2> SUFFICES ASSUME NEW v \in Node, NEW c \in Node, NEW t \in Nat, <<v, t, c>> \in granted
               PROVE  /\ t <= currentTerm'[v]
                      /\ t = currentTerm'[v] => votedFor'[v] = c
    BY DEF VotesRecorded
  <2>1. t <= currentTerm[v] /\ (t = currentTerm[v] => votedFor[v] = c)
    BY DEF VotesRecorded
  <2>2. currentTerm[v] \in Nat /\ currentTerm'[v] \in Nat
    BY DEF TypeOK
  <2>3. QED BY <2>1, <2>2
<1>2. VotesUnique'
  BY DEF VotesUnique
<1>3. CandidateVoted'
  BY DEF CandidateVoted
<1>4. CountedVotes'
  BY DEF CountedVotes
<1>5. WonByMajority'
  <2>1. WonByMajority /\ won' = won /\ granted \subseteq granted'
    OBVIOUS
  <2>2. QED BY <2>1, WonKept, Zenon
<1>6. QED BY <1>1, <1>2, <1>3, <1>4, <1>5

\* A node that enters a term above every term it voted in and votes there.
LEMMA NewVote ==
  ASSUME TypeOK, ElectionInv, NEW v \in Node, NEW c \in Node, NEW t \in Nat,
         t >= currentTerm[v],
         t = currentTerm[v] => votedFor[v] \in {None, c},
         granted' = granted \cup {<<v, t, c>>},
         votedFor' = [votedFor EXCEPT ![v] = c],
         currentTerm' = [currentTerm EXCEPT ![v] = t],
         won' = won
  PROVE  VotesRecorded' /\ VotesUnique' /\ WonByMajority'
<1> USE DEF ElectionInv
<1>1. ASSUME NEW d \in Node, <<v, t, d>> \in granted PROVE d = c
  BY <1>1, NodeAssumption DEF VotesRecorded, TypeOK
<1>2. ASSUME NEW w \in Node, NEW d \in Node, NEW u \in Nat, <<w, u, d>> \in granted'
      PROVE  <<w, u, d>> \in granted \/ (w = v /\ u = t /\ d = c)
  BY <1>2
<1>3. VotesRecorded'
  <2> SUFFICES ASSUME NEW w \in Node, NEW d \in Node, NEW u \in Nat, <<w, u, d>> \in granted'
               PROVE  /\ u <= currentTerm'[w]
                      /\ u = currentTerm'[w] => votedFor'[w] = d
    BY DEF VotesRecorded
  <2>1. currentTerm \in [Node -> Nat] /\ votedFor \in [Node -> Node \cup {None}]
    BY DEF TypeOK
  <2>2. CASE w = v /\ u = t /\ d = c
    BY <2>1, <2>2
  <2>3. CASE <<w, u, d>> \in granted /\ w # v
    BY <2>1, <2>3 DEF VotesRecorded
  <2>4. CASE <<w, u, d>> \in granted /\ w = v
    <3>1. u <= currentTerm[v]
      BY <2>4 DEF VotesRecorded
    <3>2. currentTerm'[v] = t /\ votedFor'[v] = c
      BY <2>1
    <3>3. u = t => d = c
      BY <1>1, <2>4
    <3>4. QED BY <2>1, <2>4, <3>1, <3>2, <3>3
  <2>5. QED BY <1>2, <2>2, <2>3, <2>4
<1>4. VotesUnique'
  BY <1>1, <1>2 DEF VotesUnique
<1>5. WonByMajority'
  <2>1. WonByMajority /\ won' = won /\ granted \subseteq granted'
    OBVIOUS
  <2>2. QED BY <2>1, WonKept, Zenon
<1>6. QED BY <1>3, <1>4, <1>5

\* Elections start with no vote given.
LEMMA InitElection == Init => ElectionInv
BY DEF Init, InitNode, ElectionInv, VotesRecorded, VotesUnique, CandidateVoted, CountedVotes,
       WonByMajority

\* BecomeCandidate votes in a term the node has not voted in.
LEMMA CandidateElection ==
  ASSUME TypeOK, ElectionInv, NEW n \in Node, BecomeCandidate(n),
         \A p \in Node : pc'[p] = "polling" => pc[p] = "polling"
  PROVE  ElectionInv'
<1>1. VotesRecorded' /\ VotesUnique' /\ WonByMajority'
  <2>1. /\ currentTerm[n] \in Nat
        /\ currentTerm' = [currentTerm EXCEPT ![n] = currentTerm[n] + 1]
        /\ votedFor' = [votedFor EXCEPT ![n] = n]
        /\ granted' = granted \cup {<<n, currentTerm[n] + 1, n>>}
        /\ won' = won
    BY DEF BecomeCandidate, TypeOK
  <2> DEFINE t == currentTerm[n] + 1
  <2>2. t \in Nat /\ t >= currentTerm[n] /\ t # currentTerm[n]
    BY <2>1
  <2> HIDE DEF t
  <2>3. QED BY <2>1, <2>2, NewVote DEF t
<1>2. CandidateVoted'
  BY DEF CandidateVoted, BecomeCandidate, TypeOK, ElectionInv
<1>3. CountedVotes'
  BY DEF CountedVotes, BecomeCandidate, ElectionInv
<1>4. QED BY <1>1, <1>2, <1>3 DEF ElectionInv

\* startElection counts its own vote and asks for the others.
LEMMA RequestVotesElection ==
  ASSUME TypeOK, ElectionInv, NEW n \in Node, RequestVotes(n)
  PROVE  ElectionInv'
<1> USE DEF ElectionInv, RequestVotes, nodeVars
<1>1. VotesRecorded' /\ VotesUnique' /\ CandidateVoted'
  BY DEF VotesRecorded, VotesUnique, CandidateVoted
<1>2. WonByMajority'
  BY WonKept, Zenon
<1>3. CountedVotes'
  BY DEF CountedVotes, TypeOK
<1>4. QED BY <1>1, <1>2, <1>3

\* The majority check records a winner only with a majority of real votes: the
\* candidate's own vote is real because it is still candidate in that term.
LEMMA CheckVotesElection ==
  ASSUME TypeOK, ElectionInv, NEW n \in Node, CheckVotes(n)
  PROVE  ElectionInv'
<1> USE DEF ElectionInv, nodeVars
<1>1. VotesRecorded' /\ VotesUnique' /\ CandidateVoted'
  BY DEF VotesRecorded, VotesUnique, CandidateVoted, CheckVotes
<1>2. CountedVotes'
  BY DEF CountedVotes, TypeOK, CheckVotes
<1>3. CASE ~WinsElection(n)
  <2>1. won' = won /\ granted' = granted
    BY <1>3 DEF CheckVotes
  <2>2. QED BY <1>1, <1>2, <2>1, WonKept
<1>4. CASE WinsElection(n)
  <2>1. \A p \in votes[n] : <<p, electionTerm[n], n>> \in granted
    BY <1>4 DEF WinsElection, CandidateVoted, CountedVotes, CheckVotes, TypeOK
  <2>2. votes[n] \in SUBSET Node /\ IsMajority(votes[n])
    BY <1>4 DEF WinsElection, TypeOK
  <2>3. won' = won \cup {<<n, electionTerm[n]>>} /\ granted' = granted
    BY <1>4 DEF CheckVotes
  <2>4. ASSUME NEW p \in Node, NEW t \in Nat, <<p, t>> \in won'
        PROVE  \E Q \in SUBSET Node :
                 IsMajority(Q) /\ \A q \in Q : <<q, t, p>> \in granted'
    <3>1. CASE <<p, t>> \in won
      BY <2>3, <3>1, Zenon DEF WonByMajority
    <3>2. CASE p = n /\ t = electionTerm[n]
      BY <2>1, <2>2, <2>3, <3>2, Zenon
    <3>3. QED BY <2>3, <2>4, <3>1, <3>2
  <2>5. WonByMajority'
    BY <2>4, Zenon DEF WonByMajority, IsMajority
  <2>6. QED BY <1>1, <1>2, <2>5
<1>5. QED BY <1>3, <1>4

\* A voter answers a request.
LEMMA RequestVoteElection ==
  ASSUME TypeOK, ElectionInv, NEW m \in voteReqs, NEW answered \in BOOLEAN,
         HandleRequestVote(m, answered)
  PROVE  ElectionInv'
<1> DEFINE v == m.to
           c == m.candidate
<1>1. v \in Node /\ c \in Node /\ m.term \in Nat
  BY DEF TypeOK, VoteReq
<1>2. /\ currentTerm \in [Node -> Nat]
      /\ votedFor \in [Node -> Node \cup {None}]
      /\ votes \in [Node -> SUBSET Node]
      /\ state \in [Node -> {Follower, Candidate, Leader}]
  BY DEF TypeOK
<1>3. /\ \/ /\ m.term > currentTerm[v]
           /\ currentTerm' = [currentTerm EXCEPT ![v] = m.term]
           /\ state' = [state EXCEPT ![v] = Follower]
         \/ /\ m.term <= currentTerm[v]
            /\ currentTerm' = currentTerm
            /\ state' = state
      /\ pc' = pc /\ electionTerm' = electionTerm /\ won' = won
  BY <1>1, <1>2 DEF HandleRequestVote, RequestVote
<1>4. CASE GrantsVote(v, m)
  <2>1. /\ m.term >= currentTerm[v]
        /\ m.term = currentTerm[v] => votedFor[v] \in {None, c}
    BY <1>1, <1>2, <1>4 DEF GrantsVote
  <2>2. /\ votedFor' = [votedFor EXCEPT ![v] = c]
        /\ granted' = granted \cup {<<v, m.term, c>>}
    BY <1>4 DEF HandleRequestVote, RequestVote
  <2>3. currentTerm' = [currentTerm EXCEPT ![v] = m.term]
    BY <1>1, <1>2, <1>3, <2>1
  <2>4. VotesRecorded' /\ VotesUnique' /\ WonByMajority'
    <3>1. won' = won
      BY <1>3
    <3> HIDE DEF v, c
    <3>2. QED BY <1>1, <2>1, <2>2, <2>3, <3>1, NewVote
  <2>5. CandidateVoted'
    BY <1>1, <1>2, <1>3, <2>2 DEF CandidateVoted, ElectionInv
  <2>6. ASSUME NEW n \in Node, NEW p \in Node, pc'[n] = "polling", p \in votes'[n], p # n
        PROVE  <<p, electionTerm'[n], n>> \in granted'
    <3>1. CASE p \in votes[n]
      BY <1>3, <2>2, <2>6, <3>1 DEF CountedVotes, ElectionInv
    <3>2. CASE p \notin votes[n]
      <4>1. answered
        BY <2>6, <3>2 DEF HandleRequestVote
      <4>2. votes' = [votes EXCEPT ![c] = @ \cup {v}]
        BY <1>4, <4>1, Zenon DEF HandleRequestVote
      <4>3. n = c /\ p = v
        BY <1>1, <1>2, <2>6, <3>2, <4>2
      <4>4. electionTerm[c] = m.term
        BY <4>1 DEF HandleRequestVote, StillWaiting
      <4>5. QED BY <1>3, <2>2, <4>3, <4>4
    <3>3. QED BY <3>1, <3>2
  <2>7. CountedVotes'
    BY <2>6 DEF CountedVotes
  <2>8. QED BY <2>4, <2>5, <2>7 DEF ElectionInv
<1>5. CASE ~GrantsVote(v, m)
  <2>1. granted' = granted
    BY <1>5 DEF HandleRequestVote, RequestVote
  <2>2. votes' = votes
    <3>1. CASE answered
      BY <1>1, <1>2, <1>5, <3>1 DEF HandleRequestVote
    <3>2. CASE ~answered
      BY <3>2 DEF HandleRequestVote
    <3>3. QED BY <3>1, <3>2
  <2>3. m.term <= currentTerm[v] => votedFor' = votedFor
    <3>1. votedFor' = [votedFor EXCEPT ![v] = IF m.term > currentTerm[v] THEN None ELSE @]
      BY <1>5 DEF HandleRequestVote, RequestVote
    <3>2. QED BY <1>1, <1>2, <3>1
  <2>4. currentTerm' \in [Node -> Nat]
    BY <1>1, <1>2, <1>3
  <2>5. \A n \in Node : \/ currentTerm'[n] > currentTerm[n]
                        \/ currentTerm'[n] = currentTerm[n] /\ votedFor'[n] = votedFor[n]
    <3>1. votedFor' = votedFor \/ votedFor' = [votedFor EXCEPT ![v] = None]
      BY <1>1, <1>2, <1>5 DEF HandleRequestVote, RequestVote
    <3>2. QED BY <1>1, <1>2, <1>3, <2>3, <3>1
  <2>6. \A n \in Node : state'[n] = Candidate
            => state[n] = Candidate /\ currentTerm'[n] = currentTerm[n]
    BY <1>1, <1>2, <1>3
  <2>7. QED BY <1>3, <2>1, <2>2, <2>4, <2>5, <2>6, NoVoteStep
<1>6. QED BY <1>4, <1>5


\* Every step keeps the election invariant.
LEMMA NextElection == TypeOK /\ ElectionInv /\ [Next]_vars => ElectionInv'
<1> SUFFICES ASSUME TypeOK, ElectionInv, [Next]_vars PROVE ElectionInv'
  OBVIOUS
<1>0. TypeOK'
  BY NextType
<1> USE DEF nodeVars, logVars, runVars
<1>1. ASSUME NEW n \in Node, AfterFuncFires(n) PROVE ElectionInv'
  BY <1>1, CandidateElection DEF AfterFuncFires
<1>2. ASSUME NEW n \in Node, ElectionTimeout(n) PROVE ElectionInv'
  BY <1>2, CandidateElection DEF ElectionTimeout, TypeOK
<1>3. ASSUME NEW n \in Node, RequestVotes(n) PROVE ElectionInv'
  BY <1>3, RequestVotesElection
<1>4. ASSUME NEW n \in Node, NEW p \in Node, VoteCallFails(n, p) PROVE ElectionInv'
  BY <1>4, NoVoteStep DEF VoteCallFails, TypeOK
<1>5. ASSUME NEW n \in Node, CheckVotes(n) PROVE ElectionInv'
  BY <1>5, CheckVotesElection
<1>6. ASSUME NEW n \in Node, BecomeLeader(n) PROVE ElectionInv'
  BY <1>6, NoVoteStep DEF BecomeLeader, TypeOK
<1>7. ASSUME NEW n \in Node, HeartbeatTick(n) PROVE ElectionInv'
  BY <1>7, NoVoteStep DEF HeartbeatTick, TypeOK
<1>8. ASSUME NEW n \in Node, SendHeartbeats(n) PROVE ElectionInv'
  BY <1>8, NoVoteStep DEF SendHeartbeats, TypeOK
<1>9. ASSUME NEW n \in Node, ReplicateAll(n) PROVE ElectionInv'
  BY <1>9, NoVoteStep DEF ReplicateAll, TypeOK
<1>10. ASSUME NEW n \in Node, NEW c \in Command, Propose(n, c) PROVE ElectionInv'
  BY <1>10, NoVoteStep DEF Propose, TypeOK
<1>11. ASSUME NEW n \in Node, NEW i \in DOMAIN log[n], SetCommitIndex(n, i)
       PROVE  ElectionInv'
  BY <1>11, NoVoteStep DEF SetCommitIndex, TypeOK
<1>12. ASSUME NEW n \in Node, Stop(n) PROVE ElectionInv'
  BY <1>12, NoVoteStep DEF Stop, TypeOK
<1>13. ASSUME NEW m \in voteReqs, NEW answered \in BOOLEAN, HandleRequestVote(m, answered)
       PROVE  ElectionInv'
  BY <1>13, RequestVoteElection
<1>14. ASSUME NEW m \in appendReqs, HandleAppendEntries(m) PROVE ElectionInv'
  <2>1. m.to \in Node /\ m.term \in Nat
    BY DEF TypeOK, AppendReq
  <2>2. /\ granted' = granted /\ won' = won
        /\ UNCHANGED <<votes, electionTerm>> /\ pc' = pc
        /\ \/ /\ m.term > currentTerm[m.to]
              /\ currentTerm' = [currentTerm EXCEPT ![m.to] = m.term]
              /\ state' = [state EXCEPT ![m.to] = Follower]
              /\ votedFor' = [votedFor EXCEPT ![m.to] = None]
           \/ UNCHANGED nodeVars
    BY <1>14 DEF HandleAppendEntries, AppendEntries
  <2>3. QED BY <2>1, <2>2, NoVoteStep DEF TypeOK
<1>15. ASSUME NEW m \in appendReqs, LoseAppendEntries(m) PROVE ElectionInv'
  BY <1>15, NoVoteStep DEF LoseAppendEntries, TypeOK
<1>16. CASE UNCHANGED vars
  BY <1>16, NoVoteStep DEF vars, TypeOK
<1>17. QED
  BY <1>1, <1>2, <1>3, <1>4, <1>5, <1>6, <1>7, <1>8, <1>9, <1>10, <1>11, <1>12,
     <1>13, <1>14, <1>15, <1>16 DEF Next, NodeStep, Arrival

\* Two winners of one term would share a voter, who votes once.
LEMMA ElectionInvImpliesOneWinner == TypeOK /\ ElectionInv => OneWinnerPerTerm
<1> SUFFICES ASSUME TypeOK, ElectionInv, NEW w1 \in won, NEW w2 \in won, w1[2] = w2[2]
             PROVE  w1[1] = w2[1]
  BY DEF OneWinnerPerTerm
<1>1. /\ w1 = <<w1[1], w1[2]>> /\ w1[1] \in Node /\ w1[2] \in Nat
      /\ w2 = <<w2[1], w2[2]>> /\ w2[1] \in Node /\ w2[2] \in Nat
  BY DEF TypeOK
<1>2. PICK Q1 \in SUBSET Node :
        IsMajority(Q1) /\ \A p \in Q1 : <<p, w1[2], w1[1]>> \in granted
  BY <1>1, Zenon DEF ElectionInv, WonByMajority
<1>3. PICK Q2 \in SUBSET Node :
        IsMajority(Q2) /\ \A p \in Q2 : <<p, w2[2], w2[1]>> \in granted
  BY <1>1, Zenon DEF ElectionInv, WonByMajority
<1>4. Cardinality(Q1) + Cardinality(Q2) > Cardinality(Node)
  <2>1. /\ Cardinality(Node) \in Nat /\ Cardinality(Q1) \in Nat /\ Cardinality(Q2) \in Nat
    BY NodeAssumption, FS_Subset, FS_CardinalityType
  <2>2. /\ Cardinality(Q1) > Cardinality(Node) \div 2
        /\ Cardinality(Q2) > Cardinality(Node) \div 2
    BY <1>2, <1>3 DEF IsMajority
  <2>3. QED BY <2>1, <2>2
<1>5. Q1 \cap Q2 # {}
  BY <1>4, NodeAssumption, FS_MajoritiesIntersect
<1>6. PICK p \in Node : p \in Q1 /\ p \in Q2
  BY <1>5
<1>7. QED BY <1>1, <1>2, <1>3, <1>6 DEF ElectionInv, VotesUnique

\* In every term at most one node passes startElection's majority check: for
\* any number of nodes, and any loss, delay or reordering of the calls.
THEOREM ElectionTheorem == Spec => []OneWinnerPerTerm
<1>1. Init => TypeOK /\ ElectionInv
  BY InitType, InitElection
<1>2. TypeOK /\ ElectionInv /\ [Next]_vars => (TypeOK /\ ElectionInv)'
  BY NextType, NextElection
<1>3. QED BY <1>1, <1>2, ElectionInvImpliesOneWinner, PTL DEF Spec


----------------------------------------------------------------------------
(* Terms and votes                                                         *)

\* Every step keeps terms from falling and votes from changing.
LEMMA NextVoteKept == TypeOK /\ [Next]_vars => VoteKept
<1> SUFFICES ASSUME TypeOK, [Next]_vars PROVE VoteKept
  OBVIOUS
<1>0. currentTerm \in [Node -> Nat] /\ votedFor \in [Node -> Node \cup {None}]
  BY DEF TypeOK
<1> USE DEF VoteKept, nodeVars, logVars, runVars
<1>1. CASE UNCHANGED <<currentTerm, votedFor>>
  BY <1>0, <1>1
<1>2. ASSUME NEW n \in Node, BecomeCandidate(n) PROVE VoteKept
  BY <1>0, <1>2 DEF BecomeCandidate
<1>3. ASSUME NEW m \in voteReqs, NEW answered \in BOOLEAN, HandleRequestVote(m, answered)
      PROVE  VoteKept
  <2>1. m.to \in Node /\ m.candidate \in Node /\ m.term \in Nat
    BY DEF TypeOK, VoteReq
  <2>2. \/ m.term > currentTerm[m.to] /\ currentTerm' = [currentTerm EXCEPT ![m.to] = m.term]
        \/ m.term <= currentTerm[m.to] /\ currentTerm' = currentTerm
    BY <1>0, <1>3, <2>1 DEF HandleRequestVote, RequestVote
  <2>3. CASE GrantsVote(m.to, m)
    <3>1. votedFor' = [votedFor EXCEPT ![m.to] = m.candidate]
      BY <1>3, <2>3 DEF HandleRequestVote, RequestVote
    <3>2. m.term <= currentTerm[m.to] => votedFor[m.to] \in {None, m.candidate}
      BY <1>0, <2>1, <2>3 DEF GrantsVote
    <3>3. QED BY <1>0, <2>1, <2>2, <3>1, <3>2
  <2>4. CASE ~GrantsVote(m.to, m)
    <3>1. votedFor' = [votedFor EXCEPT
                         ![m.to] = IF m.term > currentTerm[m.to] THEN None ELSE @]
      BY <1>3, <2>4 DEF HandleRequestVote, RequestVote
    <3>2. QED BY <1>0, <2>1, <2>2, <3>1
  <2>5. QED BY <2>3, <2>4
<1>4. ASSUME NEW m \in appendReqs, HandleAppendEntries(m) PROVE VoteKept
  <2>1. m.to \in Node /\ m.term \in Nat
    BY DEF TypeOK, AppendReq
  <2>2. QED BY <1>0, <1>4, <2>1 DEF HandleAppendEntries, AppendEntries
<1>5. QED
  BY <1>1, <1>2, <1>3, <1>4
  DEF Next, NodeStep, Arrival, AfterFuncFires, ElectionTimeout, RequestVotes, VoteCallFails, CheckVotes,
      BecomeLeader, HeartbeatTick, SendHeartbeats, ReplicateAll, Propose,
      SetCommitIndex, Stop, LoseAppendEntries, vars

\* No handler and no timer takes a term back, or changes a vote within a term.
THEOREM VoteTheorem == Spec => VoteOncePerTerm
<1>1. TypeOK /\ [Next]_vars => [VoteKept]_vars
  BY NextVoteKept
<1>2. QED BY <1>1, TypeCorrect, PTL DEF Spec, VoteOncePerTerm


----------------------------------------------------------------------------
(* The shape of logs                                                       *)

\* Entries numbered from off + 1, with terms that do not decrease or exceed t.
WellFormed(es, off, t) ==
  \A i \in DOMAIN es :
    /\ es[i].index = off + i
    /\ es[i].term <= t
    /\ i > 1 => es[i - 1].term <= es[i].term

\* Calls in flight carry entries numbered from prevIndex on, of terms up to
\* the call's, and none older than the entry they follow.
CallsWellFormed ==
  \A m \in appendReqs :
    /\ WellFormed(m.entries, m.prevIndex, m.term)
    /\ m.prevIndex > 0 /\ m.entries # <<>> => m.prevTerm <= m.entries[1].term

\* The inductive invariant of the logs.
LogInv ==
  /\ \A n \in Node : WellFormed(log[n], 0, currentTerm[n])
  /\ CallsWellFormed

\* The fields of the entries of a log.
LEMMA EntryFields ==
  ASSUME NEW lg \in Seq(Entry), NEW i \in DOMAIN lg
  PROVE  lg[i] \in Entry /\ lg[i].term \in Nat /\ lg[i].index \in Nat
<1>1. i \in 1..Len(lg)
  BY LenProperties
<1>2. lg[i] \in Entry
  BY <1>1, ElementOfSeq
<1>3. QED BY <1>2 DEF Entry

\* If a follower holds the entry a call builds on, the loop of AppendEntries
\* leaves it a well-formed log: it never skips or repeats an index.
LEMMA AppendLogWellFormed ==
  ASSUME NEW lg \in Seq(Entry), NEW es \in Seq(Entry), NEW prev \in Nat, NEW t \in Nat,
         WellFormed(lg, 0, t), WellFormed(es, prev, t), prev <= Len(lg),
         prev > 0 /\ es # <<>> => lg[prev].term <= es[1].term
  PROVE  WellFormed(AppendLog(lg, es), 0, t)
<1>1. CASE AppendLog(lg, es) = lg
  BY <1>1
<1>2. ASSUME NEW f \in FreshEntries(lg, es),
             \A j \in FreshEntries(lg, es) : f <= j,
             AppendLog(lg, es) = SubSeq(lg, 1, MinOf(es[f].index - 1, Len(lg)))
                                       \o SubSeq(es, f, Len(es))
      PROVE  WellFormed(AppendLog(lg, es), 0, t)
  <2> DEFINE k == prev + f - 1
             a == SubSeq(lg, 1, k)
             b == SubSeq(es, f, Len(es))
             r == a \o b
  <2>1. /\ Len(lg) \in Nat /\ DOMAIN lg = 1..Len(lg)
        /\ Len(es) \in Nat /\ DOMAIN es = 1..Len(es)
    BY LenProperties
  <2>2. f \in 1..Len(es) /\ es[f].index = prev + f /\ es # <<>>
    BY <2>1, EmptySeq DEF FreshEntries, WellFormed
  <2>3. k \in Nat /\ prev + f = k + 1
    BY <2>2
  <2>4. k <= Len(lg) /\ (k > 0 => lg[k].term <= es[f].term)
    <3>1. CASE f = 1
      BY <2>2, <3>1
    <3>2. CASE f > 1
      <4>1. f - 1 \in DOMAIN es /\ f - 1 \notin FreshEntries(lg, es)
        BY <1>2, <2>1, <2>2, <3>2
      <4>2. es[f - 1].index = k /\ es[f - 1].term <= es[f].term
        BY <2>1, <2>2, <3>2, <4>1 DEF WellFormed
      <4> HIDE DEF k
      <4>3. ~(k > Len(lg)) /\ lg[k].term = es[f - 1].term
        BY <4>1, <4>2 DEF FreshEntries
      <4>4. QED BY <2>1, <2>3, <4>2, <4>3
    <3>3. QED BY <2>2, <3>1, <3>2
  <2>5. MinOf(es[f].index - 1, Len(lg)) = k
    BY <2>1, <2>2, <2>4 DEF MinOf
  <2> HIDE DEF k
  <2>6. /\ a \in Seq(Entry) /\ Len(a) = k
        /\ \A i \in 1..k : a[i] = lg[i]
    <3>1. \A i \in 1..k : lg[i] \in Entry
      BY <2>1, <2>3, <2>4, EntryFields
    <3>2. QED BY <2>3, <3>1, SubSeqProperties
  <2>7. /\ b \in Seq(Entry) /\ Len(b) = Len(es) - f + 1
        /\ \A i \in 1..Len(b) : b[i] = es[f + i - 1]
    <3>1. \A i \in f..Len(es) : es[i] \in Entry
      BY <2>1, <2>2, EntryFields
    <3>2. QED BY <2>1, <2>2, <3>1, SubSeqProperties
  <2> HIDE DEF a, b
  <2>8. /\ r \in Seq(Entry) /\ Len(r) = k + Len(b)
        /\ \A i \in 1..Len(r) : r[i] = IF i <= k THEN a[i] ELSE b[i - k]
    <3>1. /\ r \in Seq(Entry) /\ Len(r) = Len(a) + Len(b)
          /\ \A i \in 1..Len(a) + Len(b) : r[i] = IF i <= Len(a) THEN a[i] ELSE b[i - Len(a)]
      <4>1. a \in Seq(Entry) /\ b \in Seq(Entry)
        BY <2>6, <2>7
      <4>2. QED BY <4>1, ConcatProperties, Zenon
    <3> HIDE DEF r
    <3>2. QED BY <2>6, <3>1
  <2> HIDE DEF r
  <2>9. ASSUME NEW i \in 1..Len(r)
        PROVE  /\ i <= k => i \in DOMAIN lg /\ r[i] = lg[i]
               /\ i > k => i - prev \in DOMAIN es /\ i - prev >= f /\ r[i] = es[i - prev]
    <3>1. CASE i <= k
      BY <2>1, <2>3, <2>4, <2>6, <2>8, <3>1
    <3>2. CASE i > k
      <4>1. i - k \in 1..Len(b) /\ r[i] = b[i - k]
        <5>1. Len(b) \in Nat /\ i \in Nat /\ i <= k + Len(b)
          BY <2>1, <2>2, <2>7, <2>8
        <5>2. ~(i <= k) /\ i - k \in 1..Len(b)
          BY <2>3, <3>2, <5>1
        <5>3. r[i] = IF i <= k THEN a[i] ELSE b[i - k]
          BY <2>8
        <5>4. QED BY <5>2, <5>3
      <4>2. f + (i - k) - 1 = i - prev
        BY <2>2, <2>3
      <4>3. r[i] = es[i - prev]
        BY <2>7, <4>1, <4>2
      <4>4. QED BY <2>1, <2>2, <2>3, <2>7, <3>2, <4>1, <4>3
    <3>3. QED BY <2>3, <3>1, <3>2
  <2>10. ASSUME NEW i \in 1..Len(r)
         PROVE  r[i].index = i /\ r[i].term <= t
    <3>1. CASE i <= k
      BY <2>9, <3>1 DEF WellFormed
    <3>2. CASE i > k
      BY <2>2, <2>9, <3>2 DEF WellFormed
    <3>3. QED BY <2>3, <3>1, <3>2
  <2>11. ASSUME NEW i \in 1..Len(r), i > 1
         PROVE  r[i - 1].term <= r[i].term
    <3>0. i - 1 \in 1..Len(r)
      BY <2>8, <2>11, LenProperties
    <3>1. CASE i <= k
      BY <2>3, <2>9, <2>11, <3>0, <3>1 DEF WellFormed
    <3>2. CASE i = k + 1
      <4>1. r[i - 1] = lg[k] /\ r[i] = es[f] /\ k > 0
        BY <2>2, <2>3, <2>9, <2>11, <3>0, <3>2
      <4>2. QED BY <2>4, <4>1
    <3>3. CASE i > k + 1
      <4>1. /\ i - prev \in DOMAIN es /\ i - prev > 1
            /\ r[i] = es[i - prev] /\ r[i - 1] = es[(i - prev) - 1]
        <5>1. i > k /\ i - 1 > k /\ (i - 1) - prev = (i - prev) - 1
          BY <2>3, <3>3
        <5>2. i - prev \in DOMAIN es /\ r[i] = es[i - prev]
          BY <2>9, <5>1
        <5>3. r[i - 1] = es[(i - 1) - prev] /\ (i - 1) - prev >= f
          BY <2>9, <3>0, <5>1
        <5>4. QED BY <2>2, <5>1, <5>2, <5>3
      <4>2. QED BY <4>1 DEF WellFormed
    <3>4. QED BY <2>3, <3>1, <3>2, <3>3
  <2>12. AppendLog(lg, es) = r
    BY <1>2, <2>5 DEF r, a, b
  <2>13. DOMAIN r = 1..Len(r)
    BY <2>8, LenProperties
  <2>14. QED BY <2>10, <2>11, <2>12, <2>13 DEF WellFormed
<1>3. QED BY <1>1, <1>2, AppendLogCases


\* A broadcast of well-formed entries keeps the calls in flight well formed.
LEMMA BroadcastWellFormed ==
  ASSUME CallsWellFormed, NEW n, NEW prevIndex, NEW prevTerm, NEW es,
         Broadcast(n, prevIndex, prevTerm, es), WellFormed(es, prevIndex, currentTerm[n]),
         prevIndex > 0 /\ es # <<>> => prevTerm <= es[1].term
  PROVE  CallsWellFormed'
<1> SUFFICES ASSUME NEW m \in appendReqs'
             PROVE  /\ WellFormed(m.entries, m.prevIndex, m.term)
                    /\ m.prevIndex > 0 /\ m.entries # <<>> => m.prevTerm <= m.entries[1].term
  BY DEF CallsWellFormed, WellFormed
<1>1. CASE m \in appendReqs
  BY <1>1 DEF CallsWellFormed
<1>2. CASE m \notin appendReqs
  <2>1. /\ m.entries = es /\ m.prevIndex = prevIndex /\ m.prevTerm = prevTerm
        /\ m.term = currentTerm[n]
    BY <1>2 DEF Broadcast
  <2>2. QED BY <2>1
<1>3. QED BY <1>1, <1>2

\* A step that leaves the logs alone, takes no term back and adds no call.
LEMMA NoLogStep ==
  ASSUME TypeOK, TypeOK', LogInv, log' = log, appendReqs' \subseteq appendReqs,
         \A n \in Node : currentTerm'[n] >= currentTerm[n]
  PROVE  LogInv'
<1>1. CallsWellFormed'
  BY DEF LogInv, CallsWellFormed, WellFormed
<1>2. ASSUME NEW n \in Node PROVE WellFormed(log'[n], 0, currentTerm'[n])
  <2>1. WellFormed(log[n], 0, currentTerm[n])
    BY DEF LogInv
  <2>2. log[n] \in Seq(Entry) /\ currentTerm[n] \in Nat /\ currentTerm'[n] \in Nat
    BY DEF TypeOK
  <2>3. \A i \in DOMAIN log[n] : log[n][i].term \in Nat
    BY <2>2, EntryFields
  <2>4. \A i \in DOMAIN log[n] : log[n][i].term <= currentTerm'[n]
    BY <2>1, <2>2, <2>3 DEF WellFormed
  <2>5. QED BY <2>1, <2>4 DEF WellFormed
<1>3. QED BY <1>1, <1>2 DEF LogInv, WellFormed


\* Propose appends the next index in the leader's own term.
LEMMA ProposeLog ==
  ASSUME TypeOK, LogInv, NEW n \in Node, NEW c \in Command, Propose(n, c)
  PROVE  LogInv'
<1> DEFINE e == [index |-> Len(log[n]) + 1, term |-> currentTerm[n], cmd |-> c]
           lg == Append(log[n], e)
<1>1. /\ log[n] \in Seq(Entry) /\ currentTerm[n] \in Nat /\ Len(log[n]) \in Nat
      /\ DOMAIN log[n] = 1..Len(log[n])
  BY LenProperties DEF TypeOK
<1>2. e \in Entry /\ e.index = Len(log[n]) + 1 /\ e.term = currentTerm[n]
  BY <1>1 DEF Entry
<1>3. log' = [log EXCEPT ![n] = lg] /\ currentTerm' = currentTerm /\ appendReqs' = appendReqs
  BY DEF Propose, nodeVars
<1> HIDE DEF e
<1>4. /\ DOMAIN lg = 1..(Len(log[n]) + 1)
      /\ lg[Len(log[n]) + 1] = e
      /\ \A i \in 1..Len(log[n]) : lg[i] = log[n][i]
  BY <1>1, <1>2, AppendProperties
<1>5. WellFormed(log[n], 0, currentTerm[n])
  BY DEF LogInv
<1> HIDE DEF lg
<1>6. WellFormed(lg, 0, currentTerm[n])
  <2> SUFFICES ASSUME NEW i \in DOMAIN lg
               PROVE  /\ lg[i].index = i /\ lg[i].term <= currentTerm[n]
                      /\ i > 1 => lg[i - 1].term <= lg[i].term
    BY <1>1, <1>4 DEF WellFormed
  <2>1. CASE i <= Len(log[n])
    BY <1>1, <1>4, <1>5, <2>1 DEF WellFormed
  <2>2. CASE i = Len(log[n]) + 1
    <3>1. i > 1 => lg[i - 1].term <= currentTerm[n]
      BY <1>1, <1>4, <1>5, <2>2 DEF WellFormed
    <3>2. QED BY <1>1, <1>2, <1>4, <2>2, <3>1
  <2>3. QED BY <1>1, <1>4, <2>1, <2>2
<1>7. \A p \in Node : WellFormed(log'[p], 0, currentTerm'[p])
  BY <1>3, <1>6 DEF LogInv, TypeOK
<1>8. CallsWellFormed'
  BY <1>3 DEF LogInv, CallsWellFormed, WellFormed
<1>9. QED BY <1>7, <1>8 DEF LogInv, WellFormed

\* ReplicateAll sends the last entry with its predecessor's term.
LEMMA ReplicateLog ==
  ASSUME TypeOK, LogInv, NEW n \in Node, ReplicateAll(n)
  PROVE  LogInv'
<1> DEFINE len == Len(log[n])
           prevTerm == IF len > 1 THEN log[n][len - 1].term ELSE 0
           es == <<log[n][len]>>
<1>1. /\ log[n] \in Seq(Entry) /\ currentTerm[n] \in Nat /\ len \in Nat \ {0}
      /\ DOMAIN log[n] = 1..len
  BY LenProperties DEF TypeOK, ReplicateAll
<1>2. WellFormed(log[n], 0, currentTerm[n])
  BY DEF LogInv
<1>3. Broadcast(n, len - 1, prevTerm, es)
  BY DEF ReplicateAll
<1>4. log' = log /\ currentTerm' = currentTerm
  BY DEF ReplicateAll, logVars, nodeVars
<1>5. es[1] = log[n][len] /\ DOMAIN es = {1}
  OBVIOUS
<1> HIDE DEF len, es
<1>6. len \in DOMAIN log[n]
  BY <1>1
<1>7. log[n][len].index = len /\ log[n][len].term <= currentTerm[n]
  BY <1>1, <1>2, <1>6 DEF WellFormed
<1>8. WellFormed(es, len - 1, currentTerm[n])
  BY <1>1, <1>5, <1>7 DEF WellFormed
<1>9. len - 1 > 0 => prevTerm <= es[1].term
  BY <1>1, <1>2, <1>5, <1>6 DEF WellFormed
<1>10. CallsWellFormed'
  <2> HIDE DEF prevTerm
  <2>1. QED BY <1>3, <1>8, <1>9, BroadcastWellFormed DEF LogInv
<1>11. QED BY <1>4, <1>10 DEF LogInv, WellFormed

\* A follower that accepts a call stays well formed, one that refuses keeps
\* its log.
LEMMA AppendEntriesLog ==
  ASSUME TypeOK, TypeOK', LogInv, NEW m \in appendReqs, HandleAppendEntries(m), VoteKept
  PROVE  LogInv'
<1> DEFINE n == m.to
<1>1. /\ n \in Node /\ m.term \in Nat /\ m.entries \in Seq(Entry)
      /\ m.prevIndex \in Nat /\ m.prevTerm \in Nat
      /\ log[n] \in Seq(Entry) /\ currentTerm \in [Node -> Nat] /\ currentTerm[n] \in Nat
  BY DEF TypeOK, AppendReq
<1>2. appendReqs' \subseteq appendReqs
  BY DEF HandleAppendEntries
<1>3. CASE log' = log
  BY <1>2, <1>3, NoLogStep DEF VoteKept
<1>4. CASE log' # log
  <2>1. /\ m.term >= currentTerm[n] /\ HoldsPrev(log[n], m)
        /\ log' = [log EXCEPT ![n] = AppendLog(log[n], m.entries)]
    BY <1>4 DEF HandleAppendEntries, AppendEntries, logVars
  <2>2. currentTerm' = [currentTerm EXCEPT ![n] = m.term]
    BY <1>1, <2>1 DEF HandleAppendEntries, AppendEntries, nodeVars
  <2>3. WellFormed(log[n], 0, currentTerm[n])
    BY <1>1 DEF LogInv
  <2>4. WellFormed(log[n], 0, m.term)
    BY <1>1, <2>1, <2>3, EntryFields DEF WellFormed
  <2>5. WellFormed(m.entries, m.prevIndex, m.term)
    BY DEF LogInv, CallsWellFormed
  <2>6. m.prevIndex <= Len(log[n])
    BY <1>1, <2>1, LenProperties DEF HoldsPrev
  <2>7. m.prevIndex > 0 /\ m.entries # <<>> => log[n][m.prevIndex].term <= m.entries[1].term
    BY <1>1, <2>1 DEF HoldsPrev, LogInv, CallsWellFormed
  <2> HIDE DEF n
  <2>8. WellFormed(AppendLog(log[n], m.entries), 0, m.term)
    BY <1>1, <2>4, <2>5, <2>6, <2>7, AppendLogWellFormed
  <2>9. \A p \in Node : WellFormed(log'[p], 0, currentTerm'[p])
    BY <1>1, <2>1, <2>2, <2>8 DEF LogInv, TypeOK
  <2>10. CallsWellFormed'
    BY <1>2 DEF LogInv, CallsWellFormed, WellFormed
  <2>11. QED BY <2>9, <2>10 DEF LogInv, WellFormed
<1>5. QED BY <1>3, <1>4

\* Every step keeps the logs well formed.
LEMMA NextLog == TypeOK /\ LogInv /\ [Next]_vars => LogInv'
<1> SUFFICES ASSUME TypeOK, LogInv, [Next]_vars PROVE LogInv'
  OBVIOUS
<1>1. TypeOK' /\ VoteKept
  BY NextType, NextVoteKept
<1>2. CASE log' = log /\ appendReqs' \subseteq appendReqs
  BY <1>1, <1>2, NoLogStep DEF VoteKept
<1>3. ASSUME NEW n \in Node, SendHeartbeats(n) PROVE LogInv'
  <2>1. Broadcast(n, 0, 0, <<>>) /\ log' = log /\ currentTerm' = currentTerm
    BY <1>3 DEF SendHeartbeats, nodeVars, logVars
  <2>2. WellFormed(<<>>, 0, currentTerm[n])
    BY DEF WellFormed
  <2>3. CallsWellFormed'
    BY <2>1, <2>2, BroadcastWellFormed DEF LogInv
  <2>4. QED BY <2>1, <2>3 DEF LogInv, WellFormed
<1>4. ASSUME NEW n \in Node, ReplicateAll(n) PROVE LogInv'
  BY <1>4, ReplicateLog
<1>5. ASSUME NEW n \in Node, NEW c \in Command, Propose(n, c) PROVE LogInv'
  BY <1>5, ProposeLog
<1>6. ASSUME NEW m \in appendReqs, HandleAppendEntries(m) PROVE LogInv'
  BY <1>1, <1>6, AppendEntriesLog
<1>7. QED
  BY <1>2, <1>3, <1>4, <1>5, <1>6
  DEF Next, NodeStep, Arrival, AfterFuncFires, ElectionTimeout, BecomeCandidate, RequestVotes,
      VoteCallFails, CheckVotes, BecomeLeader, HeartbeatTick, SetCommitIndex, Stop,
      HandleRequestVote, LoseAppendEntries, vars, logVars

\* On every node, for every interleaving: an entry sits at the position its
\* Index names.
THEOREM LogIndexTheorem == Spec => []LogIndexed
<1>1. Init => TypeOK /\ LogInv
  BY InitType DEF Init, InitNode, LogInv, WellFormed, CallsWellFormed
<1>2. TypeOK /\ LogInv /\ [Next]_vars => (TypeOK /\ LogInv)'
  BY NextType, NextLog
<1>3. TypeOK /\ LogInv => LogIndexed
  BY DEF LogInv, WellFormed, LogIndexed, TypeOK
<1>4. QED BY <1>1, <1>2, <1>3, PTL DEF Spec

\* Terms never decrease along a log nor exceed the holder's current term.
THEOREM LogTermTheorem == Spec => []LogTermsOrdered
<1>1. Init => TypeOK /\ LogInv
  BY InitType DEF Init, InitNode, LogInv, WellFormed, CallsWellFormed
<1>2. TypeOK /\ LogInv /\ [Next]_vars => (TypeOK /\ LogInv)'
  BY NextType, NextLog
<1>3. LogInv => LogTermsOrdered
  BY DEF LogInv, WellFormed, LogTermsOrdered
<1>4. QED BY <1>1, <1>2, <1>3, PTL DEF Spec

----------------------------------------------------------------------------
(* Quorum queues: what carries over from the Raft nodes                    *)

\* Create's initial state is well typed.
LEMMA QInitRaft == QInit => TypeOK /\ ElectionInv /\ LogInv
<1> SUFFICES ASSUME QInit PROVE TypeOK /\ ElectionInv /\ LogInv
  OBVIOUS
<1>1. TypeOK
  <2>1. state \in [Node -> {Follower, Candidate, Leader}] /\ pc \in [Node -> RunPC]
    BY DEF QInit, RunPC
  <2>2. QED BY <2>1, EmptySeq, NodeAssumption DEF QInit, InitNode, TypeOK
<1>2. ElectionInv
  BY DEF QInit, InitNode, ElectionInv, VotesRecorded, VotesUnique, CandidateVoted,
         CountedVotes, WonByMajority
<1>3. LogInv
  BY DEF QInit, InitNode, LogInv, WellFormed, CallsWellFormed
<1>4. QED BY <1>1, <1>2, <1>3

\* A step of the queues is a step of the Raft nodes or leaves them alone.
LEMMA QNextIsNext == [QNext]_qVars => [Next]_vars
<1> SUFFICES ASSUME [QNext]_qVars PROVE [Next]_vars
  OBVIOUS
<1>1. ASSUME NEW k \in Client, ClientStep(k) PROVE [Next]_vars
  <2>1. ASSUME NEW n \in Node, NEW m \in Command, Publish(k, n, m) PROVE Next
    BY <2>1 DEF Publish, Next
  <2>2. QED BY <1>1, <2>1 DEF ClientStep, PublishRefused, Register, PublishReturns,
                              PublishTimesOut
<1>2. ASSUME NEW n \in Node, NodeStep(n) PROVE Next
  BY <1>2 DEF Next
<1>3. ASSUME NEW n \in Node, NEW i \in Index, Commit(n, i) PROVE Next
  BY <1>3 DEF Commit, Next, SetCommitIndex
<1>4. ASSUME NEW n \in Node, NEW i \in Index, OnCommit(n, i) \/ Ack(n, i) PROVE UNCHANGED vars
  BY <1>4 DEF OnCommit, Ack
<1>5. CASE Arrival
  BY <1>5 DEF Next
<1>6. CASE UNCHANGED qVars
  BY <1>6 DEF qVars
<1>7. QED BY <1>1, <1>2, <1>3, <1>4, <1>5, <1>6 DEF QNext

\* What the proofs about the nodes rest on holds under the queues too.
LEMMA QRaftInv == QSpec => [](TypeOK /\ ElectionInv /\ LogInv)
<1>1. TypeOK /\ ElectionInv /\ LogInv /\ [QNext]_qVars => (TypeOK /\ ElectionInv /\ LogInv)'
  BY QNextIsNext, NextType, NextElection, NextLog
<1>2. QED BY QInitRaft, <1>1, PTL DEF QSpec

\* Under quorum queues, whose caller commits once a majority holds the entry, an
\* entry sits at the position its Index names on every replica.
THEOREM QueueLogIndexTheorem == QSpec => []LogIndexed
<1>1. TypeOK /\ LogInv => LogIndexed
  BY DEF LogInv, WellFormed, LogIndexed, TypeOK
<1>2. QED BY <1>1, QRaftInv, PTL

----------------------------------------------------------------------------
(* The queue's types                                                       *)

\* A registered channel belongs to a Publish that waits under that index.
PendingWaits ==
  \A n \in Node, i \in Index, k \in Client : pending[n][i] = k =>
    pub[k].pc = "waiting" /\ pub[k].node = n /\ pub[k].idx = i

\* A Publish in progress has the fields its place needs.
LEMMA PubFields ==
  ASSUME QTypeOK, NEW k \in Client, pub[k].pc # "idle"
  PROVE  /\ pub[k] \in Publishing
         /\ pub[k].pc \in {"proposed", "waiting", "signalled"}
         /\ pub[k].node \in Node /\ pub[k].idx \in Index /\ pub[k].msg \in Command
BY DEF QTypeOK, Publishing, Idle

\* OnCommit fills the queue with commands.
LEMMA RefillType ==
  ASSUME NEW msgs \in Seq(Command), NEW committed \in Seq(Entry)
  PROVE  Refill(msgs, committed) \in Seq(Command)
<1> DEFINE d == IF Len(committed) > Len(msgs) THEN Len(committed) - Len(msgs) ELSE 0
           s == [i \in 1 .. d |-> committed[Len(msgs) + i].cmd]
<1>1. Len(msgs) \in Nat /\ Len(committed) \in Nat /\ d \in Nat
  BY LenProperties
<1>2. ASSUME NEW i \in 1 .. d PROVE committed[Len(msgs) + i].cmd \in Command
  <2>1. Len(msgs) + i \in 1 .. Len(committed)
    BY <1>1
  <2>2. committed[Len(msgs) + i] \in Entry
    BY <2>1, ElementOfSeq
  <2>3. QED BY <2>2 DEF Entry
<1> HIDE DEF d
<1>3. s \in Seq(Command)
  BY <1>1, <1>2, IsASeq
<1>4. Refill(msgs, committed) = msgs \o s
  BY DEF Refill, d
<1> HIDE DEF s
<1>5. QED BY <1>3, <1>4, ConcatProperties

\* What OnCommit takes from the log is a sequence of entries.
LEMMA CommittedType ==
  ASSUME TypeOK, NEW n \in Node, commitIndex[n] <= Len(log[n])
  PROVE  /\ Committed(n) \in Seq(Entry) /\ Len(Committed(n)) = commitIndex[n]
         /\ \A j \in 1 .. commitIndex[n] : Committed(n)[j] = log[n][j]
<1>1. log[n] \in Seq(Entry) /\ commitIndex[n] \in Nat /\ Len(log[n]) \in Nat
  BY LenProperties DEF TypeOK
<1>2. \A j \in 1 .. commitIndex[n] : log[n][j] \in Entry
  BY <1>1, ElementOfSeq
<1>3. QED BY <1>1, <1>2, SubSeqProperties DEF Committed

\* The queues start well typed, with no Publish in progress.
LEMMA QInitType == QInit => QTypeOK /\ PendingWaits
BY EmptySeq, ClientAssumption DEF QInit, QTypeOK, PendingWaits, Idle, Index

\* Every step keeps the types and signals only a Publish that waits.
LEMMA QNextType ==
  TypeOK /\ QTypeOK /\ PendingWaits /\ [QNext]_qVars => QTypeOK' /\ PendingWaits'
<1> SUFFICES ASSUME TypeOK, QTypeOK, PendingWaits, [QNext]_qVars
             PROVE  QTypeOK' /\ PendingWaits'
  OBVIOUS
<1>1. ASSUME NEW k \in Client, NEW n \in Node, NEW m \in Command, Publish(k, n, m)
      PROVE  QTypeOK' /\ PendingWaits'
  <2>1. Len(log[n]) + 1 \in Index
    BY <1>1, LenProperties, BoundAssumption DEF Publish, Propose, TypeOK, Index
  <2>2. pub' \in [Client -> Publishing \cup {Idle}]
    BY <1>1, <2>1 DEF Publish, QTypeOK, Publishing
  <2>3. QTypeOK'
    BY <1>1, <2>2 DEF Publish, QTypeOK
  <2>4. PendingWaits'
    <3> SUFFICES ASSUME NEW p \in Node, NEW i \in Index, NEW x \in Client, pending'[p][i] = x
                 PROVE  pub'[x].pc = "waiting" /\ pub'[x].node = p /\ pub'[x].idx = i
      BY DEF PendingWaits
    <3>1. pending[p][i] = x /\ pub[x].pc = "waiting" /\ pub[x].node = p /\ pub[x].idx = i
      BY <1>1 DEF Publish, PendingWaits
    <3>2. x # k
      BY <1>1, <3>1 DEF Publish, Idle
    <3>3. pub'[x] = pub[x]
      BY <1>1, <3>2 DEF Publish, QTypeOK
    <3>4. QED BY <3>1, <3>3
  <2>5. QED BY <2>3, <2>4
<1>2. ASSUME NEW k \in Client, NEW n \in Node, NEW m \in Command, PublishRefused(k, n, m)
      PROVE  QTypeOK' /\ PendingWaits'
  BY <1>2 DEF PublishRefused, QTypeOK, PendingWaits
<1>3. ASSUME NEW k \in Client, Register(k) PROVE QTypeOK' /\ PendingWaits'
  <2>1. pub[k] \in Publishing /\ pub[k].node \in Node /\ pub[k].idx \in Index
    BY <1>3, PubFields DEF Register
  <2>2. /\ pub' = [pub EXCEPT ![k] = [pub[k] EXCEPT !.pc = "waiting"]]
        /\ [pub[k] EXCEPT !.pc = "waiting"] \in Publishing
        /\ pending' = [pending EXCEPT ![pub[k].node] =
                         [pending[pub[k].node] EXCEPT ![pub[k].idx] = k]]
    BY <1>3, <2>1 DEF Register, Publishing
  <2>3. QTypeOK'
    BY <1>3, <2>1, <2>2 DEF Register, QTypeOK
  <2>4. PendingWaits'
    <3> SUFFICES ASSUME NEW p \in Node, NEW i \in Index, NEW x \in Client, pending'[p][i] = x
                 PROVE  pub'[x].pc = "waiting" /\ pub'[x].node = p /\ pub'[x].idx = i
      BY DEF PendingWaits
    <3>1. CASE p = pub[k].node /\ i = pub[k].idx
      <4>1. x = k
        BY <2>1, <2>2, <3>1 DEF QTypeOK
      <4>2. pub'[k] = [pub[k] EXCEPT !.pc = "waiting"]
        BY <2>2 DEF QTypeOK
      <4>3. QED BY <2>1, <3>1, <4>1, <4>2 DEF Publishing
    <3>2. CASE ~(p = pub[k].node /\ i = pub[k].idx)
      <4>1. pending[p][i] = x
        BY <2>1, <2>2, <3>2 DEF QTypeOK
      <4>2. x # k
        BY <1>3, <4>1 DEF PendingWaits, Register
      <4>3. pub'[x] = pub[x]
        BY <2>2, <4>2 DEF QTypeOK
      <4>4. QED BY <4>1, <4>3 DEF PendingWaits
    <3>3. QED BY <3>1, <3>2
  <2>5. QED BY <2>3, <2>4
<1>4. ASSUME NEW k \in Client, PublishReturns(k) PROVE QTypeOK' /\ PendingWaits'
  <2>1. pub[k].msg \in Command
    BY <1>4, PubFields DEF PublishReturns
  <2>2. QED BY <1>4, <2>1 DEF PublishReturns, QTypeOK, PendingWaits
<1>5. ASSUME NEW k \in Client, PublishTimesOut(k) PROVE QTypeOK' /\ PendingWaits'
  <2>1. pub[k].node \in Node /\ pub[k].idx \in Index /\ pub[k].msg \in Command
    BY <1>5, PubFields DEF PublishTimesOut
  <2>2. pending' = [pending EXCEPT ![pub[k].node] =
                      [pending[pub[k].node] EXCEPT ![pub[k].idx] = None]]
    BY <1>5 DEF PublishTimesOut
  <2>3. QTypeOK'
    BY <1>5, <2>1, <2>2 DEF PublishTimesOut, QTypeOK
  <2>4. PendingWaits'
    BY <1>5, <2>1, <2>2, ClientAssumption DEF PublishTimesOut, PendingWaits, QTypeOK
  <2>5. QED BY <2>3, <2>4
<1>6. ASSUME NEW n \in Node, NEW i \in Index, Commit(n, i) PROVE QTypeOK' /\ PendingWaits'
  BY <1>6 DEF Commit, QTypeOK, PendingWaits
<1>7. ASSUME NEW n \in Node, NEW i \in Index, OnCommit(n, i) PROVE QTypeOK' /\ PendingWaits'
  <2> DEFINE k == pending[n][i]
  <2>1. k \in Client \cup {None}
    BY DEF QTypeOK
  <2>2. Refill(messages[n], Committed(n)) \in Seq(Command)
    BY <1>7, RefillType, CommittedType DEF OnCommit, QTypeOK
  <2>3. ASSUME NEW x \in Client PROVE pub'[x] \in Publishing \cup {Idle}
    <3>1. CASE x = k
      <4>1. pub[x] \in Publishing
        BY <3>1, PubFields DEF PendingWaits
      <4>2. pub'[x] = [pub[x] EXCEPT !.pc = "signalled"]
        BY <1>7, <3>1 DEF OnCommit
      <4>3. QED BY <4>1, <4>2 DEF Publishing
    <3>2. CASE x # k
      BY <1>7, <3>2 DEF OnCommit, QTypeOK
    <3>3. QED BY <3>1, <3>2
  <2>4. pub' \in [Client -> Publishing \cup {Idle}]
    BY <1>7, <2>3 DEF OnCommit
  <2>5. pending' = [pending EXCEPT ![n] = [pending[n] EXCEPT ![i] = None]]
    BY <1>7 DEF OnCommit
  <2>6. QTypeOK'
    BY <1>7, <2>2, <2>4, <2>5 DEF OnCommit, QTypeOK
  <2>7. PendingWaits'
    <3> SUFFICES ASSUME NEW p \in Node, NEW j \in Index, NEW x \in Client, pending'[p][j] = x
                 PROVE  pub'[x].pc = "waiting" /\ pub'[x].node = p /\ pub'[x].idx = j
      BY DEF PendingWaits
    <3>1. pending[p][j] = x /\ ~(p = n /\ j = i)
      BY <2>5, ClientAssumption DEF QTypeOK
    <3>2. x # k
      BY <3>1 DEF PendingWaits
    <3>3. pub'[x] = pub[x]
      BY <1>7, <3>2 DEF OnCommit
    <3>4. QED BY <3>1, <3>3 DEF PendingWaits
  <2>8. QED BY <2>6, <2>7
<1>8. ASSUME NEW n \in Node, NEW i \in Index, Ack(n, i) PROVE QTypeOK' /\ PendingWaits'
  <2>1. messages[n] \in Seq(Command) /\ Len(messages[n]) \in Nat /\ i \in 1 .. Len(messages[n])
    BY <1>8, LenProperties DEF Ack, QTypeOK
  <2>2. \A j \in 1 .. Len(messages[n]) : messages[n][j] \in Command
    BY <2>1, ElementOfSeq
  <2>3. SubSeq(messages[n], i + 1, Len(messages[n])) \in Seq(Command)
    BY <2>1, <2>2, SubSeqProperties
  <2>4. {messages[n][j] : j \in 1 .. i} \subseteq Command
    BY <2>1, <2>2
  <2>5. QTypeOK'
    BY <1>8, <2>3, <2>4 DEF Ack, QTypeOK
  <2>6. PendingWaits'
    BY <1>8 DEF Ack, PendingWaits
  <2>7. QED BY <2>5, <2>6
<1>9. CASE UNCHANGED queueVars
  BY <1>9 DEF queueVars, QTypeOK, PendingWaits
<1>10. QED
  BY <1>1, <1>2, <1>3, <1>4, <1>5, <1>6, <1>7, <1>8, <1>9 DEF QNext, ClientStep, qVars

\* What the quorum queues keep under any number of leaders.
LEMMA QTypeInv == QSpec => [](TypeOK /\ QTypeOK /\ PendingWaits)
<1>1. QInit => TypeOK /\ QTypeOK /\ PendingWaits
  BY QInitRaft, QInitType
<1>2. TypeOK /\ QTypeOK /\ PendingWaits /\ [QNext]_qVars => (TypeOK /\ QTypeOK /\ PendingWaits)'
  BY QNextType, NextType, QNextIsNext
<1>3. QED BY <1>1, <1>2, PTL DEF QSpec

\* The queue's fields and the Publish calls keep their types, however many leaders
\* there are: OnCommit never signals a client that has gone.
THEOREM QueueTypeTheorem == QSpec => []QTypeOK
BY QTypeInv, PTL

----------------------------------------------------------------------------
(* Quorum queues with one node that may lead                               *)

\* Only L runs elections, so only L leads and nobody appends to its log.
SoleLeader(L) ==
  /\ \A n \in Node : state[n] = Leader => n = L
  /\ \A n \in Node : n # L => pc[n] = "stopped"
  /\ \A m \in appendReqs : m.to # L

\* A Publish in progress holds an index of L's log of its own, with its message there.
IndexHeld(L) ==
  /\ \A k \in Client : pub[k] # Idle =>
       /\ pub[k].node = L /\ pub[k].idx \in DOMAIN log[L]
       /\ log[L][pub[k].idx].cmd = pub[k].msg
  /\ \A k1, k2 \in Client :
       pub[k1] # Idle /\ pub[k2] # Idle /\ pub[k1].idx = pub[k2].idx => k1 = k2

\* The commits announced are commits of L's log.
CommitsInLog(L) ==
  /\ commitIndex[L] <= Len(log[L])
  /\ \A n \in Node, i \in Index : <<n, i>> \in commits => n = L /\ i <= commitIndex[L]

\* What the replica of L was ever given: its queue and what was acknowledged.
Held(L) == acked[L] \cup {messages[L][j] : j \in DOMAIN messages[L]}

\* OnCommit has handed out every entry up to some index hi.  The queue is not longer
\* than that, however much Ack removed, so that the next OnCommit leaves no gap; and a
\* signalled Publish is below it.
HandedOut(L) ==
  \E hi \in 0 .. Len(log[L]) :
    /\ Len(messages[L]) <= hi
    /\ \A j \in 1 .. hi : log[L][j].cmd \in Held(L)
    /\ \A k \in Client : pub[k].pc = "signalled" => pub[k].idx <= hi

\* Messages answered without error are among them.
AnsweredHeld(L) == \A m \in Command : outcome[m] = "ok" => m \in Held(L)

\* The inductive invariant of quorum queues under one leader.
SoleInv(L) ==
  /\ SoleLeader(L)
  /\ IndexHeld(L)
  /\ CommitsInLog(L)
  /\ WaiterRegistered
  /\ HandedOut(L)
  /\ AnsweredHeld(L)

\* Before the first election nobody leads, unless L is alone.
LEMMA SoleInit ==
  ASSUME NEW L \in Node, Running \subseteq {L}, QInit
  PROVE  SoleInv(L)
<1>1. SoleLeader(L)
  BY DEF QInit, InitNode, SoleLeader, peers
<1>2. /\ log[L] = <<>> /\ messages[L] = <<>> /\ commitIndex[L] = 0 /\ commits = {}
      /\ pub = [k \in Client |-> Idle] /\ outcome = [m \in Command |-> "new"]
  BY DEF QInit, InitNode
<1>3. Len(log[L]) = 0 /\ Len(messages[L]) = 0
  BY <1>2, EmptySeq
<1>4. IndexHeld(L) /\ CommitsInLog(L) /\ WaiterRegistered /\ AnsweredHeld(L)
  BY <1>2, <1>3 DEF IndexHeld, CommitsInLog, WaiterRegistered, AnsweredHeld, Idle
<1>5. HandedOut(L)
  <2>1. 0 \in 0 .. Len(log[L]) /\ Len(messages[L]) <= 0
    BY <1>3
  <2>2. \A k \in Client : pub[k].pc # "signalled"
    BY <1>2 DEF Idle
  <2>3. QED BY <2>1, <2>2 DEF HandedOut
<1>6. QED BY <1>1, <1>4, <1>5 DEF SoleInv

\* What no step of the Raft nodes does while only L may lead: it makes no other node
\* leader, sends L no entries, and changes L's log and commit index only through L's
\* own Propose and SetCommitIndex.
LEMMA SoleNode ==
  ASSUME NEW L \in Node, TypeOK, SoleLeader(L), NEW n \in Node, NodeStep(n)
  PROVE  SoleLeader(L)' /\ log' = log /\ commitIndex' = commitIndex
<1> USE DEF TypeOK, SoleLeader
<1>0. ASSUME NEW a, NEW b, NEW es, n = L, Broadcast(n, a, b, es)
      PROVE  \A m \in appendReqs' : m.to # L
  BY <1>0 DEF Broadcast, peers
<1> USE DEF nodeVars, logVars, runVars
<1>1. ASSUME AfterFuncFires(n) PROVE SoleLeader(L)' /\ log' = log /\ commitIndex' = commitIndex
  BY <1>1 DEF AfterFuncFires, BecomeCandidate
<1>2. ASSUME ElectionTimeout(n) PROVE SoleLeader(L)' /\ log' = log /\ commitIndex' = commitIndex
  BY <1>2 DEF ElectionTimeout, BecomeCandidate
<1>3. ASSUME RequestVotes(n) PROVE SoleLeader(L)' /\ log' = log /\ commitIndex' = commitIndex
  BY <1>3 DEF RequestVotes
<1>4. ASSUME NEW p \in Node, VoteCallFails(n, p)
      PROVE  SoleLeader(L)' /\ log' = log /\ commitIndex' = commitIndex
  BY <1>4 DEF VoteCallFails
<1>5. ASSUME CheckVotes(n) PROVE SoleLeader(L)' /\ log' = log /\ commitIndex' = commitIndex
  BY <1>5 DEF CheckVotes
<1>6. ASSUME BecomeLeader(n) PROVE SoleLeader(L)' /\ log' = log /\ commitIndex' = commitIndex
  BY <1>6 DEF BecomeLeader
<1>7. ASSUME HeartbeatTick(n) PROVE SoleLeader(L)' /\ log' = log /\ commitIndex' = commitIndex
  BY <1>7 DEF HeartbeatTick
<1>8. ASSUME SendHeartbeats(n) PROVE SoleLeader(L)' /\ log' = log /\ commitIndex' = commitIndex
  <2>1. n = L
    BY <1>8 DEF SendHeartbeats
  <2>2. \A m \in appendReqs' : m.to # L
    BY <1>0, <1>8, <2>1 DEF SendHeartbeats
  <2>3. QED BY <1>8, <2>1, <2>2 DEF SendHeartbeats
<1>9. ASSUME ReplicateAll(n) PROVE SoleLeader(L)' /\ log' = log /\ commitIndex' = commitIndex
  <2>1. n = L
    BY <1>9 DEF ReplicateAll
  <2>2. \A m \in appendReqs' : m.to # L
    BY <1>0, <1>9, <2>1 DEF ReplicateAll
  <2>3. QED BY <1>9, <2>1, <2>2 DEF ReplicateAll
<1>10. ASSUME Stop(n) PROVE SoleLeader(L)' /\ log' = log /\ commitIndex' = commitIndex
  BY <1>10 DEF Stop
<1>11. QED BY <1>1, <1>2, <1>3, <1>4, <1>5, <1>6, <1>7, <1>8, <1>9, <1>10 DEF NodeStep

\* A call that arrives is for another node.
LEMMA SoleArrival ==
  ASSUME NEW L \in Node, TypeOK, SoleLeader(L), Arrival
  PROVE  SoleLeader(L)' /\ log'[L] = log[L] /\ commitIndex'[L] = commitIndex[L]
<1> USE DEF TypeOK, SoleLeader, nodeVars, logVars, runVars
<1>1. ASSUME NEW m \in voteReqs, NEW answered \in BOOLEAN, HandleRequestVote(m, answered)
      PROVE  SoleLeader(L)' /\ log'[L] = log[L] /\ commitIndex'[L] = commitIndex[L]
  <2>1. /\ state' = state \/ state' = [state EXCEPT ![m.to] = Follower]
        /\ pc' = pc /\ appendReqs' = appendReqs /\ log' = log /\ commitIndex' = commitIndex
    BY <1>1 DEF HandleRequestVote, RequestVote
  <2>2. QED BY <2>1
<1>2. ASSUME NEW m \in appendReqs, HandleAppendEntries(m)
      PROVE  SoleLeader(L)' /\ log'[L] = log[L] /\ commitIndex'[L] = commitIndex[L]
  <2>1. m.to # L /\ m.to \in Node
    BY DEF AppendReq
  <2>2. /\ state' = state \/ state' = [state EXCEPT ![m.to] = Follower]
        /\ pc' = pc /\ appendReqs' \subseteq appendReqs
    BY <1>2 DEF HandleAppendEntries, AppendEntries
  <2>3. log'[L] = log[L] /\ commitIndex'[L] = commitIndex[L]
    BY <1>2, <2>1 DEF HandleAppendEntries, AppendEntries
  <2>4. QED BY <2>2, <2>3
<1>3. ASSUME NEW m \in appendReqs, LoseAppendEntries(m)
      PROVE  SoleLeader(L)' /\ log'[L] = log[L] /\ commitIndex'[L] = commitIndex[L]
  BY <1>3 DEF LoseAppendEntries
<1>4. QED BY <1>1, <1>2, <1>3 DEF Arrival

\* A step that changes neither the queue nor L's log.
LEMMA SoleOther ==
  ASSUME NEW L \in Node, SoleInv(L), SoleLeader(L)', UNCHANGED queueVars,
         log'[L] = log[L], commitIndex'[L] = commitIndex[L]
  PROVE  SoleInv(L)'
<1> USE DEF SoleInv, queueVars
<1>1. IndexHeld(L)' /\ CommitsInLog(L)'
  BY DEF IndexHeld, CommitsInLog
<1>2. WaiterRegistered' /\ AnsweredHeld(L)'
  BY DEF WaiterRegistered, AnsweredHeld, Held
<1>3. HandedOut(L)'
  BY DEF HandedOut, Held
<1>4. QED BY <1>1, <1>2, <1>3

\* Publish appends to L's log, at an index nobody holds.
LEMMA SolePublish ==
  ASSUME NEW L \in Node, TypeOK, QTypeOK, SoleInv(L),
         NEW k \in Client, NEW n \in Node, NEW m \in Command, Publish(k, n, m)
  PROVE  SoleInv(L)'
<1> DEFINE e == [index |-> Len(log[n]) + 1, term |-> currentTerm[n], cmd |-> m]
           new == [pc |-> "proposed", node |-> n, idx |-> Len(log[n]) + 1, msg |-> m]
<1>1. /\ n = L /\ log' = [log EXCEPT ![n] = Append(log[n], e)] /\ commitIndex' = commitIndex
      /\ state' = state /\ pc' = pc /\ appendReqs' = appendReqs
      /\ pub[k] = Idle /\ pub' = [pub EXCEPT ![k] = new] /\ outcome[m] = "new"
      /\ outcome' = [outcome EXCEPT ![m] = "open"]
      /\ UNCHANGED <<messages, pending, commits, acked>>
  BY DEF Publish, Propose, SoleInv, SoleLeader, nodeVars, runVars
<1>2. log[L] \in Seq(Entry) /\ Len(log[L]) \in Nat /\ DOMAIN log[L] = 1 .. Len(log[L])
  BY LenProperties DEF TypeOK
<1>3. e \in Entry /\ e.cmd = m
  BY <1>1, <1>2 DEF TypeOK, Entry
<1>4. /\ log'[L] = Append(log[L], e)
      /\ Len(log'[L]) = Len(log[L]) + 1 /\ DOMAIN log'[L] = 1 .. (Len(log[L]) + 1)
      /\ log'[L][Len(log[L]) + 1] = e
      /\ \A i \in 1 .. Len(log[L]) : log'[L][i] = log[L][i]
  <2>1. log'[L] = Append(log[L], e)
    BY <1>1 DEF TypeOK
  <2> HIDE DEF e
  <2>2. QED BY <1>2, <1>3, <2>1, AppendProperties
<1>5. /\ new.pc = "proposed" /\ new.node = L /\ new.idx = Len(log[L]) + 1 /\ new.msg = m
      /\ pub'[k] = new /\ \A x \in Client : x # k => pub'[x] = pub[x]
  BY <1>1 DEF QTypeOK
<1> HIDE DEF e, new
<1>6. SoleLeader(L)'
  BY <1>1 DEF SoleInv, SoleLeader
<1>7. IndexHeld(L)'
  <2>1. ASSUME NEW x \in Client, pub'[x] # Idle
        PROVE  /\ pub'[x].node = L /\ pub'[x].idx \in DOMAIN log'[L]
               /\ log'[L][pub'[x].idx].cmd = pub'[x].msg
    <3>1. CASE x = k
      BY <1>2, <1>3, <1>4, <1>5, <3>1
    <3>2. CASE x # k
      BY <1>2, <1>4, <1>5, <2>1, <3>2 DEF SoleInv, IndexHeld
    <3>3. QED BY <3>1, <3>2
  <2>2. ASSUME NEW x \in Client, NEW y \in Client, pub'[x] # Idle, pub'[y] # Idle,
               pub'[x].idx = pub'[y].idx, x # y
        PROVE  FALSE
    <3>1. \A z \in Client : z # k /\ pub'[z] # Idle => pub'[z].idx \in 1 .. Len(log[L])
      BY <1>2, <1>5 DEF SoleInv, IndexHeld
    <3>2. CASE x # k /\ y # k
      BY <1>5, <2>2, <3>2 DEF SoleInv, IndexHeld
    <3>3. CASE x = k \/ y = k
      BY <1>2, <1>5, <2>2, <3>1, <3>3
    <3>4. QED BY <3>2, <3>3
  <2>3. QED BY <2>1, <2>2 DEF IndexHeld
<1>8. CommitsInLog(L)'
  BY <1>1, <1>2, <1>4 DEF SoleInv, CommitsInLog, TypeOK
<1>9. WaiterRegistered'
  BY <1>1, <1>5 DEF SoleInv, WaiterRegistered
<1>10. HandedOut(L)'
  <2>1. PICK hi \in 0 .. Len(log[L]) :
          /\ Len(messages[L]) <= hi
          /\ \A j \in 1 .. hi : log[L][j].cmd \in Held(L)
          /\ \A x \in Client : pub[x].pc = "signalled" => pub[x].idx <= hi
    BY DEF SoleInv, HandedOut
  <2>2. hi \in 0 .. Len(log'[L]) /\ Len(messages'[L]) <= hi
    BY <1>1, <1>2, <1>4, <2>1
  <2>3. \A j \in 1 .. hi : log'[L][j].cmd \in Held(L)'
    BY <1>1, <1>2, <1>4, <2>1 DEF Held
  <2>4. \A x \in Client : pub'[x].pc = "signalled" => pub'[x].idx <= hi
    BY <1>5, <2>1
  <2>5. QED BY <2>2, <2>3, <2>4 DEF HandedOut
<1>11. AnsweredHeld(L)'
  BY <1>1 DEF SoleInv, AnsweredHeld, Held, QTypeOK
<1>12. QED BY <1>6, <1>7, <1>8, <1>9, <1>10, <1>11 DEF SoleInv

\* The other steps of a Publish: registering, returning, giving up.
LEMMA SoleClient ==
  ASSUME NEW L \in Node, QTypeOK, SoleInv(L), NEW k \in Client,
         Register(k) \/ PublishReturns(k) \/ PublishTimesOut(k)
  PROVE  SoleInv(L)'
<1>1. /\ pub[k].pc # "idle" /\ pub[k] # Idle
      /\ UNCHANGED <<vars, messages, commits, acked>>
  BY DEF Register, PublishReturns, PublishTimesOut, Idle
<1>2. /\ pub[k] \in Publishing /\ pub[k].node = L /\ pub[k].idx \in Index
      /\ pub[k].msg \in Command
  BY <1>1, PubFields DEF SoleInv, IndexHeld
<1>3. /\ pub'[k] = Idle \/ pub'[k] = [pub[k] EXCEPT !.pc = "waiting"]
      /\ \A x \in Client : x # k => pub'[x] = pub[x]
  BY DEF Register, PublishReturns, PublishTimesOut, QTypeOK
<1>4. pub'[k] # Idle => /\ pub'[k].node = pub[k].node /\ pub'[k].idx = pub[k].idx
                        /\ pub'[k].msg = pub[k].msg /\ pub'[k].pc = "waiting"
  BY <1>2, <1>3 DEF Publishing
<1>5. SoleLeader(L)' /\ CommitsInLog(L)'
  BY <1>1 DEF SoleInv, SoleLeader, CommitsInLog, vars
<1>6. IndexHeld(L)'
  <2>1. log' = log /\ \A x \in Client : pub'[x] # Idle =>
                  /\ pub[x] # Idle /\ pub'[x].node = pub[x].node
                  /\ pub'[x].idx = pub[x].idx /\ pub'[x].msg = pub[x].msg
    BY <1>1, <1>3, <1>4 DEF vars
  <2>2. QED BY <2>1 DEF SoleInv, IndexHeld
<1>7. WaiterRegistered'
  <2> SUFFICES ASSUME NEW x \in Client, pub'[x].pc = "waiting"
               PROVE  pending'[pub'[x].node][pub'[x].idx] = x
    BY DEF WaiterRegistered
  <2>1. CASE x = k
    <3>1. Register(k)
      BY <2>1 DEF PublishReturns, PublishTimesOut, QTypeOK, Idle
    <3>2. /\ pending' = [pending EXCEPT ![L] = [pending[L] EXCEPT ![pub[k].idx] = k]]
          /\ pub'[k].node = L /\ pub'[k].idx = pub[k].idx
      BY <1>2, <1>4, <2>1, <3>1 DEF Register, Idle
    <3>3. QED BY <1>2, <2>1, <3>2 DEF QTypeOK
  <2>2. CASE x # k
    <3>1. pub'[x] = pub[x] /\ pub[x] # Idle
      BY <1>3, <2>2 DEF Idle
    <3>2. pub[x].node = L /\ pub[x].idx # pub[k].idx /\ pending[L][pub[x].idx] = x
      BY <1>1, <2>2, <3>1 DEF SoleInv, IndexHeld, WaiterRegistered
    <3>3. \/ pending' = pending
          \/ \E v : pending' = [pending EXCEPT ![L] = [pending[L] EXCEPT ![pub[k].idx] = v]]
      <4>1. CASE Register(k)
        BY <1>2, <4>1 DEF Register
      <4>2. CASE PublishReturns(k)
        BY <4>2 DEF PublishReturns
      <4>3. CASE PublishTimesOut(k)
        BY <1>2, <4>3 DEF PublishTimesOut
      <4>4. QED BY <4>1, <4>2, <4>3
    <3>4. pub[x].idx \in Index
      BY <3>1, PubFields
    <3>5. QED BY <1>2, <3>1, <3>2, <3>3, <3>4 DEF QTypeOK
  <2>3. QED BY <2>1, <2>2
<1>8. PICK hi \in 0 .. Len(log[L]) :
        /\ Len(messages[L]) <= hi
        /\ \A j \in 1 .. hi : log[L][j].cmd \in Held(L)
        /\ \A x \in Client : pub[x].pc = "signalled" => pub[x].idx <= hi
  BY DEF SoleInv, HandedOut
<1>9. HandedOut(L)'
  <2>1. hi \in 0 .. Len(log'[L]) /\ Len(messages'[L]) <= hi
    BY <1>1, <1>8 DEF vars
  <2>2. \A j \in 1 .. hi : log'[L][j].cmd \in Held(L)'
    BY <1>1, <1>8 DEF Held, vars
  <2>3. \A x \in Client : pub'[x].pc = "signalled" => pub'[x].idx <= hi
    BY <1>3, <1>4, <1>8 DEF Idle
  <2>4. QED BY <2>1, <2>2, <2>3 DEF HandedOut
<1>10. AnsweredHeld(L)'
  <2>1. Held(L)' = Held(L)
    BY <1>1 DEF Held
  <2>2. CASE PublishReturns(k)
    <3>1. pub[k].idx \in 1 .. hi /\ log[L][pub[k].idx].cmd = pub[k].msg
      BY <1>1, <1>2, <1>8, <2>2, BoundAssumption
      DEF PublishReturns, SoleInv, IndexHeld, Index
    <3>2. pub[k].msg \in Held(L)
      BY <1>8, <3>1
    <3>3. QED BY <1>2, <2>1, <2>2, <3>2 DEF PublishReturns, SoleInv, AnsweredHeld, QTypeOK
  <2>3. CASE Register(k)
    BY <2>1, <2>3 DEF Register, SoleInv, AnsweredHeld
  <2>4. CASE PublishTimesOut(k)
    BY <1>2, <2>1, <2>4 DEF PublishTimesOut, SoleInv, AnsweredHeld, QTypeOK
  <2>5. QED BY <2>2, <2>3, <2>4
<1>11. QED BY <1>5, <1>6, <1>7, <1>9, <1>10 DEF SoleInv

\* A refused Publish is answered with its error.
LEMMA SoleRefused ==
  ASSUME NEW L \in Node, QTypeOK, SoleInv(L), NEW k \in Client, NEW n \in Node,
         NEW m \in Command, PublishRefused(k, n, m)
  PROVE  SoleInv(L)'
<1> USE DEF SoleInv, PublishRefused, vars
<1>1. SoleLeader(L)' /\ IndexHeld(L)' /\ CommitsInLog(L)' /\ WaiterRegistered'
  BY DEF SoleLeader, IndexHeld, CommitsInLog, WaiterRegistered
<1>2. HandedOut(L)'
  BY DEF HandedOut, Held
<1>3. AnsweredHeld(L)'
  BY DEF AnsweredHeld, Held, QTypeOK
<1>4. QED BY <1>1, <1>2, <1>3

\* A commit is one of L's log, and OnCommit will be called for it.
LEMMA SoleCommit ==
  ASSUME NEW L \in Node, TypeOK, SoleInv(L), NEW n \in Node, NEW i \in Index, Commit(n, i)
  PROVE  SoleInv(L)'
<1>1. /\ n = L /\ i \in DOMAIN log[L] /\ i > commitIndex[L]
      /\ commitIndex' = [commitIndex EXCEPT ![n] = i] /\ log' = log
      /\ state' = state /\ pc' = pc /\ appendReqs' = appendReqs
      /\ commits' = commits \cup {<<n, i>>}
      /\ UNCHANGED <<messages, pending, pub, acked, outcome>>
  BY DEF Commit, SetCommitIndex, SoleInv, SoleLeader, nodeVars, runVars
<1>2. SoleLeader(L)' /\ IndexHeld(L)' /\ WaiterRegistered' /\ AnsweredHeld(L)'
  BY <1>1 DEF SoleInv, SoleLeader, IndexHeld, WaiterRegistered, AnsweredHeld, Held
<1>3. HandedOut(L)'
  BY <1>1 DEF SoleInv, HandedOut, Held
<1>4. CommitsInLog(L)'
  <2>1. /\ commitIndex'[L] = i /\ commitIndex[L] \in Nat /\ i \in Nat
        /\ i <= Len(log[L])
    BY <1>1, LenProperties DEF TypeOK
  <2>2. ASSUME NEW p \in Node, NEW j \in Index, <<p, j>> \in commits'
        PROVE  p = L /\ j <= i
    <3>1. j \in Nat
      BY BoundAssumption DEF Index
    <3>2. CASE <<p, j>> \in commits
      BY <1>1, <2>1, <3>1, <3>2 DEF SoleInv, CommitsInLog
    <3>3. CASE p = n /\ j = i
      BY <1>1, <2>1, <3>3
    <3>4. QED BY <1>1, <2>2, <3>2, <3>3
  <2>3. QED BY <1>1, <2>1, <2>2 DEF CommitsInLog
<1>5. QED BY <1>2, <1>3, <1>4 DEF SoleInv

\* OnCommit appends what the queue is short of: what was there stays, and every
\* committed entry beyond the queue's length comes in.
LEMMA RefillHolds ==
  ASSUME NEW msgs \in Seq(Command), NEW committed \in Seq(Entry)
  PROVE  /\ \A j \in DOMAIN msgs : \E i \in DOMAIN Refill(msgs, committed) :
              Refill(msgs, committed)[i] = msgs[j]
         /\ \A j \in DOMAIN committed : j > Len(msgs) =>
              \E i \in DOMAIN Refill(msgs, committed) :
                Refill(msgs, committed)[i] = committed[j].cmd
         /\ Len(Refill(msgs, committed)) =
              IF Len(committed) > Len(msgs) THEN Len(committed) ELSE Len(msgs)
<1> DEFINE d == IF Len(committed) > Len(msgs) THEN Len(committed) - Len(msgs) ELSE 0
           s == [i \in 1 .. d |-> committed[Len(msgs) + i].cmd]
           r == Refill(msgs, committed)
<1>1. /\ Len(msgs) \in Nat /\ Len(committed) \in Nat /\ d \in Nat
      /\ DOMAIN msgs = 1 .. Len(msgs) /\ DOMAIN committed = 1 .. Len(committed)
  BY LenProperties
<1>2. ASSUME NEW i \in 1 .. d PROVE committed[Len(msgs) + i].cmd \in Command
  <2>1. Len(msgs) + i \in 1 .. Len(committed)
    BY <1>1
  <2>2. committed[Len(msgs) + i] \in Entry
    BY <2>1, ElementOfSeq
  <2>3. QED BY <2>2 DEF Entry
<1>3. r = msgs \o s
  BY DEF Refill
<1> HIDE DEF d
<1>4. s \in Seq(Command) /\ Len(s) = d /\ \A i \in 1 .. d : s[i] = committed[Len(msgs) + i].cmd
  BY <1>1, <1>2, IsASeq
<1> HIDE DEF s, r
<1>5. /\ Len(r) = Len(msgs) + d /\ DOMAIN r = 1 .. (Len(msgs) + d)
      /\ \A i \in 1 .. (Len(msgs) + d) : r[i] = IF i <= Len(msgs) THEN msgs[i] ELSE s[i - Len(msgs)]
  <2>1. /\ r \in Seq(Command) /\ Len(r) = Len(msgs) + Len(s)
        /\ \A i \in 1 .. Len(msgs) + Len(s) :
             r[i] = IF i <= Len(msgs) THEN msgs[i] ELSE s[i - Len(msgs)]
    BY <1>3, <1>4, ConcatProperties, Zenon
  <2>2. DOMAIN r = 1 .. Len(r)
    BY <2>1, LenProperties
  <2>3. QED BY <1>4, <2>1, <2>2
<1>6. ASSUME NEW j \in DOMAIN msgs PROVE j \in DOMAIN r /\ r[j] = msgs[j]
  BY <1>1, <1>5
<1>7. ASSUME NEW j \in DOMAIN committed, j > Len(msgs)
      PROVE  j \in DOMAIN r /\ r[j] = committed[j].cmd
  <2>0. j \in Nat /\ j <= Len(committed) /\ Len(committed) > Len(msgs)
    BY <1>1, <1>7
  <2>1. d = Len(committed) - Len(msgs) /\ j - Len(msgs) \in 1 .. d
    BY <1>1, <1>7, <2>0 DEF d
  <2>2. j \in 1 .. (Len(msgs) + d) /\ ~(j <= Len(msgs)) /\ Len(msgs) + (j - Len(msgs)) = j
    BY <1>1, <1>7, <2>1
  <2>3. r[j] = s[j - Len(msgs)]
    BY <1>5, <2>2
  <2>4. QED BY <1>4, <1>5, <2>1, <2>2, <2>3
<1>8. Len(r) = IF Len(committed) > Len(msgs) THEN Len(committed) ELSE Len(msgs)
  BY <1>1, <1>5 DEF d
<1>9. QED BY <1>6, <1>7, <1>8 DEF r

\* OnCommit hands out every entry up to the commit index and signals the Publish
\* that waits under the index committed.
LEMMA SoleOnCommit ==
  ASSUME NEW L \in Node, TypeOK, QTypeOK, PendingWaits, SoleInv(L),
         NEW n \in Node, NEW i \in Index, OnCommit(n, i)
  PROVE  SoleInv(L)'
<1> DEFINE k == pending[L][i]
           committed == Committed(L)
           ci == commitIndex[L]
<1>1. /\ n = L /\ i <= ci /\ ci <= Len(log[L]) /\ ci \in Nat /\ i \in Nat
  BY BoundAssumption DEF OnCommit, SoleInv, CommitsInLog, TypeOK, Index
<1>2. /\ commits' = commits \ {<<n, i>>}
      /\ messages' = [messages EXCEPT ![L] = Refill(messages[L], committed)]
      /\ pending' = [pending EXCEPT ![L] = [pending[L] EXCEPT ![i] = None]]
      /\ pub' = [x \in Client |-> IF x = k THEN [pub[x] EXCEPT !.pc = "signalled"]
                                  ELSE pub[x]]
      /\ UNCHANGED <<vars, acked, outcome>>
  BY <1>1 DEF OnCommit
<1>3. UNCHANGED <<log, commitIndex, state, pc, appendReqs, acked, outcome>>
  BY <1>2 DEF vars
<1>4. /\ messages[L] \in Seq(Command) /\ Len(messages[L]) \in Nat
      /\ committed \in Seq(Entry) /\ Len(committed) = ci
      /\ \A j \in 1 .. ci : committed[j] = log[L][j]
      /\ DOMAIN committed = 1 .. ci
      /\ messages'[L] = Refill(messages[L], committed)
  <2>1. messages[L] \in Seq(Command) /\ messages'[L] = Refill(messages[L], committed)
    BY <1>2 DEF QTypeOK
  <2>2. /\ committed \in Seq(Entry) /\ Len(committed) = ci
        /\ \A j \in 1 .. ci : committed[j] = log[L][j]
    BY <1>1, CommittedType
  <2>3. QED BY <2>1, <2>2, LenProperties
<1>5. ASSUME NEW x \in Client, x = k
      PROVE  /\ pub[x].pc = "waiting" /\ pub[x].idx = i /\ pub[x] \in Publishing
             /\ pub'[x].pc = "signalled" /\ pub'[x].idx = i /\ pub[x] # Idle
             /\ pub'[x].node = pub[x].node /\ pub'[x].msg = pub[x].msg
  <2>1. pub[x].pc = "waiting" /\ pub[x].idx = i
    BY <1>5 DEF PendingWaits
  <2>2. pub[x] \in Publishing
    BY <2>1, PubFields
  <2>3. pub'[x] = [pub[x] EXCEPT !.pc = "signalled"]
    BY <1>2, <1>5
  <2>4. QED BY <2>1, <2>2, <2>3 DEF Publishing, Idle
<1>6. ASSUME NEW x \in Client, x # k PROVE pub'[x] = pub[x]
  BY <1>2, <1>6
<1> HIDE DEF k, committed, ci
<1>7. Held(L) \subseteq Held(L)'
  <2>1. ASSUME NEW j \in DOMAIN messages[L]
        PROVE  \E y \in DOMAIN messages'[L] : messages'[L][y] = messages[L][j]
    BY <1>4, RefillHolds
  <2>2. QED BY <1>3, <2>1 DEF Held
<1>8. ASSUME NEW j \in 1 .. ci, j > Len(messages[L]) PROVE log[L][j].cmd \in Held(L)'
  <2>1. \E y \in DOMAIN messages'[L] : messages'[L][y] = committed[j].cmd
    BY <1>4, <1>8, RefillHolds
  <2>2. committed[j] = log[L][j]
    BY <1>4
  <2>3. QED BY <2>1, <2>2 DEF Held
<1>9. SoleLeader(L)' /\ CommitsInLog(L)'
  BY <1>2, <1>3 DEF SoleInv, SoleLeader, CommitsInLog
<1>10. IndexHeld(L)'
  <2>1. \A x \in Client : pub'[x] # Idle =>
          /\ pub[x] # Idle /\ pub'[x].node = pub[x].node
          /\ pub'[x].idx = pub[x].idx /\ pub'[x].msg = pub[x].msg
    BY <1>5, <1>6
  <2>2. QED BY <1>3, <2>1 DEF SoleInv, IndexHeld
<1>11. WaiterRegistered'
  <2> SUFFICES ASSUME NEW x \in Client, pub'[x].pc = "waiting"
               PROVE  pending'[pub'[x].node][pub'[x].idx] = x
    BY DEF WaiterRegistered
  <2>1. x # k /\ pub'[x] = pub[x]
    BY <1>5, <1>6
  <2>2. pub[x] # Idle /\ pub[x].idx \in Index
    BY <2>1, PubFields DEF Idle
  <2>3. pub[x].node = L /\ pending[L][pub[x].idx] = x
    BY <2>1, <2>2 DEF SoleInv, IndexHeld, WaiterRegistered
  <2>4. pub[x].idx # i
    BY <2>1, <2>3 DEF k
  <2>5. QED BY <1>2, <2>1, <2>2, <2>3, <2>4 DEF QTypeOK
<1>12. HandedOut(L)'
  <2>1. PICK hi \in 0 .. Len(log[L]) :
          /\ Len(messages[L]) <= hi
          /\ \A j \in 1 .. hi : log[L][j].cmd \in Held(L)
          /\ \A x \in Client : pub[x].pc = "signalled" => pub[x].idx <= hi
    BY DEF SoleInv, HandedOut
  <2> DEFINE top == IF ci > hi THEN ci ELSE hi
  <2>2. Len(log[L]) \in Nat /\ hi \in Nat
    BY LenProperties DEF TypeOK
  <2>3. top \in 0 .. Len(log'[L]) /\ top \in Nat /\ hi <= top /\ ci <= top
    BY <1>1, <1>3, <2>1, <2>2 DEF ci
  <2>4. Len(messages'[L]) <= top
    <3>1. Len(messages'[L]) = IF ci > Len(messages[L]) THEN ci ELSE Len(messages[L])
      BY <1>4, RefillHolds
    <3>2. QED BY <1>1, <1>4, <2>1, <2>2, <3>1
  <2>5. ASSUME NEW j \in 1 .. top PROVE log'[L][j].cmd \in Held(L)'
    <3>1. CASE j <= hi
      BY <1>3, <1>7, <2>1, <2>2, <3>1
    <3>2. CASE j > hi
      <4>1. j \in 1 .. ci /\ j > Len(messages[L])
        BY <1>1, <1>4, <2>1, <2>2, <3>2
      <4>2. QED BY <1>3, <1>8, <4>1
    <3>3. QED BY <2>2, <3>1, <3>2
  <2>6. ASSUME NEW x \in Client, pub'[x].pc = "signalled" PROVE pub'[x].idx <= top
    <3>1. CASE x = k
      BY <1>1, <1>5, <2>3, <3>1 DEF ci
    <3>2. CASE x # k
      <4>1. pub'[x] = pub[x] /\ pub[x].idx <= hi
        BY <1>6, <2>1, <2>6, <3>2
      <4>2. pub[x].idx \in Nat
        BY <2>6, <4>1, PubFields, BoundAssumption DEF Index
      <4>3. QED BY <2>2, <2>3, <4>1, <4>2
    <3>3. QED BY <3>1, <3>2
  <2> HIDE DEF top
  <2>7. QED BY <2>3, <2>4, <2>5, <2>6 DEF HandedOut
<1>13. AnsweredHeld(L)'
  BY <1>3, <1>7 DEF SoleInv, AnsweredHeld
<1>14. QED BY <1>9, <1>10, <1>11, <1>12, <1>13 DEF SoleInv

\* Ack moves messages from the queue to those acknowledged.
LEMMA SoleAck ==
  ASSUME NEW L \in Node, QTypeOK, SoleInv(L), NEW n \in Node, NEW o \in Index, Ack(n, o)
  PROVE  SoleInv(L)'
<1>1. UNCHANGED <<vars, log, commitIndex, state, pc, appendReqs, pending, pub, commits, outcome>>
  BY DEF Ack, vars
<1>2. /\ messages[L] \in Seq(Command) /\ Len(messages[L]) \in Nat
      /\ DOMAIN messages[L] = 1 .. Len(messages[L])
  BY LenProperties DEF QTypeOK
<1>3. /\ Held(L) \subseteq Held(L)'
      /\ Len(messages'[L]) \in Nat /\ Len(messages'[L]) <= Len(messages[L])
  <2>1. CASE n # L
    <3>1. messages'[L] = messages[L] /\ acked'[L] = acked[L]
      BY <2>1 DEF Ack, QTypeOK
    <3>2. QED BY <1>2, <3>1 DEF Held
  <2>2. CASE n = L
    <3> DEFINE t == SubSeq(messages[L], o + 1, Len(messages[L]))
    <3>1. /\ o \in 1 .. Len(messages[L]) /\ messages'[L] = t
          /\ acked'[L] = acked[L] \cup {messages[L][j] : j \in 1 .. o}
      BY <2>2 DEF Ack, QTypeOK
    <3>2. /\ t \in Seq(Command) /\ Len(t) = Len(messages[L]) - o
          /\ \A j \in 1 .. Len(messages[L]) - o : t[j] = messages[L][o + j]
      <4>1. \A j \in o + 1 .. Len(messages[L]) : messages[L][j] \in Command
        BY <1>2, <3>1, ElementOfSeq
      <4>2. t \in Seq(Command) /\ Len(t) = Len(messages[L]) - o
        BY <1>2, <3>1, <4>1, SubSeqProperties
      <4>3. ASSUME NEW j \in 1 .. Len(messages[L]) - o PROVE t[j] = messages[L][o + j]
        BY <1>2, <3>1, <4>1, <4>2, SubSeqProperties
      <4>4. QED BY <4>2, <4>3
    <3> HIDE DEF t
    <3>3. DOMAIN t = 1 .. Len(messages[L]) - o
      BY <3>2, LenProperties
    <3>4. ASSUME NEW j \in 1 .. Len(messages[L])
          PROVE  messages[L][j] \in acked'[L] \cup {t[y] : y \in DOMAIN t}
      <4>1. CASE j <= o
        <5>1. j \in 1 .. o
          BY <1>2, <3>1, <4>1
        <5>2. QED BY <3>1, <5>1
      <4>2. CASE j > o
        <5>1. j - o \in 1 .. Len(messages[L]) - o /\ o + (j - o) = j
          BY <1>2, <3>1, <4>2
        <5>2. t[j - o] = messages[L][j]
          BY <3>2, <5>1
        <5>3. QED BY <3>3, <5>1, <5>2
      <4>3. QED BY <1>2, <3>1, <4>1, <4>2
    <3>5. Held(L) \subseteq Held(L)'
      BY <1>2, <3>1, <3>4 DEF Held
    <3>6. QED BY <1>2, <3>1, <3>2, <3>5
  <2>3. QED BY <2>1, <2>2
<1>4. SoleLeader(L)' /\ IndexHeld(L)' /\ CommitsInLog(L)' /\ WaiterRegistered'
  BY <1>1 DEF SoleInv, SoleLeader, IndexHeld, CommitsInLog, WaiterRegistered
<1>5. AnsweredHeld(L)'
  BY <1>1, <1>3 DEF SoleInv, AnsweredHeld
<1>6. HandedOut(L)'
  <2>1. PICK hi \in 0 .. Len(log[L]) :
          /\ Len(messages[L]) <= hi
          /\ \A j \in 1 .. hi : log[L][j].cmd \in Held(L)
          /\ \A x \in Client : pub[x].pc = "signalled" => pub[x].idx <= hi
    BY DEF SoleInv, HandedOut
  <2>3. Len(messages'[L]) <= hi /\ hi \in 0 .. Len(log'[L])
    BY <1>1, <1>2, <1>3, <2>1
  <2>4. QED BY <1>1, <1>3, <2>1, <2>3 DEF HandedOut
<1>7. QED BY <1>4, <1>5, <1>6 DEF SoleInv

\* Every step keeps the invariant while only L may lead.
LEMMA SoleNext ==
  ASSUME NEW L \in Node, TypeOK, QTypeOK, PendingWaits, SoleInv(L), [QNext]_qVars
  PROVE  SoleInv(L)'
<1>1. ASSUME NEW k \in Client, ClientStep(k) PROVE SoleInv(L)'
  BY <1>1, SolePublish, SoleRefused, SoleClient DEF ClientStep
<1>2. ASSUME NEW n \in Node, NodeStep(n), UNCHANGED queueVars PROVE SoleInv(L)'
  BY <1>2, SoleNode, SoleOther DEF SoleInv
<1>3. ASSUME NEW n \in Node, NEW i \in Index, Commit(n, i) \/ OnCommit(n, i) \/ Ack(n, i)
      PROVE  SoleInv(L)'
  BY <1>3, SoleCommit, SoleOnCommit, SoleAck
<1>4. CASE Arrival /\ UNCHANGED queueVars
  BY <1>4, SoleArrival, SoleOther DEF SoleInv
<1>5. CASE UNCHANGED qVars
  <2>1. SoleLeader(L)' /\ log' = log /\ commitIndex' = commitIndex /\ UNCHANGED queueVars
    BY <1>5 DEF qVars, vars, SoleInv, SoleLeader
  <2>2. QED BY <2>1, SoleOther
<1>6. QED BY <1>1, <1>2, <1>3, <1>4, <1>5 DEF QNext

\* The invariant under one leader.
LEMMA SoleTheorem ==
  ASSUME NEW L \in Node, Running \subseteq {L}
  PROVE  QSpec => []SoleInv(L)
<1>1. QInit => SoleInv(L)
  BY SoleInit
<1>2. TypeOK /\ QTypeOK /\ PendingWaits /\ SoleInv(L) /\ [QNext]_qVars => SoleInv(L)'
  BY SoleNext
<1>3. QED BY <1>1, <1>2, QTypeInv, PTL DEF QSpec

\* As long as one node may lead, however often it is elected, a Publish that waits is
\* the one registered under its index: no other Publish and no other one's timeout
\* takes its place, so that OnCommit of that index reaches it.
THEOREM WaiterTheorem ==
  ASSUME NEW L \in Node, Running \subseteq {L}
  PROVE  QSpec => []WaiterRegistered
<1>1. SoleInv(L) => WaiterRegistered
  BY DEF SoleInv
<1>2. QED BY <1>1, SoleTheorem, PTL

\* As long as one node may lead, a Publish that returned without error put its message
\* into the queue of the leader's replica, though OnCommit only compares lengths and
\* Ack shortens the queue.
THEOREM PublishedTheorem ==
  ASSUME NEW L \in Node, Running \subseteq {L}
  PROVE  QSpec => []PublishedIsQueued
<1>1. SoleInv(L) => PublishedIsQueued
  BY DEF SoleInv, AnsweredHeld, Held, PublishedIsQueued
<1>2. QED BY <1>1, SoleTheorem, PTL
=============================================================================
