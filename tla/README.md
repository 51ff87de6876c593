# gomq in TLA+

TLA+ modules, TLC configurations and TLAPS proofs for gomq (`src/`), an AMQP 0-9-1
broker in Go with metadata in etcd and a Raft log for quorum queues. `PROJECT.json`
maps every definition to the lines it models and lists the runs, the mutants, the
hazards and the theorems.

## The system and its parts

All state is in the memory of one process, guarded by one mutex per manager. Each
connection has a goroutine that reads frames and runs one handler at a time;
timers, scans, watchers and RPC handlers are goroutines of their own. Almost every
operation of a manager is atomic, and almost every handler combines several of them
without a lock around the whole: that is where the system is hard, and where a model
checker sees more than its tests.

| Part | State | Operations | Interacts with | Hard about it | What makes it correct | Module |
|---|---|---|---|---|---|---|
| Raft node and transport (`cluster/raft*.go`) | role, term, vote, log, commit index, two election timers | Run, startElection, RequestVote, AppendEntries, Propose, ReplicateAll, SetCommitIndex, Stop | other nodes over HTTP; quorum queues | three kinds of goroutine over one lock; calls lost, late and reordered | one winner per term, a vote kept within its term, logs indexed and ordered by term | `Raft` |
| Quorum queues (`queue/quorum*.go`) | committed messages, channel per pending index | Create, Publish, OnCommit, Ack | Propose and Committed of the Raft node | the waiter registers after it proposed; a timeout races the signal; indexes are reused | a publish that succeeded is in the queue; every publish returns | `QuorumQueue` |
| Message store (`message_store.go`, `priority_queue.go`) | a list of messages per queue | Enqueue, EnqueuePriority, Dequeue, Purge, RemoveExpired | publisher, pull consumer, tracker, scan | callers combine several critical sections | lengths and priority order | `Broker` |
| Publisher and dead letters (`publisher.go`, `dead_letter.go`) | none | length check, eviction, dead letter, enqueue, push | store, deliverer | three critical sections for one bounded queue | the bound is overrun by a known amount only | `Broker` |
| Delivery (`deliverer.go`, `delivery_tracker.go`, `pull_consumer.go`) | deliveries by channel number and tag | Deliver, Get, Ack, Nack, Reject, RecoverAll | store, dead letters | lookup and removal are separate; tags and channel numbers are not unique | no message is lost or in two places | `Broker` |
| Expiration (`expiration.go`, `ttl.go`) | running flag, interval | scan | store, dead letters | expired messages are in nobody's queue until their callback ran | the same conservation | `Broker` |
| Exchanges, queues, bindings (`*_manager.go`, `router.go`) | maps by name, bindings in two indexes, bindings between exchanges | Declare, Delete, Bind, Unbind, cascades, HasCycle | metadata store; publisher | check and bind under different locks; cascades that release the lock half-way | a bind closes no cycle it could see; the indexes agree on what routes | `Topology` |
| Metadata store and restart (`store/`, `RestoreFromStore`) | queues, exchanges, bindings in etcd | Save, Delete, Load | the managers, under their locks | a crash between any two steps; calls that fail and are only logged | what a restart loads is what there was | `Topology` |
| Snapshots (`snapshot.go`, `restore.go`) | files, retained copies | capture, write, retain, RestoreFromSnapshot | all managers, one after the other | captured under three locks, written in place | a complete file is kept; a capture holds what was there | `Snapshot` |
| Channels (`channel.go`, `channel_handlers.go`, the Confirm and Tx handlers) | modes, delivery tag, staged messages | Confirm.Select, Tx.\*, Open, Close, Publish | publisher, queues being deleted | a commit in several steps; modes that exclude each other one way only | transactions invisible until committed; one confirm per message, in order | `Session` |
| Consumers and groups (`consumer*.go`, `batch.go`) | consumers by queue and by tag, group members, batches by channel number | Subscribe, Unsubscribe, Join, Leave, Select, Flush | deliverer | three indexes changed by different calls, with deliveries between | the indexes agree | `Session` |
| Pipeline (`pipeline.go`) | bounded channel, counter, condition variable, batches | Submit, worker, Flush, Stop | publisher | wake-ups outside the lock; Submit against Stop | everything is published once, before Flush and Stop return | `Pipeline`, `WorkBag` |
| Connections (`connection.go`, `handshake.go`, `heartbeat.go`) | handshake and life-cycle state, socket, last frame seen | handshake, frame loop, sendFrame, heartbeat, Close | channels | Close from two goroutines; a write that blocks with the mutex held | closed once, and everything with it | `Connection` |
| Server, configuration (`server.go`, `rate_limiter.go`, `config/hot_reload.go`, `cmd/gomqd`) | listeners, wait group, limiter, file times, debounce timer | accept, registerConn, Reload, Shutdown | connections, signals, the file system | reload against edit; accept against shutdown | edits come into force; Shutdown waits and returns | `Server` |
| Wire codec, dispatcher, exchange types (`pkg/protocol/amqp091/`, `dispatcher.go`, `exchange_*.go`) | a buffered stream | encode, decode, NextFrame, Dispatch, Match | handlers | lengths, signs, pieces of a stream | what was encoded is read; messages go where the bindings say | `Codec`, `Routing`, `Wire` |
| Worker pool, publish batch, paging, compression, mirrors, federation, shovels, membership, authentication, ACL, web UI, metrics, tracing, plugins | see "Not modelled" | | | | | |

## Modules

An action is one critical section, one channel or atomic operation, or one file
operation. A handler or goroutine with several of them keeps its place in a program
counter (`pc` in `Raft`, `Broker` and `Pipeline`, `pub` in `QuorumQueue` and
`Session`, `op` in `Topology`, `snap.at` in `Snapshot`, `serving` and `heart` in
`Connection`, `reloading` and `main` in `Server`) and its local variables beside it,
so everything that can happen between two of them does.

| Module | Built on | Used by |
|---|---|---|
| `Raft` | | `QuorumQueue`, `MCRaft` |
| `QuorumQueue` | `Raft` | `MCQuorumQueue`, `RaftProofs` |
| `Broker` | | `MCBroker`, `BrokerProofs` |
| `Topology` | | `Snapshot`, `MCTopology` |
| `Snapshot` | `Topology` | `MCSnapshot`, `TopologyProofs` |
| `Session` | | `MCSession`, `SessionProofs` |
| `Pipeline` | `WorkBag` (instance) | `MCPipeline`, `PipelineProofs` |
| `Connection` | | `ServerProofs` |
| `Server` | | `MCServer`, `ServerProofs` |
| `Codec`, `Routing` | | `Wire` |
| `Wire` | `Codec`, `Routing` | `MCWire`, `WireProofs` |
| `Basics` | lemmas on naturals, lists and recursive functions | `RaftProofs`, `BrokerProofs`, `TopologyProofs`, `SessionProofs`, `WireProofs` |

**Raft.** `pc` follows the Run goroutine through startElection: candidate
(`ElectionTimeout`), calls sent (`RequestVotes`), answers counted
(`HandleRequestVote`, `VoteCallFails`), majority checked (`CheckVotes`) and, in a
critical section of its own, `BecomeLeader`. The one-shot timer of NewRaftNode is
separate (`AfterFuncFires`): nothing re-arms it and only Stop stops it. Calls in
flight are sets: they arrive in any order, late, or never; a vote call may fail at
the caller and still reach the peer. Answers to AppendEntries are not modelled
because nobody reads them. `granted` and `won` are history.

**QuorumQueue.** Publish is `Publish` (Propose), `Register` and then
`PublishReturns` or `PublishTimesOut`; Go's select may take the timer though the
channel is ready. No code in `src/` calls SetCommitIndex and OnCommit together, so
the caller is external (`Commit`, then `OnCommit` some time later); it is a careful
one and commits what a majority holds. Nodes whose Run loop was started are a
constant, because QuorumQueueManager.Create starts none.

**Broker.** Publishing is `handlePublish` (arguments and first length check), then
per routed queue `EvictOldest`, `DeadLetterEvicted`, `EnqueueMessage` and
`DeliverPushed`. A message is a record of identity, publisher, home queue and
priority; what an exchange routes to is a constant set of queue lists. Delivery tags
are the code's: 1 for every Get, because handleGet makes a new PullConsumer each
time, and 0 for every push delivery. Which messages have expired is a free choice of
the scan.

**Topology.** Names, types and one abstract value per set of queue arguments. The
store call is part of the manager's critical section, as in the code, and either
takes effect or fails; `failures` counts. `Crash` loses memory, `RestoreFromStore`
loads queues, exchanges and bindings in the order of some listing, with the built-in
exchanges already there. HasCycle's search is the set `Reach` it visits, defined by
closed sets and not by recursion, so that it can be proved about. handleExchangeBind is
two actions, check and `BindE2E`, as in the code, and any number of connections may be
between them; `seen` is history: the bindings the check went over. Arguments keep their
kind in the store: JSON turns integers into floats, which no property here tells apart.

**Snapshot** extends Topology with Create: `CaptureExchanges`, `CaptureQueues`,
`CaptureBindings`, then `WriteBegins` and `WriteEnds` or, before there is a file or half
way through it, `WriteFails`, then `Retain`, which removes files one by one and may stop
at any of them.
A crash between the two write steps leaves a file that does not parse. A start may be
`Start` (store only) or `RestoreFromSnapshot` of any complete file after the store.
`stable` and `seen` are history: what was there throughout the capture, and at some
time of it. The store calls of a restore are taken to succeed.

**Session** follows a Publish through `Route` (the lookup of the bindings),
`EnterQueue`, `DeliverGroup` or `DeliverAlone`, and `Published` with its confirm;
Tx.Commit publishes the staged messages one by one in the same way. Consumers are in
`byTag`, `byQueue` and `groups`, as in the code. Queues and the exchange exist at the
start and may be deleted at any step. Delivery batches are keyed by channel number
alone, which the two connections share.

**Pipeline** has the channel, the counter and the condition variable as the code uses
them: a Flush that decided to wait is not on the notify list until `FlushWait`.
`WorkBag` is the abstract specification: a job accepted is run once, and only a
shutdown drops any. `Bag` maps an item to `waiting` from its Submit to its publish.

**Connection** has the goroutine of Serve and that of the heartbeat monitor. A frame
is written with `mu` held; `sendFrame` blocks when a silent client's buffer is full,
`mu` then names the holder, and whoever needs `mu` waits. Nobody else writes: deliveries
and flushes hand SendFrame a nil frame. Close is the code's sequence: `CloseBegins`
(closing, under `mu`), `CloseChannels`, `AskState` (State() takes `mu` again),
`CloseSocket`, `SetClosed`; until `CloseSocket` the socket is open and a blocked write
stays blocked. Time counts ticks of the heartbeat ticker (`age`); the second tick after
the last frame may and the third does find the client silent. Channels are created and
closed as `ChannelManager` does.

**Server** has the accept loops with the rate limiter and the wait group, the
reloader (`Edit`, `TakeAway`, `WatchEvent`, `TimerFires`, `TimerReload`, `Stat`, `Load`,
`ReloadConfig`), SIGHUP, and the shutdown sequence of main. An accept loop may end at
any time, because it ends on every error of Accept. A connection leaves the map
(`unregisterConn`) before it is counted out (`handleConnDone`), and a shutdown may come
in between. A version of the file stands for its contents and its modification time,
which two versions never share; the file may be removed or renamed until its next
version is there, and Stat and Load then fail. The limit of the file the server was
started with is not in force until a reload, as in the code.

**Codec, Routing, Wire.** Numbers, strings, tables and frames are functions on bytes
with widths and signs; the routers are functions on decoded bindings, each with the
reference definition its comment gives. What is recursive in the code is a recursive
function: encoding a table of the depth it is nested to (`Table`, `tableBytes`,
`MaxDepth`), readTableBody of the bytes it parses, matchParts of the words left of
pattern and key. `Wire` composes them: bytes arrive one by
one, NextFrame peeks and discards in a bounded buffer, Dispatch hands a payload to
handleQueueBind, and a publish uses the bindings made. Handlers are also called
directly (`Call`), as the repository's tests do. A float is a number of halves, so that
it may have a fraction; the encoder cuts it off, as the code does, and what was asked
for (`AsValue`) keeps it. Negative floats and those the integer cannot hold are left
out, because what Go makes of them depends on the machine; times are whole seconds.

Two facts about the wire path matter for reading the other models.
`ChannelManager.Create` is called by tests only, and `handleChannelFrame` ignores
frames for channels that do not exist; and the dispatcher hands a handler the payload
with the class and method numbers still in front (run `wire_bind`). The handlers of
`Broker`, `Topology` and `Session` are modelled as their tests call them: with a
channel that exists and a payload that starts with the arguments.

## Runs and what they show

Twelve runs; between them the passing ones let every action of every specification
happen, and each of their properties has a mutant of the code that violates it.

| Run | Instance | Holds |
|---|---|---|
| `raft` | 3 nodes, 2 terms, logs of 2, 2 AppendEntries in flight, and any two at a time of: an election, a fired `AfterFunc` timer, a failed vote call, a stopped node; or a commit index (`MaxAtOnce`, in which a commit counts twice) | `TypeOK`; one majority winner per term (`OneWinnerPerTerm`); a vote is kept within its term (`VoteOncePerTerm`); terms never decrease along a log nor exceed the node's (`LogTermsOrdered`) |
| `quorum_publish` | 2 replicas of which one runs elections, 2 terms, logs of 2, 2 publishers, a failing vote call, fairness | `QTypeOK`; entries sit at their index (`LogIndexed`); a publish without error is queued or acknowledged (`PublishedIsQueued`); who waits is registered (`WaiterRegistered`); every publish returns (`PublishComesBack`) |
| `broker_pull` | 2 connections, a queue of length 1 with TTL and dead letters to a second one, 2 messages, 1 requeue | `TypeOK`; every message is in one place or settled (`Conserved`) |
| `broker_push` | 3 messages of 2 priorities for a queue of length 1 with push consumers, both connections with the same channel number | the length is overrun by at most one per other connection (`MaxLengthOvershoot`); priorities descend, and equal ones keep their connection's order (`PriorityOrder`) |
| `topology` | 2 connections, a built-in and another exchange, a queue, 2 bindings, bindings between exchanges, crashes and restarts | the store agrees with memory (`StoreAgrees`), also for bindings but for cascades (`SavedBindingsLive`); the index by queue misses none that routes (`QueueIndexCovers`); a cycle is closed only by a Bind that finds a binding its check did not see (`CycleNeedsRace`) |
| `snapshot` | 1 connection, an exchange, a queue, a binding, 2 snapshots, 1 file retained, a failing store call, crashes | `SnapshotKept`, `SnapshotSound` |
| `session` | 2 connections with one channel number, one of them changing modes, 2 queues, a group, batches of 2, 2 messages, 3 subscriptions | `TypeOK`, `IndexesAgree`, `TxIsolation`, `ConfirmsInOrder` |
| `pipeline` | 3 items for 2 exchanges, 2 workers, batches of 2, a buffer of 1, a Flush, a Stop, fairness | inFlight is the number of items on their way (`InFlightCounts`); `FlushSound`, `StopDrains`, `SentIsPublished`, `StopReturns`; implements `WorkBag` (`ImplementsWorkBag`) |
| `connection` | 2 channels, 3 proposals for the heartbeat, a send buffer of 2 frames, fairness | `TypeOK`, `OneCloser`, `DoneIsReleased`, `GoneIsForgotten`, `SilentIsClosed` |
| `server` | 2 clients, a listener, a file with a limit and 2 edits (a broken file, no limit), the broken one possibly taken away, fairness | `ShutdownWaits`, `EditInForce`, `ShutdownEnds` |
| `wire` | 7 bind requests, 20 messages, all 4 exchange types, several streams with frames larger than the buffer and than the limit | `CallsBindAsAsked`, `RoutedAsDefined`, `FramesRead` |
| `wire_bind` | one Queue.Bind frame | **violated**: `BindsAsSent` |

**Bounds.** Three nodes are the least with a majority that is not everybody; two
terms give a leader and its successor. Logs of two are the least with a predecessor,
so that a gap and a conflict can happen: in `raft` a leader's entries are overwritten by
its successor's while older calls are in flight. A commit counts twice in `MaxAtOnce`,
because in `raft` no property speaks of it. Two connections are enough for every pair of
critical sections to interleave; what more of them do is covered by the theorems. Two
messages make a queue of length one full, and a third is the least with which two
publishers could overrun it by more than they may; three also make priorities and
equal priorities meet. Two snapshots with one retained make retention remove one,
complete or not; one connection is enough there, because the goroutine of Create is
the other party. Three items with batches of two and a buffer of one give a full
batch, a batch cut short, a blocked Submit and a batch with two exchanges. A send
buffer of two takes a heartbeat and an answer before a write to a silent client blocks,
and may be full before the monitor finds the client silent. Three versions of the
file, an invalid one between two valid ones, give a reload both an older and a newer
version to confuse with its own. Two clients let one connection end while another is
in the accept loop's hand. Three subscriptions let two
members of a group be joined by a new one after a cancel. The requests of `wire` use
every kind of table value but uint16, uint64 and float32, both signs, a nested table
(`MaxDepth` 1) and an empty key. Bounds are constants named
`Max...` in guards, and `Removable` in `Server`, but for capacities the code has too.
Connections and nodes are interchangeable where a symmetry set says so; runs with a liveness
property use none.

**Fairness.** `QFairSpec`: a Publish in progress goes on, because its goroutine is
runnable and `time.After` fires; nothing is assumed of commits, elections or
messages, since HTTP calls between nodes have no timeout. `Pipeline`: workers, a
Submit or a Flush that has begun and the Stop that waits run on; nobody is forced to
call. `Connection`: the two goroutines run, the ticker ticks, and the kernel ends a
write to a socket that is closed or whose client is gone; the client is not forced to
anything. `Server`: loops, watcher, timer and main run on until the process panics;
the reload of the timer is strongly fair, because `sync.Mutex` hands a waiter the lock
after a millisecond; clients, edits, signals and the end of a connection are free.
`Wire`: the connection's goroutine runs. Deadlock is checked for `Broker`, `Topology`
and `Snapshot`; the others may stop, at a bound or because their work is done.

## Where code and documentation disagree

`wire_bind` is the one with a run: Dispatch decodes class and method with a decoder
of its own and passes the whole payload on (`dispatcher.go:41`), so every handler
that reads arguments takes the class and method for the first of them.

The following properties are stated in the modules with the words of the source and do
not hold. Each has a configuration for which TLC prints the counterexample
(`tlc -config RaftLeader.cfg MCRaft`; all within seconds, `QuorumOverwritten` in two to
three minutes).

| Property | Configuration, module | The source says | What happens |
|---|---|---|---|
| `LeaderWonItsTerm` | `RaftLeader.cfg`, `MCRaft` | "Check if we got majority and are still candidate." (`raft_node.go:141`) | the lock is released between the check and BecomeLeader, which checks nothing: a newer term in between makes a leader of a term nobody voted in (`raft_node.go:149`) |
| `PublishedIsQueued`, with two nodes that run elections | `QuorumOverwritten.cfg`, `MCQuorumQueue` | "It returns once the message is committed by a majority." (`quorum.go:30`) | `pending` is keyed by log index alone; after a change of leader another entry's commit answers a publisher whose message is in no log (`quorum.go:69`) |
| `UnackedTracked` | `BrokerTags.cfg`, `MCBroker` | "When autoAck is false the delivery is tracked." (`pull_consumer.go:39`) | handleGet makes a new PullConsumer each time, so every delivery has tag 1 and replaces the one before, which nobody can settle any more (`pull_consumer.go:62`) |
| `Acyclic` | `TopologyCycle.cfg`, `MCTopology` | "Prevent cycle: A->B->A." (`basic_handlers.go:1014`) | HasCycle and Bind are two critical sections; two connections both find no cycle and together bind one (`basic_handlers.go:1021`) |
| `FlushReturns` | `PipelineFlush.cfg`, `MCPipeline` | "Flush drains the input buffer and waits for all pending items to be processed." (`pipeline.go:124`) | workers broadcast without cond.L: between Flush's test and Wait the broadcast is lost; and an item sent after the last worker drained stays in flight for ever (`pipeline.go:130`) |
| `SilentIsAlwaysClosed` | `SilentClient.cfg`, `Connection` | "closes the connection if no frame is received within two intervals" (`heartbeat.go:11`) | a write to a client that does not read blocks with mu held; the monitor is in that write or waits for mu, and so does Close before it closes the socket (`connection.go:124`) |
| `ShutdownQuiet` | `ShutdownLate.cfg`, `MCServer` | "Shutdown closes all listeners and waits for connections to finish." (`server.go:356`) | a connection the accept loop has in hand is counted in after wg.Wait returned and served by a process that is shutting down (`server.go:313`) |
| `ModesExclusive` | `SessionModes.cfg`, `MCSession` | "transactions and publisher confirms are mutually exclusive" (`basic_handlers.go:317`) | Tx.Select refuses a channel in confirm mode, Confirm.Select accepts one in transaction mode (`basic_handlers.go:293`) |
| `AckedIsStored` | `SessionAcks.cfg`, `MCSession` | "based on whether the message was routed to any queue" (`basic_handlers.go:259`) | the confirm counts matching bindings; their queues may be deleted before the message enters them (`basic_handlers.go:231`) |
| `FloatsBindAsAsked` | `WireFloat.cfg`, `MCWire` | "writeFloat64 encodes an IEEE-754 double in big-endian." (`encode.go:214`, likewise 207, and `decode.go:203` and 209) | a float is converted to an unsigned integer and 1.5 comes back as 1 (`encode.go:217`) |

Also seen while modelling; the models contain the behaviour:

- Term, vote and log of a node are in memory only; a process that restarts makes new
  nodes, which may vote again in a term. No doc promises otherwise, and restarts of
  nodes are not in the model.
- AppendEntries cuts a follower's log below its commitIndex (`raft.go:137`), and
  Committed then slices beyond the log.
- A commit between Propose and registration is missed and Publish reports a timeout
  for a committed message (`quorum.go:41`); OnCommit refills by length (`quorum.go:64`),
  so entries that Ack removed are queued again; the timer of NewRaftNode ends the
  leadership of a single-node queue for good (`raft.go:246`).
- Nack and Recover append a requeued message whatever its priority
  (`delivery_tracker.go:75`). `PriorityOrder` says what remains true.
- Unbind searches the index by queue for the exchange's name (`binding_manager.go:78`)
  and leaves the binding there. `QueueIndexCovers` is the direction that holds.
- Cascading deletes do not reach the store; `SavedBindingsLive` excepts them.
- RestoreFromSnapshot after RestoreFromStore binds every binding twice
  (`restore.go:84`): one Unbind then leaves a binding that still routes.
- A reload that takes the limiter away between serveListener's test and its use is a
  nil dereference (`server.go:302`, action `AllowPanics`).
- valuesEqual compares a number with zero when its partner is of another kind
  (`exchange_headers.go`), and the headers router matches nothing with an empty argument
  table (line 34), which its comment does not say; `RoutedAsDefined` keeps to kinds it can
  compare and takes the empty table as the code does.
- NextFrame peeks a whole frame, so frames above the 4096 bytes of the connection's
  bufio.Reader are refused, whatever FrameMax was negotiated (`FrameRefused`).
- Exchange.Declare makes topic and headers exchanges direct (`basic_handlers.go:892`);
  a built-in exchange that was deleted and declared with another type comes back as
  built in (`server.go:169`).

## Theorems

Proved by TLAPS for every value of the constants that satisfies the assumptions named
in the modules. Each rests on an inductive invariant, with one step per action.

- `RaftProofs` (assuming a finite set of nodes): `TypeCorrect`; `ElectionTheorem`
  (`OneWinnerPerTerm`); `VoteTheorem` (`VoteOncePerTerm`); `LogIndexTheorem`
  (`LogIndexed`) and `LogTermTheorem` (`LogTermsOrdered`). One winner per term is not
  inductive: the invariant adds that every vote given is recorded (`VotesRecorded`),
  that no node gave two in one term (`VotesUnique`), that a candidate voted for itself
  (`CandidateVoted`), that the votes startElection counts were given in its term unless
  the node has moved on (`CountedVotes`) and that a winner had a majority
  (`WonByMajority`); two majorities meet. The subtle part is the own vote, which
  startElection counts without checking: it is genuine whenever the final check of role
  and term passes. The log theorems need the same of the calls in flight, since any of
  them may arrive.
- `RaftProofs`, for quorum queues: `QueueLogIndexTheorem` (`LogIndexed` of the composed
  specification), `QueueTypeTheorem` (`QTypeOK`), `WaiterTheorem` (`WaiterRegistered`)
  and `PublishedTheorem` (`PublishedIsQueued`). Every step of the queue is a step of
  Raft or leaves it alone, so Raft's invariants carry over. The types need that a
  registered channel belongs to a Publish that still waits (`PendingWaits`). The last
  two assume that at most one node runs elections (`Running \subseteq {L}`); with two
  of them `PublishedIsQueued` is false, see above. Their invariant (`SoleInv`): only L
  leads and nobody appends to its log; two Publishes in progress hold different indexes
  of it, with their messages there (`IndexHeld`); the commits announced lie within it
  (`CommitsInLog`); and everything up to some index was handed to the queue, of which
  the queue is never longer (`HandedOut`). The last is the point of the argument:
  OnCommit goes on from the length of a queue that Ack has shortened, so it may repeat
  entries but never skips one.
- `BrokerProofs` (assuming finitely many connections): `TypeCorrect`, which includes
  that no handler reaches a step with a nil message or queue in hand, and
  `OvershootTheorem` (`MaxLengthOvershoot`): a
  queue with x-max-length n holds fewer than n messages plus one per connection plus
  those that skip the check. It is inductive because it counts the handlers between
  check and enqueue (`Entering`) together with the queue. `PriorityTheorem`
  (`PriorityOrder`) adds that the message a connection is publishing is its latest
  (`Numbered`); insertByPriority among requeued messages that are out of order keeps
  what is said of the others. `ConservedTheorem` (`Conserved`) has the hypotheses of
  the property's comment: no push consumers and a channel number for each connection,
  for with shared numbers one connection's Nack takes another's delivery; and no message
  is routed to a queue twice (`PullOnly`). Every exchange type removes duplicates; two
  ways over bindings between exchanges to one queue put a message there twice by design.
  Its invariant says that the messages that entered and are not settled are partitioned among those who hold one: queues,
  tracked deliveries, handlers between two critical sections, the scan (`HeldOnce`);
  that a message being published has entered none of the queues it still goes to
  (`Fresh`); and that what handleNack looked up is still there (`NackFound`). Every
  step then takes, puts or moves one message, or a set of them.
- `TopologyProofs`: `CycleTheorem` (`CycleNeedsRace`): for any number of connections
  between check and bind, a step from no cycle to a cycle is a Bind that finds a binding
  its check did not see; whatever is unbound, deleted or lost meanwhile does no harm. So
  the race is the only way to a cycle, and holding the lock over both would exclude it.
  The invariant (`BindInv`) says that the binding in hand closes no cycle over what was
  seen; the lemma `BindKeepsAcyclic` separates source from destination by closed sets.
  `StoreTheorem` (`StoreAgrees`): as long as no store
  call failed, the store agrees with the managers between any two critical sections.
  `TypeTheorem` and `SavedTheorem` (`SavedBindingsLive`) need that the index by
  exchange files a binding under its own exchange (`Filed`), so that Unbind, which
  deletes from the store by the names it was given, deletes what it removed.
  `CoversTheorem` (`QueueIndexCovers`) counts: a step may not take more copies of a
  binding from the index by queue than it takes from the other one or leaves in the
  list it is cleaning (`Balanced`). It assumes that no queue has the name of an
  exchange. The code does not enforce that, and it is needed: Unbind and the cascade
  of an exchange search the index by queue for an entry whose queue name is the
  exchange's name, and with such a queue they find one and remove it.
- `TopologyProofs`, for snapshots: `KeptTheorem` (`SnapshotKept`), for any retention
  count. What makes it inductive: the file being written is the newest; retain runs
  only when the newest is complete and with a limit of at least one, so it keeps that
  one. `SoundTheorem` (`SnapshotSound`), for finitely many exchanges: while the capture
  goes on its histories enclose what is there now, and each list it has taken lies
  between them (`Captured`). Every manager's step extends one history and shrinks the
  other, so what was captured under an earlier lock stays between the two.
- `SessionProofs`: `SessionTypeTheorem` (`TypeOK`) and `IndexTheorem` (`IndexesAgree`)
  from one invariant (`Typed`), because an index is typed only as long as what it
  removes was there; `TxTheorem` (`TxIsolation`), whose invariant (`TxInv`) says that
  the messages staged or still to be routed, of all connections, are different and
  routed by nobody; and `ConfirmTheorem` (`ConfirmsInOrder`), whose invariant
  (`ConfInv`) says that a channel outside transaction mode owes exactly the confirm of
  the message it is publishing, and that only a message with a binding is in a queue.
- `PipelineProofs` (assuming finitely many items and at least one worker):
  `InFlightTheorem` (`InFlightCounts`), `FlushTheorem` (`FlushSound`), `StopTheorem` (`StopDrains`) and
  `RefinementTheorem` (`Spec => ImplementsWorkBag`), for any number of items, workers
  and flushers. The invariant places every item (`Places`): in the channel or in one
  batch, once; an item that was sent is published, once, exactly when it is in neither
  or already behind processBatch (`Once`); inFlight is the number of items between the
  call of Submit and the end of their batch (`Counted`), which is why Flush may trust
  it; and once a worker has found the channel empty after the cancellation no item sent
  before Stop is in it (`Stopped`).
- `ServerProofs`, for connections: `TypeCorrect`, with a heartbeat interval that is never 0, and
  `OneCloserTheorem` (`OneCloser`): whoever is tearing the connection down has set the
  state to closing, and during the handshake there is no monitor.
- `ServerProofs` (assuming finitely many clients): `CountTheorem`, the wait group is the
  number of connections between Add and Done, and `ShutdownTheorem` (`ShutdownWaits`), which follows
  because a connection Shutdown found is never accepted a second time and no reload takes
  main back from the shutdown to the signal loop.
- `WireProofs`: `BindTheorem` (`CallsBindAsAsked`), `RoutedTheorem` (`RoutedAsDefined`)
  and `FramesTheorem` (`FramesSound`). Assumed of what clients send: strings, tables and
  payloads have lengths that their prefixes can tell, numbers fit their Go types, floats
  are not negative and fit the integer they are sent as (with a fraction the table is one
  `CallsBindAsAsked` does not speak of), a table
  has no key twice and nests no deeper than `MaxDepth`, which may be any number; of the
  routers, that `#` is not the separator. The round trip goes through three layers. Numbers:
  the bytes of a number are those of its quotients by powers of 256 (`Shift`), and adding
  them up again gives the number whenever it fits (`NumberOfBigEndian`), with two's
  complement for negative ones. Reads: every read leaves fewer bytes than it was given
  (`TableValueShorter`), so the equation of readTableBody, which is recursive over all
  sequences of bytes, has exactly one solution (`ReadTableBodyIs`). Tables: what is left
  behind the i-th entry parses to the map of the later entries (`Rest`), from the last
  entry to the first, if the tables one level deeper are read back (`ReadsTableBytes`, by
  induction on the depth). For topics, matchParts is true just when the pattern's words
  can be laid over the key's from some place on (`Reach`), which for the whole pattern is
  the reference; Route lists the queues of the bindings that match and skips those it has.
  `FramesSound` is the safety half of `FramesRead`: the frames returned are the first that
  were sent; one is refused only when it does not fit; an end of stream behind the last
  byte is met only behind the last frame. Its invariant (`FrameInv`) says that the bytes
  not yet taken are exactly the encodings of the frames not yet returned (`Left`), so that
  a header is always read where a frame begins.

Loops over lists (Unbind of all bindings of a queue, a restart binding what the store
lists, a snapshot listing the exchanges one by one) and the codec are recursive functions. That such
a function exists and satisfies its equation is derived in `Basics`
(`RecursionExists`, from the well-foundedness of the naturals), and what it computes is
shown by stating for each prefix what has been done so far (`UpTo`).

Only model-checked: everything live (`PublishComesBack`, `SentIsPublished`,
`StopReturns`, `DoneIsReleased`, `GoneIsForgotten`, `SilentIsClosed`, `EditInForce`,
`ShutdownEnds`, `FramesRead`), because liveness under fairness is beyond the prover.
Every invariant and every action property of a run has a theorem. `FramesSound` is the
other way round: a theorem only, which holds on the instance of `wire` as well.

## Not modelled

- Worker pool, publish batch and buffer pool, paging and compression, CancelByChannel,
  RemoveExclusive, ReadFrame: nothing but tests uses them.
- Mirrors, federation and shovels: registries of configurations whose runners are stubs
  that move no message. Cluster membership: a map of nodes that only the UI and the
  snapshot read; discovery is DNS and HTTP.
- Authentication and ACL: sequential evaluation of a rule list without state others
  depend on; a refusal is one of the errors that end a connection in `Connection`.
- Web UI, bridge, translations, metrics, audit log, tracing, plugins: nothing else
  reads what they keep.
- Flow and prefetch: nothing outside tests asks for them before it sends. BackPressure
  never refuses, because nothing calls its Check. The flusher's channels are
  registered by tests only.
- Start and Stop of the expiration scanner, QuorumQueueManager's Delete and
  PromoteLeader, HandleInstallSnapshot (changes nothing), virtual hosts and health
  checks, SASL, TLS, and of the argument decoding everything but Queue.Bind.
- External, modelled from its use: etcd, the network, the file system, `bufio.Reader`,
  `sync.Cond`, and the caller that commits entries of quorum queues.
