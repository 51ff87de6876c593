------------------------------- MODULE Session -------------------------------
(***************************************************************************)
(* What a client sees of its channel: publishing plainly, with publisher   *)
(* confirms or in a transaction (the Basic, Confirm, Tx and Channel        *)
(* handlers of internal/server/basic_handlers.go and channel_handlers.go,  *)
(* channel.go), and consuming alone or in a consumer group                 *)
(* (consumer_manager.go, consumer_group.go, consumer_group_manager.go)     *)
(* through the deliverer and its batches (deliverer.go, batch.go).         *)
(*                                                                         *)
(* Each connection has one channel, and handles one method at a time.      *)
(* Publish is cut into the steps between which another connection may      *)
(* act: looking up the bindings, entering one queue with its list of       *)
(* consumers, and one delivery.  What queues do with messages is the       *)
(* subject of Broker, declarations of Topology: here queues and the        *)
(* exchange are declared and bound at the start and may only go.           *)
(***************************************************************************)
EXTENDS Integers, Sequences, FiniteSets, SequencesExt

CONSTANTS
  Conn,        \* connections, each with one channel
  ChanNo,      \* the number of each connection's channel
  Modal,       \* connections whose clients select modes and close the channel
  Queue,       \* queues, bound to the one exchange
  Group,       \* consumer groups
  None,
  Offer,       \* a function from tags to the consumers a client may subscribe
  MaxSize,     \* BatchConfig.MaxSize
  Unroutable,  \* messages whose routing key matches no binding
  MaxMsgs,     \* bound: messages published
  MaxSubs,     \* bound: subscriptions
  IdxMod       \* RoundRobinStrategy.idx counts modulo this

Tag == DOMAIN Offer
Msg == 1 .. MaxMsgs

\* What Router.Route returns for a message: the queues bound with a matching key.
Matching(m) == IF m \in Unroutable THEN {} ELSE Queue

\* A consumer: its queue, its channel, its group and whether it is exclusive.
Consumer == [queue : Queue, ch : Conn, group : Group \cup {None}, exclusive : BOOLEAN]

\* A consumer group: its queue, the tags of its members and the strategy's index.
ConsumerGroup == [queue : Queue, members : Seq(Tag), idx : Nat]

ASSUME SessionAssumption ==
  /\ \A t \in Tag : Offer[t] \subseteq Consumer
  /\ None \notin Group \cup Conn \cup Consumer \cup ConsumerGroup
  /\ MaxSize \in Nat \ {0} /\ MaxMsgs \in Nat /\ MaxSubs \in Nat
  /\ IdxMod \in Nat \ {0} /\ \A k \in 1 .. Cardinality(Tag) : IdxMod % k = 0

VARIABLES
  alive,      \* does the connection still read frames?
  closed,     \* is the channel's state Closed?
  confirm,    \* Channel.confirmMode
  tx,         \* Channel.txMode
  tagNo,      \* Channel.deliveryTag
  staged,     \* Channel.txPending
  pub,        \* the Publish, or the Publishes of a Commit, a connection is in
  exchange,   \* does the exchange exist?
  queues,     \* queues that exist
  byTag,      \* ConsumerManager.byTag
  byQueue,    \* ConsumerManager.byQueue
  groups,     \* ConsumerGroupManager.byID
  batches,    \* Deliverer.batches: the channel and the deliveries of each
  next,       \* the next message
  subs,       \* subscriptions so far
  asked,      \* history: messages published on the channel in confirm mode
  answered,   \* history: the confirms sent on the channel
  routed,     \* history: messages whose bindings were looked up
  stored,     \* history: messages that entered a queue
  rolledBack, \* history: messages of transactions answered with Rollback-Ok
  committed   \* history: messages of transactions answered with Commit-Ok

modes == <<closed, confirm, tx>>
topology == <<exchange, queues>>
consumers == <<byTag, byQueue, groups>>
history == <<asked, answered, routed, stored, rolledBack, committed>>
vars == <<alive, modes, tagNo, staged, pub, topology, consumers, batches, next, subs, history>>

Idle == [at |-> "idle"]
NoBatch == [ch |-> None, n |-> 0]

Init ==
  /\ alive = [c \in Conn |-> TRUE]
  /\ closed = [c \in Conn |-> FALSE]
  /\ confirm = [c \in Conn |-> FALSE]
  /\ tx = [c \in Conn |-> FALSE]
  /\ tagNo = [c \in Conn |-> 0]
  /\ staged = [c \in Conn |-> <<>>]
  /\ pub = [c \in Conn |-> Idle]
  /\ exchange = TRUE /\ queues = Queue
  /\ byTag = [t \in Tag |-> None]
  /\ byQueue = [q \in Queue |-> <<>>]
  /\ groups = [g \in Group |-> None]
  /\ batches = [n \in {ChanNo[c] : c \in Conn} |-> NoBatch]
  /\ next = 1 /\ subs = 0
  /\ asked = [c \in Conn |-> <<>>]
  /\ answered = [c \in Conn |-> <<>>]
  /\ routed = {} /\ stored = {} /\ rolledBack = {} /\ committed = {}

\* The frame loop of Serve is about to read the next method.
Ready(c) == alive[c] /\ pub[c] = Idle

----------------------------------------------------------------------------
(* Channel                                                                 *)

SetConfirmMode(c) == confirm' = [confirm EXCEPT ![c] = TRUE]
SetTxMode(c) == tx' = [tx EXCEPT ![c] = TRUE]
NextDeliveryTag(c) == tagNo' = [tagNo EXCEPT ![c] = @ + 1]
StageTxPublish(c, m) == staged' = [staged EXCEPT ![c] = Append(@, m)]

\* CommitTx, which returns what it clears, and RollbackTx.
ClearTx(c) == staged' = [staged EXCEPT ![c] = <<>>]

----------------------------------------------------------------------------
(* Channel modes                                                           *)

handleConfirmSelect(c) ==
  /\ Ready(c)
  /\ SetConfirmMode(c)
  /\ UNCHANGED <<alive, closed, tx, tagNo, staged, pub, topology, consumers, batches, next, subs,
                 history>>

\* Refused in confirm mode: the channel is closed.
handleTxSelect(c) ==
  /\ Ready(c)
  /\ IF confirm[c]
     THEN closed' = [closed EXCEPT ![c] = TRUE] /\ UNCHANGED tx
     ELSE SetTxMode(c) /\ UNCHANGED closed
  /\ UNCHANGED <<alive, confirm, tagNo, staged, pub, topology, consumers, batches, next, subs,
                 history>>

\* Closing sets the state, which no other handler looks at: consumers, modes and
\* staged messages stay, and so do the frames the client sends.
handleChannelClose(c) ==
  /\ Ready(c) /\ ~closed[c]
  /\ closed' = [closed EXCEPT ![c] = TRUE]
  /\ UNCHANGED <<alive, confirm, tx, tagNo, staged, pub, topology, consumers, batches, next, subs,
                 history>>

handleChannelOpen(c) ==
  /\ Ready(c) /\ closed[c]
  /\ closed' = [closed EXCEPT ![c] = FALSE]
  /\ UNCHANGED <<alive, confirm, tx, tagNo, staged, pub, topology, consumers, batches, next, subs,
                 history>>

----------------------------------------------------------------------------
(* Publishing                                                              *)

\* Publisher.Publish of the messages todo, one after the other, of the messages all.
Publishing(kind, todo, all) == [at |-> "route", kind |-> kind, todo |-> todo, all |-> all]

\* Mutant of handlePublish: only messages of a channel that is open get a new tag.
handlePublish_OldTag(c) ==
  /\ Ready(c) /\ next <= MaxMsgs
  /\ next' = next + 1
  /\ IF tx[c]
     THEN StageTxPublish(c, next) /\ UNCHANGED <<tagNo, pub>>
     ELSE /\ IF confirm[c] /\ ~closed[c] THEN NextDeliveryTag(c) ELSE UNCHANGED tagNo
          /\ pub' = [pub EXCEPT ![c] =
               Publishing(IF confirm[c] THEN "confirm" ELSE "plain", <<next>>, {next})]
          /\ UNCHANGED staged
  /\ asked' = IF confirm[c] THEN [asked EXCEPT ![c] = Append(@, next)] ELSE asked
  /\ UNCHANGED <<alive, modes, topology, consumers, batches, subs, answered, routed, stored,
                 rolledBack, committed>>

\* A transaction stages the message; confirm mode takes the next tag for it.
handlePublish(c) ==
  /\ Ready(c) /\ next <= MaxMsgs
  /\ next' = next + 1
  /\ IF tx[c]
     THEN StageTxPublish(c, next) /\ UNCHANGED <<tagNo, pub>>
     ELSE /\ IF confirm[c] THEN NextDeliveryTag(c) ELSE UNCHANGED tagNo
          /\ pub' = [pub EXCEPT ![c] =
               Publishing(IF confirm[c] THEN "confirm" ELSE "plain", <<next>>, {next})]
          /\ UNCHANGED staged
  /\ asked' = IF confirm[c] THEN [asked EXCEPT ![c] = Append(@, next)] ELSE asked
  /\ UNCHANGED <<alive, modes, topology, consumers, batches, subs, answered, routed, stored,
                 rolledBack, committed>>

\* The staged messages are taken off the channel; none leaves Commit-Ok to send.
handleTxCommit(c) ==
  /\ Ready(c) /\ staged[c] # <<>>
  /\ ClearTx(c)
  /\ pub' = [pub EXCEPT ![c] = Publishing("commit", staged[c], ToSet(staged[c]))]
  /\ UNCHANGED <<alive, modes, tagNo, topology, consumers, batches, next, subs, history>>

\* Mutant of handleTxRollback: the staged messages stay.
handleTxRollback_Keep(c) ==
  /\ Ready(c) /\ staged[c] # <<>>
  /\ rolledBack' = rolledBack \cup ToSet(staged[c])
  /\ UNCHANGED <<alive, modes, tagNo, staged, pub, topology, consumers, batches, next, subs, asked,
                 answered, routed, stored, committed>>

handleTxRollback(c) ==
  /\ Ready(c) /\ staged[c] # <<>>
  /\ ClearTx(c)
  /\ rolledBack' = rolledBack \cup ToSet(staged[c])
  /\ UNCHANGED <<alive, modes, tagNo, pub, topology, consumers, batches, next, subs, asked,
                 answered, routed, stored, committed>>

\* The bindings of the exchange are looked up: they name every queue bound, deleted
\* ones too, and their number decides between ack and nack.  Without the exchange
\* the handler returns an error: the connection ends, and with it the rest of a
\* transaction.  Messages do not expire here, and the exchange has no bindings to
\* other exchanges.
Route(c) ==
  /\ pub[c].at = "route"
  /\ IF exchange
     THEN /\ pub' = [pub EXCEPT ![c] = [at |-> "queue", kind |-> @.kind, todo |-> @.todo,
                                        all |-> @.all, route |-> Matching(Head(@.todo))]]
          /\ routed' = routed \cup {Head(pub[c].todo)}
          /\ UNCHANGED alive
     ELSE /\ alive' = [alive EXCEPT ![c] = FALSE]
          /\ pub' = [pub EXCEPT ![c] = Idle]
          /\ UNCHANGED routed
  /\ UNCHANGED <<modes, tagNo, staged, topology, consumers, batches, next, subs, asked, answered,
                 stored, rolledBack, committed>>

\* The message enters the next queue of the route, and the consumers of the queue
\* are listed.  A queue that does not exist any more is passed over.
EnterQueue(c) ==
  /\ pub[c].at = "queue"
  /\ \E q \in pub[c].route :
       IF q \in queues
       THEN LET list == {byTag[t] : t \in ToSet(byQueue[q])} IN
            /\ stored' = stored \cup {Head(pub[c].todo)}
            /\ pub' = [pub EXCEPT ![c] =
                 [at |-> "deliver", kind |-> @.kind, todo |-> @.todo, all |-> @.all,
                  route |-> @.route \ {q},
                  gids |-> {o.group : o \in list} \ {None},
                  alone |-> {o \in list : o.group = None}]]
       ELSE pub' = [pub EXCEPT ![c].route = @ \ {q}] /\ UNCHANGED stored
  /\ UNCHANGED <<alive, modes, tagNo, staged, topology, consumers, batches, next, subs, asked,
                 answered, routed, rolledBack, committed>>

\* Mutant of deliverTo: the batch is flushed once it is over its size.
deliverTo_Over(c, ch) ==
  LET n == ChanNo[c] IN
  batches' = [batches EXCEPT ![n] = [ch |-> IF @.ch = None THEN ch ELSE @.ch,
                                     n |-> IF @.n > MaxSize THEN 0 ELSE @.n + 1]]

\* DeliveryBatch.Add, with the flush of a full batch.  Batches go by the number of
\* the publisher's channel; each belongs to the channel of its first consumer.
deliverTo(c, ch) ==
  LET n == ChanNo[c] IN
  batches' = [batches EXCEPT ![n] = [ch |-> IF @.ch = None THEN ch ELSE @.ch,
                                     n |-> IF @.n + 1 >= MaxSize THEN 0 ELSE @.n + 1]]

\* RoundRobinStrategy.Select, its index taken modulo the members.
Select(g) == groups[g].members[(groups[g].idx % Len(groups[g].members)) + 1]

\* One member of each group listed, if the group is still there, ...
DeliverGroup(c) ==
  /\ pub[c].at = "deliver"
  /\ \E g \in pub[c].gids :
       /\ pub' = [pub EXCEPT ![c].gids = @ \ {g}]
       /\ IF groups[g] = None
          THEN UNCHANGED <<groups, batches>>
          ELSE /\ groups' = [groups EXCEPT ![g].idx = (@ + 1) % IdxMod]
               /\ deliverTo(c, byTag[Select(g)].ch)
  /\ UNCHANGED <<alive, modes, tagNo, staged, topology, byTag, byQueue, next, subs, history>>

\* ... then every consumer without a group, even one that has left meanwhile.
DeliverAlone(c) ==
  /\ pub[c].at = "deliver" /\ pub[c].gids = {}
  /\ \E o \in pub[c].alone :
       /\ pub' = [pub EXCEPT ![c].alone = @ \ {o}]
       /\ deliverTo(c, o.ch)
  /\ UNCHANGED <<alive, modes, tagNo, staged, topology, consumers, next, subs, history>>

\* On to the next queue.
Delivered(c) ==
  /\ pub[c].at = "deliver" /\ pub[c].gids = {} /\ pub[c].alone = {}
  /\ pub' = [pub EXCEPT ![c] = [at |-> "queue", kind |-> @.kind, todo |-> @.todo,
                                all |-> @.all, route |-> @.route]]
  /\ UNCHANGED <<alive, modes, tagNo, staged, topology, consumers, batches, next, subs, history>>

\* sendPublisherConfirm: the answer under the tag taken by handlePublish.
Confirmed(c, m) ==
  answered' = [answered EXCEPT ![c] =
                 Append(@, [m |-> m, tag |-> tagNo[c], ack |-> Matching(m) # {}])]

\* Publish returns: the message is confirmed, or the next one of the transaction
\* follows, or Commit-Ok.
Published(c) ==
  /\ pub[c].at = "queue" /\ pub[c].route = {}
  /\ LET m == Head(pub[c].todo)
         rest == Tail(pub[c].todo)
     IN /\ pub' = [pub EXCEPT ![c] = IF rest = <<>> THEN Idle
                                     ELSE Publishing(@.kind, rest, @.all)]
        /\ IF pub[c].kind = "confirm" THEN Confirmed(c, m) ELSE UNCHANGED answered
        /\ committed' = IF pub[c].kind = "commit" /\ rest = <<>>
                        THEN committed \cup pub[c].all ELSE committed
  /\ UNCHANGED <<alive, modes, tagNo, staged, topology, consumers, batches, next, subs, asked,
                 routed, stored, rolledBack>>

\* The ticker's FlushAll, for one batch.
Flush(n) ==
  /\ batches[n].n > 0
  /\ batches' = [batches EXCEPT ![n].n = 0]
  /\ UNCHANGED <<alive, modes, tagNo, staged, pub, topology, consumers, next, subs, history>>

----------------------------------------------------------------------------
(* Consumers                                                               *)

\* A tag in use, or a second exclusive consumer of a queue, is refused with an error
\* that ends the connection.
Refused(t, o) ==
  \/ byTag[t] # None
  \/ o.exclusive /\ \E u \in ToSet(byQueue[o.queue]) : byTag[u].exclusive

\* NewConsumerGroup, for the queue of its first member, and ConsumerGroup's Add and Remove.
NewConsumerGroup(queue) == [queue |-> queue, members |-> <<>>, idx |-> 0]
GroupAdd(group, t) == [group EXCEPT !.members = Append(@, t)]
GroupRemove(group, t) == [group EXCEPT !.members = RemoveFirst(@, t)]

\* ConsumerGroupManager.Join creates the group that is not there.  Its byQueue, one
\* list of groups for each queue, is the groups with that queue.
Join(t, o) ==
  groups' = IF o.group = None THEN groups
            ELSE [groups EXCEPT ![o.group] =
                    GroupAdd(IF @ = None THEN NewConsumerGroup(o.queue) ELSE @, t)]

\* Mutant of Leave: an empty group stays.
Leave_KeepEmpty(g, t) ==
  groups' = IF g = None THEN groups ELSE [groups EXCEPT ![g] = GroupRemove(@, t)]

\* ConsumerGroupManager.Leave: the last member takes the group with it.
Leave(g, t) ==
  groups' = IF g = None THEN groups
            ELSE [groups EXCEPT ![g] = IF GroupRemove(@, t).members = <<>> THEN None
                                       ELSE GroupRemove(@, t)]

\* ConsumerManager.Subscribe and Unsubscribe.
Subscribe(t, o) ==
  /\ byTag' = [byTag EXCEPT ![t] = o]
  /\ byQueue' = [byQueue EXCEPT ![o.queue] = Append(@, t)]
  /\ Join(t, o)

Unsubscribe(t) ==
  /\ byTag' = [byTag EXCEPT ![t] = None]
  /\ byQueue' = [byQueue EXCEPT ![byTag[t].queue] = RemoveFirst(@, t)]
  /\ Leave(byTag[t].group, t)

handleConsume(t, o) ==
  /\ Ready(o.ch) /\ subs < MaxSubs
  /\ subs' = subs + 1
  /\ IF Refused(t, o)
     THEN alive' = [alive EXCEPT ![o.ch] = FALSE] /\ UNCHANGED consumers
     ELSE Subscribe(t, o) /\ UNCHANGED alive
  /\ UNCHANGED <<modes, tagNo, staged, pub, topology, batches, next, history>>

\* Any channel may cancel any tag, and a tag that is not in use is no error.
handleCancel(c, t) ==
  /\ Ready(c) /\ byTag[t] # None
  /\ Unsubscribe(t)
  /\ UNCHANGED <<alive, modes, tagNo, staged, pub, topology, batches, next, subs, history>>

----------------------------------------------------------------------------
(* Deletions, by any connection: bindings, stored messages and consumers   *)
(* stay                                                                    *)

handleQueueDelete(c, q) ==
  /\ Ready(c) /\ q \in queues
  /\ queues' = queues \ {q}
  /\ UNCHANGED <<alive, modes, tagNo, staged, pub, exchange, consumers, batches, next, subs,
                 history>>

handleExchangeDelete(c) ==
  /\ Ready(c) /\ exchange
  /\ exchange' = FALSE
  /\ UNCHANGED <<alive, modes, tagNo, staged, pub, queues, consumers, batches, next, subs, history>>

----------------------------------------------------------------------------
Next ==
  \/ \E c \in Conn :
       \/ /\ c \in Modal
          /\ \/ handleConfirmSelect(c) \/ handleTxSelect(c)
             \/ handleChannelClose(c) \/ handleChannelOpen(c)
       \/ handlePublish(c) \/ handleTxCommit(c) \/ handleTxRollback(c)
       \/ Route(c) \/ EnterQueue(c) \/ DeliverGroup(c) \/ DeliverAlone(c) \/ Delivered(c)
       \/ Published(c)
       \/ \E t \in Tag : handleCancel(c, t)
       \/ \E q \in Queue : handleQueueDelete(c, q)
       \/ handleExchangeDelete(c)
  \/ \E t \in Tag : \E o \in Offer[t] : handleConsume(t, o)
  \/ \E n \in DOMAIN batches : Flush(n)

Spec == Init /\ [][Next]_vars

----------------------------------------------------------------------------
(* Properties                                                              *)

\* Every variable has its type, and a batch is flushed by the delivery that fills it
\* (DeliveryBatch.Add).
TypeOK ==
  /\ {alive, closed, confirm, tx} \subseteq [Conn -> BOOLEAN]
  /\ tagNo \in [Conn -> 0 .. MaxMsgs]
  /\ \A c \in Conn : ToSet(staged[c]) \subseteq Msg /\ ToSet(asked[c]) \subseteq Msg
  /\ exchange \in BOOLEAN /\ queues \subseteq Queue
  /\ \A t \in Tag : byTag[t] \in Offer[t] \cup {None}
  /\ \A n \in DOMAIN batches : batches[n] \in [ch : Conn \cup {None}, n : 0 .. MaxSize - 1]
  /\ next \in 1 .. MaxMsgs + 1 /\ subs \in 0 .. MaxSubs

\* The three indexes over consumers never disagree, whatever subscribes and cancels
\* interleave with deliveries: a consumer is listed once, under its queue only; it is
\* a member, once, of its group only; and a group without members does not exist, so
\* RoundRobinStrategy never divides by zero and Deliver never loses a queue's group.
IndexesAgree ==
  /\ \A q \in Queue : /\ IsInjective(byQueue[q])
                      /\ ToSet(byQueue[q]) = {t \in Tag : byTag[t] # None /\ byTag[t].queue = q}
  /\ \A g \in Group :
       LET here == {t \in Tag : byTag[t] # None /\ byTag[t].group = g} IN
       IF here = {} THEN groups[g] = None
       ELSE groups[g] # None /\ IsInjective(groups[g].members) /\ ToSet(groups[g].members) = here

\* A transaction is invisible until Tx.Commit: a message staged or rolled back is never
\* routed, so it is in no queue; and Commit-Ok is an answer for every message of the
\* transaction, sent when all of them have been routed.
TxIsolation ==
  /\ \A c \in Conn : ToSet(staged[c]) \cap routed = {}
  /\ rolledBack \cap routed = {}
  /\ committed \subseteq routed /\ stored \subseteq routed

\* Publisher confirms on a channel that is not in transaction mode: the i-th confirm
\* carries tag i and answers the i-th message published since Confirm.Select; between
\* two methods every message is answered; and a message answered with Nack is in no
\* queue.
ConfirmsInOrder ==
  \A c \in Conn :
    ~tx[c] =>
      /\ Len(answered[c]) <= Len(asked[c])
      /\ Ready(c) => Len(answered[c]) = Len(asked[c])
      /\ \A i \in 1 .. Len(answered[c]) :
           /\ answered[c][i].tag = i /\ answered[c][i].m = asked[c][i]
           /\ ~answered[c][i].ack => asked[c][i] \notin stored

\* handleTxSelect says that transactions and publisher confirms are mutually
\* exclusive.  Does not hold: Confirm.Select after Tx.Select is accepted.
ModesExclusive == \A c \in Conn : ~(tx[c] /\ confirm[c])

\* A message answered with Ack is in some queue, as sendPublisherConfirm's comment
\* has it.  Does not hold: the bindings of deleted queues count as routes too.
AckedIsStored ==
  \A c \in Conn : \A i \in 1 .. Len(answered[c]) :
    answered[c][i].ack => answered[c][i].m \in stored
=============================================================================
