------------------------------- MODULE Broker -------------------------------
(***************************************************************************)
(* The life of a message in the broker (internal/server): Publisher,       *)
(* MessageStore, PullConsumer, DeliveryTracker, dead-lettering and the     *)
(* expiration scan, driven by the Basic.* and Queue.Purge handlers.        *)
(*                                                                         *)
(* Every connection serves its frames in a goroutine of its own, and the   *)
(* expiration manager runs in another; they share the store and the        *)
(* tracker, each behind its own mutex.  One action is one critical section *)
(* of one of these mutexes; pc says where a handler is between two of      *)
(* them.  Queues are declared and bound beforehand.  Time is abstracted:   *)
(* whenever IsExpired looks at a message of a queue with a TTL, either     *)
(* answer is possible.                                                     *)
(***************************************************************************)
EXTENDS Naturals, Sequences, FiniteSets

CONSTANTS Conn,         \* connections, one open channel each
          ChanOf,       \* the channel number each connection chose
          Zero,         \* channel 0, the connection's own
          Queue,        \* queue names
          Nil,          \* Go's nil: no message, no queue
          MaxLen,       \* x-max-length of each queue, 0 for none
          DLX,          \* the queue each queue's dead-letter exchange leads to
          PriorityQ,    \* queues with x-max-priority
          TTLQ,         \* queues whose messages may expire
          Subscribed,   \* queues with push consumers
          Routes,       \* the lists of queues an exchange may route to
          Priority,     \* message priorities
          MaxMsgs,      \* bound: messages published
          MaxBypass     \* bound: no requeue starts beyond this many (see bypass)

\* Dead letters are published on channel 0.
Channel == {ChanOf[c] : c \in Conn} \cup {Zero}

ASSUME ConfigAssumption ==
  /\ IsFiniteSet(Conn)
  /\ Nil \notin Queue
  /\ Zero \notin {ChanOf[c] : c \in Conn}
  /\ MaxLen \in [Queue -> Nat]
  /\ DLX \in [Queue -> Queue \cup {Nil}]
  /\ PriorityQ \subseteq Queue /\ TTLQ \subseteq Queue /\ Subscribed \subseteq Queue
  /\ Routes \subseteq Seq(Queue) \ {<<>>}
  /\ Priority \subseteq Nat
  /\ MaxMsgs \in Nat /\ MaxBypass \in Nat

VARIABLES
  store,     \* MessageStore.queues
  tracked,   \* DeliveryTracker.byChannel: channel -> tag -> delivery
  pc,        \* where each connection's handler is
  cur,       \* the handler's local variables
  scan,      \* expired messages the expiration scan has yet to dead-letter
  next,      \* number of the next message
  entered,   \* history: messages that entered the queue they were routed to
  requeued,  \* history: those enqueued again after their first time
  settled,   \* history: those acknowledged, expired, purged or dropped
  replaced,  \* history: those whose tracked delivery another one replaced
  bypass     \* history: enqueues per queue that skipped the length check

vars == <<store, tracked, pc, cur, scan, next, entered, requeued, settled,
          replaced, bypass>>
histVars == <<entered, requeued, settled, replaced, bypass>>

\* A message as one queue holds it: from is the connection that published it
\* and home the queue it was routed to.
Msg == [id : Nat, from : Conn, home : Queue, pri : Nat]

\* Tags: Deliverer.deliverTo always uses 0, and PullConsumer.Get always 1, for
\* handleGet makes a new PullConsumer, whose tagSeq starts at 0, every time.
Tag == {0, 1}

Delivery == [m : Msg, q : Queue]
NoDelivery == [m |-> Nil, q |-> Nil]

PC == {"idle", "check", "evict", "evicted", "enqueue", "deliver", "get", "record",
       "nack", "nacked"}

\* Local variables: the message and queue in hand, the queues still to serve,
\* Get's noAck, Nack's tag and requeue, and the delivery found to dead-letter.
NoLocals == [m |-> Nil, q |-> Nil, todo |-> <<>>, noAck |-> FALSE, tag |-> 0,
             requeue |-> FALSE, found |-> NoDelivery]

Locals == [m : Msg \cup {Nil}, q : Queue \cup {Nil}, todo : Seq(Queue),
           noAck : BOOLEAN, tag : Tag, requeue : BOOLEAN,
           found : Delivery \cup {NoDelivery}]

----------------------------------------------------------------------------
Init ==
  /\ store = [q \in Queue |-> <<>>]
  /\ tracked = [ch \in Channel |-> [t \in Tag |-> NoDelivery]]
  /\ pc = [c \in Conn |-> "idle"]
  /\ cur = [c \in Conn |-> NoLocals]
  /\ scan = <<>>
  /\ next = 1
  /\ entered = {}
  /\ requeued = {}
  /\ settled = {}
  /\ replaced = {}
  /\ bypass = [q \in Queue |-> 0]

----------------------------------------------------------------------------
(* The store                                                               *)

\* Mutant of insertByPriority: before the first message of equal priority.
insertByPriority_BeforeEqual(s, m) ==
  LET lower == {i \in DOMAIN s : s[i].pri <= m.pri}
      first == CHOOSE i \in lower : \A j \in lower : i <= j
  IN  IF lower = {} THEN Append(s, m)
      ELSE SubSeq(s, 1, first - 1) \o <<m>> \o SubSeq(s, first, Len(s))

\* insertByPriority: before the first message of lower priority.
insertByPriority(s, m) ==
  LET lower == {i \in DOMAIN s : s[i].pri < m.pri}
      first == CHOOSE i \in lower : \A j \in lower : i <= j
  IN  IF lower = {} THEN Append(s, m)
      ELSE SubSeq(s, 1, first - 1) \o <<m>> \o SubSeq(s, first, Len(s))

\* The enqueue of publishInternal: by priority where the queue asks for it.
Enqueued(q, m) ==
  IF q \in PriorityQ THEN insertByPriority(store[q], m) ELSE Append(store[q], m)

\* Message m enters queue q without the length check, as sequence s.
Bypass(q, m, s) ==
  /\ store' = [store EXCEPT ![q] = s]
  /\ bypass' = [bypass EXCEPT ![q] = @ + 1]
  /\ requeued' = requeued \cup {m}

\* DeadLetter of message m of queue q: publishInternal on channel 0 without
\* the length check.  A push delivery it records there is out of reach of
\* every handler (no connection opens channel 0), so enqueueing and recording
\* it are one step.  The dead-letter exchange leads to one queue that exists.
deadLetter(m, q) ==
  IF DLX[q] = Nil
  THEN /\ settled' = settled \cup {m}
       /\ UNCHANGED <<store, tracked, requeued, bypass>>
  ELSE /\ Bypass(DLX[q], m, Enqueued(DLX[q], m))
       /\ \/ /\ DLX[q] \in Subscribed
             /\ tracked' = [tracked EXCEPT ![Zero][0] = [m |-> m, q |-> DLX[q]]]
          \/ /\ DLX[q] \notin Subscribed \/ DLX[q] \in TTLQ
             /\ UNCHANGED tracked
       /\ UNCHANGED settled

----------------------------------------------------------------------------
(* Basic.Publish                                                           *)

\* Mutant of AtMaxLength: off by one.
AtMaxLength_Above(q) == MaxLen[q] > 0 /\ Len(store[q]) > MaxLen[q]

\* Is queue q full when its length is looked at?
AtMaxLength(q) == MaxLen[q] > 0 /\ Len(store[q]) >= MaxLen[q]

\* publishInternal's loop comes to the first queue of route: its length is
\* read under a lock of its own.
CheckLength(c, m, route) ==
  LET q == Head(route)
  IN  /\ pc' = [pc EXCEPT ![c] = IF AtMaxLength(q) THEN "evict" ELSE "enqueue"]
      /\ cur' = [cur EXCEPT ![c] = [NoLocals EXCEPT !.m = [m EXCEPT !.home = q],
                                                   !.q = q, !.todo = Tail(route)]]
      /\ UNCHANGED <<store, tracked, scan, histVars>>

\* handlePublish, or a Pipeline worker, calls Publish.
handlePublish(c, route, pri) ==
  /\ pc[c] = "idle"
  /\ next <= MaxMsgs
  /\ next' = next + 1
  /\ CheckLength(c, [id |-> next, from |-> c, home |-> Head(route), pri |-> pri], route)

\* The loop goes on.
NextQueue(c) ==
  /\ pc[c] = "check"
  /\ CheckLength(c, cur[c].m, cur[c].todo)
  /\ UNCHANGED next

\* Mutant of EvictOldest: without the test that there was a message to take.
EvictOldest_NoNilCheck(c) ==
  LET q == cur[c].q
      oldest == IF store[q] = <<>> THEN Nil ELSE Head(store[q])
  IN  /\ pc[c] = "evict"
      /\ pc' = [pc EXCEPT ![c] = "evicted"]
      /\ store' = [store EXCEPT ![q] = IF @ = <<>> THEN @ ELSE Tail(@)]
      /\ cur' = [cur EXCEPT ![c].found = [m |-> oldest, q |-> q]]
      /\ UNCHANGED <<tracked, scan, next, histVars>>

\* Overflow: take the oldest message, if somebody else has not emptied the
\* queue since.
EvictOldest(c) ==
  LET q == cur[c].q
  IN  /\ pc[c] = "evict"
      /\ IF store[q] = <<>>
         THEN /\ pc' = [pc EXCEPT ![c] = "enqueue"]
              /\ UNCHANGED <<store, cur>>
         ELSE /\ pc' = [pc EXCEPT ![c] = "evicted"]
              /\ store' = [store EXCEPT ![q] = Tail(@)]
              /\ cur' = [cur EXCEPT ![c].found = [m |-> Head(store[q]), q |-> q]]
      /\ UNCHANGED <<tracked, scan, next, histVars>>

\* The evicted message goes to the dead-letter exchange.
DeadLetterEvicted(c) ==
  /\ pc[c] = "evicted"
  /\ deadLetter(cur[c].found.m, cur[c].found.q)
  /\ pc' = [pc EXCEPT ![c] = "enqueue"]
  /\ cur' = [cur EXCEPT ![c].found = NoDelivery]
  /\ UNCHANGED <<scan, next, entered, replaced>>

\* The loop's body is done with a queue.
QueueDone(c) ==
  IF cur[c].todo = <<>>
  THEN /\ pc' = [pc EXCEPT ![c] = "idle"]
       /\ cur' = [cur EXCEPT ![c] = NoLocals]
  ELSE /\ pc' = [pc EXCEPT ![c] = "check"]
       /\ UNCHANGED cur

\* The message enters the queue, and goes on to Deliver if there are consumers
\* and IsExpired says no.
EnqueueMessage(c) ==
  LET q == cur[c].q
  IN  /\ pc[c] = "enqueue"
      /\ store' = [store EXCEPT ![q] = Enqueued(q, cur[c].m)]
      /\ entered' = entered \cup {cur[c].m}
      /\ \/ /\ q \in Subscribed
            /\ pc' = [pc EXCEPT ![c] = "deliver"]
            /\ UNCHANGED cur
         \/ /\ q \notin Subscribed \/ q \in TTLQ
            /\ QueueDone(c)
      /\ UNCHANGED <<tracked, scan, next, requeued, settled, replaced, bypass>>

\* Deliver: push consumers get the message, which stays in the store; the
\* delivery is recorded under the channel number of the publisher.
DeliverPushed(c) ==
  /\ pc[c] = "deliver"
  /\ tracked' = [tracked EXCEPT ![ChanOf[c]][0] = [m |-> cur[c].m, q |-> cur[c].q]]
  /\ QueueDone(c)
  /\ UNCHANGED <<store, scan, next, histVars>>

----------------------------------------------------------------------------
(* Basic.Get and settlement                                                *)

\* One turn of PullConsumer.Get's loop: an empty queue ends it, an expired
\* message is dropped and the loop goes on, any other leaves the store.
Get(c, q, noAck) ==
  /\ \/ /\ store[q] = <<>>
        /\ pc' = [pc EXCEPT ![c] = "idle"]
        /\ cur' = [cur EXCEPT ![c] = NoLocals]
        /\ UNCHANGED <<store, settled>>
     \/ /\ store[q] # <<>>
        /\ q \in TTLQ
        /\ store' = [store EXCEPT ![q] = Tail(@)]
        /\ settled' = settled \cup {Head(store[q])}
        /\ pc' = [pc EXCEPT ![c] = "get"]
        /\ cur' = [cur EXCEPT ![c].q = q, ![c].noAck = noAck]
     \/ /\ store[q] # <<>>
        /\ noAck
        /\ store' = [store EXCEPT ![q] = Tail(@)]
        /\ settled' = settled \cup {Head(store[q])}
        /\ pc' = [pc EXCEPT ![c] = "idle"]
        /\ cur' = [cur EXCEPT ![c] = NoLocals]
     \/ /\ store[q] # <<>>
        /\ ~noAck
        /\ store' = [store EXCEPT ![q] = Tail(@)]
        /\ pc' = [pc EXCEPT ![c] = "record"]
        /\ cur' = [cur EXCEPT ![c].m = Head(store[q]), ![c].q = q]
        /\ UNCHANGED settled
  /\ UNCHANGED <<tracked, scan, next, entered, requeued, replaced, bypass>>

\* handleGet.
handleGet(c, q, noAck) ==
  /\ pc[c] = "idle"
  /\ Get(c, q, noAck)

\* The loop goes on after an expired message.
GetAgain(c) ==
  /\ pc[c] = "get"
  /\ Get(c, cur[c].q, cur[c].noAck)

\* Record: the delivery replaces whatever the channel number has under tag 1.
Record(c) ==
  LET old == tracked[ChanOf[c]][1]
  IN  /\ pc[c] = "record"
      /\ tracked' = [tracked EXCEPT ![ChanOf[c]][1] = [m |-> cur[c].m, q |-> cur[c].q]]
      /\ replaced' = IF old = NoDelivery THEN replaced ELSE replaced \cup {old.m}
      /\ pc' = [pc EXCEPT ![c] = "idle"]
      /\ cur' = [cur EXCEPT ![c] = NoLocals]
      /\ UNCHANGED <<store, scan, next, entered, requeued, settled, bypass>>

\* handleAck: an unknown tag is ignored.
handleAck(c, tag) ==
  /\ pc[c] = "idle"
  /\ tracked[ChanOf[c]][tag] # NoDelivery
  /\ tracked' = [tracked EXCEPT ![ChanOf[c]][tag] = NoDelivery]
  /\ settled' = settled \cup {tracked[ChanOf[c]][tag].m}
  /\ UNCHANGED <<store, pc, cur, scan, next, entered, requeued, replaced, bypass>>

\* handleNack: the delivery, if there is one, is looked up under one lock ...
handleNack(c, tag, requeue) ==
  /\ pc[c] = "idle"
  /\ requeue => \A q \in Queue : bypass[q] < MaxBypass
  /\ pc' = [pc EXCEPT ![c] = "nack"]
  /\ cur' = [cur EXCEPT ![c].tag = tag, ![c].requeue = requeue,
                        ![c].found = tracked[ChanOf[c]][tag]]
  /\ UNCHANGED <<store, tracked, scan, next, histVars>>

\* handleReject does the same in a method of its own.
handleReject(c, tag, requeue) == handleNack(c, tag, requeue)

\* Mutant of Nack: the delivery stays tracked when it is requeued.
Nack_StaysTracked(c) ==
  LET ch == ChanOf[c]
      d == tracked[ch][cur[c].tag]
      toDLX == ~cur[c].requeue /\ cur[c].found # NoDelivery
  IN  /\ pc[c] = "nack"
      /\ pc' = [pc EXCEPT ![c] = IF toDLX THEN "nacked" ELSE "idle"]
      /\ cur' = [cur EXCEPT ![c] = IF toDLX THEN @ ELSE NoLocals]
      /\ IF d # NoDelivery /\ cur[c].requeue
         THEN /\ Bypass(d.q, d.m, Append(store[d.q], d.m))
              /\ UNCHANGED tracked
         ELSE /\ tracked' = [tracked EXCEPT ![ch][cur[c].tag] = NoDelivery]
              /\ UNCHANGED <<store, requeued, bypass>>
      /\ UNCHANGED <<scan, next, entered, replaced, settled>>

\* ... and given up under another: requeueing appends to the queue it came
\* from.  Nack's error is ignored: without requeue the delivery looked up, and
\* no other, goes on to the dead-letter exchange.
Nack(c) ==
  LET ch == ChanOf[c]
      d == tracked[ch][cur[c].tag]
      toDLX == ~cur[c].requeue /\ cur[c].found # NoDelivery
  IN  /\ pc[c] = "nack"
      /\ pc' = [pc EXCEPT ![c] = IF toDLX THEN "nacked" ELSE "idle"]
      /\ cur' = [cur EXCEPT ![c] = IF toDLX THEN @ ELSE NoLocals]
      /\ tracked' = [tracked EXCEPT ![ch][cur[c].tag] = NoDelivery]
      /\ IF d # NoDelivery /\ cur[c].requeue
         THEN Bypass(d.q, d.m, Append(store[d.q], d.m))
         ELSE UNCHANGED <<store, requeued, bypass>>
      /\ settled' = IF d # NoDelivery /\ ~cur[c].requeue /\ d # cur[c].found
                    THEN settled \cup {d.m} ELSE settled
      /\ UNCHANGED <<scan, next, entered, replaced>>

\* DeadLetter at the end of handleNack.
DeadLetterNacked(c) ==
  /\ pc[c] = "nacked"
  /\ deadLetter(cur[c].found.m, cur[c].found.q)
  /\ pc' = [pc EXCEPT ![c] = "idle"]
  /\ cur' = [cur EXCEPT ![c] = NoLocals]
  /\ UNCHANGED <<scan, next, entered, replaced>>

\* The message tracked under a tag, if it came from queue q, as a sequence.
Recovered(ch, tag, q) ==
  IF tracked[ch][tag] # NoDelivery /\ tracked[ch][tag].q = q
  THEN <<tracked[ch][tag].m>> ELSE <<>>

\* handleRecover and RecoverAll: the deliveries of the channel are appended to
\* their queues, in the order in which Go ranges over the map, or dropped.
handleRecover(c, first, requeue) ==
  LET ch == ChanOf[c]
      back(q) == Recovered(ch, first, q) \o Recovered(ch, 1 - first, q)
      msgs == {tracked[ch][t].m : t \in {u \in Tag : tracked[ch][u] # NoDelivery}}
  IN  /\ pc[c] = "idle"
      /\ msgs # {}
      /\ tracked' = [tracked EXCEPT ![ch] = [t \in Tag |-> NoDelivery]]
      /\ IF requeue
         THEN /\ \A q \in Queue : bypass[q] < MaxBypass
              /\ store' = [q \in Queue |-> store[q] \o back(q)]
              /\ bypass' = [q \in Queue |-> bypass[q] + Len(back(q))]
              /\ requeued' = requeued \cup msgs
              /\ UNCHANGED settled
         ELSE /\ settled' = settled \cup msgs
              /\ UNCHANGED <<store, bypass, requeued>>
      /\ UNCHANGED <<pc, cur, scan, next, entered, replaced>>

\* handleQueuePurge.
handleQueuePurge(c, q) ==
  /\ pc[c] = "idle"
  /\ store[q] # <<>>
  /\ store' = [store EXCEPT ![q] = <<>>]
  /\ settled' = settled \cup {store[q][i] : i \in DOMAIN store[q]}
  /\ UNCHANGED <<tracked, pc, cur, scan, next, entered, requeued, replaced, bypass>>

----------------------------------------------------------------------------
(* The expiration manager                                                  *)

Increasing(f) == \A i, j \in DOMAIN f : i < j => f[i] < f[j]

\* The ways to split 1..n into the positions that stay and those, one at
\* least, that go.
Splits(n) ==
  UNION {{s \in [1..k -> 1..n] \X [1..(n - k) -> 1..n] :
             /\ Increasing(s[1]) /\ Increasing(s[2])
             /\ \A i \in 1..k, j \in 1..(n - k) : s[1][i] # s[2][j]} : k \in 0..(n - 1)}

\* RemoveExpired: any of the messages of the queue may have expired; they
\* leave the store under its lock.
ScanQueue(q, split) ==
  /\ scan = <<>>
  /\ store' = [store EXCEPT ![q] = [i \in DOMAIN split[1] |-> store[q][split[1][i]]]]
  /\ scan' = [i \in DOMAIN split[2] |-> [m |-> store[q][split[2][i]], q |-> q]]
  /\ UNCHANGED <<tracked, pc, cur, next, histVars>>

\* onExpired: the dead-letter routing of each, without the store's lock.
ScanCallback ==
  /\ scan # <<>>
  /\ scan' = Tail(scan)
  /\ deadLetter(Head(scan).m, Head(scan).q)
  /\ UNCHANGED <<pc, cur, next, entered, replaced>>

----------------------------------------------------------------------------
Next ==
  \/ \E c \in Conn :
       \/ \E route \in Routes, pri \in Priority : handlePublish(c, route, pri)
       \/ NextQueue(c)
       \/ EvictOldest(c)
       \/ DeadLetterEvicted(c)
       \/ EnqueueMessage(c)
       \/ DeliverPushed(c)
       \/ \E q \in Queue, noAck \in BOOLEAN : handleGet(c, q, noAck)
       \/ GetAgain(c)
       \/ Record(c)
       \/ \E tag \in Tag : handleAck(c, tag)
       \/ \E tag \in Tag, requeue \in BOOLEAN :
            handleNack(c, tag, requeue) \/ handleReject(c, tag, requeue)
       \/ Nack(c)
       \/ DeadLetterNacked(c)
       \/ \E first \in Tag, requeue \in BOOLEAN : handleRecover(c, first, requeue)
       \/ \E q \in Queue : handleQueuePurge(c, q)
  \/ \E q \in TTLQ : \E split \in Splits(Len(store[q])) : ScanQueue(q, split)
  \/ ScanCallback

Spec == Init /\ [][Next]_vars

----------------------------------------------------------------------------
(* Properties                                                              *)

\* The local variables a handler at place p needs are set: none is nil.
LocalsSet(p, l) ==
  /\ p \in {"check", "evict", "evicted", "enqueue", "deliver", "record"} => l.m \in Msg
  /\ p \in {"evict", "evicted", "enqueue", "deliver", "get", "record"} => l.q \in Queue
  /\ p = "check" => l.todo # <<>>
  /\ p \in {"evicted", "nacked"} => l.found \in Delivery

\* Type invariant of the store, the tracker and the handlers' local variables.
TypeOK ==
  /\ store \in [Queue -> Seq(Msg)]
  /\ tracked \in [Channel -> [Tag -> Delivery \cup {NoDelivery}]]
  /\ pc \in [Conn -> PC]
  /\ cur \in [Conn -> Locals]
  /\ \A c \in Conn : LocalsSet(pc[c], cur[c])
  /\ scan \in Seq(Delivery)
  /\ next \in Nat
  /\ entered \subseteq Msg /\ requeued \subseteq Msg
  /\ settled \subseteq Msg /\ replaced \subseteq Msg
  /\ bypass \in [Queue -> Nat]

\* The connections about to add a message to queue q that passed its length
\* check, or made room for it, before.
Entering(q) == {c \in Conn : pc[c] \in {"evicted", "enqueue"} /\ cur[c].q = q}

\* The length check, the eviction and the enqueue of publishInternal hold the
\* store's lock one by one, so publishers overrun x-max-length; yet by no more
\* than one message for each other connection, however often they do, plus
\* the requeued and dead-lettered messages, which are not checked at all.
MaxLengthOvershoot ==
  \A q \in Queue : MaxLen[q] > 0 =>
    Len(store[q]) + Cardinality(Entering(q)) < MaxLen[q] + Cardinality(Conn) + bypass[q]

\* Where message m is: waiting in a queue, tracked, in the hands of a handler
\* or of the expiration scan.
InStore(m) ==
  UNION {{<<"store", q, i>> : i \in {k \in DOMAIN store[q] : store[q][k] = m}} : q \in Queue}

InTracker(m) ==
  {<<"tracked", at[1], at[2]>> : at \in
     {a \in Channel \X Tag : tracked[a[1]][a[2]] # NoDelivery /\ tracked[a[1]][a[2]].m = m}}

InHand(m) ==
  {<<"hand", c, 0>> : c \in
     {x \in Conn : \/ pc[x] = "record" /\ cur[x].m = m
                   \/ pc[x] \in {"evicted", "nacked"} /\ cur[x].found.m = m}}

InScan(m) == {<<"scan", i, 0>> : i \in {k \in DOMAIN scan : scan[k].m = m}}

Places(m) == InStore(m) \cup InTracker(m) \cup InHand(m) \cup InScan(m)

\* Without push consumers and with channel numbers of their own, connections
\* neither lose nor duplicate a message between two critical sections: it is
\* in exactly one place until it is settled or its record is replaced.
Conserved ==
  \A m \in entered :
    Cardinality(Places(m)) = IF m \in settled \cup replaced THEN 0 ELSE 1

\* A message handed out and not settled can be settled or recovered later:
\* "When autoAck is false the delivery is tracked." (pull_consumer.go).  Does not
\* hold: every Get of a channel uses delivery tag 1.
UnackedTracked ==
  \A m \in entered \ settled : Places(m) # {}

\* A published message of a priority queue never waits behind one of lower
\* priority, and messages of equal priority from one connection keep their
\* order, whatever is requeued or removed meanwhile.
PriorityOrder ==
  \A q \in PriorityQ : \A i, j \in DOMAIN store[q] :
    i < j /\ store[q][j] \notin requeued =>
      /\ store[q][i].pri >= store[q][j].pri
      /\ store[q][i] \notin requeued /\ store[q][i].pri = store[q][j].pri
           /\ store[q][i].from = store[q][j].from => store[q][i].id <= store[q][j].id
=============================================================================
