---------------------------- MODULE SessionProofs ----------------------------
(***************************************************************************)
(* Theorems about Session, for any connections, consumers, consumer groups *)
(* and batch size: its types, the agreement of the indexes over consumers, *)
(* the isolation of transactions and the order of publisher confirms.      *)
(*                                                                         *)
(* Typed is the invariant of the state, with the indexes (IndexInv); TxInv *)
(* and ConfInv say what a connection in the middle of a Publish, or of the *)
(* Publishes of a Commit, still owes.                                      *)
(***************************************************************************)
EXTENDS Session, Basics, SequenceTheorems, TLAPS

----------------------------------------------------------------------------
(* The indexes over consumers                                              *)

\* The consumers of a queue and of a group.
OfQueue(q) == {t \in Tag : byTag[t] # None /\ byTag[t].queue = q}
OfGroup(g) == {t \in Tag : byTag[t] # None /\ byTag[t].group = g}

QueueIndexed(q) == IsInjective(byQueue[q]) /\ ToSet(byQueue[q]) = OfQueue(q)

GroupIndexed(g) ==
  IF OfGroup(g) = {} THEN groups[g] = None
  ELSE groups[g] # None /\ IsInjective(groups[g].members) /\ ToSet(groups[g].members) = OfGroup(g)

\* The indexes with their types.
IndexTyped ==
  /\ byTag \in [Tag -> Consumer \cup {None}] /\ \A t \in Tag : byTag[t] \in Offer[t] \cup {None}
  /\ byQueue \in [Queue -> Seq(Tag)]
  /\ groups \in [Group -> ConsumerGroup \cup {None}]

IndexInv ==
  /\ IndexTyped
  /\ \A q \in Queue : QueueIndexed(q)
  /\ \A g \in Group : GroupIndexed(g)

\* The two ways to say it.
LEMMA IndexNamed ==
  IndexesAgree <=> (\A q \in Queue : QueueIndexed(q)) /\ (\A g \in Group : GroupIndexed(g))
BY DEF IndexesAgree, QueueIndexed, GroupIndexed, OfQueue, OfGroup

\* Nil is no consumer and no group.
LEMMA NoneApart ==
  /\ None \notin Consumer /\ None \notin ConsumerGroup /\ None \notin Group
  /\ \A t \in Tag : \A o \in Offer[t] :
       o \in Consumer /\ o.queue \in Queue /\ o.ch \in Conn /\ o.group \in Group \cup {None}
BY SessionAssumption DEF Consumer

\* Subscribe adds the consumer to each index it belongs to.
LEMMA SubscribeIndex ==
  ASSUME IndexInv, NEW t \in Tag, NEW o \in Offer[t], byTag[t] = None, Subscribe(t, o)
  PROVE  IndexInv'
<1>0. IndexTyped /\ o \in Consumer /\ o # None /\ o.queue \in Queue /\ o.group \in Group \cup {None}
  BY NoneApart DEF IndexInv
<1>1. byTag'[t] = o /\ \A u \in Tag : u # t => byTag'[u] = byTag[u]
  BY <1>0 DEF Subscribe, IndexTyped
<1>2. /\ byQueue'[o.queue] = Append(byQueue[o.queue], t)
      /\ \A q \in Queue : q # o.queue => byQueue'[q] = byQueue[q]
  BY <1>0 DEF Subscribe, IndexTyped
<1>3. t \notin OfQueue(o.queue) /\ \A g : t \notin OfGroup(g)
  BY DEF OfQueue, OfGroup
<1>4. ASSUME NEW q \in Queue PROVE QueueIndexed(q)' /\ byQueue'[q] \in Seq(Tag)
  <2>0. byQueue[q] \in Seq(Tag) /\ QueueIndexed(q)
    BY <1>0 DEF IndexTyped, IndexInv
  <2>1. CASE q = o.queue
    <3> DEFINE s == byQueue[q]
    <3>1. byQueue'[q] = Append(s, t) /\ s \in Seq(Tag) /\ IsInjective(s) /\ t \notin ToSet(s)
      BY <1>2, <1>3, <2>0, <2>1 DEF QueueIndexed
    <3> HIDE DEF s
    <3>2. /\ Append(s, t) \in Seq(Tag) /\ ToSet(Append(s, t)) = ToSet(s) \cup {t}
          /\ IsInjective(Append(s, t))
      BY <3>1, AppendList
    <3>3. OfQueue(q)' = OfQueue(q) \cup {t}
      BY <1>0, <1>1, <2>1 DEF OfQueue
    <3>4. ToSet(s) = OfQueue(q)
      BY <2>0 DEF QueueIndexed, s
    <3>5. QED BY <3>1, <3>2, <3>3, <3>4 DEF QueueIndexed
  <2>2. CASE q # o.queue
    <3>1. OfQueue(q)' = OfQueue(q) /\ byQueue'[q] = byQueue[q]
      BY <1>1, <1>2, <2>2 DEF OfQueue
    <3>2. QED BY <2>0, <3>1 DEF QueueIndexed
  <2>3. QED BY <2>1, <2>2
<1>5. ASSUME NEW g \in Group PROVE GroupIndexed(g)' /\ groups'[g] \in ConsumerGroup \cup {None}
  <2>0. groups[g] \in ConsumerGroup \cup {None} /\ GroupIndexed(g) /\ g # None
    BY <1>0, NoneApart DEF IndexTyped, IndexInv
  <2>1. CASE g = o.group
    <3> DEFINE old == IF groups[g] = None THEN NewConsumerGroup(o.queue) ELSE groups[g]
               s == old.members
    <3>1. groups'[g] = GroupAdd(old, t)
      BY <1>0, <2>0, <2>1 DEF Subscribe, Join, IndexTyped
    <3>2. old \in ConsumerGroup
      <4>1. <<>> \in Seq(Tag)
        BY EmptySeq
      <4>2. NewConsumerGroup(o.queue) \in ConsumerGroup
        BY <1>0, <4>1 DEF NewConsumerGroup, ConsumerGroup
      <4>3. QED BY <2>0, <4>2
    <3>3. s \in Seq(Tag) /\ IsInjective(s) /\ ToSet(s) = OfGroup(g)
      <4>1. CASE groups[g] = None
        <5>1. s = <<>> /\ OfGroup(g) = {}
          BY <2>0, <4>1 DEF NewConsumerGroup, GroupIndexed
        <5>2. DOMAIN <<>> = {} /\ <<>> \in Seq(Tag)
          BY EmptySeq
        <5> HIDE DEF s
        <5>3. QED BY <5>1, <5>2 DEF IsInjective, ToSet
      <4>2. CASE groups[g] # None
        BY <2>0, <3>2, <4>2 DEF GroupIndexed, ConsumerGroup
      <4>3. QED BY <4>1, <4>2
    <3> HIDE DEF old, s
    <3>4. /\ Append(s, t) \in Seq(Tag) /\ ToSet(Append(s, t)) = ToSet(s) \cup {t}
          /\ IsInjective(Append(s, t))
      BY <1>3, <3>3, AppendList
    <3>5. groups'[g] \in ConsumerGroup /\ groups'[g].members = Append(s, t)
      <4>1. old.members = s
        BY DEF s
      <4>2. QED BY <3>1, <3>2, <3>4, <4>1 DEF GroupAdd, ConsumerGroup
    <3>6. OfGroup(g)' = OfGroup(g) \cup {t}
      BY <1>0, <1>1, <2>1 DEF OfGroup
    <3>7. groups'[g] # None
      BY <3>5, NoneApart
    <3>8. QED BY <3>3, <3>4, <3>5, <3>6, <3>7 DEF GroupIndexed
  <2>2. CASE g # o.group
    <3>1. OfGroup(g)' = OfGroup(g)
      BY <1>1, <2>2 DEF OfGroup
    <3>2. groups'[g] = groups[g]
      BY <1>0, <2>2 DEF Subscribe, Join, IndexTyped
    <3>3. QED BY <2>0, <3>1, <3>2 DEF GroupIndexed
  <2>3. QED BY <2>1, <2>2
<1>6. IndexTyped'
  <2>1. byTag' \in [Tag -> Consumer \cup {None}] /\ \A u \in Tag : byTag'[u] \in Offer[u] \cup {None}
    BY <1>0, <1>1 DEF Subscribe, IndexTyped
  <2>2. DOMAIN byQueue' = Queue /\ DOMAIN groups' = Group
    BY <1>0 DEF Subscribe, Join, IndexTyped
  <2>3. byQueue' = [q \in Queue |-> byQueue'[q]] /\ groups' = [g \in Group |-> groups'[g]]
    BY <1>0, <2>2 DEF Subscribe, Join, IndexTyped
  <2>4. byQueue' \in [Queue -> Seq(Tag)]
    BY <1>4, <2>3
  <2>5. groups' \in [Group -> ConsumerGroup \cup {None}]
    BY <1>5, <2>3
  <2>6. QED BY <2>1, <2>4, <2>5 DEF IndexTyped
<1>7. QED BY <1>4, <1>5, <1>6 DEF IndexInv

\* Unsubscribe takes it out of each, and its group with it if it was the last.
LEMMA UnsubscribeIndex ==
  ASSUME IndexInv, NEW t \in Tag, byTag[t] # None, Unsubscribe(t)
  PROVE  IndexInv'
<1>0. PICK o \in Consumer : o = byTag[t]
  BY DEF IndexInv, IndexTyped
<1>1. IndexTyped /\ o # None /\ o.queue \in Queue /\ o.group \in Group \cup {None}
  BY NoneApart DEF IndexInv, Consumer
<1>2. byTag'[t] = None /\ \A u \in Tag : u # t => byTag'[u] = byTag[u]
  BY <1>1 DEF Unsubscribe, IndexTyped
<1>3. /\ byQueue'[o.queue] = RemoveFirst(byQueue[o.queue], t)
      /\ \A q \in Queue : q # o.queue => byQueue'[q] = byQueue[q]
  BY <1>0, <1>1 DEF Unsubscribe, IndexTyped
<1>4. t \in OfQueue(o.queue) /\ t \in OfGroup(o.group)
  BY <1>0 DEF OfQueue, OfGroup
<1>5. ASSUME NEW q \in Queue PROVE QueueIndexed(q)' /\ byQueue'[q] \in Seq(Tag)
  <2>0. byQueue[q] \in Seq(Tag) /\ QueueIndexed(q)
    BY <1>1 DEF IndexTyped, IndexInv
  <2>1. CASE q = o.queue
    <3> DEFINE s == byQueue[q]
    <3>1. byQueue'[q] = RemoveFirst(s, t) /\ s \in Seq(Tag) /\ IsInjective(s) /\ t \in ToSet(s)
      BY <1>3, <1>4, <2>0, <2>1 DEF QueueIndexed
    <3> HIDE DEF s
    <3>2. /\ RemoveFirst(s, t) \in Seq(Tag) /\ ToSet(RemoveFirst(s, t)) = ToSet(s) \ {t}
          /\ IsInjective(RemoveFirst(s, t))
      BY <3>1, RemoveFirstHolds
    <3>3. OfQueue(q)' = OfQueue(q) \ {t}
      BY <1>2, <2>1 DEF OfQueue
    <3>4. ToSet(s) = OfQueue(q)
      BY <2>0 DEF QueueIndexed, s
    <3>5. QED BY <3>1, <3>2, <3>3, <3>4 DEF QueueIndexed
  <2>2. CASE q # o.queue
    <3>1. OfQueue(q)' = OfQueue(q) /\ byQueue'[q] = byQueue[q]
      BY <1>0, <1>2, <1>3, <2>2 DEF OfQueue
    <3>2. QED BY <2>0, <3>1 DEF QueueIndexed
  <2>3. QED BY <2>1, <2>2
<1>6. ASSUME NEW g \in Group PROVE GroupIndexed(g)' /\ groups'[g] \in ConsumerGroup \cup {None}
  <2>0. groups[g] \in ConsumerGroup \cup {None} /\ GroupIndexed(g) /\ g # None
    BY <1>1, NoneApart DEF IndexTyped, IndexInv
  <2>1. CASE g = o.group
    <3> DEFINE old == groups[g]
               s == old.members
               new == GroupRemove(old, t)
    <3>1. groups'[g] = IF new.members = <<>> THEN None ELSE new
      BY <1>0, <1>1, <2>0, <2>1 DEF Unsubscribe, Leave, IndexTyped
    <3>2. /\ old # None /\ old \in ConsumerGroup /\ s \in Seq(Tag) /\ IsInjective(s)
          /\ ToSet(s) = OfGroup(g) /\ t \in ToSet(s)
      BY <1>4, <2>0, <2>1 DEF GroupIndexed, ConsumerGroup
    <3> HIDE DEF old, s
    <3>3. /\ RemoveFirst(s, t) \in Seq(Tag) /\ ToSet(RemoveFirst(s, t)) = ToSet(s) \ {t}
          /\ IsInjective(RemoveFirst(s, t))
      BY <3>2, RemoveFirstHolds
    <3>4. new \in ConsumerGroup /\ new.members = RemoveFirst(s, t)
      <4>1. old.members = s
        BY DEF s
      <4>2. QED BY <3>2, <3>3, <4>1 DEF GroupRemove, ConsumerGroup
    <3>5. OfGroup(g)' = OfGroup(g) \ {t}
      BY <1>2, <2>1 DEF OfGroup
    <3> HIDE DEF new
    <3>6. new.members = <<>> <=> OfGroup(g)' = {}
      <4> DEFINE r == RemoveFirst(s, t)
      <4>1. ToSet(r) = OfGroup(g)' /\ r \in Seq(Tag) /\ new.members = r
        BY <3>2, <3>3, <3>4, <3>5
      <4> HIDE DEF r
      <4>2. r = <<>> <=> ToSet(r) = {}
        <5>1. r = <<>> => DOMAIN r = {}
          BY EmptySeq
        <5>2. r # <<>> => 1 \in DOMAIN r
          BY <4>1, LenProperties, EmptySeq
        <5>3. QED BY <5>1, <5>2 DEF ToSet
      <4>3. QED BY <4>1, <4>2
    <3>7. QED BY <3>1, <3>2, <3>3, <3>4, <3>5, <3>6, NoneApart DEF GroupIndexed
  <2>2. CASE g # o.group
    <3>1. OfGroup(g)' = OfGroup(g)
      BY <1>0, <1>2, <2>2 DEF OfGroup
    <3>2. groups'[g] = groups[g]
      BY <1>0, <1>1, <2>2 DEF Unsubscribe, Leave, IndexTyped
    <3>3. QED BY <2>0, <3>1, <3>2 DEF GroupIndexed
  <2>3. QED BY <2>1, <2>2
<1>7. IndexTyped'
  <2>1. byTag' \in [Tag -> Consumer \cup {None}] /\ \A u \in Tag : byTag'[u] \in Offer[u] \cup {None}
    BY <1>1, <1>2 DEF Unsubscribe, IndexTyped
  <2>2. byQueue' = [q \in Queue |-> byQueue'[q]] /\ groups' = [g \in Group |-> groups'[g]]
    BY <1>1 DEF Unsubscribe, Leave, IndexTyped
  <2>3. byQueue' \in [Queue -> Seq(Tag)]
    BY <1>5, <2>2
  <2>4. groups' \in [Group -> ConsumerGroup \cup {None}]
    BY <1>6, <2>2
  <2>5. QED BY <2>1, <2>3, <2>4 DEF IndexTyped
<1>8. QED BY <1>5, <1>6, <1>7 DEF IndexInv

\* A delivery to a group moves its index, and nothing else of the indexes.
LEMMA DeliverGroupIndex ==
  ASSUME IndexInv, NEW c \in Conn, DeliverGroup(c), pub[c].gids \subseteq Group
  PROVE  IndexInv'
<1>0. byTag' = byTag /\ byQueue' = byQueue
  BY DEF DeliverGroup
<1>1. PICK g \in Group : \/ groups' = groups
                         \/ groups[g] # None /\ groups' = [groups EXCEPT ![g].idx = (@ + 1) % IdxMod]
  BY DEF DeliverGroup
<1>2. CASE groups' = groups
  BY <1>0, <1>2 DEF IndexInv, IndexTyped, QueueIndexed, GroupIndexed, OfQueue, OfGroup
<1>3. CASE groups[g] # None /\ groups' = [groups EXCEPT ![g].idx = (@ + 1) % IdxMod]
  <2>1. groups[g] \in ConsumerGroup /\ groups \in [Group -> ConsumerGroup \cup {None}]
    BY <1>3 DEF IndexInv, IndexTyped
  <2>2. groups[g].idx \in Nat
    BY <2>1 DEF ConsumerGroup
  <2>3. (groups[g].idx + 1) % IdxMod \in Nat
    BY <2>2, SessionAssumption
  <2> DEFINE i == (groups[g].idx + 1) % IdxMod
             new == [groups[g] EXCEPT !.idx = i]
  <2>4. groups' = [groups EXCEPT ![g] = new]
    BY <1>3, <2>1
  <2> HIDE DEF i
  <2>5. new \in ConsumerGroup /\ new.members = groups[g].members
    BY <2>1, <2>3 DEF ConsumerGroup, i
  <2> HIDE DEF new
  <2>6. /\ groups' \in [Group -> ConsumerGroup \cup {None}] /\ groups'[g] = new
        /\ \A x \in Group : x # g => groups'[x] = groups[x]
    BY <2>1, <2>4, <2>5
  <2>7. \A x \in Group : OfGroup(x)' = OfGroup(x)
    BY <1>0 DEF OfGroup
  <2>8. ASSUME NEW x \in Group PROVE GroupIndexed(x)'
    <3>1. CASE x = g
      BY <1>3, <2>5, <2>6, <2>7, <3>1, NoneApart DEF GroupIndexed, IndexInv
    <3>2. CASE x # g
      BY <2>6, <2>7, <3>2 DEF GroupIndexed, IndexInv
    <3>3. QED BY <3>1, <3>2
  <2>9. \A q \in Queue : QueueIndexed(q)'
    BY <1>0 DEF IndexInv, QueueIndexed, OfQueue
  <2>10. QED BY <1>0, <2>6, <2>8, <2>9 DEF IndexInv, IndexTyped
<1>4. QED BY <1>1, <1>2, <1>3

----------------------------------------------------------------------------
(* Types                                                                   *)

Kind == {"plain", "confirm", "commit"}
Work == {s \in Seq(Msg) : s # <<>>}

\* Where a Publish is: before the lookup of its bindings, at a queue, delivering.
RoutePub == [at : {"route"}, kind : Kind, todo : Work, all : SUBSET Msg]
QueuePub == [at : {"queue"}, kind : Kind, todo : Work, all : SUBSET Msg, route : SUBSET Queue]
DeliverPub == [at : {"deliver"}, kind : Kind, todo : Work, all : SUBSET Msg, route : SUBSET Queue,
               gids : SUBSET Group, alone : SUBSET Consumer]
Pub == {Idle} \cup RoutePub \cup QueuePub \cup DeliverPub

Answer == [m : Msg, tag : Nat, ack : BOOLEAN]
Batch == [ch : Conn \cup {None}, n : 0 .. MaxSize - 1]

ModesTyped ==
  /\ alive \in [Conn -> BOOLEAN] /\ closed \in [Conn -> BOOLEAN]
  /\ confirm \in [Conn -> BOOLEAN] /\ tx \in [Conn -> BOOLEAN]

\* Tags are taken by messages, so there are never more of them.
PubTyped ==
  /\ tagNo \in [Conn -> Nat] /\ \A c \in Conn : tagNo[c] < next
  /\ staged \in [Conn -> Seq(Msg)] /\ asked \in [Conn -> Seq(Msg)]
  /\ answered \in [Conn -> Seq(Answer)]
  /\ pub \in [Conn -> Pub]
  /\ next \in 1 .. MaxMsgs + 1

BatchTyped == batches \in [{ChanNo[c] : c \in Conn} -> Batch]

SetsTyped ==
  /\ exchange \in BOOLEAN /\ queues \subseteq Queue /\ subs \in 0 .. MaxSubs
  /\ routed \subseteq Msg /\ stored \subseteq Msg /\ rolledBack \subseteq Msg /\ committed \subseteq Msg

Typed == ModesTyped /\ PubTyped /\ BatchTyped /\ SetsTyped /\ IndexInv

\* What the state of a Publish says of its fields.
LEMMA PubFields ==
  ASSUME NEW p \in Pub
  PROVE  /\ p.at = "route" => p \in RoutePub
         /\ p.at = "queue" => p \in QueuePub
         /\ p.at = "deliver" => p \in DeliverPub
         /\ p = Idle <=> p.at = "idle"
         /\ p # Idle => /\ p.at \in {"route", "queue", "deliver"} /\ p.kind \in Kind
                        /\ p.todo \in Seq(Msg) /\ p.todo # <<>> /\ p.all \subseteq Msg
                        /\ Head(p.todo) \in Msg /\ Tail(p.todo) \in Seq(Msg)
<1>1. /\ p.at = "route" => p \in RoutePub
      /\ p.at = "queue" => p \in QueuePub
      /\ p.at = "deliver" => p \in DeliverPub
      /\ p = Idle <=> p.at = "idle"
  BY DEF Pub, RoutePub, QueuePub, DeliverPub, Idle
<1>2. p # Idle => /\ p.at \in {"route", "queue", "deliver"} /\ p.kind \in Kind
                  /\ p.todo \in Work /\ p.all \subseteq Msg
  BY DEF Pub, RoutePub, QueuePub, DeliverPub
<1>3. \A s \in Work : s \in Seq(Msg) /\ s # <<>> /\ Head(s) \in Msg /\ Tail(s) \in Seq(Msg)
  BY TailList DEF Work
<1>4. QED BY <1>1, <1>2, <1>3

\* A Publish that begins.
LEMMA PublishingTyped ==
  ASSUME NEW k \in Kind, NEW s \in Seq(Msg), s # <<>>, NEW A \in SUBSET Msg
  PROVE  Publishing(k, s, A) \in Pub
BY DEF Publishing, Pub, RoutePub, Work

\* TypeOK follows.
LEMMA TypedImplies == Typed => TypeOK /\ IndexesAgree
<1> SUFFICES ASSUME Typed PROVE TypeOK /\ IndexesAgree
  OBVIOUS
<1>1. IndexesAgree
  BY IndexNamed DEF Typed, IndexInv
<1>2. {alive, closed, confirm, tx} \subseteq [Conn -> BOOLEAN]
  BY DEF Typed, ModesTyped
<1>3. tagNo \in [Conn -> 0 .. MaxMsgs]
  <2>1. \A c \in Conn : tagNo[c] \in 0 .. MaxMsgs
    BY SessionAssumption DEF Typed, PubTyped
  <2>2. QED BY <2>1 DEF Typed, PubTyped
<1>4. ASSUME NEW c \in Conn PROVE ToSet(staged[c]) \subseteq Msg /\ ToSet(asked[c]) \subseteq Msg
  <2>1. staged[c] \in Seq(Msg) /\ asked[c] \in Seq(Msg)
    BY DEF Typed, PubTyped
  <2>2. \A s \in Seq(Msg) : ToSet(s) \subseteq Msg
    BY ElementOfSeq, LenProperties DEF ToSet
  <2>3. QED BY <2>1, <2>2
<1>5. \A t \in Tag : byTag[t] \in Offer[t] \cup {None}
  BY DEF Typed, IndexInv, IndexTyped
<1>6. \A n \in DOMAIN batches : batches[n] \in [ch : Conn \cup {None}, n : 0 .. MaxSize - 1]
  BY DEF Typed, BatchTyped, Batch
<1>7. QED BY <1>1, <1>2, <1>3, <1>4, <1>5, <1>6 DEF TypeOK, Typed, SetsTyped, PubTyped

LEMMA TypedInit == Init => Typed
<1> SUFFICES ASSUME Init PROVE Typed
  OBVIOUS
<1>1. ModesTyped
  BY DEF Init, ModesTyped
<1>2. PubTyped
  <2>1. <<>> \in Seq(Msg) /\ <<>> \in Seq(Answer)
    BY EmptySeq
  <2>2. Idle \in Pub
    BY DEF Pub
  <2>3. QED BY <2>1, <2>2, SessionAssumption DEF Init, PubTyped
<1>3. BatchTyped
  <2>1. NoBatch \in Batch
    BY SessionAssumption DEF NoBatch, Batch
  <2>2. QED BY <2>1 DEF Init, BatchTyped
<1>4. SetsTyped
  BY SessionAssumption DEF Init, SetsTyped
<1>5. IndexInv
  <2>1. <<>> \in Seq(Tag) /\ DOMAIN <<>> = {}
    BY EmptySeq
  <2>2. IndexTyped
    BY <2>1 DEF Init, IndexTyped
  <2>3. ASSUME NEW q \in Queue PROVE QueueIndexed(q)
    <3>1. byQueue[q] = <<>> /\ OfQueue(q) = {}
      BY DEF Init, OfQueue
    <3>2. QED BY <2>1, <3>1 DEF QueueIndexed, IsInjective, ToSet
  <2>4. ASSUME NEW g \in Group PROVE GroupIndexed(g)
    BY DEF Init, OfGroup, GroupIndexed
  <2>5. QED BY <2>2, <2>3, <2>4 DEF IndexInv
<1>6. QED BY <1>1, <1>2, <1>3, <1>4, <1>5 DEF Typed

\* The indexes, when no consumer comes or goes.
LEMMA IndexKept ==
  ASSUME IndexInv, UNCHANGED consumers
  PROVE  IndexInv'
<1>1. byTag' = byTag /\ byQueue' = byQueue /\ groups' = groups
  BY DEF consumers
<1>2. \A q \in Queue : QueueIndexed(q)' <=> QueueIndexed(q)
  BY <1>1 DEF QueueIndexed, OfQueue
<1>3. \A g \in Group : GroupIndexed(g)' <=> GroupIndexed(g)
  BY <1>1 DEF GroupIndexed, OfGroup
<1>4. QED BY <1>1, <1>2, <1>3 DEF IndexInv, IndexTyped

\* A delivery leaves the batches typed.
LEMMA BatchAdded ==
  ASSUME BatchTyped, NEW c \in Conn, NEW ch \in Conn, deliverTo(c, ch)
  PROVE  BatchTyped'
<1> DEFINE n == ChanNo[c]
           b == batches[n]
           new == [ch |-> IF b.ch = None THEN ch ELSE b.ch,
                   n |-> IF b.n + 1 >= MaxSize THEN 0 ELSE b.n + 1]
<1>1. b \in Batch /\ n \in {ChanNo[d] : d \in Conn}
  BY DEF BatchTyped
<1>2. b.ch \in Conn \cup {None} /\ b.n \in 0 .. MaxSize - 1
  BY <1>1 DEF Batch
<1>3. new.n \in 0 .. MaxSize - 1
  BY <1>2, SessionAssumption
<1>4. new \in Batch
  BY <1>2, <1>3 DEF Batch
<1>5. batches' = [batches EXCEPT ![n] = new]
  BY DEF deliverTo
<1> HIDE DEF n, new
<1>6. QED BY <1>1, <1>4, <1>5 DEF BatchTyped

\* The member a group selects is a consumer.
LEMMA SelectMember ==
  ASSUME IndexInv, NEW g \in Group, groups[g] # None
  PROVE  Select(g) \in OfGroup(g) /\ byTag[Select(g)] \in Consumer /\ byTag[Select(g)].ch \in Conn
<1> DEFINE s == groups[g].members
           i == groups[g].idx
<1>1. groups[g] \in ConsumerGroup /\ GroupIndexed(g)
  BY DEF IndexInv, IndexTyped
<1>2. s \in Seq(Tag) /\ i \in Nat /\ OfGroup(g) # {} /\ ToSet(s) = OfGroup(g)
  BY <1>1 DEF ConsumerGroup, GroupIndexed
<1>3. Select(g) = s[(i % Len(s)) + 1]
  BY DEF Select
<1> HIDE DEF s, i
<1>4. Len(s) \in Nat /\ DOMAIN s = 1 .. Len(s)
  BY <1>2, LenProperties
<1>5. Len(s) # 0
  BY <1>2, <1>4 DEF ToSet
<1>6. (i % Len(s)) + 1 \in 1 .. Len(s)
  BY <1>2, <1>4, <1>5
<1>7. s[(i % Len(s)) + 1] \in ToSet(s)
  BY <1>4, <1>6 DEF ToSet
<1>8. Select(g) \in OfGroup(g)
  BY <1>2, <1>3, <1>7
<1>9. \A t \in OfGroup(g) : byTag[t] \in Consumer
  BY DEF IndexInv, IndexTyped, OfGroup
<1>10. QED BY <1>8, <1>9 DEF Consumer

\* One lemma per kind of step: the modes of a channel, ...
LEMMA ModesStep ==
  ASSUME Typed, NEW c \in Conn,
         \/ handleConfirmSelect(c) \/ handleTxSelect(c)
         \/ handleChannelClose(c) \/ handleChannelOpen(c)
  PROVE  Typed'
<1>1. UNCHANGED <<alive, tagNo, staged, pub, topology, consumers, batches, next, subs, history>>
  BY DEF handleConfirmSelect, handleTxSelect, handleChannelClose, handleChannelOpen
<1>2. ModesTyped'
  BY DEF Typed, ModesTyped, handleConfirmSelect, handleTxSelect, handleChannelClose,
         handleChannelOpen, SetConfirmMode, SetTxMode
<1>3. PubTyped' /\ BatchTyped' /\ SetsTyped'
  BY <1>1 DEF Typed, PubTyped, BatchTyped, SetsTyped, topology, history
<1>4. IndexInv'
  BY <1>1, IndexKept DEF Typed
<1>5. QED BY <1>2, <1>3, <1>4 DEF Typed

\* ... a message published, ...
LEMMA PublishStep ==
  ASSUME Typed, NEW c \in Conn, handlePublish(c)
  PROVE  Typed'
<1>1. UNCHANGED <<alive, modes, topology, consumers, batches, subs, answered, routed, stored,
                  rolledBack, committed>>
  BY DEF handlePublish
<1>2. ModesTyped' /\ BatchTyped' /\ SetsTyped'
  BY <1>1 DEF Typed, ModesTyped, BatchTyped, SetsTyped, topology, modes
<1>3. IndexInv'
  BY <1>1, IndexKept DEF Typed
<1>4. next \in Msg /\ next' = next + 1 /\ next' \in 1 .. MaxMsgs + 1
  BY SessionAssumption DEF Typed, PubTyped, handlePublish, Msg
<1>5. \A d \in Conn : Append(staged[d], next) \in Seq(Msg) /\ Append(asked[d], next) \in Seq(Msg)
  BY <1>4, AppendProperties DEF Typed, PubTyped
<1>6. staged' \in [Conn -> Seq(Msg)] /\ asked' \in [Conn -> Seq(Msg)]
  BY <1>5 DEF Typed, PubTyped, handlePublish, StageTxPublish
<1>7. tagNo' \in [Conn -> Nat] /\ \A d \in Conn : tagNo'[d] < next'
  <2>1. tagNo' = tagNo \/ tagNo' = [tagNo EXCEPT ![c] = @ + 1]
    BY DEF handlePublish, NextDeliveryTag
  <2>2. tagNo \in [Conn -> Nat] /\ \A d \in Conn : tagNo[d] < next
    BY DEF Typed, PubTyped
  <2>3. next \in Nat
    BY <1>4 DEF Msg
  <2>4. QED BY <1>4, <2>1, <2>2, <2>3
<1>8. pub' \in [Conn -> Pub]
  <2> DEFINE k == IF confirm[c] THEN "confirm" ELSE "plain"
             new == Publishing(k, <<next>>, {next})
  <2>1. pub' = pub \/ pub' = [pub EXCEPT ![c] = new]
    BY DEF handlePublish
  <2>2. <<next>> \in Seq(Msg) /\ <<next>> # <<>> /\ {next} \in SUBSET Msg /\ k \in Kind
    BY <1>4 DEF Kind
  <2> HIDE DEF k
  <2>3. new \in Pub
    BY <2>2, PublishingTyped, Zenon
  <2> HIDE DEF new
  <2>4. QED BY <2>1, <2>3 DEF Typed, PubTyped
<1>9. QED BY <1>1, <1>2, <1>3, <1>4, <1>6, <1>7, <1>8 DEF Typed, PubTyped

\* ... a transaction ended, ...
LEMMA TxStep ==
  ASSUME Typed, NEW c \in Conn, handleTxCommit(c) \/ handleTxRollback(c)
  PROVE  Typed'
<1>1. UNCHANGED <<alive, modes, tagNo, topology, consumers, batches, next, subs, asked, answered,
                  routed, stored, committed>>
  BY DEF handleTxCommit, handleTxRollback, history
<1>2. ModesTyped' /\ BatchTyped'
  BY <1>1 DEF Typed, ModesTyped, BatchTyped, modes
<1>3. IndexInv'
  BY <1>1, IndexKept DEF Typed
<1>4. staged[c] \in Seq(Msg) /\ staged[c] # <<>>
  BY DEF Typed, PubTyped, handleTxCommit, handleTxRollback
<1>5. ToSet(staged[c]) \subseteq Msg
  BY <1>4, ElementOfSeq, LenProperties DEF ToSet
<1>6. SetsTyped'
  BY <1>1, <1>5 DEF Typed, SetsTyped, topology, handleTxCommit, handleTxRollback, history
<1>7. staged' \in [Conn -> Seq(Msg)]
  <2>1. <<>> \in Seq(Msg)
    BY EmptySeq
  <2>2. QED BY <2>1 DEF Typed, PubTyped, handleTxCommit, handleTxRollback, ClearTx
<1>8. pub' \in [Conn -> Pub]
  <2> DEFINE s == staged[c]
             new == Publishing("commit", s, ToSet(s))
  <2>1. pub' = pub \/ pub' = [pub EXCEPT ![c] = new]
    BY DEF handleTxCommit, handleTxRollback
  <2>2. s \in Seq(Msg) /\ s # <<>> /\ ToSet(s) \in SUBSET Msg /\ "commit" \in Kind
    BY <1>4, <1>5 DEF Kind
  <2> HIDE DEF s
  <2>3. new \in Pub
    BY <2>2, PublishingTyped, Zenon
  <2> HIDE DEF new
  <2>4. QED BY <2>1, <2>3 DEF Typed, PubTyped
<1>9. QED BY <1>1, <1>2, <1>3, <1>6, <1>7, <1>8 DEF Typed, PubTyped

\* ... its bindings looked up, ...
LEMMA RouteStep ==
  ASSUME Typed, NEW c \in Conn, Route(c)
  PROVE  Typed'
<1>1. UNCHANGED <<modes, tagNo, staged, topology, consumers, batches, next, subs, asked, answered,
                  stored, rolledBack, committed>>
  BY DEF Route
<1>2. ModesTyped' /\ BatchTyped'
  BY <1>1 DEF Typed, ModesTyped, BatchTyped, modes, Route
<1>3. IndexInv'
  BY <1>1, IndexKept DEF Typed
<1>4. pub[c] \in Pub /\ pub[c].at = "route"
  BY DEF Typed, PubTyped, Route
<1>5. pub[c] \in RoutePub /\ Head(pub[c].todo) \in Msg
  BY <1>4, PubFields DEF Idle
<1>6. SetsTyped'
  BY <1>1, <1>5 DEF Typed, SetsTyped, topology, Route
<1>7. pub' \in [Conn -> Pub]
  <2> DEFINE p == pub[c]
             r == Matching(Head(p.todo))
             new == [at |-> "queue", kind |-> p.kind, todo |-> p.todo, all |-> p.all, route |-> r]
  <2>1. pub' = [pub EXCEPT ![c] = Idle] \/ pub' = [pub EXCEPT ![c] = new]
    BY DEF Route
  <2>2. r \subseteq Queue
    BY DEF Matching
  <2> HIDE DEF r
  <2>3. new \in Pub
    BY <1>5, <2>2 DEF Pub, QueuePub, RoutePub
  <2> HIDE DEF new
  <2>4. Idle \in Pub
    BY DEF Pub
  <2>5. QED BY <2>1, <2>3, <2>4 DEF Typed, PubTyped
<1>8. QED BY <1>1, <1>2, <1>3, <1>6, <1>7 DEF Typed, PubTyped

\* ... entering a queue, whose consumers are listed, ...
LEMMA EnterStep ==
  ASSUME Typed, NEW c \in Conn, EnterQueue(c)
  PROVE  Typed'
<1>1. UNCHANGED <<alive, modes, tagNo, staged, topology, consumers, batches, next, subs, asked,
                  answered, routed, rolledBack, committed>>
  BY DEF EnterQueue
<1>2. ModesTyped' /\ BatchTyped'
  BY <1>1 DEF Typed, ModesTyped, BatchTyped, modes
<1>3. IndexInv'
  BY <1>1, IndexKept DEF Typed
<1>4. pub[c] \in Pub /\ pub[c].at = "queue"
  BY DEF Typed, PubTyped, EnterQueue
<1>5. pub[c] \in QueuePub /\ Head(pub[c].todo) \in Msg
  BY <1>4, PubFields DEF Idle
<1>6. SetsTyped'
  BY <1>1, <1>5 DEF Typed, SetsTyped, topology, EnterQueue
<1>7. pub' \in [Conn -> Pub]
  <2> DEFINE p == pub[c]
             list(q) == {byTag[t] : t \in ToSet(byQueue[q])}
             r(q) == p.route \ {q}
             g(q) == {o.group : o \in list(q)} \ {None}
             a(q) == {o \in list(q) : o.group = None}
             at(q) == [at |-> "deliver", kind |-> p.kind, todo |-> p.todo, all |-> p.all,
                       route |-> r(q), gids |-> g(q), alone |-> a(q)]
             past(q) == [p EXCEPT !.route = r(q)]
  <2>1. PICK q \in p.route : pub' = [pub EXCEPT ![c] = at(q)] \/ pub' = [pub EXCEPT ![c] = past(q)]
    BY DEF EnterQueue, Typed, PubTyped
  <2>2. q \in Queue /\ r(q) \subseteq Queue
    BY <1>5 DEF QueuePub
  <2>3. list(q) \subseteq Consumer
    BY <2>2 DEF Typed, IndexInv, IndexTyped, QueueIndexed, OfQueue
  <2>4. g(q) \subseteq Group /\ a(q) \subseteq Consumer
    BY <2>3 DEF Consumer
  <2> HIDE DEF r, g, a, list
  <2>5. at(q) \in Pub
    BY <1>5, <2>2, <2>4 DEF Pub, DeliverPub, QueuePub
  <2>6. past(q) \in Pub
    BY <1>5, <2>2 DEF Pub, QueuePub
  <2> HIDE DEF at, past
  <2>7. QED BY <2>1, <2>5, <2>6 DEF Typed, PubTyped
<1>8. QED BY <1>1, <1>2, <1>3, <1>6, <1>7 DEF Typed, PubTyped

\* ... delivering to them, ...
LEMMA DeliverStep ==
  ASSUME Typed, NEW c \in Conn, DeliverGroup(c) \/ DeliverAlone(c) \/ Delivered(c)
  PROVE  Typed'
<1>1. UNCHANGED <<alive, modes, tagNo, staged, topology, byTag, byQueue, next, subs, history>>
  BY DEF DeliverGroup, DeliverAlone, Delivered, consumers
<1>2. ModesTyped' /\ SetsTyped'
  BY <1>1 DEF Typed, ModesTyped, SetsTyped, modes, topology, history
<1>3. pub[c] \in Pub /\ pub[c].at = "deliver"
  BY DEF Typed, PubTyped, DeliverGroup, DeliverAlone, Delivered
<1>4. pub[c] \in DeliverPub
  BY <1>3, PubFields
<1>5. pub[c].gids \subseteq Group /\ pub[c].alone \subseteq Consumer
  BY <1>4 DEF DeliverPub
<1>6. IndexInv'
  <2>1. CASE DeliverGroup(c)
    BY <1>5, <2>1, DeliverGroupIndex DEF Typed
  <2>2. CASE DeliverAlone(c) \/ Delivered(c)
    <3>1. UNCHANGED consumers
      BY <2>2 DEF DeliverAlone, Delivered
    <3>2. QED BY <3>1, IndexKept DEF Typed
  <2>3. QED BY <2>1, <2>2
<1>7. BatchTyped'
  <2>1. CASE DeliverGroup(c)
    <3>1. PICK g \in Group : \/ batches' = batches
                             \/ groups[g] # None /\ deliverTo(c, byTag[Select(g)].ch)
      BY <1>5, <2>1 DEF DeliverGroup
    <3>2. CASE batches' = batches
      BY <3>2 DEF BatchTyped, Typed
    <3>3. CASE groups[g] # None /\ deliverTo(c, byTag[Select(g)].ch)
      <4> DEFINE ch == byTag[Select(g)].ch
      <4>1. ch \in Conn
        BY <3>3, SelectMember DEF Typed
      <4>2. deliverTo(c, ch)
        BY <3>3
      <4> HIDE DEF ch
      <4>3. QED BY <4>1, <4>2, BatchAdded DEF Typed
    <3>4. QED BY <3>1, <3>2, <3>3
  <2>2. CASE DeliverAlone(c)
    <3>1. PICK o \in Consumer : deliverTo(c, o.ch)
      BY <1>5, <2>2 DEF DeliverAlone
    <3>2. o.ch \in Conn
      BY DEF Consumer
    <3>3. QED BY <3>1, <3>2, BatchAdded DEF Typed
  <2>3. CASE Delivered(c)
    BY <2>3 DEF Delivered, BatchTyped, Typed
  <2>4. QED BY <2>1, <2>2, <2>3
<1>8. pub' \in [Conn -> Pub]
  <2> DEFINE p == pub[c]
             g(x) == p.gids \ {x}
             a(x) == p.alone \ {x}
             newG(x) == [p EXCEPT !.gids = g(x)]
             newA(x) == [p EXCEPT !.alone = a(x)]
             newD == [at |-> "queue", kind |-> p.kind, todo |-> p.todo, all |-> p.all,
                      route |-> p.route]
  <2>1. \/ \E x : pub' = [pub EXCEPT ![c] = newG(x)]
        \/ \E x : pub' = [pub EXCEPT ![c] = newA(x)]
        \/ pub' = [pub EXCEPT ![c] = newD]
    BY DEF DeliverGroup, DeliverAlone, Delivered, Typed, PubTyped
  <2>2. newD \in Pub
    BY <1>4 DEF Pub, QueuePub, DeliverPub
  <2>3. \A x : g(x) \subseteq Group /\ a(x) \subseteq Consumer
    BY <1>5
  <2> HIDE DEF g, a
  <2>4. \A x : newG(x) \in Pub /\ newA(x) \in Pub
    BY <1>4, <2>3 DEF Pub, DeliverPub
  <2> HIDE DEF newG, newA, newD
  <2>5. QED BY <2>1, <2>2, <2>4 DEF Typed, PubTyped
<1>9. QED BY <1>1, <1>2, <1>6, <1>7, <1>8 DEF Typed, PubTyped, history

\* ... and answering; ...
LEMMA PublishedStep ==
  ASSUME Typed, NEW c \in Conn, Published(c)
  PROVE  Typed'
<1>1. UNCHANGED <<alive, modes, tagNo, staged, topology, consumers, batches, next, subs, asked,
                  routed, stored, rolledBack>>
  BY DEF Published
<1>2. ModesTyped' /\ BatchTyped'
  BY <1>1 DEF Typed, ModesTyped, BatchTyped, modes
<1>3. IndexInv'
  BY <1>1, IndexKept DEF Typed
<1> DEFINE p == pub[c]
           m == Head(p.todo)
           rest == Tail(p.todo)
<1>4. /\ p \in Pub /\ p # Idle /\ p.kind \in Kind /\ p.all \subseteq Msg /\ m \in Msg
      /\ rest \in Seq(Msg)
  <2>1. p \in Pub /\ p.at = "queue"
    BY DEF Typed, PubTyped, Published
  <2>2. p # Idle
    BY <2>1, PubFields
  <2>3. QED BY <2>1, <2>2, PubFields
<1>5. SetsTyped'
  BY <1>1, <1>4 DEF Typed, SetsTyped, topology, Published
<1>6. pub' \in [Conn -> Pub]
  <2>1. pub' = [pub EXCEPT ![c] = IF rest = <<>> THEN Idle ELSE Publishing(p.kind, rest, p.all)]
    BY DEF Published
  <2> DEFINE k == p.kind
             A == p.all
             new == Publishing(k, rest, A)
  <2>2. k \in Kind /\ A \in SUBSET Msg
    BY <1>4
  <2>3. rest # <<>> => new \in Pub
    <3> HIDE DEF k, A, rest
    <3>1. QED BY <1>4, <2>2, PublishingTyped
  <2>4. pub' = [pub EXCEPT ![c] = IF rest = <<>> THEN Idle ELSE new]
    BY <2>1
  <2>5. Idle \in Pub
    BY DEF Pub
  <2> HIDE DEF new, rest
  <2>6. QED BY <2>3, <2>4, <2>5 DEF Typed, PubTyped
<1>7. answered' \in [Conn -> Seq(Answer)]
  <2> DEFINE k == Matching(m) # {}
             a == [m |-> m, tag |-> tagNo[c], ack |-> k]
  <2>1. answered' = answered \/ answered' = [answered EXCEPT ![c] = Append(@, a)]
    BY DEF Published, Confirmed
  <2>2. a \in Answer
    <3>1. k \in BOOLEAN /\ tagNo[c] \in Nat
      BY DEF Typed, PubTyped
    <3> HIDE DEF k, m
    <3>2. QED BY <1>4, <3>1 DEF Answer
  <2> HIDE DEF a
  <2>3. Append(answered[c], a) \in Seq(Answer)
    BY <2>2, AppendProperties DEF Typed, PubTyped
  <2>4. QED BY <2>1, <2>3 DEF Typed, PubTyped
<1>8. QED BY <1>1, <1>2, <1>3, <1>5, <1>6, <1>7 DEF Typed, PubTyped

\* ... a consumer that comes or goes; ...
LEMMA ConsumerStep ==
  ASSUME Typed,
         \/ \E t \in Tag : \E o \in Offer[t] : handleConsume(t, o)
         \/ \E c \in Conn : \E t \in Tag : handleCancel(c, t)
  PROVE  Typed'
<1>1. UNCHANGED <<modes, tagNo, staged, pub, topology, batches, next, history>>
  BY DEF handleConsume, handleCancel
<1>2. PubTyped' /\ BatchTyped'
  BY <1>1 DEF Typed, PubTyped, BatchTyped, history
<1>3. CASE \E t \in Tag : \E o \in Offer[t] : handleConsume(t, o)
  <2>1. PICK t \in Tag : \E o \in Offer[t] : handleConsume(t, o)
    BY <1>3
  <2>2. PICK o \in Offer[t] : handleConsume(t, o)
    BY <2>1
  <2>3. IndexInv'
    <3>1. CASE Refused(t, o)
      <4>1. UNCHANGED consumers
        BY <2>2, <3>1 DEF handleConsume
      <4>2. QED BY <4>1, IndexKept DEF Typed
    <3>2. CASE ~Refused(t, o)
      <4>1. byTag[t] = None /\ Subscribe(t, o)
        BY <2>2, <3>2 DEF handleConsume, Refused
      <4>2. QED BY <4>1, SubscribeIndex DEF Typed
    <3>3. QED BY <3>1, <3>2
  <2>4. ModesTyped'
    BY <1>1, <2>2 DEF handleConsume, Typed, ModesTyped, modes
  <2>5. subs' \in 0 .. MaxSubs
    BY <2>2, SessionAssumption DEF handleConsume, Typed, SetsTyped
  <2>6. SetsTyped'
    BY <1>1, <2>5 DEF Typed, SetsTyped, topology, history
  <2>7. QED BY <1>2, <2>3, <2>4, <2>6 DEF Typed
<1>4. CASE \E c \in Conn : \E t \in Tag : handleCancel(c, t)
  <2>1. PICK c \in Conn, t \in Tag : handleCancel(c, t)
    BY <1>4
  <2>2. byTag[t] # None /\ Unsubscribe(t) /\ UNCHANGED <<alive, subs>>
    BY <2>1 DEF handleCancel
  <2>3. IndexInv'
    BY <2>2, UnsubscribeIndex DEF Typed
  <2>4. ModesTyped' /\ SetsTyped'
    BY <1>1, <2>2 DEF Typed, ModesTyped, SetsTyped, modes, topology, history
  <2>5. QED BY <1>2, <2>3, <2>4 DEF Typed
<1>5. QED BY <1>3, <1>4

\* ... a deletion, a flush, and no step at all.
LEMMA OtherStep ==
  ASSUME Typed,
         \/ \E c \in Conn : \E q \in Queue : handleQueueDelete(c, q)
         \/ \E c \in Conn : handleExchangeDelete(c)
         \/ \E n \in DOMAIN batches : Flush(n)
         \/ UNCHANGED vars
  PROVE  Typed'
<1>1. UNCHANGED <<alive, modes, tagNo, staged, pub, consumers, next, subs, history>>
  BY DEF handleQueueDelete, handleExchangeDelete, Flush, vars
<1>2. ModesTyped' /\ PubTyped'
  BY <1>1 DEF Typed, ModesTyped, PubTyped, modes, history
<1>3. IndexInv'
  BY <1>1, IndexKept DEF Typed
<1>4. SetsTyped'
  BY <1>1 DEF Typed, SetsTyped, handleQueueDelete, handleExchangeDelete, Flush, vars, topology, history
<1>5. BatchTyped'
  <2>1. CASE UNCHANGED batches
    BY <2>1 DEF Typed, BatchTyped
  <2>2. CASE \E n \in DOMAIN batches : Flush(n)
    <3>1. PICK n \in DOMAIN batches : Flush(n)
      BY <2>2
    <3> DEFINE new == [batches[n] EXCEPT !.n = 0]
    <3>2. batches' = [batches EXCEPT ![n] = new] /\ batches[n] \in Batch
      BY <3>1 DEF Flush, Typed, BatchTyped
    <3>3. 0 \in 0 .. MaxSize - 1
      BY SessionAssumption
    <3>4. new \in Batch
      BY <3>2, <3>3 DEF Batch
    <3> HIDE DEF new
    <3>5. QED BY <3>2, <3>4 DEF Typed, BatchTyped
  <2>3. QED BY <2>1, <2>2 DEF handleQueueDelete, handleExchangeDelete, vars
<1>6. QED BY <1>2, <1>3, <1>4, <1>5 DEF Typed

LEMMA TypedStep ==
  ASSUME Typed, [Next]_vars
  PROVE  Typed'
BY ModesStep, PublishStep, TxStep, RouteStep, EnterStep, DeliverStep, PublishedStep, ConsumerStep,
   OtherStep DEF Next

\* The session is typed, and its indexes agree, in every reachable state.
LEMMA TypedAlways == Spec => []Typed
BY TypedInit, TypedStep, PTL DEF Spec

\* Every variable keeps its type whatever the connections interleave, and no delivery,
\* of any connection to any consumer, leaves a batch full (DeliveryBatch.Add).
THEOREM SessionTypeTheorem == Spec => []TypeOK
BY TypedAlways, TypedImplies, PTL

\* Subscribe, Unsubscribe and the deliveries that run between them keep byTag, byQueue
\* and the consumer groups in agreement, for any consumers and any number of groups.
THEOREM IndexTheorem == Spec => []IndexesAgree
BY TypedAlways, TypedImplies, PTL

----------------------------------------------------------------------------
(* Transactions                                                            *)

\* Messages of the connection's Publish, or Commit, whose bindings nobody has looked up.
Unrouted(c) ==
  IF pub[c] = Idle THEN {}
  ELSE IF pub[c].at = "route" THEN ToSet(pub[c].todo) ELSE ToSet(Tail(pub[c].todo))

Waiting(c) == ToSet(staged[c]) \cup Unrouted(c)

\* Messages a connection has waiting are its own, each once, none of them routed or rolled
\* back; the others of its Publish are routed.
TxOne(c) ==
  /\ IsInjective(staged[c])
  /\ ToSet(staged[c]) \cap Unrouted(c) = {}
  /\ \A m \in Waiting(c) : m \in Msg /\ m < next /\ m \notin routed /\ m \notin rolledBack
  /\ pub[c] # Idle => /\ IsInjective(pub[c].todo)
                      /\ pub[c].at # "route" => Head(pub[c].todo) \in routed
                      /\ pub[c].all \ Unrouted(c) \subseteq routed

TxApart == \A c, d \in Conn : c # d => Waiting(c) \cap Waiting(d) = {}

TxSets ==
  /\ \A m \in routed \cup rolledBack : m < next
  /\ rolledBack \cap routed = {}
  /\ committed \subseteq routed /\ stored \subseteq routed

TxInv == (\A c \in Conn : TxOne(c)) /\ TxApart /\ TxSets

LEMMA TxImplies == TxInv => TxIsolation
BY DEF TxInv, TxOne, TxSets, Waiting, TxIsolation

LEMMA TxInit == Init => TxInv
<1> SUFFICES ASSUME Init PROVE TxInv
  OBVIOUS
<1>1. DOMAIN <<>> = {}
  BY EmptySeq
<1>2. ToSet(<<>>) = {} /\ IsInjective(<<>>)
  BY <1>1 DEF ToSet, IsInjective
<1>3. \A c \in Conn : staged[c] = <<>> /\ pub[c] = Idle
  BY DEF Init
<1>4. \A c \in Conn : Waiting(c) = {} /\ Unrouted(c) = {}
  BY <1>2, <1>3 DEF Waiting, Unrouted
<1>5. QED BY <1>2, <1>3, <1>4 DEF Init, TxInv, TxOne, TxApart, TxSets

\* Steps that leave what waits alone.
LEMMA TxQuiet ==
  ASSUME TxInv, UNCHANGED <<staged, routed, rolledBack, committed, next>>, stored' \subseteq routed,
         \A c \in Conn : /\ Unrouted(c)' = Unrouted(c)
                         /\ pub'[c] = Idle \/ /\ pub[c] # Idle
                                              /\ pub'[c].todo = pub[c].todo /\ pub'[c].all = pub[c].all
                                              /\ pub'[c].at = "route" <=> pub[c].at = "route"
  PROVE  TxInv'
<1>1. \A c \in Conn : Waiting(c)' = Waiting(c)
  BY DEF Waiting
<1>2. ASSUME NEW c \in Conn PROVE TxOne(c)'
  <2>1. TxOne(c)
    BY DEF TxInv
  <2>2. QED BY <1>1, <2>1 DEF TxOne
<1>3. TxApart'
  BY <1>1 DEF TxInv, TxApart
<1>4. TxSets'
  BY DEF TxInv, TxSets
<1>5. QED BY <1>2, <1>3, <1>4 DEF TxInv

\* What waits on another connection stays, when only one connection moves.
LEMMA TxOthers ==
  ASSUME Typed, NEW c \in Conn, NEW d \in Conn, d # c,
         \E p : pub' = [pub EXCEPT ![c] = p], \E s : staged' = [staged EXCEPT ![c] = s]
  PROVE  /\ pub'[d] = pub[d] /\ staged'[d] = staged[d]
         /\ Unrouted(d)' = Unrouted(d) /\ Waiting(d)' = Waiting(d)
<1>1. pub'[d] = pub[d] /\ staged'[d] = staged[d]
  BY DEF Typed, PubTyped
<1>2. QED BY <1>1 DEF Unrouted, Waiting

\* A message published is fresh.
LEMMA TxPublish ==
  ASSUME Typed, TxInv, NEW c \in Conn, handlePublish(c)
  PROVE  TxInv'
<1>0. /\ next \in Msg /\ next' = next + 1 /\ next \in Nat /\ pub[c] = Idle
      /\ UNCHANGED <<routed, stored, rolledBack, committed>>
  BY DEF handlePublish, Ready, Typed, PubTyped, Msg
<1>1. \A d \in Conn : \A m \in Waiting(d) : m \in Msg /\ m < next
  BY DEF TxInv, TxOne
<1>2. \A m \in Msg : m < next => m < next' /\ m # next
  BY <1>0 DEF Msg
<1>3. next \notin routed /\ next \notin rolledBack /\ \A m \in routed \cup rolledBack : m < next'
  BY <1>0, <1>2 DEF TxInv, TxSets, Typed, SetsTyped
<1>4. /\ staged[c] \in Seq(Msg) /\ IsInjective(staged[c]) /\ next \notin ToSet(staged[c])
      /\ Unrouted(c) = {}
  BY <1>0, <1>1, <1>2 DEF Typed, PubTyped, TxInv, TxOne, Waiting, Unrouted
<1>5. /\ Waiting(c)' = ToSet(staged[c]) \cup {next}
      /\ IsInjective(staged'[c]) /\ ToSet(staged'[c]) \cap Unrouted(c)' = {}
      /\ pub'[c] # Idle => /\ IsInjective(pub'[c].todo) /\ pub'[c].at = "route"
                           /\ pub'[c].all \ Unrouted(c)' = {}
      /\ \E p : pub' = [pub EXCEPT ![c] = p]
      /\ \E s : staged' = [staged EXCEPT ![c] = s]
  <2>1. CASE tx[c]
    <3>1. pub' = pub /\ staged' = [staged EXCEPT ![c] = Append(staged[c], next)]
      BY <2>1 DEF handlePublish, StageTxPublish
    <3>2. staged'[c] = Append(staged[c], next) /\ pub' = [pub EXCEPT ![c] = pub[c]]
      BY <3>1 DEF Typed, PubTyped
    <3>3. /\ ToSet(Append(staged[c], next)) = ToSet(staged[c]) \cup {next}
          /\ IsInjective(Append(staged[c], next))
      <4> DEFINE s == staged[c]
                 m == next
      <4>1. s \in Seq(Msg) /\ IsInjective(s) /\ m \in Msg /\ m \notin ToSet(s)
        BY <1>0, <1>4
      <4> HIDE DEF s, m
      <4>2. ToSet(Append(s, m)) = ToSet(s) \cup {m} /\ IsInjective(Append(s, m))
        BY <4>1, AppendList
      <4>3. QED BY <4>2 DEF s, m
    <3>4. Unrouted(c)' = {}
      BY <1>0, <3>1 DEF Unrouted
    <3>5. QED BY <1>0, <3>1, <3>2, <3>3, <3>4 DEF Waiting
  <2>2. CASE ~tx[c]
    <3> DEFINE new == Publishing(IF confirm[c] THEN "confirm" ELSE "plain", <<next>>, {next})
    <3>1. pub' = [pub EXCEPT ![c] = new] /\ staged' = staged
      BY <2>2 DEF handlePublish
    <3>2. pub'[c] = new /\ staged' = [staged EXCEPT ![c] = staged[c]]
      BY <3>1 DEF Typed, PubTyped
    <3>3. new.at = "route" /\ new.todo = <<next>> /\ new.all = {next} /\ new # Idle
      BY DEF Publishing, Idle
    <3>4. DOMAIN <<next>> = {1} /\ <<next>>[1] = next
      OBVIOUS
    <3>5. ToSet(<<next>>) = {next} /\ IsInjective(<<next>>)
      BY <3>4 DEF ToSet, IsInjective
    <3> HIDE DEF new
    <3>6. Unrouted(c)' = {next}
      BY <3>2, <3>3, <3>5 DEF Unrouted
    <3>7. QED BY <1>4, <3>1, <3>2, <3>3, <3>5, <3>6 DEF Waiting
  <2>3. QED BY <2>1, <2>2
<1>6. \A d \in Conn : d # c => /\ pub'[d] = pub[d] /\ staged'[d] = staged[d]
                               /\ Unrouted(d)' = Unrouted(d) /\ Waiting(d)' = Waiting(d)
  BY <1>5, TxOthers
<1>7. ASSUME NEW d \in Conn PROVE TxOne(d)'
  <2>1. CASE d = c
    <3>1. \A m \in Waiting(c)' : m \in Msg /\ m < next' /\ m \notin routed' /\ m \notin rolledBack'
      <4>1. \A m \in ToSet(staged[c]) : m \in Msg /\ m < next' /\ m \notin routed /\ m \notin rolledBack
        BY <1>2 DEF TxInv, TxOne, Waiting
      <4>2. next < next'
        BY <1>0
      <4>3. QED BY <1>0, <1>3, <1>5, <4>1, <4>2
    <3>2. QED BY <1>5, <2>1, <3>1 DEF TxOne
  <2>2. CASE d # c
    <3>1. TxOne(d) /\ pub'[d] = pub[d] /\ staged'[d] = staged[d]
      BY <1>6, <2>2 DEF TxInv
    <3>2. \A m \in Waiting(d) : m < next'
      BY <1>1, <1>2
    <3>3. QED BY <1>0, <1>6, <2>2, <3>1, <3>2 DEF TxOne
  <2>3. QED BY <2>1, <2>2
<1>8. TxApart'
  <2>1. \A d \in Conn : next \notin Waiting(d)
    BY <1>1, <1>2
  <2>2. \A d \in Conn : d # c => Waiting(c)' \cap Waiting(d)' = {}
    BY <1>5, <1>6, <2>1 DEF TxInv, TxApart, Waiting
  <2>3. QED BY <1>6, <2>2 DEF TxInv, TxApart
<1>9. TxSets'
  BY <1>0, <1>3 DEF TxInv, TxSets
<1>10. QED BY <1>7, <1>8, <1>9 DEF TxInv

\* Commit moves the staged messages to the Publish; Rollback gives them up.
LEMMA TxEnd ==
  ASSUME Typed, TxInv, NEW c \in Conn, handleTxCommit(c) \/ handleTxRollback(c)
  PROVE  TxInv'
<1>0. /\ pub[c] = Idle /\ UNCHANGED <<next, routed, stored, committed>>
      /\ staged' = [staged EXCEPT ![c] = <<>>]
  BY DEF handleTxCommit, handleTxRollback, Ready, ClearTx, history
<1>1. Unrouted(c) = {} /\ Waiting(c) = ToSet(staged[c]) /\ TxOne(c) /\ staged'[c] = <<>>
  BY <1>0 DEF Unrouted, Waiting, TxInv, Typed, PubTyped
<1>2. DOMAIN <<>> = {}
  BY EmptySeq
<1>3. ToSet(<<>>) = {} /\ IsInjective(<<>>)
  BY <1>2 DEF ToSet, IsInjective
<1>4. /\ Waiting(c)' \subseteq Waiting(c) /\ Waiting(c)' = Unrouted(c)'
      /\ pub'[c] # Idle => /\ IsInjective(pub'[c].todo) /\ pub'[c].at = "route"
                           /\ pub'[c].all \ Unrouted(c)' = {}
      /\ \E p : pub' = [pub EXCEPT ![c] = p]
      /\ \/ rolledBack' = rolledBack
         \/ rolledBack' = rolledBack \cup Waiting(c) /\ Waiting(c)' = {}
  <2>1. CASE handleTxCommit(c)
    <3> DEFINE s == staged[c]
               new == Publishing("commit", s, ToSet(s))
    <3>1. pub' = [pub EXCEPT ![c] = new] /\ rolledBack' = rolledBack
      BY <2>1 DEF handleTxCommit, history
    <3>2. pub'[c] = new
      BY <3>1 DEF Typed, PubTyped
    <3>3. new.at = "route" /\ new.todo = s /\ new.all = ToSet(s) /\ new # Idle
      BY DEF Publishing, Idle
    <3>4. IsInjective(s) /\ Waiting(c) = ToSet(s)
      BY <1>1 DEF TxOne
    <3> HIDE DEF new, s
    <3>5. Unrouted(c)' = ToSet(s)
      BY <3>2, <3>3 DEF Unrouted
    <3>6. QED BY <1>1, <1>3, <3>1, <3>2, <3>3, <3>4, <3>5 DEF Waiting
  <2>2. CASE handleTxRollback(c)
    <3>1. pub' = pub /\ rolledBack' = rolledBack \cup Waiting(c)
      BY <1>1, <2>2 DEF handleTxRollback
    <3>2. pub' = [pub EXCEPT ![c] = pub[c]]
      BY <3>1 DEF Typed, PubTyped
    <3>3. Unrouted(c)' = {}
      BY <1>0, <3>1 DEF Unrouted
    <3>4. QED BY <1>0, <1>1, <1>3, <3>1, <3>2, <3>3 DEF Waiting
  <2>3. QED BY <2>1, <2>2
<1>5. \A d \in Conn : d # c => /\ pub'[d] = pub[d] /\ staged'[d] = staged[d]
                               /\ Unrouted(d)' = Unrouted(d) /\ Waiting(d)' = Waiting(d)
  BY <1>0, <1>4, TxOthers
<1>6. \A d \in Conn : \A m \in Waiting(d)' : m \in Waiting(d) /\ m \notin rolledBack'
  <2>1. \A d \in Conn : \A m \in Waiting(d) : m \notin rolledBack
    BY DEF TxInv, TxOne
  <2>2. \A d \in Conn : d # c => Waiting(d) \cap Waiting(c) = {}
    BY DEF TxInv, TxApart
  <2>3. QED BY <1>4, <1>5, <2>1, <2>2
<1>7. ASSUME NEW d \in Conn PROVE TxOne(d)'
  <2>0. TxOne(d)
    BY DEF TxInv
  <2>1. \A m \in Waiting(d)' : m \in Msg /\ m < next' /\ m \notin routed' /\ m \notin rolledBack'
    BY <1>0, <1>6, <2>0 DEF TxOne
  <2>2. CASE d = c
    BY <1>1, <1>3, <1>4, <2>1, <2>2 DEF TxOne
  <2>3. CASE d # c
    BY <1>0, <1>5, <2>0, <2>1, <2>3 DEF TxOne
  <2>4. QED BY <2>2, <2>3
<1>8. TxApart'
  BY <1>6 DEF TxInv, TxApart
<1>9. TxSets'
  <2>1. \A m \in Waiting(c) : m < next /\ m \notin routed
    BY <1>1 DEF TxOne
  <2>2. QED BY <1>0, <1>4, <2>1 DEF TxInv, TxSets
<1>10. QED BY <1>7, <1>8, <1>9 DEF TxInv

\* Looking up the bindings takes the first message from those that wait.
LEMMA TxRoute ==
  ASSUME Typed, TxInv, NEW c \in Conn, Route(c)
  PROVE  TxInv'
<1> DEFINE p == pub[c]
           m == Head(p.todo)
           rest == Tail(p.todo)
<1>0. /\ p \in Pub /\ p.at = "route" /\ UNCHANGED <<staged, next, stored, rolledBack, committed>>
  BY DEF Route, Typed, PubTyped
<1>1. p # Idle /\ p.todo \in Seq(Msg) /\ p.todo # <<>>
  BY <1>0, PubFields
<1>2. TxOne(c) /\ Unrouted(c) = ToSet(p.todo) /\ IsInjective(p.todo)
  BY <1>0, <1>1 DEF TxInv, TxOne, Unrouted
<1>3. ToSet(p.todo) = {m} \cup ToSet(rest) /\ m \notin ToSet(rest)
  <2> DEFINE s == p.todo
  <2>1. s \in Seq(Msg) /\ s # <<>> /\ IsInjective(s)
    BY <1>1, <1>2
  <2> HIDE DEF s
  <2>2. ToSet(s) = {Head(s)} \cup ToSet(Tail(s)) /\ Head(s) \notin ToSet(Tail(s))
    BY <2>1, TailList
  <2>3. QED BY <2>2 DEF s
<1>4. m \in Waiting(c) /\ m < next /\ m \notin routed /\ m \notin rolledBack /\ m \notin ToSet(staged[c])
  BY <1>2, <1>3 DEF TxOne, Waiting
<1>5. /\ routed \subseteq routed' /\ routed' \subseteq routed \cup {m}
      /\ Waiting(c)' \subseteq Waiting(c) /\ (m \in routed' => m \notin Waiting(c)')
      /\ ToSet(staged[c]) \cap Unrouted(c)' = {}
      /\ pub'[c] # Idle => /\ IsInjective(pub'[c].todo)
                           /\ pub'[c].at # "route" => Head(pub'[c].todo) \in routed'
                           /\ pub'[c].all \ Unrouted(c)' \subseteq routed'
      /\ \E x : pub' = [pub EXCEPT ![c] = x]
  <2>1. CASE exchange
    <3> DEFINE new == [at |-> "queue", kind |-> p.kind, todo |-> p.todo, all |-> p.all,
                       route |-> Matching(m)]
    <3>1. pub' = [pub EXCEPT ![c] = new] /\ routed' = routed \cup {m}
      BY <2>1 DEF Route
    <3>2. pub'[c] = new
      BY <3>1 DEF Typed, PubTyped
    <3>3. new.at = "queue" /\ new.todo = p.todo /\ new.all = p.all /\ new # Idle
      BY DEF Idle
    <3> HIDE DEF new
    <3>4. Unrouted(c)' = ToSet(rest)
      BY <3>2, <3>3 DEF Unrouted
    <3>5. p.all \ Unrouted(c) \subseteq routed
      BY <1>1, <1>2 DEF TxOne
    <3> HIDE DEF m, rest
    <3>6. Waiting(c)' = ToSet(staged[c]) \cup ToSet(rest)
      BY <1>0, <3>4 DEF Waiting
    <3>7. Waiting(c)' \subseteq Waiting(c) /\ m \notin Waiting(c)'
      BY <1>2, <1>3, <1>4, <3>6 DEF Waiting
    <3>8. ToSet(staged[c]) \cap Unrouted(c)' = {}
      BY <1>2, <1>3, <3>4 DEF TxOne
    <3>9. /\ IsInjective(pub'[c].todo) /\ Head(pub'[c].todo) \in routed'
          /\ pub'[c].all \ Unrouted(c)' \subseteq routed'
      <4>1. Head(pub'[c].todo) = m
        BY <3>2, <3>3 DEF m
      <4>2. QED BY <1>2, <1>3, <3>1, <3>2, <3>3, <3>4, <3>5, <4>1
    <3>10. QED BY <3>1, <3>7, <3>8, <3>9
  <2>2. CASE ~exchange
    <3>1. pub' = [pub EXCEPT ![c] = Idle] /\ routed' = routed
      BY <2>2 DEF Route
    <3>2. pub'[c] = Idle
      BY <3>1 DEF Typed, PubTyped
    <3>3. Unrouted(c)' = {}
      BY <3>2 DEF Unrouted
    <3> HIDE DEF m
    <3>4. QED BY <1>0, <1>4, <3>1, <3>2, <3>3 DEF Waiting
  <2>3. QED BY <2>1, <2>2
<1> HIDE DEF m, rest
<1>6. staged' = [staged EXCEPT ![c] = staged[c]]
  BY <1>0 DEF Typed, PubTyped
<1>7. \A d \in Conn : d # c => /\ pub'[d] = pub[d] /\ staged'[d] = staged[d]
                               /\ Unrouted(d)' = Unrouted(d) /\ Waiting(d)' = Waiting(d)
  BY <1>5, <1>6, TxOthers
<1>8. \A d \in Conn : \A x \in Waiting(d)' : x \in Waiting(d) /\ x \notin routed'
  <2>1. \A d \in Conn : \A x \in Waiting(d) : x \notin routed
    BY DEF TxInv, TxOne
  <2>2. \A d \in Conn : d # c => m \notin Waiting(d)
    BY <1>4 DEF TxInv, TxApart
  <2>3. QED BY <1>5, <1>7, <2>1, <2>2
<1>9. ASSUME NEW d \in Conn PROVE TxOne(d)'
  <2>0. TxOne(d)
    BY DEF TxInv
  <2>1. \A x \in Waiting(d)' : x \in Msg /\ x < next' /\ x \notin routed' /\ x \notin rolledBack'
    BY <1>0, <1>8, <2>0 DEF TxOne
  <2>2. CASE d = c
    BY <1>0, <1>2, <1>5, <2>1, <2>2 DEF TxOne
  <2>3. CASE d # c
    BY <1>0, <1>5, <1>7, <2>0, <2>1, <2>3 DEF TxOne
  <2>4. QED BY <2>2, <2>3
<1>10. TxApart'
  BY <1>8 DEF TxInv, TxApart
<1>11. TxSets'
  BY <1>0, <1>4, <1>5 DEF TxInv, TxSets
<1>12. QED BY <1>9, <1>10, <1>11 DEF TxInv

\* A Publish that returns answers for messages that have all been routed.
LEMMA TxPublished ==
  ASSUME Typed, TxInv, NEW c \in Conn, Published(c)
  PROVE  TxInv'
<1> DEFINE p == pub[c]
           rest == Tail(p.todo)
<1>0. p \in Pub /\ p.at = "queue" /\ UNCHANGED <<staged, next, routed, stored, rolledBack>>
  BY DEF Published, Typed, PubTyped
<1>1. p # Idle /\ p.todo \in Seq(Msg) /\ p.todo # <<>>
  BY <1>0, PubFields
<1>2. TxOne(c) /\ Unrouted(c) = ToSet(rest) /\ IsInjective(p.todo)
  BY <1>0, <1>1 DEF TxInv, TxOne, Unrouted
<1>3. IsInjective(rest)
  <2> DEFINE s == p.todo
  <2>1. s \in Seq(Msg) /\ s # <<>> /\ IsInjective(s)
    BY <1>1, <1>2
  <2> HIDE DEF s
  <2>2. IsInjective(Tail(s))
    BY <2>1, TailList
  <2>3. QED BY <2>2 DEF s
<1>4. DOMAIN <<>> = {}
  BY EmptySeq
<1>5. rest = <<>> => Unrouted(c) = {}
  <2> HIDE DEF rest
  <2>1. QED BY <1>2, <1>4 DEF ToSet
<1>6. p.all \ Unrouted(c) \subseteq routed
  BY <1>1, <1>2 DEF TxOne
<1> DEFINE new == IF rest = <<>> THEN Idle ELSE Publishing(p.kind, rest, p.all)
<1>7. pub' = [pub EXCEPT ![c] = new] /\ staged' = [staged EXCEPT ![c] = staged[c]]
  BY <1>0 DEF Published, Typed, PubTyped
<1>8. pub'[c] = new
  BY <1>7 DEF Typed, PubTyped
<1>9. new # Idle => rest # <<>> /\ new.at = "route" /\ new.todo = rest /\ new.all = p.all
  BY DEF Publishing
<1>10. rest # <<>> => new # Idle
  BY DEF Publishing, Idle
<1>11. committed' \subseteq routed
  BY <1>5, <1>6 DEF Published, TxInv, TxSets
<1> HIDE DEF new, rest
<1>12. Unrouted(c)' = Unrouted(c)
  BY <1>2, <1>5, <1>8, <1>9, <1>10 DEF Unrouted
<1>13. \A d \in Conn : d # c => /\ pub'[d] = pub[d] /\ staged'[d] = staged[d]
                                /\ Unrouted(d)' = Unrouted(d) /\ Waiting(d)' = Waiting(d)
  BY <1>7, TxOthers
<1>14. \A d \in Conn : Waiting(d)' = Waiting(d)
  BY <1>0, <1>12, <1>13 DEF Waiting
<1>15. ASSUME NEW d \in Conn PROVE TxOne(d)'
  <2>0. TxOne(d)
    BY DEF TxInv
  <2>1. CASE d = c
    BY <1>0, <1>3, <1>6, <1>8, <1>9, <1>12, <1>14, <2>0, <2>1 DEF TxOne
  <2>2. CASE d # c
    BY <1>0, <1>13, <1>14, <2>0, <2>2 DEF TxOne
  <2>3. QED BY <2>1, <2>2
<1>16. TxApart'
  BY <1>14 DEF TxInv, TxApart
<1>17. TxSets'
  BY <1>0, <1>11 DEF TxInv, TxSets
<1>18. QED BY <1>15, <1>16, <1>17 DEF TxInv

\* Between the lookup of its bindings and its answer a Publish stays with its message,
\* and its route only shrinks.
StaysWith(x, p) ==
  /\ x.todo = p.todo /\ x.all = p.all /\ x.kind = p.kind /\ x.at \in {"queue", "deliver"}
  /\ x.route \subseteq p.route

LEMMA BetweenPub ==
  ASSUME Typed, NEW c \in Conn,
         EnterQueue(c) \/ DeliverGroup(c) \/ DeliverAlone(c) \/ Delivered(c)
  PROVE  /\ pub[c] \in QueuePub \cup DeliverPub /\ pub[c] # Idle
         /\ \E x : pub' = [pub EXCEPT ![c] = x] /\ StaysWith(x, pub[c])
<1> DEFINE p == pub[c]
<1>0. p \in Pub /\ p.at \in {"queue", "deliver"}
  BY DEF EnterQueue, DeliverGroup, DeliverAlone, Delivered, Typed, PubTyped
<1>1. p # Idle /\ p \in QueuePub \cup DeliverPub
  BY <1>0, PubFields DEF Idle
<1>2. ASSUME EnterQueue(c) PROVE \E x : pub' = [pub EXCEPT ![c] = x] /\ StaysWith(x, p)
  <2> DEFINE list(q) == {byTag[t] : t \in ToSet(byQueue[q])}
             at(q) == [at |-> "deliver", kind |-> p.kind, todo |-> p.todo, all |-> p.all,
                       route |-> p.route \ {q}, gids |-> {o.group : o \in list(q)} \ {None},
                       alone |-> {o \in list(q) : o.group = None}]
             past(q) == [p EXCEPT !.route = p.route \ {q}]
  <2>1. PICK q \in p.route : pub' = [pub EXCEPT ![c] = at(q)] \/ pub' = [pub EXCEPT ![c] = past(q)]
    BY <1>2 DEF EnterQueue, Typed, PubTyped
  <2>2. StaysWith(at(q), p)
    BY DEF StaysWith
  <2>3. StaysWith(past(q), p)
    BY <1>0, <1>1 DEF QueuePub, DeliverPub, StaysWith
  <2> HIDE DEF at, past
  <2>4. QED BY <2>1, <2>2, <2>3
<1>3. ASSUME DeliverGroup(c) \/ DeliverAlone(c)
      PROVE \E x : pub' = [pub EXCEPT ![c] = x] /\ StaysWith(x, p)
  <2> DEFINE newG(x) == [p EXCEPT !.gids = p.gids \ {x}]
             newA(x) == [p EXCEPT !.alone = p.alone \ {x}]
  <2>1. \E x : pub' = [pub EXCEPT ![c] = newG(x)] \/ pub' = [pub EXCEPT ![c] = newA(x)]
    BY <1>3 DEF DeliverGroup, DeliverAlone, Typed, PubTyped
  <2>2. \A x : StaysWith(newG(x), p) /\ StaysWith(newA(x), p)
    BY <1>0, <1>1 DEF QueuePub, DeliverPub, StaysWith
  <2> HIDE DEF newG, newA
  <2>3. QED BY <2>1, <2>2
<1>4. ASSUME Delivered(c) PROVE \E x : pub' = [pub EXCEPT ![c] = x] /\ StaysWith(x, p)
  <2> DEFINE new == [at |-> "queue", kind |-> p.kind, todo |-> p.todo, all |-> p.all,
                     route |-> p.route]
  <2>1. pub' = [pub EXCEPT ![c] = new]
    BY <1>4 DEF Delivered
  <2>2. StaysWith(new, p)
    BY DEF StaysWith
  <2> HIDE DEF new
  <2>3. QED BY <2>1, <2>2
<1>5. QED BY <1>1, <1>2, <1>3, <1>4

\* The steps between: what waits stays, and what enters a queue has been routed.
LEMMA TxBetween ==
  ASSUME Typed, TxInv, NEW c \in Conn,
         EnterQueue(c) \/ DeliverGroup(c) \/ DeliverAlone(c) \/ Delivered(c)
  PROVE  TxInv'
<1> DEFINE p == pub[c]
<1>0. /\ p \in Pub /\ p.at \in {"queue", "deliver"}
      /\ UNCHANGED <<staged, next, routed, rolledBack, committed>>
  BY DEF EnterQueue, DeliverGroup, DeliverAlone, Delivered, Typed, PubTyped, history
<1>1. p # Idle /\ p \in QueuePub \cup DeliverPub
  BY BetweenPub
<1>2. Head(p.todo) \in routed
  BY <1>0, <1>1 DEF TxInv, TxOne
<1>3. stored' \subseteq routed
  BY <1>2 DEF TxInv, TxSets, EnterQueue, DeliverGroup, DeliverAlone, Delivered, history
<1>5. PICK x : pub' = [pub EXCEPT ![c] = x] /\ StaysWith(x, p)
  BY BetweenPub
<1>6. pub'[c] = x /\ \A d \in Conn : d # c => pub'[d] = pub[d]
  BY <1>5 DEF Typed, PubTyped
<1>7. x # Idle
  BY <1>5 DEF Idle, StaysWith
<1>8. \A d \in Conn : Unrouted(d)' = Unrouted(d)
  <2>1. Unrouted(c)' = Unrouted(c)
    BY <1>0, <1>1, <1>5, <1>6, <1>7 DEF Unrouted, StaysWith
  <2>2. \A d \in Conn : d # c => Unrouted(d)' = Unrouted(d)
    BY <1>6 DEF Unrouted
  <2>3. QED BY <2>1, <2>2
<1>9. \A d \in Conn : pub'[d] = Idle \/ /\ pub[d] # Idle
                                        /\ pub'[d].todo = pub[d].todo /\ pub'[d].all = pub[d].all
                                        /\ pub'[d].at = "route" <=> pub[d].at = "route"
  BY <1>0, <1>1, <1>5, <1>6 DEF StaysWith
<1>10. QED BY <1>0, <1>3, <1>8, <1>9, TxQuiet

\* Nothing else touches what waits.
LEMMA TxElse ==
  ASSUME TxInv, UNCHANGED <<staged, pub, next, routed, stored, rolledBack, committed>>
  PROVE  TxInv'
<1>1. \A c \in Conn : Unrouted(c)' = Unrouted(c) /\ pub'[c] = pub[c]
  BY DEF Unrouted
<1>2. stored' \subseteq routed
  BY DEF TxInv, TxSets
<1>3. QED BY <1>1, <1>2, TxQuiet

LEMMA TxInvStep ==
  ASSUME Typed, TxInv, [Next]_vars
  PROVE  TxInv'
<1>1. ASSUME UNCHANGED <<staged, pub, next, history>> PROVE TxInv'
  BY <1>1, TxElse DEF history
<1>2. ASSUME NEW c \in Conn,
             \/ handleConfirmSelect(c) \/ handleTxSelect(c) \/ handleChannelClose(c)
             \/ handleChannelOpen(c) \/ (\E t \in Tag : handleCancel(c, t))
             \/ (\E q \in Queue : handleQueueDelete(c, q)) \/ handleExchangeDelete(c)
      PROVE  TxInv'
  BY <1>1, <1>2 DEF handleConfirmSelect, handleTxSelect, handleChannelClose, handleChannelOpen,
       handleCancel, handleQueueDelete, handleExchangeDelete
<1>3. ASSUME \/ \E t \in Tag : \E o \in Offer[t] : handleConsume(t, o)
             \/ \E n \in DOMAIN batches : Flush(n)
             \/ UNCHANGED vars
      PROVE  TxInv'
  BY <1>1, <1>3 DEF handleConsume, Flush, vars
<1>4. QED BY <1>2, <1>3, TxPublish, TxEnd, TxRoute, TxPublished, TxBetween DEF Next

\* A message staged or rolled back is never routed, whatever other connections do meanwhile,
\* and Commit-Ok is sent when every message of the transaction has been.
THEOREM TxTheorem == Spec => []TxIsolation
<1>1. TxInv /\ Typed /\ [Next]_vars => TxInv'
  BY TxInvStep
<1>2. QED BY <1>1, TxInit, TxImplies, TypedAlways, PTL DEF Spec

----------------------------------------------------------------------------
(* Publisher confirms                                                      *)

\* The channel of c, its confirm mode and the one answer it may owe.
ConfOne(c) ==
  /\ pub[c] # Idle => alive[c]
  /\ pub[c] # Idle /\ pub[c].at # "route" => pub[c].route \subseteq Matching(Head(pub[c].todo))
  /\ ~tx[c] =>
       /\ tagNo[c] = Len(asked[c])
       /\ IF pub[c] # Idle /\ pub[c].kind = "confirm"
          THEN /\ Len(asked[c]) = Len(answered[c]) + 1
               /\ pub[c].todo = <<asked[c][Len(asked[c])]>>
          ELSE /\ Len(answered[c]) <= Len(asked[c])
               /\ alive[c] => Len(answered[c]) = Len(asked[c])
       /\ \A i \in 1 .. Len(answered[c]) :
            /\ answered[c][i].tag = i /\ answered[c][i].m = asked[c][i]
            /\ answered[c][i].ack <=> Matching(asked[c][i]) # {}

\* With it: what is in a queue had a binding.
ConfInv ==
  /\ \A c \in Conn : ConfOne(c)
  /\ \A m \in stored : Matching(m) # {}

LEMMA ConfImplies == Typed /\ ConfInv => ConfirmsInOrder
<1> SUFFICES ASSUME Typed, ConfInv, NEW c \in Conn, ~tx[c]
             PROVE  /\ Len(answered[c]) <= Len(asked[c])
                    /\ Ready(c) => Len(answered[c]) = Len(asked[c])
                    /\ \A i \in 1 .. Len(answered[c]) :
                         /\ answered[c][i].tag = i /\ answered[c][i].m = asked[c][i]
                         /\ ~answered[c][i].ack => asked[c][i] \notin stored
  BY DEF ConfirmsInOrder
<1>1. ConfOne(c) /\ asked[c] \in Seq(Msg) /\ answered[c] \in Seq(Answer)
  BY DEF ConfInv, Typed, PubTyped
<1>2. Len(asked[c]) \in Nat /\ Len(answered[c]) \in Nat
  BY <1>1, LenProperties
<1>3. Len(answered[c]) <= Len(asked[c]) /\ (Ready(c) => Len(answered[c]) = Len(asked[c]))
  BY <1>1, <1>2 DEF ConfOne, Ready
<1>4. QED BY <1>1, <1>3 DEF ConfOne, ConfInv

LEMMA ConfInit == Init => ConfInv
<1> SUFFICES ASSUME Init PROVE ConfInv
  OBVIOUS
<1>1. Len(<<>>) = 0
  OBVIOUS
<1>2. ASSUME NEW c \in Conn PROVE ConfOne(c)
  <2>1. pub[c] = Idle /\ alive[c] /\ tagNo[c] = 0 /\ asked[c] = <<>> /\ answered[c] = <<>>
    BY DEF Init
  <2>2. QED BY <1>1, <2>1 DEF ConfOne
<1>3. QED BY <1>2 DEF Init, ConfInv

\* A channel nobody touches.
LEMMA ConfSame ==
  ASSUME NEW c \in Conn, ConfOne(c),
         pub'[c] = pub[c], alive'[c] = alive[c], tx'[c] = tx[c] \/ tx'[c], tagNo'[c] = tagNo[c],
         asked'[c] = asked[c], answered'[c] = answered[c]
  PROVE  ConfOne(c)'
BY DEF ConfOne, Matching

\* A message is asked about under the next tag.
LEMMA ConfPublish ==
  ASSUME Typed, ConfInv, NEW c \in Conn, handlePublish(c)
  PROVE  ConfInv'
<1>0. /\ Ready(c) /\ UNCHANGED <<alive, tx, answered, stored>> /\ next \in Msg
  BY DEF handlePublish, modes, Typed, PubTyped, Msg
<1>1. ASSUME NEW d \in Conn, d # c PROVE ConfOne(d)'
  <2>1. /\ pub'[d] = pub[d] /\ tagNo'[d] = tagNo[d] /\ asked'[d] = asked[d]
    BY <1>1 DEF handlePublish, NextDeliveryTag, Typed, PubTyped
  <2>2. QED BY <1>0, <2>1, ConfSame DEF ConfInv
<1>2. ConfOne(c) /\ alive[c] /\ pub[c] = Idle
  BY <1>0 DEF ConfInv, Ready
<1>3. CASE tx[c]
  <2>1. pub' = pub
    BY <1>3 DEF handlePublish
  <2>2. ConfOne(c)'
    BY <1>0, <1>2, <1>3, <2>1 DEF ConfOne
  <2>3. QED BY <1>0, <1>1, <2>2 DEF ConfInv, Matching
<1>4. CASE ~tx[c]
  <2> DEFINE k == IF confirm[c] THEN "confirm" ELSE "plain"
             new == Publishing(k, <<next>>, {next})
             n == Len(asked[c])
  <2>1. pub'[c] = new
    BY <1>4 DEF handlePublish, Typed, PubTyped
  <2>2. new # Idle /\ new.at = "route" /\ new.kind = k /\ new.todo = <<next>>
    BY DEF Publishing, Idle
  <2>3. n \in Nat /\ tagNo[c] = n /\ Len(answered[c]) = n
    BY <1>2, <1>4, LenProperties DEF ConfOne, Typed, PubTyped
  <2> HIDE DEF new, n
  <2>4. CASE confirm[c]
    <3>1. asked'[c] = Append(asked[c], next) /\ tagNo'[c] = tagNo[c] + 1
      BY <1>4, <2>4 DEF handlePublish, NextDeliveryTag, Typed, PubTyped
    <3>2. /\ Len(asked'[c]) = n + 1 /\ asked'[c][n + 1] = next
          /\ \A i \in 1 .. n : asked'[c][i] = asked[c][i]
      <4> DEFINE s == asked[c]
                 m == next
      <4>1. s \in Seq(Msg) /\ m \in Msg /\ n = Len(s)
        BY <1>0 DEF Typed, PubTyped, n
      <4> HIDE DEF s, m
      <4>2. /\ Len(Append(s, m)) = Len(s) + 1 /\ Append(s, m)[Len(s) + 1] = m
            /\ \A i \in 1 .. Len(s) : Append(s, m)[i] = s[i]
        BY <4>1, AppendProperties
      <4>3. QED BY <3>1, <4>1, <4>2 DEF s, m
    <3>3. \A i \in 1 .. Len(answered'[c]) :
            /\ answered'[c][i].tag = i /\ answered'[c][i].m = asked'[c][i]
            /\ answered'[c][i].ack <=> Matching(asked'[c][i]) # {}
      BY <1>0, <1>2, <1>4, <2>3, <3>2 DEF ConfOne
    <3>4. /\ Len(asked'[c]) = Len(answered'[c]) + 1 /\ tagNo'[c] = Len(asked'[c])
          /\ pub'[c].todo = <<asked'[c][Len(asked'[c])]>> /\ pub'[c].kind = "confirm"
      BY <1>0, <2>1, <2>2, <2>3, <2>4, <3>1, <3>2
    <3>5. ConfOne(c)'
      BY <1>0, <1>2, <2>1, <2>2, <3>3, <3>4 DEF ConfOne, Matching
    <3>6. QED BY <1>0, <1>1, <3>5 DEF ConfInv, Matching
  <2>5. CASE ~confirm[c]
    <3>1. asked' = asked /\ tagNo' = tagNo /\ pub'[c].kind = "plain" /\ pub'[c] # Idle
          /\ pub'[c].at = "route"
      BY <1>4, <2>1, <2>2, <2>5 DEF handlePublish
    <3>2. ConfOne(c)'
      BY <1>0, <1>2, <1>4, <3>1 DEF ConfOne, Matching
    <3>3. QED BY <1>0, <1>1, <3>2 DEF ConfInv, Matching
  <2>6. QED BY <2>4, <2>5
<1>5. QED BY <1>3, <1>4

\* The lookup keeps the message, or ends the connection with the answer unsent.
LEMMA ConfRoute ==
  ASSUME Typed, ConfInv, NEW c \in Conn, Route(c)
  PROVE  ConfInv'
<1> DEFINE p == pub[c]
<1>0. /\ p \in Pub /\ p.at = "route" /\ UNCHANGED <<tx, tagNo, asked, answered, stored>>
  BY DEF Route, Typed, PubTyped, modes
<1>1. ASSUME NEW d \in Conn, d # c PROVE ConfOne(d)'
  <2>1. pub'[d] = pub[d] /\ alive'[d] = alive[d]
    BY <1>1 DEF Route, Typed, PubTyped, ModesTyped
  <2>2. QED BY <1>0, <2>1, ConfSame DEF ConfInv
<1>2. p # Idle /\ ConfOne(c) /\ alive[c]
  <2>1. p # Idle
    BY <1>0, PubFields
  <2>2. QED BY <2>1 DEF ConfInv, ConfOne
<1>3. CASE exchange
  <2> DEFINE r == Matching(Head(p.todo))
             new == [at |-> "queue", kind |-> p.kind, todo |-> p.todo, all |-> p.all, route |-> r]
  <2>1. pub'[c] = new /\ alive' = alive
    BY <1>3 DEF Route, Typed, PubTyped
  <2>2. new # Idle /\ new.at = "queue" /\ new.kind = p.kind /\ new.todo = p.todo /\ new.route = r
    BY DEF Idle
  <2> HIDE DEF new
  <2>3. ConfOne(c)'
    BY <1>0, <1>2, <2>1, <2>2 DEF ConfOne, Matching
  <2>4. QED BY <1>0, <1>1, <2>3 DEF ConfInv, Matching
<1>4. CASE ~exchange
  <2>1. pub'[c] = Idle /\ alive'[c] = FALSE
    BY <1>4 DEF Route, Typed, PubTyped, ModesTyped
  <2>2. Len(answered[c]) \in Nat /\ Len(asked[c]) \in Nat
    BY LenProperties DEF Typed, PubTyped
  <2>3. ConfOne(c)'
    BY <1>0, <1>2, <2>1, <2>2 DEF ConfOne, Matching
  <2>4. QED BY <1>0, <1>1, <2>3 DEF ConfInv, Matching
<1>5. QED BY <1>3, <1>4

\* A message enters queues of its bindings.
LEMMA ConfBetween ==
  ASSUME Typed, ConfInv, NEW c \in Conn,
         EnterQueue(c) \/ DeliverGroup(c) \/ DeliverAlone(c) \/ Delivered(c)
  PROVE  ConfInv'
<1> DEFINE p == pub[c]
<1>0. UNCHANGED <<alive, tx, tagNo, asked, answered>> /\ p.at \in {"queue", "deliver"}
  BY DEF EnterQueue, DeliverGroup, DeliverAlone, Delivered, modes, history
<1>1. PICK x : pub' = [pub EXCEPT ![c] = x] /\ StaysWith(x, p)
  BY BetweenPub
<1>2. pub'[c] = x /\ \A d \in Conn : d # c => pub'[d] = pub[d]
  BY <1>1 DEF Typed, PubTyped
<1>3. ASSUME NEW d \in Conn, d # c PROVE ConfOne(d)'
  BY <1>0, <1>2, <1>3, ConfSame DEF ConfInv
<1>4. p # Idle /\ ConfOne(c) /\ x # Idle
  BY <1>1, BetweenPub DEF ConfInv, StaysWith, Idle
<1>5. p.route \subseteq Matching(Head(p.todo))
  BY <1>0, <1>4 DEF ConfOne
<1>6. ConfOne(c)'
  BY <1>0, <1>1, <1>2, <1>4, <1>5 DEF ConfOne, Matching, StaysWith
<1>7. \A m \in stored' : Matching(m) # {}
  <2>1. stored' = stored \/ (stored' = stored \cup {Head(p.todo)} /\ p.route # {})
    BY DEF EnterQueue, DeliverGroup, DeliverAlone, Delivered, history
  <2>2. QED BY <1>5, <2>1 DEF ConfInv
<1>8. QED BY <1>3, <1>6, <1>7 DEF ConfInv, Matching

\* The answer is the next one due.
LEMMA ConfPublished ==
  ASSUME Typed, ConfInv, NEW c \in Conn, Published(c)
  PROVE  ConfInv'
<1> DEFINE p == pub[c]
           m == Head(p.todo)
           rest == Tail(p.todo)
<1>0. /\ p \in Pub /\ p.at = "queue" /\ UNCHANGED <<alive, tx, tagNo, asked, stored>>
  BY DEF Published, Typed, PubTyped, modes
<1>1. ASSUME NEW d \in Conn, d # c PROVE ConfOne(d)'
  <2>1. pub'[d] = pub[d] /\ answered'[d] = answered[d]
    BY <1>1 DEF Published, Confirmed, Typed, PubTyped
  <2>2. QED BY <1>0, <2>1, ConfSame DEF ConfInv
<1>2. p # Idle /\ ConfOne(c) /\ alive[c]
  <2>1. p # Idle
    BY <1>0, PubFields
  <2>2. QED BY <2>1 DEF ConfInv, ConfOne
<1>3. pub'[c] = IF rest = <<>> THEN Idle ELSE Publishing(p.kind, rest, p.all)
  BY DEF Published, Typed, PubTyped
<1>4. pub'[c] = Idle \/ (pub'[c].kind = p.kind /\ pub'[c].at = "route")
  <2> DEFINE new == Publishing(p.kind, rest, p.all)
  <2>1. new.kind = p.kind /\ new.at = "route"
    BY DEF Publishing
  <2>2. pub'[c] = Idle \/ pub'[c] = new
    BY <1>3
  <2> HIDE DEF new
  <2>3. QED BY <2>1, <2>2
<1>5. CASE tx[c]
  <2>1. ConfOne(c)'
    BY <1>0, <1>2, <1>4, <1>5 DEF ConfOne, Matching
  <2>2. QED BY <1>0, <1>1, <2>1 DEF ConfInv, Matching
<1>6. CASE ~tx[c] /\ p.kind # "confirm"
  <2>1. answered' = answered
    BY <1>6 DEF Published
  <2>2. ConfOne(c)'
    BY <1>0, <1>2, <1>4, <1>6, <2>1 DEF ConfOne, Matching
  <2>3. QED BY <1>0, <1>1, <2>2 DEF ConfInv, Matching
<1>7. CASE ~tx[c] /\ p.kind = "confirm"
  <2> DEFINE s == answered[c]
             k == Matching(m) # {}
             a == [m |-> m, tag |-> tagNo[c], ack |-> k]
             n == Len(asked[c])
             e == asked[c][n]
  <2>1. Len(s) + 1 = n /\ tagNo[c] = n /\ p.todo = <<e>>
    BY <1>2, <1>7 DEF ConfOne
  <2>2. m = e /\ rest = <<>>
    <3> HIDE DEF e
    <3>1. Head(<<e>>) = e /\ Tail(<<e>>) = <<>>
      OBVIOUS
    <3>2. QED BY <2>1, <3>1
  <2>3. answered'[c] = Append(s, a) /\ pub'[c] = Idle
    BY <1>3, <1>7, <2>2 DEF Published, Confirmed, Typed, PubTyped
  <2>4. a.m = e /\ a.tag = n /\ (a.ack <=> Matching(e) # {}) /\ s \in Seq(Answer) /\ a \in Answer
    <3>1. e \in Msg
      <4>1. asked[c] \in Seq(Msg) /\ n \in 1 .. n
        <5>1. asked[c] \in Seq(Msg) /\ s \in Seq(Answer)
          BY DEF Typed, PubTyped
        <5>2. Len(s) \in Nat
          BY <5>1, LenProperties
        <5> HIDE DEF s, n
        <5>3. QED BY <2>1, <5>1, <5>2
      <4>2. QED BY <4>1, ElementOfSeq
    <3>2. k \in BOOLEAN /\ tagNo[c] \in Nat /\ s \in Seq(Answer)
      BY DEF Typed, PubTyped
    <3>3. k <=> Matching(e) # {}
      BY <2>2
    <3> HIDE DEF k, m, e, n, s
    <3>4. QED BY <2>1, <2>2, <3>1, <3>2, <3>3 DEF Answer
  <2> HIDE DEF a, s, e, n, k
  <2>5. /\ Len(Append(s, a)) = Len(s) + 1 /\ Append(s, a)[Len(s) + 1] = a
        /\ \A i \in 1 .. Len(s) : Append(s, a)[i] = s[i]
    BY <2>4, AppendProperties
  <2>6. Len(s) \in Nat
    BY <2>4, LenProperties
  <2>7. \A i \in 1 .. Len(s) : /\ s[i].tag = i /\ s[i].m = asked[c][i]
                               /\ s[i].ack <=> Matching(asked[c][i]) # {}
    BY <1>2, <1>7 DEF ConfOne, s
  <2>8. ASSUME NEW i \in 1 .. Len(answered'[c])
        PROVE  /\ answered'[c][i].tag = i /\ answered'[c][i].m = asked[c][i]
               /\ answered'[c][i].ack <=> Matching(asked[c][i]) # {}
    <3>1. i \in 1 .. Len(s) \/ i = n
      BY <2>1, <2>3, <2>5, <2>6
    <3>2. CASE i \in 1 .. Len(s)
      <4>1. answered'[c][i] = s[i]
        BY <2>3, <2>5, <3>2
      <4>2. QED BY <2>7, <3>2, <4>1
    <3>3. CASE i = n
      <4>1. answered'[c][i] = a /\ asked[c][i] = e
        BY <2>1, <2>3, <2>5, <3>3 DEF e
      <4>2. QED BY <2>4, <3>3, <4>1
    <3>4. QED BY <3>1, <3>2, <3>3
  <2>9. Len(answered'[c]) = Len(asked[c]) /\ tagNo[c] = Len(asked[c]) /\ Len(asked[c]) \in Nat
    BY <2>1, <2>3, <2>5, <2>6 DEF n
  <2>10. ConfOne(c)'
    BY <1>0, <2>3, <2>8, <2>9 DEF ConfOne, Matching
  <2>11. QED BY <1>0, <1>1, <2>10 DEF ConfInv, Matching
<1>8. QED BY <1>5, <1>6, <1>7

\* Steps that ask and answer nothing.
LEMMA ConfElse ==
  ASSUME ConfInv, UNCHANGED <<stored, tagNo, asked, answered>>,
         \A c \in Conn : /\ tx'[c] = tx[c] \/ tx'[c]
                         /\ \/ pub'[c] = pub[c] /\ alive'[c] = alive[c]
                            \/ pub[c] = Idle /\ pub'[c] = Idle /\ ~alive'[c]
                            \/ /\ pub[c] = Idle /\ alive[c] /\ alive'[c]
                               /\ pub'[c].kind # "confirm" /\ pub'[c].at = "route"
  PROVE  ConfInv'
<1>1. ASSUME NEW c \in Conn PROVE ConfOne(c)'
  BY DEF ConfInv, ConfOne, Matching
<1>2. QED BY <1>1 DEF ConfInv, Matching

LEMMA ConfStep ==
  ASSUME Typed, ConfInv, [Next]_vars
  PROVE  ConfInv'
<1>1. ASSUME UNCHANGED <<alive, tx, tagNo, pub, history>> PROVE ConfInv'
  BY <1>1, ConfElse DEF history
<1>2. ASSUME NEW c \in Conn,
             \/ handleConfirmSelect(c) \/ handleChannelClose(c) \/ handleChannelOpen(c)
             \/ (\E t \in Tag : handleCancel(c, t))
             \/ (\E q \in Queue : handleQueueDelete(c, q)) \/ handleExchangeDelete(c)
      PROVE  ConfInv'
  BY <1>1, <1>2 DEF handleConfirmSelect, handleChannelClose, handleChannelOpen,
       handleCancel, handleQueueDelete, handleExchangeDelete, modes
<1>3. ASSUME NEW c \in Conn, handleTxSelect(c) PROVE ConfInv'
  <2>1. UNCHANGED <<alive, tagNo, pub, history>>
    BY <1>3 DEF handleTxSelect
  <2>2. \A d \in Conn : tx'[d] = tx[d] \/ tx'[d]
    BY <1>3 DEF handleTxSelect, SetTxMode, Typed, ModesTyped
  <2>3. QED BY <2>1, <2>2, ConfElse DEF history
<1>4. ASSUME NEW c \in Conn, handleTxCommit(c) PROVE ConfInv'
  <2>1. UNCHANGED <<alive, tx, tagNo, history>> /\ pub[c] = Idle /\ alive[c]
    BY <1>4 DEF handleTxCommit, Ready, modes
  <2> DEFINE new == Publishing("commit", staged[c], ToSet(staged[c]))
  <2>2. pub'[c] = new /\ \A d \in Conn : d # c => pub'[d] = pub[d]
    BY <1>4 DEF handleTxCommit, Typed, PubTyped
  <2>3. new.kind = "commit" /\ new.at = "route"
    BY DEF Publishing
  <2> HIDE DEF new
  <2>4. QED BY <2>1, <2>2, <2>3, ConfElse DEF history
<1>5. ASSUME NEW c \in Conn, handleTxRollback(c) PROVE ConfInv'
  BY <1>5, ConfElse DEF handleTxRollback, modes
<1>6. ASSUME NEW t \in Tag, NEW o \in Offer[t], handleConsume(t, o) PROVE ConfInv'
  <2>1. UNCHANGED <<tx, tagNo, pub, history>> /\ pub[o.ch] = Idle
    BY <1>6 DEF handleConsume, Ready, modes
  <2>2. \A d \in Conn : alive'[d] = alive[d] \/ (d = o.ch /\ ~alive'[d])
    BY <1>6 DEF handleConsume, Typed, ModesTyped
  <2>3. QED BY <2>1, <2>2, ConfElse DEF history
<1>7. ASSUME (\E n \in DOMAIN batches : Flush(n)) \/ UNCHANGED vars PROVE ConfInv'
  BY <1>1, <1>7 DEF Flush, vars, modes
<1>8. QED BY <1>2, <1>3, <1>4, <1>5, <1>6, <1>7, ConfPublish, ConfRoute, ConfBetween, ConfPublished
     DEF Next

\* On a channel in confirm mode and not in transaction mode the confirms come in the order
\* of the publishes, each under its own tag, for any number of connections.
THEOREM ConfirmTheorem == Spec => []ConfirmsInOrder
<1>1. ConfInv /\ Typed /\ [Next]_vars => ConfInv'
  BY ConfStep
<1>2. QED BY <1>1, ConfInit, ConfImplies, TypedAlways, PTL DEF Spec
=============================================================================
