---------------------------- MODULE BrokerProofs ----------------------------
(***************************************************************************)
(* Theorems about Broker for any finite set of connections, any queues and *)
(* any queue arguments: its types, the overshoot of x-max-length, the      *)
(* order of priority queues and, where messages are only pulled, the       *)
(* conservation of messages.                                               *)
(***************************************************************************)
EXTENDS Broker, Basics, FiniteSetTheorems, SequenceTheorems, TLAPS

----------------------------------------------------------------------------
(* The store                                                               *)

\* Where insertByPriority puts a message.
Lower(s, m) == {i \in DOMAIN s : s[i].pri < m.pri}

\* insertByPriority appends, or inserts before the first lower message.
LEMMA InsertCases ==
  ASSUME NEW s \in Seq(Msg), NEW m \in Msg
  PROVE  \/ Lower(s, m) = {} /\ insertByPriority(s, m) = Append(s, m)
         \/ \E f \in Lower(s, m) :
              /\ \A j \in Lower(s, m) : f <= j
              /\ insertByPriority(s, m) = SubSeq(s, 1, f - 1) \o <<m>> \o SubSeq(s, f, Len(s))
<1> DEFINE L == Lower(s, m)
<1> DEFINE first == CHOOSE i \in L : \A j \in L : i <= j
<1>0. L \subseteq Nat
  BY DEF Lower
<1>1. CASE L = {}
  BY <1>1 DEF insertByPriority, Lower
<1>2. CASE L # {}
  <2>1. \E i \in L : \A j \in L : i <= j
    BY <1>0, <1>2, LeastNat
  <2>2. first \in L /\ \A j \in L : first <= j
    BY <2>1
  <2>3. insertByPriority(s, m) = SubSeq(s, 1, first - 1) \o <<m>> \o SubSeq(s, first, Len(s))
    BY <1>2 DEF insertByPriority, Lower
  <2>4. QED BY <2>2, <2>3
<1>3. QED BY <1>1, <1>2

\* insertByPriority makes the queue one message longer and moves nothing else:
\* there is a place p such that the messages before p stay, m is at p, and the
\* others move up by one.
LEMMA InsertProperties ==
  ASSUME NEW s \in Seq(Msg), NEW m \in Msg
  PROVE  LET t == insertByPriority(s, m)
         IN  /\ t \in Seq(Msg)
             /\ Len(t) = Len(s) + 1
             /\ \E p \in 1..(Len(s) + 1) :
                  /\ t[p] = m
                  /\ \A i \in 1..(p - 1) : t[i] = s[i] /\ s[i].pri >= m.pri
                  /\ \A i \in (p + 1)..(Len(s) + 1) : t[i] = s[i - 1]
                  /\ p <= Len(s) => s[p].pri < m.pri
<1> DEFINE t == insertByPriority(s, m)
<1>0. Len(s) \in Nat /\ DOMAIN s = 1..Len(s) /\ \A i \in 1..Len(s) : s[i] \in Msg
  BY LenProperties, ElementOfSeq
<1>00. m.pri \in Nat /\ \A i \in 1..Len(s) : s[i].pri \in Nat
  BY <1>0 DEF Msg
<1>1. CASE Lower(s, m) = {} /\ t = Append(s, m)
  <2>1. t \in Seq(Msg) /\ Len(t) = Len(s) + 1 /\ t[Len(s) + 1] = m
        /\ \A i \in 1..Len(s) : t[i] = s[i]
    BY <1>0, <1>1, AppendProperties
  <2>2. \A i \in 1..Len(s) : s[i].pri >= m.pri
    BY <1>0, <1>00, <1>1 DEF Lower
  <2> HIDE DEF t
  <2>3. /\ \A i \in 1..((Len(s) + 1) - 1) : t[i] = s[i] /\ s[i].pri >= m.pri
        /\ \A i \in ((Len(s) + 1) + 1)..(Len(s) + 1) : t[i] = s[i - 1]
        /\ Len(s) + 1 <= Len(s) => s[Len(s) + 1].pri < m.pri
        /\ Len(s) + 1 \in 1..(Len(s) + 1)
    BY <1>0, <2>1, <2>2
  <2>4. QED BY <2>1, <2>3 DEF t
<1>2. ASSUME NEW f \in Lower(s, m), \A j \in Lower(s, m) : f <= j,
             t = SubSeq(s, 1, f - 1) \o <<m>> \o SubSeq(s, f, Len(s))
      PROVE  /\ t \in Seq(Msg)
             /\ Len(t) = Len(s) + 1
             /\ \E p \in 1..(Len(s) + 1) :
                  /\ t[p] = m
                  /\ \A i \in 1..(p - 1) : t[i] = s[i] /\ s[i].pri >= m.pri
                  /\ \A i \in (p + 1)..(Len(s) + 1) : t[i] = s[i - 1]
                  /\ p <= Len(s) => s[p].pri < m.pri
  <2> DEFINE a == SubSeq(s, 1, f - 1)
  <2> DEFINE b == SubSeq(s, f, Len(s))
  <2>1. f \in Nat /\ 1 <= f /\ f <= Len(s) /\ f \in 1..Len(s) /\ s[f].pri < m.pri
    BY <1>0 DEF Lower
  <2>2. \A i \in 1..(f - 1) : s[i].pri >= m.pri
    <3>1. SUFFICES ASSUME NEW i \in 1..(f - 1) PROVE s[i].pri >= m.pri
      OBVIOUS
    <3>2. i \notin Lower(s, m) /\ i \in 1..Len(s)
      BY <1>2, <2>1, <1>0
    <3>3. QED BY <3>2, <1>0, <1>00 DEF Lower
  <2>3. a \in Seq(Msg) /\ Len(a) = f - 1 /\ \A i \in 1..(f - 1) : a[i] = s[i]
    <3>1. \A i \in 1..(f - 1) : s[i] \in Msg
      BY <1>0, <2>1
    <3>2. QED BY <3>1, <2>1, SubSeqProperties
  <2>4. b \in Seq(Msg) /\ Len(b) = Len(s) - f + 1
        /\ \A i \in 1..(Len(s) - f + 1) : b[i] = s[f + i - 1]
    <3>1. \A i \in f..Len(s) : s[i] \in Msg
      BY <1>0, <2>1
    <3>2. QED BY <3>1, <1>0, <2>1, SubSeqProperties
  <2>5. <<m>> \in Seq(Msg) /\ Len(<<m>>) = 1 /\ <<m>>[1] = m
    OBVIOUS
  <2>6. t = (a \o <<m>>) \o b
    BY <1>2
  <2> HIDE DEF a, b, t
  <2>7. a \o <<m>> \in Seq(Msg) /\ Len(a \o <<m>>) = f
        /\ (a \o <<m>>)[f] = m /\ \A i \in 1..(f - 1) : (a \o <<m>>)[i] = s[i]
    <3> DEFINE one == <<m>>
    <3>1. one \in Seq(Msg) /\ Len(one) = 1 /\ one[1] = m
      BY <2>5
    <3> HIDE DEF one
    <3>2. /\ a \o one \in Seq(Msg)
          /\ Len(a \o one) = Len(a) + Len(one)
          /\ \A i \in 1..(Len(a) + Len(one)) :
               (a \o one)[i] = IF i <= Len(a) THEN a[i] ELSE one[i - Len(a)]
      BY <2>3, <3>1, ConcatProperties
    <3>3. Len(a \o one) = f /\ (a \o one)[f] = m /\ \A i \in 1..(f - 1) : (a \o one)[i] = s[i]
      BY <2>1, <2>3, <3>1, <3>2
    <3>4. QED BY <3>2, <3>3 DEF one
  <2> DEFINE am == a \o <<m>>
  <2>70. am \in Seq(Msg) /\ Len(am) = f /\ am[f] = m /\ \A i \in 1..(f - 1) : am[i] = s[i]
    BY <2>7
  <2>71. t = am \o b
    BY <2>6
  <2> HIDE DEF am
  <2>8. t \in Seq(Msg) /\ Len(t) = Len(s) + 1
        /\ \A i \in 1..(Len(s) + 1) : t[i] = IF i <= f THEN am[i] ELSE b[i - f]
    <3>1. /\ t \in Seq(Msg)
          /\ Len(t) = Len(am) + Len(b)
          /\ \A i \in 1..(Len(am) + Len(b)) : t[i] = IF i <= Len(am) THEN am[i] ELSE b[i - Len(am)]
      BY <2>4, <2>70, <2>71, ConcatProperties
    <3>2. QED BY <1>0, <2>1, <2>4, <2>70, <3>1
  <2>9. t[f] = m /\ \A i \in 1..(f - 1) : t[i] = s[i]
    BY <1>0, <2>1, <2>70, <2>8
  <2>10. \A i \in (f + 1)..(Len(s) + 1) : t[i] = s[i - 1]
    <3>1. SUFFICES ASSUME NEW i \in (f + 1)..(Len(s) + 1) PROVE t[i] = s[i - 1]
      OBVIOUS
    <3>2. t[i] = b[i - f] /\ i - f \in 1..(Len(s) - f + 1)
      BY <1>0, <2>1, <2>8
    <3>3. b[i - f] = s[f + (i - f) - 1]
      BY <2>4, <3>2
    <3>30. f + (i - f) - 1 = i - 1
      BY <1>0, <2>1
    <3>4. QED BY <3>2, <3>3, <3>30
  <2>11. f \in 1..(Len(s) + 1)
    BY <1>0, <2>1
  <2>12. QED BY <2>1, <2>2, <2>8, <2>9, <2>10, <2>11
<1>3. QED BY <1>1, <1>2, InsertCases

\* Enqueued makes a queue one message longer.
LEMMA EnqueuedType ==
  ASSUME TypeOK, NEW q \in Queue, NEW m \in Msg
  PROVE  Enqueued(q, m) \in Seq(Msg) /\ Len(Enqueued(q, m)) = Len(store[q]) + 1
<1>1. store[q] \in Seq(Msg)
  BY DEF TypeOK
<1>2. CASE q \in PriorityQ
  BY <1>1, <1>2, InsertProperties DEF Enqueued
<1>3. CASE q \notin PriorityQ
  BY <1>1, <1>3, AppendProperties DEF Enqueued
<1>4. QED BY <1>2, <1>3

----------------------------------------------------------------------------
(* Type correctness                                                        *)

\* What the steps below say of the primed store, tracker and history.
StoreTyped == /\ store \in [Queue -> Seq(Msg)]
              /\ tracked \in [Channel -> [Tag -> Delivery \cup {NoDelivery}]]
HistTyped == /\ entered \subseteq Msg /\ requeued \subseteq Msg
             /\ settled \subseteq Msg /\ replaced \subseteq Msg
             /\ bypass \in [Queue -> Nat]
LocalsTyped == /\ pc \in [Conn -> PC]
               /\ cur \in [Conn -> Locals]
               /\ \A c \in Conn : LocalsSet(pc[c], cur[c])
ScanTyped == scan \in Seq(Delivery) /\ next \in Nat

\* TypeOK in four parts.
LEMMA TypeParts == TypeOK <=> StoreTyped /\ HistTyped /\ LocalsTyped /\ ScanTyped
BY DEF TypeOK, StoreTyped, HistTyped, LocalsTyped, ScanTyped

\* The initial locals, which an idle handler has, are locals.
LEMMA NoLocalsType == NoLocals \in Locals /\ LocalsSet("idle", NoLocals) /\ "idle" \in PC
BY EmptySeq DEF NoLocals, Locals, LocalsSet, Tag, PC

\* A step of connection c leaves the other connections' locals alone.
LEMMA LocalsStep ==
  ASSUME LocalsTyped, NEW c \in Conn, NEW p \in PC, NEW l \in Locals, LocalsSet(p, l),
         pc' = [pc EXCEPT ![c] = p], cur' = [cur EXCEPT ![c] = l]
  PROVE  LocalsTyped'
<1>1. pc' \in [Conn -> PC] /\ cur' \in [Conn -> Locals]
  BY DEF LocalsTyped
<1>2. ASSUME NEW e \in Conn PROVE LocalsSet(pc'[e], cur'[e])
  <2>1. CASE e = c
    BY <2>1 DEF LocalsTyped
  <2>2. CASE e # c
    BY <2>2 DEF LocalsTyped
  <2>3. QED BY <2>1, <2>2
<1>3. QED BY <1>1, <1>2 DEF LocalsTyped

\* A handler returns.
LEMMA IdleStep ==
  ASSUME LocalsTyped, NEW c \in Conn,
         pc' = [pc EXCEPT ![c] = "idle"], cur' = [cur EXCEPT ![c] = NoLocals]
  PROVE  LocalsTyped'
BY NoLocalsType, LocalsStep

\* Changing a map of maps keeps its type.
LEMMA NestedExcept ==
  ASSUME NEW A, NEW B, NEW C, NEW f \in [A -> [B -> C]],
         NEW a \in A, NEW b \in B, NEW x \in C
  PROVE  [f EXCEPT ![a][b] = x] \in [A -> [B -> C]]
<1>1. [f[a] EXCEPT ![b] = x] \in [B -> C]
  OBVIOUS
<1>2. QED BY <1>1

\* Every channel the handlers use is one.
LEMMA ChannelType == Zero \in Channel /\ \A c \in Conn : ChanOf[c] \in Channel
BY DEF Channel

\* Dead-lettering keeps the types.
LEMMA DeadLetterType ==
  ASSUME TypeOK, NEW m \in Msg, NEW q \in Queue, deadLetter(m, q)
  PROVE  StoreTyped' /\ settled' \subseteq Msg /\ requeued' \subseteq Msg
         /\ bypass' \in [Queue -> Nat]
<1>1. CASE DLX[q] = Nil
  BY <1>1 DEF deadLetter, TypeOK, StoreTyped
<1>2. CASE DLX[q] # Nil
  <2>1. DLX[q] \in Queue
    BY <1>2, ConfigAssumption
  <2>2. Enqueued(DLX[q], m) \in Seq(Msg)
    BY <2>1, EnqueuedType
  <2>3. /\ store' = [store EXCEPT ![DLX[q]] = Enqueued(DLX[q], m)]
        /\ bypass' = [bypass EXCEPT ![DLX[q]] = @ + 1]
        /\ requeued' = requeued \cup {m} /\ settled' = settled
        /\ tracked' = tracked \/ tracked' = [tracked EXCEPT ![Zero][0] = [m |-> m, q |-> DLX[q]]]
    BY <1>2 DEF deadLetter, Bypass
  <2>4. [m |-> m, q |-> DLX[q]] \in Delivery /\ Zero \in Channel /\ 0 \in Tag
    BY <2>1, ChannelType DEF Delivery, Tag
  <2>5. tracked' \in [Channel -> [Tag -> Delivery \cup {NoDelivery}]]
    <3> DEFINE D == Delivery \cup {NoDelivery}
    <3>1. tracked \in [Channel -> [Tag -> D]] /\ [m |-> m, q |-> DLX[q]] \in D
      BY <2>4 DEF TypeOK
    <3> HIDE DEF D
    <3>2. [tracked EXCEPT ![Zero][0] = [m |-> m, q |-> DLX[q]]] \in [Channel -> [Tag -> D]]
      BY <2>4, <3>1, NestedExcept
    <3>3. QED BY <2>3, <3>1, <3>2 DEF D
  <2>6. QED BY <2>1, <2>2, <2>3, <2>5 DEF TypeOK, StoreTyped
<1>3. QED BY <1>1, <1>2

\* CheckLength keeps the types.
LEMMA CheckLengthType ==
  ASSUME TypeOK, NEW c \in Conn, NEW m \in Msg, NEW route \in Seq(Queue), route # <<>>,
         CheckLength(c, m, route)
  PROVE  StoreTyped' /\ HistTyped' /\ LocalsTyped' /\ scan' = scan
<1> DEFINE q == Head(route)
<1> DEFINE l == [NoLocals EXCEPT !.m = [m EXCEPT !.home = q], !.q = q, !.todo = Tail(route)]
<1> DEFINE p == IF AtMaxLength(q) THEN "evict" ELSE "enqueue"
<1>1. q \in Queue /\ Tail(route) \in Seq(Queue)
  BY HeadTailProperties
<1>2. [m EXCEPT !.home = q] \in Msg
  BY <1>1 DEF Msg
<1>3. l \in Locals /\ l.m \in Msg /\ l.q \in Queue
  BY <1>1, <1>2, NoLocalsType DEF Locals, NoLocals
<1>4. p \in PC /\ LocalsSet(p, l)
  <2> HIDE DEF l
  <2> QED BY <1>3 DEF PC, LocalsSet
<1>5. LocalsTyped'
  <2>1. pc' = [pc EXCEPT ![c] = p] /\ cur' = [cur EXCEPT ![c] = l]
    BY DEF CheckLength
  <2> HIDE DEF l, p
  <2>2. QED BY <1>3, <1>4, <2>1, LocalsStep, TypeParts
<1>6. QED BY <1>5 DEF CheckLength, histVars, TypeOK, StoreTyped, HistTyped

\* QueueDone keeps the types.
LEMMA QueueDoneType ==
  ASSUME TypeOK, NEW c \in Conn, pc[c] \in {"enqueue", "deliver"}, QueueDone(c)
  PROVE  LocalsTyped'
<1>0. LocalsTyped /\ cur[c] \in Locals /\ LocalsSet(pc[c], cur[c])
  BY TypeParts DEF LocalsTyped
<1>1. CASE cur[c].todo = <<>>
  BY <1>0, <1>1, IdleStep DEF QueueDone
<1>2. CASE cur[c].todo # <<>>
  <2>1. LocalsSet("check", cur[c]) /\ "check" \in PC
    BY <1>0, <1>2 DEF LocalsSet, PC
  <2>2. cur' = [cur EXCEPT ![c] = cur[c]]
    BY <1>0, <1>2 DEF QueueDone, LocalsTyped
  <2>3. pc' = [pc EXCEPT ![c] = "check"]
    BY <1>2 DEF QueueDone
  <2>4. QED BY <1>0, <2>1, <2>2, <2>3, LocalsStep
<1>3. QED BY <1>1, <1>2

\* One turn of Get's loop keeps the types.
LEMMA GetType ==
  ASSUME TypeOK, NEW c \in Conn, NEW q \in Queue, NEW noAck \in BOOLEAN, Get(c, q, noAck)
  PROVE  TypeOK'
<1>0. LocalsTyped /\ StoreTyped /\ HistTyped /\ ScanTyped /\ cur[c] \in Locals
      /\ store[q] \in Seq(Msg)
  BY TypeParts DEF LocalsTyped, StoreTyped
<1>1. store[q] # <<>> => Head(store[q]) \in Msg /\ Tail(store[q]) \in Seq(Msg)
  BY <1>0, HeadTailProperties
<1>2. StoreTyped' /\ HistTyped' /\ ScanTyped'
  BY <1>0, <1>1 DEF Get, StoreTyped, HistTyped, ScanTyped
<1>3. LocalsTyped'
  <2>1. CASE pc' = [pc EXCEPT ![c] = "idle"] /\ cur' = [cur EXCEPT ![c] = NoLocals]
    BY <1>0, <2>1, IdleStep
  <2>2. CASE /\ pc' = [pc EXCEPT ![c] = "get"]
             /\ cur' = [cur EXCEPT ![c].q = q, ![c].noAck = noAck]
    <3> DEFINE l == [cur[c] EXCEPT !.q = q, !.noAck = noAck]
    <3>1. l \in Locals /\ l.q = q
      BY <1>0 DEF Locals
    <3>2. cur' = [cur EXCEPT ![c] = l]
      BY <1>0, <2>2 DEF LocalsTyped
    <3> HIDE DEF l
    <3>3. LocalsSet("get", l) /\ "get" \in PC
      BY <3>1 DEF LocalsSet, PC
    <3>4. QED BY <1>0, <2>2, <3>1, <3>2, <3>3, LocalsStep
  <2>3. CASE /\ store[q] # <<>>
             /\ pc' = [pc EXCEPT ![c] = "record"]
             /\ cur' = [cur EXCEPT ![c].m = Head(store[q]), ![c].q = q]
    <3> DEFINE l == [cur[c] EXCEPT !.m = Head(store[q]), !.q = q]
    <3>1. l \in Locals /\ l.q = q /\ l.m \in Msg
      BY <1>0, <1>1, <2>3 DEF Locals
    <3>2. cur' = [cur EXCEPT ![c] = l]
      BY <1>0, <2>3 DEF LocalsTyped
    <3> HIDE DEF l
    <3>3. LocalsSet("record", l) /\ "record" \in PC
      BY <3>1 DEF LocalsSet, PC
    <3>4. QED BY <1>0, <2>3, <3>1, <3>2, <3>3, LocalsStep
  <2>4. QED BY <2>1, <2>2, <2>3 DEF Get
<1>4. QED BY <1>2, <1>3 DEF TypeOK, StoreTyped, HistTyped, LocalsTyped, ScanTyped

\* Recording or removing a delivery keeps the tracker's type.
LEMMA TrackStep ==
  ASSUME TypeOK, NEW c \in Conn, NEW t \in Tag, NEW x \in Delivery \cup {NoDelivery},
         tracked' = [tracked EXCEPT ![ChanOf[c]][t] = x]
  PROVE  tracked' \in [Channel -> [Tag -> Delivery \cup {NoDelivery}]]
<1> DEFINE D == Delivery \cup {NoDelivery}
<1>1. tracked \in [Channel -> [Tag -> D]] /\ ChanOf[c] \in Channel /\ x \in D
  BY ChannelType DEF TypeOK
<1> HIDE DEF D
<1>2. [tracked EXCEPT ![ChanOf[c]][t] = x] \in [Channel -> [Tag -> D]]
  BY <1>1, NestedExcept
<1>3. QED BY <1>2 DEF D

\* The steps of a publish keep the types.
LEMMA PublishType ==
  ASSUME TypeOK, NEW c \in Conn,
         \/ \E route \in Routes, pri \in Priority : handlePublish(c, route, pri)
         \/ NextQueue(c) \/ EvictOldest(c) \/ DeadLetterEvicted(c)
         \/ EnqueueMessage(c) \/ DeliverPushed(c)
  PROVE  TypeOK'
<1> USE DEF histVars
<1>0. StoreTyped /\ HistTyped /\ LocalsTyped /\ ScanTyped /\ cur[c] \in Locals
      /\ LocalsSet(pc[c], cur[c])
  BY TypeParts DEF LocalsTyped
<1>1. ASSUME NEW route \in Routes, NEW pri \in Priority, handlePublish(c, route, pri)
      PROVE  TypeOK'
  <2>1. route \in Seq(Queue) /\ route # <<>> /\ Head(route) \in Queue
    BY ConfigAssumption, HeadTailProperties
  <2>2. [id |-> next, from |-> c, home |-> Head(route), pri |-> pri] \in Msg
    BY <1>0, <2>1, ConfigAssumption DEF Msg, ScanTyped
  <2>3. StoreTyped' /\ HistTyped' /\ LocalsTyped' /\ scan' = scan
    BY <1>1, <2>1, <2>2, CheckLengthType DEF handlePublish
  <2>4. next' \in Nat
    BY <1>0, <1>1 DEF handlePublish, ScanTyped
  <2>5. QED BY <1>0, <2>3, <2>4 DEF TypeOK, StoreTyped, HistTyped, LocalsTyped, ScanTyped
<1>2. CASE NextQueue(c)
  <2>1. cur[c].m \in Msg /\ cur[c].todo \in Seq(Queue) /\ cur[c].todo # <<>>
    BY <1>0, <1>2 DEF NextQueue, LocalsSet, Locals
  <2>2. StoreTyped' /\ HistTyped' /\ LocalsTyped' /\ scan' = scan
    BY <1>2, <2>1, CheckLengthType DEF NextQueue
  <2>3. QED BY <1>0, <1>2, <2>2
            DEF NextQueue, TypeOK, StoreTyped, HistTyped, LocalsTyped, ScanTyped
<1>3. CASE EvictOldest(c)
  <2> DEFINE q == cur[c].q
  <2>1. pc[c] = "evict" /\ q \in Queue /\ cur[c].m \in Msg /\ store[q] \in Seq(Msg)
    BY <1>0, <1>3 DEF EvictOldest, LocalsSet, StoreTyped
  <2>2. CASE store[q] = <<>>
    <3>1. LocalsSet("enqueue", cur[c]) /\ "enqueue" \in PC
      BY <2>1 DEF LocalsSet, PC
    <3>2. pc' = [pc EXCEPT ![c] = "enqueue"] /\ cur' = [cur EXCEPT ![c] = cur[c]]
      BY <1>0, <1>3, <2>2 DEF EvictOldest, LocalsTyped
    <3>3. LocalsTyped'
      BY <1>0, <3>1, <3>2, LocalsStep
    <3>4. QED BY <1>0, <1>3, <2>2, <3>3
              DEF EvictOldest, TypeOK, StoreTyped, HistTyped, LocalsTyped, ScanTyped
  <2>3. CASE store[q] # <<>>
    <3> DEFINE x == [m |-> Head(store[q]), q |-> q]
    <3> DEFINE l == [cur[c] EXCEPT !.found = x]
    <3>1. Head(store[q]) \in Msg /\ Tail(store[q]) \in Seq(Msg)
      BY <2>1, <2>3, HeadTailProperties
    <3>2. x \in Delivery
      BY <2>1, <3>1 DEF Delivery
    <3>3. pc' = [pc EXCEPT ![c] = "evicted"] /\ cur' = [cur EXCEPT ![c] = l]
          /\ store' = [store EXCEPT ![q] = Tail(@)]
      BY <1>0, <1>3, <2>3 DEF EvictOldest, LocalsTyped
    <3> HIDE DEF x
    <3>4. l \in Locals /\ LocalsSet("evicted", l) /\ "evicted" \in PC
      BY <1>0, <2>1, <3>2 DEF Locals, LocalsSet, PC
    <3> HIDE DEF l
    <3>5. LocalsTyped'
      BY <1>0, <3>3, <3>4, LocalsStep
    <3>6. StoreTyped'
      BY <1>0, <1>3, <2>1, <3>1, <3>3 DEF EvictOldest, StoreTyped
    <3>7. QED BY <1>0, <1>3, <3>5, <3>6
              DEF EvictOldest, TypeOK, StoreTyped, HistTyped, LocalsTyped, ScanTyped
  <2>4. QED BY <2>2, <2>3
<1>4. CASE DeadLetterEvicted(c)
  <2>1. cur[c].found \in Delivery /\ pc[c] = "evicted" /\ cur[c].q \in Queue /\ cur[c].m \in Msg
    BY <1>0, <1>4 DEF DeadLetterEvicted, LocalsSet
  <2>2. cur[c].found.m \in Msg /\ cur[c].found.q \in Queue
    BY <2>1 DEF Delivery
  <2>3. StoreTyped' /\ settled' \subseteq Msg /\ requeued' \subseteq Msg
         /\ bypass' \in [Queue -> Nat]
    BY <1>4, <2>2, DeadLetterType DEF DeadLetterEvicted
  <2> DEFINE l == [cur[c] EXCEPT !.found = NoDelivery]
  <2>4. l \in Locals /\ LocalsSet("enqueue", l) /\ "enqueue" \in PC
    BY <1>0, <2>1 DEF Locals, LocalsSet, PC
  <2>5. pc' = [pc EXCEPT ![c] = "enqueue"] /\ cur' = [cur EXCEPT ![c] = l]
    BY <1>0, <1>4 DEF DeadLetterEvicted, LocalsTyped
  <2> HIDE DEF l
  <2>6. LocalsTyped'
    BY <1>0, <2>4, <2>5, LocalsStep
  <2>7. QED BY <1>0, <1>4, <2>3, <2>6
            DEF DeadLetterEvicted, TypeOK, StoreTyped, HistTyped, LocalsTyped, ScanTyped
<1>5. CASE EnqueueMessage(c)
  <2> DEFINE q == cur[c].q
  <2>1. pc[c] = "enqueue" /\ q \in Queue /\ cur[c].m \in Msg
    BY <1>0, <1>5 DEF EnqueueMessage, LocalsSet
  <2>2. Enqueued(q, cur[c].m) \in Seq(Msg)
    BY <2>1, EnqueuedType
  <2>3. LocalsTyped'
    <3>1. CASE QueueDone(c)
      BY <2>1, <3>1, QueueDoneType
    <3>2. CASE pc' = [pc EXCEPT ![c] = "deliver"] /\ cur' = cur
      <4>1. LocalsSet("deliver", cur[c]) /\ "deliver" \in PC
        BY <2>1 DEF LocalsSet, PC
      <4>2. cur' = [cur EXCEPT ![c] = cur[c]]
        BY <1>0, <3>2 DEF LocalsTyped
      <4>3. QED BY <1>0, <3>2, <4>1, <4>2, LocalsStep
    <3>3. QED BY <1>5, <3>1, <3>2 DEF EnqueueMessage
  <2>4. StoreTyped' /\ HistTyped' /\ ScanTyped'
    BY <1>0, <1>5, <2>1, <2>2 DEF EnqueueMessage, StoreTyped, HistTyped, ScanTyped
  <2>5. QED BY <2>3, <2>4 DEF TypeOK, StoreTyped, HistTyped, LocalsTyped, ScanTyped
<1>6. CASE DeliverPushed(c)
  <2>1. pc[c] = "deliver" /\ cur[c].q \in Queue /\ cur[c].m \in Msg
    BY <1>0, <1>6 DEF DeliverPushed, LocalsSet
  <2>2. LocalsTyped'
    BY <1>6, <2>1, QueueDoneType DEF DeliverPushed
  <2> DEFINE x == [m |-> cur[c].m, q |-> cur[c].q]
  <2>3. x \in Delivery /\ 0 \in Tag
    BY <2>1 DEF Delivery, Tag
  <2>4. tracked' = [tracked EXCEPT ![ChanOf[c]][0] = x]
    BY <1>6 DEF DeliverPushed
  <2> HIDE DEF x
  <2>5. tracked' \in [Channel -> [Tag -> Delivery \cup {NoDelivery}]]
    BY <2>3, <2>4, TrackStep
  <2>6. QED BY <1>0, <1>6, <2>2, <2>5
            DEF DeliverPushed, TypeOK, StoreTyped, HistTyped, LocalsTyped, ScanTyped
<1>7. QED BY <1>1, <1>2, <1>3, <1>4, <1>5, <1>6

\* What a handler finds in the tracker is a delivery, or nothing.
LEMMA TrackedType ==
  ASSUME TypeOK, NEW c \in Conn, NEW t \in Tag
  PROVE  /\ tracked[ChanOf[c]][t] \in Delivery \cup {NoDelivery}
         /\ tracked[ChanOf[c]][t] # NoDelivery =>
              tracked[ChanOf[c]][t].m \in Msg /\ tracked[ChanOf[c]][t].q \in Queue
<1>1. tracked[ChanOf[c]][t] \in Delivery \cup {NoDelivery}
  BY ChannelType DEF TypeOK
<1>2. QED BY <1>1 DEF Delivery

\* Requeueing and dropping by Nack keeps the types.
LEMMA NackType ==
  ASSUME TypeOK, NEW c \in Conn, Nack(c)
  PROVE  TypeOK'
<1> DEFINE d == tracked[ChanOf[c]][cur[c].tag]
<1> DEFINE toDLX == ~cur[c].requeue /\ cur[c].found # NoDelivery
<1>0. StoreTyped /\ HistTyped /\ LocalsTyped /\ ScanTyped /\ cur[c] \in Locals
  BY TypeParts DEF LocalsTyped
<1>1. cur[c].tag \in Tag /\ cur[c].found \in Delivery \cup {NoDelivery}
  BY <1>0 DEF Locals
<1>2. d # NoDelivery => d.m \in Msg /\ d.q \in Queue
  BY <1>1, TrackedType
<1>3. LocalsTyped'
  <2>1. CASE toDLX
    <3>1. LocalsSet("nacked", cur[c]) /\ "nacked" \in PC
      BY <1>1, <2>1 DEF LocalsSet, PC
    <3>2. pc' = [pc EXCEPT ![c] = "nacked"] /\ cur' = [cur EXCEPT ![c] = cur[c]]
      BY <1>0, <2>1 DEF Nack, LocalsTyped
    <3>3. QED BY <1>0, <3>1, <3>2, LocalsStep
  <2>2. CASE ~toDLX
    <3>1. pc' = [pc EXCEPT ![c] = "idle"] /\ cur' = [cur EXCEPT ![c] = NoLocals]
      BY <2>2 DEF Nack
    <3>2. QED BY <1>0, <3>1, IdleStep
  <2>3. QED BY <2>1, <2>2
<1>4. tracked' \in [Channel -> [Tag -> Delivery \cup {NoDelivery}]]
  <2>1. tracked' = [tracked EXCEPT ![ChanOf[c]][cur[c].tag] = NoDelivery]
    BY DEF Nack
  <2>2. QED BY <1>1, <2>1, TrackStep
<1>5. /\ store' \in [Queue -> Seq(Msg)]
      /\ requeued' \subseteq Msg /\ bypass' \in [Queue -> Nat]
  <2>1. CASE d # NoDelivery /\ cur[c].requeue
    <3>1. Bypass(d.q, d.m, Append(store[d.q], d.m))
      BY <2>1 DEF Nack
    <3>2. d.m \in Msg /\ d.q \in Queue /\ store[d.q] \in Seq(Msg)
      BY <1>0, <1>2, <2>1 DEF StoreTyped
    <3> HIDE DEF d
    <3>3. Append(store[d.q], d.m) \in Seq(Msg)
      BY <3>2, AppendProperties
    <3>4. QED BY <1>0, <3>1, <3>2, <3>3 DEF Bypass, StoreTyped, HistTyped
  <2>2. CASE ~(d # NoDelivery /\ cur[c].requeue)
    BY <1>0, <2>2 DEF Nack, StoreTyped, HistTyped
  <2>3. QED BY <2>1, <2>2
<1>6. settled' \subseteq Msg
  <2>1. settled' = settled \/ (d # NoDelivery /\ settled' = settled \cup {d.m})
    BY DEF Nack
  <2>2. QED BY <1>0, <1>2, <2>1 DEF HistTyped
<1>7. UNCHANGED <<scan, next, entered, replaced>>
  BY DEF Nack
<1>8. QED BY <1>0, <1>3, <1>4, <1>5, <1>6, <1>7
          DEF TypeOK, StoreTyped, HistTyped, LocalsTyped, ScanTyped

\* What Recovered gives back are at most two messages.
LEMMA RecoveredType ==
  ASSUME TypeOK, NEW c \in Conn, NEW t \in Tag, NEW q \in Queue
  PROVE  Recovered(ChanOf[c], t, q) \in Seq(Msg)
<1> DEFINE d == tracked[ChanOf[c]][t]
<1>1. d # NoDelivery => d.m \in Msg
  BY TrackedType
<1>2. CASE d # NoDelivery /\ d.q = q
  <2>1. Recovered(ChanOf[c], t, q) = <<d.m>> /\ d.m \in Msg
    BY <1>1, <1>2 DEF Recovered
  <2>2. QED BY <2>1
<1>3. CASE ~(d # NoDelivery /\ d.q = q)
  BY <1>3, EmptySeq DEF Recovered
<1>4. QED BY <1>2, <1>3

\* RecoverAll keeps the types.
LEMMA RecoverType ==
  ASSUME TypeOK, NEW c \in Conn, NEW first \in Tag, NEW requeue \in BOOLEAN,
         handleRecover(c, first, requeue)
  PROVE  TypeOK'
<1> DEFINE ch == ChanOf[c]
<1> DEFINE back(q) == Recovered(ch, first, q) \o Recovered(ch, 1 - first, q)
<1> DEFINE msgs == {tracked[ch][t].m : t \in {u \in Tag : tracked[ch][u] # NoDelivery}}
<1>0. StoreTyped /\ HistTyped /\ LocalsTyped /\ ScanTyped
  BY TypeParts
<1>1. 1 - first \in Tag
  BY DEF Tag
<1>2. \A q \in Queue : back(q) \in Seq(Msg) /\ Len(back(q)) \in Nat
  BY <1>1, RecoveredType, ConcatProperties, LenProperties
<1>3. msgs \subseteq Msg
  BY TrackedType
<1>4. tracked' \in [Channel -> [Tag -> Delivery \cup {NoDelivery}]]
  <2> DEFINE D == Delivery \cup {NoDelivery}
  <2>1. tracked \in [Channel -> [Tag -> D]] /\ ch \in Channel
    BY ChannelType DEF TypeOK
  <2>2. [t \in Tag |-> NoDelivery] \in [Tag -> D]
    OBVIOUS
  <2>3. tracked' = [tracked EXCEPT ![ch] = [t \in Tag |-> NoDelivery]]
    BY DEF handleRecover
  <2> HIDE DEF D
  <2>4. tracked' \in [Channel -> [Tag -> D]]
    BY <2>1, <2>2, <2>3
  <2>5. QED BY <2>4 DEF D
<1>5. CASE requeue
  <2>1. /\ store' = [q \in Queue |-> store[q] \o back(q)]
        /\ bypass' = [q \in Queue |-> bypass[q] + Len(back(q))]
        /\ requeued' = requeued \cup msgs /\ settled' = settled
    BY <1>5 DEF handleRecover
  <2> HIDE DEF back, msgs
  <2>2. \A q \in Queue : store[q] \o back(q) \in Seq(Msg)
    BY <1>0, <1>2, ConcatProperties DEF StoreTyped
  <2>3. store' \in [Queue -> Seq(Msg)] /\ bypass' \in [Queue -> Nat]
    BY <1>0, <1>2, <2>1, <2>2 DEF HistTyped
  <2>4. UNCHANGED <<pc, cur, scan, next, entered, replaced>>
    BY DEF handleRecover
  <2>5. QED BY <1>0, <1>3, <1>4, <2>1, <2>3, <2>4
            DEF TypeOK, StoreTyped, HistTyped, LocalsTyped, ScanTyped
<1>6. CASE ~requeue
  <2>1. settled' = settled \cup msgs /\ UNCHANGED <<store, bypass, requeued>>
        /\ UNCHANGED <<pc, cur, scan, next, entered, replaced>>
    BY <1>6 DEF handleRecover
  <2> HIDE DEF back, msgs
  <2>2. QED BY <1>0, <1>3, <1>4, <2>1
            DEF TypeOK, StoreTyped, HistTyped, LocalsTyped, ScanTyped
<1>7. QED BY <1>5, <1>6

\* The two halves of a split are increasing sequences of positions.
LEMMA SplitsType ==
  ASSUME NEW n \in Nat, NEW split \in Splits(n)
  PROVE  \E k \in 0..(n - 1) :
           /\ split[1] \in [1..k -> 1..n] /\ split[2] \in [1..(n - k) -> 1..n]
           /\ Increasing(split[1])
<1> DEFINE Half(k) == {s \in [1..k -> 1..n] \X [1..(n - k) -> 1..n] :
             /\ Increasing(s[1]) /\ Increasing(s[2])
             /\ \A i \in 1..k, j \in 1..(n - k) : s[1][i] # s[2][j]}
<1>0. \E k \in 0..(n - 1) : split \in Half(k)
  <2>1. Splits(n) = UNION {Half(k) : k \in 0..(n - 1)}
    BY DEF Splits
  <2> HIDE DEF Half
  <2>2. QED BY <2>1
<1>1. PICK k \in 0..(n - 1) :
        /\ split \in [1..k -> 1..n] \X [1..(n - k) -> 1..n]
        /\ Increasing(split[1])
  BY <1>0
<1>2. split[1] \in [1..k -> 1..n] /\ split[2] \in [1..(n - k) -> 1..n]
  BY <1>1
<1>3. QED BY <1>1, <1>2

\* A function on an initial interval is a sequence.
LEMMA FunctionIsSeq ==
  ASSUME NEW S, NEW k \in Nat, NEW g \in [1..k -> S]
  PROVE  g \in Seq(S)
BY SeqDef

\* Picking positions of a queue gives a sequence of its messages.
LEMMA PickType ==
  ASSUME NEW S, NEW s \in Seq(S), NEW k \in Nat, NEW f \in [1..k -> 1..Len(s)]
  PROVE  [i \in DOMAIN f |-> s[f[i]]] \in Seq(S) /\ Len([i \in DOMAIN f |-> s[f[i]]]) = k
<1>1. \A i \in 1..k : s[f[i]] \in S
  BY ElementOfSeq
<1>2. [i \in DOMAIN f |-> s[f[i]]] \in [1..k -> S]
  BY <1>1
<1>3. [i \in DOMAIN f |-> s[f[i]]] \in Seq(S)
  BY <1>2, SeqDef
<1>4. QED BY <1>2, <1>3, LenProperties

\* The expiration scan keeps the types.
LEMMA ScanType ==
  ASSUME TypeOK, NEW q \in Queue, NEW split \in Splits(Len(store[q])), ScanQueue(q, split)
  PROVE  TypeOK'
<1> DEFINE n == Len(store[q])
<1>0. StoreTyped /\ HistTyped /\ LocalsTyped /\ ScanTyped /\ store[q] \in Seq(Msg) /\ n \in Nat
  BY TypeParts, LenProperties DEF StoreTyped
<1>1. PICK k \in 0..(n - 1) : split[1] \in [1..k -> 1..n] /\ split[2] \in [1..(n - k) -> 1..n]
  BY <1>0, SplitsType
<1>2. k \in Nat /\ n - k \in Nat
  BY <1>0, <1>1
<1>3. [i \in DOMAIN split[1] |-> store[q][split[1][i]]] \in Seq(Msg)
  <2> DEFINE st == store[q]
  <2> DEFINE f == split[1]
  <2>1. st \in Seq(Msg) /\ f \in [1..k -> 1..Len(st)]
    BY <1>0, <1>1
  <2> HIDE DEF st, f
  <2>2. [i \in DOMAIN f |-> st[f[i]]] \in Seq(Msg)
    BY <1>2, <2>1, PickType
  <2>3. QED BY <2>2 DEF st, f
<1>4. [i \in DOMAIN split[2] |-> [m |-> store[q][split[2][i]], q |-> q]] \in Seq(Delivery)
  <2>1. \A i \in 1..(n - k) : store[q][split[2][i]] \in Msg
    BY <1>0, <1>1, ElementOfSeq
  <2>2. \A i \in 1..(n - k) : [m |-> store[q][split[2][i]], q |-> q] \in Delivery
    BY <2>1 DEF Delivery
  <2>3. [i \in DOMAIN split[2] |-> [m |-> store[q][split[2][i]], q |-> q]] \in [1..(n - k) -> Delivery]
    BY <1>1, <2>2
  <2> DEFINE g == [i \in DOMAIN split[2] |-> [m |-> store[q][split[2][i]], q |-> q]]
  <2> DEFINE nk == n - k
  <2>4. g \in [1..nk -> Delivery] /\ nk \in Nat
    BY <1>2, <2>3
  <2> HIDE DEF g, nk
  <2>5. g \in Seq(Delivery)
    BY <2>4, FunctionIsSeq
  <2>6. QED BY <2>5 DEF g
<1>5. QED BY <1>0, <1>3, <1>4
          DEF ScanQueue, histVars, TypeOK, StoreTyped, HistTyped, LocalsTyped, ScanTyped

\* Getting and settling keep the types.
LEMMA SettleType ==
  ASSUME TypeOK, NEW c \in Conn,
         \/ Record(c)
         \/ \E tag \in Tag : handleAck(c, tag)
         \/ \E tag \in Tag, requeue \in BOOLEAN : handleNack(c, tag, requeue)
         \/ DeadLetterNacked(c)
         \/ \E q \in Queue : handleQueuePurge(c, q)
  PROVE  TypeOK'
<1> USE DEF histVars
<1>0. StoreTyped /\ HistTyped /\ LocalsTyped /\ ScanTyped /\ cur[c] \in Locals
      /\ LocalsSet(pc[c], cur[c])
  BY TypeParts DEF LocalsTyped
<1>1. CASE Record(c)
  <2> DEFINE x == [m |-> cur[c].m, q |-> cur[c].q]
  <2>1. x \in Delivery /\ 1 \in Tag
    BY <1>0, <1>1 DEF Record, LocalsSet, Delivery, Tag
  <2>2. tracked' = [tracked EXCEPT ![ChanOf[c]][1] = x]
    BY <1>1 DEF Record
  <2> HIDE DEF x
  <2>3. tracked' \in [Channel -> [Tag -> Delivery \cup {NoDelivery}]]
    BY <2>1, <2>2, TrackStep
  <2>4. replaced' \subseteq Msg
    BY <1>0, <1>1, <2>1, TrackedType DEF Record, HistTyped
  <2>5. LocalsTyped'
    BY <1>0, <1>1, IdleStep DEF Record
  <2>6. QED BY <1>0, <1>1, <2>3, <2>4, <2>5
            DEF Record, TypeOK, StoreTyped, HistTyped, LocalsTyped, ScanTyped
<1>2. ASSUME NEW tag \in Tag, handleAck(c, tag) PROVE TypeOK'
  <2>1. tracked' \in [Channel -> [Tag -> Delivery \cup {NoDelivery}]]
    BY <1>2, TrackStep DEF handleAck
  <2>2. settled' \subseteq Msg
    BY <1>0, <1>2, TrackedType DEF handleAck, HistTyped
  <2>3. QED BY <1>0, <1>2, <2>1, <2>2
            DEF handleAck, TypeOK, StoreTyped, HistTyped, LocalsTyped, ScanTyped
<1>3. ASSUME NEW tag \in Tag, NEW requeue \in BOOLEAN, handleNack(c, tag, requeue)
      PROVE  TypeOK'
  <2> DEFINE x == tracked[ChanOf[c]][tag]
  <2> DEFINE l == [cur[c] EXCEPT !.tag = tag, !.requeue = requeue, !.found = x]
  <2>1. x \in Delivery \cup {NoDelivery}
    BY TrackedType
  <2>2. pc' = [pc EXCEPT ![c] = "nack"] /\ cur' = [cur EXCEPT ![c] = l]
    BY <1>0, <1>3 DEF handleNack, LocalsTyped
  <2> HIDE DEF x
  <2>3. l \in Locals
    BY <1>0, <2>1 DEF Locals
  <2>4. LocalsSet("nack", l) /\ "nack" \in PC
    BY DEF LocalsSet, PC
  <2> HIDE DEF l
  <2>5. LocalsTyped'
    BY <1>0, <2>2, <2>3, <2>4, LocalsStep
  <2>6. QED BY <1>0, <1>3, <2>5
            DEF handleNack, TypeOK, StoreTyped, HistTyped, LocalsTyped, ScanTyped
<1>4. CASE DeadLetterNacked(c)
  <2>1. cur[c].found.m \in Msg /\ cur[c].found.q \in Queue
    BY <1>0, <1>4 DEF DeadLetterNacked, LocalsSet, Delivery
  <2>2. StoreTyped' /\ settled' \subseteq Msg /\ requeued' \subseteq Msg
         /\ bypass' \in [Queue -> Nat]
    BY <1>4, <2>1, DeadLetterType DEF DeadLetterNacked
  <2>3. LocalsTyped'
    BY <1>0, <1>4, IdleStep DEF DeadLetterNacked
  <2>4. QED BY <1>0, <1>4, <2>2, <2>3
            DEF DeadLetterNacked, TypeOK, StoreTyped, HistTyped, LocalsTyped, ScanTyped
<1>5. ASSUME NEW q \in Queue, handleQueuePurge(c, q) PROVE TypeOK'
  <2>1. {store[q][i] : i \in DOMAIN store[q]} \subseteq Msg
    BY <1>0, LenProperties, ElementOfSeq DEF StoreTyped
  <2>2. store' \in [Queue -> Seq(Msg)]
    BY <1>0, <1>5, EmptySeq DEF handleQueuePurge, StoreTyped
  <2>3. QED BY <1>0, <1>5, <2>1, <2>2
            DEF handleQueuePurge, TypeOK, StoreTyped, HistTyped, LocalsTyped, ScanTyped
<1>6. QED BY <1>1, <1>2, <1>3, <1>4, <1>5

\* The disjuncts of Next, named once.
LEMMA NextCases ==
  ASSUME [Next]_vars
  PROVE  \/ \E c \in Conn :
              \/ \E route \in Routes, pri \in Priority : handlePublish(c, route, pri)
              \/ NextQueue(c) \/ EvictOldest(c) \/ DeadLetterEvicted(c)
              \/ EnqueueMessage(c) \/ DeliverPushed(c)
         \/ \E c \in Conn :
              \/ Record(c)
              \/ \E tag \in Tag : handleAck(c, tag)
              \/ \E tag \in Tag, requeue \in BOOLEAN : handleNack(c, tag, requeue)
              \/ DeadLetterNacked(c)
              \/ \E q \in Queue : handleQueuePurge(c, q)
         \/ \E c \in Conn, q \in Queue, noAck \in BOOLEAN : handleGet(c, q, noAck)
         \/ \E c \in Conn : GetAgain(c) \/ Nack(c)
         \/ \E c \in Conn, first \in Tag, requeue \in BOOLEAN : handleRecover(c, first, requeue)
         \/ \E q \in TTLQ : \E split \in Splits(Len(store[q])) : ScanQueue(q, split)
         \/ ScanCallback
         \/ UNCHANGED vars
BY Zenon DEF Next, handleReject

\* Every step keeps the types.
LEMMA NextType == TypeOK /\ [Next]_vars => TypeOK'
<1> SUFFICES ASSUME TypeOK, [Next]_vars PROVE TypeOK'
  OBVIOUS
<1>1. ASSUME NEW c \in Conn, NEW q \in Queue, NEW noAck \in BOOLEAN, handleGet(c, q, noAck)
      PROVE  TypeOK'
  BY <1>1, GetType DEF handleGet
<1>2. ASSUME NEW c \in Conn, GetAgain(c) PROVE TypeOK'
  <2>1. cur[c].q \in Queue /\ cur[c].noAck \in BOOLEAN
    <3>1. cur[c] \in Locals /\ LocalsSet(pc[c], cur[c]) /\ pc[c] = "get"
      BY <1>2 DEF TypeOK, GetAgain
    <3>2. QED BY <3>1 DEF Locals, LocalsSet
  <2>2. QED BY <1>2, <2>1, GetType DEF GetAgain
<1>3. ASSUME ScanCallback PROVE TypeOK'
  <2>1. Head(scan) \in Delivery /\ Tail(scan) \in Seq(Delivery)
    BY <1>3, HeadTailProperties DEF ScanCallback, TypeOK
  <2>2. Head(scan).m \in Msg /\ Head(scan).q \in Queue
    BY <2>1 DEF Delivery
  <2>3. StoreTyped' /\ settled' \subseteq Msg /\ requeued' \subseteq Msg
         /\ bypass' \in [Queue -> Nat]
    BY <1>3, <2>2, DeadLetterType DEF ScanCallback
  <2>4. QED BY <1>3, <2>1, <2>3 DEF ScanCallback, TypeOK, StoreTyped
<1>4. ASSUME UNCHANGED vars PROVE TypeOK'
  BY <1>4 DEF vars, TypeOK
<1>5. ASSUME NEW q \in TTLQ, NEW split \in Splits(Len(store[q])), ScanQueue(q, split)
      PROVE  TypeOK'
  BY <1>5, ScanType, ConfigAssumption
<1>6. QED BY <1>1, <1>2, <1>3, <1>4, <1>5, NextCases, PublishType, SettleType, NackType, RecoverType

\* The initial state is well typed.
LEMMA InitType == Init => TypeOK
<1> SUFFICES ASSUME Init PROVE TypeOK
  OBVIOUS
<1>1. \A c \in Conn : pc[c] = "idle" /\ cur[c] = NoLocals
  BY DEF Init
<1>2. LocalsTyped
  BY <1>1, NoLocalsType DEF Init, LocalsTyped
<1>3. StoreTyped
  BY EmptySeq DEF Init, StoreTyped
<1>4. HistTyped /\ ScanTyped
  BY EmptySeq DEF Init, HistTyped, ScanTyped
<1>5. QED BY <1>2, <1>3, <1>4, TypeParts

\* The store, the tracker and the handlers' local variables keep their types:
\* in particular no handler reaches a step with a nil message or queue in hand.
THEOREM TypeCorrect == Spec => []TypeOK
<1>1. QED BY InitType, NextType, PTL DEF Spec

----------------------------------------------------------------------------
(* The overshoot of x-max-length                                           *)

\* No queue grows by more than the enqueues that skipped the length check.
StoreSlack ==
  \A q \in Queue : Len(store'[q]) + bypass[q] <= Len(store[q]) + bypass'[q]

\* The numbers MaxLengthOvershoot compares.
LEMMA Numbers ==
  ASSUME TypeOK, NEW q \in Queue
  PROVE  /\ store[q] \in Seq(Msg) /\ Len(store[q]) \in Nat /\ bypass[q] \in Nat
         /\ MaxLen[q] \in Nat /\ Cardinality(Conn) \in Nat
         /\ IsFiniteSet(Entering(q)) /\ Cardinality(Entering(q)) \in Nat
         /\ Cardinality(Entering(q)) <= Cardinality(Conn)
<1>1. store[q] \in Seq(Msg) /\ bypass[q] \in Nat /\ MaxLen[q] \in Nat
  BY ConfigAssumption DEF TypeOK
<1>2. Entering(q) \in SUBSET Conn /\ IsFiniteSet(Conn)
  BY ConfigAssumption DEF Entering
<1>3. QED BY <1>1, <1>2, LenProperties, FS_Subset, FS_CardinalityType

\* The same after a step.
LEMMA NumbersNext ==
  ASSUME TypeOK', NEW q \in Queue
  PROVE  /\ store'[q] \in Seq(Msg) /\ Len(store'[q]) \in Nat /\ bypass'[q] \in Nat
         /\ IsFiniteSet(Entering(q)') /\ Cardinality(Entering(q)') \in Nat
         /\ Cardinality(Entering(q)') <= Cardinality(Conn)
<1>1. store'[q] \in Seq(Msg) /\ bypass'[q] \in Nat
  BY DEF TypeOK
<1>2. Entering(q)' \in SUBSET Conn /\ IsFiniteSet(Conn)
  BY ConfigAssumption DEF Entering
<1>3. QED BY <1>1, <1>2, LenProperties, FS_Subset, FS_CardinalityType

\* A step that lets nobody pass the length check keeps the bound if the queues
\* grow by the unchecked enqueues only.
LEMMA SlackStep ==
  ASSUME TypeOK, TypeOK', MaxLengthOvershoot, StoreSlack,
         \A q \in Queue : Entering(q)' \subseteq Entering(q)
  PROVE  MaxLengthOvershoot'
<1>1. SUFFICES ASSUME NEW q \in Queue, MaxLen[q] > 0
               PROVE  Len(store'[q]) + Cardinality(Entering(q)')
                        < MaxLen[q] + Cardinality(Conn) + bypass'[q]
  BY DEF MaxLengthOvershoot
<1>2. Cardinality(Entering(q)') <= Cardinality(Entering(q))
  BY Numbers, FS_Subset
<1>3. Len(store'[q]) + bypass[q] <= Len(store[q]) + bypass'[q]
  BY DEF StoreSlack
<1>4. Len(store[q]) + Cardinality(Entering(q)) < MaxLen[q] + Cardinality(Conn) + bypass[q]
  BY <1>1 DEF MaxLengthOvershoot
<1>5. /\ Len(store[q]) \in Nat /\ bypass[q] \in Nat /\ MaxLen[q] \in Nat
      /\ Cardinality(Conn) \in Nat /\ Cardinality(Entering(q)) \in Nat
  BY Numbers
<1>6. Len(store'[q]) \in Nat /\ bypass'[q] \in Nat /\ Cardinality(Entering(q)') \in Nat
  BY NumbersNext
<1> DEFINE L0 == Len(store[q])
<1> DEFINE L1 == Len(store'[q])
<1> DEFINE E0 == Cardinality(Entering(q))
<1> DEFINE E1 == Cardinality(Entering(q)')
<1> DEFINE B0 == bypass[q]
<1> DEFINE B1 == bypass'[q]
<1> DEFINE M == MaxLen[q] + Cardinality(Conn)
<1>7. /\ L0 \in Nat /\ L1 \in Nat /\ E0 \in Nat /\ E1 \in Nat
      /\ B0 \in Nat /\ B1 \in Nat /\ M \in Nat
      /\ E1 <= E0 /\ L1 + B0 <= L0 + B1 /\ L0 + E0 < M + B0
  BY <1>2, <1>3, <1>4, <1>5, <1>6
<1>8. SUFFICES L1 + E1 < M + B1
  OBVIOUS
<1> HIDE DEF L0, L1, E0, E1, B0, B1, M
<1>9. QED BY <1>7

\* A connection that goes elsewhere no longer enters a queue.
LEMMA EnteringLeaves ==
  ASSUME TypeOK, NEW c \in Conn, NEW p, p \notin {"evicted", "enqueue"},
         pc' = [pc EXCEPT ![c] = p],
         \A e \in Conn : e # c => cur'[e] = cur[e]
  PROVE  \A q \in Queue : Entering(q)' = Entering(q) \ {c}
BY DEF TypeOK, Entering

\* A connection that passed the check of its queue enters it.
LEMMA EnteringJoins ==
  ASSUME TypeOK, NEW c \in Conn, NEW p \in {"evicted", "enqueue"}, cur'[c].q \in Queue,
         pc' = [pc EXCEPT ![c] = p],
         \A e \in Conn : e # c => cur'[e] = cur[e]
  PROVE  \A q \in Queue : Entering(q)' = IF q = cur'[c].q THEN Entering(q) \cup {c}
                                         ELSE Entering(q) \ {c}
<1>1. SUFFICES ASSUME NEW q \in Queue
               PROVE Entering(q)' = IF q = cur'[c].q THEN Entering(q) \cup {c}
                                    ELSE Entering(q) \ {c}
  OBVIOUS
<1>2. Entering(q)' = {e \in Conn : pc'[e] \in {"evicted", "enqueue"} /\ cur'[e].q = q}
  BY DEF Entering
<1>3. pc'[c] = p /\ \A e \in Conn : e # c => pc'[e] = pc[e]
  BY DEF TypeOK
<1>4. CASE q = cur'[c].q
  BY <1>2, <1>3, <1>4 DEF Entering
<1>5. CASE q # cur'[c].q
  BY <1>2, <1>3, <1>5 DEF Entering
<1>6. QED BY <1>4, <1>5

\* A dead-lettered message is counted as unchecked where it arrives.
LEMMA DeadLetterSlack ==
  ASSUME TypeOK, NEW m \in Msg, NEW q \in Queue, deadLetter(m, q)
  PROVE  StoreSlack
<1>1. SUFFICES ASSUME NEW x \in Queue
               PROVE  Len(store'[x]) + bypass[x] <= Len(store[x]) + bypass'[x]
  BY DEF StoreSlack
<1>2. CASE DLX[q] = Nil
  BY <1>2, Numbers DEF deadLetter
<1>3. CASE DLX[q] # Nil
  <2>1. DLX[q] \in Queue
    BY <1>3, ConfigAssumption
  <2>2. Len(Enqueued(DLX[q], m)) = Len(store[DLX[q]]) + 1
    BY <2>1, EnqueuedType
  <2>3. store' = [store EXCEPT ![DLX[q]] = Enqueued(DLX[q], m)]
        /\ bypass' = [bypass EXCEPT ![DLX[q]] = @ + 1]
    BY <1>3 DEF deadLetter, Bypass
  <2>4. CASE x = DLX[q]
    <3>1. store'[x] = Enqueued(DLX[q], m) /\ bypass'[x] = bypass[x] + 1
      BY <2>1, <2>3, <2>4 DEF TypeOK
    <3>2. QED BY <2>2, <2>4, <3>1, Numbers
  <2>5. CASE x # DLX[q]
    <3>1. store'[x] = store[x] /\ bypass'[x] = bypass[x]
      BY <2>1, <2>3, <2>5 DEF TypeOK
    <3>2. QED BY <3>1, Numbers
  <2>6. QED BY <2>4, <2>5
<1>4. QED BY <1>2, <1>3

\* A publisher passes the length check, or does not.
LEMMA CheckLengthOvershoot ==
  ASSUME TypeOK, TypeOK', MaxLengthOvershoot, NEW c \in Conn, NEW m, NEW route \in Seq(Queue),
         route # <<>>, pc[c] \in {"idle", "check"}, CheckLength(c, m, route)
  PROVE  MaxLengthOvershoot'
<1> DEFINE h == Head(route)
<1>0. UNCHANGED <<store, bypass>> /\ \A e \in Conn : e # c => cur'[e] = cur[e]
  BY DEF CheckLength, histVars, TypeOK
<1>00. h \in Queue /\ cur'[c].q = h
  <2>1. h \in Queue
    BY HeadTailProperties
  <2>2. QED BY <2>1 DEF CheckLength, TypeOK, NoLocals
<1>1. StoreSlack
  BY <1>0, Numbers DEF StoreSlack
<1>2. CASE AtMaxLength(h)
  <2>1. pc' = [pc EXCEPT ![c] = "evict"]
    BY <1>2 DEF CheckLength
  <2>2. \A q \in Queue : Entering(q)' \subseteq Entering(q)
    BY <1>0, <2>1, EnteringLeaves
  <2>3. QED BY <1>1, <2>2, SlackStep
<1>3. CASE ~AtMaxLength(h)
  <2>1. pc' = [pc EXCEPT ![c] = "enqueue"]
    BY <1>3 DEF CheckLength
  <2>2. SUFFICES ASSUME NEW q \in Queue, MaxLen[q] > 0
                 PROVE  Len(store'[q]) + Cardinality(Entering(q)')
                          < MaxLen[q] + Cardinality(Conn) + bypass'[q]
    BY DEF MaxLengthOvershoot
  <2>3. /\ Len(store[q]) \in Nat /\ bypass[q] \in Nat /\ MaxLen[q] \in Nat
        /\ Cardinality(Conn) \in Nat /\ Cardinality(Entering(q)) \in Nat
        /\ IsFiniteSet(Entering(q))
    BY Numbers
  <2>4. Cardinality(Entering(q)') \in Nat /\ Cardinality(Entering(q)') <= Cardinality(Conn)
    BY NumbersNext
  <2>5. Entering(q)' = IF q = cur'[c].q THEN Entering(q) \cup {c} ELSE Entering(q) \ {c}
    BY <1>0, <1>00, <2>1, EnteringJoins
  <2>6. CASE q = h
    <3>1. Len(store[q]) < MaxLen[q]
      BY <1>3, <2>2, <2>3, <2>6 DEF AtMaxLength
    <3>2. QED BY <1>0, <2>3, <2>4, <3>1
  <2>7. CASE q # h
    <3>1. Entering(q)' \subseteq Entering(q)
      BY <1>00, <2>5, <2>7
    <3>2. Cardinality(Entering(q)') <= Cardinality(Entering(q))
      BY <2>3, <3>1, FS_Subset
    <3>3. Len(store[q]) + Cardinality(Entering(q)) < MaxLen[q] + Cardinality(Conn) + bypass[q]
      BY <2>2 DEF MaxLengthOvershoot
    <3>4. QED BY <1>0, <2>3, <2>4, <3>2, <3>3
  <2>8. QED BY <2>6, <2>7
<1>4. QED BY <1>2, <1>3

\* A publisher evicts the oldest message, and so enters the queue.
LEMMA EvictOvershoot ==
  ASSUME TypeOK, TypeOK', MaxLengthOvershoot, NEW c \in Conn, EvictOldest(c)
  PROVE  MaxLengthOvershoot'
<1> DEFINE h == cur[c].q
<1>0. bypass' = bypass /\ pc[c] = "evict" /\ \A e \in Conn : e # c => cur'[e] = cur[e]
  BY DEF EvictOldest, histVars, TypeOK
<1>1. h \in Queue /\ cur'[c].q = h
  <2>1. cur[c] \in Locals /\ LocalsSet(pc[c], cur[c])
    BY DEF TypeOK
  <2>2. h \in Queue
    BY <1>0, <2>1 DEF LocalsSet
  <2>3. QED BY <2>1, <2>2 DEF EvictOldest, TypeOK, Locals
<1>2. PICK p \in {"evicted", "enqueue"} : pc' = [pc EXCEPT ![c] = p]
  BY DEF EvictOldest
<1>3. SUFFICES ASSUME NEW q \in Queue, MaxLen[q] > 0
               PROVE  Len(store'[q]) + Cardinality(Entering(q)')
                        < MaxLen[q] + Cardinality(Conn) + bypass'[q]
  BY DEF MaxLengthOvershoot
<1>4. /\ Len(store[q]) \in Nat /\ bypass[q] \in Nat /\ MaxLen[q] \in Nat
      /\ Cardinality(Conn) \in Nat /\ Cardinality(Entering(q)) \in Nat
      /\ IsFiniteSet(Entering(q)) /\ store[q] \in Seq(Msg)
  BY Numbers
<1>5. Cardinality(Entering(q)') \in Nat /\ Cardinality(Entering(q)') <= Cardinality(Conn)
  BY NumbersNext
<1>6. Len(store[q]) + Cardinality(Entering(q)) < MaxLen[q] + Cardinality(Conn) + bypass[q]
  BY <1>3 DEF MaxLengthOvershoot
<1>7. Entering(q)' = IF q = cur'[c].q THEN Entering(q) \cup {c} ELSE Entering(q) \ {c}
  BY <1>0, <1>1, <1>2, EnteringJoins
<1>8. CASE q = h /\ store[q] = <<>>
  <2>1. Len(store'[q]) = 0
    BY <1>8 DEF EvictOldest
  <2>2. QED BY <1>0, <1>3, <1>4, <1>5, <2>1
<1>9. CASE q = h /\ store[q] # <<>>
  <2>1. store'[q] = Tail(store[q])
    BY <1>1, <1>9 DEF EvictOldest, TypeOK
  <2>2. Len(store'[q]) = Len(store[q]) - 1
    BY <1>4, <1>9, <2>1, HeadTailProperties
  <2>3. Entering(q)' = Entering(q) \cup {c} /\ c \notin Entering(q)
    BY <1>0, <1>1, <1>7, <1>9 DEF Entering
  <2>4. Cardinality(Entering(q)') = Cardinality(Entering(q)) + 1
    BY <1>4, <2>3, FS_AddElement
  <2>5. QED BY <1>0, <1>4, <1>6, <2>2, <2>4
<1>10. CASE q # h
  <2>1. store'[q] = store[q] /\ Entering(q)' \subseteq Entering(q)
    BY <1>1, <1>7, <1>10 DEF EvictOldest, TypeOK
  <2>2. Cardinality(Entering(q)') <= Cardinality(Entering(q))
    BY <1>4, <2>1, FS_Subset
  <2>3. QED BY <1>0, <1>4, <1>5, <1>6, <2>1, <2>2
<1>11. QED BY <1>8, <1>9, <1>10

\* A publisher that entered adds its message.
LEMMA EnqueueOvershoot ==
  ASSUME TypeOK, TypeOK', MaxLengthOvershoot, NEW c \in Conn, EnqueueMessage(c)
  PROVE  MaxLengthOvershoot'
<1> DEFINE h == cur[c].q
<1>0. bypass' = bypass /\ pc[c] = "enqueue"
  BY DEF EnqueueMessage
<1>1. h \in Queue /\ cur[c].m \in Msg
  BY <1>0 DEF TypeOK, LocalsSet
<1>2. PICK p \in {"deliver", "idle", "check"} : pc' = [pc EXCEPT ![c] = p]
  BY DEF EnqueueMessage, QueueDone
<1>20. \A e \in Conn : e # c => cur'[e] = cur[e]
  BY DEF EnqueueMessage, QueueDone, TypeOK
<1>3. SUFFICES ASSUME NEW q \in Queue, MaxLen[q] > 0
               PROVE  Len(store'[q]) + Cardinality(Entering(q)')
                        < MaxLen[q] + Cardinality(Conn) + bypass'[q]
  BY DEF MaxLengthOvershoot
<1>4. /\ Len(store[q]) \in Nat /\ bypass[q] \in Nat /\ MaxLen[q] \in Nat
      /\ Cardinality(Conn) \in Nat /\ Cardinality(Entering(q)) \in Nat
      /\ IsFiniteSet(Entering(q))
  BY Numbers
<1>5. Cardinality(Entering(q)') \in Nat
  BY NumbersNext
<1>6. Len(store[q]) + Cardinality(Entering(q)) < MaxLen[q] + Cardinality(Conn) + bypass[q]
  BY <1>3 DEF MaxLengthOvershoot
<1>7. Entering(q)' = Entering(q) \ {c}
  BY <1>2, <1>20, EnteringLeaves
<1>8. CASE q = h
  <2>1. store'[q] = Enqueued(q, cur[c].m)
    BY <1>1, <1>8 DEF EnqueueMessage, TypeOK
  <2>2. Len(store'[q]) = Len(store[q]) + 1
    BY <1>1, <1>8, <2>1, EnqueuedType
  <2>3. c \in Entering(q)
    BY <1>0, <1>8 DEF Entering
  <2>4. Cardinality(Entering(q)') = Cardinality(Entering(q)) - 1
    BY <1>4, <1>7, <2>3, FS_RemoveElement
  <2>5. QED BY <1>0, <1>4, <1>6, <2>2, <2>4
<1>9. CASE q # h
  <2>1. store'[q] = store[q] /\ Entering(q)' \subseteq Entering(q)
    BY <1>1, <1>7, <1>9 DEF EnqueueMessage, TypeOK
  <2>2. Cardinality(Entering(q)') <= Cardinality(Entering(q))
    BY <1>4, <2>1, FS_Subset
  <2>3. QED BY <1>0, <1>4, <1>5, <1>6, <2>1, <2>2
<1>10. QED BY <1>8, <1>9

\* A step that shortens one queue at most, or none, leaves slack.
LEMMA ShorterSlack ==
  ASSUME TypeOK, NEW q \in Queue, NEW s \in Seq(Msg), Len(s) <= Len(store[q]),
         store' = [store EXCEPT ![q] = s] \/ store' = store, bypass' = bypass
  PROVE  StoreSlack
<1>1. SUFFICES ASSUME NEW x \in Queue
               PROVE  Len(store'[x]) + bypass[x] <= Len(store[x]) + bypass'[x]
  BY DEF StoreSlack
<1>2. /\ Len(store[x]) \in Nat /\ Len(store[q]) \in Nat /\ bypass[x] \in Nat
      /\ Len(s) \in Nat
  BY Numbers, LenProperties
<1>3. (store'[x] = s /\ x = q) \/ store'[x] = store[x]
  BY DEF TypeOK
<1>4. QED BY <1>2, <1>3

\* Nack's requeue is counted as unchecked.
LEMMA NackSlack ==
  ASSUME TypeOK, NEW c \in Conn, Nack(c)
  PROVE  StoreSlack
<1> DEFINE d == tracked[ChanOf[c]][cur[c].tag]
<1>1. cur[c].tag \in Tag
  BY DEF TypeOK, Locals
<1>2. SUFFICES ASSUME NEW x \in Queue
               PROVE  Len(store'[x]) + bypass[x] <= Len(store[x]) + bypass'[x]
  BY DEF StoreSlack
<1>3. Len(store[x]) \in Nat /\ bypass[x] \in Nat /\ store[x] \in Seq(Msg)
  BY Numbers
<1>4. CASE d # NoDelivery /\ cur[c].requeue
  <2>1. Bypass(d.q, d.m, Append(store[d.q], d.m))
    BY <1>4 DEF Nack
  <2>2. d.q \in Queue /\ d.m \in Msg
    BY <1>1, <1>4, TrackedType
  <2> HIDE DEF d
  <2>3. CASE x = d.q
    <3>1. store'[x] = Append(store[x], d.m) /\ bypass'[x] = bypass[x] + 1
      BY <2>1, <2>2, <2>3 DEF Bypass, TypeOK
    <3>2. Len(store'[x]) = Len(store[x]) + 1
      BY <1>3, <2>2, <3>1, AppendProperties
    <3>3. QED BY <1>3, <3>1, <3>2
  <2>4. CASE x # d.q
    <3>1. store'[x] = store[x] /\ bypass'[x] = bypass[x]
      BY <2>1, <2>2, <2>4 DEF Bypass, TypeOK
    <3>2. QED BY <1>3, <3>1
  <2>5. QED BY <2>3, <2>4
<1>5. CASE ~(d # NoDelivery /\ cur[c].requeue)
  BY <1>3, <1>5 DEF Nack
<1>6. QED BY <1>4, <1>5

\* So are RecoverAll's.
LEMMA RecoverSlack ==
  ASSUME TypeOK, NEW c \in Conn, NEW first \in Tag, NEW requeue \in BOOLEAN,
         handleRecover(c, first, requeue)
  PROVE  StoreSlack
<1> DEFINE back(q) == Recovered(ChanOf[c], first, q) \o Recovered(ChanOf[c], 1 - first, q)
<1>1. SUFFICES ASSUME NEW x \in Queue
               PROVE  Len(store'[x]) + bypass[x] <= Len(store[x]) + bypass'[x]
  BY DEF StoreSlack
<1>2. Len(store[x]) \in Nat /\ bypass[x] \in Nat /\ store[x] \in Seq(Msg)
  BY Numbers
<1>3. CASE requeue
  <2>1. 1 - first \in Tag
    BY DEF Tag
  <2>2. back(x) \in Seq(Msg)
    BY <2>1, RecoveredType, ConcatProperties
  <2>3. store'[x] = store[x] \o back(x) /\ bypass'[x] = bypass[x] + Len(back(x))
    BY <1>3 DEF handleRecover
  <2> HIDE DEF back
  <2>4. Len(back(x)) \in Nat /\ Len(store'[x]) = Len(store[x]) + Len(back(x))
    BY <1>2, <2>2, <2>3, ConcatProperties, LenProperties
  <2>5. QED BY <1>2, <2>3, <2>4
<1>4. CASE ~requeue
  BY <1>2, <1>4 DEF handleRecover
<1>5. QED BY <1>3, <1>4

\* Get shortens its queue.
LEMMA GetSlack ==
  ASSUME TypeOK, NEW c \in Conn, NEW q \in Queue, NEW noAck, Get(c, q, noAck)
  PROVE  StoreSlack
<1>1. store[q] \in Seq(Msg) /\ Len(store[q]) \in Nat /\ bypass' = bypass
  BY Numbers DEF Get
<1>2. CASE store[q] = <<>>
  <2>1. store' = store
    BY <1>2 DEF Get
  <2>2. QED BY <1>1, <2>1, ShorterSlack
<1>3. CASE store[q] # <<>>
  <2>1. store' = [store EXCEPT ![q] = Tail(store[q])]
    BY <1>3 DEF Get
  <2>2. Tail(store[q]) \in Seq(Msg) /\ Len(Tail(store[q])) <= Len(store[q])
    BY <1>1, <1>3, HeadTailProperties
  <2>3. QED BY <1>1, <2>1, <2>2, ShorterSlack
<1>4. QED BY <1>2, <1>3

\* Get, and every handler's last step, lets nobody enter a queue.
LEMMA NobodyEnters ==
  ASSUME TypeOK, NEW c \in Conn, NEW p, p \notin {"evicted", "enqueue"},
         pc' = [pc EXCEPT ![c] = p],
         \A e \in Conn : e # c => cur'[e] = cur[e]
  PROVE  \A q \in Queue : Entering(q)' \subseteq Entering(q)
BY EnteringLeaves

\* Every step keeps the bound.
LEMMA NextOvershoot ==
  ASSUME TypeOK, TypeOK', MaxLengthOvershoot, [Next]_vars
  PROVE  MaxLengthOvershoot'
<1>1. ASSUME NEW c \in Conn,
             \/ \E route \in Routes, pri \in Priority : handlePublish(c, route, pri)
             \/ NextQueue(c) \/ EvictOldest(c) \/ DeadLetterEvicted(c)
             \/ EnqueueMessage(c) \/ DeliverPushed(c)
      PROVE  MaxLengthOvershoot'
  <2>0. cur[c] \in Locals /\ LocalsSet(pc[c], cur[c])
    BY DEF TypeOK
  <2>1. ASSUME NEW route \in Routes, NEW pri \in Priority, handlePublish(c, route, pri)
        PROVE  MaxLengthOvershoot'
    BY <2>1, ConfigAssumption, CheckLengthOvershoot DEF handlePublish
  <2>2. CASE NextQueue(c)
    <3>1. cur[c].todo \in Seq(Queue) /\ cur[c].todo # <<>>
      BY <2>0, <2>2 DEF NextQueue, LocalsSet, Locals
    <3>2. QED BY <2>2, <3>1, CheckLengthOvershoot DEF NextQueue
  <2>3. CASE DeadLetterEvicted(c)
    <3>1. cur[c].found.m \in Msg /\ cur[c].found.q \in Queue /\ cur[c].q \in Queue
          /\ pc[c] = "evicted"
      BY <2>0, <2>3 DEF DeadLetterEvicted, LocalsSet, Delivery
    <3>2. StoreSlack
      BY <2>3, <3>1, DeadLetterSlack DEF DeadLetterEvicted
    <3>3. cur'[c].q = cur[c].q /\ \A e \in Conn : e # c => cur'[e] = cur[e]
      BY <2>0, <2>3 DEF DeadLetterEvicted, TypeOK, Locals
    <3>4. pc' = [pc EXCEPT ![c] = "enqueue"]
      BY <2>3 DEF DeadLetterEvicted
    <3>5. \A q \in Queue : Entering(q)' = IF q = cur'[c].q THEN Entering(q) \cup {c}
                                          ELSE Entering(q) \ {c}
      BY <3>1, <3>3, <3>4, EnteringJoins
    <3>6. \A q \in Queue : q = cur'[c].q => c \in Entering(q)
      BY <3>1, <3>3 DEF Entering
    <3>7. \A q \in Queue : Entering(q)' \subseteq Entering(q)
      BY <3>5, <3>6
    <3>8. QED BY <3>2, <3>7, SlackStep
  <2>4. CASE DeliverPushed(c)
    <3>1. StoreSlack
      BY <2>4, Numbers DEF DeliverPushed, histVars, StoreSlack
    <3>2. PICK p \in {"idle", "check"} : pc' = [pc EXCEPT ![c] = p]
      BY <2>4 DEF DeliverPushed, QueueDone
    <3>3. \A e \in Conn : e # c => cur'[e] = cur[e]
      BY <2>4 DEF DeliverPushed, QueueDone, TypeOK
    <3>4. QED BY <3>1, <3>2, <3>3, NobodyEnters, SlackStep
  <2>5. QED BY <1>1, <2>1, <2>2, <2>3, <2>4, EvictOvershoot, EnqueueOvershoot
<1>2. ASSUME NEW c \in Conn,
             \/ Record(c)
             \/ \E tag \in Tag : handleAck(c, tag)
             \/ \E tag \in Tag, requeue \in BOOLEAN : handleNack(c, tag, requeue)
             \/ DeadLetterNacked(c)
             \/ \E q \in Queue : handleQueuePurge(c, q)
      PROVE  MaxLengthOvershoot'
  <2>1. CASE DeadLetterNacked(c)
    <3>1. cur[c].found.m \in Msg /\ cur[c].found.q \in Queue
      BY <2>1 DEF DeadLetterNacked, TypeOK, LocalsSet, Delivery
    <3>2. StoreSlack
      BY <2>1, <3>1, DeadLetterSlack DEF DeadLetterNacked
    <3>3. pc' = [pc EXCEPT ![c] = "idle"] /\ \A e \in Conn : e # c => cur'[e] = cur[e]
      BY <2>1 DEF DeadLetterNacked, TypeOK
    <3>4. QED BY <3>2, <3>3, NobodyEnters, SlackStep
  <2>2. CASE Record(c) \/ \E tag \in Tag, requeue \in BOOLEAN : handleNack(c, tag, requeue)
    <3>1. StoreSlack
      <4>1. store' = store /\ bypass' = bypass
        BY <2>2 DEF Record, handleNack, histVars
      <4>2. QED BY <4>1, Numbers DEF StoreSlack
    <3>2. PICK p \in {"idle", "nack"} : pc' = [pc EXCEPT ![c] = p]
      BY <2>2 DEF Record, handleNack
    <3>3. \A e \in Conn : e # c => cur'[e] = cur[e]
      BY <2>2 DEF Record, handleNack, TypeOK
    <3>4. QED BY <3>1, <3>2, <3>3, NobodyEnters, SlackStep
  <2>3. ASSUME NEW tag \in Tag, handleAck(c, tag) PROVE MaxLengthOvershoot'
    <3>1. StoreSlack
      BY <2>3, Numbers DEF handleAck, StoreSlack
    <3>2. \A q \in Queue : Entering(q)' = Entering(q)
      BY <2>3 DEF handleAck, Entering
    <3>3. QED BY <3>1, <3>2, SlackStep
  <2>4. ASSUME NEW q \in Queue, handleQueuePurge(c, q) PROVE MaxLengthOvershoot'
    <3>1. StoreSlack
      <4>1. <<>> \in Seq(Msg) /\ Len(<<>>) <= Len(store[q])
        BY EmptySeq, Numbers
      <4>2. store' = [store EXCEPT ![q] = <<>>] /\ bypass' = bypass
        BY <2>4 DEF handleQueuePurge
      <4>3. QED BY <4>1, <4>2, ShorterSlack
    <3>2. \A x \in Queue : Entering(x)' = Entering(x)
      BY <2>4 DEF handleQueuePurge, Entering
    <3>3. QED BY <3>1, <3>2, SlackStep
  <2>5. QED BY <1>2, <2>1, <2>2, <2>3, <2>4
<1>3. ASSUME NEW c \in Conn, NEW q \in Queue, NEW noAck, Get(c, q, noAck)
      PROVE  MaxLengthOvershoot'
  <2>1. StoreSlack
    BY <1>3, GetSlack
  <2>2. PICK p \in {"idle", "get", "record"} : pc' = [pc EXCEPT ![c] = p]
    BY <1>3 DEF Get
  <2>3. \A e \in Conn : e # c => cur'[e] = cur[e]
    BY <1>3 DEF Get, TypeOK
  <2>4. QED BY <2>1, <2>2, <2>3, NobodyEnters, SlackStep
<1>4. ASSUME NEW c \in Conn, GetAgain(c) PROVE MaxLengthOvershoot'
  <2>1. cur[c].q \in Queue
    BY <1>4 DEF GetAgain, TypeOK, LocalsSet
  <2>2. QED BY <1>3, <1>4, <2>1 DEF GetAgain
<1>5. ASSUME NEW c \in Conn, Nack(c) PROVE MaxLengthOvershoot'
  <2>1. PICK p \in {"idle", "nacked"} : pc' = [pc EXCEPT ![c] = p]
    BY <1>5 DEF Nack
  <2>2. \A e \in Conn : e # c => cur'[e] = cur[e]
    BY <1>5 DEF Nack, TypeOK
  <2>3. QED BY <1>5, <2>1, <2>2, NackSlack, NobodyEnters, SlackStep
<1>6. ASSUME NEW c \in Conn, NEW first \in Tag, NEW requeue \in BOOLEAN,
             handleRecover(c, first, requeue)
      PROVE  MaxLengthOvershoot'
  <2>1. \A q \in Queue : Entering(q)' = Entering(q)
    BY <1>6 DEF handleRecover, Entering
  <2>2. QED BY <1>6, <2>1, RecoverSlack, SlackStep
<1>7. ASSUME NEW q \in TTLQ, NEW split \in Splits(Len(store[q])), ScanQueue(q, split)
      PROVE  MaxLengthOvershoot'
  <2>0. q \in Queue
    BY ConfigAssumption
  <2>1. \A x \in Queue : Entering(x)' = Entering(x)
    BY <1>7 DEF ScanQueue, Entering
  <2> DEFINE n == Len(store[q])
  <2> DEFINE st == store[q]
  <2> DEFINE f == split[1]
  <2> DEFINE s == [i \in DOMAIN f |-> st[f[i]]]
  <2>2. n \in Nat /\ st \in Seq(Msg)
    BY <2>0, Numbers
  <2>3. PICK k \in 0..(n - 1) : f \in [1..k -> 1..Len(st)]
    BY <2>2, SplitsType
  <2>4. store' = [store EXCEPT ![q] = s] /\ bypass' = bypass
    BY <1>7 DEF ScanQueue, histVars
  <2>5. s \in Seq(Msg) /\ Len(s) = k
    <3> HIDE DEF st, f
    <3> QED BY <2>2, <2>3, PickType
  <2>6. Len(s) <= Len(store[q])
    <3> HIDE DEF s
    <3> QED BY <2>2, <2>3, <2>5
  <2> HIDE DEF s
  <2>7. StoreSlack
    BY <2>0, <2>4, <2>5, <2>6, ShorterSlack
  <2>8. QED BY <2>1, <2>7, SlackStep
<1>8. ASSUME ScanCallback PROVE MaxLengthOvershoot'
  <2>1. Head(scan) \in Delivery
    BY <1>8, HeadTailProperties DEF ScanCallback, TypeOK
  <2>2. Head(scan).m \in Msg /\ Head(scan).q \in Queue
    BY <2>1 DEF Delivery
  <2>3. StoreSlack
    BY <1>8, <2>2, DeadLetterSlack DEF ScanCallback
  <2>4. \A q \in Queue : Entering(q)' = Entering(q)
    BY <1>8 DEF ScanCallback, Entering
  <2>5. QED BY <2>3, <2>4, SlackStep
<1>9. ASSUME UNCHANGED vars PROVE MaxLengthOvershoot'
  BY <1>9 DEF vars, MaxLengthOvershoot, Entering
<1>10. QED BY <1>1, <1>2, <1>3, <1>4, <1>5, <1>6, <1>7, <1>8, <1>9, NextCases DEF handleGet

\* Publishers overrun x-max-length by at most one message per other connection,
\* beyond the messages that skip the check, whatever the number of publishers.
THEOREM OvershootTheorem == Spec => []MaxLengthOvershoot
<1>1. Init => MaxLengthOvershoot
  <2> SUFFICES ASSUME Init, NEW q \in Queue, MaxLen[q] > 0
               PROVE  Len(store[q]) + Cardinality(Entering(q))
                        < MaxLen[q] + Cardinality(Conn) + bypass[q]
    BY DEF MaxLengthOvershoot
  <2>1. TypeOK
    BY InitType
  <2>2. store[q] = <<>> /\ bypass[q] = 0
    BY DEF Init
  <2>3. Len(store[q]) = 0
    BY <2>2
  <2>4. QED BY <2>1, <2>2, <2>3, Numbers
<1>2. TypeOK /\ TypeOK' /\ MaxLengthOvershoot /\ [Next]_vars => MaxLengthOvershoot'
  BY NextOvershoot
<1>3. QED BY <1>1, <1>2, TypeCorrect, PTL DEF Spec

----------------------------------------------------------------------------
(* Priority order                                                          *)

\* The messages of a queue.
Rng(s) == {s[i] : i \in DOMAIN s}

\* PriorityOrder of one queue, where R was requeued.
Ordered(s, R) ==
  \A i, j \in DOMAIN s : i < j /\ s[j] \notin R =>
    /\ s[i].pri >= s[j].pri
    /\ s[i] \notin R /\ s[i].pri = s[j].pri /\ s[i].from = s[j].from => s[i].id <= s[j].id

\* t is what is left of s when messages are taken out.
Thinned(t, s) ==
  \E g \in [DOMAIN t -> DOMAIN s] : Increasing(g) /\ \A i \in DOMAIN t : t[i] = s[g[i]]

\* Taking messages out keeps the order.
LEMMA ThinnedOrder ==
  ASSUME NEW s, NEW t, NEW R, Thinned(t, s)
  PROVE  (Ordered(s, R) => Ordered(t, R)) /\ Rng(t) \subseteq Rng(s)
<1>1. PICK g \in [DOMAIN t -> DOMAIN s] :
        Increasing(g) /\ \A i \in DOMAIN t : t[i] = s[g[i]]
  BY DEF Thinned
<1>2. Rng(t) \subseteq Rng(s)
  BY <1>1 DEF Rng
<1>3. ASSUME Ordered(s, R), NEW i \in DOMAIN t, NEW j \in DOMAIN t, i < j, t[j] \notin R
      PROVE  /\ t[i].pri >= t[j].pri
             /\ t[i] \notin R /\ t[i].pri = t[j].pri /\ t[i].from = t[j].from => t[i].id <= t[j].id
  <2>1. /\ g[i] \in DOMAIN s /\ g[j] \in DOMAIN s /\ g[i] < g[j]
        /\ t[i] = s[g[i]] /\ t[j] = s[g[j]]
    BY <1>1, <1>3 DEF Increasing
  <2>2. QED BY <1>3, <2>1 DEF Ordered
<1>4. QED BY <1>2, <1>3 DEF Ordered

\* The first message is taken out.
LEMMA TailThinned ==
  ASSUME NEW S, NEW s \in Seq(S), s # <<>>
  PROVE  Thinned(Tail(s), s)
<1> DEFINE t == Tail(s)
           g == [i \in DOMAIN t |-> i + 1]
<1>1. /\ Len(s) \in Nat /\ DOMAIN s = 1 .. Len(s) /\ Len(t) = Len(s) - 1
      /\ DOMAIN t = 1 .. Len(t) /\ \A i \in 1 .. Len(t) : t[i] = s[i + 1]
  BY HeadTailProperties, LenProperties
<1> HIDE DEF t
<1>2. g \in [DOMAIN t -> DOMAIN s] /\ Increasing(g) /\ \A i \in DOMAIN t : t[i] = s[g[i]]
  BY <1>1 DEF Increasing
<1>3. QED BY <1>2, Zenon DEF Thinned, t

\* Nothing is taken out, or everything.
LEMMA TrivialThinned ==
  ASSUME NEW S, NEW s \in Seq(S)
  PROVE  Thinned(s, s) /\ Thinned(<<>>, s)
<1>1. DOMAIN s \subseteq Nat
  BY LenProperties
<1>2. Thinned(s, s)
  <2> DEFINE g == [i \in DOMAIN s |-> i]
  <2>1. g \in [DOMAIN s -> DOMAIN s] /\ Increasing(g) /\ \A i \in DOMAIN s : s[i] = s[g[i]]
    BY <1>1 DEF Increasing
  <2>2. QED BY <2>1, Zenon DEF Thinned
<1>3. Thinned(<<>>, s)
  <2> DEFINE g == [i \in {} |-> i]
             e == <<>>
  <2>1. DOMAIN e = {}
    OBVIOUS
  <2>2. g \in [DOMAIN e -> DOMAIN s] /\ Increasing(g) /\ \A i \in DOMAIN e : e[i] = s[g[i]]
    BY <2>1 DEF Increasing
  <2>3. QED BY <2>2, Zenon DEF Thinned
<1>4. QED BY <1>2, <1>3

\* insertByPriority keeps the order, if the publisher of a message that was not requeued
\* has no later message in the queue.
LEMMA InsertOrder ==
  ASSUME NEW s \in Seq(Msg), NEW m \in Msg, NEW R, Ordered(s, R),
         m \notin R => \A x \in Rng(s) \ R : x.from = m.from => x.id <= m.id
  PROVE  Ordered(insertByPriority(s, m), R) /\ Rng(insertByPriority(s, m)) = Rng(s) \cup {m}
<1> DEFINE t == insertByPriority(s, m)
<1>1. Len(s) \in Nat /\ DOMAIN s = 1 .. Len(s) /\ \A i \in 1 .. Len(s) : s[i] \in Msg
  BY LenProperties, ElementOfSeq
<1>2. m.pri \in Nat /\ \A i \in 1 .. Len(s) : s[i].pri \in Nat
  BY <1>1 DEF Msg
<1>3. t \in Seq(Msg) /\ Len(t) = Len(s) + 1
  BY InsertProperties
<1>4. PICK p \in 1 .. (Len(s) + 1) :
        /\ t[p] = m
        /\ \A i \in 1 .. (p - 1) : t[i] = s[i] /\ s[i].pri >= m.pri
        /\ \A i \in (p + 1) .. (Len(s) + 1) : t[i] = s[i - 1]
        /\ p <= Len(s) => s[p].pri < m.pri
  BY InsertProperties
<1>5. DOMAIN t = 1 .. (Len(s) + 1)
  BY <1>3, LenProperties
<1> HIDE DEF t
<1>6. Rng(t) = Rng(s) \cup {m}
  <2>1. ASSUME NEW i \in DOMAIN t PROVE t[i] \in Rng(s) \cup {m}
    <3>1. CASE i < p
      <4>1. i \in 1 .. (p - 1) /\ i \in DOMAIN s
        BY <1>1, <1>5, <3>1
      <4>2. QED BY <1>4, <4>1 DEF Rng
    <3>2. CASE i = p
      BY <1>4, <3>2
    <3>3. CASE i > p
      <4>1. i \in (p + 1) .. (Len(s) + 1) /\ i - 1 \in DOMAIN s
        BY <1>1, <1>5, <3>3
      <4>2. QED BY <1>4, <4>1 DEF Rng
    <3>4. QED BY <1>1, <1>5, <3>1, <3>2, <3>3
  <2>2. ASSUME NEW i \in DOMAIN s PROVE s[i] \in Rng(t)
    <3>1. CASE i < p
      <4>1. i \in 1 .. (p - 1) /\ i \in DOMAIN t
        BY <1>1, <1>5, <3>1
      <4>2. QED BY <1>4, <4>1 DEF Rng
    <3>2. CASE i >= p
      <4>1. i + 1 \in (p + 1) .. (Len(s) + 1) /\ i + 1 \in DOMAIN t /\ (i + 1) - 1 = i
        BY <1>1, <1>5, <3>2
      <4>2. t[i + 1] = s[i]
        BY <1>4, <4>1
      <4>3. QED BY <4>1, <4>2 DEF Rng
    <3>3. QED BY <1>1, <3>1, <3>2
  <2>3. m \in Rng(t)
    BY <1>4, <1>5 DEF Rng
  <2>4. QED BY <2>1, <2>2, <2>3 DEF Rng
<1>7. ASSUME NEW i \in DOMAIN t, i > p, t[i] \notin R PROVE t[i].pri < m.pri
  <2>1. i - 1 \in DOMAIN s /\ p \in DOMAIN s /\ i \in (p + 1) .. (Len(s) + 1) /\ p <= i - 1
    BY <1>1, <1>5, <1>7
  <2>2. t[i] = s[i - 1] /\ s[p].pri < m.pri
    BY <1>1, <1>4, <2>1
  <2>3. CASE p = i - 1
    BY <2>2, <2>3
  <2>4. CASE p < i - 1
    <3>1. s[p].pri >= s[i - 1].pri
      BY <1>7, <2>1, <2>2, <2>4 DEF Ordered
    <3>2. s[p].pri \in Nat /\ s[i - 1].pri \in Nat
      BY <1>1, <1>2, <2>1
    <3>3. QED BY <1>2, <2>2, <3>1, <3>2
  <2>5. QED BY <1>1, <2>1, <2>3, <2>4
<1>8. ASSUME NEW i \in DOMAIN t, NEW j \in DOMAIN t, i < j, t[j] \notin R
      PROVE  /\ t[i].pri >= t[j].pri
             /\ t[i] \notin R /\ t[i].pri = t[j].pri /\ t[i].from = t[j].from => t[i].id <= t[j].id
  <2>1. i \in Nat /\ j \in Nat /\ p \in Nat
    BY <1>1, <1>5
  <2>2. CASE j < p
    <3>1. i \in 1 .. (p - 1) /\ j \in 1 .. (p - 1) /\ i \in DOMAIN s /\ j \in DOMAIN s
      BY <1>1, <1>5, <1>8, <2>2
    <3>2. t[i] = s[i] /\ t[j] = s[j]
      BY <1>4, <3>1
    <3>3. QED BY <1>8, <3>1, <3>2 DEF Ordered
  <2>3. CASE j = p
    <3>1. i \in 1 .. (p - 1) /\ i \in DOMAIN s
      BY <1>1, <1>5, <1>8, <2>3
    <3>2. t[i] = s[i] /\ s[i].pri >= m.pri /\ t[j] = m /\ s[i] \in Rng(s)
      BY <1>4, <2>3, <3>1 DEF Rng
    <3>3. QED BY <1>8, <3>2
  <2>4. CASE j > p
    <3>0. t[j].pri < m.pri
      BY <1>7, <1>8, <2>4
    <3>1. j \in (p + 1) .. (Len(s) + 1) /\ j - 1 \in DOMAIN s /\ t[j] = s[j - 1]
      BY <1>1, <1>4, <1>5, <2>4
    <3>2. s[j - 1].pri \in Nat
      BY <1>1, <1>2, <3>1
    <3>3. CASE i < p
      <4>1. i \in 1 .. (p - 1) /\ i \in DOMAIN s
        BY <1>1, <1>5, <3>3
      <4>2. t[i] = s[i] /\ i < j - 1
        BY <1>4, <2>1, <2>4, <3>3, <4>1
      <4>3. QED BY <1>8, <3>1, <4>1, <4>2 DEF Ordered
    <3>4. CASE i = p
      BY <1>2, <1>4, <3>0, <3>1, <3>2, <3>4
    <3>5. CASE i > p
      <4>1. i \in (p + 1) .. (Len(s) + 1) /\ i - 1 \in DOMAIN s /\ i - 1 < j - 1
        BY <1>1, <1>5, <1>8, <3>5
      <4>2. t[i] = s[i - 1]
        BY <1>4, <4>1
      <4>3. QED BY <1>8, <3>1, <4>1, <4>2 DEF Ordered
    <3>6. QED BY <2>1, <3>3, <3>4, <3>5
  <2>5. QED BY <2>1, <2>2, <2>3, <2>4
<1>9. QED BY <1>6, <1>8 DEF Ordered, t

\* What is requeued at the end disturbs nothing.
LEMMA ConcatOrder ==
  ASSUME NEW s \in Seq(Msg), NEW b \in Seq(Msg), NEW R, Ordered(s, R), Rng(b) \subseteq R
  PROVE  Ordered(s \o b, R) /\ Rng(s \o b) = Rng(s) \cup Rng(b)
<1> DEFINE t == s \o b
<1>1. /\ Len(s) \in Nat /\ DOMAIN s = 1 .. Len(s)
      /\ Len(b) \in Nat /\ DOMAIN b = 1 .. Len(b)
  BY LenProperties
<1>2. /\ t \in Seq(Msg) /\ Len(t) = Len(s) + Len(b)
      /\ \A i \in 1 .. Len(s) + Len(b) : t[i] = IF i <= Len(s) THEN s[i] ELSE b[i - Len(s)]
  BY ConcatProperties, Zenon
<1>3. DOMAIN t = 1 .. (Len(s) + Len(b))
  BY <1>2, LenProperties
<1> HIDE DEF t
<1>4. ASSUME NEW i \in DOMAIN t, i <= Len(s) PROVE i \in DOMAIN s /\ t[i] = s[i]
  BY <1>1, <1>2, <1>3, <1>4
<1>5. ASSUME NEW i \in DOMAIN t, i > Len(s) PROVE i - Len(s) \in DOMAIN b /\ t[i] = b[i - Len(s)]
  BY <1>1, <1>2, <1>3, <1>5
<1>6. Rng(t) = Rng(s) \cup Rng(b)
  <2>1. ASSUME NEW i \in DOMAIN t PROVE t[i] \in Rng(s) \cup Rng(b)
    <3>1. i \in Nat
      BY <1>1, <1>3
    <3>2. QED BY <1>1, <1>4, <1>5, <3>1 DEF Rng
  <2>2. ASSUME NEW i \in DOMAIN s PROVE s[i] \in Rng(t)
    <3>1. i \in DOMAIN t /\ i <= Len(s)
      BY <1>1, <1>3
    <3>2. QED BY <1>4, <3>1 DEF Rng
  <2>3. ASSUME NEW i \in DOMAIN b PROVE b[i] \in Rng(t)
    <3>1. i + Len(s) \in DOMAIN t /\ i + Len(s) > Len(s) /\ (i + Len(s)) - Len(s) = i
      BY <1>1, <1>3
    <3>2. t[i + Len(s)] = b[i]
      BY <1>5, <3>1
    <3>3. QED BY <3>1, <3>2 DEF Rng
  <2>4. QED BY <2>1, <2>2, <2>3 DEF Rng
<1>7. ASSUME NEW i \in DOMAIN t, NEW j \in DOMAIN t, i < j, t[j] \notin R
      PROVE  /\ t[i].pri >= t[j].pri
             /\ t[i] \notin R /\ t[i].pri = t[j].pri /\ t[i].from = t[j].from => t[i].id <= t[j].id
  <2>1. i \in Nat /\ j \in Nat
    BY <1>1, <1>3
  <2>2. ~(j > Len(s))
    BY <1>5, <1>7 DEF Rng
  <2>3. j <= Len(s) /\ i <= Len(s)
    BY <1>1, <1>7, <2>1, <2>2
  <2>4. i \in DOMAIN s /\ j \in DOMAIN s /\ t[i] = s[i] /\ t[j] = s[j]
    BY <1>4, <2>3
  <2>5. QED BY <1>7, <2>4 DEF Ordered
<1>8. QED BY <1>6, <1>7 DEF Ordered, t

\* More messages requeued, fewer obligations.
LEMMA MoreRequeued ==
  ASSUME NEW s, NEW R1, NEW R2, R1 \subseteq R2, Ordered(s, R1)
  PROVE  Ordered(s, R2)
BY DEF Ordered

\* The handler is in a Publish, with its message in hand.
PubPlaces == {"check", "evict", "evicted", "enqueue", "deliver"}

\* Messages are numbered in the order in which they are published: the one a connection
\* is publishing is its latest.
Numbered ==
  /\ \A c \in Conn : pc[c] \in PubPlaces => cur[c].m.from = c /\ cur[c].m.id < next
  /\ \A q \in PriorityQ : \A x \in Rng(store[q]) \ requeued :
       /\ x.id < next
       /\ \A c \in Conn : pc[c] \in PubPlaces /\ x.from = c => x.id <= cur[c].m.id

\* A step after which queue q holds what it held, less some messages, with requeued
\* messages put in by priority or at the end.
QueueCalm(q) ==
  \/ Thinned(store'[q], store[q])
  \/ \E m \in Msg : m \in requeued' /\ store'[q] = Enqueued(q, m)
  \/ \E b \in Seq(Msg) : Rng(b) \subseteq requeued' /\ store'[q] = store[q] \o b

\* Such a step keeps the order and brings no message that was not requeued.
LEMMA CalmOrder ==
  ASSUME TypeOK, PriorityOrder, requeued \subseteq requeued',
         \A q \in PriorityQ : QueueCalm(q)
  PROVE  /\ PriorityOrder'
         /\ \A q \in PriorityQ : Rng(store'[q]) \ requeued' \subseteq Rng(store[q]) \ requeued
<1>1. ASSUME NEW q \in PriorityQ
      PROVE  /\ Ordered(store'[q], requeued')
             /\ Rng(store'[q]) \subseteq Rng(store[q]) \cup requeued'
  <2>1. store[q] \in Seq(Msg) /\ q \in Queue
    BY ConfigAssumption DEF TypeOK
  <2>2. Ordered(store[q], requeued)
    BY DEF PriorityOrder, Ordered
  <2>3. Ordered(store[q], requeued')
    BY <2>2, MoreRequeued
  <2>4. CASE Thinned(store'[q], store[q])
    BY <2>3, <2>4, ThinnedOrder
  <2>5. ASSUME NEW m \in Msg, m \in requeued', store'[q] = Enqueued(q, m)
        PROVE  /\ Ordered(store'[q], requeued')
               /\ Rng(store'[q]) \subseteq Rng(store[q]) \cup requeued'
    <3>1. store'[q] = insertByPriority(store[q], m)
      BY <2>5 DEF Enqueued
    <3>2. QED BY <2>1, <2>3, <2>5, <3>1, InsertOrder
  <2>6. ASSUME NEW b \in Seq(Msg), Rng(b) \subseteq requeued', store'[q] = store[q] \o b
        PROVE  /\ Ordered(store'[q], requeued')
               /\ Rng(store'[q]) \subseteq Rng(store[q]) \cup requeued'
    BY <2>1, <2>3, <2>6, ConcatOrder
  <2>7. QED BY <2>4, <2>5, <2>6 DEF QueueCalm
<1>2. PriorityOrder'
  BY <1>1 DEF PriorityOrder, Ordered
<1>3. QED BY <1>1, <1>2

\* What a step does to the handlers that publish, when none starts or enqueues.
PubCalm ==
  /\ next' = next
  /\ \A c \in Conn : pc'[c] \in PubPlaces =>
       /\ pc[c] \in PubPlaces
       /\ cur'[c].m.from = cur[c].m.from /\ cur'[c].m.id = cur[c].m.id

\* A calm step keeps the order and the numbering.
LEMMA CalmStep ==
  ASSUME TypeOK, PriorityOrder, Numbered, requeued \subseteq requeued',
         \A q \in PriorityQ : QueueCalm(q), PubCalm
  PROVE  PriorityOrder' /\ Numbered'
<1>1. /\ PriorityOrder'
      /\ \A q \in PriorityQ : Rng(store'[q]) \ requeued' \subseteq Rng(store[q]) \ requeued
  BY CalmOrder
<1>2. \A c \in Conn : pc'[c] \in PubPlaces => cur'[c].m.from = c /\ cur'[c].m.id < next'
  BY DEF PubCalm, Numbered
<1>3. ASSUME NEW q \in PriorityQ, NEW x \in Rng(store'[q]) \ requeued'
      PROVE  /\ x.id < next'
             /\ \A c \in Conn : pc'[c] \in PubPlaces /\ x.from = c => x.id <= cur'[c].m.id
  <2>1. x \in Rng(store[q]) \ requeued
    BY <1>1
  <2>2. QED BY <2>1 DEF PubCalm, Numbered
<1>4. Numbered'
  BY <1>2, <1>3 DEF Numbered
<1>5. QED BY <1>1, <1>4

\* The queues a step does not touch are calm.
LEMMA SameCalm ==
  ASSUME TypeOK, NEW q \in PriorityQ, store'[q] = store[q]
  PROVE  QueueCalm(q)
<1>1. store[q] \in Seq(Msg)
  BY ConfigAssumption DEF TypeOK
<1>2. Thinned(store'[q], store[q])
  BY <1>1, TrivialThinned
<1>3. QED BY <1>2 DEF QueueCalm

\* Taking the first message is calm.
LEMMA TailCalm ==
  ASSUME TypeOK, NEW h \in Queue, store[h] # <<>>,
         store' = [store EXCEPT ![h] = Tail(store[h])], requeued' = requeued
  PROVE  requeued \subseteq requeued' /\ \A q \in PriorityQ : QueueCalm(q)
<1>1. store[h] \in Seq(Msg)
  BY DEF TypeOK
<1>2. Thinned(Tail(store[h]), store[h])
  BY <1>1, TailThinned
<1>3. ASSUME NEW q \in PriorityQ PROVE QueueCalm(q)
  <2>1. CASE q = h
    <3>1. store'[q] = Tail(store[h])
      BY <2>1 DEF TypeOK
    <3>2. QED BY <1>2, <2>1, <3>1 DEF QueueCalm
  <2>2. CASE q # h
    <3>1. store'[q] = store[q]
      BY <2>2, ConfigAssumption DEF TypeOK
    <3>2. QED BY <3>1, SameCalm
  <2>3. QED BY <2>1, <2>2
<1>4. QED BY <1>3

\* A step that leaves the store and the history of requeues alone is calm.
LEMMA StillCalm ==
  ASSUME TypeOK, store' = store, requeued' = requeued
  PROVE  requeued \subseteq requeued' /\ \A q \in PriorityQ : QueueCalm(q)
BY SameCalm

\* Dead-lettering is calm: what it enqueues counts as requeued.
LEMMA DeadLetterCalm ==
  ASSUME TypeOK, NEW m \in Msg, NEW h \in Queue, deadLetter(m, h)
  PROVE  requeued \subseteq requeued' /\ \A q \in PriorityQ : QueueCalm(q)
<1>1. CASE DLX[h] = Nil
  BY <1>1, StillCalm DEF deadLetter
<1>2. CASE DLX[h] # Nil
  <2>1. /\ store' = [store EXCEPT ![DLX[h]] = Enqueued(DLX[h], m)]
        /\ requeued' = requeued \cup {m} /\ DLX[h] \in Queue
    BY <1>2, ConfigAssumption DEF deadLetter, Bypass
  <2>2. ASSUME NEW q \in PriorityQ PROVE QueueCalm(q)
    <3>1. CASE q = DLX[h]
      <4>1. store'[q] = Enqueued(q, m) /\ m \in requeued'
        BY <2>1, <3>1 DEF TypeOK
      <4>2. QED BY <4>1, Zenon DEF QueueCalm
    <3>2. CASE q # DLX[h]
      <4>1. store'[q] = store[q]
        BY <2>1, <3>2, ConfigAssumption DEF TypeOK
      <4>2. QED BY <4>1, SameCalm
    <3>3. QED BY <3>1, <3>2
  <2>3. QED BY <2>1, <2>2
<1>3. QED BY <1>1, <1>2

\* Nack's requeue goes to the end of its queue.
LEMMA NackCalm ==
  ASSUME TypeOK, NEW c \in Conn, Nack(c)
  PROVE  requeued \subseteq requeued' /\ \A q \in PriorityQ : QueueCalm(q)
<1> DEFINE d == tracked[ChanOf[c]][cur[c].tag]
<1>1. cur[c].tag \in Tag
  BY DEF TypeOK, Locals
<1>2. CASE d # NoDelivery /\ cur[c].requeue
  <2>1. Bypass(d.q, d.m, Append(store[d.q], d.m))
    BY <1>2 DEF Nack
  <2>2. d.q \in Queue /\ d.m \in Msg
    BY <1>1, <1>2, TrackedType
  <2> HIDE DEF d
  <2>3. ASSUME NEW q \in PriorityQ PROVE QueueCalm(q)
    <3>0. store[q] \in Seq(Msg) /\ q \in Queue
      BY ConfigAssumption DEF TypeOK
    <3>1. CASE q = d.q
      <4> DEFINE b == <<d.m>>
      <4>1. store'[q] = Append(store[q], d.m) /\ d.m \in requeued'
        BY <2>1, <2>2, <3>1 DEF Bypass, TypeOK
      <4>2. Append(store[q], d.m) = store[q] \o b
        BY <2>2, <3>0, AppendIsConcat
      <4>3. b \in Seq(Msg) /\ Rng(b) \subseteq requeued'
        BY <2>2, <4>1 DEF Rng
      <4> HIDE DEF b
      <4>4. QED BY <4>1, <4>2, <4>3, Zenon DEF QueueCalm
    <3>2. CASE q # d.q
      <4>1. store'[q] = store[q]
        BY <2>1, <2>2, <3>0, <3>2 DEF Bypass, TypeOK
      <4>2. QED BY <4>1, SameCalm
    <3>3. QED BY <3>1, <3>2
  <2>4. QED BY <2>1, <2>3 DEF Bypass
<1>3. CASE ~(d # NoDelivery /\ cur[c].requeue)
  BY <1>3, StillCalm DEF Nack
<1>4. QED BY <1>2, <1>3

\* So do the deliveries that RecoverAll requeues.
LEMMA RecoverCalm ==
  ASSUME TypeOK, NEW c \in Conn, NEW first \in Tag, NEW requeue \in BOOLEAN,
         handleRecover(c, first, requeue)
  PROVE  requeued \subseteq requeued' /\ \A q \in PriorityQ : QueueCalm(q)
<1> DEFINE ch == ChanOf[c]
           back(q) == Recovered(ch, first, q) \o Recovered(ch, 1 - first, q)
           msgs == {tracked[ch][t].m : t \in {u \in Tag : tracked[ch][u] # NoDelivery}}
<1>1. CASE requeue
  <2>0. requeued' = requeued \cup msgs
    BY <1>1 DEF handleRecover
  <2>1. 1 - first \in Tag
    BY DEF Tag
  <2>2. ASSUME NEW q \in PriorityQ PROVE QueueCalm(q)
    <3>0. q \in Queue
      BY ConfigAssumption
    <3>1. store'[q] = store[q] \o back(q)
      BY <1>1, <3>0 DEF handleRecover
    <3>2. ASSUME NEW t \in Tag
          PROVE  Recovered(ch, t, q) \in Seq(Msg) /\ Rng(Recovered(ch, t, q)) \subseteq requeued'
      <4>1. Recovered(ch, t, q) \in Seq(Msg)
        BY <3>0, RecoveredType
      <4>2. CASE tracked[ch][t] # NoDelivery /\ tracked[ch][t].q = q
        <5>1. Recovered(ch, t, q) = <<tracked[ch][t].m>> /\ tracked[ch][t].m \in requeued'
          BY <2>0, <4>2 DEF Recovered
        <5>2. QED BY <4>1, <5>1 DEF Rng
      <4>3. CASE ~(tracked[ch][t] # NoDelivery /\ tracked[ch][t].q = q)
        <5>1. Recovered(ch, t, q) = <<>>
          BY <4>3 DEF Recovered
        <5>2. QED BY <4>1, <5>1 DEF Rng
      <4>4. QED BY <4>2, <4>3
    <3>3. back(q) \in Seq(Msg) /\ Rng(back(q)) \subseteq requeued'
      <4> DEFINE r1 == Recovered(ch, first, q)
                 r2 == Recovered(ch, 1 - first, q)
      <4>1. r1 \in Seq(Msg) /\ r2 \in Seq(Msg) /\ Rng(r1) \subseteq requeued' /\ Rng(r2) \subseteq requeued'
        BY <2>1, <3>2
      <4> HIDE DEF r1, r2
      <4>2. Ordered(r1, Rng(r1) \cup Rng(r2))
        BY DEF Ordered, Rng
      <4>3. Rng(r1 \o r2) = Rng(r1) \cup Rng(r2) /\ r1 \o r2 \in Seq(Msg)
        BY <4>1, <4>2, ConcatOrder, ConcatProperties
      <4>4. QED BY <4>1, <4>3 DEF r1, r2
    <3> HIDE DEF back
    <3>4. QED BY <3>1, <3>3, Zenon DEF QueueCalm
  <2>3. QED BY <2>0, <2>2
<1>2. CASE ~requeue
  BY <1>2, StillCalm DEF handleRecover
<1>3. QED BY <1>1, <1>2

\* Get takes the first message or none.
LEMMA GetCalm ==
  ASSUME TypeOK, NEW c \in Conn, NEW q \in Queue, NEW noAck, Get(c, q, noAck)
  PROVE  requeued \subseteq requeued' /\ \A x \in PriorityQ : QueueCalm(x)
<1>1. requeued' = requeued
  BY DEF Get
<1>2. CASE store[q] = <<>>
  BY <1>1, <1>2, StillCalm DEF Get
<1>3. CASE store[q] # <<>>
  <2>1. store' = [store EXCEPT ![q] = Tail(store[q])]
    BY <1>3 DEF Get
  <2>2. QED BY <1>1, <1>3, <2>1, TailCalm
<1>4. QED BY <1>2, <1>3

\* The scan takes messages out.
LEMMA ScanCalm ==
  ASSUME TypeOK, NEW q \in TTLQ, NEW split \in Splits(Len(store[q])), ScanQueue(q, split)
  PROVE  requeued \subseteq requeued' /\ \A x \in PriorityQ : QueueCalm(x)
<1> DEFINE n == Len(store[q])
           f == split[1]
           t == [i \in DOMAIN f |-> store[q][f[i]]]
<1>0. q \in Queue
  BY ConfigAssumption
<1>1. store[q] \in Seq(Msg) /\ n \in Nat /\ DOMAIN store[q] = 1 .. n
  BY <1>0, LenProperties DEF TypeOK
<1>2. PICK k \in 0 .. (n - 1) : f \in [1 .. k -> 1 .. n] /\ Increasing(f)
  BY <1>1 DEF Splits
<1>3. Thinned(t, store[q])
  <2>1. DOMAIN t = DOMAIN f /\ f \in [DOMAIN t -> DOMAIN store[q]]
    BY <1>1, <1>2
  <2>2. \A i \in DOMAIN t : t[i] = store[q][f[i]]
    OBVIOUS
  <2> HIDE DEF t, f
  <2>3. QED BY <1>2, <2>1, <2>2, Zenon DEF Thinned
<1>4. store' = [store EXCEPT ![q] = t] /\ requeued' = requeued
  BY DEF ScanQueue, histVars
<1> HIDE DEF t
<1>5. ASSUME NEW x \in PriorityQ PROVE QueueCalm(x)
  <2>1. CASE x = q
    BY <1>0, <1>3, <1>4, <2>1 DEF QueueCalm, TypeOK
  <2>2. CASE x # q
    <3>1. store'[x] = store[x]
      BY <1>4, <2>2, ConfigAssumption DEF TypeOK
    <3>2. QED BY <3>1, SameCalm
  <2>3. QED BY <2>1, <2>2
<1>6. QED BY <1>4, <1>5

\* A step of connection c that leaves it outside Publish.
LEMMA OutsideCalm ==
  ASSUME TypeOK, NEW c \in Conn, NEW p, p \notin PubPlaces, next' = next,
         pc' = [pc EXCEPT ![c] = p], \A e \in Conn : e # c => cur'[e] = cur[e]
  PROVE  PubCalm
<1>1. ASSUME NEW e \in Conn, pc'[e] \in PubPlaces
      PROVE  pc[e] \in PubPlaces /\ cur'[e] = cur[e]
  <2>1. e # c
    BY <1>1 DEF TypeOK
  <2>2. QED BY <1>1, <2>1 DEF TypeOK
<1>2. QED BY <1>1 DEF PubCalm

\* A new message has the highest number so far.
LEMMA PublishOrder ==
  ASSUME TypeOK, PriorityOrder, Numbered, NEW c \in Conn,
         NEW route \in Routes, NEW pri \in Priority, handlePublish(c, route, pri)
  PROVE  PriorityOrder' /\ Numbered'
<1> DEFINE m == [id |-> next, from |-> c, home |-> Head(route), pri |-> pri]
           l == [NoLocals EXCEPT !.m = [m EXCEPT !.home = Head(route)],
                                 !.q = Head(route), !.todo = Tail(route)]
<1>1. /\ store' = store /\ requeued' = requeued /\ next' = next + 1
      /\ cur' = [cur EXCEPT ![c] = l]
      /\ \A e \in Conn : e # c => pc'[e] = pc[e]
  BY DEF handlePublish, CheckLength, histVars, TypeOK
<1>2. l.m.from = c /\ l.m.id = next
  BY DEF NoLocals
<1>3. next \in Nat
  BY DEF TypeOK
<1> HIDE DEF l
<1>4. cur'[c] = l /\ \A e \in Conn : e # c => cur'[e] = cur[e]
  BY <1>1 DEF TypeOK
<1>5. PriorityOrder'
  BY <1>1 DEF PriorityOrder
<1>6. ASSUME NEW e \in Conn, pc'[e] \in PubPlaces
      PROVE  cur'[e].m.from = e /\ cur'[e].m.id < next'
  <2>1. CASE e = c
    BY <1>1, <1>2, <1>3, <1>4, <2>1
  <2>2. CASE e # c
    <3>1. pc[e] \in PubPlaces /\ cur'[e] = cur[e] /\ cur[e].m \in Msg
      BY <1>1, <1>4, <1>6, <2>2 DEF TypeOK, LocalsSet, PubPlaces
    <3>2. cur[e].m.id \in Nat
      BY <3>1 DEF Msg
    <3>3. QED BY <1>1, <1>3, <3>1, <3>2 DEF Numbered
  <2>3. QED BY <2>1, <2>2
<1>7. ASSUME NEW q \in PriorityQ, NEW x \in Rng(store[q]) \ requeued
      PROVE  /\ x.id < next'
             /\ \A e \in Conn : pc'[e] \in PubPlaces /\ x.from = e => x.id <= cur'[e].m.id
  <2>1. x.id \in Nat /\ x.id < next
    <3>1. store[q] \in Seq(Msg)
      BY ConfigAssumption DEF TypeOK
    <3>2. x \in Msg
      BY <3>1, LenProperties, ElementOfSeq DEF Rng
    <3>3. QED BY <3>2 DEF Numbered, Msg
  <2>2. ASSUME NEW e \in Conn, pc'[e] \in PubPlaces, x.from = e PROVE x.id <= cur'[e].m.id
    <3>1. CASE e = c
      BY <1>2, <1>3, <1>4, <2>1, <3>1
    <3>2. CASE e # c
      BY <1>1, <1>4, <2>2, <3>2 DEF Numbered
    <3>3. QED BY <3>1, <3>2
  <2>3. QED BY <1>1, <1>3, <2>1, <2>2
<1>8. QED BY <1>1, <1>5, <1>6, <1>7 DEF Numbered

\* The message enters behind those of its priority, its publisher's among them.
LEMMA EnqueueOrder ==
  ASSUME TypeOK, PriorityOrder, Numbered, NEW c \in Conn, EnqueueMessage(c)
  PROVE  PriorityOrder' /\ Numbered'
<1> DEFINE h == cur[c].q
           m == cur[c].m
<1>1. /\ pc[c] = "enqueue" /\ store' = [store EXCEPT ![h] = Enqueued(h, m)]
      /\ requeued' = requeued /\ next' = next
  BY DEF EnqueueMessage
<1>2. h \in Queue /\ m \in Msg /\ m.id \in Nat
  BY <1>1 DEF TypeOK, LocalsSet, Msg
<1>3. \A e \in Conn : e # c => pc'[e] = pc[e] /\ cur'[e] = cur[e]
  BY DEF EnqueueMessage, QueueDone, TypeOK
<1>4. pc'[c] \in PubPlaces => cur'[c] = cur[c]
  BY DEF EnqueueMessage, QueueDone, TypeOK, PubPlaces
<1>5. m.from = c /\ m.id < next
  BY <1>1 DEF Numbered, PubPlaces
<1>6. ASSUME NEW q \in PriorityQ
      PROVE  /\ Ordered(store'[q], requeued)
             /\ Rng(store'[q]) \subseteq Rng(store[q]) \cup {m}
  <2>1. store[q] \in Seq(Msg) /\ q \in Queue
    BY ConfigAssumption DEF TypeOK
  <2>2. Ordered(store[q], requeued)
    BY DEF PriorityOrder, Ordered
  <2>3. CASE q = h
    <3>1. store'[q] = insertByPriority(store[q], m)
      BY <1>1, <1>2, <2>3 DEF Enqueued, TypeOK
    <3>2. \A x \in Rng(store[q]) \ requeued : x.from = m.from => x.id <= m.id
      BY <1>1, <1>5 DEF Numbered, PubPlaces
    <3> HIDE DEF m
    <3>3. QED BY <1>2, <2>1, <2>2, <3>1, <3>2, InsertOrder
  <2>4. CASE q # h
    BY <1>1, <2>1, <2>2, <2>4 DEF TypeOK
  <2>5. QED BY <2>3, <2>4
<1> HIDE DEF h, m
<1>7. PriorityOrder'
  BY <1>1, <1>6 DEF PriorityOrder, Ordered
<1>8. \A e \in Conn : pc'[e] \in PubPlaces => pc[e] \in PubPlaces /\ cur'[e] = cur[e]
  BY <1>1, <1>3, <1>4 DEF PubPlaces
<1>9. ASSUME NEW q \in PriorityQ, NEW x \in Rng(store'[q]) \ requeued'
      PROVE  /\ x.id < next'
             /\ \A e \in Conn : pc'[e] \in PubPlaces /\ x.from = e => x.id <= cur'[e].m.id
  <2>1. CASE x = m
    BY <1>1, <1>2, <1>4, <1>5, <2>1 DEF m
  <2>2. CASE x # m
    <3>1. x \in Rng(store[q]) \ requeued
      BY <1>1, <1>6, <2>2
    <3>2. QED BY <1>1, <1>8, <3>1 DEF Numbered
  <2>3. QED BY <2>1, <2>2
<1>10. QED BY <1>1, <1>7, <1>8, <1>9 DEF Numbered

\* The other steps of a publish.
LEMMA PublisherOrder ==
  ASSUME TypeOK, PriorityOrder, Numbered, NEW c \in Conn,
         NextQueue(c) \/ EvictOldest(c) \/ DeadLetterEvicted(c) \/ DeliverPushed(c)
  PROVE  PriorityOrder' /\ Numbered'
<1>0. cur[c] \in Locals /\ LocalsSet(pc[c], cur[c])
  BY DEF TypeOK
<1>1. PubCalm
  <2>1. next' = next /\ pc[c] \in PubPlaces
    BY DEF NextQueue, EvictOldest, DeadLetterEvicted, DeliverPushed, PubPlaces
  <2>2. \A e \in Conn : e # c => pc'[e] = pc[e] /\ cur'[e] = cur[e]
    BY DEF NextQueue, CheckLength, EvictOldest, DeadLetterEvicted, DeliverPushed, QueueDone, TypeOK
  <2>3. pc'[c] \in PubPlaces => cur'[c].m.from = cur[c].m.from /\ cur'[c].m.id = cur[c].m.id
    <3>1. CASE NextQueue(c)
      <4> DEFINE m == cur[c].m
                 hm == [m EXCEPT !.home = Head(cur[c].todo)]
                 l == [NoLocals EXCEPT !.m = hm, !.q = Head(cur[c].todo),
                                       !.todo = Tail(cur[c].todo)]
      <4>1. m \in Msg
        BY <1>0, <3>1 DEF NextQueue, LocalsSet
      <4>2. hm.from = m.from /\ hm.id = m.id
        BY <4>1 DEF Msg
      <4>3. cur'[c] = l
        BY <3>1 DEF NextQueue, CheckLength, TypeOK
      <4> HIDE DEF hm
      <4>4. l.m = hm
        BY DEF NoLocals
      <4>5. QED BY <4>2, <4>3, <4>4
    <3>2. CASE EvictOldest(c) \/ DeadLetterEvicted(c)
      <4>1. \/ cur'[c] = cur[c]
            \/ \E x : cur'[c] = [cur[c] EXCEPT !.found = x]
        BY <3>2 DEF EvictOldest, DeadLetterEvicted, TypeOK
      <4>2. cur'[c].m = cur[c].m
        BY <1>0, <4>1 DEF Locals
      <4>3. QED BY <4>2
    <3>3. CASE DeliverPushed(c)
      BY <3>3 DEF DeliverPushed, QueueDone, TypeOK, PubPlaces
    <3>4. QED BY <3>1, <3>2, <3>3
  <2>4. QED BY <2>1, <2>2, <2>3 DEF PubCalm
<1>2. requeued \subseteq requeued' /\ \A q \in PriorityQ : QueueCalm(q)
  <2>1. CASE NextQueue(c) \/ DeliverPushed(c)
    BY <2>1, StillCalm DEF NextQueue, CheckLength, DeliverPushed, histVars
  <2>2. CASE EvictOldest(c)
    <3>1. cur[c].q \in Queue /\ requeued' = requeued
      BY <1>0, <2>2 DEF EvictOldest, LocalsSet, histVars
    <3>2. CASE store[cur[c].q] = <<>>
      BY <2>2, <3>1, <3>2, StillCalm DEF EvictOldest
    <3>3. CASE store[cur[c].q] # <<>>
      <4>1. store' = [store EXCEPT ![cur[c].q] = Tail(store[cur[c].q])]
        BY <2>2, <3>3 DEF EvictOldest
      <4>2. QED BY <3>1, <3>3, <4>1, TailCalm
    <3>4. QED BY <3>2, <3>3
  <2>3. CASE DeadLetterEvicted(c)
    <3>1. cur[c].found.m \in Msg /\ cur[c].found.q \in Queue
      BY <1>0, <2>3 DEF DeadLetterEvicted, LocalsSet, Delivery
    <3>2. QED BY <2>3, <3>1, DeadLetterCalm DEF DeadLetterEvicted
  <2>4. QED BY <2>1, <2>2, <2>3
<1>3. QED BY <1>1, <1>2, CalmStep

\* Getting and settling.
LEMMA SettleOrder ==
  ASSUME TypeOK, PriorityOrder, Numbered, NEW c \in Conn,
         \/ Record(c)
         \/ \E tag \in Tag : handleAck(c, tag)
         \/ \E tag \in Tag, requeue \in BOOLEAN : handleNack(c, tag, requeue)
         \/ DeadLetterNacked(c)
         \/ \E q \in Queue : handleQueuePurge(c, q)
  PROVE  PriorityOrder' /\ Numbered'
<1>1. CASE DeadLetterNacked(c)
  <2>1. cur[c].found.m \in Msg /\ cur[c].found.q \in Queue
    BY <1>1 DEF DeadLetterNacked, TypeOK, LocalsSet, Delivery
  <2>2. requeued \subseteq requeued' /\ \A q \in PriorityQ : QueueCalm(q)
    BY <1>1, <2>1, DeadLetterCalm DEF DeadLetterNacked
  <2>3. pc' = [pc EXCEPT ![c] = "idle"] /\ next' = next /\ \A e \in Conn : e # c => cur'[e] = cur[e]
    BY <1>1 DEF DeadLetterNacked, TypeOK
  <2>4. PubCalm
    BY <2>3, OutsideCalm DEF PubPlaces
  <2>5. QED BY <2>2, <2>4, CalmStep
<1>2. CASE Record(c) \/ \E tag \in Tag, requeue \in BOOLEAN : handleNack(c, tag, requeue)
  <2>1. store' = store /\ requeued' = requeued /\ next' = next
    BY <1>2 DEF Record, handleNack, histVars
  <2>2. PICK p \in {"idle", "nack"} : pc' = [pc EXCEPT ![c] = p]
    BY <1>2 DEF Record, handleNack
  <2>3. \A e \in Conn : e # c => cur'[e] = cur[e]
    BY <1>2 DEF Record, handleNack, TypeOK
  <2>4. PubCalm
    BY <2>1, <2>2, <2>3, OutsideCalm DEF PubPlaces
  <2>5. QED BY <2>1, <2>4, StillCalm, CalmStep
<1>3. ASSUME NEW tag \in Tag, handleAck(c, tag) PROVE PriorityOrder' /\ Numbered'
  <2>1. store' = store /\ requeued' = requeued /\ PubCalm
    BY <1>3 DEF handleAck, PubCalm
  <2>2. QED BY <2>1, StillCalm, CalmStep
<1>4. ASSUME NEW h \in Queue, handleQueuePurge(c, h) PROVE PriorityOrder' /\ Numbered'
  <2>1. store' = [store EXCEPT ![h] = <<>>] /\ requeued' = requeued /\ PubCalm
    BY <1>4 DEF handleQueuePurge, PubCalm
  <2>2. ASSUME NEW q \in PriorityQ PROVE QueueCalm(q)
    <3>1. store[q] \in Seq(Msg) /\ q \in Queue
      BY ConfigAssumption DEF TypeOK
    <3>2. CASE q = h
      <4>1. store'[q] = <<>>
        BY <2>1, <3>2 DEF TypeOK
      <4>2. QED BY <3>1, <4>1, TrivialThinned DEF QueueCalm
    <3>3. CASE q # h
      <4>1. store'[q] = store[q]
        BY <2>1, <3>1, <3>3 DEF TypeOK
      <4>2. QED BY <4>1, SameCalm
    <3>4. QED BY <3>2, <3>3
  <2>3. QED BY <2>1, <2>2, CalmStep
<1>5. QED BY <1>1, <1>2, <1>3, <1>4

\* Every step keeps the order.
LEMMA NextOrder ==
  ASSUME TypeOK, PriorityOrder, Numbered, [Next]_vars
  PROVE  PriorityOrder' /\ Numbered'
<1>1. ASSUME NEW c \in Conn, NEW q \in Queue, NEW noAck, Get(c, q, noAck)
      PROVE  PriorityOrder' /\ Numbered'
  <2>1. PICK p \in {"idle", "get", "record"} : pc' = [pc EXCEPT ![c] = p]
    BY <1>1 DEF Get
  <2>2. next' = next /\ \A e \in Conn : e # c => cur'[e] = cur[e]
    BY <1>1 DEF Get, TypeOK
  <2>3. PubCalm
    BY <2>1, <2>2, OutsideCalm DEF PubPlaces
  <2>4. QED BY <1>1, <2>3, GetCalm, CalmStep
<1>2. ASSUME NEW c \in Conn, GetAgain(c) PROVE PriorityOrder' /\ Numbered'
  <2>1. cur[c].q \in Queue
    BY <1>2 DEF GetAgain, TypeOK, LocalsSet
  <2>2. QED BY <1>1, <1>2, <2>1 DEF GetAgain
<1>3. ASSUME NEW c \in Conn, Nack(c) PROVE PriorityOrder' /\ Numbered'
  <2>1. PICK p \in {"idle", "nacked"} : pc' = [pc EXCEPT ![c] = p]
    BY <1>3 DEF Nack
  <2>2. next' = next /\ \A e \in Conn : e # c => cur'[e] = cur[e]
    BY <1>3 DEF Nack, TypeOK
  <2>3. PubCalm
    BY <2>1, <2>2, OutsideCalm DEF PubPlaces
  <2>4. QED BY <1>3, <2>3, NackCalm, CalmStep
<1>4. ASSUME NEW c \in Conn, NEW first \in Tag, NEW requeue \in BOOLEAN,
             handleRecover(c, first, requeue)
      PROVE  PriorityOrder' /\ Numbered'
  <2>1. PubCalm
    BY <1>4 DEF handleRecover, PubCalm
  <2>2. QED BY <1>4, <2>1, RecoverCalm, CalmStep
<1>5. ASSUME NEW q \in TTLQ, NEW split \in Splits(Len(store[q])), ScanQueue(q, split)
      PROVE  PriorityOrder' /\ Numbered'
  <2>1. PubCalm
    BY <1>5 DEF ScanQueue, PubCalm
  <2>2. QED BY <1>5, <2>1, ScanCalm, CalmStep
<1>6. ASSUME ScanCallback PROVE PriorityOrder' /\ Numbered'
  <2>1. Head(scan) \in Delivery
    BY <1>6, HeadTailProperties DEF ScanCallback, TypeOK
  <2>2. Head(scan).m \in Msg /\ Head(scan).q \in Queue
    BY <2>1 DEF Delivery
  <2>3. PubCalm
    BY <1>6 DEF ScanCallback, PubCalm
  <2>4. QED BY <1>6, <2>2, <2>3, DeadLetterCalm, CalmStep DEF ScanCallback
<1>7. ASSUME UNCHANGED vars PROVE PriorityOrder' /\ Numbered'
  BY <1>7 DEF vars, PriorityOrder, Numbered
<1>8. QED BY <1>1, <1>2, <1>3, <1>4, <1>5, <1>6, <1>7, NextCases, PublishOrder, EnqueueOrder,
             PublisherOrder, SettleOrder DEF handleGet

\* Nothing is queued or being published yet.
LEMMA InitOrder == Init => PriorityOrder /\ Numbered
<1> SUFFICES ASSUME Init PROVE PriorityOrder /\ Numbered
  OBVIOUS
<1>1. \A q \in PriorityQ : store[q] = <<>>
  BY ConfigAssumption DEF Init
<1>2. \A q \in PriorityQ : DOMAIN store[q] = {}
  BY <1>1
<1>3. \A c \in Conn : pc[c] \notin PubPlaces
  BY DEF Init, PubPlaces
<1>4. QED BY <1>2, <1>3 DEF PriorityOrder, Numbered, Rng

\* In a priority queue no published message waits behind one of lower priority, and one
\* connection's messages of equal priority keep their order, whatever is evicted, expired,
\* got, requeued or dead-lettered into the queue meanwhile.
THEOREM PriorityTheorem == Spec => []PriorityOrder
<1>1. TypeOK /\ PriorityOrder /\ Numbered /\ [Next]_vars => (PriorityOrder /\ Numbered)'
  BY NextOrder
<1>2. QED BY <1>1, InitOrder, TypeCorrect, PTL DEF Spec

----------------------------------------------------------------------------
(* Conservation: where the messages are                                    *)

\* No message twice.
NoDup(s) == \A i, j \in DOMAIN s : s[i] = s[j] => i = j

\* Those that can hold a message: the queues, the tracker's slots, the handlers between
\* two critical sections, and the scan.
StoreAt(q) == <<"store", q>>
TrackAt(ch, t) == <<"tracked", <<ch, t>>>>
HandOf(c) == <<"hand", c>>
ScanAt == <<"scan", 0>>

Holder == {StoreAt(q) : q \in Queue}
            \cup {TrackAt(ch, t) : ch \in Channel, t \in Tag}
            \cup {HandOf(c) : c \in Conn} \cup {ScanAt}

\* What the tracker has under a tag, what a handler has in hand, what the scan took out.
Track(ch, t) == IF tracked[ch][t] = NoDelivery THEN {} ELSE {tracked[ch][t].m}

Hand(c) == IF pc[c] = "record" THEN {cur[c].m}
           ELSE IF pc[c] \in {"evicted", "nacked"} THEN {cur[c].found.m} ELSE {}

Scanned == {scan[i].m : i \in DOMAIN scan}

\* What each holds.
Held == [h \in Holder |-> CASE h[1] = "store" -> Rng(store[h[2]])
                            [] h[1] = "tracked" -> Track(h[2][1], h[2][2])
                            [] h[1] = "hand" -> Hand(h[2])
                            [] OTHER -> Scanned]

\* The messages the broker answers for.
Live == entered \ (settled \cup replaced)

\* Each message of S is held by exactly one holder, and no other message is held.
Partition(F, S) ==
  /\ \A h \in Holder : F[h] \subseteq S
  /\ \A x \in S : \E h \in Holder : x \in F[h]
  /\ \A h1, h2 \in Holder : h1 # h2 => F[h1] \cap F[h2] = {}

\* The holders are distinct, whatever the names of queues and connections are.
LEMMA HolderDistinct ==
  /\ \A q1, q2 : StoreAt(q1) = StoreAt(q2) => q1 = q2
  /\ \A a, b, s, t : TrackAt(a, s) = TrackAt(b, t) => a = b /\ s = t
  /\ \A c, e : HandOf(c) = HandOf(e) => c = e
  /\ \A q, a, t : StoreAt(q) # TrackAt(a, t)
  /\ \A q, c : StoreAt(q) # HandOf(c)
  /\ \A q : StoreAt(q) # ScanAt
  /\ \A a, t, c : TrackAt(a, t) # HandOf(c)
  /\ \A a, t : TrackAt(a, t) # ScanAt
  /\ \A c : HandOf(c) # ScanAt
<1>1. /\ \A q1, q2 : StoreAt(q1) = StoreAt(q2) => q1 = q2
      /\ \A c, e : HandOf(c) = HandOf(e) => c = e
  BY DEF StoreAt, HandOf
<1>2. \A a, b, s, t : TrackAt(a, s) = TrackAt(b, t) => a = b /\ s = t
  BY DEF TrackAt
<1>3. "store" # "tracked" /\ "store" # "hand" /\ "store" # "scan" /\ "tracked" # "hand"
      /\ "tracked" # "scan" /\ "hand" # "scan"
  OBVIOUS
<1>4. /\ \A q : StoreAt(q)[1] = "store"
      /\ \A a, t : TrackAt(a, t)[1] = "tracked"
      /\ \A c : HandOf(c)[1] = "hand"
      /\ ScanAt[1] = "scan"
  BY DEF StoreAt, TrackAt, HandOf, ScanAt
<1>5. QED BY <1>1, <1>2, <1>3, <1>4

\* What Held says of each kind of holder.
HeldAsNamed ==
  /\ \A q \in Queue : StoreAt(q) \in Holder /\ Held[StoreAt(q)] = Rng(store[q])
  /\ \A ch \in Channel, t \in Tag : TrackAt(ch, t) \in Holder /\ Held[TrackAt(ch, t)] = Track(ch, t)
  /\ \A c \in Conn : HandOf(c) \in Holder /\ Held[HandOf(c)] = Hand(c)
  /\ ScanAt \in Holder /\ Held[ScanAt] = Scanned

\* Held is defined for every holder.
LEMMA HeldParts == HeldAsNamed
<1>1. ASSUME NEW q \in Queue PROVE StoreAt(q) \in Holder /\ Held[StoreAt(q)] = Rng(store[q])
  <2>1. StoreAt(q) \in Holder
    BY DEF Holder
  <2>2. StoreAt(q)[1] = "store" /\ StoreAt(q)[2] = q
    BY DEF StoreAt
  <2>3. QED BY <2>1, <2>2 DEF Held
<1>2. ASSUME NEW ch \in Channel, NEW t \in Tag
      PROVE  TrackAt(ch, t) \in Holder /\ Held[TrackAt(ch, t)] = Track(ch, t)
  <2>1. TrackAt(ch, t) \in Holder
    BY DEF Holder
  <2>2. TrackAt(ch, t)[1] = "tracked" /\ TrackAt(ch, t)[2][1] = ch /\ TrackAt(ch, t)[2][2] = t
    BY DEF TrackAt
  <2>3. QED BY <2>1, <2>2 DEF Held
<1>3. ASSUME NEW c \in Conn PROVE HandOf(c) \in Holder /\ Held[HandOf(c)] = Hand(c)
  <2>1. HandOf(c) \in Holder
    BY DEF Holder
  <2>2. HandOf(c)[1] = "hand" /\ HandOf(c)[2] = c
    BY DEF HandOf
  <2>3. QED BY <2>1, <2>2 DEF Held
<1>4. ScanAt \in Holder /\ Held[ScanAt] = Scanned
  <2>1. ScanAt \in Holder
    BY DEF Holder
  <2>2. ScanAt[1] = "scan"
    BY DEF ScanAt
  <2>3. QED BY <2>1, <2>2 DEF Held
<1>5. QED BY <1>1, <1>2, <1>3, <1>4 DEF HeldAsNamed

\* The same of the next state.
LEMMA HeldPartsNext == HeldAsNamed'
BY HeldParts, PTL

\* The holders of a kind whose part of the state does not change.
LEMMA HeldFrame ==
  ASSUME NEW K,
         \A q \in Queue : StoreAt(q) \in K \/ Rng(store'[q]) = Rng(store[q]),
         \A ch \in Channel, t \in Tag : TrackAt(ch, t) \in K \/ Track(ch, t)' = Track(ch, t),
         \A c \in Conn : HandOf(c) \in K \/ Hand(c)' = Hand(c),
         ScanAt \in K \/ Scanned' = Scanned
  PROVE  \A h \in Holder : h \notin K => Held'[h] = Held[h]
<1>1. /\ \A q \in Queue : Held'[StoreAt(q)] = Rng(store'[q])
      /\ \A ch \in Channel, t \in Tag : Held'[TrackAt(ch, t)] = Track(ch, t)'
      /\ \A c \in Conn : Held'[HandOf(c)] = Hand(c)'
      /\ Held'[ScanAt] = Scanned'
  BY HeldPartsNext DEF HeldAsNamed
<1>2. ASSUME NEW h \in Holder, h \notin K PROVE Held'[h] = Held[h]
  <2>1. CASE \E q \in Queue : h = StoreAt(q)
    BY <1>1, <1>2, <2>1, HeldParts DEF HeldAsNamed
  <2>2. CASE \E ch \in Channel, t \in Tag : h = TrackAt(ch, t)
    BY <1>1, <1>2, <2>2, HeldParts DEF HeldAsNamed
  <2>3. CASE \E c \in Conn : h = HandOf(c)
    BY <1>1, <1>2, <2>3, HeldParts DEF HeldAsNamed
  <2>4. CASE h = ScanAt
    BY <1>1, <1>2, <2>4, HeldParts DEF HeldAsNamed
  <2>5. QED BY <2>1, <2>2, <2>3, <2>4 DEF Holder
<1>3. QED BY <1>2

\* A message goes from one holder to another.
LEMMA MoveKeeps ==
  ASSUME NEW F, NEW G, NEW S, NEW a \in Holder, NEW b \in Holder, a # b,
         NEW X, X \subseteq F[a], G[a] = F[a] \ X, G[b] = F[b] \cup X,
         \A h \in Holder : h \notin {a, b} => G[h] = F[h], Partition(F, S)
  PROVE  Partition(G, S)
<1>1. \A h \in Holder : G[h] \subseteq S
  BY DEF Partition
<1>2. ASSUME NEW x \in S PROVE \E h \in Holder : x \in G[h]
  <2>1. PICK h \in Holder : x \in F[h]
    BY DEF Partition
  <2>2. CASE x \in X
    BY <2>2
  <2>3. CASE x \notin X
    BY <2>1, <2>3
  <2>4. QED BY <2>2, <2>3
<1>3. ASSUME NEW h1 \in Holder, NEW h2 \in Holder, h1 # h2, NEW x, x \in G[h1], x \in G[h2]
      PROVE  FALSE
  <2>1. CASE x \in X
    <3>1. \A h \in Holder : x \in F[h] => h = a
      BY <2>1 DEF Partition
    <3>2. \A h \in Holder : x \in G[h] => h = b
      BY <2>1, <3>1
    <3>3. QED BY <1>3, <3>2
  <2>2. CASE x \notin X
    <3>1. x \in F[h1] /\ x \in F[h2]
      BY <1>3, <2>2
    <3>2. QED BY <1>3, <3>1 DEF Partition
  <2>3. QED BY <2>1, <2>2
<1>4. QED BY <1>1, <1>2, <1>3 DEF Partition

\* The same of one message.
LEMMA MoveOne ==
  ASSUME NEW F, NEW G, NEW S, NEW a \in Holder, NEW b \in Holder, a # b,
         NEW m, m \in F[a], G[a] = F[a] \ {m}, G[b] = F[b] \cup {m},
         \A h \in Holder : h \notin {a, b} => G[h] = F[h], Partition(F, S)
  PROVE  Partition(G, S)
<1>1. \A h \in Holder : G[h] \subseteq S
  BY DEF Partition
<1>2. ASSUME NEW x \in S PROVE \E h \in Holder : x \in G[h]
  <2>1. PICK h \in Holder : x \in F[h]
    BY DEF Partition
  <2>2. CASE x = m
    BY <2>2
  <2>3. CASE x # m
    BY <2>1, <2>3
  <2>4. QED BY <2>2, <2>3
<1>3. ASSUME NEW h1 \in Holder, NEW h2 \in Holder, h1 # h2, NEW x, x \in G[h1], x \in G[h2]
      PROVE  FALSE
  <2>1. CASE x = m
    <3>1. \A h \in Holder : x \in F[h] => h = a
      BY <2>1 DEF Partition
    <3>2. \A h \in Holder : x \in G[h] => h = b
      BY <2>1, <3>1
    <3>3. QED BY <1>3, <3>2
  <2>2. CASE x # m
    <3>1. x \in F[h1] /\ x \in F[h2]
      BY <1>3, <2>2
    <3>2. QED BY <1>3, <3>1 DEF Partition
  <2>3. QED BY <2>1, <2>2
<1>4. QED BY <1>1, <1>2, <1>3 DEF Partition

\* Messages leave the broker.
LEMMA DropKeeps ==
  ASSUME NEW F, NEW G, NEW S, NEW a \in Holder, NEW X, X \subseteq F[a], G[a] = F[a] \ X,
         \A h \in Holder : h # a => G[h] = F[h], Partition(F, S)
  PROVE  Partition(G, S \ X)
<1>1. \A h \in Holder : h # a => F[h] \cap X = {}
  BY DEF Partition
<1>2. \A h \in Holder : G[h] = F[h] \ X
  BY <1>1
<1>3. QED BY <1>2 DEF Partition

\* Messages enter the broker.
LEMMA EnterKeeps ==
  ASSUME NEW F, NEW G, NEW S, NEW a \in Holder, NEW X, X \cap S = {}, G[a] = F[a] \cup X,
         \A h \in Holder : h # a => G[h] = F[h], Partition(F, S)
  PROVE  Partition(G, S \cup X)
<1>1. \A h \in Holder : F[h] \cap X = {}
  BY DEF Partition
<1>2. \A h \in Holder : G[h] \subseteq S \cup X
  BY DEF Partition
<1>3. \A x \in S \cup X : \E h \in Holder : x \in G[h]
  BY DEF Partition
<1>4. ASSUME NEW h1 \in Holder, NEW h2 \in Holder, h1 # h2 PROVE G[h1] \cap G[h2] = {}
  BY <1>1, <1>4 DEF Partition
<1>5. QED BY <1>2, <1>3, <1>4 DEF Partition

----------------------------------------------------------------------------
(* Conservation: sequences without duplicates                              *)

\* Taking the first message.
LEMMA TailHolds ==
  ASSUME NEW S, NEW s \in Seq(S), s # <<>>, NoDup(s)
  PROVE  /\ Head(s) \in Rng(s) /\ NoDup(Tail(s)) /\ Rng(Tail(s)) = Rng(s) \ {Head(s)}
<1> DEFINE t == Tail(s)
<1>1. /\ Len(s) \in Nat /\ DOMAIN s = 1 .. Len(s) /\ Len(t) = Len(s) - 1 /\ Len(s) > 0
      /\ DOMAIN t = 1 .. Len(t) /\ \A i \in 1 .. Len(t) : t[i] = s[i + 1]
  BY HeadTailProperties, LenProperties, EmptySeq
<1>2. Head(s) = s[1]
  OBVIOUS
<1> HIDE DEF t
<1>3. Head(s) \in Rng(s)
  BY <1>1, <1>2 DEF Rng
<1>4. NoDup(t)
  <2> SUFFICES ASSUME NEW i \in DOMAIN t, NEW j \in DOMAIN t, t[i] = t[j] PROVE i = j
    BY DEF NoDup
  <2>1. i + 1 \in DOMAIN s /\ j + 1 \in DOMAIN s /\ s[i + 1] = s[j + 1] /\ i \in Nat /\ j \in Nat
    BY <1>1
  <2>2. i + 1 = j + 1
    BY <2>1 DEF NoDup
  <2>3. QED BY <2>1, <2>2
<1>5. Rng(t) = Rng(s) \ {Head(s)}
  <2>1. ASSUME NEW i \in DOMAIN t PROVE t[i] \in Rng(s) \ {Head(s)}
    <3>1. i + 1 \in DOMAIN s /\ 1 \in DOMAIN s /\ i + 1 # 1 /\ t[i] = s[i + 1]
      BY <1>1
    <3>2. QED BY <1>2, <3>1 DEF NoDup, Rng
  <2>2. ASSUME NEW i \in DOMAIN s, s[i] # Head(s) PROVE s[i] \in Rng(t)
    <3>1. i - 1 \in DOMAIN t /\ (i - 1) + 1 = i
      BY <1>1, <1>2, <2>2
    <3>2. t[i - 1] = s[i]
      BY <1>1, <3>1
    <3>3. QED BY <3>1, <3>2 DEF Rng
  <2>3. QED BY <2>1, <2>2 DEF Rng
<1>6. QED BY <1>3, <1>4, <1>5 DEF t

\* Joining two queues that share nothing.
LEMMA ConcatHolds ==
  ASSUME NEW s \in Seq(Msg), NEW b \in Seq(Msg), NoDup(s), NoDup(b), Rng(s) \cap Rng(b) = {}
  PROVE  NoDup(s \o b) /\ Rng(s \o b) = Rng(s) \cup Rng(b)
<1>0. Ordered(s, Rng(s) \cup Rng(b))
  BY DEF Ordered, Rng
<1>1. Rng(s \o b) = Rng(s) \cup Rng(b)
  BY <1>0, ConcatOrder
<1> DEFINE t == s \o b
<1>2. /\ Len(s) \in Nat /\ DOMAIN s = 1 .. Len(s)
      /\ Len(b) \in Nat /\ DOMAIN b = 1 .. Len(b)
  BY LenProperties
<1>3. /\ t \in Seq(Msg) /\ Len(t) = Len(s) + Len(b)
      /\ \A i \in 1 .. Len(s) + Len(b) : t[i] = IF i <= Len(s) THEN s[i] ELSE b[i - Len(s)]
  BY ConcatProperties, Zenon
<1>4. DOMAIN t = 1 .. (Len(s) + Len(b))
  BY <1>3, LenProperties
<1> HIDE DEF t
<1>5. NoDup(t)
  <2> SUFFICES ASSUME NEW i \in DOMAIN t, NEW j \in DOMAIN t, t[i] = t[j] PROVE i = j
    BY DEF NoDup
  <2>1. ASSUME NEW k \in DOMAIN t, k <= Len(s) PROVE k \in DOMAIN s /\ t[k] = s[k] /\ t[k] \in Rng(s)
    BY <1>2, <1>3, <1>4, <2>1 DEF Rng
  <2>2. ASSUME NEW k \in DOMAIN t, k > Len(s)
        PROVE  k - Len(s) \in DOMAIN b /\ t[k] = b[k - Len(s)] /\ t[k] \in Rng(b)
    <3>1. k - Len(s) \in DOMAIN b /\ t[k] = b[k - Len(s)]
      BY <1>2, <1>3, <1>4, <2>2
    <3>2. QED BY <3>1 DEF Rng
  <2>3. i \in Nat /\ j \in Nat
    BY <1>2, <1>4
  <2>4. CASE i <= Len(s) /\ j <= Len(s)
    BY <2>1, <2>4 DEF NoDup
  <2>5. CASE i > Len(s) /\ j > Len(s)
    <3>1. i - Len(s) = j - Len(s)
      BY <2>2, <2>5 DEF NoDup
    <3>2. QED BY <1>2, <2>3, <3>1
  <2>6. CASE i <= Len(s) /\ j > Len(s)
    BY <2>1, <2>2, <2>6
  <2>7. CASE i > Len(s) /\ j <= Len(s)
    BY <2>1, <2>2, <2>7
  <2>8. QED BY <1>2, <2>3, <2>4, <2>5, <2>6, <2>7
<1>6. QED BY <1>1, <1>5 DEF t

\* A sequence of one message.
LEMMA SingleHolds ==
  ASSUME NEW m \in Msg
  PROVE  <<m>> \in Seq(Msg) /\ NoDup(<<m>>) /\ Rng(<<m>>) = {m}
BY DEF NoDup, Rng

\* No message at all.
LEMMA EmptyHolds == <<>> \in Seq(Msg) /\ NoDup(<<>>) /\ Rng(<<>>) = {}
BY EmptySeq DEF NoDup, Rng

\* Appending a message that is not there.
LEMMA AppendHolds ==
  ASSUME NEW s \in Seq(Msg), NEW m \in Msg, NoDup(s), m \notin Rng(s)
  PROVE  NoDup(Append(s, m)) /\ Rng(Append(s, m)) = Rng(s) \cup {m}
<1> DEFINE b == <<m>>
<1>1. b \in Seq(Msg) /\ NoDup(b) /\ Rng(b) = {m} /\ Append(s, m) = s \o b
  BY SingleHolds, AppendIsConcat
<1> HIDE DEF b
<1>2. QED BY <1>1, ConcatHolds

\* Inserting it by priority.
LEMMA InsertHolds ==
  ASSUME NEW s \in Seq(Msg), NEW m \in Msg, NoDup(s), m \notin Rng(s)
  PROVE  NoDup(insertByPriority(s, m)) /\ Rng(insertByPriority(s, m)) = Rng(s) \cup {m}
<1> DEFINE t == insertByPriority(s, m)
<1>0. Ordered(s, Rng(s) \cup {m})
  BY DEF Ordered, Rng
<1>1. Rng(t) = Rng(s) \cup {m}
  BY <1>0, InsertOrder
<1>2. Len(s) \in Nat /\ DOMAIN s = 1 .. Len(s)
  BY LenProperties
<1>3. t \in Seq(Msg) /\ Len(t) = Len(s) + 1
  BY InsertProperties
<1>4. PICK p \in 1 .. (Len(s) + 1) :
        /\ t[p] = m
        /\ \A i \in 1 .. (p - 1) : t[i] = s[i] /\ s[i].pri >= m.pri
        /\ \A i \in (p + 1) .. (Len(s) + 1) : t[i] = s[i - 1]
        /\ p <= Len(s) => s[p].pri < m.pri
  BY InsertProperties
<1>5. DOMAIN t = 1 .. (Len(s) + 1)
  BY <1>3, LenProperties
<1> HIDE DEF t
<1> DEFINE g(i) == IF i < p THEN i ELSE i - 1
<1>6. ASSUME NEW i \in DOMAIN t, i # p PROVE g(i) \in DOMAIN s /\ t[i] = s[g(i)] /\ t[i] # m
  <2>1. CASE i < p
    <3>1. i \in 1 .. (p - 1) /\ i \in DOMAIN s
      BY <1>2, <1>5, <2>1
    <3>2. QED BY <1>4, <2>1, <3>1 DEF Rng
  <2>2. CASE i > p
    <3>1. i \in (p + 1) .. (Len(s) + 1) /\ i - 1 \in DOMAIN s /\ ~(i < p)
      BY <1>2, <1>5, <2>2
    <3>2. QED BY <1>4, <3>1 DEF Rng
  <2>3. QED BY <1>2, <1>5, <1>6, <2>1, <2>2
<1>7. NoDup(t)
  <2> SUFFICES ASSUME NEW i \in DOMAIN t, NEW j \in DOMAIN t, t[i] = t[j] PROVE i = j
    BY DEF NoDup
  <2>1. CASE i = p \/ j = p
    BY <1>4, <1>6, <2>1
  <2>2. CASE i # p /\ j # p
    <3>1. g(i) = g(j)
      BY <1>6, <2>2 DEF NoDup
    <3>2. QED BY <1>2, <1>5, <2>2, <3>1
  <2>3. QED BY <2>1, <2>2
<1>8. QED BY <1>1, <1>7 DEF t

\* The enqueue of publishInternal.
LEMMA EnqueuedHolds ==
  ASSUME TypeOK, NEW q \in Queue, NEW m \in Msg, NoDup(store[q]), m \notin Rng(store[q])
  PROVE  NoDup(Enqueued(q, m)) /\ Rng(Enqueued(q, m)) = Rng(store[q]) \cup {m}
<1>1. store[q] \in Seq(Msg)
  BY DEF TypeOK
<1>2. QED BY <1>1, AppendHolds, InsertHolds DEF Enqueued

\* The first k positions of split stay and the others go: every position of the queue
\* does one, and none does both.
Covers(n, k, split) ==
  /\ split[1] \in [1 .. k -> 1 .. n] /\ split[2] \in [1 .. (n - k) -> 1 .. n]
  /\ \A i, j \in 1 .. k : split[1][i] = split[1][j] => i = j
  /\ \A i, j \in 1 .. (n - k) : split[2][i] = split[2][j] => i = j
  /\ \A i \in 1 .. k, j \in 1 .. (n - k) : split[1][i] # split[2][j]
  /\ \A p \in 1 .. n : \/ \E i \in 1 .. k : split[1][i] = p
                       \/ \E j \in 1 .. (n - k) : split[2][j] = p

\* RemoveExpired drops and duplicates no position.
LEMMA SplitCovers ==
  ASSUME NEW n \in Nat, NEW split \in Splits(n)
  PROVE  \E k \in 0 .. (n - 1) : Covers(n, k, split)
<1> DEFINE Half(k) == {s \in [1..k -> 1..n] \X [1..(n - k) -> 1..n] :
             /\ Increasing(s[1]) /\ Increasing(s[2])
             /\ \A i \in 1..k, j \in 1..(n - k) : s[1][i] # s[2][j]}
           f == split[1]
           g == split[2]
<1>0. \E k \in 0..(n - 1) : split \in Half(k)
  <2>1. Splits(n) = UNION {Half(k) : k \in 0..(n - 1)}
    BY DEF Splits
  <2> HIDE DEF Half
  <2>2. QED BY <2>1
<1>1. PICK k \in 0..(n - 1) :
        /\ f \in [1 .. k -> 1 .. n] /\ g \in [1 .. (n - k) -> 1 .. n]
        /\ Increasing(f) /\ Increasing(g)
        /\ \A i \in 1 .. k, j \in 1 .. (n - k) : f[i] # g[j]
  BY <1>0
<1>2. k \in Nat /\ n - k \in Nat
  BY <1>1
<1> HIDE DEF f, g
<1>3. ASSUME NEW r \in Nat, NEW e \in [1 .. r -> 1 .. n], Increasing(e)
      PROVE  \A i, j \in 1 .. r : e[i] = e[j] => i = j
  <2> SUFFICES ASSUME NEW i \in 1 .. r, NEW j \in 1 .. r, e[i] = e[j] PROVE i = j
    OBVIOUS
  <2>1. ~(i < j) /\ ~(j < i)
    BY <1>3 DEF Increasing
  <2>2. QED BY <2>1
<1>4. /\ \A i, j \in 1 .. k : f[i] = f[j] => i = j
      /\ \A i, j \in 1 .. (n - k) : g[i] = g[j] => i = j
  <2> DEFINE r == n - k
  <2>1. r \in Nat /\ g \in [1 .. r -> 1 .. n]
    BY <1>1, <1>2
  <2> HIDE DEF r
  <2>2. \A i, j \in 1 .. r : g[i] = g[j] => i = j
    BY <1>1, <1>3, <2>1
  <2>3. QED BY <1>1, <1>2, <1>3, <2>2 DEF r
<1>5. ASSUME NEW p \in 1 .. n, \A i \in 1 .. k : f[i] # p, \A j \in 1 .. (n - k) : g[j] # p
      PROVE  FALSE
  <2> DEFINE e == [i \in 1 .. n |-> IF i <= k THEN f[i] ELSE g[i - k]]
             T == (1 .. n) \ {p}
  <2>1. ASSUME NEW i \in 1 .. n
        PROVE  \/ i <= k /\ i \in 1 .. k /\ e[i] = f[i]
               \/ i > k /\ i - k \in 1 .. (n - k) /\ e[i] = g[i - k]
    BY <1>2
  <2>2. e \in [1 .. n -> T]
    <3>1. ASSUME NEW i \in 1 .. n PROVE e[i] \in T
      BY <1>1, <1>5, <2>1
    <3>2. QED BY <3>1
  <2>3. IsFiniteSet(1 .. n) /\ Cardinality(1 .. n) = n
    BY FS_Interval
  <2>4. IsFiniteSet(T) /\ Cardinality(T) = n - 1
    BY <2>3, FS_RemoveElement
  <2> HIDE DEF e, T
  <2>5. \E x, y \in 1 .. n : x # y /\ e[x] = e[y]
    BY <2>2, <2>3, <2>4, FS_PigeonHole
  <2>6. PICK x \in 1 .. n, y \in 1 .. n : x # y /\ e[x] = e[y]
    BY <2>5
  <2>7. CASE x <= k /\ y <= k
    BY <1>2, <1>4, <2>1, <2>6, <2>7
  <2>8. CASE x > k /\ y > k
    <3>1. x - k = y - k
      BY <1>2, <1>4, <2>1, <2>6, <2>8
    <3>2. QED BY <1>2, <2>6, <3>1
  <2>9. CASE x <= k /\ y > k
    BY <1>1, <1>2, <2>1, <2>6, <2>9
  <2>10. CASE x > k /\ y <= k
    BY <1>1, <1>2, <2>1, <2>6, <2>10
  <2>11. QED BY <1>2, <2>7, <2>8, <2>9, <2>10
<1>6. \A p \in 1 .. n : (\E i \in 1 .. k : f[i] = p) \/ (\E j \in 1 .. (n - k) : g[j] = p)
  BY <1>5
<1>7. Covers(n, k, split)
  BY <1>1, <1>4, <1>6, Zenon DEF f, g, Covers
<1>8. QED BY <1>7

----------------------------------------------------------------------------
(* Conservation: the invariant                                             *)

\* No queue and no scan has a message twice.
NoDups ==
  /\ \A q \in Queue : NoDup(store[q])
  /\ \A i, j \in DOMAIN scan : scan[i].m = scan[j].m => i = j

\* Each message that entered is held once, until it is settled or its record replaced.
HeldOnce ==
  /\ Partition(Held, Live)
  /\ NoDups
  /\ settled \cup replaced \subseteq entered

\* The queues the message in hand is still to enter.
ToCome(c) ==
  IF pc[c] = "check" THEN Rng(cur[c].todo)
  ELSE IF pc[c] \in {"evict", "evicted", "enqueue"} THEN {cur[c].q} \cup Rng(cur[c].todo)
  ELSE {}

\* It has entered none of them, and will enter none twice.
Fresh ==
  /\ \A x \in entered : x.id < next
  /\ \A c \in Conn : pc[c] \in {"check", "evict", "evicted", "enqueue"} =>
       /\ NoDup(cur[c].todo)
       /\ pc[c] # "check" => cur[c].q \notin Rng(cur[c].todo) /\ cur[c].m.home = cur[c].q
       /\ \A q \in ToCome(c) : [cur[c].m EXCEPT !.home = q] \notin entered

\* Nobody but the connection itself takes a delivery from its channel, so the one that
\* handleNack looked up is still there when Nack removes it; and nobody pushes.
NackFound ==
  \A c \in Conn : /\ pc[c] # "deliver"
                  /\ pc[c] = "nack" => cur[c].found = tracked[ChanOf[c]][cur[c].tag]

\* No push consumers, channel numbers of their own, and messages routed to each queue
\* once.  Every exchange type sees to the last; only bindings between exchanges can lead
\* to a queue on two ways.
PullOnly ==
  /\ Subscribed = {}
  /\ \A c, e \in Conn : ChanOf[c] = ChanOf[e] => c = e
  /\ \A route \in Routes : NoDup(route)

\* Nothing is in Nil's place.
LEMMA NoDeliveryType == NoDelivery \notin Delivery
BY ConfigAssumption DEF NoDelivery, Delivery

\* Nothing that anybody holds changes.
LEMMA StillHeld ==
  ASSUME HeldOnce, store' = store, scan' = scan,
         \A ch \in Channel, t \in Tag : Track(ch, t)' = Track(ch, t),
         \A c \in Conn : Hand(c)' = Hand(c),
         UNCHANGED <<entered, settled, replaced>>
  PROVE  HeldOnce'
<1> DEFINE K == {}
<1>1. \A h \in Holder : h \notin K => Held'[h] = Held[h]
  <2>1. (\A q \in Queue : Rng(store'[q]) = Rng(store[q])) /\ Scanned' = Scanned
    BY DEF Scanned
  <2> HIDE DEF K
  <2>2. QED BY <2>1, HeldFrame
<1>2. Live' = Live
  BY DEF Live
<1>3. Partition(Held', Live')
  BY <1>1, <1>2 DEF HeldOnce, Partition
<1>4. NoDups'
  BY DEF HeldOnce, NoDups
<1>5. QED BY <1>3, <1>4 DEF HeldOnce

\* The message at the front of a queue leaves it.
LEMMA TakeFirst ==
  ASSUME TypeOK, HeldOnce, NEW q \in Queue, store[q] # <<>>,
         store' = [store EXCEPT ![q] = Tail(store[q])]
  PROVE  /\ Head(store[q]) \in Held[StoreAt(q)] /\ Head(store[q]) \in Msg
         /\ Held'[StoreAt(q)] = Held[StoreAt(q)] \ {Head(store[q])}
         /\ \A x \in Queue : NoDup(store'[x]) /\ (x # q => store'[x] = store[x])
<1>1. store[q] \in Seq(Msg) /\ NoDup(store[q])
  BY DEF TypeOK, HeldOnce, NoDups
<1>2. /\ Head(store[q]) \in Rng(store[q]) /\ NoDup(Tail(store[q]))
      /\ Rng(Tail(store[q])) = Rng(store[q]) \ {Head(store[q])}
      /\ Head(store[q]) \in Msg
  BY <1>1, TailHolds, HeadTailProperties
<1>3. store'[q] = Tail(store[q]) /\ \A x \in Queue : x # q => store'[x] = store[x]
  BY DEF TypeOK
<1>4. \A x \in Queue : NoDup(store'[x])
  BY <1>2, <1>3 DEF HeldOnce, NoDups
<1>5. Held[StoreAt(q)] = Rng(store[q]) /\ Held'[StoreAt(q)] = Rng(store'[q])
  BY HeldParts, HeldPartsNext DEF HeldAsNamed
<1>6. QED BY <1>2, <1>3, <1>4, <1>5

\* The hand of a connection is the only place its own step changes, at most.
LEMMA OtherHands ==
  ASSUME NEW c \in Conn, \A e \in Conn : e # c => pc'[e] = pc[e] /\ cur'[e] = cur[e]
  PROVE  \A e \in Conn : e # c => Hand(e)' = Hand(e)
BY DEF Hand

\* Dead-lettering moves the message from where it was to the queue behind the exchange,
\* or drops it.
LEMMA DeadLetterHeld ==
  ASSUME TypeOK, HeldOnce, Subscribed = {}, NEW a \in Holder, \A q \in Queue : a # StoreAt(q),
         NEW m \in Msg, m \in Held[a], NEW h \in Queue, deadLetter(m, h),
         Held'[a] = Held[a] \ {m},
         \A x \in Holder : x # a /\ (\A q \in Queue : x # StoreAt(q)) => Held'[x] = Held[x],
         entered' = entered, replaced' = replaced
  PROVE  /\ Partition(Held', Live') /\ (\A q \in Queue : NoDup(store'[q]))
         /\ settled' \cup replaced' \subseteq entered'
<1>0. Partition(Held, Live) /\ m \in Live /\ m \in entered
  BY DEF HeldOnce, Partition, Live
<1>1. CASE DLX[h] = Nil
  <2>1. settled' = settled \cup {m} /\ store' = store
    BY <1>1 DEF deadLetter
  <2>2. \A q \in Queue : Held'[StoreAt(q)] = Held[StoreAt(q)]
    BY <2>1, HeldParts, HeldPartsNext DEF HeldAsNamed
  <2>3. \A x \in Holder : x # a => Held'[x] = Held[x]
    BY <2>2
  <2>4. Live' = Live \ {m}
    BY <2>1 DEF Live
  <2>5. Partition(Held', Live')
    BY <1>0, <2>3, <2>4, DropKeeps
  <2>6. QED BY <1>0, <2>1, <2>5 DEF HeldOnce, NoDups
<1>2. CASE DLX[h] # Nil
  <2> DEFINE d == DLX[h]
  <2>1. /\ d \in Queue /\ store' = [store EXCEPT ![d] = Enqueued(d, m)] /\ settled' = settled
    BY <1>2, ConfigAssumption DEF deadLetter, Bypass
  <2> HIDE DEF d
  <2>2. Held[StoreAt(d)] = Rng(store[d]) /\ Held'[StoreAt(d)] = Rng(store'[d]) /\ StoreAt(d) \in Holder
    BY <2>1, HeldParts, HeldPartsNext DEF HeldAsNamed
  <2>3. m \notin Rng(store[d]) /\ StoreAt(d) # a
    BY <1>0, <2>1, <2>2 DEF Partition
  <2>4. /\ store'[d] = Enqueued(d, m) /\ NoDup(store'[d]) /\ Rng(store'[d]) = Rng(store[d]) \cup {m}
    BY <2>1, <2>3, EnqueuedHolds DEF HeldOnce, NoDups, TypeOK
  <2>5. \A q \in Queue : q # d => store'[q] = store[q]
    BY <2>1 DEF TypeOK
  <2>6. \A q \in Queue : q # d => Held'[StoreAt(q)] = Held[StoreAt(q)]
    BY <2>5, HeldParts, HeldPartsNext DEF HeldAsNamed
  <2>7. \A x \in Holder : x \notin {a, StoreAt(d)} => Held'[x] = Held[x]
    BY <2>6
  <2>8. Live' = Live
    BY <2>1 DEF Live
  <2>9. Partition(Held', Live)
    <3>1. StoreAt(d) \in Holder /\ Held'[StoreAt(d)] = Held[StoreAt(d)] \cup {m}
      BY <2>2, <2>4
    <3>2. QED BY <1>0, <2>3, <2>7, <3>1, MoveOne
  <2>10. \A q \in Queue : NoDup(store'[q])
    BY <2>4, <2>5 DEF HeldOnce, NoDups
  <2>11. QED BY <2>1, <2>8, <2>9, <2>10 DEF HeldOnce
<1>3. QED BY <1>1, <1>2

\* The message a publish or a Nack has in hand is dead-lettered.
LEMMA DeadLetterHandHeld ==
  ASSUME TypeOK, HeldOnce, Subscribed = {}, NEW c \in Conn, pc[c] \in {"evicted", "nacked"},
         deadLetter(cur[c].found.m, cur[c].found.q),
         pc'[c] \in {"enqueue", "idle"},
         \A e \in Conn : e # c => pc'[e] = pc[e] /\ cur'[e] = cur[e],
         UNCHANGED <<scan, entered, replaced>>
  PROVE  HeldOnce'
<1> DEFINE m == cur[c].found.m
           h == cur[c].found.q
           a == HandOf(c)
<1>1. m \in Msg /\ h \in Queue
  BY DEF TypeOK, LocalsSet, Delivery
<1>2. a \in Holder /\ Held[a] = Hand(c) /\ Held'[a] = Hand(c)'
  BY HeldParts, HeldPartsNext DEF HeldAsNamed
<1>3. Hand(c) = {m} /\ Hand(c)' = {}
  BY DEF Hand
<1>4. tracked' = tracked
  BY DEF deadLetter
<1>5. \A ch \in Channel, t \in Tag : Track(ch, t)' = Track(ch, t)
  BY <1>4 DEF Track
<1>6. Scanned' = Scanned
  BY DEF Scanned
<1> DEFINE K == {a} \cup {StoreAt(q) : q \in Queue}
<1>7. \A x \in Holder : x \notin K => Held'[x] = Held[x]
  <2>1. \A e \in Conn : HandOf(e) \in K \/ Hand(e)' = Hand(e)
    BY OtherHands
  <2>2. \A q \in Queue : StoreAt(q) \in K
    OBVIOUS
  <2> HIDE DEF K
  <2>3. QED BY <1>5, <1>6, <2>1, <2>2, HeldFrame
<1>8. \A q \in Queue : a # StoreAt(q)
  BY HolderDistinct
<1> HIDE DEF m, h, a
<1>9. deadLetter(m, h)
  BY DEF m, h
<1>10. \A x \in Holder : x # a /\ (\A q \in Queue : x # StoreAt(q)) => Held'[x] = Held[x]
  BY <1>7
<1>11. m \in Held[a] /\ Held'[a] = Held[a] \ {m}
  BY <1>2, <1>3
<1>12. /\ Partition(Held', Live') /\ (\A q \in Queue : NoDup(store'[q]))
       /\ settled' \cup replaced' \subseteq entered'
  BY <1>1, <1>2, <1>8, <1>9, <1>10, <1>11, DeadLetterHeld
<1>13. QED BY <1>12 DEF HeldOnce, NoDups

\* The scan dead-letters the first message it took out.
LEMMA ScanCallbackHeld ==
  ASSUME TypeOK, HeldOnce, Subscribed = {}, ScanCallback
  PROVE  HeldOnce'
<1> DEFINE m == Head(scan).m
           h == Head(scan).q
           t == Tail(scan)
<1>1. /\ scan \in Seq(Delivery) /\ scan # <<>> /\ scan' = t /\ deadLetter(m, h)
      /\ UNCHANGED <<pc, cur, entered, replaced>>
  BY DEF ScanCallback, TypeOK
<1>2. m \in Msg /\ h \in Queue
  <2>1. Head(scan) \in Delivery
    BY <1>1, HeadTailProperties
  <2>2. QED BY <2>1 DEF Delivery
<1>3. /\ Len(scan) \in Nat /\ DOMAIN scan = 1 .. Len(scan) /\ Len(t) = Len(scan) - 1 /\ Len(scan) > 0
      /\ DOMAIN t = 1 .. Len(t) /\ (\A i \in 1 .. Len(t) : t[i] = scan[i + 1]) /\ m = scan[1].m
  BY <1>1, HeadTailProperties, LenProperties, EmptySeq
<1>4. tracked' = tracked
  BY <1>1 DEF deadLetter
<1> HIDE DEF m, h, t
<1>5. m \in Scanned /\ Scanned' = Scanned \ {m}
  <2>0. \A i, j \in DOMAIN scan : scan[i].m = scan[j].m => i = j
    BY DEF HeldOnce, NoDups
  <2>1. m \in Scanned
    BY <1>3 DEF Scanned
  <2>2. ASSUME NEW i \in DOMAIN t PROVE t[i].m \in Scanned \ {m}
    <3>1. i + 1 \in DOMAIN scan /\ 1 \in DOMAIN scan /\ i + 1 # 1 /\ t[i] = scan[i + 1]
      BY <1>3
    <3>2. scan[i + 1].m # scan[1].m
      BY <2>0, <3>1
    <3>3. QED BY <1>3, <3>1, <3>2 DEF Scanned
  <2>3. ASSUME NEW i \in DOMAIN scan, scan[i].m # m PROVE \E j \in DOMAIN t : t[j].m = scan[i].m
    <3>1. i - 1 \in DOMAIN t /\ (i - 1) + 1 = i
      BY <1>3, <2>3
    <3>2. t[i - 1] = scan[i]
      BY <1>3, <3>1
    <3>3. QED BY <3>1, <3>2
  <2>4. Scanned' = {t[i].m : i \in DOMAIN t}
    BY <1>1 DEF Scanned
  <2>5. Scanned \ {m} \subseteq Scanned'
    <3> SUFFICES ASSUME NEW i \in DOMAIN scan, scan[i].m # m PROVE scan[i].m \in Scanned'
      BY DEF Scanned
    <3>1. QED BY <2>3, <2>4
  <2>6. Scanned' \subseteq Scanned \ {m}
    BY <2>2, <2>4
  <2>7. QED BY <2>1, <2>5, <2>6
<1>6. \A i, j \in DOMAIN scan' : scan'[i].m = scan'[j].m => i = j
  <2> SUFFICES ASSUME NEW i \in DOMAIN t, NEW j \in DOMAIN t, t[i].m = t[j].m PROVE i = j
    BY <1>1
  <2>1. i + 1 \in DOMAIN scan /\ j + 1 \in DOMAIN scan /\ i \in Nat /\ j \in Nat
        /\ t[i] = scan[i + 1] /\ t[j] = scan[j + 1]
    BY <1>3
  <2>2. i + 1 = j + 1
    BY <2>1 DEF HeldOnce, NoDups
  <2>3. QED BY <2>1, <2>2
<1>7. ScanAt \in Holder /\ Held[ScanAt] = Scanned /\ Held'[ScanAt] = Scanned'
  BY HeldParts, HeldPartsNext DEF HeldAsNamed
<1> DEFINE K == {ScanAt} \cup {StoreAt(q) : q \in Queue}
<1>8. \A x \in Holder : x \notin K => Held'[x] = Held[x]
  <2>1. \A e \in Conn : Hand(e)' = Hand(e)
    BY <1>1 DEF Hand
  <2>2. \A ch \in Channel, u \in Tag : Track(ch, u)' = Track(ch, u)
    BY <1>4 DEF Track
  <2>3. ScanAt \in K /\ \A q \in Queue : StoreAt(q) \in K
    OBVIOUS
  <2> HIDE DEF K
  <2>4. QED BY <2>1, <2>2, <2>3, HeldFrame
<1>9. \A q \in Queue : ScanAt # StoreAt(q)
  BY HolderDistinct
<1>10. \A x \in Holder : x # ScanAt /\ (\A q \in Queue : x # StoreAt(q)) => Held'[x] = Held[x]
  BY <1>8
<1>11. m \in Held[ScanAt] /\ Held'[ScanAt] = Held[ScanAt] \ {m}
  BY <1>5, <1>7
<1>12. /\ Partition(Held', Live') /\ (\A q \in Queue : NoDup(store'[q]))
       /\ settled' \cup replaced' \subseteq entered'
  BY <1>1, <1>2, <1>7, <1>9, <1>10, <1>11, DeadLetterHeld
<1>13. QED BY <1>6, <1>12 DEF HeldOnce, NoDups

\* The length check, and an eviction that finds the queue empty, touch no message.
LEMMA CheckHeld ==
  ASSUME TypeOK, HeldOnce, NEW c \in Conn,
         \/ \E route \in Routes, pri \in Priority : handlePublish(c, route, pri)
         \/ NextQueue(c)
  PROVE  HeldOnce'
<1>1. /\ UNCHANGED <<store, tracked, scan, entered, settled, replaced>>
      /\ \A e \in Conn : e # c => pc'[e] = pc[e] /\ cur'[e] = cur[e]
  BY DEF handlePublish, NextQueue, CheckLength, histVars, TypeOK
<1>2. pc[c] \in {"idle", "check"} /\ pc'[c] \in {"evict", "enqueue"}
  BY DEF handlePublish, NextQueue, CheckLength, TypeOK
<1>3. Hand(c)' = Hand(c)
  BY <1>2 DEF Hand
<1>4. \A e \in Conn : Hand(e)' = Hand(e)
  BY <1>1, <1>3, OtherHands
<1>5. \A ch \in Channel, t \in Tag : Track(ch, t)' = Track(ch, t)
  BY <1>1 DEF Track
<1>6. QED BY <1>1, <1>4, <1>5, StillHeld

\* A handler takes the first message of a queue in hand, or settles it.
LEMMA TakeHeld ==
  ASSUME TypeOK, HeldOnce, NEW c \in Conn, NEW q \in Queue, store[q] # <<>>,
         store' = [store EXCEPT ![q] = Tail(store[q])],
         Hand(c) = {},
         \/ Hand(c)' = {Head(store[q])} /\ settled' = settled
         \/ Hand(c)' = {} /\ settled' = settled \cup {Head(store[q])},
         \A e \in Conn : e # c => pc'[e] = pc[e] /\ cur'[e] = cur[e],
         UNCHANGED <<tracked, scan, entered, replaced>>
  PROVE  HeldOnce'
<1> DEFINE m == Head(store[q])
           a == StoreAt(q)
           b == HandOf(c)
<1>1. /\ m \in Held[a] /\ m \in Msg /\ Held'[a] = Held[a] \ {m}
      /\ \A x \in Queue : NoDup(store'[x]) /\ (x # q => store'[x] = store[x])
  BY TakeFirst
<1>2. /\ a \in Holder /\ b \in Holder /\ a # b
      /\ Held[b] = Hand(c) /\ Held'[b] = Hand(c)'
  BY HeldParts, HeldPartsNext, HolderDistinct DEF HeldAsNamed
<1> HIDE DEF m, a, b
<1>3. \A x \in Holder : x \notin {a, b} => Held'[x] = Held[x]
  <2>1. \A e \in Conn : HandOf(e) \in {a, b} \/ Hand(e)' = Hand(e)
    BY OtherHands DEF b
  <2>2. \A x \in Queue : StoreAt(x) \in {a, b} \/ Rng(store'[x]) = Rng(store[x])
    BY <1>1 DEF a
  <2>3. \A ch \in Channel, t \in Tag : Track(ch, t)' = Track(ch, t)
    BY DEF Track
  <2>4. Scanned' = Scanned
    BY DEF Scanned
  <2>5. QED BY <2>1, <2>2, <2>3, <2>4, HeldFrame
<1>4. NoDups'
  BY <1>1 DEF HeldOnce, NoDups
<1>5. m \in Live /\ m \in entered /\ Partition(Held, Live)
  BY <1>1, <1>2 DEF HeldOnce, Partition, Live
<1>6. CASE Hand(c)' = {m} /\ settled' = settled
  <2>1. Live' = Live
    BY <1>6 DEF Live
  <2>2. Held'[b] = Held[b] \cup {m}
    BY <1>2, <1>6
  <2>3. Partition(Held', Live)
    BY <1>1, <1>2, <1>3, <1>5, <2>2, MoveOne
  <2>4. QED BY <1>4, <1>6, <2>1, <2>3 DEF HeldOnce
<1>7. CASE Hand(c)' = {} /\ settled' = settled \cup {m}
  <2>1. Live' = Live \ {m}
    BY <1>7 DEF Live
  <2>2. \A x \in Holder : x # a => Held'[x] = Held[x]
    BY <1>2, <1>3, <1>7
  <2>3. Partition(Held', Live \ {m})
    BY <1>1, <1>2, <1>5, <2>2, DropKeeps
  <2>4. QED BY <1>4, <1>5, <1>7, <2>1, <2>3 DEF HeldOnce
<1>8. QED BY <1>6, <1>7 DEF m

\* An eviction takes the oldest message in hand.
LEMMA EvictHeld ==
  ASSUME TypeOK, HeldOnce, NEW c \in Conn, EvictOldest(c)
  PROVE  HeldOnce'
<1> DEFINE q == cur[c].q
<1>1. /\ pc[c] = "evict" /\ q \in Queue /\ cur[c] \in Locals
      /\ UNCHANGED <<tracked, scan, entered, settled, replaced>>
      /\ \A e \in Conn : e # c => pc'[e] = pc[e] /\ cur'[e] = cur[e]
  BY DEF EvictOldest, histVars, TypeOK, LocalsSet
<1>2. Hand(c) = {}
  BY <1>1 DEF Hand
<1>3. CASE store[q] = <<>>
  <2>1. store' = store /\ pc'[c] = "enqueue"
    BY <1>3 DEF EvictOldest, TypeOK
  <2>2. \A e \in Conn : Hand(e)' = Hand(e)
    BY <1>1, <1>2, <2>1, OtherHands DEF Hand
  <2>3. \A ch \in Channel, t \in Tag : Track(ch, t)' = Track(ch, t)
    BY <1>1 DEF Track
  <2>4. QED BY <1>1, <2>1, <2>2, <2>3, StillHeld
<1>4. CASE store[q] # <<>>
  <2>1. /\ store' = [store EXCEPT ![q] = Tail(store[q])] /\ pc'[c] = "evicted"
        /\ cur'[c] = [cur[c] EXCEPT !.found = [m |-> Head(store[q]), q |-> q]]
    BY <1>4 DEF EvictOldest, TypeOK
  <2>2. cur'[c].found.m = Head(store[q])
    BY <1>1, <2>1 DEF Locals
  <2>3. Hand(c)' = {Head(store[q])}
    BY <2>1, <2>2 DEF Hand
  <2> HIDE DEF q
  <2>4. QED BY <1>1, <1>2, <1>4, <2>1, <2>3, TakeHeld
<1>5. QED BY <1>3, <1>4

\* Get takes the first message in hand, or settles it.
LEMMA GetHeld ==
  ASSUME TypeOK, HeldOnce, NEW c \in Conn, NEW q \in Queue, NEW noAck,
         pc[c] \in {"idle", "get"}, Get(c, q, noAck)
  PROVE  HeldOnce'
<1>1. /\ cur[c] \in Locals /\ UNCHANGED <<tracked, scan, entered, replaced>>
      /\ \A e \in Conn : e # c => pc'[e] = pc[e] /\ cur'[e] = cur[e]
  BY DEF Get, TypeOK
<1>2. Hand(c) = {}
  BY DEF Hand
<1>3. CASE store[q] = <<>>
  <2>1. store' = store /\ settled' = settled /\ pc'[c] = "idle"
    BY <1>3 DEF Get, TypeOK
  <2>2. \A e \in Conn : Hand(e)' = Hand(e)
    BY <1>1, <1>2, <2>1, OtherHands DEF Hand
  <2>3. \A ch \in Channel, t \in Tag : Track(ch, t)' = Track(ch, t)
    BY <1>1 DEF Track
  <2>4. QED BY <1>1, <2>1, <2>2, <2>3, StillHeld
<1>4. CASE store[q] # <<>>
  <2>1. store' = [store EXCEPT ![q] = Tail(store[q])]
    BY <1>4 DEF Get
  <2>2. \/ pc'[c] \in {"idle", "get"} /\ settled' = settled \cup {Head(store[q])}
        \/ /\ pc'[c] = "record" /\ settled' = settled
           /\ cur'[c] = [cur[c] EXCEPT !.m = Head(store[q]), !.q = q]
    BY <1>4 DEF Get, TypeOK
  <2>3. \/ Hand(c)' = {Head(store[q])} /\ settled' = settled
        \/ Hand(c)' = {} /\ settled' = settled \cup {Head(store[q])}
    <3>1. CASE pc'[c] \in {"idle", "get"} /\ settled' = settled \cup {Head(store[q])}
      BY <3>1 DEF Hand
    <3>2. CASE /\ pc'[c] = "record" /\ settled' = settled
               /\ cur'[c] = [cur[c] EXCEPT !.m = Head(store[q]), !.q = q]
      <4>1. cur'[c].m = Head(store[q])
        BY <1>1, <3>2 DEF Locals
      <4>2. QED BY <3>2, <4>1 DEF Hand
    <3>3. QED BY <2>2, <3>1, <3>2
  <2>4. QED BY <1>1, <1>2, <1>4, <2>1, <2>3, TakeHeld
<1>5. QED BY <1>3, <1>4

\* A published message enters a queue that does not have it.
LEMMA EnqueueHeld ==
  ASSUME TypeOK, HeldOnce, Fresh, NEW c \in Conn, EnqueueMessage(c)
  PROVE  HeldOnce'
<1> DEFINE q == cur[c].q
           m == cur[c].m
           a == StoreAt(q)
<1>1. /\ pc[c] = "enqueue" /\ q \in Queue /\ m \in Msg
      /\ store' = [store EXCEPT ![q] = Enqueued(q, m)] /\ entered' = entered \cup {m}
      /\ UNCHANGED <<tracked, scan, settled, replaced>>
      /\ \A e \in Conn : e # c => pc'[e] = pc[e] /\ cur'[e] = cur[e]
      /\ pc'[c] \in {"deliver", "idle", "check"}
  BY DEF EnqueueMessage, QueueDone, TypeOK, LocalsSet
<1>2. m \notin entered
  <2>1. q \in ToCome(c) /\ m.home = q
    BY <1>1 DEF Fresh, ToCome
  <2>2. [m EXCEPT !.home = q] = m
    BY <1>1, <2>1 DEF Msg
  <2>3. QED BY <1>1, <2>1, <2>2 DEF Fresh
<1> HIDE DEF m, q
<1>3. a \in Holder /\ Held[a] = Rng(store[q]) /\ Held'[a] = Rng(store'[q])
  BY <1>1, HeldParts, HeldPartsNext DEF HeldAsNamed
<1>4. m \notin Live /\ m \notin Rng(store[q]) /\ Partition(Held, Live)
  BY <1>2, <1>3 DEF Live, HeldOnce, Partition
<1>5. /\ store'[q] = Enqueued(q, m) /\ NoDup(store'[q]) /\ Rng(store'[q]) = Rng(store[q]) \cup {m}
      /\ \A x \in Queue : x # q => store'[x] = store[x]
  BY <1>1, <1>4, EnqueuedHolds DEF HeldOnce, NoDups, TypeOK
<1>6. \A x \in Holder : x \notin {a} => Held'[x] = Held[x]
  <2>1. \A x \in Queue : StoreAt(x) \in {a} \/ Rng(store'[x]) = Rng(store[x])
    BY <1>5
  <2>2. \A e \in Conn : Hand(e)' = Hand(e)
    <3>1. Hand(c)' = Hand(c)
      BY <1>1 DEF Hand
    <3>2. QED BY <1>1, <3>1, OtherHands
  <2>3. \A ch \in Channel, t \in Tag : Track(ch, t)' = Track(ch, t)
    BY <1>1 DEF Track
  <2>4. Scanned' = Scanned
    BY <1>1 DEF Scanned
  <2> HIDE DEF a
  <2>5. QED BY <2>1, <2>2, <2>3, <2>4, HeldFrame
<1> HIDE DEF a
<1>7. Live' = Live \cup {m}
  BY <1>1, <1>2 DEF Live, HeldOnce
<1>8. Partition(Held', Live \cup {m})
  <2>1. {m} \cap Live = {} /\ Held'[a] = Held[a] \cup {m}
    BY <1>3, <1>4, <1>5
  <2>2. \A x \in Holder : x # a => Held'[x] = Held[x]
    BY <1>6
  <2>3. QED BY <1>3, <1>4, <2>1, <2>2, EnterKeeps
<1>9. NoDups'
  BY <1>1, <1>5 DEF HeldOnce, NoDups
<1>10. QED BY <1>1, <1>7, <1>8, <1>9 DEF HeldOnce

\* One slot of the tracker changes.
LEMMA TrackSet ==
  ASSUME TypeOK, NEW ch \in Channel, NEW t \in Tag, NEW x,
         tracked' = [tracked EXCEPT ![ch][t] = x]
  PROVE  /\ tracked'[ch][t] = x
         /\ \A b \in Channel, u \in Tag : (b # ch \/ u # t) => tracked'[b][u] = tracked[b][u]
<1>1. tracked' = [tracked EXCEPT ![ch] = [tracked[ch] EXCEPT ![t] = x]]
  OBVIOUS
<1>2. tracked \in [Channel -> [Tag -> Delivery \cup {NoDelivery}]]
  BY DEF TypeOK
<1>3. QED BY <1>1, <1>2

\* The holders other than one slot, one hand and the queues, when one slot changes.
LEMMA TrackFrame ==
  ASSUME TypeOK, NEW ch \in Channel, NEW t \in Tag, NEW x, NEW c \in Conn, NEW K,
         tracked' = [tracked EXCEPT ![ch][t] = x],
         \A e \in Conn : e # c => pc'[e] = pc[e] /\ cur'[e] = cur[e],
         HandOf(c) \in K \/ Hand(c)' = Hand(c), TrackAt(ch, t) \in K,
         \A q \in Queue : StoreAt(q) \in K \/ store'[q] = store[q],
         scan' = scan
  PROVE  \A h \in Holder : h \notin K => Held'[h] = Held[h]
<1>1. \A e \in Conn : HandOf(e) \in K \/ Hand(e)' = Hand(e)
  BY OtherHands
<1>2. \A b \in Channel, u \in Tag : TrackAt(b, u) \in K \/ Track(b, u)' = Track(b, u)
  BY TrackSet DEF Track
<1>3. Scanned' = Scanned
  BY DEF Scanned
<1>4. \A q \in Queue : StoreAt(q) \in K \/ Rng(store'[q]) = Rng(store[q])
  OBVIOUS
<1>5. QED BY <1>1, <1>2, <1>3, <1>4, HeldFrame

\* Ack settles the delivery.
LEMMA AckHeld ==
  ASSUME TypeOK, HeldOnce, NEW c \in Conn, NEW tag \in Tag, handleAck(c, tag)
  PROVE  HeldOnce'
<1> DEFINE ch == ChanOf[c]
           d == tracked[ch][tag]
           a == TrackAt(ch, tag)
<1>1. /\ ch \in Channel /\ d # NoDelivery /\ tracked' = [tracked EXCEPT ![ch][tag] = NoDelivery]
      /\ settled' = settled \cup {d.m}
      /\ UNCHANGED <<store, pc, cur, scan, entered, replaced>>
  BY ChannelType DEF handleAck
<1>2. a \in Holder /\ Held[a] = Track(ch, tag) /\ Held'[a] = Track(ch, tag)'
  BY <1>1, HeldParts, HeldPartsNext DEF HeldAsNamed
<1>3. Track(ch, tag) = {d.m} /\ Track(ch, tag)' = {}
  <2>0. tracked'[ch][tag] = NoDelivery
    <3> DEFINE x == NoDelivery
    <3>1. tracked' = [tracked EXCEPT ![ch][tag] = x]
      BY <1>1
    <3> HIDE DEF x
    <3>2. tracked' = [tracked EXCEPT ![ch] = [tracked[ch] EXCEPT ![tag] = x]]
      BY <3>1
    <3> HIDE DEF ch
    <3>3. tracked'[ch][tag] = x
      BY <1>1, <3>2 DEF TypeOK
    <3>4. QED BY <3>3 DEF x
  <2>1. QED BY <1>1, <2>0 DEF Track
<1>4. \A h \in Holder : h \notin {a} => Held'[h] = Held[h]
  <2> DEFINE K == {a}
           x == NoDelivery
  <2>1. TrackAt(ch, tag) \in K /\ Hand(c)' = Hand(c)
    BY <1>1 DEF Hand
  <2>2. /\ \A e \in Conn : e # c => pc'[e] = pc[e] /\ cur'[e] = cur[e]
        /\ \A q \in Queue : StoreAt(q) \in K \/ store'[q] = store[q]
        /\ scan' = scan /\ tracked' = [tracked EXCEPT ![ch][tag] = x] /\ ch \in Channel
    BY <1>1
  <2> HIDE DEF K, x, ch
  <2>4. \A h \in Holder : h \notin K => Held'[h] = Held[h]
    BY <2>1, <2>2, TrackFrame
  <2>5. QED BY <2>4 DEF K
<1> DEFINE m == d.m
<1> HIDE DEF a, m
<1>5. Held[a] = {m} /\ Held'[a] = Held[a] \ {m} /\ {m} \subseteq Held[a]
  BY <1>2, <1>3 DEF m
<1>6. Live' = Live \ {m} /\ m \in Live /\ m \in entered
  <2>1. m \in Live
    BY <1>2, <1>5 DEF HeldOnce, Partition
  <2>2. QED BY <1>1, <2>1 DEF Live, m
<1>7. Partition(Held', Live \ {m})
  <2>1. \A h \in Holder : h # a => Held'[h] = Held[h]
    BY <1>4
  <2>2. QED BY <1>2, <1>5, <2>1, DropKeeps DEF HeldOnce
<1>8. NoDups'
  BY <1>1 DEF HeldOnce, NoDups
<1>9. QED BY <1>1, <1>6, <1>7, <1>8 DEF HeldOnce, m

\* Record puts the message in hand under tag 1, over what was there.
LEMMA RecordHeld ==
  ASSUME TypeOK, HeldOnce, NEW c \in Conn, Record(c)
  PROVE  HeldOnce'
<1> DEFINE ch == ChanOf[c]
           old == tracked[ch][1]
           x == [m |-> cur[c].m, q |-> cur[c].q]
           a == TrackAt(ch, 1)
           b == HandOf(c)
           m == cur[c].m
<1>1. /\ ch \in Channel /\ 1 \in Tag /\ pc[c] = "record" /\ m \in Msg /\ x \in Delivery
      /\ tracked' = [tracked EXCEPT ![ch][1] = x]
      /\ replaced' = IF old = NoDelivery THEN replaced ELSE replaced \cup {old.m}
      /\ pc'[c] = "idle"
      /\ \A e \in Conn : e # c => pc'[e] = pc[e] /\ cur'[e] = cur[e]
      /\ UNCHANGED <<store, scan, entered, settled>>
  BY ChannelType DEF Record, TypeOK, LocalsSet, Tag, Delivery
<1>2. /\ a \in Holder /\ Held[a] = Track(ch, 1) /\ Held'[a] = Track(ch, 1)'
      /\ b \in Holder /\ Held[b] = Hand(c) /\ Held'[b] = Hand(c)' /\ a # b
  BY <1>1, HeldParts, HeldPartsNext, HolderDistinct DEF HeldAsNamed
<1>3. /\ Hand(c) = {m} /\ Hand(c)' = {} /\ Track(ch, 1)' = {m}
  <2>1. tracked'[ch][1] = x
    <3>1. tracked' = [tracked EXCEPT ![ch] = [tracked[ch] EXCEPT ![1] = x]]
      BY <1>1
    <3> HIDE DEF ch, x
    <3>2. QED BY <1>1, <3>1 DEF TypeOK
  <2>2. x # NoDelivery /\ x.m = m
    BY <1>1, NoDeliveryType
  <2>3. QED BY <1>1, <2>1, <2>2 DEF Hand, Track
<1>4. \A h \in Holder : h \notin {a, b} => Held'[h] = Held[h]
  <2> DEFINE K == {a, b}
           one == 1
  <2>1. TrackAt(ch, one) \in K /\ HandOf(c) \in K /\ one \in Tag
    BY <1>1
  <2>2. /\ \A e \in Conn : e # c => pc'[e] = pc[e] /\ cur'[e] = cur[e]
        /\ \A q \in Queue : StoreAt(q) \in K \/ store'[q] = store[q]
        /\ scan' = scan /\ tracked' = [tracked EXCEPT ![ch][one] = x] /\ ch \in Channel
    BY <1>1
  <2> HIDE DEF K, x, ch, one
  <2>4. \A h \in Holder : h \notin K => Held'[h] = Held[h]
    BY <2>1, <2>2, TrackFrame
  <2>5. QED BY <2>4 DEF K
<1> DEFINE O == Track(ch, 1)
           G == [Held EXCEPT ![a] = {}]
<1> HIDE DEF a, b, m
<1>5. Live' = Live \ O /\ O \subseteq Live /\ settled' \cup replaced' \subseteq entered'
  <2>1. O \subseteq Live
    BY <1>2 DEF HeldOnce, Partition
  <2>2. replaced' = replaced \cup O
    BY <1>1 DEF Track
  <2> HIDE DEF O
  <2>3. QED BY <1>1, <2>1, <2>2 DEF Live, HeldOnce
<1> HIDE DEF O
<1>6. Held \in [Holder -> SUBSET Live]
  BY DEF Held, HeldOnce, Partition
<1>7. Partition(G, Live \ O)
  <2>1. /\ O \subseteq Held[a] /\ G[a] = Held[a] \ O
        /\ \A h \in Holder : h # a => G[h] = Held[h]
    BY <1>2, <1>6 DEF O
  <2> HIDE DEF G
  <2>2. QED BY <1>2, <2>1, DropKeeps DEF HeldOnce
<1>8. Partition(Held', Live \ O)
  <2>1. /\ m \in G[b] /\ Held'[b] = G[b] \ {m} /\ Held'[a] = G[a] \cup {m}
        /\ \A h \in Holder : h \notin {b, a} => Held'[h] = G[h]
    BY <1>2, <1>3, <1>4, <1>6
  <2> HIDE DEF G
  <2>2. QED BY <1>2, <1>7, <2>1, MoveOne
<1>9. NoDups'
  BY <1>1 DEF HeldOnce, NoDups
<1>10. QED BY <1>5, <1>8, <1>9 DEF HeldOnce

\* Looking a delivery up takes nothing.
LEMMA LookupHeld ==
  ASSUME TypeOK, HeldOnce, NEW c \in Conn, NEW tag \in Tag, NEW requeue,
         handleNack(c, tag, requeue)
  PROVE  HeldOnce'
<1>1. /\ UNCHANGED <<store, tracked, scan, entered, settled, replaced>>
      /\ pc[c] = "idle" /\ pc'[c] = "nack"
      /\ \A e \in Conn : e # c => pc'[e] = pc[e] /\ cur'[e] = cur[e]
  BY DEF handleNack, histVars, TypeOK
<1>2. \A e \in Conn : Hand(e)' = Hand(e)
  BY <1>1, OtherHands DEF Hand
<1>3. \A ch \in Channel, t \in Tag : Track(ch, t)' = Track(ch, t)
  BY <1>1 DEF Track
<1>4. QED BY <1>1, <1>2, <1>3, StillHeld

\* A purge settles what the queue holds.
LEMMA PurgeHeld ==
  ASSUME TypeOK, HeldOnce, NEW c \in Conn, NEW q \in Queue, handleQueuePurge(c, q)
  PROVE  HeldOnce'
<1> DEFINE a == StoreAt(q)
           X == Rng(store[q])
<1>1. /\ store' = [store EXCEPT ![q] = <<>>] /\ settled' = settled \cup X
      /\ UNCHANGED <<tracked, pc, cur, scan, entered, replaced>>
  BY DEF handleQueuePurge, Rng
<1>2. store'[q] = <<>> /\ \A x \in Queue : x # q => store'[x] = store[x]
  BY <1>1 DEF TypeOK
<1>3. /\ a \in Holder /\ Held[a] = X /\ Held'[a] = Rng(store'[q])
  BY HeldParts, HeldPartsNext DEF HeldAsNamed
<1>4. Held'[a] = {} /\ NoDup(store'[q])
  BY <1>2, <1>3, EmptyHolds
<1>5. \A h \in Holder : h # a => Held'[h] = Held[h]
  <2> DEFINE K == {a}
  <2>1. \A x \in Queue : StoreAt(x) \in K \/ Rng(store'[x]) = Rng(store[x])
    BY <1>2
  <2>2. \A e \in Conn : Hand(e)' = Hand(e)
    BY <1>1 DEF Hand
  <2>3. \A ch \in Channel, t \in Tag : Track(ch, t)' = Track(ch, t)
    BY <1>1 DEF Track
  <2>4. Scanned' = Scanned
    BY <1>1 DEF Scanned
  <2> HIDE DEF K
  <2>5. \A h \in Holder : h \notin K => Held'[h] = Held[h]
    BY <2>1, <2>2, <2>3, <2>4, HeldFrame
  <2>6. QED BY <2>5 DEF K
<1> HIDE DEF a, X
<1>6. Live' = Live \ X /\ X \subseteq Live /\ X \subseteq entered
  BY <1>1, <1>3 DEF Live, HeldOnce, Partition
<1>7. Partition(Held', Live \ X)
  <2>1. X \subseteq Held[a] /\ Held'[a] = Held[a] \ X /\ Partition(Held, Live)
    BY <1>3, <1>4 DEF HeldOnce
  <2>2. QED BY <1>3, <1>5, <2>1, DropKeeps
<1>8. NoDups'
  BY <1>1, <1>2, <1>4 DEF HeldOnce, NoDups
<1>9. QED BY <1>1, <1>6, <1>7, <1>8 DEF HeldOnce

\* The scan takes some of the messages of a queue out.
LEMMA ScanHeld ==
  ASSUME TypeOK, HeldOnce, NEW q \in Queue, NEW split \in Splits(Len(store[q])),
         ScanQueue(q, split)
  PROVE  HeldOnce'
<1> DEFINE s == store[q]
           n == Len(s)
           f == split[1]
           g == split[2]
           a == StoreAt(q)
           b == ScanAt
<1>1. /\ scan = <<>>
      /\ store' = [store EXCEPT ![q] = [i \in DOMAIN f |-> s[f[i]]]]
      /\ scan' = [i \in DOMAIN g |-> [m |-> s[g[i]], q |-> q]]
      /\ UNCHANGED <<tracked, pc, cur, entered, settled, replaced>>
  BY DEF ScanQueue, histVars
<1>2. s \in Seq(Msg) /\ n \in Nat /\ DOMAIN s = 1 .. n /\ NoDup(s)
  BY LenProperties DEF TypeOK, HeldOnce, NoDups
<1>3. PICK k \in 0 .. (n - 1) : Covers(n, k, split)
  <2>1. n \in Nat /\ split \in Splits(n)
    BY <1>2
  <2> HIDE DEF n
  <2>2. QED BY <2>1, SplitCovers
<1>0. /\ f \in [1 .. k -> 1 .. n] /\ g \in [1 .. (n - k) -> 1 .. n]
      /\ \A i, j \in 1 .. k : f[i] = f[j] => i = j
      /\ \A i, j \in 1 .. (n - k) : g[i] = g[j] => i = j
      /\ \A i \in 1 .. k, j \in 1 .. (n - k) : f[i] # g[j]
      /\ \A p \in 1 .. n : \/ \E i \in 1 .. k : f[i] = p
                           \/ \E j \in 1 .. (n - k) : g[j] = p
  BY <1>3, Zenon DEF Covers
<1>4. \A x \in Queue : x # q => store'[x] = store[x]
  BY <1>1 DEF TypeOK
<1> DEFINE t == store'[q]
<1>5. DOMAIN t = 1 .. k /\ \A i \in 1 .. k : t[i] = s[f[i]]
  BY <1>1, <1>0 DEF TypeOK
<1>6. DOMAIN scan' = 1 .. (n - k) /\ \A j \in 1 .. (n - k) : scan'[j].m = s[g[j]]
  BY <1>1, <1>0
<1>7. Held[a] = Rng(s) /\ Held'[a] = Rng(t) /\ Held[b] = Scanned /\ Held'[b] = Scanned'
      /\ a \in Holder /\ b \in Holder /\ a # b
  BY HeldParts, HeldPartsNext, HolderDistinct DEF HeldAsNamed
<1>8. \A x \in Holder : x \notin {a, b} => Held'[x] = Held[x]
  <2> DEFINE K == {a, b}
  <2>1. \A x \in Queue : StoreAt(x) \in K \/ Rng(store'[x]) = Rng(store[x])
    BY <1>4
  <2>2. \A e \in Conn : Hand(e)' = Hand(e)
    BY <1>1 DEF Hand
  <2>3. \A ch \in Channel, u \in Tag : Track(ch, u)' = Track(ch, u)
    BY <1>1 DEF Track
  <2>4. ScanAt \in K
    OBVIOUS
  <2> HIDE DEF K
  <2>5. \A x \in Holder : x \notin K => Held'[x] = Held[x]
    BY <2>1, <2>2, <2>3, <2>4, HeldFrame
  <2>6. QED BY <2>5 DEF K
<1>9. Scanned = {}
  <2>1. DOMAIN scan = {}
    BY <1>1
  <2>2. QED BY <2>1 DEF Scanned
<1> HIDE DEF s, n, f, g, a, b, t
<1>10. NoDup(t) /\ \A i, j \in DOMAIN scan' : scan'[i].m = scan'[j].m => i = j
  <2>1. NoDup(t)
    <3> SUFFICES ASSUME NEW i \in 1 .. k, NEW j \in 1 .. k, t[i] = t[j] PROVE i = j
      BY <1>5 DEF NoDup
    <3>1. f[i] \in DOMAIN s /\ f[j] \in DOMAIN s /\ s[f[i]] = s[f[j]]
      BY <1>2, <1>0, <1>5
    <3>2. QED BY <1>2, <1>0, <3>1 DEF NoDup
  <2>2. ASSUME NEW i \in 1 .. (n - k), NEW j \in 1 .. (n - k), scan'[i].m = scan'[j].m PROVE i = j
    <3>1. g[i] \in DOMAIN s /\ g[j] \in DOMAIN s /\ s[g[i]] = s[g[j]]
      BY <1>2, <1>0, <1>6, <2>2
    <3>2. QED BY <1>2, <1>0, <3>1 DEF NoDup
  <2>3. QED BY <1>6, <2>1, <2>2
<1>11. Scanned' \subseteq Rng(s) /\ Rng(t) = Rng(s) \ Scanned'
  <2>1. \A j \in 1 .. (n - k) : scan'[j].m \in Rng(s)
    BY <1>2, <1>0, <1>6 DEF Rng
  <2>2. Scanned' = {scan'[j].m : j \in 1 .. (n - k)}
    BY <1>6 DEF Scanned
  <2>3. ASSUME NEW i \in 1 .. k PROVE t[i] \in Rng(s) \ Scanned'
    <3>1. t[i] = s[f[i]] /\ f[i] \in DOMAIN s
      BY <1>2, <1>0, <1>5
    <3>2. \A j \in 1 .. (n - k) : g[j] \in DOMAIN s /\ s[f[i]] # s[g[j]]
      BY <1>2, <1>0, <3>1 DEF NoDup
    <3>3. QED BY <1>6, <2>2, <3>1, <3>2 DEF Rng
  <2>4. ASSUME NEW p \in DOMAIN s, s[p] \notin Scanned' PROVE s[p] \in Rng(t)
    <3>1. ~ \E j \in 1 .. (n - k) : g[j] = p
      BY <1>6, <2>2, <2>4
    <3>2. PICK i \in 1 .. k : f[i] = p
      BY <1>2, <1>0, <3>1
    <3>3. QED BY <1>5, <3>2 DEF Rng
  <2>5. Rng(t) \subseteq Rng(s) \ Scanned'
    BY <1>5, <2>3 DEF Rng
  <2>6. Rng(s) \ Scanned' \subseteq Rng(t)
    BY <2>4 DEF Rng
  <2>7. QED BY <2>1, <2>2, <2>5, <2>6
<1>12. Partition(Held', Live)
  <2> DEFINE X == Scanned'
  <2>1. X \subseteq Held[a] /\ Held'[a] = Held[a] \ X /\ Held'[b] = Held[b] \cup X
    BY <1>7, <1>9, <1>11
  <2> HIDE DEF X
  <2>2. Partition(Held, Live)
    BY DEF HeldOnce
  <2> DEFINE H == Held
             H2 == Held'
             S == Live
  <2>3. /\ X \subseteq H[a] /\ H2[a] = H[a] \ X /\ H2[b] = H[b] \cup X /\ Partition(H, S)
        /\ \A x \in Holder : x \notin {a, b} => H2[x] = H[x]
    BY <1>8, <2>1, <2>2
  <2> HIDE DEF H, H2, S
  <2>4. Partition(H2, S)
    BY <1>7, <2>3, MoveKeeps
  <2>5. QED BY <2>4 DEF H2, S
<1>13. Live' = Live
  BY <1>1 DEF Live
<1>14. NoDups'
  BY <1>4, <1>10 DEF HeldOnce, NoDups, t
<1>15. QED BY <1>1, <1>12, <1>13, <1>14 DEF HeldOnce

\* A tracked delivery goes back to the end of its queue.  F and st are what is held and
\* queued before, G what is held after.
LEMMA SlotBack ==
  ASSUME TypeOK, NEW F, NEW G, NEW S, Partition(F, S), NEW ch \in Channel, NEW t \in Tag,
         NEW st \in [Queue -> Seq(Msg)],
         \A q \in Queue : NoDup(st[q]) /\ F[StoreAt(q)] = Rng(st[q]),
         F[TrackAt(ch, t)] = Track(ch, t), G[TrackAt(ch, t)] = {},
         \A q \in Queue : G[StoreAt(q)] = Rng(st[q] \o Recovered(ch, t, q)),
         \A h \in Holder : h # TrackAt(ch, t) /\ (\A q \in Queue : h # StoreAt(q)) => G[h] = F[h]
  PROVE  Partition(G, S) /\ \A q \in Queue : NoDup(st[q] \o Recovered(ch, t, q))
<1> DEFINE a == TrackAt(ch, t)
           d == tracked[ch][t]
           m == d.m
           p == d.q
<1>0. a \in Holder /\ \A q \in Queue : StoreAt(q) \in Holder /\ st[q] \o <<>> = st[q]
  BY HeldParts, ConcatEmptySeq DEF HeldAsNamed
<1>1. CASE d = NoDelivery
  <2>1. \A q \in Queue : Recovered(ch, t, q) = <<>>
    BY <1>1 DEF Recovered
  <2>6. \A q \in Queue : st[q] \o Recovered(ch, t, q) = st[q]
    BY <1>0, <2>1, Zenon
  <2>7. F[a] = {}
    BY <1>1 DEF Track
  <2>2. G[a] = F[a] /\ \A q \in Queue : G[StoreAt(q)] = F[StoreAt(q)]
    <3>1. ASSUME NEW q \in Queue PROVE G[StoreAt(q)] = F[StoreAt(q)]
      BY <2>6
    <3>2. QED BY <2>7, <3>1
  <2>3. \A h \in Holder : G[h] = F[h]
    BY <2>2
  <2>4. Partition(G, S)
    BY <2>3 DEF Partition
  <2>5. QED BY <2>4, <2>6
<1>2. CASE d # NoDelivery
  <2>1. d \in Delivery
    BY <1>2 DEF TypeOK
  <2>2. m \in Msg /\ p \in Queue
    BY <2>1 DEF Delivery
  <2>3. Recovered(ch, t, p) = <<m>> /\ \A q \in Queue : q # p => Recovered(ch, t, q) = <<>>
    BY <1>2 DEF Recovered
  <2>4. F[a] = {m}
    BY <1>2 DEF Track
  <2>5. a # StoreAt(p) /\ StoreAt(p) \in Holder /\ \A q \in Queue : q # p => StoreAt(q) # StoreAt(p)
    BY <1>0, <2>2, HolderDistinct
  <2> HIDE DEF a, m, p
  <2>6. m \notin Rng(st[p])
    BY <1>0, <2>2, <2>4, <2>5 DEF Partition
  <2>7. /\ NoDup(st[p] \o Recovered(ch, t, p))
        /\ G[StoreAt(p)] = F[StoreAt(p)] \cup {m}
    <3> DEFINE b == <<m>>
    <3>1. b \in Seq(Msg) /\ NoDup(b) /\ Rng(b) = {m} /\ Recovered(ch, t, p) = b /\ st[p] \in Seq(Msg)
      BY <2>2, <2>3, SingleHolds
    <3> HIDE DEF b
    <3>2. NoDup(st[p] \o b) /\ Rng(st[p] \o b) = Rng(st[p]) \cup Rng(b)
      BY <2>2, <2>6, <3>1, ConcatHolds
    <3>3. QED BY <2>2, <3>1, <3>2
  <2>8. \A q \in Queue : q # p =>
          NoDup(st[q] \o Recovered(ch, t, q)) /\ G[StoreAt(q)] = F[StoreAt(q)]
    <3>1. ASSUME NEW q \in Queue, q # p PROVE st[q] \o Recovered(ch, t, q) = st[q]
      BY <1>0, <2>3, <3>1, Zenon
    <3>2. QED BY <3>1
  <2>9. \A h \in Holder : h \notin {a, StoreAt(p)} => G[h] = F[h]
    BY <2>8 DEF a
  <2>10. m \in F[a] /\ G[a] = F[a] \ {m}
    BY <2>4 DEF a
  <2>11. Partition(G, S)
    BY <1>0, <2>5, <2>7, <2>9, <2>10, MoveOne
  <2>12. QED BY <2>7, <2>8, <2>11
<1>3. QED BY <1>1, <1>2

\* Nack moves the delivery to its queue or to the hand that dead-letters it.
LEMMA NackHeld ==
  ASSUME TypeOK, HeldOnce, NackFound, NEW c \in Conn, Nack(c)
  PROVE  HeldOnce'
<1>0. PICK tag \in Tag : tag = cur[c].tag
  BY DEF TypeOK, Locals
<1> DEFINE ch == ChanOf[c]
           d == tracked[ch][tag]
           a == TrackAt(ch, tag)
           b == HandOf(c)
<1>1. /\ ch \in Channel /\ pc[c] = "nack" /\ cur[c].found = d
      /\ d \in Delivery \cup {NoDelivery} /\ cur[c].requeue \in BOOLEAN
  <2>1. ch \in Channel /\ pc[c] = "nack"
    BY ChannelType DEF Nack
  <2>2. cur[c] \in Locals /\ tracked[ch] \in [Tag -> Delivery \cup {NoDelivery}]
    BY <2>1 DEF TypeOK
  <2>3. cur[c].requeue \in BOOLEAN
    BY <2>2 DEF Locals
  <2>4. cur[c].found = d
    BY <1>0, <2>1 DEF NackFound
  <2>5. QED BY <2>1, <2>2, <2>3, <2>4
<1>2. /\ tracked' = [tracked EXCEPT ![ch][tag] = NoDelivery]
      /\ UNCHANGED <<scan, entered, replaced>> /\ settled' = settled
      /\ \A e \in Conn : e # c => pc'[e] = pc[e] /\ cur'[e] = cur[e]
  BY <1>0, <1>1 DEF Nack, TypeOK
<1>3. /\ tracked'[ch][tag] = NoDelivery
      /\ \A x \in Channel, u \in Tag : (x # ch \/ u # tag) => tracked'[x][u] = tracked[x][u]
  <2>1. tracked' = [tracked EXCEPT ![ch] = [tracked[ch] EXCEPT ![tag] = NoDelivery]]
    BY <1>2
  <2> HIDE DEF ch
  <2>2. QED BY <1>1, <2>1 DEF TypeOK
<1>4. Track(ch, tag)' = {} /\ Hand(c) = {}
  BY <1>1, <1>3 DEF Hand, Track
<1>5. /\ a \in Holder /\ Held[a] = Track(ch, tag) /\ Held'[a] = {}
      /\ b \in Holder /\ Held[b] = {} /\ Held'[b] = Hand(c)' /\ a # b
  BY <1>1, <1>4, HeldParts, HeldPartsNext, HolderDistinct DEF HeldAsNamed
<1>6. \A h \in Holder : h # a /\ h # b /\ (\A q \in Queue : h # StoreAt(q)) => Held'[h] = Held[h]
  <2> DEFINE K == {a, b} \cup {StoreAt(q) : q \in Queue}
  <2>1. \A e \in Conn : HandOf(e) \in K \/ Hand(e)' = Hand(e)
    BY <1>2, OtherHands
  <2>2. \A x \in Channel, u \in Tag : TrackAt(x, u) \in K \/ Track(x, u)' = Track(x, u)
    BY <1>3 DEF Track
  <2>3. Scanned' = Scanned
    BY <1>2 DEF Scanned
  <2>4. \A q \in Queue : StoreAt(q) \in K
    OBVIOUS
  <2> HIDE DEF K
  <2>5. \A h \in Holder : h \notin K => Held'[h] = Held[h]
    BY <2>1, <2>2, <2>3, <2>4, HeldFrame
  <2>6. QED BY <2>5 DEF K
<1>7. Live' = Live /\ settled' \cup replaced' \subseteq entered' /\ Partition(Held, Live)
  BY <1>2 DEF Live, HeldOnce
<1>8. CASE cur[c].requeue
  <2>1. pc'[c] = "idle"
    BY <1>8 DEF Nack, TypeOK
  <2>2. Hand(c)' = {}
    BY <2>1 DEF Hand
  <2>3. ASSUME NEW q \in Queue PROVE store'[q] = store[q] \o Recovered(ch, tag, q)
    <3>1. store[q] \in Seq(Msg) /\ store[q] \o <<>> = store[q]
      BY ConcatEmptySeq DEF TypeOK
    <3>2. CASE d = NoDelivery
      BY <1>0, <1>8, <3>1, <3>2 DEF Nack, Recovered
    <3>3. CASE d # NoDelivery
      <4>1. d.q \in Queue /\ d.m \in Msg
        BY <1>1, <3>3 DEF Delivery
      <4>2. store' = [store EXCEPT ![d.q] = Append(store[d.q], d.m)]
        BY <1>0, <1>8, <3>3 DEF Nack, Bypass
      <4>3. store'[q] = IF d.q = q THEN Append(store[q], d.m) ELSE store[q]
        BY <4>2 DEF TypeOK
      <4>4. Append(store[q], d.m) = store[q] \o <<d.m>>
        BY <3>1, <4>1, AppendIsConcat
      <4>5. Recovered(ch, tag, q) = IF d.q = q THEN <<d.m>> ELSE <<>>
        BY <3>3 DEF Recovered
      <4>6. CASE d.q = q
        BY <4>3, <4>4, <4>5, <4>6
      <4>7. CASE d.q # q
        <5>1. Recovered(ch, tag, q) = <<>> /\ store'[q] = store[q]
          BY <4>3, <4>5, <4>7
        <5>2. QED BY <3>1, <5>1, Zenon
      <4>8. QED BY <4>6, <4>7
    <3>4. QED BY <3>2, <3>3
  <2>4. \A q \in Queue : NoDup(store[q]) /\ Held[StoreAt(q)] = Rng(store[q])
    BY HeldParts DEF HeldAsNamed, HeldOnce, NoDups
  <2>5. \A q \in Queue : Held'[StoreAt(q)] = Rng(store[q] \o Recovered(ch, tag, q))
    BY <2>3, HeldPartsNext DEF HeldAsNamed
  <2>6. Held'[b] = Held[b]
    BY <1>5, <2>2
  <2>7. \A h \in Holder : h # a /\ (\A q \in Queue : h # StoreAt(q)) => Held'[h] = Held[h]
    BY <1>6, <2>6
  <2>8. Partition(Held', Live) /\ \A q \in Queue : NoDup(store[q] \o Recovered(ch, tag, q))
    <3> DEFINE F == Held
               G == Held'
               S == Live
               st == store
    <3>1. /\ Partition(F, S) /\ st \in [Queue -> Seq(Msg)]
          /\ \A q \in Queue : NoDup(st[q]) /\ F[StoreAt(q)] = Rng(st[q])
          /\ F[TrackAt(ch, tag)] = Track(ch, tag) /\ G[TrackAt(ch, tag)] = {}
          /\ \A q \in Queue : G[StoreAt(q)] = Rng(st[q] \o Recovered(ch, tag, q))
          /\ \A h \in Holder : h # TrackAt(ch, tag) /\ (\A q \in Queue : h # StoreAt(q)) => G[h] = F[h]
      BY <1>5, <1>7, <2>4, <2>5, <2>7 DEF TypeOK
    <3> HIDE DEF F, G, S, st, ch
    <3>2. Partition(G, S) /\ \A q \in Queue : NoDup(st[q] \o Recovered(ch, tag, q))
      BY <1>1, <3>1, SlotBack
    <3>3. QED BY <3>2 DEF G, S, st
  <2>9. \A q \in Queue : NoDup(store'[q])
    BY <2>3, <2>8
  <2>10. NoDups'
    BY <1>2, <2>9 DEF HeldOnce, NoDups
  <2>11. QED BY <1>7, <2>8, <2>10 DEF HeldOnce
<1>9. CASE ~cur[c].requeue /\ d = NoDelivery
  <2>1. pc'[c] = "idle" /\ store' = store
    BY <1>0, <1>1, <1>9 DEF Nack, TypeOK
  <2>2. Hand(c)' = {}
    BY <2>1 DEF Hand
  <2>3. \A e \in Conn : Hand(e)' = Hand(e)
    BY <1>2, <1>4, <2>2, OtherHands
  <2>4. \A x \in Channel, u \in Tag : Track(x, u)' = Track(x, u)
    BY <1>3, <1>9 DEF Track
  <2>5. QED BY <1>2, <2>1, <2>3, <2>4, StillHeld
<1>10. CASE ~cur[c].requeue /\ d # NoDelivery
  <2> DEFINE m == d.m
  <2>1. pc'[c] = "nacked" /\ store' = store /\ cur'[c] = cur[c]
    BY <1>0, <1>1, <1>10 DEF Nack, TypeOK
  <2>2. Hand(c)' = {m} /\ Track(ch, tag) = {m}
    BY <1>1, <1>10, <2>1 DEF Hand, Track
  <2>3. \A q \in Queue : Held'[StoreAt(q)] = Held[StoreAt(q)]
    BY <2>1, HeldParts, HeldPartsNext DEF HeldAsNamed
  <2> HIDE DEF m
  <2>4. /\ m \in Held[a] /\ Held'[a] = Held[a] \ {m} /\ Held'[b] = Held[b] \cup {m}
    BY <1>5, <2>2
  <2>5. \A h \in Holder : h \notin {a, b} => Held'[h] = Held[h]
    BY <1>6, <2>3
  <2> HIDE DEF a, b
  <2>6. Partition(Held', Live)
    BY <1>5, <1>7, <2>4, <2>5, MoveOne
  <2>7. NoDups'
    BY <1>2, <2>1 DEF HeldOnce, NoDups
  <2>8. QED BY <1>7, <2>6, <2>7 DEF HeldOnce
<1>11. QED BY <1>8, <1>9, <1>10

\* Recover puts what the channel tracks back into the queues, or settles it.
LEMMA RecoverHeld ==
  ASSUME TypeOK, HeldOnce, NEW c \in Conn, NEW first \in Tag, NEW requeue \in BOOLEAN,
         handleRecover(c, first, requeue)
  PROVE  HeldOnce'
<1> DEFINE ch == ChanOf[c]
           other == 1 - first
           a == TrackAt(ch, first)
           b == TrackAt(ch, other)
           T1 == Track(ch, first)
           T2 == Track(ch, other)
<1>1. ch \in Channel /\ other \in Tag /\ other # first /\ \A u \in Tag : u = first \/ u = other
  BY ChannelType DEF Tag
<1>2. /\ tracked' = [tracked EXCEPT ![ch] = [t \in Tag |-> NoDelivery]]
      /\ UNCHANGED <<pc, cur, scan, entered, replaced>>
  BY DEF handleRecover
<1>3. /\ \A u \in Tag : tracked'[ch][u] = NoDelivery
      /\ \A x \in Channel, u \in Tag : x # ch => tracked'[x][u] = tracked[x][u]
  BY <1>1, <1>2 DEF TypeOK
<1> HIDE DEF ch, other
<1>4. Track(ch, first)' = {} /\ Track(ch, other)' = {}
  <2>1. \A u \in Tag : Track(ch, u)' = {}
    BY <1>3 DEF Track, ch
  <2>2. QED BY <1>1, <2>1 DEF ch, other
<1>5. /\ a \in Holder /\ Held[a] = T1 /\ Held'[a] = {}
      /\ b \in Holder /\ Held[b] = T2 /\ Held'[b] = {} /\ a # b
      /\ \A q \in Queue : a # StoreAt(q) /\ b # StoreAt(q)
  BY <1>1, <1>4, HeldParts, HeldPartsNext, HolderDistinct DEF HeldAsNamed, ch, other
<1>6. \A h \in Holder : h # a /\ h # b /\ (\A q \in Queue : h # StoreAt(q)) => Held'[h] = Held[h]
  <2> DEFINE K == {a, b} \cup {StoreAt(q) : q \in Queue}
  <2>1. \A e \in Conn : Hand(e)' = Hand(e)
    BY <1>2 DEF Hand
  <2>2. \A x \in Channel, u \in Tag : TrackAt(x, u) \in K \/ Track(x, u)' = Track(x, u)
    BY <1>1, <1>3 DEF Track
  <2>3. Scanned' = Scanned
    BY <1>2 DEF Scanned
  <2>4. \A q \in Queue : StoreAt(q) \in K
    OBVIOUS
  <2> HIDE DEF K
  <2>5. \A h \in Holder : h \notin K => Held'[h] = Held[h]
    BY <2>1, <2>2, <2>3, <2>4, HeldFrame
  <2>6. QED BY <2>5 DEF K
<1>7. Partition(Held, Live)
  BY DEF HeldOnce
<1> DEFINE M == {tracked[ch][t].m : t \in {u \in Tag : tracked[ch][u] # NoDelivery}}
<1>8. M = T1 \cup T2
  <2>1. ASSUME NEW u \in Tag, tracked[ch][u] # NoDelivery PROVE tracked[ch][u].m \in T1 \cup T2
    BY <1>1, <2>1 DEF Track
  <2>2. ASSUME NEW x \in T1 PROVE x \in M
    <3>1. tracked[ch][first] # NoDelivery /\ x = tracked[ch][first].m
      BY <2>2 DEF Track
    <3>2. QED BY <3>1
  <2>3. ASSUME NEW x \in T2 PROVE x \in M
    <3>1. tracked[ch][other] # NoDelivery /\ x = tracked[ch][other].m
      BY <2>3 DEF Track
    <3>2. QED BY <1>1, <3>1
  <2>4. QED BY <2>1, <2>2, <2>3
<1>9. CASE ~requeue
  <2>1. settled' = settled \cup T1 \cup T2 /\ store' = store
    <3>1. settled' = settled \cup M /\ store' = store
      BY <1>9 DEF handleRecover, ch
    <3>2. QED BY <1>8, <3>1
  <2>2. \A q \in Queue : Held'[StoreAt(q)] = Held[StoreAt(q)]
    BY <2>1, HeldParts, HeldPartsNext DEF HeldAsNamed
  <2> DEFINE G == [Held EXCEPT ![a] = {}]
  <2>3. Held \in [Holder -> SUBSET Live]
    BY <1>7 DEF Held, Partition
  <2>4. G[a] = {} /\ \A h \in Holder : h # a => G[h] = Held[h]
    BY <1>5, <2>3
  <2>5. \A h \in Holder : h # b => Held'[h] = G[h]
    BY <1>5, <1>6, <2>2, <2>4
  <2> HIDE DEF a, b, T1, T2, G
  <2>6. Partition(G, Live \ T1)
    <3>1. T1 \subseteq Held[a] /\ G[a] = Held[a] \ T1
      BY <1>5, <2>4
    <3>2. QED BY <1>5, <1>7, <2>4, <3>1, DropKeeps
  <2>7. Partition(Held', (Live \ T1) \ T2)
    <3> DEFINE S == Live \ T1
    <3>1. T2 \subseteq G[b] /\ Held'[b] = G[b] \ T2 /\ Partition(G, S)
      BY <1>5, <2>4, <2>6
    <3> HIDE DEF S
    <3>2. Partition(Held', S \ T2)
      BY <1>5, <2>5, <3>1, DropKeeps
    <3>3. QED BY <3>2 DEF S
  <2>8. T1 \subseteq Live /\ T2 \subseteq Live
    BY <1>5, <1>7 DEF Partition
  <2>9. Live' = (Live \ T1) \ T2 /\ settled' \cup replaced' \subseteq entered'
    BY <1>2, <2>1, <2>8 DEF Live, HeldOnce
  <2>10. NoDups'
    BY <1>2, <2>1 DEF HeldOnce, NoDups
  <2>11. QED BY <2>7, <2>9, <2>10 DEF HeldOnce
<1>10. CASE requeue
  <2> DEFINE r1(q) == Recovered(ch, first, q)
             r2(q) == Recovered(ch, other, q)
             st == [q \in Queue |-> store[q] \o r1(q)]
             G == [h \in Holder |-> IF h = a THEN {}
                                    ELSE IF \E q \in Queue : h = StoreAt(q)
                                         THEN Rng(st[h[2]]) ELSE Held[h]]
  <2>1. ASSUME NEW q \in Queue
        PROVE  /\ store[q] \in Seq(Msg) /\ r1(q) \in Seq(Msg) /\ r2(q) \in Seq(Msg)
               /\ st[q] \in Seq(Msg) /\ st[q] = store[q] \o r1(q)
               /\ store'[q] = st[q] \o r2(q)
    <3>1. store[q] \in Seq(Msg) /\ r1(q) \in Seq(Msg) /\ r2(q) \in Seq(Msg)
      <4>1. store[q] \in Seq(Msg) /\ other \in Tag
        BY <1>1 DEF TypeOK
      <4>2. Recovered(ChanOf[c], first, q) \in Seq(Msg)
        BY RecoveredType
      <4>3. Recovered(ChanOf[c], other, q) \in Seq(Msg)
        BY <4>1, RecoveredType
      <4>4. QED BY <4>1, <4>2, <4>3 DEF ch
    <3>2. store'[q] = store[q] \o (r1(q) \o r2(q))
      <4>1. store' = [x \in Queue |-> store[x] \o (Recovered(ch, first, x) \o Recovered(ch, other, x))]
        BY <1>10, Zenon DEF handleRecover, ch, other
      <4>2. QED BY <4>1
    <3> HIDE DEF r1, r2
    <3>3. st[q] = store[q] \o r1(q)
      OBVIOUS
    <3> HIDE DEF st
    <3>4. (store[q] \o r1(q)) \o r2(q) = store[q] \o (r1(q) \o r2(q))
      <4> DEFINE u == store[q]
                 v == r1(q)
                 w == r2(q)
      <4>1. u \in Seq(Msg) /\ v \in Seq(Msg) /\ w \in Seq(Msg)
        BY <3>1
      <4> HIDE DEF u, v, w
      <4>2. (u \o v) \o w = u \o (v \o w)
        BY <4>1, ConcatAssociative
      <4>3. QED BY <4>2 DEF u, v, w
    <3>5. st[q] \in Seq(Msg)
      <4>1. store[q] \o r1(q) \in Seq(Msg)
        BY <3>1, ConcatProperties, Zenon
      <4>2. QED BY <3>3, <4>1
    <3>6. QED BY <3>1, <3>2, <3>3, <3>4, <3>5
  <2>2. G[a] = {} /\ (\A q \in Queue : G[StoreAt(q)] = Rng(st[q]))
        /\ \A h \in Holder : h # a /\ (\A q \in Queue : h # StoreAt(q)) => G[h] = Held[h]
    <3>1. \A q \in Queue : StoreAt(q)[2] = q /\ StoreAt(q) \in Holder
      BY HeldParts DEF StoreAt, HeldAsNamed
    <3> HIDE DEF a, st, b
    <3>2. G[a] = {}
      BY <1>5
    <3>3. ASSUME NEW q \in Queue PROVE G[StoreAt(q)] = Rng(st[q])
      BY <1>5, <3>1
    <3>4. QED BY <1>5, <3>2, <3>3
  <2>3. \A q \in Queue : NoDup(store[q]) /\ Held[StoreAt(q)] = Rng(store[q])
    BY HeldParts DEF HeldAsNamed, HeldOnce, NoDups
  <2>4. Partition(G, Live) /\ \A q \in Queue : NoDup(st[q])
    <3> DEFINE F == Held
               S == Live
               s == store
    <3>1. /\ Partition(F, S) /\ s \in [Queue -> Seq(Msg)] /\ ch \in Channel
          /\ \A q \in Queue : NoDup(s[q]) /\ F[StoreAt(q)] = Rng(s[q])
          /\ F[TrackAt(ch, first)] = Track(ch, first) /\ G[TrackAt(ch, first)] = {}
          /\ \A q \in Queue : G[StoreAt(q)] = Rng(s[q] \o Recovered(ch, first, q))
          /\ \A h \in Holder : h # TrackAt(ch, first) /\ (\A q \in Queue : h # StoreAt(q)) => G[h] = F[h]
      <4> HIDE DEF G, st
      <4>1. \A q \in Queue : st[q] = store[q] \o Recovered(ch, first, q)
        BY <2>1
      <4>2. store \in [Queue -> Seq(Msg)] /\ ch \in Channel
        BY <1>1 DEF TypeOK, ch
      <4>3. QED BY <1>5, <1>7, <2>2, <2>3, <4>1, <4>2
    <3> HIDE DEF F, G, S, s
    <3>2. Partition(G, S) /\ \A q \in Queue : NoDup(s[q] \o Recovered(ch, first, q))
      BY <3>1, SlotBack
    <3> HIDE DEF st
    <3>3. QED BY <2>1, <3>2 DEF S, s
  <2>5. Partition(Held', Live) /\ \A q \in Queue : NoDup(store'[q])
    <3> DEFINE H == Held'
               S == Live
    <3>1. /\ Partition(G, S) /\ st \in [Queue -> Seq(Msg)] /\ ch \in Channel /\ other \in Tag
          /\ \A q \in Queue : NoDup(st[q]) /\ G[StoreAt(q)] = Rng(st[q])
          /\ G[TrackAt(ch, other)] = Track(ch, other) /\ H[TrackAt(ch, other)] = {}
          /\ \A q \in Queue : H[StoreAt(q)] = Rng(st[q] \o Recovered(ch, other, q))
          /\ \A h \in Holder : h # TrackAt(ch, other) /\ (\A q \in Queue : h # StoreAt(q)) => H[h] = G[h]
      <4> HIDE DEF G
      <4>1. st \in [Queue -> Seq(Msg)]
        BY <2>1
      <4> HIDE DEF st
      <4>2. ch \in Channel /\ other \in Tag
        BY <1>1 DEF ch, other
      <4>3. \A q \in Queue : H[StoreAt(q)] = Rng(st[q] \o Recovered(ch, other, q))
        BY <2>1, HeldPartsNext DEF HeldAsNamed
      <4>4. G[b] = Held[b] /\ H[b] = {}
        BY <1>5, <2>2
      <4>5. \A h \in Holder : h # b /\ (\A q \in Queue : h # StoreAt(q)) => H[h] = G[h]
        BY <1>5, <1>6, <2>2
      <4>6. QED BY <1>5, <2>2, <2>4, <4>1, <4>2, <4>3, <4>4, <4>5
    <3> HIDE DEF H, G, S, st
    <3>2. Partition(H, S) /\ \A q \in Queue : NoDup(st[q] \o Recovered(ch, other, q))
      BY <3>1, SlotBack
    <3>3. QED BY <2>1, <3>2 DEF S, H
  <2>6. settled' = settled
    BY <1>10 DEF handleRecover
  <2>7. Live' = Live /\ settled' \cup replaced' \subseteq entered'
    BY <1>2, <2>6 DEF Live, HeldOnce
  <2>8. NoDups'
    BY <1>2, <2>5 DEF HeldOnce, NoDups
  <2>9. QED BY <2>5, <2>7, <2>8 DEF HeldOnce
<1>11. QED BY <1>9, <1>10

----------------------------------------------------------------------------
(* Conservation: what a handler knows between two critical sections        *)

\* Nothing changes for the other connections.
OthersSame(c) ==
  \A e \in Conn : e # c =>
    /\ pc'[e] = pc[e] /\ cur'[e] = cur[e] /\ tracked'[ChanOf[e]] = tracked[ChanOf[e]]

\* A change to the channel of one connection is not seen by the others.
LEMMA OwnChannel ==
  ASSUME TypeOK, PullOnly, NEW c \in Conn, NEW x, tracked' = [tracked EXCEPT ![ChanOf[c]] = x]
  PROVE  \A e \in Conn : e # c => tracked'[ChanOf[e]] = tracked[ChanOf[e]]
<1>1. \A e \in Conn : ChanOf[e] \in Channel /\ (e # c => ChanOf[e] # ChanOf[c])
  BY ChannelType DEF PullOnly
<1>2. QED BY <1>1 DEF TypeOK

\* The steps of a publish.
LEMMA PublisherOwn ==
  ASSUME TypeOK, PullOnly, NEW c \in Conn,
         \/ \E route \in Routes, pri \in Priority : handlePublish(c, route, pri)
         \/ NextQueue(c) \/ EvictOldest(c) \/ DeadLetterEvicted(c) \/ EnqueueMessage(c)
  PROVE  OthersSame(c) /\ pc'[c] \notin {"deliver", "nack"}
<1>1. tracked' = tracked
  BY DEF handlePublish, NextQueue, CheckLength, EvictOldest, DeadLetterEvicted, deadLetter,
         EnqueueMessage, PullOnly
<1>2. \A e \in Conn : e # c => pc'[e] = pc[e] /\ cur'[e] = cur[e]
  BY DEF handlePublish, NextQueue, CheckLength, EvictOldest, DeadLetterEvicted,
         EnqueueMessage, QueueDone, TypeOK
<1>3. pc'[c] \notin {"deliver", "nack"}
  BY DEF handlePublish, NextQueue, CheckLength, EvictOldest, DeadLetterEvicted,
         EnqueueMessage, QueueDone, TypeOK, PullOnly
<1>4. QED BY <1>1, <1>2, <1>3 DEF OthersSame

\* The steps that get, settle and recover.
LEMMA SettlerOwn ==
  ASSUME TypeOK, PullOnly, NEW c \in Conn,
         \/ \E q \in Queue, noAck \in BOOLEAN : handleGet(c, q, noAck)
         \/ GetAgain(c) \/ Record(c) \/ Nack(c) \/ DeadLetterNacked(c)
         \/ \E tag \in Tag : handleAck(c, tag)
         \/ \E first \in Tag, requeue \in BOOLEAN : handleRecover(c, first, requeue)
         \/ \E q \in Queue : handleQueuePurge(c, q)
  PROVE  OthersSame(c) /\ pc'[c] \in {"idle", "get", "record", "nacked"}
<1>1. CASE \/ \E q \in Queue, noAck \in BOOLEAN : handleGet(c, q, noAck)
           \/ GetAgain(c)
  BY <1>1 DEF handleGet, GetAgain, Get, OthersSame, TypeOK
<1>2. CASE Record(c) \/ Nack(c)
  <2>1. /\ \A e \in Conn : e # c => pc'[e] = pc[e] /\ cur'[e] = cur[e]
        /\ pc'[c] \in {"idle", "get", "record", "nacked"}
    BY <1>2 DEF Record, Nack, TypeOK
  <2>2. \E x : tracked' = [tracked EXCEPT ![ChanOf[c]] = x]
    BY <1>2 DEF Record, Nack
  <2>3. QED BY <2>1, <2>2, OwnChannel DEF OthersSame
<1>3. CASE DeadLetterNacked(c)
  <2>1. tracked' = tracked
    BY <1>3 DEF DeadLetterNacked, deadLetter, PullOnly
  <2>2. QED BY <1>3, <2>1 DEF DeadLetterNacked, OthersSame, TypeOK
<1>4. CASE \E tag \in Tag : handleAck(c, tag)
  <2>1. pc' = pc /\ cur' = cur /\ pc[c] = "idle"
    BY <1>4 DEF handleAck
  <2>2. \E x : tracked' = [tracked EXCEPT ![ChanOf[c]] = x]
    BY <1>4 DEF handleAck
  <2>3. QED BY <2>1, <2>2, OwnChannel DEF OthersSame
<1>5. CASE \E first \in Tag, requeue \in BOOLEAN : handleRecover(c, first, requeue)
  <2>1. pc' = pc /\ cur' = cur /\ pc[c] = "idle"
    BY <1>5 DEF handleRecover
  <2>2. \E x : tracked' = [tracked EXCEPT ![ChanOf[c]] = x]
    BY <1>5 DEF handleRecover
  <2>3. QED BY <2>1, <2>2, OwnChannel DEF OthersSame
<1>6. CASE \E q \in Queue : handleQueuePurge(c, q)
  BY <1>6 DEF handleQueuePurge, OthersSame
<1>7. QED BY <1>1, <1>2, <1>3, <1>4, <1>5, <1>6

\* What handleNack found stays where it is until Nack.
LEMMA NackFoundOwn ==
  ASSUME NackFound, NEW c \in Conn, OthersSame(c), pc'[c] \notin {"deliver", "nack"}
  PROVE  NackFound'
BY DEF NackFound, OthersSame

\* The steps that neither publish nor route a message further: the messages still to come
\* in are the same, or fewer.
FreshCalm ==
  /\ next' = next /\ entered' = entered
  /\ \A e \in Conn : pc'[e] \in {"check", "evict", "evicted", "enqueue"} =>
       /\ pc[e] \in {"check", "evict", "evicted", "enqueue"}
       /\ pc'[e] = "check" <=> pc[e] = "check"
       /\ cur'[e].m = cur[e].m /\ cur'[e].q = cur[e].q /\ cur'[e].todo = cur[e].todo

\* Such a step keeps them fresh.
LEMMA FreshStays ==
  ASSUME Fresh, FreshCalm
  PROVE  Fresh'
<1>1. ASSUME NEW e \in Conn, pc'[e] \in {"check", "evict", "evicted", "enqueue"}
      PROVE  /\ NoDup(cur'[e].todo)
             /\ pc'[e] # "check" => cur'[e].q \notin Rng(cur'[e].todo) /\ cur'[e].m.home = cur'[e].q
             /\ ToCome(e)' = ToCome(e)
             /\ \A q \in ToCome(e) : [cur'[e].m EXCEPT !.home = q] \notin entered'
  <2>1. /\ pc[e] \in {"check", "evict", "evicted", "enqueue"} /\ (pc'[e] = "check" <=> pc[e] = "check")
        /\ cur'[e].m = cur[e].m /\ cur'[e].q = cur[e].q /\ cur'[e].todo = cur[e].todo
        /\ entered' = entered
    BY <1>1 DEF FreshCalm
  <2>2. ToCome(e)' = ToCome(e)
    BY <1>1, <2>1 DEF ToCome
  <2>3. QED BY <2>1, <2>2 DEF Fresh
<1>2. \A x \in entered' : x.id < next'
  BY DEF Fresh, FreshCalm
<1>3. QED BY <1>1, <1>2 DEF Fresh

\* A new message has a number no other has.
LEMMA PublishFresh ==
  ASSUME TypeOK, PullOnly, Fresh, NEW c \in Conn,
         NEW route \in Routes, NEW pri \in Priority, handlePublish(c, route, pri)
  PROVE  Fresh'
<1> DEFINE q == Head(route)
           m == [id |-> next, from |-> c, home |-> q, pri |-> pri]
           hm == [m EXCEPT !.home = q]
           l == [NoLocals EXCEPT !.m = hm, !.q = q, !.todo = Tail(route)]
<1>1. /\ entered' = entered /\ next' = next + 1 /\ next \in Nat
      /\ cur' = [cur EXCEPT ![c] = l] /\ pc'[c] \in {"evict", "enqueue"}
  BY DEF handlePublish, CheckLength, histVars, TypeOK
<1>2. hm.id = next /\ hm.home = q /\ \A x : [hm EXCEPT !.home = x].id = next
  OBVIOUS
<1>3. route \in Seq(Queue) /\ route # <<>> /\ NoDup(route)
  BY ConfigAssumption DEF PullOnly
<1>4. NoDup(Tail(route)) /\ q \notin Rng(Tail(route))
  BY <1>3, TailHolds
<1>5. \A e \in Conn : e # c => pc'[e] = pc[e] /\ cur'[e] = cur[e]
  BY PublisherOwn DEF OthersSame
<1> HIDE DEF hm, q
<1>6. l.m = hm /\ l.q = q /\ l.todo = Tail(route)
  BY DEF NoLocals
<1> HIDE DEF l
<1>7. cur'[c] = l
  BY <1>1 DEF TypeOK
<1>8. \A x \in entered' : x.id < next'
  <2>1. \A x \in entered : x.id \in Nat
    BY DEF TypeOK, Msg
  <2>2. QED BY <1>1, <2>1 DEF Fresh
<1>9. ASSUME NEW e \in Conn, pc'[e] \in {"check", "evict", "evicted", "enqueue"}
      PROVE  /\ NoDup(cur'[e].todo)
             /\ pc'[e] # "check" => cur'[e].q \notin Rng(cur'[e].todo) /\ cur'[e].m.home = cur'[e].q
             /\ \A x \in ToCome(e)' : [cur'[e].m EXCEPT !.home = x] \notin entered'
  <2>1. CASE e = c
    <3>1. \A x : [hm EXCEPT !.home = x] \notin entered'
      <4>1. \A x \in entered : x.id # next
        BY <1>1 DEF Fresh
      <4>2. QED BY <1>1, <1>2, <4>1
    <3>2. QED BY <1>1, <1>2, <1>4, <1>6, <1>7, <2>1, <3>1
  <2>2. CASE e # c
    <3>1. pc'[e] = pc[e] /\ cur'[e] = cur[e]
      BY <1>5, <2>2
    <3>2. ToCome(e)' = ToCome(e)
      BY <3>1 DEF ToCome
    <3>3. QED BY <1>1, <1>9, <3>1, <3>2 DEF Fresh
  <2>3. QED BY <2>1, <2>2
<1>10. QED BY <1>8, <1>9 DEF Fresh

\* The loop turns to the next queue.
LEMMA NextQueueFresh ==
  ASSUME TypeOK, PullOnly, Fresh, NEW c \in Conn, NextQueue(c)
  PROVE  Fresh'
<1> DEFINE route == cur[c].todo
           q == Head(route)
           m == cur[c].m
           hm == [m EXCEPT !.home = q]
           l == [NoLocals EXCEPT !.m = hm, !.q = q, !.todo = Tail(route)]
<1>1. /\ entered' = entered /\ next' = next /\ pc[c] = "check"
      /\ cur' = [cur EXCEPT ![c] = l] /\ pc'[c] \in {"evict", "enqueue"}
  BY DEF NextQueue, CheckLength, histVars, TypeOK
<1>2. m \in Msg /\ route \in Seq(Queue) /\ route # <<>> /\ NoDup(route)
  <2>1. cur[c] \in Locals /\ LocalsSet("check", cur[c])
    BY <1>1 DEF TypeOK
  <2>2. QED BY <1>1, <2>1 DEF Locals, LocalsSet, Fresh
<1>3. q \in Queue /\ q \in Rng(route) /\ NoDup(Tail(route)) /\ Rng(Tail(route)) = Rng(route) \ {q}
  BY <1>2, TailHolds, HeadTailProperties
<1>4. \A x \in Rng(route) : [m EXCEPT !.home = x] \notin entered
  BY <1>1 DEF Fresh, ToCome
<1>5. \A e \in Conn : e # c => pc'[e] = pc[e] /\ cur'[e] = cur[e]
  BY PublisherOwn DEF OthersSame
<1>6. hm.home = q /\ \A x : [hm EXCEPT !.home = x] = [m EXCEPT !.home = x]
  BY <1>2 DEF Msg
<1> HIDE DEF hm, q, m, route
<1>7. l.m = hm /\ l.q = q /\ l.todo = Tail(route)
  BY DEF NoLocals
<1> HIDE DEF l
<1>8. cur'[c] = l
  BY <1>1 DEF TypeOK
<1>9. ASSUME NEW e \in Conn, pc'[e] \in {"check", "evict", "evicted", "enqueue"}
      PROVE  /\ NoDup(cur'[e].todo)
             /\ pc'[e] # "check" => cur'[e].q \notin Rng(cur'[e].todo) /\ cur'[e].m.home = cur'[e].q
             /\ \A x \in ToCome(e)' : [cur'[e].m EXCEPT !.home = x] \notin entered'
  <2>1. CASE e = c
    <3>1. ToCome(c)' = {q} \cup Rng(Tail(route))
      BY <1>1, <1>7, <1>8 DEF ToCome
    <3>2. \A x \in ToCome(c)' : [hm EXCEPT !.home = x] \notin entered'
      BY <1>1, <1>3, <1>4, <1>6, <3>1
    <3>3. QED BY <1>1, <1>3, <1>6, <1>7, <1>8, <2>1, <3>2
  <2>2. CASE e # c
    <3>1. pc'[e] = pc[e] /\ cur'[e] = cur[e]
      BY <1>5, <2>2
    <3>2. ToCome(e)' = ToCome(e)
      BY <3>1 DEF ToCome
    <3>3. QED BY <1>1, <1>9, <3>1, <3>2 DEF Fresh
  <2>3. QED BY <2>1, <2>2
<1>10. QED BY <1>1, <1>9 DEF Fresh

\* The message enters one of its queues; those of the other connections are others.
LEMMA EnqueueFresh ==
  ASSUME TypeOK, PullOnly, Numbered, Fresh, NEW c \in Conn, EnqueueMessage(c)
  PROVE  Fresh'
<1> DEFINE m == cur[c].m
           q == cur[c].q
<1>1. /\ pc[c] = "enqueue" /\ entered' = entered \cup {m} /\ next' = next
      /\ \/ pc'[c] = "idle"
         \/ pc'[c] = "check" /\ cur'[c] = cur[c]
  BY DEF EnqueueMessage, QueueDone, PullOnly, TypeOK
<1>2. m \in Msg /\ m.from = c /\ m.id < next
  BY <1>1 DEF TypeOK, LocalsSet, Numbered, PubPlaces
<1>3. /\ NoDup(cur[c].todo) /\ q \notin Rng(cur[c].todo) /\ m.home = q
      /\ \A x \in Rng(cur[c].todo) : [m EXCEPT !.home = x] \notin entered
  BY <1>1 DEF Fresh, ToCome
<1>4. \A e \in Conn : e # c => pc'[e] = pc[e] /\ cur'[e] = cur[e]
  BY PublisherOwn DEF OthersSame
<1>5. \A x \in entered' : x.id < next'
  BY <1>1, <1>2 DEF Fresh
<1>6. ASSUME NEW e \in Conn, pc'[e] \in {"check", "evict", "evicted", "enqueue"}
      PROVE  /\ NoDup(cur'[e].todo)
             /\ pc'[e] # "check" => cur'[e].q \notin Rng(cur'[e].todo) /\ cur'[e].m.home = cur'[e].q
             /\ \A x \in ToCome(e)' : [cur'[e].m EXCEPT !.home = x] \notin entered'
  <2>1. CASE e = c
    <3>1. pc'[c] = "check" /\ cur'[c] = cur[c] /\ ToCome(c)' = Rng(cur[c].todo)
      BY <1>1, <1>6, <2>1 DEF ToCome
    <3>2. ASSUME NEW x \in Rng(cur[c].todo) PROVE [m EXCEPT !.home = x] \notin entered'
      <4>1. [m EXCEPT !.home = x].home = x /\ x # q
        BY <1>2, <1>3 DEF Msg
      <4>2. QED BY <1>1, <1>3, <4>1
    <3>3. QED BY <1>3, <2>1, <3>1, <3>2
  <2>2. CASE e # c
    <3>1. pc'[e] = pc[e] /\ cur'[e] = cur[e]
      BY <1>4, <2>2
    <3>2. ToCome(e)' = ToCome(e)
      BY <3>1 DEF ToCome
    <3>3. cur[e].m \in Msg /\ cur[e].m.from = e
      <4>1. pc[e] \in {"check", "evict", "evicted", "enqueue"}
        BY <1>6, <3>1
      <4>2. QED BY <4>1 DEF TypeOK, LocalsSet, Numbered, PubPlaces
    <3>4. \A x : [cur[e].m EXCEPT !.home = x] # m
      <4>1. \A x : [cur[e].m EXCEPT !.home = x].from = e
        BY <3>3 DEF Msg
      <4>2. QED BY <1>2, <2>2, <4>1
    <3>5. QED BY <1>1, <1>6, <3>1, <3>2, <3>4 DEF Fresh
  <2>3. QED BY <2>1, <2>2
<1>7. QED BY <1>5, <1>6 DEF Fresh

\* What Conserved needs besides the types and the numbering.
ConservedInv == HeldOnce /\ Fresh /\ NackFound

\* A step of c that leaves it outside a publish.
LEMMA OutsideFresh ==
  ASSUME NEW c \in Conn, OthersSame(c), next' = next, entered' = entered,
         pc'[c] \notin {"check", "evict", "evicted", "enqueue"}
  PROVE  FreshCalm
BY DEF FreshCalm, OthersSame

\* Making room keeps the message to publish.
LEMMA EvictFresh ==
  ASSUME TypeOK, PullOnly, NEW c \in Conn, EvictOldest(c) \/ DeadLetterEvicted(c)
  PROVE  FreshCalm
<1>1. /\ next' = next /\ entered' = entered /\ pc[c] \in {"evict", "evicted"}
      /\ pc'[c] \in {"evicted", "enqueue"}
  BY DEF EvictOldest, DeadLetterEvicted, histVars, TypeOK
<1>2. cur[c] \in Locals
  BY DEF TypeOK
<1>3. \/ cur'[c] = cur[c]
      \/ \E x : cur'[c] = [cur[c] EXCEPT !.found = x]
  BY DEF EvictOldest, DeadLetterEvicted, TypeOK
<1>4. cur'[c].m = cur[c].m /\ cur'[c].q = cur[c].q /\ cur'[c].todo = cur[c].todo
  BY <1>2, <1>3 DEF Locals
<1>5. OthersSame(c)
  BY PublisherOwn
<1>6. QED BY <1>1, <1>4, <1>5 DEF FreshCalm, OthersSame

\* The steps of a publish.
LEMMA PublisherConserved ==
  ASSUME TypeOK, PullOnly, Numbered, ConservedInv, NEW c \in Conn,
         \/ \E route \in Routes, pri \in Priority : handlePublish(c, route, pri)
         \/ NextQueue(c) \/ EvictOldest(c) \/ DeadLetterEvicted(c)
         \/ EnqueueMessage(c) \/ DeliverPushed(c)
  PROVE  ConservedInv'
<1>0. HeldOnce /\ Fresh /\ NackFound /\ Subscribed = {}
  BY DEF ConservedInv, PullOnly
<1>1. ~DeliverPushed(c)
  BY <1>0 DEF DeliverPushed, NackFound
<1>2. NackFound'
  BY <1>0, <1>1, PublisherOwn, NackFoundOwn
<1>3. Fresh'
  BY <1>0, <1>1, PublishFresh, NextQueueFresh, EnqueueFresh, EvictFresh, FreshStays
<1>4. CASE DeadLetterEvicted(c)
  <2>1. /\ pc[c] = "evicted" /\ deadLetter(cur[c].found.m, cur[c].found.q) /\ pc'[c] = "enqueue"
        /\ \A e \in Conn : e # c => pc'[e] = pc[e] /\ cur'[e] = cur[e]
        /\ UNCHANGED <<scan, entered, replaced>>
    BY <1>4 DEF DeadLetterEvicted, TypeOK
  <2>2. HeldOnce'
    BY <1>0, <2>1, DeadLetterHandHeld
  <2>3. QED BY <1>2, <1>3, <2>2 DEF ConservedInv
<1>5. CASE ~DeadLetterEvicted(c)
  <2>1. HeldOnce'
    BY <1>0, <1>1, <1>5, CheckHeld, EvictHeld, EnqueueHeld
  <2>2. QED BY <1>2, <1>3, <2>1 DEF ConservedInv
<1>6. QED BY <1>4, <1>5

\* Looking up, getting, settling and recovering.
LEMMA SettlerConserved ==
  ASSUME TypeOK, PullOnly, ConservedInv, NEW c \in Conn,
         \/ \E q \in Queue, noAck \in BOOLEAN : handleGet(c, q, noAck)
         \/ GetAgain(c) \/ Record(c) \/ Nack(c) \/ DeadLetterNacked(c)
         \/ \E tag \in Tag : handleAck(c, tag)
         \/ \E first \in Tag, requeue \in BOOLEAN : handleRecover(c, first, requeue)
         \/ \E q \in Queue : handleQueuePurge(c, q)
  PROVE  ConservedInv'
<1>0. HeldOnce /\ Fresh /\ NackFound /\ Subscribed = {}
  BY DEF ConservedInv, PullOnly
<1>1. OthersSame(c) /\ pc'[c] \in {"idle", "get", "record", "nacked"}
  BY SettlerOwn
<1>2. NackFound'
  BY <1>0, <1>1, NackFoundOwn
<1>3. next' = next /\ entered' = entered
  BY DEF handleGet, GetAgain, Get, Record, Nack, DeadLetterNacked, handleAck, handleRecover,
         handleQueuePurge
<1>4. Fresh'
  BY <1>0, <1>1, <1>3, OutsideFresh, FreshStays
<1>5. ASSUME NEW q \in Queue, NEW noAck \in BOOLEAN, handleGet(c, q, noAck) PROVE HeldOnce'
  BY <1>0, <1>5, GetHeld DEF handleGet
<1>6. ASSUME GetAgain(c) PROVE HeldOnce'
  <2>1. cur[c].q \in Queue
    BY <1>6 DEF GetAgain, TypeOK, LocalsSet
  <2>2. PICK q \in Queue : \E noAck : Get(c, q, noAck)
    BY <1>6, <2>1 DEF GetAgain
  <2>3. pc[c] \in {"idle", "get"}
    BY <1>6 DEF GetAgain
  <2>4. QED BY <1>0, <2>2, <2>3, GetHeld
<1>7. ASSUME DeadLetterNacked(c) PROVE HeldOnce'
  <2>1. /\ pc[c] = "nacked" /\ deadLetter(cur[c].found.m, cur[c].found.q) /\ pc'[c] = "idle"
        /\ \A e \in Conn : e # c => pc'[e] = pc[e] /\ cur'[e] = cur[e]
        /\ UNCHANGED <<scan, entered, replaced>>
    BY <1>7 DEF DeadLetterNacked, TypeOK
  <2>2. QED BY <1>0, <2>1, DeadLetterHandHeld
<1>8. HeldOnce'
  BY <1>0, <1>5, <1>6, <1>7, RecordHeld, NackHeld, AckHeld, RecoverHeld, PurgeHeld
<1>9. QED BY <1>2, <1>4, <1>8 DEF ConservedInv

\* Every step keeps the messages.
LEMMA NextConserved ==
  ASSUME TypeOK, PullOnly, Numbered, ConservedInv, [Next]_vars
  PROVE  ConservedInv'
<1>0. HeldOnce /\ Fresh /\ NackFound /\ Subscribed = {}
  BY DEF ConservedInv, PullOnly
<1>1. ASSUME NEW c \in Conn, NEW tag \in Tag, NEW requeue \in BOOLEAN, handleNack(c, tag, requeue)
      PROVE  ConservedInv'
  <2>1. /\ pc'[c] = "nack" /\ tracked' = tracked /\ next' = next /\ entered' = entered
        /\ \A e \in Conn : e # c => pc'[e] = pc[e] /\ cur'[e] = cur[e]
        /\ cur'[c] = [cur[c] EXCEPT !.tag = tag, !.requeue = requeue,
                                    !.found = tracked[ChanOf[c]][tag]]
        /\ cur[c] \in Locals
    BY <1>1 DEF handleNack, histVars, TypeOK
  <2>2. cur'[c].tag = tag /\ cur'[c].found = tracked[ChanOf[c]][tag]
    BY <2>1 DEF Locals
  <2>3. NackFound'
    BY <1>0, <2>1, <2>2 DEF NackFound
  <2>4. OthersSame(c)
    BY <2>1 DEF OthersSame
  <2>5. Fresh'
    BY <1>0, <2>1, <2>4, OutsideFresh, FreshStays
  <2>6. HeldOnce'
    BY <1>0, <1>1, LookupHeld
  <2>7. QED BY <2>3, <2>5, <2>6 DEF ConservedInv
<1>2. ASSUME NEW q \in TTLQ, NEW split \in Splits(Len(store[q])), ScanQueue(q, split)
      PROVE  ConservedInv'
  <2>1. UNCHANGED <<tracked, pc, cur, next, entered>>
    BY <1>2 DEF ScanQueue, histVars
  <2>2. q \in Queue
    BY ConfigAssumption
  <2>3. HeldOnce'
    BY <1>0, <1>2, <2>2, ScanHeld
  <2>4. NackFound' /\ FreshCalm
    BY <1>0, <2>1 DEF NackFound, FreshCalm
  <2>5. QED BY <1>0, <2>3, <2>4, FreshStays DEF ConservedInv
<1>3. ASSUME ScanCallback PROVE ConservedInv'
  <2>1. UNCHANGED <<tracked, pc, cur, next, entered>>
    BY <1>0, <1>3 DEF ScanCallback, deadLetter
  <2>2. HeldOnce'
    BY <1>0, <1>3, ScanCallbackHeld
  <2>3. NackFound' /\ FreshCalm
    BY <1>0, <2>1 DEF NackFound, FreshCalm
  <2>4. QED BY <1>0, <2>2, <2>3, FreshStays DEF ConservedInv
<1>4. ASSUME UNCHANGED vars PROVE ConservedInv'
  <2>1. UNCHANGED <<store, tracked, pc, cur, scan, next, entered, settled, replaced>>
    BY <1>4 DEF vars
  <2>2. /\ \A ch \in Channel, t \in Tag : Track(ch, t)' = Track(ch, t)
        /\ \A c \in Conn : Hand(c)' = Hand(c)
    BY <2>1 DEF Track, Hand
  <2>3. HeldOnce'
    BY <1>0, <2>1, <2>2, StillHeld
  <2>4. NackFound' /\ FreshCalm
    BY <1>0, <2>1 DEF NackFound, FreshCalm
  <2>5. QED BY <1>0, <2>3, <2>4, FreshStays DEF ConservedInv
<1>5. QED BY <1>1, <1>2, <1>3, <1>4, NextCases, PublisherConserved, SettlerConserved

\* Nothing is anywhere yet.
LEMMA InitConserved == Init => ConservedInv
<1> SUFFICES ASSUME Init PROVE ConservedInv
  OBVIOUS
<1>1. \A q \in Queue : store[q] = <<>> /\ DOMAIN store[q] = {}
  BY DEF Init
<1>2. scan = <<>> /\ DOMAIN scan = {}
  BY DEF Init
<1>3. \A ch \in Channel, t \in Tag : Track(ch, t) = {}
  BY DEF Init, Track
<1>4. \A c \in Conn : pc[c] = "idle" /\ Hand(c) = {}
  BY DEF Init, Hand
<1>5. \A q \in Queue : Rng(store[q]) = {}
  BY <1>1 DEF Rng
<1>6. Scanned = {}
  BY <1>2 DEF Scanned
<1>7. \A h \in Holder : Held[h] = {}
  <2>1. /\ \A q \in Queue : Held[StoreAt(q)] = {}
        /\ \A ch \in Channel, t \in Tag : Held[TrackAt(ch, t)] = {}
        /\ \A c \in Conn : Held[HandOf(c)] = {}
        /\ Held[ScanAt] = {}
    BY <1>3, <1>4, <1>5, <1>6, HeldParts DEF HeldAsNamed
  <2>2. QED BY <2>1 DEF Holder
<1>8. Live = {} /\ settled \cup replaced \subseteq entered /\ entered = {}
  BY DEF Init, Live
<1>9. NoDups
  BY <1>1, <1>2 DEF NoDups, NoDup
<1>10. HeldOnce
  BY <1>7, <1>8, <1>9 DEF HeldOnce, Partition
<1>11. Fresh /\ NackFound
  BY <1>4, <1>8 DEF Fresh, NackFound
<1>12. QED BY <1>10, <1>11 DEF ConservedInv

\* A message that no holder has is nowhere.
LEMMA NoPlace ==
  ASSUME TypeOK, NEW m, \A h \in Holder : m \notin Held[h]
  PROVE  Places(m) = {}
<1>1. ASSUME NEW q \in Queue PROVE {k \in DOMAIN store[q] : store[q][k] = m} = {}
  <2>1. m \notin Rng(store[q])
    BY HeldParts DEF HeldAsNamed
  <2>2. QED BY <2>1 DEF Rng
<1>2. ASSUME NEW a \in Channel \X Tag, tracked[a[1]][a[2]] # NoDelivery PROVE tracked[a[1]][a[2]].m # m
  <2>1. a[1] \in Channel /\ a[2] \in Tag
    OBVIOUS
  <2>2. m \notin Track(a[1], a[2])
    BY <2>1, HeldParts DEF HeldAsNamed
  <2>3. QED BY <1>2, <2>2 DEF Track
<1>3. ASSUME NEW x \in Conn PROVE ~(\/ pc[x] = "record" /\ cur[x].m = m
                                    \/ pc[x] \in {"evicted", "nacked"} /\ cur[x].found.m = m)
  <2>1. m \notin Hand(x)
    BY HeldParts DEF HeldAsNamed
  <2>2. QED BY <2>1 DEF Hand
<1>4. ASSUME NEW k \in DOMAIN scan PROVE scan[k].m # m
  <2>1. m \notin Scanned
    BY HeldParts DEF HeldAsNamed
  <2>2. QED BY <2>1 DEF Scanned
<1>5. QED BY <1>1, <1>2, <1>3, <1>4 DEF Places, InStore, InTracker, InHand, InScan

\* A message one holder has, once, is in one place.
LEMMA OnePlace ==
  ASSUME TypeOK, NoDups, NEW m, NEW w \in Holder, m \in Held[w],
         \A h \in Holder : m \in Held[h] => h = w
  PROVE  \E p : Places(m) = {p}
<1>1. ASSUME NEW q \in Queue, NEW k \in DOMAIN store[q], store[q][k] = m PROVE w = StoreAt(q)
  BY <1>1, HeldParts DEF HeldAsNamed, Rng
<1>2. ASSUME NEW x \in Channel \X Tag, tracked[x[1]][x[2]] # NoDelivery, tracked[x[1]][x[2]].m = m
      PROVE  w = TrackAt(x[1], x[2])
  <2>1. x[1] \in Channel /\ x[2] \in Tag /\ m \in Track(x[1], x[2])
    BY <1>2 DEF Track
  <2>2. QED BY <2>1, HeldParts DEF HeldAsNamed
<1>3. ASSUME NEW x \in Conn, \/ pc[x] = "record" /\ cur[x].m = m
                             \/ pc[x] \in {"evicted", "nacked"} /\ cur[x].found.m = m
      PROVE  w = HandOf(x)
  BY <1>3, HeldParts DEF HeldAsNamed, Hand
<1>4. ASSUME NEW k \in DOMAIN scan, scan[k].m = m PROVE w = ScanAt
  BY <1>4, HeldParts DEF HeldAsNamed, Scanned
<1>5. CASE \E q \in Queue : w = StoreAt(q)
  <2>1. PICK q \in Queue : w = StoreAt(q)
    BY <1>5
  <2>2. PICK i \in DOMAIN store[q] : store[q][i] = m
    BY <2>1, HeldParts DEF HeldAsNamed, Rng
  <2>3. InStore(m) = {<<"store", q, i>>}
    <3>1. ASSUME NEW x \in Queue, NEW k \in DOMAIN store[x], store[x][k] = m PROVE x = q /\ k = i
      BY <1>1, <2>1, <2>2, <3>1, HolderDistinct DEF NoDups, NoDup
    <3>2. QED BY <2>2, <3>1 DEF InStore
  <2>4. InTracker(m) = {} /\ InHand(m) = {} /\ InScan(m) = {}
    BY <1>2, <1>3, <1>4, <2>1, HolderDistinct DEF InStore, InTracker, InHand, InScan
  <2>5. QED BY <2>3, <2>4 DEF Places
<1>6. CASE \E ch \in Channel, t \in Tag : w = TrackAt(ch, t)
  <2>1. PICK ch \in Channel, t \in Tag : w = TrackAt(ch, t)
    BY <1>6
  <2>2. tracked[ch][t] # NoDelivery /\ tracked[ch][t].m = m
    <3>1. m \in Track(ch, t)
      BY <2>1, HeldParts DEF HeldAsNamed
    <3>2. QED BY <3>1 DEF Track
  <2>3. InTracker(m) = {<<"tracked", ch, t>>}
    <3>1. ASSUME NEW x \in Channel \X Tag, tracked[x[1]][x[2]] # NoDelivery, tracked[x[1]][x[2]].m = m
          PROVE  x[1] = ch /\ x[2] = t
      BY <1>2, <2>1, <3>1, HolderDistinct
    <3>2. <<ch, t>> \in Channel \X Tag /\ <<ch, t>>[1] = ch /\ <<ch, t>>[2] = t
      OBVIOUS
    <3>3. QED BY <2>2, <3>1, <3>2 DEF InTracker
  <2>4. InStore(m) = {} /\ InHand(m) = {} /\ InScan(m) = {}
    BY <1>1, <1>3, <1>4, <2>1, HolderDistinct DEF InStore, InTracker, InHand, InScan
  <2>5. QED BY <2>3, <2>4 DEF Places
<1>7. CASE \E c \in Conn : w = HandOf(c)
  <2>1. PICK c \in Conn : w = HandOf(c)
    BY <1>7
  <2>2. \/ pc[c] = "record" /\ cur[c].m = m
        \/ pc[c] \in {"evicted", "nacked"} /\ cur[c].found.m = m
    BY <2>1, HeldParts DEF HeldAsNamed, Hand
  <2>3. InHand(m) = {<<"hand", c, 0>>}
    BY <1>3, <2>1, <2>2, HolderDistinct DEF InHand
  <2>4. InStore(m) = {} /\ InTracker(m) = {} /\ InScan(m) = {}
    BY <1>1, <1>2, <1>4, <2>1, HolderDistinct DEF InStore, InTracker, InHand, InScan
  <2>5. QED BY <2>3, <2>4 DEF Places
<1>8. CASE w = ScanAt
  <2>1. PICK i \in DOMAIN scan : scan[i].m = m
    BY <1>8, HeldParts DEF HeldAsNamed, Scanned
  <2>2. InScan(m) = {<<"scan", i, 0>>}
    BY <2>1 DEF NoDups, InScan
  <2>3. InStore(m) = {} /\ InTracker(m) = {} /\ InHand(m) = {}
    BY <1>1, <1>2, <1>3, <1>8, HolderDistinct DEF InStore, InTracker, InHand, InScan
  <2>4. QED BY <2>2, <2>3 DEF Places
<1>9. \/ \E q \in Queue : w = StoreAt(q)
      \/ \E ch \in Channel, t \in Tag : w = TrackAt(ch, t)
      \/ \E c \in Conn : w = HandOf(c)
      \/ w = ScanAt
  BY DEF Holder
<1>10. QED BY <1>5, <1>6, <1>7, <1>8, <1>9

\* The invariant gives the property.
LEMMA HeldOnceConserved ==
  ASSUME TypeOK, HeldOnce
  PROVE  Conserved
<1> SUFFICES ASSUME NEW m \in entered
             PROVE  Cardinality(Places(m)) = IF m \in settled \cup replaced THEN 0 ELSE 1
  BY DEF Conserved
<1>1. CASE m \in settled \cup replaced
  <2>1. \A h \in Holder : m \notin Held[h]
    BY <1>1 DEF HeldOnce, Partition, Live
  <2>2. Places(m) = {}
    BY <2>1, NoPlace
  <2>3. QED BY <1>1, <2>2, FS_EmptySet
<1>2. CASE m \notin settled \cup replaced
  <2>1. PICK a \in Holder : m \in Held[a]
    BY <1>2 DEF HeldOnce, Partition, Live
  <2>2. \A h \in Holder : m \in Held[h] => h = a
    BY <2>1 DEF HeldOnce, Partition
  <2>3. PICK p : Places(m) = {p}
    BY <2>1, <2>2, OnePlace DEF HeldOnce
  <2>4. QED BY <1>2, <2>3, FS_Singleton
<1>3. QED BY <1>1, <1>2

\* Without push consumers and with channel numbers of their own, connections and the
\* expiration scan neither lose nor duplicate a message, wherever their critical sections
\* interleave: it is in one place until it is settled or another delivery replaces its record.
THEOREM ConservedTheorem ==
  ASSUME PullOnly
  PROVE  Spec => []Conserved
<1>1. Init => TypeOK /\ PriorityOrder /\ Numbered /\ ConservedInv
  BY InitType, InitOrder, InitConserved
<1>2. TypeOK /\ PriorityOrder /\ Numbered /\ ConservedInv /\ [Next]_vars
        => (TypeOK /\ PriorityOrder /\ Numbered /\ ConservedInv)'
  BY NextType, NextOrder, NextConserved
<1>3. TypeOK /\ ConservedInv => Conserved
  BY HeldOnceConserved DEF ConservedInv
<1>4. QED BY <1>1, <1>2, <1>3, PTL DEF Spec

=============================================================================
