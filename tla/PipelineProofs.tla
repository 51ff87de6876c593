--------------------------- MODULE PipelineProofs ---------------------------
(***************************************************************************)
(* Theorems about module Pipeline, for any number of items, workers and    *)
(* flushers and any batch size and buffer: Flush and Stop return only when *)
(* the items they answer for are published, and the pipeline implements    *)
(* the abstract dispatcher WorkBag.                                        *)
(*                                                                         *)
(* An item whose Submit has returned is in the channel, in one worker's    *)
(* batch or published, and in one of these places only: the invariant says *)
(* so with sets of items, to which the first lemmas reduce the sequences.  *)
(***************************************************************************)
EXTENDS Pipeline, SequenceTheorems, FiniteSetTheorems, TLAPS

Elems(s) == {s[k] : k \in 1 .. Len(s)}
Inj(s) == \A j, k \in 1 .. Len(s) : s[j] = s[k] => j = k

LEMMA ElemsEmpty ==
  ASSUME NEW S, NEW s \in Seq(S)
  PROVE  /\ Elems(s) \subseteq S
         /\ Elems(s) = {} <=> s = <<>>
<1>1. Len(s) \in Nat /\ \A k \in 1 .. Len(s) : s[k] \in S
  BY LenProperties, ElementOfSeq
<1>2. CASE s = <<>>
  BY <1>2, EmptySeq DEF Elems
<1>3. CASE s # <<>>
  <2>1. 1 \in 1 .. Len(s)
    BY <1>3, EmptySeq
  <2>2. s[1] \in Elems(s)
    BY <2>1 DEF Elems
  <2> QED
    BY <1>1, <1>3, <2>2 DEF Elems
<1> QED
  BY <1>2, <1>3

LEMMA NoElems == Elems(<<>>) = {} /\ Inj(<<>>) /\ (\A S : <<>> \in Seq(S))
BY EmptySeq DEF Elems, Inj

LEMMA ElemsAppend ==
  ASSUME NEW S, NEW s \in Seq(S), NEW x \in S
  PROVE  /\ Append(s, x) \in Seq(S)
         /\ Len(Append(s, x)) = Len(s) + 1
         /\ Elems(Append(s, x)) = Elems(s) \cup {x}
         /\ Inj(s) /\ x \notin Elems(s) => Inj(Append(s, x))
<1> DEFINE t == Append(s, x)
<1>1. /\ t \in Seq(S) /\ Len(t) = Len(s) + 1
      /\ \A k \in 1 .. Len(s) : t[k] = s[k]
      /\ t[Len(s) + 1] = x
  BY AppendProperties
<1>2. Len(s) \in Nat
  BY LenProperties
<1> HIDE DEF t
<1>3. \A k \in 1 .. Len(t) : k \in 1 .. Len(s) \/ k = Len(s) + 1
  BY <1>1, <1>2
<1>4. 1 .. Len(s) \subseteq 1 .. Len(t) /\ Len(s) + 1 \in 1 .. Len(t)
  BY <1>1, <1>2
<1>5. Elems(t) = Elems(s) \cup {x}
  BY <1>1, <1>3, <1>4 DEF Elems
<1>6. ASSUME Inj(s), x \notin Elems(s) PROVE Inj(t)
  BY <1>1, <1>3, <1>6 DEF Elems, Inj
<1> QED
  BY <1>1, <1>5, <1>6 DEF t

\* Removing a place removes its element, and no other when no element repeats.
LEMMA ElemsRemoveAt ==
  ASSUME NEW S, NEW s \in Seq(S), NEW n \in 1 .. Len(s), Inj(s)
  PROVE  /\ RemoveAt(s, n) \in Seq(S)
         /\ Elems(RemoveAt(s, n)) = Elems(s) \ {s[n]}
         /\ Inj(RemoveAt(s, n))
<1> DEFINE a == SubSeq(s, 1, n - 1)
           b == SubSeq(s, n + 1, Len(s))
           t == RemoveAt(s, n)
           At(k) == IF k < n THEN k ELSE k + 1
<1>1. Len(s) \in Nat /\ n \in Nat /\ \A k \in 1 .. Len(s) : s[k] \in S
  BY LenProperties, ElementOfSeq
<1>2. /\ a \in Seq(S) /\ Len(a) = n - 1
      /\ \A k \in 1 .. n - 1 : a[k] = s[k]
  <2>1. /\ 1 \in Int /\ n - 1 \in Int
        /\ \A k \in 1 .. n - 1 : s[k] \in S
        /\ 1 <= n - 1 \/ n = 1
    BY <1>1
  <2>2. /\ a \in Seq(S) /\ Len(a) = (IF 1 <= n - 1 THEN (n - 1) - 1 + 1 ELSE 0)
        /\ \A k \in 1 .. (n - 1) - 1 + 1 : a[k] = s[1 + k - 1]
    BY <2>1, SubSeqProperties
  <2> HIDE DEF a
  <2> QED
    BY <1>1, <2>1, <2>2
<1>3. /\ b \in Seq(S) /\ Len(b) = Len(s) - n
      /\ \A k \in 1 .. Len(s) - n : b[k] = s[n + k]
  <2>1. /\ n + 1 \in Int /\ Len(s) \in Int
        /\ \A k \in n + 1 .. Len(s) : s[k] \in S
    BY <1>1
  <2>2. /\ b \in Seq(S) /\ Len(b) = (IF n + 1 <= Len(s) THEN Len(s) - (n + 1) + 1 ELSE 0)
        /\ \A k \in 1 .. Len(s) - (n + 1) + 1 : b[k] = s[(n + 1) + k - 1]
    BY <2>1, SubSeqProperties
  <2> HIDE DEF b
  <2> QED
    BY <1>1, <2>1, <2>2
<1>4. t = a \o b
  BY DEF RemoveAt
<1> HIDE DEF a, b, t
<1>5. /\ t \in Seq(S) /\ Len(t) = Len(a) + Len(b)
      /\ \A k \in 1 .. Len(a) + Len(b) :
           t[k] = IF k <= Len(a) THEN a[k] ELSE b[k - Len(a)]
  BY <1>2, <1>3, <1>4, ConcatProperties
<1>6. Len(t) = Len(s) - 1 /\ \A k \in 1 .. Len(t) : t[k] = s[At(k)]
  <2>1. Len(t) = Len(s) - 1
    BY <1>1, <1>2, <1>3, <1>5
  <2> SUFFICES ASSUME NEW k \in 1 .. Len(t) PROVE t[k] = s[At(k)]
    BY <2>1
  <2>2. CASE k < n
    BY <1>1, <1>2, <1>3, <1>5, <2>1, <2>2
  <2>3. CASE ~ (k < n)
    <3>1. k - Len(a) \in 1 .. Len(s) - n /\ n + (k - Len(a)) = k + 1 /\ ~ (k <= Len(a))
      BY <1>1, <1>2, <2>1, <2>3
    <3> QED
      BY <1>1, <1>2, <1>3, <1>5, <2>1, <2>3, <3>1
  <2> QED
    BY <2>2, <2>3
<1>7. /\ \A k \in 1 .. Len(t) : At(k) \in (1 .. Len(s)) \ {n}
      /\ \A j, k \in 1 .. Len(t) : At(j) = At(k) => j = k
      /\ \A m \in (1 .. Len(s)) \ {n} : \E k \in 1 .. Len(t) : At(k) = m
  <2>1. \A k \in 1 .. Len(t) : At(k) \in (1 .. Len(s)) \ {n}
    BY <1>1, <1>6
  <2>2. \A j, k \in 1 .. Len(t) : At(j) = At(k) => j = k
    BY <1>1, <1>6
  <2>3. ASSUME NEW m \in (1 .. Len(s)) \ {n} PROVE \E k \in 1 .. Len(t) : At(k) = m
    <3>1. CASE m < n
      <4>1. m \in 1 .. Len(t) /\ At(m) = m
        BY <1>1, <1>6, <3>1
      <4> QED
        BY <4>1
    <3>2. CASE ~ (m < n)
      <4>1. m - 1 \in 1 .. Len(t) /\ At(m - 1) = m
        BY <1>1, <1>6, <3>2
      <4> QED
        BY <4>1
    <3> QED
      BY <3>1, <3>2
  <2> QED
    BY <2>1, <2>2, <2>3
<1> HIDE DEF At
<1>8. Elems(t) = Elems(s) \ {s[n]}
  <2>1. ASSUME NEW x \in Elems(t) PROVE x \in Elems(s) \ {s[n]}
    <3>1. PICK k \in 1 .. Len(t) : x = t[k]
      BY DEF Elems
    <3>2. x = s[At(k)] /\ At(k) \in 1 .. Len(s) /\ At(k) # n
      BY <1>6, <1>7, <3>1
    <3> QED
      BY <3>2 DEF Elems, Inj
  <2>2. ASSUME NEW x \in Elems(s), x # s[n] PROVE x \in Elems(t)
    <3>1. PICK m \in 1 .. Len(s) : x = s[m]
      BY DEF Elems
    <3>2. PICK k \in 1 .. Len(t) : At(k) = m
      BY <1>7, <2>2, <3>1
    <3>3. x = t[k]
      BY <1>6, <3>1, <3>2
    <3> QED
      BY <3>3 DEF Elems
  <2> QED
    BY <2>1, <2>2
<1>9. Inj(t)
  BY <1>6, <1>7 DEF Inj
<1> QED
  BY <1>5, <1>8, <1>9 DEF t

LEMMA ElemsTail ==
  ASSUME NEW S, NEW s \in Seq(S), s # <<>>, Inj(s)
  PROVE  /\ Head(s) \in Elems(s) /\ Tail(s) \in Seq(S)
         /\ Len(Tail(s)) = Len(s) - 1
         /\ Elems(Tail(s)) = Elems(s) \ {Head(s)}
         /\ Inj(Tail(s))
<1> DEFINE t == Tail(s)
<1>1. /\ t \in Seq(S) /\ Len(t) = Len(s) - 1
      /\ \A k \in 1 .. Len(t) : t[k] = s[k + 1]
  BY HeadTailProperties
<1>2. Len(s) \in Nat \ {0}
  BY EmptySeq
<1>3. Head(s) = s[1]
  OBVIOUS
<1> HIDE DEF t
<1>4. \A k \in 1 .. Len(t) : k + 1 \in (1 .. Len(s)) \ {1}
  BY <1>1, <1>2
<1>5. \A m \in (1 .. Len(s)) \ {1} : m - 1 \in 1 .. Len(t) /\ t[m - 1] = s[m]
  BY <1>1, <1>2
<1>6. 1 \in 1 .. Len(s)
  BY <1>2
<1>7. Elems(t) = Elems(s) \ {s[1]}
  <2>1. ASSUME NEW x \in Elems(t) PROVE x \in Elems(s) \ {s[1]}
    <3>1. PICK k \in 1 .. Len(t) : x = t[k]
      BY DEF Elems
    <3>2. x = s[k + 1] /\ k + 1 \in (1 .. Len(s)) \ {1}
      BY <1>1, <1>4, <3>1
    <3> QED
      BY <1>6, <3>2 DEF Elems, Inj
  <2>2. ASSUME NEW x \in Elems(s), x # s[1] PROVE x \in Elems(t)
    <3>1. PICK m \in 1 .. Len(s) : x = s[m]
      BY DEF Elems
    <3>2. m - 1 \in 1 .. Len(t) /\ x = t[m - 1]
      BY <1>5, <2>2, <3>1
    <3> QED
      BY <3>2 DEF Elems
  <2> QED
    BY <2>1, <2>2
<1>8. Inj(t)
  <2> SUFFICES ASSUME NEW j \in 1 .. Len(t), NEW k \in 1 .. Len(t), t[j] = t[k]
               PROVE  j = k
    BY DEF Inj
  <2>1. s[j + 1] = s[k + 1] /\ j + 1 \in 1 .. Len(s) /\ k + 1 \in 1 .. Len(s)
    BY <1>1, <1>4
  <2>2. j + 1 = k + 1
    BY <2>1 DEF Inj
  <2> QED
    BY <2>2
<1>9. s[1] \in Elems(s)
  BY <1>6 DEF Elems
<1> QED
  BY <1>1, <1>3, <1>7, <1>8, <1>9 DEF t

\* A batch is counted down by its length, which is the number of its items.
LEMMA ElemsCardinality ==
  ASSUME NEW S, NEW s \in Seq(S), Inj(s)
  PROVE  IsFiniteSet(Elems(s)) /\ Cardinality(Elems(s)) = Len(s)
<1>1. Len(s) \in Nat /\ s \in [1 .. Len(s) -> S]
  BY LenProperties
<1>2. s \in [1 .. Len(s) -> Elems(s)]
  BY <1>1 DEF Elems
<1>3. s \in Surjection(1 .. Len(s), Elems(s))
  BY <1>2 DEF Surjection, Elems
<1>4. s \in Injection(1 .. Len(s), Elems(s))
  BY <1>2 DEF Injection, Inj, IsInjective
<1>5. IsFiniteSet(1 .. Len(s)) /\ Cardinality(1 .. Len(s)) = Len(s)
  BY <1>1, FS_Interval
<1> QED
  BY <1>3, <1>4, <1>5, FS_Surjection

----------------------------------------------------------------------------
(* The invariant                                                           *)

Publishing(w) == pc[w] \in {"publish", "publishLast"}

\* An item is in the channel or in one batch, and only once its Submit has sent it.
Places ==
  /\ Inj(input)
  /\ \A w \in Worker : Inj(batch[w]) /\ Inj(rest[w])
  /\ \A w \in Worker : Elems(batch[w]) \cap Elems(input) = {}
  /\ \A v, w \in Worker : v # w => Elems(batch[v]) \cap Elems(batch[w]) = {}
  /\ \A w \in Worker : Elems(rest[w]) \subseteq Elems(batch[w])
  /\ \A w \in Worker : pc[w] \in {"idle", "exit"} => batch[w] = <<>>
  /\ \A w \in Worker : ~ Publishing(w) => rest[w] = <<>>
  /\ \A i \in Elems(input) : sub[i] = "sent"
  /\ \A w \in Worker : \A i \in Elems(batch[w]) : sub[i] = "sent"

\* The items that left the channel and are not still to be published.
Done(i) ==
  /\ sub[i] = "sent" /\ i \notin Elems(input)
  /\ \A w \in Worker : i \in Elems(batch[w]) => Publishing(w) /\ i \notin Elems(rest[w])

Once == \A i \in Item : published[i] = IF Done(i) THEN 1 ELSE 0

\* inFlight counts the items from the call of Submit to the end of their batch.
Pending ==
  {i \in Item : \/ sub[i] = "sending" \/ i \in Elems(input)
                \/ \E w \in Worker : i \in Elems(batch[w])}
Counted == inFlight = Cardinality(Pending)

\* Once a worker has found the channel empty after the cancellation, only items sent
\* since can be in it.
Stopped ==
  /\ atStop \subseteq Returned
  /\ \A w \in Worker : pc[w] \in {"drain", "publishLast", "exit"} => stopping
  /\ \A w \in Worker : pc[w] \in {"publishLast", "exit"} => atStop \cap Elems(input) = {}
  /\ stop = "returned" => \A w \in Worker : pc[w] = "exit"

Flushed ==
  /\ \A f \in Flusher : owed[f] \subseteq Returned
  /\ \A f \in Flusher : flush[f] = "back" => \A i \in owed[f] : published[i] = 1

Inv == TypeOK /\ Places /\ Once /\ Counted /\ Stopped /\ Flushed

LEMMA InitInv == Init => Inv
<1> SUFFICES ASSUME Init PROVE Inv
  OBVIOUS
<1>1. TypeOK
  BY NoElems, EmptySeq, PipelineAssumption DEF Init, TypeOK
<1>2. Places
  BY NoElems DEF Init, Places, Publishing
<1>3. Once
  BY DEF Init, Once, Done
<1>4. Counted
  <2>1. Pending = {}
    BY NoElems DEF Init, Pending
  <2> QED
    BY <2>1, FS_EmptySet DEF Init, Counted
<1>5. Stopped /\ Flushed
  BY DEF Init, Stopped, Flushed, Returned, stopping
<1> QED
  BY <1>1, <1>2, <1>3, <1>4, <1>5 DEF Inv

LEMMA BroadcastType ==
  ASSUME TypeOK
  PROVE  /\ Broadcast \in [Flusher -> {"out", "check", "decided", "parked", "woken", "back"}]
         /\ \A f \in Flusher : Broadcast[f] = "back" <=> flush[f] = "back"
BY DEF TypeOK, Broadcast

\* What Take does to the places of the items.
LEMMA TakeMoves ==
  ASSUME TypeOK, Places, NEW w \in Worker, Take(w)
  PROVE  /\ Head(input) \in Elems(input) /\ Head(input) \in Item
         /\ input' \in Seq(Item) /\ Len(input') <= InputBuffer
         /\ Elems(input') = Elems(input) \ {Head(input)} /\ Inj(input')
         /\ batch' \in [Worker -> Seq(Item)]
         /\ Elems(batch'[w]) = Elems(batch[w]) \cup {Head(input)} /\ Inj(batch'[w])
         /\ \A v \in Worker : v # w => batch'[v] = batch[v]
<1>1. input \in Seq(Item) /\ input # <<>> /\ Inj(input) /\ Len(input) <= InputBuffer
  BY DEF TypeOK, Places, Take
<1>2. /\ Head(input) \in Elems(input) /\ Tail(input) \in Seq(Item)
      /\ Len(Tail(input)) = Len(input) - 1
      /\ Elems(Tail(input)) = Elems(input) \ {Head(input)} /\ Inj(Tail(input))
  BY <1>1, ElemsTail
<1>3. Elems(input) \subseteq Item /\ Len(input) \in Nat
  BY <1>1, ElemsEmpty, LenProperties
<1>4. batch[w] \in Seq(Item) /\ Inj(batch[w]) /\ Head(input) \notin Elems(batch[w])
  BY <1>2 DEF TypeOK, Places
<1>5. LET b == Append(batch[w], Head(input)) IN
      b \in Seq(Item) /\ Elems(b) = Elems(batch[w]) \cup {Head(input)} /\ Inj(b)
  BY <1>2, <1>3, <1>4, ElemsAppend
<1>6. input' = Tail(input) /\ batch' = [batch EXCEPT ![w] = Append(batch[w], Head(input))]
  BY DEF Take
<1>7. Len(input') <= InputBuffer
  BY <1>1, <1>2, <1>3, <1>6, PipelineAssumption
<1>8. /\ batch' \in [Worker -> Seq(Item)]
      /\ batch'[w] = Append(batch[w], Head(input))
      /\ \A v \in Worker : v # w => batch'[v] = batch[v]
  BY <1>5, <1>6 DEF TypeOK
<1> QED
  BY <1>2, <1>3, <1>5, <1>6, <1>7, <1>8

\* A worker's batch grows by the oldest item of the channel: Gather, Fill and Drain.
LEMMA TakeInv ==
  ASSUME TypeOK, Places, Once, Counted, NEW w \in Worker, Take(w),
         ~ Publishing(w), pc' = pc \/ (pc[w] = "idle" /\ pc' = [pc EXCEPT ![w] = "fill"]),
         pc[w] # "exit", pc' = pc => pc[w] # "idle",
         UNCHANGED <<sub, inFlight, rest, published>>
  PROVE  Places' /\ Once' /\ Counted'
<1> DEFINE h == Head(input)
<1>1. /\ h \in Elems(input) /\ h \in Item
      /\ Elems(input') = Elems(input) \ {h} /\ Inj(input')
      /\ Elems(batch'[w]) = Elems(batch[w]) \cup {h} /\ Inj(batch'[w])
      /\ \A v \in Worker : v # w => batch'[v] = batch[v]
  BY TakeMoves
<1>2. /\ pc'[w] \notin {"idle", "exit", "publish", "publishLast"}
      /\ \A v \in Worker : v # w => pc'[v] = pc[v]
  BY DEF TypeOK, Publishing
<1> HIDE DEF h
<1>3. Places'
  <2>1. \A v \in Worker : v # w => h \notin Elems(batch[v])
    BY <1>1 DEF Places
  <2>2. \A v \in Worker : Inj(batch'[v]) /\ Inj(rest'[v])
    BY <1>1 DEF Places
  <2>3. \A v \in Worker : Elems(batch'[v]) \cap Elems(input') = {}
    BY <1>1, <2>1 DEF Places
  <2>4. \A u, v \in Worker : u # v => Elems(batch'[u]) \cap Elems(batch'[v]) = {}
    BY <1>1, <2>1 DEF Places
  <2>5. \A v \in Worker : Elems(rest'[v]) \subseteq Elems(batch'[v])
    BY <1>1 DEF Places
  <2>6. \A v \in Worker : pc'[v] \in {"idle", "exit"} => batch'[v] = <<>>
    BY <1>1, <1>2 DEF Places
  <2>7. \A v \in Worker : pc'[v] \notin {"publish", "publishLast"} => rest'[v] = <<>>
    BY <1>2 DEF Places, Publishing
  <2>8. \A i \in Elems(input') : sub'[i] = "sent"
    BY <1>1 DEF Places
  <2>9. \A v \in Worker : \A i \in Elems(batch'[v]) : sub'[i] = "sent"
    BY <1>1 DEF Places
  <2> QED
    BY <1>1, <2>2, <2>3, <2>4, <2>5, <2>6, <2>7, <2>8, <2>9 DEF Places, Publishing
<1>4. \A i \in Item : Done(i)' <=> Done(i)
  <2> SUFFICES ASSUME NEW i \in Item PROVE Done(i)' <=> Done(i)
    OBVIOUS
  <2>1. CASE i \in Elems(batch'[w])
    BY <1>1, <1>2, <2>1 DEF Done, Publishing
  <2>2. CASE i \notin Elems(batch'[w])
    <3>1. \A v \in Worker :
            i \in Elems(batch'[v]) <=> i \in Elems(batch[v])
      BY <1>1, <2>2
    <3>2. \A v \in Worker : i \in Elems(batch[v]) => pc'[v] = pc[v]
      BY <1>1, <1>2, <2>2
    <3> QED
      BY <1>1, <2>2, <3>1, <3>2 DEF Done, Publishing
  <2> QED
    BY <2>1, <2>2
<1>5. Pending' = Pending
  <2>1. \A i \in Item : (i \in Elems(input') \/ \E v \in Worker : i \in Elems(batch'[v]))
                        <=> (i \in Elems(input) \/ \E v \in Worker : i \in Elems(batch[v]))
    BY <1>1
  <2> QED
    BY <2>1 DEF Pending
<1> QED
  BY <1>3, <1>4, <1>5 DEF Once, Counted

\* A gathered batch is handed to processBatch: FillEnd and DrainEnd.
LEMMA HandOver ==
  ASSUME TypeOK, Places, Once, Counted, NEW w \in Worker,
         NEW p \in {"publish", "publishLast"}, ~ Publishing(w),
         pc' = [pc EXCEPT ![w] = p], rest' = [rest EXCEPT ![w] = batch[w]],
         UNCHANGED <<sub, input, inFlight, batch, published>>
  PROVE  Places' /\ Once' /\ Counted'
<1>1. /\ pc'[w] = p /\ rest'[w] = batch[w]
      /\ \A v \in Worker : v # w => pc'[v] = pc[v] /\ rest'[v] = rest[v]
  BY DEF TypeOK
<1>2. Places'
  <2>1. \A v \in Worker : Inj(batch'[v]) /\ Inj(rest'[v])
    BY <1>1 DEF Places
  <2>2. \A v \in Worker : Elems(rest'[v]) \subseteq Elems(batch'[v])
    BY <1>1 DEF Places
  <2>3. \A v \in Worker : pc'[v] \in {"idle", "exit"} => batch'[v] = <<>>
    BY <1>1 DEF Places
  <2>4. \A v \in Worker : pc'[v] \notin {"publish", "publishLast"} => rest'[v] = <<>>
    BY <1>1 DEF Places, Publishing
  <2> QED
    BY <2>1, <2>2, <2>3, <2>4 DEF Places, Publishing
<1>3. \A i \in Item : Done(i)' <=> Done(i)
  BY <1>1 DEF Done, Publishing
<1>4. Pending' = Pending
  BY DEF Pending
<1> QED
  BY <1>2, <1>3, <1>4 DEF Once, Counted

\* A worker with an empty batch goes on to p: Cancelled, and DrainEnd with nothing drained.
LEMMA WorkerMoves ==
  ASSUME TypeOK, Places, Once, Counted, NEW w \in Worker,
         NEW p \in {"drain", "exit"}, batch[w] = <<>>, ~ Publishing(w),
         pc' = [pc EXCEPT ![w] = p],
         UNCHANGED <<sub, input, inFlight, batch, rest, published>>
  PROVE  Places' /\ Once' /\ Counted'
<1>1. pc'[w] = p /\ \A v \in Worker : v # w => pc'[v] = pc[v]
  BY DEF TypeOK
<1>2. Places'
  <2>1. \A v \in Worker : pc'[v] \in {"idle", "exit"} => batch'[v] = <<>>
    BY <1>1 DEF Places
  <2>2. \A v \in Worker : pc'[v] \notin {"publish", "publishLast"} => rest'[v] = <<>>
    BY <1>1 DEF Places, Publishing
  <2> QED
    BY <2>1, <2>2 DEF Places, Publishing
<1>3. \A i \in Item : Done(i)' <=> Done(i)
  BY <1>1, NoElems DEF Done, Publishing
<1>4. Pending' = Pending
  BY DEF Pending
<1> QED
  BY <1>2, <1>3, <1>4 DEF Once, Counted

\* What Publish does: the item is one of the batch that was not published.
LEMMA PublishMoves ==
  ASSUME TypeOK, Places, Once, NEW w \in Worker, Publish(w)
  PROVE  \E i \in Item :
           /\ i \in Elems(rest[w]) /\ sub[i] = "sent" /\ published[i] = 0
           /\ published' = [published EXCEPT ![i] = 1]
           /\ rest' \in [Worker -> Seq(Item)]
           /\ Elems(rest'[w]) = Elems(rest[w]) \ {i} /\ Inj(rest'[w])
           /\ \A v \in Worker : v # w => rest'[v] = rest[v]
<1>1. rest[w] \in Seq(Item) /\ Inj(rest[w])
  BY DEF TypeOK, Places
<1>2. PICK k \in Publishable(w) :
        /\ published' = [published EXCEPT ![rest[w][k]] = @ + 1]
        /\ rest' = [rest EXCEPT ![w] = RemoveAt(@, k)]
  BY DEF Publish
<1>3. k \in 1 .. Len(rest[w])
  BY <1>1, LenProperties DEF Publishable
<1> DEFINE i == rest[w][k]
           t == RemoveAt(rest[w], k)
<1>4. i \in Item /\ i \in Elems(rest[w])
  BY <1>1, <1>3, ElementOfSeq DEF Elems
<1>5. t \in Seq(Item) /\ Elems(t) = Elems(rest[w]) \ {i} /\ Inj(t)
  BY <1>1, <1>3, ElemsRemoveAt
<1>6. published' = [published EXCEPT ![i] = published[i] + 1] /\ rest' = [rest EXCEPT ![w] = t]
  BY <1>2
<1> HIDE DEF i, t
<1>7. i \in Elems(batch[w]) /\ sub[i] = "sent"
  BY <1>4 DEF Places
<1>8. published[i] = 0
  <2>1. ~ Done(i)
    BY <1>4, <1>7 DEF Done
  <2> QED
    BY <1>4, <2>1 DEF Once
<1>9. published' = [published EXCEPT ![i] = 1]
  BY <1>6, <1>8
<1>10. /\ rest' \in [Worker -> Seq(Item)] /\ rest'[w] = t
       /\ \A v \in Worker : v # w => rest'[v] = rest[v]
  BY <1>5, <1>6 DEF TypeOK
<1> QED
  BY <1>4, <1>5, <1>7, <1>8, <1>9, <1>10

LEMMA PublishInv ==
  ASSUME TypeOK, Places, Once, Counted, NEW w \in Worker, Publish(w)
  PROVE  Places' /\ Once' /\ Counted'
<1>1. PICK i \in Item :
        /\ i \in Elems(rest[w]) /\ sub[i] = "sent" /\ published[i] = 0
        /\ published' = [published EXCEPT ![i] = 1]
        /\ Elems(rest'[w]) = Elems(rest[w]) \ {i} /\ Inj(rest'[w])
        /\ \A v \in Worker : v # w => rest'[v] = rest[v]
  BY PublishMoves
<1>2. Publishing(w) /\ UNCHANGED <<sub, input, inFlight, pc, batch>>
  BY DEF Publish, Publishing
<1>3. Places'
  <2>1. \A v \in Worker : Inj(batch'[v]) /\ Inj(rest'[v])
    BY <1>1, <1>2 DEF Places
  <2>2. \A v \in Worker : Elems(rest'[v]) \subseteq Elems(batch'[v])
    BY <1>1, <1>2 DEF Places
  <2>3. \A v \in Worker : pc'[v] \notin {"publish", "publishLast"} => rest'[v] = <<>>
    BY <1>1, <1>2 DEF Places, Publishing
  <2> QED
    BY <1>2, <2>1, <2>2, <2>3 DEF Places, Publishing
<1>4. i \in Elems(batch[w]) /\ i \notin Elems(input)
      /\ \A v \in Worker : v # w => i \notin Elems(batch[v])
  BY <1>1 DEF Places
<1>5. Done(i)'
  BY <1>1, <1>2, <1>4 DEF Done, Publishing
<1>6. \A j \in Item : j # i => (Done(j)' <=> Done(j))
  BY <1>1, <1>2 DEF Done, Publishing
<1>7. \A j \in Item : published'[j] = IF j = i THEN 1 ELSE published[j]
  BY <1>1 DEF TypeOK
<1>8. Once'
  BY <1>5, <1>6, <1>7 DEF Once
<1>9. Pending' = Pending
  BY <1>2 DEF Pending
<1> QED
  BY <1>2, <1>3, <1>8, <1>9 DEF Counted

\* The batch is forgotten when all of it is published, and counted down.
LEMMA BatchDoneInv ==
  ASSUME TypeOK, Places, Once, Counted, NEW w \in Worker, BatchDone(w)
  PROVE  Places' /\ Once' /\ Counted'
<1>1. /\ Publishing(w) /\ rest[w] = <<>> /\ Elems(rest[w]) = {}
      /\ UNCHANGED <<sub, input, rest, published>>
      /\ inFlight' = inFlight - Len(batch[w])
  BY NoElems DEF BatchDone, Publishing
<1>2. /\ pc'[w] \in {"idle", "exit"} /\ batch'[w] = <<>>
      /\ \A v \in Worker : v # w => pc'[v] = pc[v] /\ batch'[v] = batch[v]
  BY DEF BatchDone, TypeOK
<1>3. Elems(batch'[w]) = {} /\ Inj(batch'[w])
  BY <1>2, NoElems
<1>4. Places'
  <2>1. \A v \in Worker : Inj(batch'[v]) /\ Inj(rest'[v])
    BY <1>1, <1>2, <1>3 DEF Places
  <2>2. \A v \in Worker : Elems(batch'[v]) \cap Elems(input') = {}
    BY <1>1, <1>2, <1>3 DEF Places
  <2>3. \A u, v \in Worker : u # v => Elems(batch'[u]) \cap Elems(batch'[v]) = {}
    BY <1>2, <1>3 DEF Places
  <2>4. \A v \in Worker : Elems(rest'[v]) \subseteq Elems(batch'[v])
    BY <1>1, <1>2, <1>3 DEF Places
  <2>5. \A v \in Worker : pc'[v] \in {"idle", "exit"} => batch'[v] = <<>>
    BY <1>2 DEF Places
  <2>6. \A v \in Worker : pc'[v] \notin {"publish", "publishLast"} => rest'[v] = <<>>
    BY <1>1, <1>2 DEF Places, Publishing
  <2>7. \A v \in Worker : \A i \in Elems(batch'[v]) : sub'[i] = "sent"
    BY <1>1, <1>2, <1>3 DEF Places
  <2> QED
    BY <1>1, <2>1, <2>2, <2>3, <2>4, <2>5, <2>6, <2>7 DEF Places, Publishing
<1>5. \A i \in Item : Done(i)' <=> Done(i)
  <2> SUFFICES ASSUME NEW i \in Item PROVE Done(i)' <=> Done(i)
    OBVIOUS
  <2>1. i \in Elems(batch[w]) => Publishing(w) /\ i \notin Elems(rest[w])
    BY <1>1
  <2>2. i \notin Elems(batch'[w])
    BY <1>3
  <2> QED
    BY <1>1, <1>2, <2>1, <2>2 DEF Done, Publishing
<1>6. Counted'
  <2> DEFINE B == Elems(batch[w])
  <2>1. Pending' = Pending \ B
    <3>1. \A i \in B : sub[i] = "sent" /\ i \notin Elems(input)
                       /\ \A v \in Worker : v # w => i \notin Elems(batch[v])
      BY DEF Places
    <3>2. ASSUME NEW i \in Item PROVE i \in Pending' <=> i \in Pending \ B
      <4>1. i \in Pending' <=> \/ sub[i] = "sending" \/ i \in Elems(input)
                               \/ \E v \in Worker \ {w} : i \in Elems(batch[v])
        BY <1>1, <1>2, <1>3 DEF Pending
      <4>2. i \in Pending <=> \/ sub[i] = "sending" \/ i \in Elems(input)
                              \/ \E v \in Worker : i \in Elems(batch[v])
        BY DEF Pending
      <4> HIDE DEF B
      <4>3. CASE i \in B
        BY <3>1, <4>1, <4>3
      <4>4. CASE i \notin B
        BY <4>1, <4>2, <4>4 DEF B
      <4> QED
        BY <4>3, <4>4
    <3>3. Pending' \subseteq Item /\ Pending \subseteq Item
      BY DEF Pending
    <3> QED
      BY <3>2, <3>3
  <2>2. B \subseteq Pending
    BY ElemsEmpty DEF Pending, TypeOK
  <2>3. IsFiniteSet(B) /\ Cardinality(B) = Len(batch[w])
    BY ElemsCardinality DEF TypeOK, Places
  <2>4. IsFiniteSet(Pending)
    BY PipelineAssumption, FS_Subset DEF Pending
  <2>5. Pending \cap B = B
    BY <2>2
  <2> HIDE DEF B
  <2>6. Cardinality(Pending \ B) = Cardinality(Pending) - Cardinality(B)
    BY <2>4, <2>5, FS_Difference
  <2> QED
    BY <1>1, <2>1, <2>3, <2>6 DEF Counted
<1> QED
  BY <1>1, <1>4, <1>5, <1>6 DEF Once

\* A Submit counts its item before it sends it, and discounts the item it drops.
LEMMA SubmitInv ==
  ASSUME TypeOK, Places, Once, Counted, NEW i \in Item, SubmitStep(i)
  PROVE  Places' /\ Once' /\ Counted'
<1>1. IsFiniteSet(Pending)
  BY PipelineAssumption, FS_Subset DEF Pending
<1>2. CASE Submit(i)
  <2>1. /\ sub[i] = "new" /\ sub'[i] = "sending" /\ inFlight' = inFlight + 1
        /\ \A j \in Item : j # i => sub'[j] = sub[j]
        /\ UNCHANGED <<input, pc, batch, rest, published>>
    BY <1>2 DEF Submit, TypeOK, workers
  <2>2. Elems(input) \subseteq Item /\ \A w \in Worker : Elems(batch[w]) \subseteq Item
    BY ElemsEmpty DEF TypeOK
  <2>3. i \notin Elems(input) /\ \A w \in Worker : i \notin Elems(batch[w])
    BY <2>1 DEF Places
  <2>4. /\ \A j \in Elems(input') : sub'[j] = "sent"
        /\ \A w \in Worker : \A j \in Elems(batch'[w]) : sub'[j] = "sent"
    BY <2>1, <2>2, <2>3 DEF Places
  <2>5. Places'
    BY <2>1, <2>4 DEF Places, Publishing
  <2>6. \A j \in Item : Done(j)' <=> Done(j)
    BY <2>1 DEF Done, Publishing
  <2>7. Pending' = Pending \cup {i} /\ i \notin Pending
    BY <2>1, <2>3 DEF Pending
  <2>8. Cardinality(Pending') = Cardinality(Pending) + 1
    BY <1>1, <2>7, FS_AddElement
  <2> QED
    BY <2>1, <2>5, <2>6, <2>8 DEF Once, Counted
<1>3. CASE Send(i)
  <2>1. /\ sub[i] = "sending" /\ sub'[i] = "sent" /\ input' = Append(input, i)
        /\ \A j \in Item : j # i => sub'[j] = sub[j]
        /\ UNCHANGED <<inFlight, pc, batch, rest, published>>
    BY <1>3 DEF Send, TypeOK, workers
  <2>2. Elems(input) \subseteq Item /\ \A w \in Worker : Elems(batch[w]) \subseteq Item
    BY ElemsEmpty DEF TypeOK
  <2>3. i \notin Elems(input) /\ \A w \in Worker : i \notin Elems(batch[w])
    BY <2>1 DEF Places
  <2>4. Elems(input') = Elems(input) \cup {i} /\ Inj(input')
    BY <2>1, <2>3, ElemsAppend DEF TypeOK, Places
  <2>5. /\ \A j \in Elems(input') : sub'[j] = "sent"
        /\ \A w \in Worker : \A j \in Elems(batch'[w]) : sub'[j] = "sent"
        /\ \A w \in Worker : Elems(batch'[w]) \cap Elems(input') = {}
    BY <2>1, <2>2, <2>3, <2>4 DEF Places
  <2>6. Places'
    BY <2>1, <2>4, <2>5 DEF Places, Publishing
  <2>7. \A j \in Item : Done(j)' <=> Done(j)
    BY <2>1, <2>4 DEF Done, Publishing
  <2>8. Pending' = Pending
    BY <2>1, <2>4 DEF Pending
  <2> QED
    BY <2>1, <2>6, <2>7, <2>8 DEF Once, Counted
<1>4. CASE SubmitDrop(i)
  <2>1. /\ sub[i] = "sending" /\ sub'[i] = "dropped" /\ inFlight' = inFlight - 1
        /\ \A j \in Item : j # i => sub'[j] = sub[j]
        /\ UNCHANGED <<input, pc, batch, rest, published>>
    BY <1>4 DEF SubmitDrop, TypeOK, workers
  <2>2. Elems(input) \subseteq Item /\ \A w \in Worker : Elems(batch[w]) \subseteq Item
    BY ElemsEmpty DEF TypeOK
  <2>3. i \notin Elems(input) /\ \A w \in Worker : i \notin Elems(batch[w])
    BY <2>1 DEF Places
  <2>4. /\ \A j \in Elems(input') : sub'[j] = "sent"
        /\ \A w \in Worker : \A j \in Elems(batch'[w]) : sub'[j] = "sent"
    BY <2>1, <2>2, <2>3 DEF Places
  <2>5. Places'
    BY <2>1, <2>4 DEF Places, Publishing
  <2>6. \A j \in Item : Done(j)' <=> Done(j)
    BY <2>1 DEF Done, Publishing
  <2>7. Pending' = Pending \ {i} /\ i \in Pending
    BY <2>1, <2>3 DEF Pending
  <2>8. Cardinality(Pending') = Cardinality(Pending) - 1
    BY <1>1, <2>7, FS_RemoveElement
  <2> QED
    BY <2>1, <2>5, <2>6, <2>8 DEF Once, Counted
<1> QED
  BY <1>2, <1>3, <1>4 DEF SubmitStep

\* Flush and Stop move nothing.
LEMMA StillInv ==
  ASSUME Places, Once, Counted, UNCHANGED <<sub, input, inFlight, workers>>
  PROVE  Places' /\ Once' /\ Counted'
<1>1. UNCHANGED <<pc, batch, rest, published>>
  BY DEF workers
<1>2. Pending' = Pending
  BY <1>1 DEF Pending
<1>3. \A i \in Item : Done(i)' <=> Done(i)
  BY <1>1 DEF Done, Publishing
<1> QED
  BY <1>1, <1>2, <1>3 DEF Places, Once, Counted, Publishing

LEMMA WorkerInv ==
  ASSUME TypeOK, Places, Once, Counted, NEW w \in Worker, WorkerStep(w)
  PROVE  Places' /\ Once' /\ Counted'
<1>1. CASE Gather(w) \/ Fill(w) \/ Drain(w)
  <2>1. /\ Take(w) /\ ~ Publishing(w) /\ pc[w] # "exit"
        /\ pc' = pc \/ (pc[w] = "idle" /\ pc' = [pc EXCEPT ![w] = "fill"])
        /\ UNCHANGED <<sub, inFlight, rest, published>>
    BY <1>1 DEF Gather, Fill, Drain, Publishing
  <2>2. pc' = pc => pc[w] # "idle"
    BY <1>1 DEF Gather, Fill, Drain, TypeOK
  <2> QED
    BY <2>1, <2>2, TakeInv
<1>2. CASE FillEnd(w)
  BY <1>2, HandOver DEF FillEnd, Publishing
<1>3. CASE Cancelled(w)
  <2>1. batch[w] = <<>>
    BY <1>3 DEF Cancelled, Places
  <2> QED
    BY <1>3, <2>1, WorkerMoves DEF Cancelled, Publishing
<1>4. CASE DrainEnd(w)
  <2>1. CASE batch[w] = <<>>
    BY <1>4, <2>1, WorkerMoves DEF DrainEnd, Publishing
  <2>2. CASE batch[w] # <<>>
    BY <1>4, <2>2, HandOver DEF DrainEnd, Publishing
  <2> QED
    BY <2>1, <2>2
<1>5. CASE Publish(w) \/ BatchDone(w)
  BY <1>5, PublishInv, BatchDoneInv
<1> QED
  BY <1>1, <1>2, <1>3, <1>4, <1>5 DEF WorkerStep

LEMMA FlushStill ==
  ASSUME \/ \E f \in Flusher : FlushStep(f)
         \/ Stop \/ StopReturn \/ UNCHANGED vars
  PROVE  UNCHANGED <<sub, input, inFlight, workers>>
BY DEF FlushStep, Flush, FlushCheck, FlushWait, FlushRelock, Stop, StopReturn, vars

----------------------------------------------------------------------------
(* Type correctness                                                        *)

LEMMA TypeStep ==
  ASSUME TypeOK, Places, Once, [Next]_vars
  PROVE  TypeOK'
<1>1. ASSUME NEW i \in Item, SubmitStep(i) PROVE TypeOK'
  <2>1. CASE Submit(i)
    BY <2>1 DEF Submit, TypeOK, workers, flushers
  <2>2. CASE Send(i)
    <3>1. input' \in Seq(Item) /\ Len(input') = Len(input) + 1 /\ Len(input) \in Nat
      BY <2>2, ElemsAppend, LenProperties DEF Send, TypeOK
    <3>2. Len(input') <= InputBuffer
      BY <2>2, <3>1, PipelineAssumption DEF Send
    <3> QED
      BY <2>2, <3>1, <3>2 DEF Send, TypeOK, workers, flushers
  <2>3. CASE SubmitDrop(i)
    BY <2>3, BroadcastType DEF SubmitDrop, TypeOK, workers
  <2> QED
    BY <1>1, <2>1, <2>2, <2>3 DEF SubmitStep
<1>2. ASSUME NEW w \in Worker, WorkerStep(w) PROVE TypeOK'
  <2>1. CASE Gather(w) \/ Fill(w) \/ Drain(w)
    <3>1. Take(w) /\ UNCHANGED <<sub, inFlight, rest, published, stop, flushers, atStop>>
      BY <2>1 DEF Gather, Fill, Drain
    <3>2. input' \in Seq(Item) /\ Len(input') <= InputBuffer /\ batch' \in [Worker -> Seq(Item)]
      BY <3>1, TakeMoves
    <3>3. pc' \in [Worker -> {"idle", "fill", "publish", "drain", "publishLast", "exit"}]
      BY <2>1 DEF Gather, Fill, Drain, TypeOK
    <3> QED
      BY <3>1, <3>2, <3>3 DEF TypeOK, flushers
  <2>2. CASE FillEnd(w)
    BY <2>2 DEF FillEnd, TypeOK, flushers
  <2>3. CASE Cancelled(w)
    BY <2>3 DEF Cancelled, TypeOK, flushers
  <2>4. CASE DrainEnd(w)
    BY <2>4, BroadcastType DEF DrainEnd, TypeOK
  <2>5. CASE Publish(w)
    <3>1. PICK i \in Item : /\ published' = [published EXCEPT ![i] = 1]
                            /\ rest' \in [Worker -> Seq(Item)]
      BY <2>5, PublishMoves
    <3> QED
      BY <2>5, <3>1 DEF Publish, TypeOK, flushers
  <2>6. CASE BatchDone(w)
    <3>1. Len(batch[w]) \in Nat
      BY LenProperties DEF TypeOK
    <3>2. batch' \in [Worker -> Seq(Item)]
      BY <2>6, NoElems DEF BatchDone, TypeOK
    <3>3. inFlight' \in Int
      BY <2>6, <3>1 DEF BatchDone, TypeOK
    <3>4. pc' \in [Worker -> {"idle", "fill", "publish", "drain", "publishLast", "exit"}]
      BY <2>6 DEF BatchDone, TypeOK
    <3>5. flush' \in [Flusher -> {"out", "check", "decided", "parked", "woken", "back"}]
      BY <2>6, BroadcastType DEF BatchDone, TypeOK
    <3> QED
      BY <2>6, <3>2, <3>3, <3>4, <3>5 DEF BatchDone, TypeOK
  <2> QED
    BY <1>2, <2>1, <2>2, <2>3, <2>4, <2>5, <2>6 DEF WorkerStep
<1>3. ASSUME NEW f \in Flusher, FlushStep(f) PROVE TypeOK'
  <2>1. CASE Flush(f)
    <3>1. Returned \in SUBSET Item
      BY DEF Returned
    <3> QED
      BY <2>1, <3>1 DEF Flush, TypeOK, workers
  <2>2. CASE FlushCheck(f)
    BY <2>2 DEF FlushCheck, TypeOK, workers
  <2>3. CASE FlushWait(f) \/ FlushRelock(f)
    BY <2>3 DEF FlushWait, FlushRelock, TypeOK, workers
  <2> QED
    BY <1>3, <2>1, <2>2, <2>3 DEF FlushStep
<1>4. CASE Stop
  BY <1>4 DEF Stop, TypeOK, Returned, workers, flushers
<1>5. CASE StopReturn
  BY <1>5 DEF StopReturn, TypeOK, workers, flushers
<1>6. CASE UNCHANGED vars
  BY <1>6 DEF vars, TypeOK, workers, flushers
<1> QED
  BY <1>1, <1>2, <1>3, <1>4, <1>5, <1>6 DEF Next

LEMMA PlacesStep ==
  ASSUME TypeOK, Places, Once, Counted, [Next]_vars
  PROVE  Places' /\ Once' /\ Counted'
<1>1. CASE \E i \in Item : SubmitStep(i)
  <2>1. PICK i \in Item : SubmitStep(i)
    BY <1>1
  <2> QED
    BY <2>1, SubmitInv
<1>2. CASE \E w \in Worker : WorkerStep(w)
  <2>1. PICK w \in Worker : WorkerStep(w)
    BY <1>2
  <2> QED
    BY <2>1, WorkerInv
<1>3. CASE (\E f \in Flusher : FlushStep(f)) \/ Stop \/ StopReturn \/ UNCHANGED vars
  BY <1>3, FlushStill, StillInv
<1> QED
  BY <1>1, <1>2, <1>3 DEF Next

----------------------------------------------------------------------------
(* Stop                                                                    *)

LEMMA WorkerStopped ==
  ASSUME TypeOK, Stopped, NEW w \in Worker, NEW p, pc[w] # "exit",
         pc' = [pc EXCEPT ![w] = p],
         p \in {"drain", "publishLast", "exit"} => stopping,
         p \in {"publishLast", "exit"} => atStop \cap Elems(input') = {},
         Elems(input') \subseteq Elems(input),
         UNCHANGED <<sub, stop, atStop>>
  PROVE  Stopped'
<1>1. pc'[w] = p /\ \A v \in Worker : v # w => pc'[v] = pc[v]
  BY DEF TypeOK
<1>2. stop # "returned"
  BY DEF Stopped
<1>3. Returned' = Returned /\ stopping' = stopping
  BY DEF Returned, stopping
<1>4. \A v \in Worker : pc'[v] \in {"drain", "publishLast", "exit"} => stopping'
  BY <1>1, <1>3 DEF Stopped
<1>5. \A v \in Worker : pc'[v] \in {"publishLast", "exit"} => atStop' \cap Elems(input') = {}
  BY <1>1 DEF Stopped
<1> QED
  BY <1>2, <1>3, <1>4, <1>5 DEF Stopped

LEMMA WorkerStopStep ==
  ASSUME TypeOK, Places, Stopped, NEW w \in Worker, WorkerStep(w)
  PROVE  Stopped'
<1>1. CASE Gather(w)
  <2>1. Elems(input') \subseteq Elems(input)
    BY <1>1, TakeMoves DEF Gather
  <2> QED
    BY <1>1, <2>1, WorkerStopped DEF Gather
<1>2. CASE Fill(w) \/ Drain(w) \/ Publish(w)
  <2>1. Elems(input') \subseteq Elems(input)
    BY <1>2, TakeMoves DEF Fill, Drain, Publish
  <2>2. /\ pc[w] \in {"fill", "drain", "publish", "publishLast"} /\ pc' = pc
        /\ UNCHANGED <<sub, stop, atStop>>
    BY <1>2 DEF Fill, Drain, Publish
  <2>3. pc' = [pc EXCEPT ![w] = pc[w]]
    BY <2>2 DEF TypeOK
  <2>4. pc[w] \in {"drain", "publishLast", "exit"} => stopping
    BY DEF Stopped
  <2>5. pc[w] \in {"publishLast", "exit"} => atStop \cap Elems(input') = {}
    BY <2>1 DEF Stopped
  <2> QED
    BY <2>1, <2>2, <2>3, <2>4, <2>5, WorkerStopped
<1>3. CASE FillEnd(w)
  BY <1>3, WorkerStopped DEF FillEnd
<1>4. CASE Cancelled(w)
  BY <1>4, WorkerStopped DEF Cancelled
<1>5. CASE DrainEnd(w)
  <2>1. /\ stopping /\ pc[w] # "exit" /\ Elems(input') = {} /\ Elems(input) = {}
        /\ UNCHANGED <<sub, stop, atStop>>
    BY <1>5, NoElems DEF DrainEnd, Stopped
  <2>2. CASE batch[w] = <<>>
    BY <1>5, <2>1, <2>2, WorkerStopped DEF DrainEnd
  <2>3. CASE batch[w] # <<>>
    BY <1>5, <2>1, <2>3, WorkerStopped DEF DrainEnd
  <2> QED
    BY <2>2, <2>3
<1>6. CASE BatchDone(w)
  <2>1. /\ pc[w] \in {"publish", "publishLast"} /\ input' = input
        /\ UNCHANGED <<sub, stop, atStop>>
    BY <1>6 DEF BatchDone
  <2>2. pc[w] = "publishLast" => stopping /\ atStop \cap Elems(input') = {}
    BY <2>1 DEF Stopped
  <2>3. CASE pc[w] = "publish"
    BY <1>6, <2>1, <2>3, WorkerStopped DEF BatchDone
  <2>4. CASE pc[w] = "publishLast"
    <3>1. pc' = [pc EXCEPT ![w] = "exit"]
      BY <1>6, <2>4 DEF BatchDone
    <3> QED
      BY <2>1, <2>2, <2>4, <3>1, WorkerStopped
  <2> QED
    BY <2>1, <2>3, <2>4
<1> QED
  BY <1>1, <1>2, <1>3, <1>4, <1>5, <1>6 DEF WorkerStep

LEMMA StoppedStep ==
  ASSUME TypeOK, Places, Stopped, [Next]_vars
  PROVE  Stopped'
<1>1. ASSUME NEW i \in Item, SubmitStep(i) PROVE Stopped'
  <2>1. UNCHANGED <<pc, stop, atStop>> /\ stopping' = stopping
    BY <1>1 DEF SubmitStep, Submit, Send, SubmitDrop, workers, stopping
  <2>2. Returned \subseteq Returned'
    BY <1>1 DEF SubmitStep, Submit, Send, SubmitDrop, Returned, TypeOK
  <2>3. atStop \cap Elems(input) = {} => atStop \cap Elems(input') = {}
    <3>1. CASE Send(i)
      <4>1. Elems(input') = Elems(input) \cup {i}
        BY <3>1, ElemsAppend DEF Send, TypeOK
      <4>2. i \notin atStop
        BY <3>1 DEF Send, Stopped, Returned
      <4> QED
        BY <4>1, <4>2
    <3>2. CASE ~ Send(i)
      BY <1>1, <3>2 DEF SubmitStep, Submit, SubmitDrop
    <3> QED
      BY <3>1, <3>2
  <2> QED
    BY <2>1, <2>2, <2>3 DEF Stopped
<1>2. CASE \E w \in Worker : WorkerStep(w)
  <2>1. PICK w \in Worker : WorkerStep(w)
    BY <1>2
  <2> QED
    BY <2>1, WorkerStopStep
<1>3. CASE (\E f \in Flusher : FlushStep(f)) \/ UNCHANGED vars
  <2>1. UNCHANGED <<sub, input, pc, stop, atStop>>
    BY <1>3 DEF FlushStep, Flush, FlushCheck, FlushWait, FlushRelock, vars, workers
  <2> QED
    BY <2>1 DEF Stopped, Returned, stopping
<1>4. CASE Stop
  <2>1. /\ stop = "no" /\ stop' = "waiting" /\ atStop' = Returned
        /\ UNCHANGED <<sub, input, pc>>
    BY <1>4 DEF Stop, workers
  <2>2. \A w \in Worker : pc[w] \notin {"drain", "publishLast", "exit"}
    BY <2>1 DEF Stopped, stopping
  <2>3. Returned' = Returned
    BY <2>1 DEF Returned
  <2> QED
    BY <2>1, <2>2, <2>3 DEF Stopped
<1>5. CASE StopReturn
  <2>1. /\ \A w \in Worker : pc[w] = "exit"
        /\ stop' = "returned" /\ UNCHANGED <<sub, input, pc, atStop>>
    BY <1>5 DEF StopReturn, workers
  <2>2. stopping' /\ Returned' = Returned
    BY <2>1 DEF stopping, Returned
  <2> QED
    BY <2>1, <2>2 DEF Stopped
<1> QED
  BY <1>1, <1>2, <1>3, <1>4, <1>5 DEF Next

----------------------------------------------------------------------------
(* Flush                                                                   *)

\* What is published stays published, and what was sent stays sent.
LEMMA Stays ==
  ASSUME TypeOK, Places, Once, [Next]_vars, NEW i \in Item
  PROVE  /\ published[i] = 1 => published'[i] = 1
         /\ i \in Returned => i \in Returned'
<1>1. CASE \E w \in Worker : Publish(w)
  <2>1. PICK w \in Worker : Publish(w)
    BY <1>1
  <2>2. PICK j \in Item : published' = [published EXCEPT ![j] = 1]
    BY <2>1, PublishMoves
  <2>3. sub' = sub
    BY <2>1 DEF Publish
  <2> QED
    BY <2>2, <2>3 DEF TypeOK, Returned
<1>2. CASE ~ \E w \in Worker : Publish(w)
  <2>1. published' = published
    BY <1>2 DEF Next, SubmitStep, Submit, Send, SubmitDrop, WorkerStep, Gather, Fill, FillEnd,
      Cancelled, Drain, DrainEnd, BatchDone, FlushStep, Flush, FlushCheck, FlushWait,
      FlushRelock, Stop, StopReturn, vars, workers
  <2>2. sub' = sub \/ \E j \in Item : SubmitStep(j)
    BY <1>2, FlushStill DEF Next, WorkerStep, Gather, Fill, FillEnd, Cancelled, Drain,
      DrainEnd, BatchDone
  <2>3. i \in Returned => i \in Returned'
    BY <2>2 DEF SubmitStep, Submit, Send, SubmitDrop, Returned, TypeOK
  <2> QED
    BY <2>1, <2>3
<1> QED
  BY <1>1, <1>2

\* Nothing in flight: all that was sent is published.
LEMMA IdleIsDone ==
  ASSUME TypeOK, Once, Counted, ~ (inFlight > 0)
  PROVE  \A i \in Returned : published[i] = 1
<1>1. IsFiniteSet(Pending)
  BY PipelineAssumption, FS_Subset DEF Pending
<1>2. Cardinality(Pending) \in Nat
  BY <1>1, FS_CardinalityType
<1>3. Cardinality(Pending) = 0
  BY <1>2 DEF Counted
<1>4. Pending = {}
  BY <1>1, <1>3, FS_EmptySet
<1> QED
  BY <1>4 DEF Pending, Once, Done, Returned

LEMMA FlushedStep ==
  ASSUME Inv, [Next]_vars
  PROVE  Flushed'
<1>1. TypeOK /\ Places /\ Once /\ Counted /\ Flushed
  BY DEF Inv
<1>2. \A i \in Item : /\ published[i] = 1 => published'[i] = 1
                      /\ i \in Returned => i \in Returned'
  BY <1>1, Stays
<1>3. Returned \subseteq Item /\ \A f \in Flusher : owed[f] \subseteq Item
  BY <1>1 DEF Returned, TypeOK
<1>4. ASSUME NEW f \in Flusher
      PROVE  /\ owed'[f] \subseteq Returned'
             /\ flush'[f] = "back" => \A i \in owed'[f] : published'[i] = 1
  <2>1. CASE owed'[f] = owed[f] /\ (flush'[f] = "back" => flush[f] = "back")
    BY <1>1, <1>2, <1>3, <2>1 DEF Flushed
  <2>2. CASE Flush(f)
    <3>1. owed'[f] = Returned /\ flush'[f] = "check"
      BY <1>1, <2>2 DEF Flush, TypeOK
    <3> QED
      BY <1>2, <1>3, <3>1
  <2>3. CASE FlushCheck(f) /\ flush'[f] = "back"
    <3>1. owed'[f] = owed[f] /\ ~ (inFlight > 0)
      BY <1>1, <2>3 DEF FlushCheck, TypeOK
    <3>2. \A i \in Returned : published[i] = 1
      BY <1>1, <3>1, IdleIsDone
    <3> QED
      BY <1>1, <1>2, <1>3, <3>1, <3>2 DEF Flushed
  <2>4. ASSUME ~ Flush(f), ~ (FlushCheck(f) /\ flush'[f] = "back")
        PROVE  owed'[f] = owed[f] /\ (flush'[f] = "back" => flush[f] = "back")
    <3>1. ASSUME NEW g \in Flusher, FlushStep(g)
          PROVE  owed'[f] = owed[f] /\ (flush'[f] = "back" => flush[f] = "back")
      <4>1. CASE g = f
        BY <1>1, <2>4, <3>1, <4>1 DEF FlushStep, FlushCheck, FlushWait, FlushRelock, TypeOK
      <4>2. CASE g # f
        BY <1>1, <3>1, <4>2 DEF FlushStep, Flush, FlushCheck, FlushWait, FlushRelock, TypeOK
      <4> QED
        BY <4>1, <4>2
    <3>2. CASE ~ \E g \in Flusher : FlushStep(g)
      <4>1. owed' = owed /\ (flush' = flush \/ flush' = Broadcast)
        BY <3>2 DEF Next, SubmitStep, Submit, Send, SubmitDrop, WorkerStep, Gather, Fill,
          FillEnd, Cancelled, Drain, DrainEnd, Publish, BatchDone, Stop, StopReturn, vars,
          flushers
      <4> QED
        BY <1>1, <4>1, BroadcastType
    <3> QED
      BY <3>1, <3>2
  <2> QED
    BY <2>1, <2>2, <2>3, <2>4
<1> QED
  BY <1>4 DEF Flushed

----------------------------------------------------------------------------
LEMMA InvStep == Inv /\ [Next]_vars => Inv'
BY TypeStep, PlacesStep, StoppedStep, FlushedStep DEF Inv

LEMMA InvTheorem == Spec => []Inv
BY InitInv, InvStep, PTL DEF Spec

\* inFlight is the number of items between the call of Submit and the end of their batch,
\* for any number of workers, items and flushers, any batch size and buffer.
THEOREM InFlightTheorem == Spec => []InFlightCounts
<1>1. Inv => InFlightCounts
  <2> SUFFICES ASSUME TypeOK, Counted PROVE InFlightCounts
    BY DEF Inv
  <2>1. \A s \in Seq(Item) : ToSet(s) = Elems(s)
    BY LenProperties DEF ToSet, Elems
  <2>2. ToSet(input) = Elems(input) /\ \A w \in Worker : ToSet(batch[w]) = Elems(batch[w])
    BY <2>1 DEF TypeOK
  <2>3. OnTheWay = Pending
    BY <2>2 DEF OnTheWay, Pending
  <2>4. QED
    BY <2>3 DEF InFlightCounts, Counted
<1> QED
  BY <1>1, InvTheorem, PTL

\* Flush returns only when every item whose Submit had returned before the call is
\* published: the counter it tests counts the items in batches too.
THEOREM FlushTheorem == Spec => []FlushSound
<1>1. Inv => FlushSound
  BY DEF Inv, Flushed, FlushSound
<1> QED
  BY <1>1, InvTheorem, PTL

\* Stop returns only when every item whose Submit had returned before the call is
\* published, however the cancellation and the workers' loops interleave.
THEOREM StopTheorem == Spec => []StopDrains
<1>1. Inv => StopDrains
  <2> SUFFICES ASSUME Inv, stop = "returned", NEW i \in atStop PROVE published[i] = 1
    BY DEF StopDrains
  <2>1. \A w \in Worker : pc[w] = "exit"
    BY DEF Inv, Stopped
  <2>2. i \in Item /\ sub[i] = "sent"
    BY DEF Inv, Stopped, Returned
  <2>3. PICK w \in Worker : TRUE
    BY PipelineAssumption
  <2>4. i \notin Elems(input)
    BY <2>1, <2>3 DEF Inv, Stopped
  <2>5. \A v \in Worker : i \notin Elems(batch[v])
    BY <2>1, NoElems DEF Inv, Places
  <2>6. Done(i)
    BY <2>2, <2>4, <2>5 DEF Done
  <2> QED
    BY <2>2, <2>6 DEF Inv, Once
<1> QED
  BY <1>1, InvTheorem, PTL

----------------------------------------------------------------------------
(* The pipeline implements WorkBag                                         *)

waitingBar == {i \in Item : sub[i] \in {"sending", "sent"} /\ published[i] = 0}
droppedBar == {i \in Item : sub[i] = "dropped"}

\* What was not sent is not published.
LEMMA UnsentUnpublished ==
  ASSUME Once, NEW i \in Item, sub[i] # "sent"
  PROVE  published[i] = 0
BY DEF Once, Done

LEMMA BagStutter ==
  ASSUME waitingBar' = waitingBar, droppedBar' = droppedBar,
         published' = published, stopping' = stopping
  PROVE  UNCHANGED Bag!vars
BY DEF waitingBar, droppedBar, Bag!vars

LEMMA BagSubmit ==
  ASSUME TypeOK, Once, NEW i \in Item, SubmitStep(i)
  PROVE  Bag!Next \/ UNCHANGED Bag!vars
<1>1. published' = published /\ stopping' = stopping
  BY DEF SubmitStep, Submit, Send, SubmitDrop, workers, stopping
<1>2. published[i] = 0 /\ sub[i] # "sent" /\ \A j \in Item : j # i => sub'[j] = sub[j]
  BY UnsentUnpublished DEF SubmitStep, Submit, Send, SubmitDrop, TypeOK
<1>3. CASE Submit(i)
  <2>1. sub[i] = "new" /\ sub'[i] = "sending"
    BY <1>3 DEF Submit, TypeOK
  <2>2. /\ i \notin waitingBar \cup droppedBar
        /\ waitingBar' = waitingBar \cup {i} /\ droppedBar' = droppedBar
    BY <1>1, <1>2, <2>1 DEF waitingBar, droppedBar
  <2>3. Bag!Accept(i)
    BY <1>1, <1>2, <2>2 DEF Bag!Accept, Bag!Fresh, waitingBar, droppedBar
  <2> QED
    BY <2>3 DEF Bag!Next
<1>4. CASE Send(i)
  <2>1. sub[i] = "sending" /\ sub'[i] = "sent"
    BY <1>4 DEF Send, TypeOK
  <2>2. waitingBar' = waitingBar /\ droppedBar' = droppedBar
    BY <1>1, <1>2, <2>1 DEF waitingBar, droppedBar
  <2> QED
    BY <1>1, <2>2, BagStutter
<1>5. CASE SubmitDrop(i)
  <2>1. sub[i] = "sending" /\ sub'[i] = "dropped" /\ stopping
    BY <1>5 DEF SubmitDrop, TypeOK
  <2>2. /\ i \in waitingBar
        /\ waitingBar' = waitingBar \ {i} /\ droppedBar' = droppedBar \cup {i}
    BY <1>1, <1>2, <2>1 DEF waitingBar, droppedBar
  <2>3. Bag!Drop(i)
    BY <1>1, <2>1, <2>2 DEF Bag!Drop, Bag!Fresh, waitingBar, droppedBar
  <2> QED
    BY <2>3 DEF Bag!Next
<1> QED
  BY <1>3, <1>4, <1>5 DEF SubmitStep

LEMMA BagPublish ==
  ASSUME TypeOK, Places, Once, NEW w \in Worker, Publish(w)
  PROVE  Bag!Next
<1>1. PICK i \in Item : /\ sub[i] = "sent" /\ published[i] = 0
                        /\ published' = [published EXCEPT ![i] = 1]
  BY PublishMoves
<1>2. sub' = sub /\ stopping' = stopping
  BY DEF Publish, stopping
<1>3. /\ i \in waitingBar
      /\ waitingBar' = waitingBar \ {i} /\ droppedBar' = droppedBar
  BY <1>1, <1>2 DEF waitingBar, droppedBar, TypeOK
<1>4. Bag!Run(i)
  BY <1>1, <1>2, <1>3 DEF Bag!Run, waitingBar, droppedBar
<1> QED
  BY <1>4 DEF Bag!Next

LEMMA BagStep ==
  ASSUME TypeOK, Places, Once, [Next]_vars
  PROVE  [Bag!Next]_Bag!vars
<1>1. CASE \E i \in Item : SubmitStep(i)
  <2>1. PICK i \in Item : SubmitStep(i)
    BY <1>1
  <2> QED
    BY <2>1, BagSubmit
<1>2. CASE \E w \in Worker : Publish(w)
  <2>1. PICK w \in Worker : Publish(w)
    BY <1>2
  <2> QED
    BY <2>1, BagPublish
<1>3. CASE \E w \in Worker : WorkerStep(w) /\ ~ Publish(w)
  <2>1. sub' = sub /\ published' = published /\ stop' = stop
    BY <1>3 DEF WorkerStep, Gather, Fill, FillEnd, Cancelled, Drain, DrainEnd, BatchDone
  <2>2. waitingBar' = waitingBar /\ droppedBar' = droppedBar /\ stopping' = stopping
    BY <2>1 DEF waitingBar, droppedBar, stopping
  <2> QED
    BY <2>1, <2>2, BagStutter
<1>4. CASE (\E f \in Flusher : FlushStep(f)) \/ StopReturn \/ UNCHANGED vars
  <2>1. sub' = sub /\ published' = published
    BY <1>4, FlushStill DEF workers
  <2>2. stopping' = stopping
    BY <1>4 DEF FlushStep, Flush, FlushCheck, FlushWait, FlushRelock, StopReturn, vars, stopping
  <2>3. waitingBar' = waitingBar /\ droppedBar' = droppedBar
    BY <2>1 DEF waitingBar, droppedBar
  <2> QED
    BY <2>1, <2>2, <2>3, BagStutter
<1>5. CASE Stop
  <2>1. sub' = sub /\ published' = published /\ stopping' = TRUE
    BY <1>5 DEF Stop, workers, stopping
  <2>2. Bag!Close
    BY <2>1 DEF Bag!Close
  <2> QED
    BY <2>2 DEF Bag!Next
<1> QED
  BY <1>1, <1>2, <1>3, <1>4, <1>5 DEF Next, WorkerStep

LEMMA BagInit == Init => Bag!Init
<1> SUFFICES ASSUME Init PROVE Bag!Init
  OBVIOUS
<1>1. waitingBar = {} /\ droppedBar = {} /\ stopping = FALSE
  BY DEF Init, waitingBar, droppedBar, stopping
<1> QED
  BY <1>1 DEF Init, Bag!Init, waitingBar, droppedBar

\* The pipeline implements the dispatcher's promise: every accepted item is published
\* once and never again, and none is dropped before Stop.
THEOREM RefinementTheorem == Spec => ImplementsWorkBag
<1>1. Init => Bag!Init
  BY BagInit
<1>2. Inv /\ [Next]_vars => [Bag!Next]_Bag!vars
  BY BagStep DEF Inv
<1> QED
  BY <1>1, <1>2, InvTheorem, PTL DEF Spec, ImplementsWorkBag, Bag!Spec
=============================================================================
