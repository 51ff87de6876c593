--------------------------- MODULE TopologyProofs ---------------------------
(***************************************************************************)
(* Proofs about Topology and Snapshot.  Only an Exchange.Bind that finds a *)
(* binding its HasCycle did not see closes a cycle of exchanges.  As long  *)
(* as no store call fails the metadata store agrees with the managers at   *)
(* every moment a crash may come, and a saved binding routes or was        *)
(* removed by a cascade.  Where no queue has the name of an exchange, the  *)
(* index by queue covers the index by exchange.  A snapshot is sound, and  *)
(* one that was written in full stays on disk.                             *)
(***************************************************************************)
EXTENDS Snapshot, Basics, SequenceTheorems, FiniteSetTheorems, TLAPS

----------------------------------------------------------------------------
(* What HasCycle's search visits                                           *)

\* The search from x visits x.
LEMMA ReachSelf ==
  ASSUME NEW E, NEW x \in Exchange
  PROVE  x \in Reach(E, x)
BY DEF Reach

\* With fewer bindings the search visits no more (Unbind, UnbindAllForExchange).
LEMMA ReachMonotone ==
  ASSUME NEW E, NEW F, E \subseteq F, NEW x, NEW y \in Reach(E, x)
  PROVE  y \in Reach(F, x)
<1>1. \A S : Closed(F, S) => Closed(E, S)
  BY DEF Closed
<1>2. QED
  BY <1>1 DEF Reach

\* An exchange the search does not visit is outside some closed set that holds
\* the start.
LEMMA NotReached ==
  ASSUME NEW E, NEW x, NEW y \in Exchange, y \notin Reach(E, x)
  PROVE  \E S \in SUBSET Exchange : x \in S /\ y \notin S /\ Closed(E, S)
BY DEF Reach

\* A closed set that holds the start and not y shows that y is not visited.
LEMMA Separates ==
  ASSUME NEW E, NEW x, NEW y, NEW S \in SUBSET Exchange,
         x \in S, y \notin S, Closed(E, S)
  PROVE  y \notin Reach(E, x)
BY DEF Reach

\* Every binding starts where no way leads back from its destination.
NoWayBack(E) == \A e \in E : e.source \notin Reach(E, e.destination)

\* What HasCycle is for: a binding whose source the search from its
\* destination does not visit can be added to bindings without a cycle.
LEMMA BindKeepsAcyclic ==
  ASSUME NEW E \in SUBSET E2EBinding, NEW n \in E2EBinding,
         NoWayBack(E), n.source \notin Reach(E, n.destination)
  PROVE  NoWayBack(E \cup {n})
<1> DEFINE F == E \cup {n}
<1>0. /\ n.source \in Exchange /\ n.destination \in Exchange
      /\ \A e \in F : e \in E2EBinding /\ e.source \in Exchange /\ e.destination \in Exchange
  BY DEF E2EBinding
<1>1. PICK S \in SUBSET Exchange :
         n.destination \in S /\ n.source \notin S /\ Closed(E, S)
  BY <1>0, NotReached
<1>2. Closed(F, S)
  BY <1>1 DEF Closed
<1>3. SUFFICES ASSUME NEW e \in F
               PROVE  e.source \notin Reach(F, e.destination)
  BY DEF NoWayBack
<1>4. CASE e = n
  BY <1>1, <1>2, <1>4, Separates
<1>5. CASE e \in E
  <2>1. PICK T \in SUBSET Exchange :
           e.destination \in T /\ e.source \notin T /\ Closed(E, T)
    BY <1>0, <1>5, NotReached DEF NoWayBack
  <2>2. CASE n.source \notin T
    <3>1. Closed(F, T)
      BY <2>1, <2>2 DEF Closed
    <3>2. QED
      BY <2>1, <3>1, Separates
  <2>3. CASE n.source \in T /\ e.source \notin S
    <3>1. Closed(F, T \cup S)
      BY <1>1, <2>1 DEF Closed
    <3>2. QED
      BY <2>1, <2>3, <3>1, Separates
  <2>4. CASE e.source \in S
    \* e.destination is in S too, n.source is not.
    <3>1. e.destination \in S
      BY <1>1, <1>5, <2>4 DEF Closed
    <3>2. Closed(F, S \cap T)
      BY <1>1, <2>1 DEF Closed
    <3>3. QED
      BY <2>1, <3>1, <3>2, Separates
  <2>5. QED
    BY <2>2, <2>3, <2>4
<1>6. QED
  BY <1>4, <1>5

----------------------------------------------------------------------------
(* Only an overtaken Exchange.Bind closes a cycle                          *)

\* An Exchange.Bind between its check and its Bind has a binding that closes
\* no cycle with the bindings its check saw.
Checked ==
  \A c \in Conn : op[c].at = "bind" =>
    /\ op[c].e \in E2EBinding
    /\ op[c].e.source \notin Reach(op[c].seen, op[c].e.destination)

BindInv ==
  /\ e2e \subseteq E2EBinding
  /\ op = [c \in Conn |-> op[c]]
  /\ Checked

\* Steps that add no binding between exchanges and put no handler between
\* its check and its Bind.
NoBind ==
  /\ e2e' \subseteq e2e
  /\ op' = [k \in Conn |-> op'[k]]
  /\ \A k \in Conn : op'[k] = op[k] \/ op'[k].at # "bind"

\* Exchange.Bind apart, every handler, Crash and RestoreFromStore is such a step.
LEMMA OtherSteps ==
  ASSUME BindInv, Next
  PROVE  \/ NoBind
         \/ \E c \in Conn, e \in E2EBinding : handleExchangeBind(c, e)
         \/ \E c \in Conn : BindE2E(c)
<1> USE DEF BindInv, NoBind, Idle
<1>1. CASE Crash
  BY <1>1 DEF Crash
<1>2. CASE RestoreFromStore
  BY <1>2 DEF RestoreFromStore
<1>3. ASSUME NEW c \in Conn, Handler(c)
      PROVE  \/ NoBind
             \/ \E e \in E2EBinding : handleExchangeBind(c, e)
             \/ BindE2E(c)
  <2>1. ASSUME NEW q \in Queue,
               \/ \E args \in QArgs : handleQueueDeclare(c, q, args)
               \/ handleQueueDelete(c, q)
               \/ RouterDeleteQueue(c, q)
        PROVE  NoBind
    BY <2>1 DEF handleQueueDeclare, handleQueueDelete, RouterDeleteQueue, DeclareQueue,
                DeleteQueue
  <2>2. ASSUME NEW x \in Exchange,
               \/ \E name \in Types : handleExchangeDeclare(c, x, name)
               \/ handleExchangeDelete(c, x)
               \/ RouterDeleteExchange(c, x)
        PROVE  NoBind
    BY <2>2 DEF handleExchangeDeclare, handleExchangeDelete, RouterDeleteExchange,
                DeclareExchange, DeleteExchange, memory
  <2>3. ASSUME NEW b \in Binding, handleQueueBind(c, b) \/ handleQueueUnbind(c, b)
        PROVE  NoBind
    BY <2>3 DEF handleQueueBind, handleQueueUnbind
  <2>4. ASSUME NEW e \in E2EBinding, handleExchangeUnbind(c, e)
        PROVE  NoBind
    BY <2>4 DEF handleExchangeUnbind
  <2>5. CASE UnbindE2E(c)
    BY <2>5 DEF UnbindE2E
  <2>6. CASE UnbindAllForQueue(c)
    BY <2>6 DEF UnbindAllForQueue
  <2>7. CASE CleanByExchange(c)
    BY <2>7 DEF CleanByExchange
  <2>8. CASE UnbindAllForExchange(c)
    BY <2>8 DEF UnbindAllForExchange
  <2>9. CASE CleanByQueue(c)
    BY <2>9 DEF CleanByQueue
  <2>10. QED
    BY <1>3, <2>1, <2>2, <2>3, <2>4, <2>5, <2>6, <2>7, <2>8, <2>9, Zenon DEF Handler
<1>4. QED
  BY <1>1, <1>2, <1>3, Zenon DEF Next

\* Every step keeps BindInv.
LEMMA BindInvStep ==
  ASSUME BindInv, [Next]_vars
  PROVE  BindInv'
<1>1. CASE NoBind
  <2>1. \A c \in Conn : op'[c].at = "bind" => op'[c] = op[c] /\ op[c].at = "bind"
    BY <1>1 DEF NoBind
  <2>2. QED
    BY <1>1, <2>1 DEF NoBind, BindInv, Checked
<1>2. ASSUME NEW c \in Conn, NEW e \in E2EBinding, handleExchangeBind(c, e)
      PROVE  BindInv'
  <2> DEFINE new == [at |-> "bind", e |-> e, seen |-> e2e]
  <2>1. e2e' = e2e /\ op' = [op EXCEPT ![c] = new]
    BY <1>2 DEF handleExchangeBind, memory
  <2>2. e.source \notin Reach(e2e, e.destination)
    BY <1>2 DEF handleExchangeBind, HasCycle
  <2>3. op'[c] = new /\ (\A k \in Conn \ {c} : op'[k] = op[k]) /\ op' = [k \in Conn |-> op'[k]]
    BY <2>1 DEF BindInv
  <2>4. Checked'
    BY <2>2, <2>3 DEF BindInv, Checked
  <2>5. QED
    BY <2>1, <2>3, <2>4 DEF BindInv
<1>3. ASSUME NEW c \in Conn, BindE2E(c)
      PROVE  BindInv'
  <2>1. /\ op[c].at = "bind" /\ e2e' = e2e \cup {op[c].e}
        /\ op' = [op EXCEPT ![c] = Idle]
    BY <1>3 DEF BindE2E
  <2>2. \A k \in Conn : op'[k] = op[k] \/ op'[k].at # "bind"
    BY <2>1 DEF BindInv, Idle
  <2>3. QED
    BY <2>1, <2>2 DEF BindInv, Checked
<1>4. CASE UNCHANGED vars
  BY <1>4 DEF vars, memory, BindInv, Checked
<1>5. QED
  BY <1>1, <1>2, <1>3, <1>4, OtherSteps

\* A Bind that finds no binding its check did not see closes no cycle, and no
\* other step adds a binding.
LEMMA CycleStep ==
  ASSUME BindInv, [Next]_vars, Acyclic,
         \A c \in Conn : BindE2E(c) => e2e \subseteq op[c].seen
  PROVE  Acyclic'
<1>1. CASE NoBind
  BY <1>1, ReachMonotone DEF NoBind, Acyclic
<1>2. ASSUME NEW c \in Conn, BindE2E(c)
      PROVE  Acyclic'
  <2>1. op[c].at = "bind" /\ e2e' = e2e \cup {op[c].e} /\ e2e \subseteq op[c].seen
    BY <1>2 DEF BindE2E
  <2>2. op[c].e \in E2EBinding /\ op[c].e.source \notin Reach(op[c].seen, op[c].e.destination)
    BY <2>1 DEF BindInv, Checked
  <2>3. op[c].e.source \notin Reach(e2e, op[c].e.destination)
    BY <2>1, <2>2, ReachMonotone
  <2>4. NoWayBack(e2e \cup {op[c].e})
    BY <2>2, <2>3, BindKeepsAcyclic DEF BindInv, Acyclic, NoWayBack
  <2>5. QED
    BY <2>1, <2>4 DEF Acyclic, NoWayBack
<1>3. CASE e2e' = e2e
  BY <1>3 DEF Acyclic
<1>4. (\E c \in Conn, e \in E2EBinding : handleExchangeBind(c, e)) => e2e' = e2e
  BY DEF handleExchangeBind, memory
<1>5. UNCHANGED vars => e2e' = e2e
  BY DEF vars, memory
<1>6. QED
  BY <1>1, <1>2, <1>3, <1>4, <1>5, OtherSteps

\* What handleExchangeBind's check ("Prevent cycle: A->B->A.") is worth while
\* other connections bind, unbind and delete between it and its Bind: for any
\* number of exchanges, bindings and connections, a cycle is closed only by a
\* Bind that finds a binding its check did not see.
THEOREM CycleTheorem == Spec => CycleNeedsRace
<1>1. Init => BindInv
  BY DEF Init, BindInv, Checked, Idle
<1>2. BindInv /\ [Next]_vars => BindInv'
  BY BindInvStep
<1>3. BindInv /\ [Next]_vars
        => [Acyclic /\ ~Acyclic' =>
              \E c \in Conn : BindE2E(c) /\ ~(e2e \subseteq op[c].seen)]_vars
  BY CycleStep
<1>4. QED
  BY <1>1, <1>2, <1>3, PTL DEF Spec, CycleNeedsRace

----------------------------------------------------------------------------
(* The store agrees with the managers                                      *)

\* StoreAgrees with the types it rests on.
StoreInv ==
  /\ failures \in Nat
  /\ queues = [q \in Queue |-> queues[q]]
  /\ savedQueues = [q \in Queue |-> savedQueues[q]]
  /\ exchanges = [x \in Exchange |-> exchanges[x]]
  /\ savedExchanges = [x \in Exchange |-> savedExchanges[x]]
  /\ StoreAgrees

\* A store call that is made while no call has failed yet, and does not fail,
\* leaves what it was given.
LEMMA StoreCallWorks ==
  ASSUME failures \in Nat, NEW old, NEW new, NEW result, StoreCall(old, new, result)
  PROVE  /\ failures' \in Nat
         /\ failures' = 0 => failures = 0 /\ result = new
         /\ result \in {old, new}
BY DEF StoreCall

\* The managers' Declare and Delete keep StoreInv: memory and store change in
\* one critical section.
LEMMA QueueStep ==
  ASSUME StoreInv, up' = up, NEW q \in Queue, NEW args,
         queues' = [queues EXCEPT ![q] = args], SaveQueue(q, args),
         UNCHANGED <<exchanges, savedExchanges>>
  PROVE  StoreInv'
<1>1. /\ failures' \in Nat
      /\ failures' = 0 => failures = 0 /\ savedQueues' = [savedQueues EXCEPT ![q] = args]
      /\ savedQueues' \in {savedQueues, [savedQueues EXCEPT ![q] = args]}
  BY StoreCallWorks DEF SaveQueue, StoreInv
<1>2. savedQueues' = [p \in Queue |-> savedQueues'[p]]
  BY <1>1 DEF StoreInv
<1>3. queues' = [p \in Queue |-> queues'[p]]
  BY DEF StoreInv
<1>4. StoreAgrees'
  BY <1>1 DEF StoreAgrees, StoreInv
<1>5. QED
  BY <1>1, <1>2, <1>3, <1>4 DEF StoreInv

LEMMA ExchangeStep ==
  ASSUME StoreInv, up' = up, NEW x \in Exchange, NEW type,
         exchanges' = [exchanges EXCEPT ![x] = type], SaveExchange(x, type),
         UNCHANGED <<queues, savedQueues>>
  PROVE  StoreInv'
<1>1. /\ failures' \in Nat
      /\ failures' = 0 => failures = 0 /\ savedExchanges' = [savedExchanges EXCEPT ![x] = type]
      /\ savedExchanges' \in {savedExchanges, [savedExchanges EXCEPT ![x] = type]}
  BY StoreCallWorks DEF SaveExchange, StoreInv
<1>2. savedExchanges' = [y \in Exchange |-> savedExchanges'[y]]
  BY <1>1 DEF StoreInv
<1>3. exchanges' = [y \in Exchange |-> exchanges'[y]]
  BY DEF StoreInv
<1>4. StoreAgrees'
  BY <1>1 DEF StoreAgrees, StoreInv
<1>5. QED
  BY <1>1, <1>2, <1>3, <1>4 DEF StoreInv

\* Steps that leave queues and exchanges alone, in memory and in the store.
LEMMA BindingStep ==
  ASSUME StoreInv, up' = up, failures' \in Nat, failures' = 0 => failures = 0,
         UNCHANGED <<queues, exchanges, savedQueues, savedExchanges>>
  PROVE  StoreInv'
BY DEF StoreInv, StoreAgrees

LEMMA StoreInvStep ==
  ASSUME StoreInv, [Next]_vars
  PROVE  StoreInv'
<1>1. CASE Crash
  BY <1>1 DEF Crash, StoreInv, StoreAgrees, Defaults, saved
<1>2. CASE RestoreFromStore
  BY <1>2 DEF RestoreFromStore, StoreInv, StoreAgrees, saved
<1>3. CASE UNCHANGED vars
  BY <1>3 DEF vars, memory, saved, StoreInv, StoreAgrees
<1>4. ASSUME NEW c \in Conn, Handler(c)
      PROVE  StoreInv'
  <2>1. ASSUME NEW q \in Queue,
               \/ \E args \in QArgs : handleQueueDeclare(c, q, args)
               \/ handleQueueDelete(c, q)
               \/ RouterDeleteQueue(c, q)
        PROVE  StoreInv'
    BY <2>1, QueueStep DEF handleQueueDeclare, handleQueueDelete, RouterDeleteQueue,
                           DeclareQueue, DeleteQueue
  <2>2. ASSUME NEW x \in Exchange,
               \/ \E name \in Types : handleExchangeDeclare(c, x, name)
               \/ DeleteExchange(x)
        PROVE  StoreInv'
    BY <2>2, ExchangeStep DEF handleExchangeDeclare, DeclareExchange, DeleteExchange
  <2>3. ASSUME NEW x \in Exchange,
               handleExchangeDelete(c, x) \/ RouterDeleteExchange(c, x)
        PROVE  StoreInv'
    <3>1. CASE DeleteExchange(x)
      BY <2>2, <3>1
    <3>2. CASE UNCHANGED <<up, memory, saved, failures, cascaded>>
      BY <3>2, BindingStep DEF memory, saved, StoreInv
    <3>3. QED
      BY <2>3, <3>1, <3>2 DEF handleExchangeDelete, RouterDeleteExchange
  <2>4. ASSUME NEW b \in Binding, handleQueueBind(c, b) \/ handleQueueUnbind(c, b)
        PROVE  StoreInv'
    <3>1. failures' \in Nat /\ (failures' = 0 => failures = 0)
      BY <2>4, StoreCallWorks
         DEF handleQueueBind, handleQueueUnbind, Bind, Unbind, SaveBinding, DeleteBinding, StoreInv
    <3>2. QED
      BY <2>4, <3>1, BindingStep DEF handleQueueBind, handleQueueUnbind
  <2>5. ASSUME \/ \E e \in E2EBinding : handleExchangeBind(c, e) \/ handleExchangeUnbind(c, e)
               \/ UnbindE2E(c)
               \/ UnbindAllForQueue(c) \/ CleanByExchange(c)
               \/ UnbindAllForExchange(c) \/ CleanByQueue(c)
               \/ BindE2E(c)
        PROVE  StoreInv'
    <3>1. UNCHANGED <<up, queues, exchanges, saved, failures>>
      BY <2>5 DEF handleExchangeBind, handleExchangeUnbind, UnbindE2E, UnbindAllForQueue,
                  CleanByExchange, UnbindAllForExchange, CleanByQueue, BindE2E, memory
    <3>2. QED
      BY <3>1, BindingStep DEF saved, StoreInv
  <2>6. QED
    BY <1>4, <2>1, <2>2, <2>3, <2>4, <2>5, Zenon DEF Handler
<1>5. QED
  BY <1>1, <1>2, <1>3, <1>4 DEF Next

\* A crash between any two critical sections loses no queue or exchange that
\* was declared and brings none back that was deleted, for any number of
\* connections, names and declarations, as long as no store call failed.
THEOREM StoreTheorem == Spec => []StoreAgrees
<1>1. Init => StoreInv
  BY TopologyAssumption DEF Init, StoreInv, StoreAgrees, Defaults, Builtin
<1>2. StoreInv /\ [Next]_vars => StoreInv'
  BY StoreInvStep
<1>3. StoreInv => StoreAgrees
  BY DEF StoreInv
<1>4. QED
  BY <1>1, <1>2, <1>3, PTL DEF Spec

----------------------------------------------------------------------------
(* Copies of a binding in a list                                           *)

LEMMA CopiesNat ==
  ASSUME NEW S, NEW s \in Seq(S), NEW b
  PROVE  /\ Positions(s, b) \subseteq 1 .. Len(s) /\ IsFiniteSet(Positions(s, b))
         /\ Copies(s, b) \in Nat /\ (Copies(s, b) = 0 <=> b \notin ToSet(s))
<1>1. Len(s) \in Nat /\ DOMAIN s = 1 .. Len(s)
  BY LenProperties
<1>2. Positions(s, b) \subseteq 1 .. Len(s)
  BY <1>1 DEF Positions
<1>3. IsFiniteSet(1 .. Len(s))
  BY <1>1, FS_Interval
<1>4. IsFiniteSet(Positions(s, b))
  BY <1>2, <1>3, FS_Subset
<1>5. Copies(s, b) \in Nat /\ (Copies(s, b) = 0 <=> Positions(s, b) = {})
  BY <1>4, FS_CardinalityType, FS_EmptySet DEF Copies
<1>6. Positions(s, b) = {} <=> b \notin ToSet(s)
  BY DEF Positions, ToSet
<1>7. QED BY <1>2, <1>4, <1>5, <1>6

LEMMA CopiesEmpty == ASSUME NEW b PROVE Positions(<<>>, b) = {} /\ Copies(<<>>, b) = 0
<1>1. DOMAIN <<>> = {}
  BY EmptySeq
<1>2. Positions(<<>>, b) = {}
  BY <1>1 DEF Positions
<1>3. QED BY <1>2, FS_EmptySet DEF Copies

\* Append adds a copy of what it appends.
LEMMA CopiesAppend ==
  ASSUME NEW S, NEW s \in Seq(S), NEW e \in S, NEW b
  PROVE  Copies(Append(s, e), b) = IF e = b THEN Copies(s, b) + 1 ELSE Copies(s, b)
<1> DEFINE t == Append(s, e)
           n == Len(s)
           T == Positions(s, b)
<1>1. /\ t \in Seq(S) /\ Len(t) = n + 1 /\ n \in Nat
      /\ \A i \in 1 .. n : t[i] = s[i]
      /\ t[n + 1] = e
  BY AppendProperties, LenProperties
<1>2. DOMAIN t = 1 .. n + 1 /\ DOMAIN s = 1 .. n
  BY <1>1, LenProperties
<1>3. T \subseteq 1 .. n /\ IsFiniteSet(T) /\ n + 1 \notin T
  BY <1>1, CopiesNat
<1> HIDE DEF t, n
<1>4. Positions(t, b) = IF e = b THEN T \cup {n + 1} ELSE T
  <2>1. 1 .. n + 1 = (1 .. n) \cup {n + 1}
    BY <1>1
  <2>2. QED BY <1>1, <1>2, <2>1 DEF Positions
<1> HIDE DEF T
<1>5. Cardinality(T \cup {n + 1}) = Cardinality(T) + 1
  BY <1>3, FS_AddElement
<1>6. Copies(t, b) = IF e = b THEN Cardinality(T) + 1 ELSE Cardinality(T)
  BY <1>4, <1>5 DEF Copies
<1>7. QED BY <1>6 DEF t, T, Copies

\* Removing a position takes out one copy of what was there.
LEMMA CopiesRemoveAt ==
  ASSUME NEW S, NEW s \in Seq(S), NEW p \in 1 .. Len(s), NEW b
  PROVE  Copies(RemoveAt(s, p), b) = IF s[p] = b THEN Copies(s, b) - 1 ELSE Copies(s, b)
<1> DEFINE t == RemoveAt(s, p)
           n == Len(s)
           A == Positions(t, b)
           B == Positions(s, b) \ {p}
           h == [i \in A |-> IF i < p THEN i ELSE i + 1]
<1>1. n \in Nat /\ DOMAIN s = 1 .. n /\ p \in 1 .. n
  BY LenProperties
<1>2. /\ t \in Seq(S) /\ DOMAIN t = 1 .. (n - 1)
      /\ \A i \in 1 .. (n - 1) : t[i] = IF i < p THEN s[i] ELSE s[i + 1]
  BY RemoveAtProperties
<1> HIDE DEF t, n
<1>3. /\ A = {i \in 1 .. (n - 1) : t[i] = b}
      /\ B = {i \in 1 .. n : s[i] = b /\ i # p}
  <2>1. DOMAIN t = 1 .. (n - 1)
    BY <1>2
  <2>2. A = {i \in 1 .. (n - 1) : t[i] = b}
    BY <2>1, Zenon DEF Positions
  <2>3. B = {i \in 1 .. n : s[i] = b /\ i # p}
    BY <1>1 DEF Positions
  <2>4. QED BY <2>2, <2>3
<1> HIDE DEF A, B
<1>4. A \subseteq Int /\ B \subseteq Int /\ p \in Int
  BY <1>1, <1>3
<1>5. \A i \in A : h[i] \in B
  BY <1>1, <1>2, <1>3
<1>6. \A i, j \in A : h[i] = h[j] => i = j
  BY <1>4
<1>7. ASSUME NEW j \in B PROVE \E i \in A : h[i] = j
  <2> DEFINE i == IF j < p THEN j ELSE j - 1
  <2>1. i \in 1 .. (n - 1) /\ t[i] = s[j]
    BY <1>1, <1>2, <1>3
  <2>2. i \in A /\ h[i] = j
    BY <1>1, <1>3, <2>1
  <2>3. QED BY <2>2
<1>8. ExistsBijection(A, B)
  <2>1. h \in [A -> B]
    BY <1>5
  <2> HIDE DEF h
  <2>2. h \in Bijection(A, B)
    BY <1>6, <1>7, <2>1 DEF Bijection, Injection, IsInjective, Surjection
  <2>3. QED BY <2>2 DEF ExistsBijection
<1>9. IsFiniteSet(A) /\ IsFiniteSet(Positions(s, b))
  BY <1>2, CopiesNat DEF A
<1>10. Cardinality(B) = Cardinality(A)
  BY <1>8, <1>9, FS_Bijection
<1>11. Cardinality(B) = IF s[p] = b THEN Copies(s, b) - 1 ELSE Copies(s, b)
  <2>1. p \in Positions(s, b) <=> s[p] = b
    BY <1>1 DEF Positions
  <2>2. QED BY <1>9, <2>1, FS_RemoveElement DEF Copies, B
<1>12. QED BY <1>10, <1>11 DEF Copies, t, A

----------------------------------------------------------------------------
(* The indexes of the bindings                                             *)

ByExchange == [Exchange -> Seq(Binding)]
ByQueue == [Queue -> Seq(Binding)]

\* The bindings of an index by exchange are filed under their exchange.
Filed(idx) == \A x \in Exchange : \A b \in ToSet(idx[x]) : b.exchange = x

Holds(idx, b) == b \in ToSet(idx[b.exchange])

\* What removeFrom does: nothing where nothing matches, else it takes out a position
\* that matches.
LEMMA RemoveFromAt ==
  ASSUME NEW s \in Seq(Binding), NEW q, NEW k
  PROVE  \/ /\ removeFrom(s, q, k) = s
            /\ \A i \in 1 .. Len(s) : ~(s[i].queue = q /\ s[i].key = k)
         \/ \E p \in 1 .. Len(s) : /\ s[p].queue = q /\ s[p].key = k
                                   /\ removeFrom(s, q, k) = RemoveAt(s, p)
<1> DEFINE I == {i \in 1 .. Len(s) : s[i].queue = q /\ s[i].key = k}
           p == SelectInSeq(s, LAMBDA b : b.queue = q /\ b.key = k)
<1>1. Len(s) \in Nat /\ DOMAIN s = 1 .. Len(s)
  BY LenProperties
<1>2. CASE I = {}
  <2>1. removeFrom(s, q, k) = s
    BY <1>2 DEF removeFrom, RemoveFirstMatch
  <2>2. QED BY <1>2, <2>1
<1>3. CASE I # {}
  <2>1. p = Min(I)
    BY <1>3 DEF SelectInSeq
  <2>2. removeFrom(s, q, k) = RemoveAt(s, p)
    BY <1>3 DEF removeFrom, RemoveFirstMatch
  <2> HIDE DEF p
  <2>3. \E x \in I : \A y \in I : x <= y
    <3>1. I \subseteq Nat
      BY <1>1
    <3> HIDE DEF I
    <3>2. QED BY <1>3, <3>1, LeastNat
  <2>4. Min(I) \in I
    BY <2>3 DEF Min
  <2>5. p \in 1 .. Len(s) /\ s[p].queue = q /\ s[p].key = k
    BY <2>1, <2>4
  <2>6. QED BY <2>2, <2>5
<1>4. QED BY <1>2, <1>3

\* removeFrom takes out one binding, to this queue with this key.
LEMMA RemoveFromList ==
  ASSUME NEW s \in Seq(Binding), NEW q, NEW k
  PROVE  /\ removeFrom(s, q, k) \in Seq(Binding)
         /\ ToSet(removeFrom(s, q, k)) \subseteq ToSet(s)
         /\ \A b \in ToSet(s) : b \in ToSet(removeFrom(s, q, k)) \/ (b.queue = q /\ b.key = k)
<1> DEFINE r == removeFrom(s, q, k)
           n == Len(s)
<1>1. n \in Nat /\ DOMAIN s = 1 .. n
  BY LenProperties
<1>2. CASE r = s
  BY <1>2
<1>3. CASE \E p \in 1 .. n : s[p].queue = q /\ s[p].key = k /\ r = RemoveAt(s, p)
  <2>1. PICK p \in 1 .. n : s[p].queue = q /\ s[p].key = k /\ r = RemoveAt(s, p)
    BY <1>3
  <2> DEFINE t == RemoveAt(s, p)
  <2>2. /\ t \in Seq(Binding) /\ DOMAIN t = 1 .. (n - 1)
        /\ \A i \in 1 .. (n - 1) : t[i] = IF i < p THEN s[i] ELSE s[i + 1]
    BY RemoveAtProperties
  <2> HIDE DEF t, n
  <2>3. ToSet(t) \subseteq ToSet(s)
    <3>1. ASSUME NEW i \in 1 .. (n - 1) PROVE t[i] \in ToSet(s)
      <4>1. i \in DOMAIN s /\ i + 1 \in DOMAIN s
        BY <1>1
      <4>2. QED BY <2>2, <4>1 DEF ToSet
    <3>2. QED BY <2>2, <3>1 DEF ToSet
  <2>4. ASSUME NEW x \in DOMAIN s PROVE s[x] \in ToSet(t) \/ (s[x].queue = q /\ s[x].key = k)
    <3>1. CASE x = p
      BY <2>1, <3>1
    <3>2. CASE x # p
      <4> DEFINE i == IF x < p THEN x ELSE x - 1
      <4>1. i \in 1 .. (n - 1) /\ t[i] = s[x]
        BY <1>1, <2>2, <3>2
      <4>2. QED BY <2>2, <4>1 DEF ToSet
    <3>3. QED BY <3>1, <3>2
  <2>5. \A b \in ToSet(s) : b \in ToSet(t) \/ (b.queue = q /\ b.key = k)
    BY <2>4 DEF ToSet
  <2>6. r = t
    BY <2>1 DEF t
  <2> HIDE DEF r
  <2>7. QED BY <2>2, <2>3, <2>5, <2>6 DEF r
<1>4. QED BY <1>2, <1>3, RemoveFromAt

\* What BindingManager.Unbind makes of an index by exchange.
Removed(idx, b, new) == new = [idx EXCEPT ![b.exchange] = removeFrom(@, b.queue, b.key)]

\* On an index filed by exchange it takes out the binding asked for, and no other.
LEMMA RemoveFromIndex ==
  ASSUME NEW idx \in ByExchange, Filed(idx), NEW b \in Binding, NEW new, Removed(idx, b, new)
  PROVE  /\ new \in ByExchange /\ Filed(new)
         /\ \A d \in Binding : d # b /\ Holds(idx, d) => Holds(new, d)
<1> DEFINE x == b.exchange
           s == idx[x]
           t == removeFrom(s, b.queue, b.key)
<1>1. x \in Exchange /\ s \in Seq(Binding)
  BY DEF Binding, ByExchange
<1>2. /\ t \in Seq(Binding) /\ ToSet(t) \subseteq ToSet(s)
      /\ \A d \in ToSet(s) : d \in ToSet(t) \/ (d.queue = b.queue /\ d.key = b.key)
  BY <1>1, RemoveFromList
<1>3. new = [idx EXCEPT ![x] = t]
  BY DEF Removed
<1> HIDE DEF t, s
<1>4. new \in ByExchange /\ new[x] = t /\ \A y \in Exchange : y # x => new[y] = idx[y]
  BY <1>1, <1>2, <1>3 DEF ByExchange
<1>5. Filed(new)
  BY <1>1, <1>2, <1>4 DEF Filed, s
<1>6. ASSUME NEW d \in Binding, d # b, Holds(idx, d) PROVE Holds(new, d)
  <2>1. CASE d.exchange = x
    <3>1. d \in ToSet(s)
      BY <1>6, <2>1 DEF Holds, s
    <3>2. ~(d.queue = b.queue /\ d.key = b.key)
      BY <1>6, <2>1 DEF Binding, x
    <3>3. QED BY <1>2, <1>4, <2>1, <3>1, <3>2 DEF Holds
  <2>2. CASE d.exchange # x
    <3>1. d.exchange \in Exchange
      BY DEF Binding
    <3>2. QED BY <1>4, <1>6, <2>2, <3>1 DEF Holds
  <2>3. QED BY <2>1, <2>2
<1>7. QED BY <1>4, <1>5, <1>6

\* The index by exchange as CleanByExchange goes through the list.
Cleans(f, list) ==
  /\ f[0] = byExchange /\ f[Len(list)] = WithoutByExchange(list)
  /\ \A i \in 0 .. Len(list) :
       /\ f[i] \in ByExchange /\ Filed(f[i])
       /\ \A d \in Binding : d \notin ToSet(list) /\ Holds(byExchange, d) => Holds(f[i], d)
  /\ \A i \in 1 .. Len(list) : Removed(f[i - 1], list[i], f[i])

LEMMA CleansList ==
  ASSUME byExchange \in ByExchange, Filed(byExchange), NEW list \in Seq(Binding)
  PROVE  \E f : Cleans(f, list)
<1> DEFINE n == Len(list)
           E(idx, i) == [idx EXCEPT ![list[i].exchange] = removeFrom(@, list[i].queue, list[i].key)]
           G == {idx \in ByExchange :
                   /\ Filed(idx)
                   /\ \A d \in Binding : d \notin ToSet(list) /\ Holds(byExchange, d) => Holds(idx, d)}
           S == [i \in 0 .. n |-> G]
           step == [p \in (1 .. n) \X ByExchange |-> E(p[2], p[1])]
           Q(f) == f = [i \in 0 .. n |-> IF i = 0 THEN byExchange ELSE E(f[i - 1], i)]
           left == CHOOSE f : Q(f)
<1>1. n \in Nat /\ \A i \in 1 .. n : list[i] \in Binding /\ list[i] \in ToSet(list)
  BY LenProperties, ElementOfSeq DEF ToSet
<1>2. ASSUME NEW i \in 1 .. n, NEW idx \in G PROVE E(idx, i) \in G
  <2> DEFINE new == E(idx, i)
             b == list[i]
  <2>1. /\ b \in Binding /\ b \in ToSet(list) /\ idx \in ByExchange /\ Filed(idx)
        /\ Removed(idx, b, new)
    BY <1>1 DEF Removed
  <2> HIDE DEF new, b, E
  <2>2. /\ new \in ByExchange /\ Filed(new)
        /\ \A d \in Binding : d # b /\ Holds(idx, d) => Holds(new, d)
    BY <2>1, RemoveFromIndex
  <2>3. QED BY <2>1, <2>2 DEF new
<1>3. byExchange \in G
  OBVIOUS
<1>4. WithoutByExchange(list) = left[n]
  BY Zenon DEF WithoutByExchange
<1>5. G \subseteq ByExchange
  OBVIOUS
<1> HIDE DEF E, G, left
<1>6. /\ S \in [0 .. n -> SUBSET ByExchange] /\ byExchange \in S[0]
      /\ \A i \in 1 .. n : \A x \in S[i - 1] : step[<<i, x>>] \in S[i]
  BY <1>1, <1>2, <1>3, <1>5
<1>7. \A i \in 1 .. n : \A x \in ByExchange : step[<<i, x>>] = E(x, i)
  OBVIOUS
<1>8. \A i \in 0 .. n : S[i] = G
  OBVIOUS
<1> HIDE DEF S, step, n
<1>9. PICK f \in [0 .. n -> ByExchange] : Unfolds(f, n, S, byExchange, step)
  BY <1>1, <1>6, RecursionExists
<1>10. /\ f[0] = byExchange /\ \A i \in 0 .. n : f[i] \in S[i]
       /\ \A i \in 1 .. n : f[i] = E(f[i - 1], i)
  <2>1. /\ f[0] = byExchange /\ \A i \in 0 .. n : f[i] \in S[i]
        /\ \A i \in 1 .. n : f[i] = step[<<i, f[i - 1]>>]
    BY <1>9 DEF Unfolds
  <2>2. ASSUME NEW i \in 1 .. n PROVE f[i] = E(f[i - 1], i)
    <3>1. i - 1 \in 0 .. n
      BY <1>1
    <3>2. f[i - 1] \in ByExchange
      BY <3>1
    <3>3. QED BY <1>7, <2>1, <3>2
  <2>3. QED BY <2>1, <2>2
<1>11. Q(f)
  <2> DEFINE h == [i \in 0 .. n |-> IF i = 0 THEN byExchange ELSE E(f[i - 1], i)]
  <2>1. \A i \in 0 .. n : f[i] = h[i]
    BY <1>1, <1>10
  <2>2. f = [i \in 0 .. n |-> f[i]] /\ h = [i \in 0 .. n |-> h[i]]
    OBVIOUS
  <2> HIDE DEF h
  <2>3. f = h
    BY <2>1, <2>2
  <2>4. QED BY <2>3 DEF h
<1> HIDE DEF Q
<1>12. Q(left)
  BY <1>11 DEF left
<1>13. left[0] = byExchange /\ \A i \in 1 .. n : left[i] = E(left[i - 1], i)
  BY <1>1, <1>12 DEF Q
<1> DEFINE P == {i \in 0 .. n : left[i] = f[i]}
<1>14. 0 \in P /\ \A i \in 1 .. n : i - 1 \in P => i \in P
  BY <1>1, <1>10, <1>13
<1>15. n \in P
  <2> HIDE DEF P
  <2>1. \A i \in 0 .. n : i \in P
    BY <1>1, <1>14, UpTo
  <2>2. n \in 0 .. n
    BY <1>1
  <2>3. QED BY <2>1, <2>2
<1>16. f[n] = WithoutByExchange(list)
  BY <1>4, <1>15
<1>17. ASSUME NEW i \in 0 .. n
       PROVE  /\ f[i] \in ByExchange /\ Filed(f[i])
              /\ \A d \in Binding : d \notin ToSet(list) /\ Holds(byExchange, d) => Holds(f[i], d)
  <2> DEFINE x == f[i]
  <2>1. x \in G
    BY <1>8, <1>10
  <2> HIDE DEF x
  <2>2. /\ x \in ByExchange /\ Filed(x)
        /\ \A d \in Binding : d \notin ToSet(list) /\ Holds(byExchange, d) => Holds(x, d)
    BY <2>1 DEF G
  <2>3. QED BY <2>2 DEF x
<1>18. \A i \in 1 .. n : Removed(f[i - 1], list[i], f[i])
  BY <1>10 DEF Removed, E
<1>19. Cleans(f, list)
  BY <1>10, <1>16, <1>17, <1>18 DEF Cleans, n
<1>20. QED BY <1>19

\* CleanByExchange takes the bindings of the list out of the index by exchange, and no other.
LEMMA WithoutList ==
  ASSUME byExchange \in ByExchange, Filed(byExchange), NEW list \in Seq(Binding)
  PROVE  /\ WithoutByExchange(list) \in ByExchange /\ Filed(WithoutByExchange(list))
         /\ \A d \in Binding : d \notin ToSet(list) /\ Holds(byExchange, d)
                               => Holds(WithoutByExchange(list), d)
<1>1. PICK f : Cleans(f, list)
  BY CleansList
<1>2. Len(list) \in 0 .. Len(list)
  BY LenProperties
<1>3. QED BY <1>1, <1>2 DEF Cleans

\* CleanByQueue leaves lists of bindings; where no queue has the name of an exchange it
\* leaves them all as they are.
LEMMA WithoutListByQueue ==
  ASSUME byQueue \in ByQueue, NEW list \in Seq(Binding)
  PROVE  /\ WithoutByQueue(list) \in ByQueue
         /\ Exchange \cap Queue = {} => WithoutByQueue(list) = byQueue
<1> DEFINE n == Len(list)
           E(idx, i) == [idx EXCEPT ![list[i].queue] = removeFrom(@, list[i].exchange, list[i].key)]
           S == [i \in 0 .. n |-> ByQueue]
           step == [p \in (1 .. n) \X ByQueue |-> E(p[2], p[1])]
           Q(f) == f = [i \in 0 .. n |-> IF i = 0 THEN byQueue ELSE E(f[i - 1], i)]
           left == CHOOSE f : Q(f)
<1>1. n \in Nat /\ \A i \in 1 .. n : list[i] \in Binding
  BY LenProperties, ElementOfSeq
<1>2. ASSUME NEW i \in 1 .. n, NEW idx \in ByQueue PROVE E(idx, i) \in ByQueue
  <2> DEFINE b == list[i]
             t == removeFrom(idx[b.queue], b.exchange, b.key)
  <2>1. b.queue \in Queue /\ idx[b.queue] \in Seq(Binding)
    BY <1>1 DEF Binding, ByQueue
  <2>2. t \in Seq(Binding)
    BY <2>1, RemoveFromList
  <2>3. E(idx, i) = [idx EXCEPT ![b.queue] = t]
    OBVIOUS
  <2> HIDE DEF t, E, b
  <2>4. QED BY <2>1, <2>2, <2>3 DEF ByQueue
<1>3. WithoutByQueue(list) = left[n]
  BY Zenon DEF WithoutByQueue
<1> DEFINE Same(idx) == Exchange \cap Queue = {} => idx = byQueue
<1>same. ASSUME NEW i \in 1 .. n, Same(byQueue) PROVE Same(E(byQueue, i))
  <2> SUFFICES ASSUME Exchange \cap Queue = {} PROVE E(byQueue, i) = byQueue
    OBVIOUS
  <2> DEFINE b == list[i]
             s == byQueue[b.queue]
             t == removeFrom(s, b.exchange, b.key)
  <2>1. b.queue \in Queue /\ b.exchange \in Exchange /\ s \in Seq(Binding)
    BY <1>1 DEF Binding, ByQueue
  <2>2. \A j \in 1 .. Len(s) : s[j].queue # b.exchange
    <3>1. \A j \in 1 .. Len(s) : s[j] \in Binding
      BY <2>1, LenProperties, ElementOfSeq
    <3>2. QED BY <2>1, <3>1 DEF Binding
  <2>3. t = s
    <3> HIDE DEF s, b
    <3>1. QED BY <2>1, <2>2, RemoveFromAt
  <2>4. E(byQueue, i) = [byQueue EXCEPT ![b.queue] = t]
    OBVIOUS
  <2> HIDE DEF t, E, b
  <2>5. QED BY <2>1, <2>3, <2>4 DEF ByQueue
<1> HIDE DEF E, left
<1>4. /\ S \in [0 .. n -> SUBSET ByQueue] /\ byQueue \in S[0]
      /\ \A i \in 1 .. n : \A x \in S[i - 1] : step[<<i, x>>] \in S[i]
  BY <1>1, <1>2
<1>5. \A i \in 1 .. n : \A x \in ByQueue : step[<<i, x>>] = E(x, i)
  OBVIOUS
<1> HIDE DEF S, step, n
<1>6. PICK f \in [0 .. n -> ByQueue] : Unfolds(f, n, S, byQueue, step)
  BY <1>1, <1>4, RecursionExists
<1>7. f[0] = byQueue /\ \A i \in 1 .. n : f[i] = E(f[i - 1], i)
  <2>1. f[0] = byQueue /\ \A i \in 1 .. n : f[i] = step[<<i, f[i - 1]>>]
    BY <1>6 DEF Unfolds
  <2>2. ASSUME NEW i \in 1 .. n PROVE f[i] = E(f[i - 1], i)
    <3>1. i - 1 \in 0 .. n
      BY <1>1
    <3>2. f[i - 1] \in ByQueue
      BY <3>1
    <3>3. QED BY <1>5, <2>1, <3>2
  <2>3. QED BY <2>1, <2>2
<1>8. Q(f)
  <2> DEFINE h == [i \in 0 .. n |-> IF i = 0 THEN byQueue ELSE E(f[i - 1], i)]
  <2>1. \A i \in 0 .. n : f[i] = h[i]
    BY <1>1, <1>7
  <2>2. f = [i \in 0 .. n |-> f[i]] /\ h = [i \in 0 .. n |-> h[i]]
    OBVIOUS
  <2> HIDE DEF h
  <2>3. f = h
    BY <2>1, <2>2
  <2>4. QED BY <2>3 DEF h
<1> HIDE DEF Q
<1>9. Q(left)
  BY <1>8 DEF left
<1>10. left[0] = byQueue /\ \A i \in 1 .. n : left[i] = E(left[i - 1], i)
  BY <1>1, <1>9 DEF Q
<1> DEFINE P == {i \in 0 .. n : left[i] \in ByQueue /\ Same(left[i])}
<1>11. 0 \in P /\ \A i \in 1 .. n : i - 1 \in P => i \in P
  <2>1. 0 \in P
    BY <1>1, <1>10
  <2>2. ASSUME NEW i \in 1 .. n, i - 1 \in P PROVE i \in P
    <3>1. left[i - 1] \in ByQueue /\ Same(left[i - 1]) /\ left[i] = E(left[i - 1], i)
      BY <1>10, <2>2
    <3>2. left[i] \in ByQueue
      BY <1>2, <3>1
    <3>3. Same(left[i])
      BY <1>same, <3>1
    <3>4. QED BY <1>1, <3>2, <3>3
  <2>3. QED BY <2>1, <2>2
<1>12. n \in P
  <2> HIDE DEF P
  <2>1. \A i \in 0 .. n : i \in P
    BY <1>1, <1>11, UpTo
  <2>2. n \in 0 .. n
    BY <1>1
  <2>3. QED BY <2>1, <2>2
<1>13. QED BY <1>3, <1>12

\* What BindingManager.Bind makes of an index by exchange.
Added(idx, b, new) == new = [idx EXCEPT ![b.exchange] = Append(@, b)]

\* Bind files the binding and keeps the others.
LEMMA AppendIndex ==
  ASSUME NEW idx \in ByExchange, Filed(idx), NEW b \in Binding, NEW new, Added(idx, b, new)
  PROVE  /\ new \in ByExchange /\ Filed(new)
         /\ \A d \in Binding : Holds(idx, d) \/ d = b => Holds(new, d)
<1> DEFINE x == b.exchange
           u == idx[x]
           s == Append(u, b)
<1>1. x \in Exchange /\ u \in Seq(Binding)
  BY DEF Binding, ByExchange
<1>2. new = [idx EXCEPT ![x] = s]
  BY DEF Added
<1>3. s \in Seq(Binding) /\ ToSet(s) = ToSet(u) \cup {b}
  <2> HIDE DEF u
  <2>1. QED BY <1>1, AppendList
<1> HIDE DEF s, x
<1>4. /\ new \in ByExchange /\ new[x] = s
      /\ \A y \in Exchange : y # x => new[y] = idx[y]
  BY <1>1, <1>2, <1>3 DEF ByExchange
<1>5. Filed(new)
  BY <1>1, <1>3, <1>4 DEF Filed, x
<1>6. ASSUME NEW d \in Binding, Holds(idx, d) \/ d = b PROVE Holds(new, d)
  <2>1. d.exchange \in Exchange
    BY DEF Binding
  <2>2. CASE d.exchange = x
    BY <1>3, <1>4, <1>6, <2>2 DEF Holds
  <2>3. CASE d.exchange # x
    BY <1>4, <1>6, <2>1, <2>3 DEF Holds, x
  <2>4. QED BY <2>2, <2>3
<1>7. QED BY <1>4, <1>5, <1>6

LEMMA AppendQueueIndex ==
  ASSUME NEW idx \in ByQueue, NEW b \in Binding
  PROVE  [idx EXCEPT ![b.queue] = Append(@, b)] \in ByQueue
<1> DEFINE q == b.queue
           s == Append(idx[q], b)
<1>1. q \in Queue /\ idx[q] \in Seq(Binding)
  BY DEF Binding, ByQueue
<1>2. s \in Seq(Binding)
  BY <1>1, AppendProperties
<1> HIDE DEF s, q
<1>3. [idx EXCEPT ![q] = s] \in ByQueue
  BY <1>1, <1>2 DEF ByQueue
<1>4. QED BY <1>3 DEF q, s

Indexes == [byExchange : ByExchange, byQueue : ByQueue]

\* What BindingManager.Bind makes of an index by queue.
AddedByQueue(idx, b, new) == new = [idx EXCEPT ![b.queue] = Append(@, b)]

\* The two indexes as the restart goes through the list.
Binds(f, list) ==
  /\ f[0] = [byExchange |-> NoBindings(Exchange), byQueue |-> NoBindings(Queue)]
  /\ f[Len(list)] = BoundAll(list)
  /\ \A i \in 0 .. Len(list) :
       /\ f[i] \in Indexes /\ Filed(f[i].byExchange)
       /\ \A j \in 1 .. i : Holds(f[i].byExchange, list[j])
  /\ \A i \in 1 .. Len(list) : /\ Added(f[i - 1].byExchange, list[i], f[i].byExchange)
                               /\ AddedByQueue(f[i - 1].byQueue, list[i], f[i].byQueue)

LEMMA BindsList ==
  ASSUME NEW list \in Seq(Binding)
  PROVE  \E f : Binds(f, list)
<1> DEFINE n == Len(list)
           E(r, i) ==
             [byExchange |-> [r.byExchange EXCEPT ![list[i].exchange] = Append(@, list[i])],
              byQueue |-> [r.byQueue EXCEPT ![list[i].queue] = Append(@, list[i])]]
           base == [byExchange |-> NoBindings(Exchange), byQueue |-> NoBindings(Queue)]
           G(k) == {r \in Indexes : /\ Filed(r.byExchange)
                                    /\ \A i \in 1 .. k : Holds(r.byExchange, list[i])}
           S == [i \in 0 .. n |-> G(i)]
           step == [p \in (1 .. n) \X Indexes |-> E(p[2], p[1])]
           Q(f) == f = [i \in 0 .. n |-> IF i = 0 THEN base ELSE E(f[i - 1], i)]
           bound == CHOOSE f : Q(f)
<1>1. n \in Nat /\ DOMAIN list = 1 .. n /\ \A i \in 1 .. n : list[i] \in Binding
  BY LenProperties, ElementOfSeq
<1>2. base \in G(0)
  <2>1. <<>> \in Seq(Binding) /\ DOMAIN <<>> = {}
    BY EmptySeq
  <2>2. ToSet(<<>>) = {}
    BY <2>1 DEF ToSet
  <2>3. base \in Indexes
    BY <2>1 DEF Indexes, NoBindings, ByExchange, ByQueue
  <2>4. \A x \in Exchange : base.byExchange[x] = <<>>
    BY DEF NoBindings
  <2>5. Filed(base.byExchange)
    BY <2>2, <2>4 DEF Filed
  <2> HIDE DEF base
  <2>6. QED BY <2>3, <2>5
<1>3. ASSUME NEW i \in 1 .. n, NEW r \in G(i - 1) PROVE E(r, i) \in G(i)
  <2> DEFINE b == list[i]
             new == E(r, i)
             u == [r.byExchange EXCEPT ![b.exchange] = Append(@, b)]
             v == [r.byQueue EXCEPT ![b.queue] = Append(@, b)]
  <2>1. /\ b \in Binding /\ r \in Indexes /\ Filed(r.byExchange)
        /\ \A j \in 1 .. i - 1 : Holds(r.byExchange, list[j])
        /\ r.byExchange \in ByExchange /\ r.byQueue \in ByQueue
    BY <1>1 DEF Indexes
  <2>2. new = [byExchange |-> u, byQueue |-> v]
    OBVIOUS
  <2>3. v \in ByQueue
    <3> HIDE DEF b
    <3>1. QED BY <2>1, AppendQueueIndex
  <2>4. Added(r.byExchange, b, u)
    BY DEF Added
  <2> HIDE DEF new, u, v, E, b
  <2>5. /\ u \in ByExchange /\ Filed(u)
        /\ \A d \in Binding : Holds(r.byExchange, d) \/ d = b => Holds(u, d)
    BY <2>1, <2>4, AppendIndex
  <2>6. new.byExchange = u
    BY <2>2
  <2>9. new \in Indexes
    BY <2>2, <2>3, <2>5 DEF Indexes
  <2>10. Filed(new.byExchange)
    BY <2>5, <2>6
  <2>12. ASSUME NEW j \in 1 .. i PROVE Holds(new.byExchange, list[j])
    <3>1. list[j] \in Binding /\ (j \in 1 .. i - 1 \/ list[j] = b)
      BY <1>1 DEF b
    <3>2. QED BY <2>1, <2>5, <2>6, <3>1
  <2>13. new \in G(i)
    BY <2>9, <2>10, <2>12
  <2>14. QED BY <2>13 DEF new
<1>4. BoundAll(list) = bound[n]
  BY Zenon DEF BoundAll
<1>5. \A k : G(k) \subseteq Indexes
  OBVIOUS
<1> HIDE DEF E, G, bound, base
<1>6. /\ S \in [0 .. n -> SUBSET Indexes] /\ base \in S[0]
      /\ \A i \in 1 .. n : \A x \in S[i - 1] : step[<<i, x>>] \in S[i]
  <2>1. S \in [0 .. n -> SUBSET Indexes] /\ base \in S[0]
    BY <1>1, <1>2, <1>5
  <2>2. ASSUME NEW i \in 1 .. n, NEW x \in S[i - 1] PROVE step[<<i, x>>] \in S[i]
    <3>1. i - 1 \in 0 .. n /\ i \in 0 .. n
      BY <1>1
    <3>2. x \in G(i - 1) /\ S[i] = G(i)
      BY <3>1
    <3>3. x \in Indexes /\ E(x, i) \in G(i)
      BY <1>3, <1>5, <3>2
    <3>4. step[<<i, x>>] = E(x, i)
      BY <3>3
    <3>5. QED BY <3>2, <3>3, <3>4
  <2>3. QED BY <2>1, <2>2
<1>7. \A i \in 1 .. n : \A x \in Indexes : step[<<i, x>>] = E(x, i)
  OBVIOUS
<1>8. \A i \in 0 .. n : S[i] = G(i)
  OBVIOUS
<1> HIDE DEF S, step, n
<1>9. PICK f \in [0 .. n -> Indexes] : Unfolds(f, n, S, base, step)
  BY <1>1, <1>6, RecursionExists
<1>10. /\ f[0] = base /\ \A i \in 0 .. n : f[i] \in S[i]
       /\ \A i \in 1 .. n : f[i] = E(f[i - 1], i)
  <2>1. /\ f[0] = base /\ \A i \in 0 .. n : f[i] \in S[i]
        /\ \A i \in 1 .. n : f[i] = step[<<i, f[i - 1]>>]
    BY <1>9 DEF Unfolds
  <2>2. ASSUME NEW i \in 1 .. n PROVE f[i] = E(f[i - 1], i)
    <3>1. i - 1 \in 0 .. n
      BY <1>1
    <3>2. f[i - 1] \in Indexes
      BY <3>1
    <3>3. QED BY <1>7, <2>1, <3>2
  <2>3. QED BY <2>1, <2>2
<1>11. Q(f)
  <2> DEFINE h == [i \in 0 .. n |-> IF i = 0 THEN base ELSE E(f[i - 1], i)]
  <2>1. \A i \in 0 .. n : f[i] = h[i]
    BY <1>1, <1>10
  <2>2. f = [i \in 0 .. n |-> f[i]] /\ h = [i \in 0 .. n |-> h[i]]
    OBVIOUS
  <2> HIDE DEF h
  <2>3. f = h
    BY <2>1, <2>2
  <2>4. QED BY <2>3 DEF h
<1> HIDE DEF Q
<1>12. Q(bound)
  BY <1>11 DEF bound
<1>13. bound[0] = base /\ \A i \in 1 .. n : bound[i] = E(bound[i - 1], i)
  BY <1>1, <1>12 DEF Q
<1> DEFINE P == {i \in 0 .. n : bound[i] = f[i]}
<1>14. 0 \in P /\ \A i \in 1 .. n : i - 1 \in P => i \in P
  BY <1>1, <1>10, <1>13
<1>15. n \in P
  <2> HIDE DEF P
  <2>1. \A i \in 0 .. n : i \in P
    BY <1>1, <1>14, UpTo
  <2>2. n \in 0 .. n
    BY <1>1
  <2>3. QED BY <2>1, <2>2
<1>16. f[n] = BoundAll(list)
  BY <1>4, <1>15
<1>17. ASSUME NEW i \in 0 .. n
       PROVE  /\ f[i] \in Indexes /\ Filed(f[i].byExchange)
              /\ \A j \in 1 .. i : Holds(f[i].byExchange, list[j])
  <2> DEFINE x == f[i]
  <2>1. x \in G(i)
    BY <1>8, <1>10
  <2> HIDE DEF x
  <2>2. /\ x \in Indexes /\ Filed(x.byExchange)
        /\ \A j \in 1 .. i : Holds(x.byExchange, list[j])
    BY <2>1 DEF G
  <2>3. QED BY <2>2 DEF x
<1>18. ASSUME NEW i \in 1 .. n
       PROVE  /\ Added(f[i - 1].byExchange, list[i], f[i].byExchange)
              /\ AddedByQueue(f[i - 1].byQueue, list[i], f[i].byQueue)
  <2> DEFINE x == f[i - 1]
             y == f[i]
             u == [x.byExchange EXCEPT ![list[i].exchange] = Append(@, list[i])]
             v == [x.byQueue EXCEPT ![list[i].queue] = Append(@, list[i])]
  <2>1. y = [byExchange |-> u, byQueue |-> v]
    BY <1>10 DEF E
  <2>2. Added(x.byExchange, list[i], u) /\ AddedByQueue(x.byQueue, list[i], v)
    BY DEF Added, AddedByQueue
  <2> HIDE DEF x, y, u, v
  <2>3. y.byExchange = u /\ y.byQueue = v
    BY <2>1
  <2>4. QED BY <2>2, <2>3 DEF x, y
<1>19. Binds(f, list)
  BY <1>10, <1>16, <1>17, <1>18 DEF Binds, n, base
<1>20. QED BY <1>19

\* The restart binds every binding of the list.
LEMMA BoundList ==
  ASSUME NEW list \in Seq(Binding)
  PROVE  /\ BoundAll(list) \in Indexes /\ Filed(BoundAll(list).byExchange)
         /\ \A b \in ToSet(list) : Holds(BoundAll(list).byExchange, b)
<1>1. PICK f : Binds(f, list)
  BY BindsList
<1>2. Len(list) \in 0 .. Len(list) /\ DOMAIN list = 1 .. Len(list)
  BY LenProperties
<1> DEFINE w == BoundAll(list)
<1>3. /\ w \in Indexes /\ Filed(w.byExchange)
      /\ \A j \in 1 .. Len(list) : Holds(w.byExchange, list[j])
  BY <1>1, <1>2 DEF Binds
<1> HIDE DEF w
<1>4. \A b \in ToSet(list) : Holds(w.byExchange, b)
  BY <1>2, <1>3 DEF ToSet
<1>5. QED BY <1>3, <1>4 DEF w

\* A finite set is listed whole by each of its sequences.
LEMMA ListedWhole ==
  ASSUME NEW B, NEW A \in SUBSET B, IsFiniteSet(A), NEW list \in SetToSeqs(A)
  PROVE  list \in Seq(B) /\ ToSet(list) = A
<1> DEFINE n == Cardinality(A)
           D == 1 .. n
<1>1. n \in Nat
  BY FS_CardinalityType
<1>2. list \in [D -> A] /\ \A i, j \in D : i # j => list[i] # list[j]
  BY DEF SetToSeqs
<1> HIDE DEF n
<1>3. list \in Seq(A)
  BY <1>1, <1>2, SeqDef
<1>4. list \in Seq(B)
  <2>1. list \in [1 .. n -> B]
    BY <1>2
  <2>2. QED BY <1>1, <2>1, SeqDef
<1>5. list \in Injection(D, A)
  BY <1>2 DEF Injection, IsInjective
<1>6. IsFiniteSet(D) /\ Cardinality(D) = n
  BY <1>1, FS_Interval
<1>7. list \in Surjection(D, A)
  BY <1>5, <1>6, FS_Injection DEF n
<1>8. QED BY <1>2, <1>4, <1>7 DEF Surjection, ToSet

----------------------------------------------------------------------------
(* Bindings saved and bindings that route                                  *)

DeclTyped ==
  /\ up \in BOOLEAN /\ e2e \subseteq E2EBinding
  /\ exchanges \in [Exchange -> Types \cup {Nil}] /\ queues \in [Queue -> QArgs \cup {Nil}]
  /\ savedExchanges \in [Exchange -> Types \cup {Nil}] /\ savedQueues \in [Queue -> QArgs \cup {Nil}]

\* The index by exchange is filed, and the store's bindings can be listed.
BindTyped ==
  /\ byExchange \in ByExchange /\ byQueue \in ByQueue /\ Filed(byExchange)
  /\ savedBindings \subseteq Binding /\ IsFiniteSet(savedBindings) /\ cascaded \subseteq Binding
  /\ op \in [Conn -> Op \cup {Idle}] /\ failures \in Nat /\ e2e \subseteq E2EBinding

LEMMA TypedParts == DeclTyped /\ BindTyped => TypeOK
BY DEF DeclTyped, BindTyped, TypeOK, ByExchange, ByQueue

\* Live, by Holds.
LEMMA LiveHolds == Live = {b \in Binding : Holds(byExchange, b)}
BY DEF Live, Holds, ToSet

\* Where a handler is says what it holds.
LEMMA OpFields ==
  ASSUME NEW o \in Op \cup {Idle}
  PROVE  /\ o.at = "bind" => o.e \in E2EBinding
         /\ o.at \in {"unbindE2E", "unbindExchange"} => o.x \in Exchange
         /\ o.at = "unbindQueue" => o.q \in Queue
         /\ o.at \in {"cleanByQueue", "cleanByExchange"} => o.list \in Seq(Binding)
BY DEF Op, Idle

\* A store call that does not fail does what it was asked.
LEMMA StoreBindings ==
  ASSUME BindTyped, NEW new, new \subseteq Binding, IsFiniteSet(new),
         StoreCall(savedBindings, new, savedBindings')
  PROVE  /\ savedBindings' \subseteq Binding /\ IsFiniteSet(savedBindings') /\ failures' \in Nat
         /\ failures' = 0 => failures = 0 /\ savedBindings' = new
BY DEF StoreCall, BindTyped

\* Steps that leave the bindings alone.
LEMMA BindKept ==
  ASSUME BindTyped, op' \in [Conn -> Op \cup {Idle}], failures' \in Nat,
         e2e' \subseteq E2EBinding, UNCHANGED <<byExchange, byQueue, savedBindings, cascaded>>
  PROVE  BindTyped'
BY DEF BindTyped

LEMMA LiveKept ==
  ASSUME SavedBindingsLive, failures' = 0 => failures = 0, up' => up,
         UNCHANGED <<byExchange, savedBindings, cascaded>>
  PROVE  SavedBindingsLive'
<1>1. Live' = Live
  BY DEF Live
<1>2. QED BY <1>1 DEF SavedBindingsLive

\* Declarations and deletions of queues and exchanges.
DeclStep(c) ==
  \/ \E q \in Queue : \/ \E args \in QArgs : handleQueueDeclare(c, q, args)
                      \/ handleQueueDelete(c, q)
                      \/ RouterDeleteQueue(c, q)
  \/ \E x \in Exchange : \/ \E name \in Types : handleExchangeDeclare(c, x, name)
                         \/ handleExchangeDelete(c, x)
                         \/ RouterDeleteExchange(c, x)

E2EStep(c) ==
  \/ \E e \in E2EBinding : handleExchangeBind(c, e) \/ handleExchangeUnbind(c, e)
  \/ UnbindE2E(c) \/ BindE2E(c)

LEMMA StoreCallNat ==
  ASSUME NEW old, NEW new, NEW result, StoreCall(old, new, result), failures \in Nat
  PROVE  result \in {old, new} /\ failures' \in Nat /\ (failures' = 0 => failures = 0)
BY DEF StoreCall

LEMMA DeclStepBind ==
  ASSUME BindTyped, NEW c \in Conn, DeclStep(c)
  PROVE  /\ BindTyped' /\ UNCHANGED <<up, byExchange, savedBindings, cascaded>>
         /\ failures' = 0 => failures = 0
<1>0. failures \in Nat /\ op \in [Conn -> Op \cup {Idle}] /\ e2e \subseteq E2EBinding
  BY DEF BindTyped
<1>1. UNCHANGED <<up, byExchange, byQueue, savedBindings, cascaded, e2e>>
  BY DEF DeclStep, handleQueueDeclare, handleQueueDelete, RouterDeleteQueue, handleExchangeDeclare,
         handleExchangeDelete, RouterDeleteExchange, DeclareQueue, DeleteQueue, DeclareExchange,
         DeleteExchange, memory, saved
<1>2. failures' \in Nat /\ (failures' = 0 => failures = 0)
  <2>1. \/ failures' = failures
        \/ \E old, new, result : StoreCall(old, new, result)
    BY DEF DeclStep, handleQueueDeclare, handleQueueDelete, RouterDeleteQueue, handleExchangeDeclare,
           handleExchangeDelete, RouterDeleteExchange, DeclareQueue, DeleteQueue, DeclareExchange,
           DeleteExchange, SaveQueue, SaveExchange
  <2>2. QED BY <1>0, <2>1, StoreCallNat
<1>3. op' \in [Conn -> Op \cup {Idle}]
  <2>1. \A x \in Exchange : /\ [at |-> "unbindE2E", x |-> x] \in Op
                            /\ [at |-> "unbindExchange", x |-> x] \in Op
    BY DEF Op
  <2>2. \A q \in Queue : [at |-> "unbindQueue", q |-> q] \in Op
    BY DEF Op
  <2>3. \/ op' = op
        \/ \E q \in Queue : op' = [op EXCEPT ![c] = [at |-> "unbindQueue", q |-> q]]
        \/ \E x \in Exchange : \/ op' = [op EXCEPT ![c] = [at |-> "unbindE2E", x |-> x]]
                               \/ op' = [op EXCEPT ![c] = [at |-> "unbindExchange", x |-> x]]
    BY DEF DeclStep, handleQueueDeclare, handleQueueDelete, RouterDeleteQueue, handleExchangeDeclare,
           handleExchangeDelete, RouterDeleteExchange
  <2> DEFINE o1(x) == [at |-> "unbindE2E", x |-> x]
             o2(x) == [at |-> "unbindExchange", x |-> x]
             o3(q) == [at |-> "unbindQueue", q |-> q]
  <2>4. \/ op' = op
        \/ \E o \in Op : op' = [op EXCEPT ![c] = o]
    BY <2>1, <2>2, <2>3
  <2>5. QED BY <1>0, <2>4
<1>4. QED BY <1>0, <1>1, <1>2, <1>3, BindKept

LEMMA E2EStepBind ==
  ASSUME BindTyped, NEW c \in Conn, E2EStep(c)
  PROVE  BindTyped' /\ UNCHANGED <<up, byExchange, savedBindings, cascaded, failures>>
<1>0. failures \in Nat /\ op \in [Conn -> Op \cup {Idle}] /\ e2e \subseteq E2EBinding
  BY DEF BindTyped
<1>1. UNCHANGED <<up, byExchange, byQueue, savedBindings, cascaded, failures>>
  BY DEF E2EStep, handleExchangeBind, handleExchangeUnbind, UnbindE2E, BindE2E, memory, saved
<1>2. op' \in [Conn -> Op \cup {Idle}]
  <2>1. \A e \in E2EBinding : [at |-> "bind", e |-> e, seen |-> e2e] \in Op
    BY <1>0 DEF Op
  <2>2. \/ op' = op \/ op' = [op EXCEPT ![c] = Idle]
        \/ \E e \in E2EBinding : op' = [op EXCEPT ![c] = [at |-> "bind", e |-> e, seen |-> e2e]]
    BY DEF E2EStep, handleExchangeBind, handleExchangeUnbind, UnbindE2E, BindE2E
  <2>3. \/ op' = op
        \/ \E o \in Op \cup {Idle} : op' = [op EXCEPT ![c] = o]
    BY <2>1, <2>2
  <2>4. QED BY <1>0, <2>3
<1>3. e2e' \subseteq E2EBinding
  <2>1. op[c].at = "bind" => op[c].e \in E2EBinding
    BY <1>0, OpFields
  <2>2. QED
    BY <1>0, <2>1 DEF E2EStep, handleExchangeBind, handleExchangeUnbind, UnbindE2E, BindE2E, memory
<1>4. QED BY <1>0, <1>1, <1>2, <1>3, BindKept

\* Queue.Bind.
LEMMA QueueBindStep ==
  ASSUME BindTyped, NEW c \in Conn, NEW b \in Binding, handleQueueBind(c, b)
  PROVE  BindTyped' /\ (SavedBindingsLive => SavedBindingsLive')
<1>1. /\ byExchange' = [byExchange EXCEPT ![b.exchange] = Append(@, b)]
      /\ byQueue' = [byQueue EXCEPT ![b.queue] = Append(@, b)]
      /\ StoreCall(savedBindings, savedBindings \cup {b}, savedBindings')
      /\ cascaded' = cascaded \ {b} /\ up' = up /\ op' = op /\ e2e' = e2e
  BY DEF handleQueueBind, Bind, SaveBinding
<1>2. /\ byExchange \in ByExchange /\ Filed(byExchange) /\ byQueue \in ByQueue
      /\ savedBindings \cup {b} \subseteq Binding /\ IsFiniteSet(savedBindings)
  BY DEF BindTyped
<1>3. IsFiniteSet(savedBindings \cup {b})
  BY <1>2, FS_AddElement
<1>4. /\ savedBindings' \subseteq Binding /\ IsFiniteSet(savedBindings') /\ failures' \in Nat
      /\ failures' = 0 => failures = 0 /\ savedBindings' = savedBindings \cup {b}
  <2> DEFINE new == savedBindings \cup {b}
  <2>1. new \subseteq Binding /\ IsFiniteSet(new) /\ StoreCall(savedBindings, new, savedBindings')
    BY <1>1, <1>2, <1>3
  <2> HIDE DEF new
  <2>2. /\ savedBindings' \subseteq Binding /\ IsFiniteSet(savedBindings') /\ failures' \in Nat
        /\ failures' = 0 => failures = 0 /\ savedBindings' = new
    BY <2>1, StoreBindings
  <2>3. QED BY <2>2 DEF new
<1>5. /\ byExchange' \in ByExchange /\ Filed(byExchange')
      /\ \A d \in Binding : Holds(byExchange, d) \/ d = b => Holds(byExchange', d)
  <2>1. Added(byExchange, b, byExchange')
    BY <1>1 DEF Added
  <2>2. QED BY <1>2, <2>1, AppendIndex
<1>6. byQueue' \in ByQueue
  BY <1>1, <1>2, AppendQueueIndex
<1>7. BindTyped'
  BY <1>1, <1>4, <1>5, <1>6 DEF BindTyped
<1>8. ASSUME SavedBindingsLive PROVE SavedBindingsLive'
  <2>1. Live' = {d \in Binding : Holds(byExchange', d)}
    BY DEF Live, Holds, ToSet
  <2>2. Live \cup {b} \subseteq Live'
    BY <1>5, <2>1, LiveHolds
  <2>3. QED BY <1>1, <1>4, <1>8, <2>2 DEF SavedBindingsLive
<1>9. QED BY <1>7, <1>8

\* Queue.Unbind.
LEMMA QueueUnbindStep ==
  ASSUME BindTyped, NEW c \in Conn, NEW b \in Binding, handleQueueUnbind(c, b)
  PROVE  BindTyped' /\ (SavedBindingsLive => SavedBindingsLive')
<1>1. /\ byExchange' = [byExchange EXCEPT ![b.exchange] = removeFrom(@, b.queue, b.key)]
      /\ byQueue' = [byQueue EXCEPT ![b.queue] = removeFrom(@, b.exchange, b.key)]
      /\ IF byExchange' # byExchange
         THEN StoreCall(savedBindings, savedBindings \ {b}, savedBindings')
         ELSE UNCHANGED <<savedBindings, failures>>
      /\ cascaded' = cascaded /\ up' = up /\ op' = op /\ e2e' = e2e
  BY DEF handleQueueUnbind, Unbind, DeleteBinding
<1>2. /\ byExchange \in ByExchange /\ Filed(byExchange) /\ byQueue \in ByQueue
      /\ savedBindings \subseteq Binding /\ IsFiniteSet(savedBindings)
  BY DEF BindTyped
<1>3. IsFiniteSet(savedBindings \ {b})
  BY <1>2, FS_RemoveElement
<1>4. /\ savedBindings' \subseteq Binding /\ IsFiniteSet(savedBindings') /\ failures' \in Nat
      /\ failures' = 0 => /\ failures = 0
                          /\ \/ savedBindings' = savedBindings \ {b}
                             \/ savedBindings' = savedBindings /\ byExchange' = byExchange
  <2>1. CASE byExchange' # byExchange
    <3> DEFINE new == savedBindings \ {b}
    <3>1. new \subseteq Binding /\ IsFiniteSet(new) /\ StoreCall(savedBindings, new, savedBindings')
      BY <1>1, <1>2, <1>3, <2>1
    <3> HIDE DEF new
    <3>2. /\ savedBindings' \subseteq Binding /\ IsFiniteSet(savedBindings') /\ failures' \in Nat
          /\ failures' = 0 => failures = 0 /\ savedBindings' = new
      BY <3>1, StoreBindings
    <3>3. QED BY <3>2 DEF new
  <2>2. CASE byExchange' = byExchange
    BY <1>1, <1>2, <2>2 DEF BindTyped
  <2>3. QED BY <2>1, <2>2
<1>5. /\ byExchange' \in ByExchange /\ Filed(byExchange')
      /\ \A d \in Binding : d # b /\ Holds(byExchange, d) => Holds(byExchange', d)
  <2>1. Removed(byExchange, b, byExchange')
    BY <1>1 DEF Removed
  <2>2. QED BY <1>2, <2>1, RemoveFromIndex
<1>6. byQueue' \in ByQueue
  <2> DEFINE q == b.queue
             t == removeFrom(byQueue[q], b.exchange, b.key)
  <2>1. q \in Queue /\ byQueue[q] \in Seq(Binding)
    BY <1>2 DEF Binding, ByQueue
  <2>2. t \in Seq(Binding)
    BY <2>1, RemoveFromList
  <2>3. byQueue' = [byQueue EXCEPT ![q] = t]
    BY <1>1
  <2> HIDE DEF q, t
  <2>4. QED BY <1>2, <2>1, <2>2, <2>3 DEF ByQueue
<1>7. BindTyped'
  BY <1>1, <1>4, <1>5, <1>6 DEF BindTyped
<1>8. ASSUME SavedBindingsLive PROVE SavedBindingsLive'
  <2>1. Live' = {d \in Binding : Holds(byExchange', d)}
    BY DEF Live, Holds, ToSet
  <2>2. Live \ {b} \subseteq Live' /\ (byExchange' = byExchange => Live' = Live)
    BY <1>5, <2>1, LiveHolds
  <2>3. QED BY <1>1, <1>4, <1>8, <2>2 DEF SavedBindingsLive
<1>9. QED BY <1>7, <1>8

\* The cascades: what they take out of the index by exchange counts as cascaded.
LEMMA CascadeStep ==
  ASSUME BindTyped, NEW c \in Conn,
         \/ UnbindAllForQueue(c) \/ CleanByExchange(c)
         \/ UnbindAllForExchange(c) \/ CleanByQueue(c)
  PROVE  BindTyped' /\ (SavedBindingsLive => SavedBindingsLive')
<1> DEFINE o == op[c]
<1>0. /\ byExchange \in ByExchange /\ Filed(byExchange) /\ byQueue \in ByQueue
      /\ op \in [Conn -> Op \cup {Idle}] /\ o \in Op \cup {Idle}
      /\ savedBindings \subseteq Binding /\ IsFiniteSet(savedBindings) /\ failures \in Nat
      /\ cascaded \subseteq Binding
  BY DEF BindTyped
<1>1. UNCHANGED <<up, savedBindings, failures, e2e>> /\ e2e \subseteq E2EBinding
  BY DEF UnbindAllForQueue, CleanByExchange, UnbindAllForExchange, CleanByQueue, saved, BindTyped
<1>2. <<>> \in Seq(Binding) /\ \A s \in Seq(Binding) : ToSet(s) \subseteq Binding
  BY EmptySeq, ElementOfSeq, LenProperties DEF ToSet
<1>3. \A s \in Seq(Binding) : /\ [at |-> "cleanByExchange", list |-> s] \in Op
                              /\ [at |-> "cleanByQueue", list |-> s] \in Op
  BY DEF Op
<1>4. Live' = {d \in Binding : Holds(byExchange', d)}
  BY DEF Live, Holds, ToSet
<1>5. ASSUME UnbindAllForQueue(c) PROVE BindTyped' /\ (SavedBindingsLive => SavedBindingsLive')
  <2> DEFINE q == o.q
             s == byQueue[q]
             new == [at |-> "cleanByExchange", list |-> s]
  <2>1. q \in Queue
    BY <1>0, <1>5, OpFields DEF UnbindAllForQueue
  <2>2. s \in Seq(Binding)
    BY <1>0, <2>1 DEF ByQueue
  <2>3. /\ byQueue' = [byQueue EXCEPT ![q] = <<>>] /\ op' = [op EXCEPT ![c] = new]
        /\ UNCHANGED <<byExchange, cascaded>>
    BY <1>5 DEF UnbindAllForQueue
  <2>4. new \in Op
    BY <1>3, <2>2
  <2> HIDE DEF new, q
  <2>5. byQueue' \in ByQueue /\ op' \in [Conn -> Op \cup {Idle}]
    BY <1>0, <1>2, <2>3, <2>4 DEF ByQueue
  <2>6. BindTyped'
    BY <1>0, <1>1, <2>3, <2>5 DEF BindTyped
  <2>7. QED BY <1>1, <2>3, <2>6, LiveKept
<1>6. ASSUME CleanByExchange(c) PROVE BindTyped' /\ (SavedBindingsLive => SavedBindingsLive')
  <2> DEFINE list == o.list
             w == WithoutByExchange(list)
  <2>1. list \in Seq(Binding)
    BY <1>0, <1>6, OpFields DEF CleanByExchange
  <2>2. /\ byExchange' = w /\ op' = [op EXCEPT ![c] = Idle] /\ byQueue' = byQueue
        /\ cascaded' = cascaded \cup ToSet(list)
    BY <1>6 DEF CleanByExchange
  <2> HIDE DEF list
  <2>3. /\ w \in ByExchange /\ Filed(w)
        /\ \A d \in Binding : d \notin ToSet(list) /\ Holds(byExchange, d) => Holds(w, d)
    BY <1>0, <2>1, WithoutList
  <2> HIDE DEF w
  <2>4. /\ byExchange' \in ByExchange /\ Filed(byExchange') /\ op' \in [Conn -> Op \cup {Idle}]
        /\ cascaded' \subseteq Binding
    BY <1>0, <1>2, <2>1, <2>2, <2>3
  <2>5. BindTyped'
    BY <1>0, <1>1, <2>2, <2>4 DEF BindTyped
  <2>6. Live \ ToSet(list) \subseteq Live'
    BY <1>4, <2>2, <2>3, LiveHolds
  <2>7. QED BY <1>1, <2>2, <2>5, <2>6 DEF SavedBindingsLive
<1>7. ASSUME UnbindAllForExchange(c) PROVE BindTyped' /\ (SavedBindingsLive => SavedBindingsLive')
  <2> DEFINE x == o.x
             s == byExchange[x]
             new == [at |-> "cleanByQueue", list |-> s]
  <2>1. x \in Exchange
    BY <1>0, <1>7, OpFields DEF UnbindAllForExchange
  <2>2. s \in Seq(Binding)
    BY <1>0, <2>1 DEF ByExchange
  <2>3. /\ byExchange' = [byExchange EXCEPT ![x] = <<>>] /\ op' = [op EXCEPT ![c] = new]
        /\ byQueue' = byQueue /\ cascaded' = cascaded \cup ToSet(s)
    BY <1>7 DEF UnbindAllForExchange
  <2>4. new \in Op /\ ToSet(s) \subseteq Binding
    BY <1>2, <1>3, <2>2
  <2> HIDE DEF new, x
  <2>5. /\ byExchange' \in ByExchange /\ op' \in [Conn -> Op \cup {Idle}]
        /\ byExchange'[x] = <<>> /\ \A y \in Exchange : y # x => byExchange'[y] = byExchange[y]
    BY <1>0, <1>2, <2>1, <2>3, <2>4 DEF ByExchange
  <2>6. ToSet(<<>>) = {}
    <3>1. DOMAIN <<>> = {}
      BY EmptySeq
    <3>2. QED BY <3>1 DEF ToSet
  <2>7. Filed(byExchange')
    BY <1>0, <2>5, <2>6 DEF Filed
  <2>8. BindTyped'
    BY <1>0, <1>1, <2>3, <2>4, <2>5, <2>7 DEF BindTyped
  <2>9. Live \ ToSet(s) \subseteq Live'
    <3>1. ASSUME NEW d \in Binding, Holds(byExchange, d), d \notin ToSet(s)
          PROVE  Holds(byExchange', d)
      <4>1. d.exchange \in Exchange /\ d.exchange # x
        BY <3>1 DEF Holds, Binding
      <4>2. QED BY <2>5, <3>1, <4>1 DEF Holds
    <3>2. QED BY <1>4, <3>1, LiveHolds
  <2>10. QED BY <1>1, <2>3, <2>8, <2>9 DEF SavedBindingsLive
<1>8. ASSUME CleanByQueue(c) PROVE BindTyped' /\ (SavedBindingsLive => SavedBindingsLive')
  <2> DEFINE list == o.list
  <2>1. list \in Seq(Binding)
    BY <1>0, <1>8, OpFields DEF CleanByQueue
  <2>2. /\ byQueue' = WithoutByQueue(list) /\ op' = [op EXCEPT ![c] = Idle]
        /\ UNCHANGED <<byExchange, cascaded>>
    BY <1>8 DEF CleanByQueue
  <2> HIDE DEF list
  <2>3. byQueue' \in ByQueue /\ op' \in [Conn -> Op \cup {Idle}]
    BY <1>0, <2>1, <2>2, WithoutListByQueue
  <2>4. BindTyped'
    BY <1>0, <1>1, <2>2, <2>3 DEF BindTyped
  <2>5. QED BY <1>1, <2>2, <2>4, LiveKept
<1>9. QED BY <1>5, <1>6, <1>7, <1>8

\* The handlers.
LEMMA HandlerBind ==
  ASSUME BindTyped, NEW c \in Conn, Handler(c)
  PROVE  BindTyped' /\ (SavedBindingsLive => SavedBindingsLive')
<1>1. CASE DeclStep(c)
  BY <1>1, DeclStepBind, LiveKept
<1>2. CASE E2EStep(c)
  BY <1>2, E2EStepBind, LiveKept
<1>3. CASE \E b \in Binding : handleQueueBind(c, b) \/ handleQueueUnbind(c, b)
  BY <1>3, QueueBindStep, QueueUnbindStep
<1>4. CASE \/ UnbindAllForQueue(c) \/ CleanByExchange(c)
           \/ UnbindAllForExchange(c) \/ CleanByQueue(c)
  BY <1>4, CascadeStep
<1>5. QED BY <1>1, <1>2, <1>3, <1>4 DEF Handler, DeclStep, E2EStep

\* A handler runs while the broker does.
LEMMA HandlerUp == ASSUME NEW c \in Conn, Handler(c) PROVE up /\ up' = up
<1>1. up
  BY DEF Handler, handleQueueDeclare, handleQueueDelete, RouterDeleteQueue, handleExchangeDeclare,
         handleExchangeDelete, RouterDeleteExchange, handleQueueBind, handleQueueUnbind,
         handleExchangeBind, handleExchangeUnbind, UnbindE2E, BindE2E, UnbindAllForQueue,
         CleanByExchange, UnbindAllForExchange, CleanByQueue
<1>2. up' = up
  BY DEF Handler, handleQueueDeclare, handleQueueDelete, RouterDeleteQueue, handleExchangeDeclare,
         handleExchangeDelete, RouterDeleteExchange, DeclareQueue, DeleteQueue, DeclareExchange,
         DeleteExchange, handleQueueBind, handleQueueUnbind, handleExchangeBind,
         handleExchangeUnbind, UnbindE2E, BindE2E, UnbindAllForQueue, CleanByExchange,
         UnbindAllForExchange, CleanByQueue, memory
<1>3. QED BY <1>1, <1>2

\* A crash empties memory; the restart binds what the store lists.
LEMMA CrashBind ==
  ASSUME BindTyped, Crash
  PROVE  BindTyped' /\ SavedBindingsLive'
<1>1. <<>> \in Seq(Binding) /\ DOMAIN <<>> = {}
  BY EmptySeq
<1>2. byExchange' \in ByExchange /\ byQueue' \in ByQueue /\ \A x \in Exchange : byExchange'[x] = <<>>
  BY <1>1 DEF Crash, NoBindings, ByExchange, ByQueue
<1>3. Filed(byExchange')
  BY <1>1, <1>2 DEF Filed, ToSet
<1>4. BindTyped'
  BY <1>2, <1>3 DEF BindTyped, Crash, saved
<1>5. SavedBindingsLive'
  BY DEF Crash, SavedBindingsLive
<1>6. QED BY <1>4, <1>5

LEMMA RestoreBind ==
  ASSUME BindTyped, RestoreFromStore
  PROVE  BindTyped' /\ SavedBindingsLive'
<1>1. PICK list \in SetToSeqs(savedBindings) :
        byExchange' = BoundAll(list).byExchange /\ byQueue' = BoundAll(list).byQueue
  BY DEF RestoreFromStore
<1>2. savedBindings \in SUBSET Binding /\ IsFiniteSet(savedBindings)
  BY DEF BindTyped
<1>3. list \in Seq(Binding) /\ ToSet(list) = savedBindings
  <2> DEFINE A == savedBindings
  <2>1. A \in SUBSET Binding /\ IsFiniteSet(A) /\ list \in SetToSeqs(A)
    BY <1>2
  <2> HIDE DEF A
  <2>2. list \in Seq(Binding) /\ ToSet(list) = A
    BY <2>1, ListedWhole
  <2>3. QED BY <2>2 DEF A
<1> DEFINE w == BoundAll(list)
<1>4. /\ w \in Indexes /\ Filed(w.byExchange)
      /\ \A b \in ToSet(list) : Holds(w.byExchange, b)
  BY <1>3, BoundList
<1>5. byExchange' = w.byExchange /\ byQueue' = w.byQueue
  BY <1>1
<1> HIDE DEF w
<1>6. byExchange' \in ByExchange /\ byQueue' \in ByQueue /\ Filed(byExchange')
  BY <1>4, <1>5 DEF Indexes
<1>7. UNCHANGED <<savedBindings, op, failures, cascaded, e2e>>
  BY DEF RestoreFromStore, saved
<1>8. BindTyped'
  BY <1>6, <1>7 DEF BindTyped
<1>9. Live' = {d \in Binding : Holds(byExchange', d)}
  BY DEF Live, Holds, ToSet
<1>10. savedBindings' \subseteq Live'
  BY <1>2, <1>3, <1>4, <1>5, <1>7, <1>9
<1>11. QED BY <1>8, <1>10 DEF SavedBindingsLive

LEMMA InitBind == Init => BindTyped /\ SavedBindingsLive
<1> SUFFICES ASSUME Init PROVE BindTyped /\ SavedBindingsLive
  OBVIOUS
<1>1. <<>> \in Seq(Binding) /\ DOMAIN <<>> = {}
  BY EmptySeq
<1>2. byExchange \in ByExchange /\ byQueue \in ByQueue /\ \A x \in Exchange : byExchange[x] = <<>>
  BY <1>1 DEF Init, NoBindings, ByExchange, ByQueue
<1>3. Filed(byExchange)
  BY <1>1, <1>2 DEF Filed, ToSet
<1>4. IsFiniteSet({})
  BY FS_EmptySet
<1>5. QED BY <1>2, <1>3, <1>4 DEF Init, BindTyped, SavedBindingsLive

\* No removed binding comes back with a restart, but for those a cascade removed: as long as
\* no store call failed, for any exchanges, queues and keys, and whatever handlers interleave
\* with the cascades.
THEOREM SavedTheorem == Spec => []SavedBindingsLive
<1>1. BindTyped /\ SavedBindingsLive /\ [Next]_vars => (BindTyped /\ SavedBindingsLive)'
  <2> SUFFICES ASSUME BindTyped, SavedBindingsLive, [Next]_vars
               PROVE  BindTyped' /\ SavedBindingsLive'
    OBVIOUS
  <2>1. CASE UNCHANGED vars
    <3>1. UNCHANGED <<up, byExchange, byQueue, savedBindings, cascaded, op, failures, e2e>>
      BY <2>1 DEF vars, memory, saved
    <3>2. op' \in [Conn -> Op \cup {Idle}] /\ failures' \in Nat /\ e2e' \subseteq E2EBinding
      BY <3>1 DEF BindTyped
    <3>3. QED BY <3>1, <3>2, BindKept, LiveKept
  <2>2. QED BY <2>1, HandlerBind, CrashBind, RestoreBind DEF Next
<1>2. QED BY <1>1, InitBind, PTL DEF Spec

----------------------------------------------------------------------------
(* Types                                                                   *)

LEMMA DeclHandler ==
  ASSUME DeclTyped, BindTyped, NEW c \in Conn, Handler(c)
  PROVE  DeclTyped'
<1>0. /\ up \in BOOLEAN /\ e2e \subseteq E2EBinding
      /\ exchanges \in [Exchange -> Types \cup {Nil}] /\ queues \in [Queue -> QArgs \cup {Nil}]
      /\ savedExchanges \in [Exchange -> Types \cup {Nil}]
      /\ savedQueues \in [Queue -> QArgs \cup {Nil}]
      /\ op[c] \in Op \cup {Idle}
  BY DEF DeclTyped, BindTyped
<1>1. up' \in BOOLEAN
  BY <1>0, HandlerUp
<1>2. ASSUME \E q \in Queue : \E args \in QArgs \cup {Nil} :
               /\ queues' = [queues EXCEPT ![q] = args] /\ SaveQueue(q, args)
               /\ UNCHANGED <<exchanges, savedExchanges, e2e>>
      PROVE  DeclTyped'
  <2>1. PICK q \in Queue, args \in QArgs \cup {Nil} :
               /\ queues' = [queues EXCEPT ![q] = args] /\ SaveQueue(q, args)
               /\ UNCHANGED <<exchanges, savedExchanges, e2e>>
    BY <1>2
  <2>2. savedQueues' \in {savedQueues, [savedQueues EXCEPT ![q] = args]}
    BY <2>1 DEF SaveQueue, StoreCall
  <2>3. QED BY <1>0, <1>1, <2>1, <2>2 DEF DeclTyped
<1>3. ASSUME \E x \in Exchange : \E type \in Types \cup {Nil} :
               /\ exchanges' = [exchanges EXCEPT ![x] = type] /\ SaveExchange(x, type)
               /\ UNCHANGED <<queues, savedQueues, e2e>>
      PROVE  DeclTyped'
  <2>1. PICK x \in Exchange, type \in Types \cup {Nil} :
               /\ exchanges' = [exchanges EXCEPT ![x] = type] /\ SaveExchange(x, type)
               /\ UNCHANGED <<queues, savedQueues, e2e>>
    BY <1>3
  <2>2. savedExchanges' \in {savedExchanges, [savedExchanges EXCEPT ![x] = type]}
    BY <2>1 DEF SaveExchange, StoreCall
  <2>3. QED BY <1>0, <1>1, <2>1, <2>2 DEF DeclTyped
<1>4. ASSUME e2e' \subseteq E2EBinding,
             UNCHANGED <<exchanges, queues, savedExchanges, savedQueues>>
      PROVE  DeclTyped'
  BY <1>0, <1>1, <1>4 DEF DeclTyped
<1>5. CASE \E q \in Queue : \/ \E args \in QArgs : handleQueueDeclare(c, q, args)
                            \/ handleQueueDelete(c, q) \/ RouterDeleteQueue(c, q)
  <2>1. \E q \in Queue : \E args \in QArgs \cup {Nil} :
               /\ queues' = [queues EXCEPT ![q] = args] /\ SaveQueue(q, args)
               /\ UNCHANGED <<exchanges, savedExchanges, e2e>>
    BY <1>5 DEF handleQueueDeclare, handleQueueDelete, RouterDeleteQueue, DeclareQueue, DeleteQueue
  <2>2. QED BY <1>2, <2>1
<1>6. CASE \E x \in Exchange : \/ \E name \in Types : handleExchangeDeclare(c, x, name)
                               \/ handleExchangeDelete(c, x) \/ RouterDeleteExchange(c, x)
  <2>1. \A name : ExchangeTypeOf(name) \in Types
    BY DEF ExchangeTypeOf, Types
  <2>2. \/ \E x \in Exchange : \E type \in Types \cup {Nil} :
               /\ exchanges' = [exchanges EXCEPT ![x] = type] /\ SaveExchange(x, type)
               /\ UNCHANGED <<queues, savedQueues, e2e>>
        \/ UNCHANGED <<exchanges, queues, savedExchanges, savedQueues, e2e>>
    BY <1>6, <2>1 DEF handleExchangeDeclare, handleExchangeDelete, RouterDeleteExchange,
         DeclareExchange, DeleteExchange, memory, saved
  <2>3. QED BY <1>0, <1>3, <1>4, <2>2
<1>7. CASE E2EStep(c)
  <2>1. UNCHANGED <<exchanges, queues, savedExchanges, savedQueues>>
    BY <1>7 DEF E2EStep, handleExchangeBind, handleExchangeUnbind, UnbindE2E, BindE2E, memory, saved
  <2>2. e2e' \subseteq e2e \/ (BindE2E(c) /\ e2e' = e2e \cup {op[c].e})
    BY <1>7 DEF E2EStep, handleExchangeBind, handleExchangeUnbind, UnbindE2E, BindE2E, memory
  <2>3. BindE2E(c) => op[c].e \in E2EBinding
    BY <1>0, OpFields DEF BindE2E
  <2>4. e2e' \subseteq E2EBinding
    BY <1>0, <2>2, <2>3
  <2>5. QED BY <1>4, <2>1, <2>4
<1>8. CASE \/ \E b \in Binding : handleQueueBind(c, b) \/ handleQueueUnbind(c, b)
           \/ UnbindAllForQueue(c) \/ CleanByExchange(c)
           \/ UnbindAllForExchange(c) \/ CleanByQueue(c)
  <2>1. UNCHANGED <<exchanges, queues, savedExchanges, savedQueues, e2e>>
    BY <1>8 DEF handleQueueBind, handleQueueUnbind, UnbindAllForQueue, CleanByExchange,
         UnbindAllForExchange, CleanByQueue, saved
  <2>2. QED BY <1>0, <1>4, <2>1
<1>9. QED BY <1>5, <1>6, <1>7, <1>8 DEF Handler, E2EStep

\* The managers, the store and the handlers in progress keep their types: every table holds
\* what its operations put there, across cascades, store failures, crashes and restarts.
THEOREM TypeTheorem == Spec => []TypeOK
<1> DEFINE I == DeclTyped /\ BindTyped
<1>1. Init => I
  <2> SUFFICES ASSUME Init PROVE DeclTyped /\ BindTyped
    OBVIOUS
  <2>1. Defaults \in [Exchange -> Types \cup {Nil}]
    BY TopologyAssumption DEF Defaults
  <2>2. DeclTyped
    BY <2>1 DEF Init, DeclTyped
  <2>3. QED BY <2>2, InitBind
<1>2. I /\ [Next]_vars => I'
  <2> SUFFICES ASSUME DeclTyped, BindTyped, [Next]_vars PROVE DeclTyped' /\ BindTyped'
    OBVIOUS
  <2>1. CASE \E c \in Conn : Handler(c)
    BY <2>1, DeclHandler, HandlerBind
  <2>2. CASE Crash
    <3>1. Defaults \in [Exchange -> Types \cup {Nil}]
      BY TopologyAssumption DEF Defaults
    <3>2. DeclTyped'
      BY <2>2, <3>1 DEF DeclTyped, Crash, saved
    <3>3. QED BY <2>2, <3>2, CrashBind
  <2>3. CASE RestoreFromStore
    <3>1. exchanges' \in [Exchange -> Types \cup {Nil}]
      BY <2>3, TopologyAssumption DEF DeclTyped, RestoreFromStore
    <3>2. DeclTyped'
      BY <2>3, <3>1 DEF DeclTyped, RestoreFromStore, saved
    <3>3. QED BY <2>3, <3>2, RestoreBind
  <2>4. CASE UNCHANGED vars
    BY <2>4 DEF vars, memory, saved, DeclTyped, BindTyped
  <2>5. QED BY <2>1, <2>2, <2>3, <2>4 DEF Next
<1>3. I => TypeOK
  BY TypedParts
<1>4. QED BY <1>1, <1>2, <1>3, PTL DEF Spec

----------------------------------------------------------------------------
(* The index by queue covers the index by exchange                         *)

\* In a list filed by exchange, removeFrom takes out one copy of the binding asked for.
LEMMA CopiesRemoveFrom ==
  ASSUME NEW s \in Seq(Binding), NEW b \in Binding, \A d \in ToSet(s) : d.exchange = b.exchange,
         NEW d
  PROVE  LET t == removeFrom(s, b.queue, b.key) IN
         Copies(t, d) = IF d = b /\ Copies(s, b) # 0 THEN Copies(s, d) - 1 ELSE Copies(s, d)
<1> DEFINE t == removeFrom(s, b.queue, b.key)
<1>1. DOMAIN s = 1 .. Len(s) /\ \A i \in 1 .. Len(s) : s[i] \in Binding /\ s[i].exchange = b.exchange
  BY LenProperties, ElementOfSeq DEF ToSet
<1>2. \A i \in 1 .. Len(s) : s[i].queue = b.queue /\ s[i].key = b.key => s[i] = b
  BY <1>1 DEF Binding
<1>3. Copies(s, b) = 0 <=> \A i \in 1 .. Len(s) : s[i] # b
  BY <1>1, CopiesNat DEF ToSet
<1>4. CASE t = s /\ \A i \in 1 .. Len(s) : ~(s[i].queue = b.queue /\ s[i].key = b.key)
  <2>1. Copies(s, b) = 0
    BY <1>3, <1>4
  <2> HIDE DEF t
  <2>2. QED BY <1>4, <2>1 DEF t
<1>5. CASE \E p \in 1 .. Len(s) : s[p].queue = b.queue /\ s[p].key = b.key /\ t = RemoveAt(s, p)
  <2>1. PICK p \in 1 .. Len(s) : s[p].queue = b.queue /\ s[p].key = b.key /\ t = RemoveAt(s, p)
    BY <1>5
  <2>2. s[p] = b /\ Copies(s, b) # 0
    BY <1>2, <1>3, <2>1
  <2> HIDE DEF t
  <2>3. Copies(t, d) = IF s[p] = d THEN Copies(s, d) - 1 ELSE Copies(s, d)
    BY <2>1, CopiesRemoveAt
  <2>4. QED BY <2>2, <2>3 DEF t
<1>6. QED BY <1>4, <1>5, RemoveFromAt

\* What the first i bindings of a list hold of d.
Prefix(list, i, d) == {j \in 1 .. i : list[j] = d}

LEMMA PrefixStep ==
  ASSUME NEW list, NEW i \in Nat \ {0}, NEW d
  PROVE  /\ Cardinality(Prefix(list, i - 1, d)) \in Nat
         /\ Cardinality(Prefix(list, i, d)) =
              IF list[i] = d THEN Cardinality(Prefix(list, i - 1, d)) + 1
              ELSE Cardinality(Prefix(list, i - 1, d))
<1> DEFINE A == Prefix(list, i - 1, d)
<1>1. A \subseteq 1 .. i - 1 /\ i \notin A
  BY DEF Prefix
<1>2. IsFiniteSet(A)
  <2>1. IsFiniteSet(1 .. i - 1)
    BY FS_Interval
  <2>2. QED BY <1>1, <2>1, FS_Subset
<1>3. Prefix(list, i, d) = IF list[i] = d THEN A \cup {i} ELSE A
  <2>1. 1 .. i = (1 .. i - 1) \cup {i}
    OBVIOUS
  <2>2. QED BY <2>1 DEF Prefix
<1> HIDE DEF A
<1>4. Cardinality(A) \in Nat /\ Cardinality(A \cup {i}) = Cardinality(A) + 1
  BY <1>1, <1>2, FS_CardinalityType, FS_AddElement
<1>5. QED BY <1>3, <1>4 DEF A

\* One Unbind of a loop and the copies of a binding.
LEMMA CopiesRemoved ==
  ASSUME NEW idx \in ByExchange, Filed(idx), NEW b \in Binding, NEW new, Removed(idx, b, new),
         NEW d \in Binding
  PROVE  LET x == d.exchange IN
         Copies(new[x], d) = IF d = b /\ Copies(idx[x], d) # 0 THEN Copies(idx[x], d) - 1
                             ELSE Copies(idx[x], d)
<1> DEFINE x == d.exchange
           y == b.exchange
           s == idx[y]
           t == removeFrom(s, b.queue, b.key)
<1>1. x \in Exchange /\ y \in Exchange /\ s \in Seq(Binding)
  BY DEF Binding, ByExchange
<1>2. new = [idx EXCEPT ![y] = t]
  BY DEF Removed
<1>3. \A e \in ToSet(s) : e.exchange = b.exchange
  BY <1>1 DEF Filed
<1>4. Copies(t, d) = IF d = b /\ Copies(s, b) # 0 THEN Copies(s, d) - 1 ELSE Copies(s, d)
  <2> HIDE DEF s
  <2>1. QED BY <1>1, <1>3, CopiesRemoveFrom
<1> HIDE DEF t
<1>5. new[x] = IF x = y THEN t ELSE idx[x]
  BY <1>1, <1>2 DEF ByExchange
<1>6. CASE x = y
  BY <1>4, <1>5, <1>6
<1>7. CASE x # y
  <2>1. d # b
    BY <1>7
  <2>2. QED BY <1>5, <1>7, <2>1
<1>8. QED BY <1>6, <1>7

\* CleanByExchange takes out as many copies as the list holds, if there are as many.
LEMMA CopiesCleaned ==
  ASSUME byExchange \in ByExchange, Filed(byExchange), NEW list \in Seq(Binding), NEW d \in Binding
  PROVE  LET c == Copies(WithoutByExchange(list)[d.exchange], d) IN
         c = 0 \/ c + Copies(list, d) <= Copies(byExchange[d.exchange], d)
<1> DEFINE n == Len(list)
           x == d.exchange
           m == Copies(byExchange[x], d)
           pre(i) == Cardinality(Prefix(list, i, d))
<1>1. PICK f : Cleans(f, list)
  BY CleansList
<1> DEFINE c(i) == Copies(f[i][x], d)
<1>2. n \in Nat /\ DOMAIN list = 1 .. n /\ \A i \in 1 .. n : list[i] \in Binding
  BY LenProperties, ElementOfSeq
<1>3. x \in Exchange
  BY DEF Binding
<1>4. \A i \in 0 .. n : f[i] \in ByExchange /\ Filed(f[i]) /\ f[i][x] \in Seq(Binding)
  BY <1>1, <1>3 DEF Cleans, ByExchange
<1>5. \A i \in 0 .. n : c(i) \in Nat
  BY <1>4, CopiesNat
<1>6. c(0) = m /\ pre(0) = 0
  <2>1. Prefix(list, 0, d) = {}
    BY DEF Prefix
  <2>2. QED BY <1>1, <2>1, FS_EmptySet DEF Cleans
<1>7. ASSUME NEW i \in 1 .. n
      PROVE  c(i) = IF d = list[i] /\ c(i - 1) # 0 THEN c(i - 1) - 1 ELSE c(i - 1)
  <2> DEFINE u == f[i - 1]
             v == f[i]
             b == list[i]
  <2>1. i - 1 \in 0 .. n
    BY <1>2
  <2>2. u \in ByExchange /\ Filed(u) /\ b \in Binding /\ Removed(u, b, v)
    BY <1>1, <1>2, <1>4, <2>1 DEF Cleans
  <2> HIDE DEF u, v, b
  <2>3. Copies(v[x], d) = IF d = b /\ Copies(u[x], d) # 0 THEN Copies(u[x], d) - 1 ELSE Copies(u[x], d)
    BY <2>2, CopiesRemoved
  <2>4. QED BY <2>3 DEF u, v, b
<1>8. \A i \in 1 .. n : /\ pre(i - 1) \in Nat
                        /\ pre(i) = IF list[i] = d THEN pre(i - 1) + 1 ELSE pre(i - 1)
  BY <1>2, PrefixStep
<1>9. m \in Nat
  BY <1>2, <1>5, <1>6
<1> HIDE DEF c, pre, m, n
<1> DEFINE P == {i \in 0 .. n : c(i) = 0 \/ c(i) + pre(i) <= m}
<1>10. 0 \in P
  BY <1>2, <1>6, <1>9
<1>11. ASSUME NEW i \in 1 .. n, i - 1 \in P PROVE i \in P
  <2>0. i - 1 \in 0 .. n /\ i \in 0 .. n
    BY <1>2
  <2>1. c(i - 1) \in Nat /\ c(i) \in Nat /\ pre(i - 1) \in Nat
    BY <1>5, <1>8, <2>0
  <2>2. c(i - 1) = 0 \/ c(i - 1) + pre(i - 1) <= m
    BY <1>11
  <2>3. c(i) = 0 \/ c(i) + pre(i) <= m
    <3>1. CASE list[i] = d
      BY <1>7, <1>8, <1>9, <2>1, <2>2, <3>1
    <3>2. CASE list[i] # d
      BY <1>7, <1>8, <1>9, <2>1, <2>2, <3>2
    <3>3. QED BY <3>1, <3>2
  <2>4. QED BY <2>0, <2>3
<1>12. n \in P
  <2> HIDE DEF P
  <2>1. \A i \in 0 .. n : i \in P
    BY <1>2, <1>10, <1>11, UpTo
  <2>2. QED BY <1>2, <2>1
<1>13. pre(n) = Copies(list, d)
  BY <1>2 DEF pre, Prefix, Copies, Positions
<1>14. f[n] = WithoutByExchange(list)
  BY <1>1 DEF Cleans, n
<1>15. QED BY <1>12, <1>13, <1>14 DEF c, m

\* The restart binds as many copies by exchange as by queue.
LEMMA CopiesBound ==
  ASSUME NEW list \in Seq(Binding), NEW d \in Binding
  PROVE  LET w == BoundAll(list) IN
         Copies(w.byExchange[d.exchange], d) = Copies(w.byQueue[d.queue], d)
<1> DEFINE n == Len(list)
           x == d.exchange
           q == d.queue
<1>1. PICK f : Binds(f, list)
  BY BindsList
<1> DEFINE c(i) == Copies(f[i].byExchange[x], d)
           e(i) == Copies(f[i].byQueue[q], d)
<1>2. n \in Nat /\ \A i \in 1 .. n : list[i] \in Binding
  BY LenProperties, ElementOfSeq
<1>3. x \in Exchange /\ q \in Queue
  BY DEF Binding
<1>4. \A i \in 0 .. n : f[i].byExchange \in ByExchange /\ f[i].byQueue \in ByQueue
  BY <1>1 DEF Binds, Indexes
<1>5. c(0) = e(0)
  <2>1. f[0] = [byExchange |-> NoBindings(Exchange), byQueue |-> NoBindings(Queue)]
    BY <1>1 DEF Binds
  <2>2. f[0].byExchange[x] = <<>> /\ f[0].byQueue[q] = <<>>
    BY <1>3, <2>1 DEF NoBindings
  <2>3. QED BY <2>2
<1>6. ASSUME NEW i \in 1 .. n
      PROVE  /\ c(i) = IF list[i] = d THEN c(i - 1) + 1 ELSE c(i - 1)
             /\ e(i) = IF list[i] = d THEN e(i - 1) + 1 ELSE e(i - 1)
  <2> DEFINE u == f[i - 1]
             v == f[i]
             b == list[i]
             a == u.byExchange
             r == u.byQueue
  <2>1. i - 1 \in 0 .. n
    BY <1>2
  <2>2. a \in ByExchange /\ r \in ByQueue /\ b \in Binding
    BY <1>2, <1>4, <2>1
  <2>3. Added(a, b, v.byExchange) /\ AddedByQueue(r, b, v.byQueue)
    BY <1>1 DEF Binds
  <2> HIDE DEF a, r, b, v
  <2>4. /\ v.byExchange = [a EXCEPT ![b.exchange] = Append(a[b.exchange], b)]
        /\ v.byQueue = [r EXCEPT ![b.queue] = Append(r[b.queue], b)]
    BY <2>3 DEF Added, AddedByQueue
  <2>5. b.exchange \in Exchange /\ b.queue \in Queue
    BY <2>2 DEF Binding
  <2>6. a[x] \in Seq(Binding) /\ r[q] \in Seq(Binding)
    BY <1>3, <2>2 DEF ByExchange, ByQueue
  <2>7. /\ Copies(Append(a[x], b), d) = IF b = d THEN Copies(a[x], d) + 1 ELSE Copies(a[x], d)
        /\ Copies(Append(r[q], b), d) = IF b = d THEN Copies(r[q], d) + 1 ELSE Copies(r[q], d)
    BY <2>2, <2>6, CopiesAppend
  <2>8. /\ v.byExchange[x] = IF b.exchange = x THEN Append(a[x], b) ELSE a[x]
        /\ v.byQueue[q] = IF b.queue = q THEN Append(r[q], b) ELSE r[q]
    BY <1>3, <2>2, <2>4 DEF ByExchange, ByQueue
  <2>9. b = d => b.exchange = x /\ b.queue = q
    OBVIOUS
  <2>10. /\ Copies(v.byExchange[x], d) = IF b = d THEN Copies(a[x], d) + 1 ELSE Copies(a[x], d)
         /\ Copies(v.byQueue[q], d) = IF b = d THEN Copies(r[q], d) + 1 ELSE Copies(r[q], d)
    BY <2>7, <2>8, <2>9
  <2>11. QED BY <2>10 DEF a, r, b, v
<1> HIDE DEF c, e, n
<1> DEFINE P == {i \in 0 .. n : c(i) = e(i)}
<1>7. 0 \in P /\ \A i \in 1 .. n : i - 1 \in P => i \in P
  <2>1. 0 \in P
    BY <1>2, <1>5
  <2>2. ASSUME NEW i \in 1 .. n, i - 1 \in P PROVE i \in P
    <3>1. c(i) = e(i)
      BY <1>6, <2>2
    <3>2. i \in 0 .. n
      BY <1>2
    <3>3. QED BY <3>1, <3>2
  <2>3. QED BY <2>1, <2>2
<1>8. n \in P
  <2> HIDE DEF P
  <2>1. \A i \in 0 .. n : i \in P
    BY <1>2, <1>7, UpTo
  <2>2. QED BY <1>2, <2>1
<1>9. f[n] = BoundAll(list)
  BY <1>1 DEF Binds, n
<1>10. c(n) = e(n)
  BY <1>8
<1>11. QED BY <1>9, <1>10 DEF c, e

----------------------------------------------------------------------------
(* What the cascades have still to clean                                   *)

\* Cleaning, of the handlers o; without those of connection c; and in one handler.
CleaningIn(o, b) ==
  UNION {{c} \X Positions(o[c].list, b) : c \in {k \in Conn : o[k].at = "cleanByExchange"}}
CleaningBut(o, c, b) ==
  UNION {{k} \X Positions(o[k].list, b) :
            k \in {j \in Conn \ {c} : o[j].at = "cleanByExchange"}}
CopiesOf(h, b) == IF h.at = "cleanByExchange" THEN Copies(h.list, b) ELSE 0

\* As many pairs as there are positions.
LEMMA PairsCard ==
  ASSUME NEW c, NEW A, IsFiniteSet(A)
  PROVE  IsFiniteSet({c} \X A) /\ Cardinality({c} \X A) = Cardinality(A)
<1> DEFINE B == {c} \X A
           h == [a \in A |-> <<c, a>>]
<1>1. h \in [A -> B]
  OBVIOUS
<1>2. \A a, d \in A : h[a] = h[d] => a = d
  OBVIOUS
<1>3. \A p \in B : \E a \in A : h[a] = p
  OBVIOUS
<1> HIDE DEF h, B
<1>4. h \in Bijection(A, B)
  BY <1>1, <1>2, <1>3 DEF Bijection, Injection, IsInjective, Surjection
<1>5. ExistsBijection(A, B)
  BY <1>4 DEF ExistsBijection
<1>6. QED BY <1>5, FS_Bijection DEF B

LEMMA CleaningCard ==
  ASSUME NEW o \in [Conn -> Op \cup {Idle}], NEW c \in Conn, NEW b
  PROVE  /\ IsFiniteSet(CleaningIn(o, b)) <=> IsFiniteSet(CleaningBut(o, c, b))
         /\ CopiesOf(o[c], b) \in Nat
         /\ IsFiniteSet(CleaningBut(o, c, b)) =>
              /\ Cardinality(CleaningBut(o, c, b)) \in Nat
              /\ Cardinality(CleaningIn(o, b)) =
                   Cardinality(CleaningBut(o, c, b)) + CopiesOf(o[c], b)
<1> DEFINE X == CleaningBut(o, c, b)
           Y == CleaningIn(o, b)
<1>1. IsFiniteSet(X) => Cardinality(X) \in Nat
  BY FS_CardinalityType
<1>2. CASE o[c].at = "cleanByExchange"
  <2> DEFINE list == o[c].list
             A == Positions(list, b)
             Z == {c} \X A
  <2>1. list \in Seq(Binding)
    BY <1>2, OpFields
  <2>2. IsFiniteSet(A) /\ Copies(list, b) \in Nat
    <3> HIDE DEF list
    <3>1. QED BY <2>1, CopiesNat
  <2>3. Y = X \cup Z
    BY <1>2 DEF CleaningIn, CleaningBut
  <2>4. X \cap Z = {}
    BY DEF CleaningBut
  <2>5. IsFiniteSet(Z) /\ Cardinality(Z) = Copies(list, b)
    <3> HIDE DEF list
    <3>1. QED BY <2>2, PairsCard DEF Copies
  <2>6. CopiesOf(o[c], b) = Copies(list, b)
    BY <1>2 DEF CopiesOf
  <2> HIDE DEF X, Y, Z, list
  <2>7. IsFiniteSet(X) => IsFiniteSet(Y) /\ Cardinality(Y) = Cardinality(X) + Cardinality(Z)
    <3> SUFFICES ASSUME IsFiniteSet(X)
                 PROVE  IsFiniteSet(Y) /\ Cardinality(Y) = Cardinality(X) + Cardinality(Z)
      OBVIOUS
    <3>1. /\ IsFiniteSet(X \cup Z)
          /\ Cardinality(X \cup Z) = Cardinality(X) + Cardinality(Z) - Cardinality(X \cap Z)
      BY <2>5, FS_Union
    <3>2. Cardinality(X \cap Z) = 0
      BY <2>4, FS_EmptySet
    <3>3. QED BY <1>1, <2>2, <2>3, <2>5, <3>1, <3>2
  <2>8. IsFiniteSet(Y) => IsFiniteSet(X)
    <3>1. X \subseteq Y
      BY <2>3
    <3>2. QED BY <3>1, FS_Subset
  <2>9. QED BY <1>1, <2>2, <2>5, <2>6, <2>7, <2>8 DEF X, Y
<1>3. CASE o[c].at # "cleanByExchange"
  <2>1. Y = X
    BY <1>3 DEF CleaningIn, CleaningBut
  <2>2. CopiesOf(o[c], b) = 0
    BY <1>3 DEF CopiesOf
  <2> HIDE DEF X, Y
  <2>3. QED BY <1>1, <2>1, <2>2 DEF X, Y
<1>4. QED BY <1>2, <1>3

CoverInv ==
  BindTyped /\ (\A b \in Binding : IsFiniteSet(Cleaning(b))) /\ QueueIndexCovers

LEMMA CleaningIs ==
  ASSUME NEW b
  PROVE  Cleaning(b) = CleaningIn(op, b) /\ Cleaning(b)' = CleaningIn(op', b)
BY DEF Cleaning, CleaningIn

\* What one connection's step does to what is still to clean.
LEMMA HandlerCleaning ==
  ASSUME op \in [Conn -> Op \cup {Idle}], op' \in [Conn -> Op \cup {Idle}], NEW c \in Conn,
         \A k \in Conn \ {c} : op'[k] = op[k], NEW b, IsFiniteSet(Cleaning(b))
  PROVE  /\ IsFiniteSet(Cleaning(b)')
         /\ Cardinality(Cleaning(b)) \in Nat /\ Cardinality(Cleaning(b)') \in Nat
         /\ CopiesOf(op[c], b) \in Nat /\ CopiesOf(op'[c], b) \in Nat
         /\ Cardinality(Cleaning(b)') + CopiesOf(op[c], b)
              = Cardinality(Cleaning(b)) + CopiesOf(op'[c], b)
<1> DEFINE o == op
           n == op'
           X == CleaningBut(o, c, b)
<1>1. o \in [Conn -> Op \cup {Idle}] /\ n \in [Conn -> Op \cup {Idle}]
  OBVIOUS
<1>2. CleaningBut(n, c, b) = X
  BY DEF CleaningBut
<1>3. Cleaning(b) = CleaningIn(o, b) /\ Cleaning(b)' = CleaningIn(n, b)
  BY CleaningIs
<1> HIDE DEF o, n
<1>4. /\ IsFiniteSet(X) /\ Cardinality(X) \in Nat /\ CopiesOf(o[c], b) \in Nat
      /\ Cardinality(CleaningIn(o, b)) = Cardinality(X) + CopiesOf(o[c], b)
  BY <1>1, <1>3, CleaningCard
<1>5. /\ IsFiniteSet(CleaningIn(n, b)) /\ CopiesOf(n[c], b) \in Nat
      /\ Cardinality(CleaningIn(n, b)) = Cardinality(X) + CopiesOf(n[c], b)
  BY <1>1, <1>2, <1>4, CleaningCard
<1> HIDE DEF X
<1>6. QED BY <1>3, <1>4, <1>5 DEF o, n

\* The copies of a binding in the two indexes.
InE(b) == Copies(byExchange[b.exchange], b)
InQ(b) == Copies(byQueue[b.queue], b)

LEMMA InNat ==
  ASSUME BindTyped, NEW b \in Binding
  PROVE  InE(b) \in Nat /\ InQ(b) \in Nat
<1>1. byExchange[b.exchange] \in Seq(Binding) /\ byQueue[b.queue] \in Seq(Binding)
  BY DEF BindTyped, ByExchange, ByQueue, Binding
<1>2. QED BY <1>1, CopiesNat DEF InE, InQ

LEMMA InNatNext ==
  ASSUME BindTyped', NEW b \in Binding
  PROVE  InE(b)' \in Nat /\ InQ(b)' \in Nat
<1>1. byExchange'[b.exchange] \in Seq(Binding) /\ byQueue'[b.queue] \in Seq(Binding)
  BY DEF BindTyped, ByExchange, ByQueue, Binding
<1>2. QED BY <1>1, CopiesNat DEF InE, InQ

\* What a handler's step has to do for the index by queue to go on covering the other.
Balanced(c, b) ==
  \/ InE(b)' = 0
  \/ InE(b)' + CopiesOf(op[c], b) + InQ(b) <= InE(b) + InQ(b)' + CopiesOf(op'[c], b)

LEMMA CoverStep ==
  ASSUME CoverInv, BindTyped', NEW c \in Conn, \A k \in Conn \ {c} : op'[k] = op[k],
         \A b \in Binding : Balanced(c, b)
  PROVE  CoverInv'
<1>1. op \in [Conn -> Op \cup {Idle}] /\ op' \in [Conn -> Op \cup {Idle}] /\ BindTyped
  BY DEF CoverInv, BindTyped
<1>2. ASSUME NEW b \in Binding
      PROVE  IsFiniteSet(Cleaning(b)') /\ InE(b)' <= InQ(b)' + Cardinality(Cleaning(b)')
  <2> DEFINE m == Cardinality(Cleaning(b))
             n == Cardinality(Cleaning(b)')
             u == CopiesOf(op[c], b)
             v == CopiesOf(op'[c], b)
             e == InE(b)
             f == InE(b)'
             q == InQ(b)
             r == InQ(b)'
  <2>1. IsFiniteSet(Cleaning(b)) /\ e <= q + m
    BY DEF CoverInv, QueueIndexCovers, InE, InQ
  <2>2. /\ IsFiniteSet(Cleaning(b)') /\ m \in Nat /\ n \in Nat /\ u \in Nat /\ v \in Nat
        /\ n + u = m + v
    BY <1>1, <2>1, HandlerCleaning
  <2>3. e \in Nat /\ q \in Nat
    BY <1>1, InNat
  <2>4. f \in Nat /\ r \in Nat
    BY InNatNext
  <2>5. f = 0 \/ f + u + q <= e + r + v
    BY DEF Balanced
  <2> HIDE DEF m, n, u, v, e, f, q, r
  <2>6. f <= r + n
    BY <2>1, <2>2, <2>3, <2>4, <2>5
  <2>7. QED BY <2>2, <2>6 DEF f, r, n
<1>3. QED BY <1>2 DEF CoverInv, QueueIndexCovers, InE, InQ

\* Steps that leave both indexes alone and clean nothing.
LEMMA CoverQuiet ==
  ASSUME CoverInv, BindTyped', NEW c \in Conn, \A k \in Conn \ {c} : op'[k] = op[k],
         UNCHANGED <<byExchange, byQueue>>,
         op[c].at # "cleanByExchange", op'[c].at # "cleanByExchange"
  PROVE  CoverInv'
<1>1. ASSUME NEW b \in Binding PROVE Balanced(c, b)
  <2>1. InE(b) \in Nat /\ InQ(b) \in Nat
    BY InNat DEF CoverInv
  <2>2. InE(b)' = InE(b) /\ InQ(b)' = InQ(b)
    BY DEF InE, InQ
  <2>3. CopiesOf(op[c], b) = 0 /\ CopiesOf(op'[c], b) = 0
    BY DEF CopiesOf
  <2>4. QED BY <2>1, <2>2, <2>3 DEF Balanced
<1>2. QED BY <1>1, CoverStep

LEMMA CoverDeclared ==
  ASSUME CoverInv, NEW c \in Conn, DeclStep(c) \/ E2EStep(c)
  PROVE  CoverInv'
<1>1. BindTyped' /\ UNCHANGED byExchange
  BY DeclStepBind, E2EStepBind DEF CoverInv
<1>2. UNCHANGED byQueue
  BY DEF DeclStep, handleQueueDeclare, handleQueueDelete, RouterDeleteQueue, handleExchangeDeclare,
         handleExchangeDelete, RouterDeleteExchange, DeclareQueue, DeleteQueue, DeclareExchange,
         DeleteExchange, memory, E2EStep, handleExchangeBind, handleExchangeUnbind, UnbindE2E, BindE2E
<1>3. op \in [Conn -> Op \cup {Idle}]
  BY DEF CoverInv, BindTyped
<1>4. op[c].at # "cleanByExchange"
  <2>1. op[c] = Idle \/ op[c].at = "unbindE2E" \/ op[c].at = "bind"
    BY DEF DeclStep, handleQueueDeclare, handleQueueDelete, RouterDeleteQueue,
           handleExchangeDeclare, handleExchangeDelete, RouterDeleteExchange, E2EStep,
           handleExchangeBind, handleExchangeUnbind, UnbindE2E, BindE2E
  <2>2. QED BY <2>1 DEF Idle
<1>5. \/ op' = op \/ op' = [op EXCEPT ![c] = Idle]
      \/ \E q \in Queue : op' = [op EXCEPT ![c] = [at |-> "unbindQueue", q |-> q]]
      \/ \E x \in Exchange : op' = [op EXCEPT ![c] = [at |-> "unbindE2E", x |-> x]]
      \/ \E x \in Exchange : op' = [op EXCEPT ![c] = [at |-> "unbindExchange", x |-> x]]
      \/ \E e \in E2EBinding : op' = [op EXCEPT ![c] = [at |-> "bind", e |-> e, seen |-> e2e]]
  BY DEF DeclStep, handleQueueDeclare, handleQueueDelete, RouterDeleteQueue, handleExchangeDeclare,
         handleExchangeDelete, RouterDeleteExchange, E2EStep, handleExchangeBind,
         handleExchangeUnbind, UnbindE2E, BindE2E
<1>6. (\A k \in Conn \ {c} : op'[k] = op[k]) /\ op'[c].at # "cleanByExchange"
  BY <1>3, <1>4, <1>5 DEF Idle
<1>7. QED BY <1>1, <1>2, <1>4, <1>6, CoverQuiet

\* Queue.Bind adds a copy to both indexes.
LEMMA CoverBind ==
  ASSUME CoverInv, NEW c \in Conn, NEW d \in Binding, handleQueueBind(c, d)
  PROVE  CoverInv'
<1>1. BindTyped /\ BindTyped'
  BY QueueBindStep DEF CoverInv
<1>2. /\ byExchange' = [byExchange EXCEPT ![d.exchange] = Append(@, d)]
      /\ byQueue' = [byQueue EXCEPT ![d.queue] = Append(@, d)]
      /\ op' = op /\ op[c] = Idle
  BY DEF handleQueueBind, Bind
<1>3. byExchange \in ByExchange /\ byQueue \in ByQueue
  BY <1>1 DEF BindTyped
<1>4. ASSUME NEW b \in Binding PROVE Balanced(c, b)
  <2> DEFINE s == byExchange[b.exchange]
             t == byQueue[b.queue]
  <2>1. b.exchange \in Exchange /\ b.queue \in Queue /\ s \in Seq(Binding) /\ t \in Seq(Binding)
    BY <1>3 DEF Binding, ByExchange, ByQueue
  <2>2. /\ byExchange'[b.exchange] = IF d.exchange = b.exchange THEN Append(s, d) ELSE s
        /\ byQueue'[b.queue] = IF d.queue = b.queue THEN Append(t, d) ELSE t
    BY <1>2, <1>3, <2>1 DEF ByExchange, ByQueue
  <2>3. InE(b) = Copies(s, b) /\ InQ(b) = Copies(t, b) /\ InE(b) \in Nat /\ InQ(b) \in Nat
    BY <1>1, InNat DEF InE, InQ
  <2> HIDE DEF s, t
  <2>4. /\ Copies(Append(s, d), b) = IF d = b THEN Copies(s, b) + 1 ELSE Copies(s, b)
        /\ Copies(Append(t, d), b) = IF d = b THEN Copies(t, b) + 1 ELSE Copies(t, b)
    BY <2>1, CopiesAppend
  <2>5. /\ InE(b)' = IF d = b THEN InE(b) + 1 ELSE InE(b)
        /\ InQ(b)' = IF d = b THEN InQ(b) + 1 ELSE InQ(b)
    BY <2>2, <2>3, <2>4 DEF InE, InQ
  <2>6. CopiesOf(op[c], b) = 0 /\ CopiesOf(op'[c], b) = 0
    BY <1>2 DEF CopiesOf, Idle
  <2>7. QED BY <2>3, <2>5, <2>6 DEF Balanced
<1>5. QED BY <1>1, <1>2, <1>4, CoverStep

\* Queue.Unbind takes a copy out of the index by exchange, and none out of the other.
LEMMA CoverUnbind ==
  ASSUME CoverInv, Exchange \cap Queue = {}, NEW c \in Conn, NEW d \in Binding,
         handleQueueUnbind(c, d)
  PROVE  CoverInv'
<1>1. BindTyped /\ BindTyped'
  BY QueueUnbindStep DEF CoverInv
<1>2. /\ byExchange' = [byExchange EXCEPT ![d.exchange] = removeFrom(@, d.queue, d.key)]
      /\ byQueue' = [byQueue EXCEPT ![d.queue] = removeFrom(@, d.exchange, d.key)]
      /\ op' = op /\ op[c] = Idle
  BY DEF handleQueueUnbind, Unbind
<1>3. byExchange \in ByExchange /\ Filed(byExchange) /\ byQueue \in ByQueue
  BY <1>1 DEF BindTyped
<1>4. Removed(byExchange, d, byExchange')
  BY <1>2 DEF Removed
<1>5. byQueue' = byQueue
  <2> DEFINE q == d.queue
             s == byQueue[q]
             t == removeFrom(s, d.exchange, d.key)
  <2>1. q \in Queue /\ d.exchange \in Exchange /\ s \in Seq(Binding)
    BY <1>3 DEF Binding, ByQueue
  <2>2. \A j \in 1 .. Len(s) : s[j].queue # d.exchange
    <3>1. \A j \in 1 .. Len(s) : s[j] \in Binding
      BY <2>1, LenProperties, ElementOfSeq
    <3>2. QED BY <2>1, <3>1 DEF Binding
  <2>3. t = s
    <3> HIDE DEF s
    <3>1. QED BY <2>1, <2>2, RemoveFromAt
  <2>4. byQueue' = [byQueue EXCEPT ![q] = t]
    BY <1>2
  <2> HIDE DEF t, q
  <2>5. QED BY <1>3, <2>3, <2>4 DEF ByQueue
<1>6. ASSUME NEW b \in Binding PROVE Balanced(c, b)
  <2>1. InE(b) \in Nat /\ InQ(b) \in Nat
    BY <1>1, InNat
  <2>2. InE(b)' = InE(b) \/ InE(b)' = InE(b) - 1
    <3> DEFINE new == byExchange'
    <3>1. Removed(byExchange, d, new)
      BY <1>4
    <3> HIDE DEF new
    <3>2. \/ Copies(new[b.exchange], b) = Copies(byExchange[b.exchange], b)
          \/ Copies(new[b.exchange], b) = Copies(byExchange[b.exchange], b) - 1
      BY <1>3, <3>1, CopiesRemoved
    <3>3. QED BY <3>2 DEF new, InE
  <2>3. InQ(b)' = InQ(b)
    BY <1>5 DEF InQ
  <2>4. CopiesOf(op[c], b) = 0 /\ CopiesOf(op'[c], b) = 0
    BY <1>2 DEF CopiesOf, Idle
  <2>5. QED BY <2>1, <2>2, <2>3, <2>4 DEF Balanced
<1>7. QED BY <1>1, <1>2, <1>6, CoverStep

\* The cascade of a queue hands its list over to be cleaned, and cleans it.
LEMMA CoverQueueCascade ==
  ASSUME CoverInv, NEW c \in Conn, UnbindAllForQueue(c) \/ CleanByExchange(c)
  PROVE  CoverInv'
<1>1. BindTyped /\ BindTyped'
  BY CascadeStep DEF CoverInv
<1>2. /\ byExchange \in ByExchange /\ Filed(byExchange) /\ byQueue \in ByQueue
      /\ op \in [Conn -> Op \cup {Idle}] /\ op[c] \in Op \cup {Idle}
  BY <1>1 DEF BindTyped
<1>3. CASE UnbindAllForQueue(c)
  <2> DEFINE q == op[c].q
             s == byQueue[q]
             new == [at |-> "cleanByExchange", list |-> s]
  <2>1. /\ op[c].at = "unbindQueue" /\ byQueue' = [byQueue EXCEPT ![q] = <<>>]
        /\ op' = [op EXCEPT ![c] = new] /\ byExchange' = byExchange
    BY <1>3 DEF UnbindAllForQueue
  <2>2. q \in Queue
    BY <1>2, <2>1, OpFields
  <2>3. new.at = "cleanByExchange" /\ new.list = s
    OBVIOUS
  <2> HIDE DEF new
  <2>4. op'[c] = new /\ \A k \in Conn \ {c} : op'[k] = op[k]
    BY <1>2, <2>1
  <2>5. ASSUME NEW b \in Binding PROVE Balanced(c, b)
    <3>1. InE(b) \in Nat /\ InQ(b) \in Nat
      BY <1>1, InNat
    <3>2. InE(b)' = InE(b)
      BY <2>1 DEF InE
    <3>3. CopiesOf(op[c], b) = 0
      BY <2>1 DEF CopiesOf
    <3>4. CopiesOf(op'[c], b) = Copies(s, b)
      BY <2>3, <2>4 DEF CopiesOf
    <3>5. b.queue \in Queue
      BY DEF Binding
    <3>6. byQueue'[b.queue] = IF b.queue = q THEN <<>> ELSE byQueue[b.queue]
      BY <1>2, <2>1, <2>2, <3>5 DEF ByQueue
    <3>7. s \in Seq(Binding)
      BY <1>2, <2>2 DEF ByQueue
    <3>8. Copies(s, b) \in Nat
      <4> HIDE DEF s
      <4>1. QED BY <3>7, CopiesNat
    <3>9. CASE b.queue = q
      <4>1. InQ(b)' = 0 /\ InQ(b) = Copies(s, b)
        BY <3>6, <3>9, CopiesEmpty DEF InQ
      <4> HIDE DEF s
      <4>2. QED BY <3>1, <3>2, <3>3, <3>4, <4>1 DEF Balanced
    <3>10. CASE b.queue # q
      <4>1. InQ(b)' = InQ(b)
        BY <3>6, <3>10 DEF InQ
      <4> HIDE DEF s
      <4>2. QED BY <3>1, <3>2, <3>3, <3>4, <3>8, <4>1 DEF Balanced
    <3>11. QED BY <3>9, <3>10
  <2>6. QED BY <1>1, <2>4, <2>5, CoverStep
<1>4. CASE CleanByExchange(c)
  <2> DEFINE list == op[c].list
  <2>1. /\ op[c].at = "cleanByExchange" /\ byExchange' = WithoutByExchange(list)
        /\ op' = [op EXCEPT ![c] = Idle] /\ byQueue' = byQueue
    BY <1>4 DEF CleanByExchange
  <2>2. list \in Seq(Binding)
    BY <1>2, <2>1, OpFields
  <2>3. op'[c] = Idle /\ \A k \in Conn \ {c} : op'[k] = op[k]
    BY <1>2, <2>1
  <2>4. ASSUME NEW b \in Binding PROVE Balanced(c, b)
    <3>1. InE(b) \in Nat /\ InQ(b) \in Nat /\ InE(b)' \in Nat
      BY <1>1, InNat, InNatNext
    <3>2. InQ(b)' = InQ(b)
      BY <2>1 DEF InQ
    <3>3. CopiesOf(op[c], b) = Copies(list, b) /\ CopiesOf(op'[c], b) = 0
      BY <2>1, <2>3 DEF CopiesOf, Idle
    <3> HIDE DEF list
    <3>4. Copies(list, b) \in Nat
      BY <2>2, CopiesNat
    <3>5. InE(b)' = 0 \/ InE(b)' + Copies(list, b) <= InE(b)
      BY <1>2, <2>1, <2>2, CopiesCleaned DEF InE
    <3>6. QED BY <3>1, <3>2, <3>3, <3>4, <3>5 DEF Balanced
  <2>5. QED BY <1>1, <2>3, <2>4, CoverStep
<1>5. QED BY <1>3, <1>4

\* The cascade of an exchange empties its list; the index by queue keeps the bindings.
LEMMA CoverExchangeCascade ==
  ASSUME CoverInv, Exchange \cap Queue = {}, NEW c \in Conn,
         UnbindAllForExchange(c) \/ CleanByQueue(c)
  PROVE  CoverInv'
<1>1. BindTyped /\ BindTyped'
  BY CascadeStep DEF CoverInv
<1>2. /\ byExchange \in ByExchange /\ byQueue \in ByQueue
      /\ op \in [Conn -> Op \cup {Idle}] /\ op[c] \in Op \cup {Idle}
  BY <1>1 DEF BindTyped
<1>3. CASE UnbindAllForExchange(c)
  <2> DEFINE x == op[c].x
             new == [at |-> "cleanByQueue", list |-> byExchange[x]]
  <2>1. /\ op[c].at = "unbindExchange" /\ byExchange' = [byExchange EXCEPT ![x] = <<>>]
        /\ op' = [op EXCEPT ![c] = new] /\ byQueue' = byQueue
    BY <1>3 DEF UnbindAllForExchange
  <2>2. new.at = "cleanByQueue"
    OBVIOUS
  <2> HIDE DEF new, x
  <2>3. op'[c] = new /\ \A k \in Conn \ {c} : op'[k] = op[k]
    BY <1>2, <2>1
  <2>4. ASSUME NEW b \in Binding PROVE Balanced(c, b)
    <3>1. InE(b) \in Nat /\ InQ(b) \in Nat
      BY <1>1, InNat
    <3>2. InQ(b)' = InQ(b)
      BY <2>1 DEF InQ
    <3>3. CopiesOf(op[c], b) = 0 /\ CopiesOf(op'[c], b) = 0
      BY <2>1, <2>2, <2>3 DEF CopiesOf
    <3>4. b.exchange \in Exchange
      BY DEF Binding
    <3>5. byExchange'[b.exchange] = <<>> \/ byExchange'[b.exchange] = byExchange[b.exchange]
      BY <1>2, <2>1, <3>4 DEF ByExchange
    <3>6. InE(b)' = 0 \/ InE(b)' = InE(b)
      BY <3>5, CopiesEmpty DEF InE
    <3>7. QED BY <3>1, <3>2, <3>3, <3>6 DEF Balanced
  <2>5. QED BY <1>1, <2>3, <2>4, CoverStep
<1>4. CASE CleanByQueue(c)
  <2> DEFINE list == op[c].list
  <2>1. /\ op[c].at = "cleanByQueue" /\ byQueue' = WithoutByQueue(list)
        /\ op' = [op EXCEPT ![c] = Idle] /\ byExchange' = byExchange
    BY <1>4 DEF CleanByQueue
  <2>2. list \in Seq(Binding)
    BY <1>2, <2>1, OpFields
  <2>3. op'[c] = Idle /\ \A k \in Conn \ {c} : op'[k] = op[k]
    BY <1>2, <2>1
  <2>4. byQueue' = byQueue
    <3> HIDE DEF list
    <3>1. QED BY <1>2, <2>1, <2>2, WithoutListByQueue
  <2>5. op[c].at # "cleanByExchange" /\ op'[c].at # "cleanByExchange"
    BY <2>1, <2>3 DEF Idle
  <2>6. QED BY <1>1, <2>1, <2>3, <2>4, <2>5, CoverQuiet
<1>5. QED BY <1>3, <1>4

\* No handler is at work: there is nothing to clean.
LEMMA NothingToClean ==
  ASSUME NEW o, \A k \in Conn : o[k] = Idle, NEW b
  PROVE  CleaningIn(o, b) = {}
BY DEF CleaningIn, Idle

\* A crash and a restart.  The restart finds no handler at work.
Stopped == ~up => \A k \in Conn : op[k] = Idle

LEMMA CoverRestart ==
  ASSUME CoverInv, Stopped, Crash \/ RestoreFromStore
  PROVE  CoverInv' /\ Stopped'
<1>1. BindTyped /\ BindTyped'
  BY CrashBind, RestoreBind DEF CoverInv
<1>2. \A k \in Conn : op'[k] = Idle
  BY DEF Crash, RestoreFromStore, Stopped
<1>3. ASSUME NEW b \in Binding
      PROVE  IsFiniteSet(Cleaning(b)') /\ Cardinality(Cleaning(b)') = 0
  <2> DEFINE o == op'
  <2>1. \A k \in Conn : o[k] = Idle
    BY <1>2
  <2>2. Cleaning(b)' = CleaningIn(o, b)
    BY CleaningIs
  <2> HIDE DEF o
  <2>3. Cleaning(b)' = {}
    BY <2>1, <2>2, NothingToClean
  <2>4. QED BY <2>3, FS_EmptySet
<1>4. ASSUME NEW b \in Binding PROVE InE(b)' = InQ(b)'
  <2>1. b.exchange \in Exchange /\ b.queue \in Queue
    BY DEF Binding
  <2>2. CASE Crash
    <3>1. byExchange'[b.exchange] = <<>> /\ byQueue'[b.queue] = <<>>
      BY <2>1, <2>2 DEF Crash, NoBindings
    <3>2. QED BY <3>1 DEF InE, InQ
  <2>3. CASE RestoreFromStore
    <3>1. PICK list \in SetToSeqs(savedBindings) :
            byExchange' = BoundAll(list).byExchange /\ byQueue' = BoundAll(list).byQueue
      BY <2>3 DEF RestoreFromStore
    <3>2. list \in Seq(Binding)
      <4> DEFINE A == savedBindings
      <4>1. A \in SUBSET Binding /\ IsFiniteSet(A) /\ list \in SetToSeqs(A)
        BY <1>1 DEF BindTyped
      <4> HIDE DEF A
      <4>2. QED BY <4>1, ListedWhole
    <3>3. QED BY <3>1, <3>2, CopiesBound DEF InE, InQ
  <2>4. QED BY <2>2, <2>3
<1>5. ASSUME NEW b \in Binding PROVE InE(b)' <= InQ(b)' + Cardinality(Cleaning(b)')
  <2>1. InE(b)' \in Nat /\ InQ(b)' \in Nat
    BY <1>1, InNatNext
  <2>2. QED BY <1>3, <1>4, <2>1
<1>6. CoverInv'
  BY <1>1, <1>3, <1>5 DEF CoverInv, QueueIndexCovers, InE, InQ
<1>7. QED BY <1>2, <1>6 DEF Stopped

LEMMA CoverInit == Init => CoverInv /\ Stopped
<1> SUFFICES ASSUME Init PROVE CoverInv /\ Stopped
  OBVIOUS
<1>1. BindTyped
  BY InitBind
<1>2. \A k \in Conn : op[k] = Idle
  BY DEF Init
<1>3. ASSUME NEW b \in Binding
      PROVE  IsFiniteSet(Cleaning(b)) /\ InE(b) <= InQ(b) + Cardinality(Cleaning(b))
  <2>1. Cleaning(b) = {}
    BY <1>2, CleaningIs, NothingToClean
  <2>2. IsFiniteSet(Cleaning(b)) /\ Cardinality(Cleaning(b)) = 0
    BY <2>1, FS_EmptySet
  <2>3. byExchange[b.exchange] = <<>>
    BY DEF Init, NoBindings, Binding
  <2>4. InE(b) = 0
    BY <2>3, CopiesEmpty DEF InE
  <2>5. InQ(b) \in Nat
    BY <1>1, InNat
  <2>6. QED BY <2>2, <2>4, <2>5
<1>4. QED BY <1>1, <1>2, <1>3 DEF CoverInv, QueueIndexCovers, InE, InQ, Stopped

\* The index by queue covers the index by exchange, copy for copy, so that UnbindAllForQueue
\* misses no binding that routes to the queue: with any handlers in the middle of their
\* cascades, across crashes and restarts, where no queue has the name of an exchange.
THEOREM CoversTheorem == ASSUME Exchange \cap Queue = {} PROVE Spec => []QueueIndexCovers
<1>1. CoverInv /\ Stopped /\ [Next]_vars => (CoverInv /\ Stopped)'
  <2> SUFFICES ASSUME CoverInv, Stopped, [Next]_vars PROVE CoverInv' /\ Stopped'
    OBVIOUS
  <2>1. ASSUME NEW c \in Conn, Handler(c) PROVE CoverInv' /\ Stopped'
    <3>1. CASE DeclStep(c) \/ E2EStep(c)
      BY <2>1, <3>1, CoverDeclared, HandlerUp DEF Stopped
    <3>2. CASE \E b \in Binding : handleQueueBind(c, b) \/ handleQueueUnbind(c, b)
      BY <2>1, <3>2, CoverBind, CoverUnbind, HandlerUp DEF Stopped
    <3>3. CASE \/ UnbindAllForQueue(c) \/ CleanByExchange(c)
               \/ UnbindAllForExchange(c) \/ CleanByQueue(c)
      BY <2>1, <3>3, CoverQueueCascade, CoverExchangeCascade, HandlerUp DEF Stopped
    <3>4. QED BY <2>1, <3>1, <3>2, <3>3 DEF Handler, DeclStep, E2EStep
  <2>2. CASE UNCHANGED vars
    <3>1. UNCHANGED <<up, byExchange, byQueue, savedBindings, cascaded, op, failures, e2e>>
      BY <2>2 DEF vars, memory, saved
    <3>2. BindTyped'
      BY <3>1 DEF CoverInv, BindTyped
    <3>3. \A b \in Binding : Cleaning(b)' = Cleaning(b)
      BY <3>1 DEF Cleaning
    <3>4. QED BY <3>1, <3>2, <3>3 DEF CoverInv, QueueIndexCovers, Stopped
  <2>3. QED BY <2>1, <2>2, CoverRestart DEF Next
<1>2. CoverInv => QueueIndexCovers
  BY DEF CoverInv
<1>3. QED BY <1>1, <1>2, CoverInit, PTL DEF Spec

----------------------------------------------------------------------------
(* Snapshots on disk                                                       *)

At == {"idle", "queues", "bindings", "write", "writing", "retain"}
IsSnap(s) == s \in [at : At, data : {s.data}, stable : {s.stable}, seen : {s.seen}]
IsFile(f) == f \in [complete : BOOLEAN, data : {f.data}]
IsFiles(s) == s \in Seq({s[i] : i \in 1 .. Len(s)}) /\ \A i \in 1 .. Len(s) : IsFile(s[i])

\* What SnapshotKept needs: the file Create is writing is the newest, and retain, which
\* has a limit and keeps the newest files, runs only when the newest is complete.
KeptInv ==
  /\ IsSnap(snap)
  /\ IsFiles(files)
  /\ snap.at \in {"writing", "retain"} => files # <<>>
  /\ snap.at = "retain" => files[Len(files)].complete /\ RetainCount > 0
  /\ written => \E i \in 1 .. Len(files) : files[i].complete

\* A sequence is one over the set of its elements.
LEMMA SeqOfElements ==
  ASSUME NEW S, NEW s \in Seq(S)
  PROVE  s \in Seq({s[i] : i \in 1 .. Len(s)})
<1>1. Len(s) \in Nat /\ s \in [1 .. Len(s) -> S]
  BY LenProperties
<1>2. s \in [1 .. Len(s) -> {s[i] : i \in 1 .. Len(s)}]
  BY <1>1
<1> QED
  BY <1>1, <1>2, SeqDef

\* The file a write begins becomes the last one.
LEMMA AppendFile ==
  ASSUME NEW s, IsFiles(s), NEW f, IsFile(f)
  PROVE  /\ IsFiles(Append(s, f)) /\ Append(s, f) # <<>>
         /\ Len(s) \in Nat /\ Len(Append(s, f)) = Len(s) + 1
         /\ \A i \in 1 .. Len(s) : Append(s, f)[i] = s[i]
         /\ Append(s, f)[Len(s) + 1] = f
<1> DEFINE S == {s[i] : i \in 1 .. Len(s)}
           T == S \cup {f}
           t == Append(s, f)
<1>1. s \in Seq(S) /\ S \subseteq T /\ f \in T
  BY DEF IsFiles
<1>2. s \in [1 .. Len(s) -> S] /\ Len(s) \in Nat
  BY <1>1, LenProperties
<1>3. s \in Seq(T)
  <2>1. s \in [1 .. Len(s) -> T]
    BY <1>1, <1>2
  <2> QED
    BY <1>2, <2>1, SeqDef
<1> HIDE DEF S, T
<1>4. /\ t \in Seq(T) /\ t # <<>> /\ Len(t) = Len(s) + 1
      /\ \A i \in 1 .. Len(s) : t[i] = s[i]
      /\ t[Len(s) + 1] = f
  BY <1>1, <1>3, AppendProperties
<1> HIDE DEF t
<1>5. t \in Seq({t[i] : i \in 1 .. Len(t)})
  BY <1>4, SeqOfElements
<1>6. \A i \in 1 .. Len(t) : IsFile(t[i])
  BY <1>2, <1>4 DEF IsFiles
<1>7. IsFiles(t)
  BY <1>5, <1>6 DEF IsFiles
<1> QED
  BY <1>2, <1>4, <1>7 DEF t

LEMMA SnapRecord ==
  ASSUME NEW p \in At, NEW d, NEW a, NEW b
  PROVE  LET s == [at |-> p, data |-> d, stable |-> a, seen |-> b] IN IsSnap(s) /\ s.at = p
BY DEF IsSnap

LEMMA NoSnapIdle == IsSnap(NoSnap) /\ NoSnap.at = "idle"
BY SnapRecord DEF NoSnap, At

LEMMA InitInv == SInit => KeptInv
<1> SUFFICES ASSUME SInit PROVE KeptInv
  OBVIOUS
<1>1. files = <<>> /\ snap = NoSnap /\ written = FALSE
  BY DEF SInit
<1>2. IsFiles(<<>>)
  BY EmptySeq DEF IsFiles
<1> QED
  BY <1>1, <1>2, NoSnapIdle DEF KeptInv

\* The last file is completed, the others stay.
LEMMA CompleteLast ==
  ASSUME NEW s, IsFiles(s), s # <<>>
  PROVE  LET t == [s EXCEPT ![Len(s)].complete = TRUE] IN
         /\ IsFiles(t) /\ t # <<>> /\ Len(t) = Len(s)
         /\ Len(s) \in Nat \ {0} /\ t[Len(t)].complete
         /\ \A i \in 1 .. Len(s) : t[i].data = s[i].data
<1> DEFINE S == {s[i] : i \in 1 .. Len(s)}
           f == [s[Len(s)] EXCEPT !.complete = TRUE]
           T == S \cup {f}
           t == [s EXCEPT ![Len(s)].complete = TRUE]
<1>1. s \in Seq(S) /\ S \subseteq T /\ f \in T
  BY DEF IsFiles
<1>2. s \in [1 .. Len(s) -> S] /\ Len(s) \in Nat /\ Len(s) # 0
  BY <1>1, LenProperties, EmptySeq
<1>3. Len(s) \in 1 .. Len(s)
  BY <1>2
<1>4. IsFile(s[Len(s)])
  BY <1>3 DEF IsFiles
<1>5. IsFile(f) /\ f.complete = TRUE /\ f.data = s[Len(s)].data
  <2> DEFINE r == s[Len(s)]
             R == [complete : BOOLEAN, data : {r.data}]
  <2>1. r \in R
    BY <1>4 DEF IsFile
  <2> HIDE DEF r
  <2>2. f \in R /\ f.complete = TRUE /\ f.data = r.data
    BY <2>1 DEF r
  <2> QED
    BY <2>2 DEF IsFile, r
<1>6. /\ t \in [1 .. Len(s) -> T]
      /\ t[Len(s)] = f
      /\ \A i \in 1 .. Len(s) : i # Len(s) => t[i] = s[i]
  <2> HIDE DEF T
  <2>1. s \in [1 .. Len(s) -> T]
    BY <1>1, <1>2
  <2>2. t = [s EXCEPT ![Len(s)] = f]
    OBVIOUS
  <2> HIDE DEF f, S
  <2> QED
    BY <1>1, <1>3, <2>1, <2>2
<1>7. t \in Seq(T) /\ Len(t) = Len(s)
  <2> HIDE DEF t, T
  <2>1. t \in Seq(T)
    BY <1>2, <1>6, SeqDef
  <2> QED
    BY <1>2, <1>6, <2>1, LenProperties
<1> HIDE DEF t, T
<1>8. t \in Seq({t[i] : i \in 1 .. Len(t)})
  BY <1>7, SeqOfElements
<1>9. \A i \in 1 .. Len(t) : IsFile(t[i])
  <2> SUFFICES ASSUME NEW i \in 1 .. Len(t) PROVE IsFile(t[i])
    OBVIOUS
  <2>1. CASE i = Len(s)
    BY <1>5, <1>6, <2>1
  <2>2. CASE i # Len(s)
    BY <1>6, <1>7, <2>2 DEF IsFiles
  <2> QED
    BY <2>1, <2>2
<1>10. IsFiles(t)
  BY <1>8, <1>9 DEF IsFiles
<1>11. t # <<>>
  BY <1>2, <1>7, EmptySeq
<1>12. t[Len(t)].complete /\ \A i \in 1 .. Len(s) : t[i].data = s[i].data
  BY <1>5, <1>6, <1>7
<1> QED
  BY <1>2, <1>7, <1>10, <1>11, <1>12 DEF t

\* A removal of another file keeps the newest.
LEMMA NewestStays ==
  ASSUME NEW s, IsFiles(s), NEW p \in 1 .. Len(s) - 1
  PROVE  LET t == RemoveAt(s, p) IN
         /\ IsFiles(t) /\ Len(t) \in Nat \ {0} /\ t[Len(t)] = s[Len(s)]
         /\ \A i \in 1 .. Len(t) : \E j \in 1 .. Len(s) : t[i] = s[j]
<1> DEFINE S == {s[i] : i \in 1 .. Len(s)}
           t == RemoveAt(s, p)
<1>1. s \in Seq(S)
  BY DEF IsFiles
<1> HIDE DEF S
<1>2. Len(s) \in Nat /\ p \in 1 .. Len(s)
  BY <1>1, LenProperties
<1>3. /\ t \in Seq(S) /\ Len(t) = Len(s) - 1
      /\ \A i \in 1 .. Len(s) - 1 : t[i] = IF i < p THEN s[i] ELSE s[i + 1]
  <2>1. /\ t \in Seq(S) /\ DOMAIN t = 1 .. Len(s) - 1
        /\ \A i \in 1 .. Len(s) - 1 : t[i] = IF i < p THEN s[i] ELSE s[i + 1]
    BY <1>1, <1>2, RemoveAtProperties
  <2>2. Len(t) \in Nat /\ DOMAIN t = 1 .. Len(t)
    BY <2>1, LenProperties
  <2> DEFINE m == Len(t)
             n == Len(s) - 1
  <2>3. m \in Nat /\ n \in Nat /\ \A i \in Nat : i \in 1 .. m <=> i \in 1 .. n
    BY <1>2, <2>1, <2>2
  <2>4. m = n
    <3> HIDE DEF m, n
    <3>1. m <= n
      BY <2>3
    <3>2. n <= m
      BY <2>3
    <3>3. QED
      BY <2>3, <3>1, <3>2
  <2>5. QED
    BY <2>1, <2>4
<1> HIDE DEF t
<1>4. t \in Seq({t[i] : i \in 1 .. Len(t)})
  BY <1>3, SeqOfElements
<1>5. \A i \in 1 .. Len(t) : \E j \in 1 .. Len(s) : t[i] = s[j]
  BY <1>2, <1>3
<1>6. Len(t) \in Nat \ {0} /\ t[Len(t)] = s[Len(s)]
  BY <1>2, <1>3
<1>7. \A i \in 1 .. Len(t) : IsFile(t[i])
  BY <1>5 DEF IsFiles
<1> QED
  BY <1>4, <1>5, <1>6, <1>7 DEF IsFiles, t

\* A step that leaves the directory alone, and Create where it cannot touch it.
LEMMA QuietStep ==
  ASSUME KeptInv, files' = files, written' = written, IsSnap(snap'),
         snap'.at = snap.at \/ snap'.at \notin {"writing", "retain"}
  PROVE  KeptInv'
<1>1. IsFiles(files')
  BY DEF KeptInv
<1>2. snap'.at \in {"writing", "retain"} => snap'.at = snap.at
  OBVIOUS
<1> QED
  BY <1>1, <1>2 DEF KeptInv

\* Create moves on to p with what it has captured.
LEMMA SnapMoves ==
  ASSUME NEW s, IsSnap(s), NEW p \in At, NEW d
  PROVE  LET t == [s EXCEPT !.at = p, !.data = d] IN IsSnap(t) /\ t.at = p
<1> DEFINE t == [s EXCEPT !.at = p, !.data = d]
<1>1. s \in [at : At, data : {s.data}, stable : {s.stable}, seen : {s.seen}]
  BY DEF IsSnap
<1>2. /\ t \in [at : At, data : {d}, stable : {s.stable}, seen : {s.seen}]
      /\ t.at = p
  BY <1>1
<1> HIDE DEF t
<1>3. IsSnap(t)
  BY <1>2 DEF IsSnap
<1> QED
  BY <1>2, <1>3 DEF t

\* Up to the write, capture touches nothing but what it holds in memory.
LEMMA CaptureInv ==
  ASSUME KeptInv, CaptureExchanges \/ CaptureQueues \/ CaptureBindings
  PROVE  KeptInv'
<1>1. CASE CaptureExchanges
  <2>1. IsSnap(snap') /\ snap'.at = "queues"
    BY <1>1, SnapRecord DEF CaptureExchanges, At
  <2> QED
    BY <1>1, <2>1, QuietStep DEF CaptureExchanges
<1>2. CASE CaptureQueues
  <2>1. IsSnap(snap') /\ snap'.at = "bindings"
    <3> DEFINE d == [snap.data EXCEPT !.queues = queues]
    <3>1. snap' = [snap EXCEPT !.at = "bindings", !.data = d]
      BY <1>2 DEF CaptureQueues
    <3> HIDE DEF d
    <3>2. IsSnap(snap) /\ "bindings" \in At
      BY DEF KeptInv, At
    <3> QED
      BY <3>1, <3>2, SnapMoves
  <2> QED
    BY <1>2, <2>1, QuietStep DEF CaptureQueues
<1>3. CASE CaptureBindings
  <2>1. PICK list \in ListAll : snap' = [snap EXCEPT !.at = "write", !.data.bindings = list]
    BY <1>3 DEF CaptureBindings
  <2>2. IsSnap(snap') /\ snap'.at = "write"
    <3> DEFINE d == [snap.data EXCEPT !.bindings = list]
    <3>1. snap' = [snap EXCEPT !.at = "write", !.data = d]
      BY <2>1
    <3> HIDE DEF d
    <3>2. IsSnap(snap) /\ "write" \in At
      BY DEF KeptInv, At
    <3> QED
      BY <3>1, <3>2, SnapMoves
  <2> QED
    BY <1>3, <2>2, QuietStep DEF CaptureBindings
<1> QED
  BY <1>1, <1>2, <1>3

LEMMA WriteBeginsInv ==
  ASSUME KeptInv, WriteBegins
  PROVE  KeptInv'
<1> DEFINE f == [complete |-> FALSE, data |-> snap.data]
<1>1. IsFile(f)
  BY DEF IsFile
<1>2. files' = Append(files, f) /\ written' = written
  BY DEF WriteBegins
<1>3. IsSnap(snap') /\ snap'.at = "writing"
  BY SnapRecord DEF WriteBegins, NoSnap, At
<1> HIDE DEF f
<1>4. /\ IsFiles(files') /\ files' # <<>>
      /\ Len(files) \in Nat /\ Len(files') = Len(files) + 1
      /\ \A i \in 1 .. Len(files) : files'[i] = files[i]
  BY <1>1, <1>2, AppendFile DEF KeptInv
<1>5. written' => \E i \in 1 .. Len(files') : files'[i].complete
  <2> SUFFICES ASSUME written' PROVE \E i \in 1 .. Len(files') : files'[i].complete
    OBVIOUS
  <2>1. PICK i \in 1 .. Len(files) : files[i].complete
    BY <1>2 DEF KeptInv
  <2>2. i \in 1 .. Len(files') /\ files'[i].complete
    BY <1>4, <2>1
  <2> QED
    BY <2>2
<1> QED
  BY <1>3, <1>4, <1>5 DEF KeptInv

LEMMA WriteEndsInv ==
  ASSUME KeptInv, WriteEnds
  PROVE  KeptInv'
<1>1. IsFiles(files) /\ files # <<>>
  BY DEF KeptInv, WriteEnds
<1>2. files' = [files EXCEPT ![Len(files)].complete = TRUE]
  BY DEF WriteEnds
<1>3. /\ IsFiles(files') /\ files' # <<>> /\ Len(files') = Len(files)
      /\ Len(files) \in Nat \ {0} /\ files'[Len(files')].complete
  BY <1>1, <1>2, CompleteLast
<1>4. /\ IsSnap(snap') /\ snap'.at \in {"retain", "idle"}
      /\ snap'.at = "retain" => RetainCount > 0
  <2>1. CASE RetainCount > 0
    BY <2>1, SnapRecord DEF WriteEnds, NoSnap, At
  <2>2. CASE ~ (RetainCount > 0)
    BY <2>2, SnapRecord DEF WriteEnds, NoSnap, At
  <2> QED
    BY <2>1, <2>2
<1>5. \E i \in 1 .. Len(files') : files'[i].complete
  <2>1. Len(files') \in 1 .. Len(files')
    BY <1>3
  <2> QED
    BY <1>3, <2>1
<1> QED
  BY <1>3, <1>4, <1>5 DEF KeptInv

LEMMA RetainInv ==
  ASSUME KeptInv, Retain
  PROVE  KeptInv'
<1>1. /\ IsFiles(files) /\ files # <<>> /\ files[Len(files)].complete /\ snap.at = "retain"
      /\ RetainCount \in Nat /\ RetainCount > 0 /\ Len(files) \in Nat /\ IsSnap(snap)
  BY SnapshotAssumption, LenProperties DEF KeptInv, Retain, IsFiles
<1>2. CASE snap' = NoSnap /\ UNCHANGED files
  BY <1>2, NoSnapIdle, QuietStep DEF Retain
<1>3. ASSUME NEW i \in 1 .. Len(files) - RetainCount, files' = RemoveAt(files, i), snap' = snap
      PROVE  KeptInv'
  <2>1. i \in 1 .. Len(files) - 1
    BY <1>1
  <2>2. /\ IsFiles(files') /\ Len(files') \in Nat \ {0}
        /\ files'[Len(files')] = files[Len(files)]
    BY <1>1, <1>3, <2>1, NewestStays
  <2>3. files' # <<>> /\ Len(files') \in 1 .. Len(files') /\ files'[Len(files')].complete
    BY <1>1, <2>2, EmptySeq
  <2> QED
    BY <1>1, <1>3, <2>2, <2>3 DEF KeptInv
<1> QED
  BY <1>2, <1>3 DEF Retain

\* Handlers, failed writes, crashes and starts leave the directory as it is.
LEMMA OtherInv ==
  ASSUME KeptInv,
         \/ \E c \in Conn : Handle(c)
         \/ WriteFails \/ SCrash \/ Start
         \/ \E i \in DOMAIN files : RestoreFromSnapshot(files[i])
         \/ UNCHANGED allVars
  PROVE  KeptInv'
<1>1. CASE \E c \in Conn : Handle(c)
  <2>1. PICK c \in Conn : Handle(c)
    BY <1>1
  <2>2. files' = files /\ written' = written
    BY <2>1 DEF Handle
  <2>3. IsSnap(snap') /\ snap'.at = snap.at
    <3>1. CASE snap.at \in {"queues", "bindings"}
      <4> DEFINE now == Facts(exchanges', queues', Live')
      <4>1. snap' = [snap EXCEPT !.stable = @ \cap now, !.seen = @ \cup now]
        BY <2>1, <3>1 DEF Handle
      <4> HIDE DEF now
      <4> QED
        BY <4>1 DEF KeptInv, IsSnap
    <3>2. CASE snap.at \notin {"queues", "bindings"}
      BY <2>1, <3>2 DEF Handle, KeptInv
    <3> QED
      BY <3>1, <3>2
  <2> QED
    BY <2>2, <2>3, QuietStep
<1>2. CASE WriteFails \/ SCrash
  BY <1>2, NoSnapIdle, QuietStep DEF WriteFails, SCrash
<1>3. CASE Start \/ UNCHANGED allVars
  <2>1. files' = files /\ written' = written /\ snap' = snap
    BY <1>3 DEF Start, allVars, snapVars
  <2> QED
    BY <2>1, QuietStep DEF KeptInv
<1>4. CASE \E i \in DOMAIN files : RestoreFromSnapshot(files[i])
  <2>1. files' = files /\ written' = written /\ snap' = snap
    BY <1>4 DEF RestoreFromSnapshot, snapVars
  <2> QED
    BY <2>1, QuietStep DEF KeptInv
<1> QED
  BY <1>1, <1>2, <1>3, <1>4

LEMMA InvStep == KeptInv /\ [SNext]_allVars => KeptInv'
<1> SUFFICES ASSUME KeptInv, [SNext]_allVars PROVE KeptInv'
  OBVIOUS
<1>1. CASE Create
  BY <1>1, CaptureInv, WriteBeginsInv, WriteEndsInv, RetainInv, OtherInv DEF Create
<1>2. CASE SNext /\ ~ Create
  BY <1>2, OtherInv DEF SNext
<1>3. CASE UNCHANGED allVars
  BY <1>3, OtherInv
<1> QED
  BY <1>1, <1>2, <1>3

LEMMA InvKept == KeptInv => SnapshotKept
<1> SUFFICES ASSUME KeptInv PROVE SnapshotKept
  OBVIOUS
<1>1. DOMAIN files = 1 .. Len(files)
  BY LenProperties DEF KeptInv, IsFiles
<1> QED
  BY <1>1 DEF KeptInv, SnapshotKept

\* A complete snapshot stays on disk once there was one (Create, retain and a crash at
\* any moment of them): retention only follows a write that succeeded, and keeps the
\* file that write completed.
THEOREM KeptTheorem == SSpec => []SnapshotKept
<1>1. SInit => KeptInv
  BY InitInv
<1>2. KeptInv /\ [SNext]_allVars => KeptInv'
  BY InvStep
<1>3. KeptInv => SnapshotKept
  BY InvKept
<1> QED
  BY <1>1, <1>2, <1>3, PTL DEF SSpec

----------------------------------------------------------------------------
(* What capture lists                                                      *)

ExchangeFacts(exs) == {<<"exchange", x, exs[x]>> : x \in {y \in Exchange : exs[y] # Nil}}
QueueFacts(qs) == {<<"queue", q, qs[q]>> : q \in {r \in Queue : qs[r] # Nil}}
BindingFacts(bs) == {<<"binding", b>> : b \in bs}
Kinds == {"exchange", "queue", "binding"}

\* A list of the facts of one kind holds what was there all along and nothing that
\* never was.
Between(kind, facts, s) ==
  facts \subseteq s.seen /\ \A f \in s.stable : f[1] = kind => f \in facts

IsData(d) == d = [exchanges |-> d.exchanges, queues |-> d.queues, bindings |-> d.bindings]

\* While capture goes on, the histories enclose what is there now; each list it has
\* taken lies between them.
Captured(s, now) ==
  /\ s.at \in {"queues", "bindings"} => s.stable \subseteq now /\ now \subseteq s.seen
  /\ s.at \in {"queues", "bindings", "write"} =>
       /\ IsData(s.data) /\ \A f \in s.stable : f[1] \in Kinds
       /\ Between("exchange", ExchangeFacts(s.data.exchanges), s)
  /\ s.at \in {"bindings", "write"} => Between("queue", QueueFacts(s.data.queues), s)
  /\ s.at = "write" => Between("binding", BindingFacts(ToSet(s.data.bindings)), s)

SoundInv ==
  /\ BindTyped /\ KeptInv
  /\ ~up => snap.at = "idle"
  /\ \A i \in 1 .. Len(files) : files[i].data.bindings \in Seq(Binding)
  /\ snap.at = "write" => snap.data.bindings \in Seq(Binding)
  /\ Captured(snap, Facts(exchanges, queues, Live))

LEMMA FactsParts ==
  ASSUME NEW e, NEW q, NEW b
  PROVE  Facts(e, q, b) = ExchangeFacts(e) \cup QueueFacts(q) \cup BindingFacts(b)
BY DEF Facts, ExchangeFacts, QueueFacts, BindingFacts

LEMMA FactKinds ==
  ASSUME NEW e, NEW q, NEW b
  PROVE  \A f \in Facts(e, q, b) :
           /\ f[1] \in Kinds
           /\ f[1] = "exchange" => f \in ExchangeFacts(e)
           /\ f[1] = "queue" => f \in QueueFacts(q)
           /\ f[1] = "binding" => f \in BindingFacts(b)
<1>1. \A f \in ExchangeFacts(e) : f[1] = "exchange"
  BY DEF ExchangeFacts
<1>2. \A f \in QueueFacts(q) : f[1] = "queue"
  BY DEF QueueFacts
<1>3. \A f \in BindingFacts(b) : f[1] = "binding"
  BY DEF BindingFacts
<1>4. "exchange" # "queue" /\ "exchange" # "binding" /\ "queue" # "binding"
  OBVIOUS
<1>5. QED BY <1>1, <1>2, <1>3, <1>4, FactsParts DEF Kinds

\* ListAll lists the bindings that route.
LEMMA ListedLive ==
  ASSUME BindTyped, IsFiniteSet(Exchange), NEW list \in ListAll
  PROVE  list \in Seq(Binding) /\ ToSet(list) = Live
<1>1. byExchange \in [Exchange -> Seq(Binding)] /\ Filed(byExchange)
  BY DEF BindTyped, ByExchange
<1>2. DOMAIN byExchange = Exchange
  BY <1>1
<1>3. PICK order \in SetToSeqs(Exchange) :
        list = FlattenSeq([i \in DOMAIN order |-> byExchange[order[i]]])
  BY <1>2 DEF ListAll, Concatenations
<1>4. order \in Seq(Exchange) /\ ToSet(order) = Exchange
  BY ListedWhole
<1> DEFINE s == [i \in DOMAIN order |-> byExchange[order[i]]]
           n == Len(order)
<1>5. n \in Nat /\ DOMAIN order = 1 .. n /\ \A i \in 1 .. n : order[i] \in Exchange
  BY <1>4, LenProperties, ElementOfSeq
<1>6. s \in [1 .. n -> Seq(Binding)] /\ \A i \in 1 .. n : s[i] = byExchange[order[i]]
  BY <1>1, <1>5
<1>7. s \in Seq(Seq(Binding)) /\ Len(s) = n
  <2> HIDE DEF s
  <2>1. s \in Seq(Seq(Binding))
    BY <1>5, <1>6, SeqDef
  <2>2. DOMAIN s = 1 .. n
    BY <1>6
  <2>3. QED BY <1>5, <2>1, <2>2, LenProperties
<1>8. Live = {b \in Binding : Holds(byExchange, b)}
  BY LiveHolds
<1>9. \A b \in Binding : b.exchange \in Exchange
  BY DEF Binding
<1>10. list = FlattenSeq(s)
  BY <1>3
<1> HIDE DEF s
<1>11. CASE n = 0
  <2>1. list = s
    BY <1>7, <1>10, <1>11 DEF FlattenSeq
  <2>2. Exchange = {}
    BY <1>4, <1>5, <1>11 DEF ToSet
  <2>3. Live = {}
    BY <1>8, <1>9, <2>2
  <2>4. s \in [1 .. 0 -> Binding] /\ 1 .. 0 = {}
    BY <1>6, <1>11
  <2>5. s \in Seq(Binding)
    BY <2>4, SeqDef
  <2>6. ToSet(s) = {}
    BY <2>4 DEF ToSet
  <2>7. QED BY <2>1, <2>3, <2>5, <2>6
<1>12. CASE n # 0
  <2>1. list \in Seq(Binding) /\ ToSet(list) = UNION {ToSet(s[j]) : j \in 1 .. n}
    BY <1>7, <1>10, <1>12, FlattenList
  <2>2. ASSUME NEW b \in Live PROVE b \in ToSet(list)
    <3>1. b.exchange \in Exchange /\ b \in ToSet(byExchange[b.exchange])
      BY <1>8, <1>9 DEF Holds
    <3>2. PICK j \in 1 .. n : order[j] = b.exchange
      BY <1>4, <1>5, <3>1 DEF ToSet
    <3>3. b \in ToSet(s[j])
      BY <1>6, <3>1, <3>2
    <3>4. QED BY <2>1, <3>3
  <2>3. ASSUME NEW b \in ToSet(list) PROVE b \in Live
    <3>1. PICK j \in 1 .. n : b \in ToSet(s[j])
      BY <2>1
    <3> DEFINE x == order[j]
    <3>2. x \in Exchange /\ b \in ToSet(byExchange[x]) /\ byExchange[x] \in Seq(Binding)
      BY <1>1, <1>5, <1>6, <3>1
    <3>3. b.exchange = x
      BY <1>1, <3>2 DEF Filed
    <3>4. b \in Binding
      BY <3>2, LenProperties, ElementOfSeq DEF ToSet
    <3>5. QED BY <1>8, <3>2, <3>3, <3>4 DEF Holds
  <2>4. QED BY <2>1, <2>2, <2>3
<1>13. QED BY <1>11, <1>12

LEMMA NotCapturing ==
  ASSUME NEW s, s.at \notin {"queues", "bindings", "write"}, NEW now
  PROVE  Captured(s, now)
BY DEF Captured

\* What a snapshot's fields are after an update.
LEMMA SnapFields ==
  ASSUME NEW s, IsSnap(s), NEW p, NEW d, NEW a, NEW b
  PROVE  /\ LET t == [s EXCEPT !.at = p, !.data = d] IN
            t.at = p /\ t.data = d /\ t.stable = s.stable /\ t.seen = s.seen
         /\ LET t == [s EXCEPT !.stable = a, !.seen = b] IN
            t.at = s.at /\ t.data = s.data /\ t.stable = a /\ t.seen = b
<1>1. s \in [at : At, data : {s.data}, stable : {s.stable}, seen : {s.seen}]
  BY DEF IsSnap
<1>2. QED BY <1>1

\* The exchanges are listed.
LEMMA SoundExchanges ==
  ASSUME SoundInv, CaptureExchanges
  PROVE  SoundInv'
<1> DEFINE now == Facts(exchanges, queues, Live)
           d == [NoData EXCEPT !.exchanges = exchanges]
<1>1. KeptInv'
  BY CaptureInv DEF SoundInv
<1>2. /\ snap' = [at |-> "queues", data |-> d, stable |-> now, seen |-> now]
      /\ UNCHANGED <<vars, files>> /\ up
  BY DEF CaptureExchanges
<1>3. UNCHANGED <<up, exchanges, queues, byExchange, byQueue, savedBindings, cascaded, op, failures, e2e>>
  BY <1>2 DEF vars, memory, saved
<1>4. now' = now
  BY <1>3 DEF Live
<1>5. IsData(d) /\ d.exchanges = exchanges
  BY DEF IsData, NoData
<1>6. \A f \in now : f[1] \in Kinds /\ (f[1] = "exchange" => f \in ExchangeFacts(exchanges))
  BY FactKinds
<1>7. ExchangeFacts(exchanges) \subseteq now
  BY FactsParts
<1> HIDE DEF now, d
<1>8. snap'.at = "queues" /\ snap'.data = d /\ snap'.stable = now /\ snap'.seen = now
  BY <1>2
<1>9. Captured(snap', now)
  BY <1>5, <1>6, <1>7, <1>8 DEF Captured, Between
<1>10. BindTyped'
  BY <1>3 DEF SoundInv, BindTyped
<1>11. QED BY <1>1, <1>2, <1>3, <1>4, <1>8, <1>9, <1>10 DEF SoundInv, now

\* The queues are listed.
LEMMA SoundQueues ==
  ASSUME SoundInv, CaptureQueues
  PROVE  SoundInv'
<1> DEFINE now == Facts(exchanges, queues, Live)
           d == [snap.data EXCEPT !.queues = queues]
<1>1. KeptInv' /\ IsSnap(snap)
  BY CaptureInv DEF SoundInv, KeptInv
<1>2. /\ snap' = [snap EXCEPT !.at = "bindings", !.data = d]
      /\ UNCHANGED <<vars, files>> /\ up /\ snap.at = "queues"
  BY DEF CaptureQueues
<1>3. UNCHANGED <<up, exchanges, queues, byExchange, byQueue, savedBindings, cascaded, op, failures, e2e>>
  BY <1>2 DEF vars, memory, saved
<1>4. now' = now
  BY <1>3 DEF Live
<1>5. Captured(snap, now)
  BY DEF SoundInv
<1>6. IsData(snap.data)
  BY <1>2, <1>5 DEF Captured
<1>7. IsData(d) /\ d.exchanges = snap.data.exchanges /\ d.queues = queues
  BY <1>6 DEF IsData
<1>8. \A f \in now : f[1] = "queue" => f \in QueueFacts(queues)
  BY FactKinds
<1>9. QueueFacts(queues) \subseteq now
  BY FactsParts
<1> HIDE DEF now, d
<1>10. /\ snap'.at = "bindings" /\ snap'.data = d
       /\ snap'.stable = snap.stable /\ snap'.seen = snap.seen
  BY <1>1, <1>2, SnapFields
<1>11. Captured(snap', now)
  BY <1>2, <1>5, <1>7, <1>8, <1>9, <1>10 DEF Captured, Between
<1>12. BindTyped'
  BY <1>3 DEF SoundInv, BindTyped
<1>13. QED BY <1>1, <1>2, <1>3, <1>4, <1>10, <1>11, <1>12 DEF SoundInv, now

\* The bindings are listed.
LEMMA SoundBindings ==
  ASSUME SoundInv, IsFiniteSet(Exchange), CaptureBindings
  PROVE  SoundInv'
<1> DEFINE now == Facts(exchanges, queues, Live)
<1>1. KeptInv' /\ IsSnap(snap) /\ BindTyped
  BY CaptureInv DEF SoundInv, KeptInv
<1>2. PICK list \in ListAll : snap' = [snap EXCEPT !.at = "write", !.data.bindings = list]
  BY DEF CaptureBindings
<1> DEFINE d == [snap.data EXCEPT !.bindings = list]
<1>3. /\ snap' = [snap EXCEPT !.at = "write", !.data = d]
      /\ UNCHANGED <<vars, files>> /\ up /\ snap.at = "bindings"
  BY <1>2 DEF CaptureBindings
<1>4. UNCHANGED <<up, exchanges, queues, byExchange, byQueue, savedBindings, cascaded, op, failures, e2e>>
  BY <1>3 DEF vars, memory, saved
<1>5. now' = now
  BY <1>4 DEF Live
<1>6. Captured(snap, now)
  BY DEF SoundInv
<1>7. IsData(snap.data)
  BY <1>3, <1>6 DEF Captured
<1>8. /\ IsData(d) /\ d.exchanges = snap.data.exchanges /\ d.queues = snap.data.queues
      /\ d.bindings = list
  BY <1>7 DEF IsData
<1>9. list \in Seq(Binding) /\ ToSet(list) = Live
  BY <1>1, ListedLive
<1>10. \A f \in now : f[1] = "binding" => f \in BindingFacts(Live)
  BY FactKinds
<1>11. BindingFacts(Live) \subseteq now
  BY FactsParts
<1> HIDE DEF now, d
<1>12. /\ snap'.at = "write" /\ snap'.data = d
       /\ snap'.stable = snap.stable /\ snap'.seen = snap.seen
  BY <1>1, <1>3, SnapFields
<1>13. Captured(snap', now)
  BY <1>3, <1>6, <1>8, <1>9, <1>10, <1>11, <1>12 DEF Captured, Between
<1>14. BindTyped'
  BY <1>4 DEF SoundInv, BindTyped
<1>15. QED BY <1>1, <1>3, <1>4, <1>5, <1>8, <1>9, <1>12, <1>13, <1>14 DEF SoundInv, now

\* What is left of SoundInv once Create is past its write, or idle.
LEMMA PastCapture ==
  ASSUME SoundInv, KeptInv', UNCHANGED vars, up, snap'.at \notin {"queues", "bindings", "write"},
         \A i \in 1 .. Len(files') : files'[i].data.bindings \in Seq(Binding)
  PROVE  SoundInv'
<1> DEFINE now == Facts(exchanges, queues, Live)
<1>1. UNCHANGED <<up, byExchange, byQueue, savedBindings, cascaded, op, failures, e2e>>
  BY DEF vars, memory, saved
<1>2. BindTyped'
  BY <1>1 DEF SoundInv, BindTyped
<1>3. Captured(snap', now')
  BY NotCapturing
<1> HIDE DEF now
<1>4. QED BY <1>1, <1>2, <1>3 DEF SoundInv, now

\* The write, its failure and retention.
LEMMA SoundWrites ==
  ASSUME SoundInv, WriteBegins \/ WriteEnds \/ WriteFails \/ Retain
  PROVE  SoundInv'
<1>1. /\ IsFiles(files) /\ KeptInv
      /\ \A i \in 1 .. Len(files) : files[i].data.bindings \in Seq(Binding)
  BY DEF SoundInv, KeptInv
<1>2. Len(files) \in Nat
  BY <1>1, LenProperties DEF IsFiles
<1>3. CASE WriteBegins
  <2> DEFINE f == [complete |-> FALSE, data |-> snap.data]
  <2>1. KeptInv' /\ snap'.at = "writing" /\ UNCHANGED vars /\ up
    BY <1>1, <1>3, WriteBeginsInv DEF WriteBegins, NoSnap
  <2>2. IsFile(f) /\ f.data.bindings \in Seq(Binding)
    BY <1>3 DEF IsFile, SoundInv, WriteBegins
  <2>3. files' = Append(files, f)
    BY <1>3 DEF WriteBegins
  <2> HIDE DEF f
  <2>4. /\ Len(files') = Len(files) + 1 /\ files'[Len(files) + 1] = f
        /\ \A i \in 1 .. Len(files) : files'[i] = files[i]
    BY <1>1, <2>2, <2>3, AppendFile
  <2>5. ASSUME NEW i \in 1 .. Len(files') PROVE files'[i].data.bindings \in Seq(Binding)
    <3>1. i \in 1 .. Len(files) \/ i = Len(files) + 1
      BY <1>2, <2>4
    <3>2. QED BY <1>1, <2>2, <2>4, <3>1
  <2>6. QED BY <2>1, <2>5, PastCapture
<1>4. CASE WriteEnds
  <2>1. KeptInv' /\ UNCHANGED vars /\ up /\ files # <<>>
    BY <1>1, <1>4, WriteEndsInv DEF WriteEnds, KeptInv
  <2>2. snap'.at \in {"retain", "idle"}
    BY <1>4 DEF WriteEnds, NoSnap
  <2>3. files' = [files EXCEPT ![Len(files)].complete = TRUE]
    BY <1>4 DEF WriteEnds
  <2>4. Len(files') = Len(files) /\ \A i \in 1 .. Len(files) : files'[i].data = files[i].data
    BY <1>1, <2>1, <2>3, CompleteLast
  <2>5. QED BY <1>1, <2>1, <2>2, <2>4, PastCapture
<1>5. CASE WriteFails
  <2>1. KeptInv' /\ UNCHANGED vars /\ up /\ files' = files /\ snap' = NoSnap
    BY <1>1, <1>5, OtherInv DEF WriteFails
  <2>2. QED BY <1>1, <2>1, NoSnapIdle, PastCapture
<1>6. CASE Retain
  <2>1. KeptInv' /\ UNCHANGED vars /\ up /\ snap'.at \in {"retain", "idle"}
    BY <1>1, <1>6, RetainInv DEF Retain, NoSnap
  <2>2. CASE files' = files
    BY <1>1, <2>1, <2>2, PastCapture
  <2>3. ASSUME NEW i \in 1 .. Len(files) - RetainCount, files' = RemoveAt(files, i)
        PROVE  SoundInv'
    <3>1. i \in 1 .. Len(files) - 1
      BY <1>1, <1>2, <1>6, SnapshotAssumption DEF KeptInv, Retain
    <3>2. \A k \in 1 .. Len(files') : \E j \in 1 .. Len(files) : files'[k] = files[j]
      BY <1>1, <2>3, <3>1, NewestStays
    <3>3. QED BY <1>1, <2>1, <3>2, PastCapture
  <2>4. QED BY <1>6, <2>2, <2>3 DEF Retain
<1>7. QED BY <1>3, <1>4, <1>5, <1>6

\* A handler's step moves what is there; the histories follow.
LEMMA SoundHandle ==
  ASSUME SoundInv, NEW c \in Conn, Handle(c)
  PROVE  SoundInv'
<1> DEFINE now == Facts(exchanges, queues, Live)
           new == Facts(exchanges', queues', Live')
<1>1. KeptInv' /\ IsSnap(snap) /\ BindTyped /\ Captured(snap, now)
  BY OtherInv DEF SoundInv, KeptInv
<1>2. BindTyped'
  BY <1>1, HandlerBind DEF Handle
<1>3. files' = files
  BY DEF Handle
<1>4. up' = up
  BY HandlerUp DEF Handle
<1>5. /\ snap'.at = snap.at /\ snap'.data = snap.data
      /\ snap.at \in {"queues", "bindings"} =>
           snap'.stable = snap.stable \cap new /\ snap'.seen = snap.seen \cup new
      /\ snap.at \notin {"queues", "bindings"} =>
           snap'.stable = snap.stable /\ snap'.seen = snap.seen
  <2>1. CASE snap.at \in {"queues", "bindings"}
    <3> DEFINE a == snap.stable \cap new
               b == snap.seen \cup new
    <3>1. snap' = [snap EXCEPT !.stable = a, !.seen = b]
      BY <2>1 DEF Handle
    <3> HIDE DEF a, b, new
    <3>2. snap'.at = snap.at /\ snap'.data = snap.data /\ snap'.stable = a /\ snap'.seen = b
      BY <1>1, <3>1, SnapFields
    <3>3. QED BY <2>1, <3>2 DEF a, b
  <2>2. CASE snap.at \notin {"queues", "bindings"}
    BY <2>2 DEF Handle
  <2>3. QED BY <2>1, <2>2
<1>6. now' = new
  OBVIOUS
<1> HIDE DEF now, new
<1>7. Captured(snap', new)
  BY <1>1, <1>5 DEF Captured, Between
<1>8. Captured(snap', now')
  BY <1>6, <1>7
<1>9. snap'.at = "write" => snap'.data.bindings \in Seq(Binding)
  BY <1>5 DEF SoundInv
<1>10. ~up' => snap'.at = "idle"
  BY <1>4, <1>5 DEF SoundInv
<1>11. QED BY <1>1, <1>2, <1>3, <1>8, <1>9, <1>10 DEF SoundInv, now

\* A start from a snapshot file binds lists of bindings.
LEMMA SnapshotBind ==
  ASSUME BindTyped, NEW f, f.data.bindings \in Seq(Binding), RestoreFromSnapshot(f)
  PROVE  BindTyped'
<1> DEFINE more == f.data.bindings
<1>1. PICK list \in SetToSeqs(savedBindings) :
        /\ byExchange' = BoundAll(list \o more).byExchange
        /\ byQueue' = BoundAll(list \o more).byQueue
  BY DEF RestoreFromSnapshot
<1>2. /\ savedBindings \in SUBSET Binding /\ IsFiniteSet(savedBindings) /\ more \in Seq(Binding)
      /\ savedBindings' = savedBindings \cup ToSet(more) /\ UNCHANGED <<op, failures, cascaded, e2e>>
  BY DEF BindTyped, RestoreFromSnapshot
<1> HIDE DEF more
<1>3. list \in Seq(Binding)
  <2> DEFINE A == savedBindings
  <2>1. A \in SUBSET Binding /\ IsFiniteSet(A) /\ list \in SetToSeqs(A)
    BY <1>2
  <2> HIDE DEF A
  <2>2. QED BY <2>1, ListedWhole
<1>4. list \o more \in Seq(Binding)
  BY <1>2, <1>3, ConcatList
<1> DEFINE all == list \o more
           w == BoundAll(all)
<1>5. byExchange' = w.byExchange /\ byQueue' = w.byQueue /\ all \in Seq(Binding)
  BY <1>1, <1>4
<1> HIDE DEF all
<1>6. w \in Indexes /\ Filed(w.byExchange)
  BY <1>5, BoundList
<1> HIDE DEF w
<1>7. byExchange' \in ByExchange /\ byQueue' \in ByQueue /\ Filed(byExchange')
  BY <1>5, <1>6 DEF Indexes
<1>8. savedBindings' \subseteq Binding /\ IsFiniteSet(savedBindings')
  <2>1. Len(more) \in Nat /\ DOMAIN more = 1 .. Len(more) /\ \A i \in 1 .. Len(more) : more[i] \in Binding
    BY <1>2, LenProperties, ElementOfSeq
  <2>2. ToSet(more) \subseteq Binding /\ ToSet(more) = {more[i] : i \in 1 .. Len(more)}
    BY <2>1 DEF ToSet
  <2>3. IsFiniteSet(ToSet(more))
    <3>1. IsFiniteSet(1 .. Len(more))
      BY <2>1, FS_Interval
    <3> DEFINE D == 1 .. Len(more)
               e == [i \in D |-> more[i]]
               T == ToSet(more)
    <3>2. e \in Surjection(D, T)
      BY <2>2 DEF Surjection
    <3> HIDE DEF D, e, T
    <3>3. IsFiniteSet(T)
      BY <3>1, <3>2, FS_Surjection DEF D
    <3>4. QED BY <3>3 DEF T
  <2>4. QED BY <1>2, <2>2, <2>3, FS_Union
<1>9. QED BY <1>2, <1>7, <1>8 DEF BindTyped

\* Crashes and starts find Create idle or leave it idle.
LEMMA SoundRestart ==
  ASSUME SoundInv,
         \/ SCrash \/ Start
         \/ \E i \in DOMAIN files : RestoreFromSnapshot(files[i])
  PROVE  SoundInv'
<1>1. KeptInv'
  BY OtherInv DEF SoundInv
<1>2. /\ BindTyped /\ IsFiles(files)
      /\ \A i \in 1 .. Len(files) : files[i].data.bindings \in Seq(Binding)
  BY DEF SoundInv, KeptInv
<1>3. DOMAIN files = 1 .. Len(files)
  BY <1>2, LenProperties DEF IsFiles
<1>4. BindTyped'
  BY <1>2, <1>3, CrashBind, RestoreBind, SnapshotBind DEF SCrash, Start
<1>5. files' = files /\ snap'.at = "idle"
  <2>1. CASE SCrash
    BY <2>1, NoSnapIdle DEF SCrash
  <2>2. CASE Start
    BY <2>2 DEF Start, RestoreFromStore, snapVars, SoundInv
  <2>3. CASE \E i \in DOMAIN files : RestoreFromSnapshot(files[i])
    BY <2>3 DEF RestoreFromSnapshot, snapVars, SoundInv
  <2>4. QED BY <2>1, <2>2, <2>3
<1> DEFINE now == Facts(exchanges, queues, Live)
<1>6. Captured(snap', now')
  BY <1>5, NotCapturing
<1> HIDE DEF now
<1>7. QED BY <1>1, <1>2, <1>4, <1>5, <1>6 DEF SoundInv, now

LEMMA SoundInit == SInit => SoundInv
<1> SUFFICES ASSUME SInit PROVE SoundInv
  OBVIOUS
<1>1. BindTyped /\ KeptInv
  BY InitBind, InitInv DEF SInit
<1>2. files = <<>> /\ snap.at = "idle"
  BY NoSnapIdle DEF SInit
<1>3. \A i \in 1 .. Len(files) : FALSE
  BY <1>2, EmptySeq
<1>4. QED BY <1>1, <1>2, <1>3, NotCapturing DEF SoundInv

\* Nothing moves.
LEMMA SoundStutter ==
  ASSUME SoundInv, UNCHANGED allVars
  PROVE  SoundInv'
<1>1. UNCHANGED <<up, exchanges, queues, byExchange, byQueue, savedBindings, cascaded, op, failures,
                  e2e, files, snap>>
  BY DEF allVars, vars, memory, saved, snapVars
<1>2. BindTyped'
  BY <1>1 DEF SoundInv, BindTyped
<1>3. KeptInv'
  BY OtherInv DEF SoundInv
<1> DEFINE now == Facts(exchanges, queues, Live)
<1>4. now' = now
  BY <1>1 DEF Live
<1> HIDE DEF now
<1>5. QED BY <1>1, <1>2, <1>3, <1>4 DEF SoundInv, now

\* A snapshot holds what was there all along while capture ran, and nothing that was not
\* there at some moment of it, whatever handlers ran between the three lists: for any
\* connections, queues and keys and any finite set of exchange names.
THEOREM SoundTheorem == ASSUME IsFiniteSet(Exchange) PROVE SSpec => []SnapshotSound
<1>1. SoundInv /\ [SNext]_allVars => SoundInv'
  <2> SUFFICES ASSUME SoundInv, [SNext]_allVars PROVE SoundInv'
    OBVIOUS
  <2>1. CASE Create
    BY <2>1, SoundExchanges, SoundQueues, SoundBindings, SoundWrites DEF Create
  <2>2. CASE SNext /\ ~Create
    BY <2>2, SoundHandle, SoundRestart DEF SNext
  <2>3. QED BY <2>1, <2>2, SoundStutter
<1>2. SoundInv => SnapshotSound
  <2> SUFFICES ASSUME SoundInv, snap.at = "write" PROVE SnapshotSound
    BY DEF SnapshotSound
  <2> DEFINE now == Facts(exchanges, queues, Live)
             e == snap.data.exchanges
             q == snap.data.queues
             b == ToSet(snap.data.bindings)
  <2>1. Captured(snap, now)
    BY DEF SoundInv
  <2> HIDE DEF now, e, q, b
  <2>2. /\ Between("exchange", ExchangeFacts(e), snap) /\ Between("queue", QueueFacts(q), snap)
        /\ Between("binding", BindingFacts(b), snap) /\ \A f \in snap.stable : f[1] \in Kinds
    BY <2>1 DEF Captured, e, q, b
  <2>3. snap.stable \subseteq Facts(e, q, b) /\ Facts(e, q, b) \subseteq snap.seen
    BY <2>2, FactsParts DEF Between, Kinds
  <2>4. QED BY <2>3 DEF SnapshotSound, e, q, b
<1>3. QED BY <1>1, <1>2, SoundInit, PTL DEF SSpec
=============================================================================
