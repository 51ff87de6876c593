------------------------------ MODULE Topology ------------------------------
(***************************************************************************)
(* Exchanges, queues and bindings (internal/server/exchange_manager.go,    *)
(* queue_manager.go, binding_manager.go, e2e_binding_manager.go, router.go *)
(* and their handlers in basic_handlers.go), the metadata store behind     *)
(* them (internal/store) and the restart that loads it (RestoreFromStore). *)
(*                                                                         *)
(* An action is one critical section of a manager's lock; the store call   *)
(* is made while the lock is held.  Handlers with several critical         *)
(* sections keep their place in op.                                        *)
(***************************************************************************)
EXTENDS Integers, Sequences, FiniteSets, SequencesExt

CONSTANTS
  Conn,         \* connections, each running one handler at a time
  Exchange,     \* exchange names
  Queue,        \* queue names; a name may be an exchange's too
  Key,          \* routing keys of Queue.Bind
  E2EKey,       \* routing keys of Exchange.Bind
  QArgs,        \* the declarations a client may make for a queue: what its
                \* arguments are read as, and the readers (MaxLength and its
                \* like) take the float64 that JSON makes of an integer
  BuiltinType,  \* initDefaults: the built-in exchanges with their types
  Nil,          \* not there
  MaxBindings,  \* bound: bindings in an index
  MaxFailures   \* bound: store calls that fail

Types == {"direct", "fanout", "topic", "headers"}
Builtin == DOMAIN BuiltinType

ASSUME TopologyAssumption ==
  /\ IsFiniteSet(Conn)
  /\ Builtin \subseteq Exchange
  /\ \A x \in Builtin : BuiltinType[x] \in Types
  /\ Nil \notin Types \cup QArgs
  /\ MaxBindings \in Nat /\ MaxFailures \in Nat

VARIABLES
  up,              \* is the broker running?
  exchanges,       \* ExchangeManager: type of each exchange, Nil if none
  queues,          \* QueueManager: arguments of each queue, Nil if none
  byExchange,      \* BindingManager's index by exchange
  byQueue,         \* BindingManager's index by queue
  e2e,             \* E2EBindingManager's bindings
  savedExchanges,  \* metadata store
  savedQueues,
  savedBindings,
  op,              \* the handler each connection is in the middle of
  failures,        \* store calls that failed so far
  cascaded         \* history: bindings the cascades removed from memory only

memory == <<exchanges, queues, byExchange, byQueue, e2e>>
saved == <<savedExchanges, savedQueues, savedBindings>>
vars == <<up, memory, saved, op, failures, cascaded>>

Binding == [exchange : Exchange, queue : Queue, key : Key]
E2EBinding == [source : Exchange, destination : Exchange, key : E2EKey]

Idle == [at |-> "idle"]
Op == [at : {"bind"}, e : E2EBinding, seen : SUBSET E2EBinding]
        \cup [at : {"unbindE2E", "unbindExchange"}, x : Exchange]
        \cup [at : {"unbindQueue"}, q : Queue]
        \cup [at : {"cleanByQueue", "cleanByExchange"}, list : Seq(Binding)]

\* A manager with nothing declared, and the built-in exchanges.
Defaults == [x \in Exchange |-> IF x \in Builtin THEN BuiltinType[x] ELSE Nil]
NoBindings(keys) == [k \in keys |-> <<>>]

Init ==
  /\ up = TRUE
  /\ exchanges = Defaults
  /\ queues = [q \in Queue |-> Nil]
  /\ byExchange = NoBindings(Exchange)
  /\ byQueue = NoBindings(Queue)
  /\ e2e = {}
  /\ savedExchanges = [x \in Exchange |-> Nil]
  /\ savedQueues = [q \in Queue |-> Nil]
  /\ savedBindings = {}
  /\ op = [c \in Conn |-> Idle]
  /\ failures = 0
  /\ cascaded = {}

----------------------------------------------------------------------------
(* The metadata store                                                      *)

\* A store call leaves what it was given, or fails and leaves what was there;
\* the managers log the error and go on either way.
StoreCall(old, new, result) ==
  /\ result \in {old, new}
  /\ failures' = IF result = new THEN failures ELSE failures + 1
  /\ failures' <= MaxFailures

SaveQueue(q, args) ==
  StoreCall(savedQueues, [savedQueues EXCEPT ![q] = args], savedQueues')

SaveExchange(x, type) ==
  StoreCall(savedExchanges, [savedExchanges EXCEPT ![x] = type], savedExchanges')

SaveBinding(b) == StoreCall(savedBindings, savedBindings \cup {b}, savedBindings')

DeleteBinding(b) == StoreCall(savedBindings, savedBindings \ {b}, savedBindings')

----------------------------------------------------------------------------
(* Queues and exchanges                                                    *)

\* QueueManager.Declare with the store's SaveQueue.  An existing queue stays
\* as it is, whether or not the arguments match.
DeclareQueue(q, args) ==
  /\ queues[q] = Nil
  /\ queues' = [queues EXCEPT ![q] = args]
  /\ SaveQueue(q, args)
  /\ UNCHANGED <<up, exchanges, byExchange, byQueue, e2e, savedExchanges,
                 savedBindings, cascaded>>

\* Queue.Declare.
handleQueueDeclare(c, q, args) ==
  /\ up /\ op[c] = Idle
  /\ DeclareQueue(q, args)
  /\ UNCHANGED op

\* QueueManager.Delete with the store's DeleteQueue, when the queue is there.
DeleteQueue(q) ==
  /\ queues[q] # Nil
  /\ queues' = [queues EXCEPT ![q] = Nil]
  /\ SaveQueue(q, Nil)
  /\ UNCHANGED <<up, exchanges, byExchange, byQueue, e2e, savedExchanges,
                 savedBindings, cascaded>>

\* Mutant of handleQueueDelete: the store is not told.
handleQueueDelete_MemoryOnly(c, q) ==
  /\ up /\ op[c] = Idle
  /\ queues[q] # Nil
  /\ queues' = [queues EXCEPT ![q] = Nil]
  /\ UNCHANGED <<up, exchanges, byExchange, byQueue, e2e, saved, op, failures, cascaded>>

\* Queue.Delete: the queue's bindings stay.
handleQueueDelete(c, q) ==
  /\ up /\ op[c] = Idle
  /\ DeleteQueue(q)
  /\ UNCHANGED op

\* The type Exchange.Declare creates for the type a client names.
ExchangeTypeOf(name) == IF name = "fanout" THEN "fanout" ELSE "direct"

\* ExchangeManager.Declare with the store's SaveExchange.  An existing
\* exchange stays as it is.
DeclareExchange(x, type) ==
  /\ exchanges[x] = Nil
  /\ exchanges' = [exchanges EXCEPT ![x] = type]
  /\ SaveExchange(x, type)
  /\ UNCHANGED <<up, queues, byExchange, byQueue, e2e, savedQueues, savedBindings,
                 cascaded>>

\* Exchange.Declare.
handleExchangeDeclare(c, x, name) ==
  /\ up /\ op[c] = Idle
  /\ DeclareExchange(x, ExchangeTypeOf(name))
  /\ UNCHANGED op

\* ExchangeManager.Delete with the store's DeleteExchange; built-in exchanges
\* are deleted like any other.
DeleteExchange(x) ==
  /\ exchanges[x] # Nil
  /\ exchanges' = [exchanges EXCEPT ![x] = Nil]
  /\ SaveExchange(x, Nil)
  /\ UNCHANGED <<up, queues, byExchange, byQueue, e2e, savedQueues, savedBindings,
                 cascaded>>

\* Exchange.Delete, first half; the second half also follows when there was
\* nothing to delete.
handleExchangeDelete(c, x) ==
  /\ up /\ op[c] = Idle
  /\ op' = [op EXCEPT ![c] = [at |-> "unbindE2E", x |-> x]]
  /\ \/ DeleteExchange(x)
     \/ exchanges[x] = Nil /\ UNCHANGED <<up, memory, saved, failures, cascaded>>

\* Exchange.Delete, second half: E2EBindingManager.UnbindAllForExchange.  The
\* exchange's bindings to queues stay.
UnbindE2E(c) ==
  /\ up /\ op[c].at = "unbindE2E"
  /\ e2e' = {e \in e2e : e.source # op[c].x /\ e.destination # op[c].x}
  /\ op' = [op EXCEPT ![c] = Idle]
  /\ UNCHANGED <<up, exchanges, queues, byExchange, byQueue, saved, failures, cascaded>>

----------------------------------------------------------------------------
(* Bindings to queues                                                      *)

\* removeFrom: the first binding of an index entry with this QueueName and
\* RoutingKey; the exchange is not looked at.
removeFrom(list, targetQueue, targetKey) ==
  RemoveFirstMatch(list, LAMBDA b : b.queue = targetQueue /\ b.key = targetKey)

\* Mutant of Bind: the index by queue is not kept.
Bind_ExchangeOnly(b) ==
  /\ byExchange' = [byExchange EXCEPT ![b.exchange] = Append(@, b)]
  /\ SaveBinding(b)
  /\ UNCHANGED byQueue

\* BindingManager.Bind: a second equal binding is kept too.
Bind(b) ==
  /\ byExchange' = [byExchange EXCEPT ![b.exchange] = Append(@, b)]
  /\ byQueue' = [byQueue EXCEPT ![b.queue] = Append(@, b)]
  /\ SaveBinding(b)

\* Queue.Bind: whether the exchange and the queue exist is not checked.
handleQueueBind(c, b) ==
  /\ up /\ op[c] = Idle
  /\ Len(byQueue[b.queue]) < MaxBindings
  /\ Bind(b)
  /\ cascaded' = cascaded \ {b}
  /\ UNCHANGED <<up, exchanges, queues, e2e, savedExchanges, savedQueues, op>>

\* Mutant of Unbind: the binding stays in the store.
Unbind_MemoryOnly(b) ==
  /\ byExchange' = [byExchange EXCEPT ![b.exchange] = removeFrom(@, b.queue, b.key)]
  /\ byQueue' = [byQueue EXCEPT ![b.queue] = removeFrom(@, b.exchange, b.key)]
  /\ UNCHANGED <<savedBindings, failures>>

\* BindingManager.Unbind: the index by queue is searched for a QueueName that
\* is the name of the exchange; the store is told when the index by exchange
\* held the binding.
Unbind(b) ==
  /\ byExchange' = [byExchange EXCEPT ![b.exchange] = removeFrom(@, b.queue, b.key)]
  /\ byQueue' = [byQueue EXCEPT ![b.queue] = removeFrom(@, b.exchange, b.key)]
  /\ IF byExchange' # byExchange
     THEN DeleteBinding(b)
     ELSE UNCHANGED <<savedBindings, failures>>

\* Queue.Unbind.
handleQueueUnbind(c, b) ==
  /\ up /\ op[c] = Idle
  /\ Unbind(b)
  /\ UNCHANGED <<up, exchanges, queues, e2e, savedExchanges, savedQueues, op, cascaded>>

----------------------------------------------------------------------------
(* MessageRouter's deletes, which cascade to the bindings                  *)

\* The loops that take the bindings of a list out of the other index.
WithoutByExchange(list) ==
  LET left[n \in 0 .. Len(list)] ==
        IF n = 0 THEN byExchange
        ELSE [left[n - 1] EXCEPT ![list[n].exchange] = removeFrom(@, list[n].queue, list[n].key)]
  IN left[Len(list)]

WithoutByQueue(list) ==
  LET left[n \in 0 .. Len(list)] ==
        IF n = 0 THEN byQueue
        ELSE [left[n - 1] EXCEPT ![list[n].queue] = removeFrom(@, list[n].exchange, list[n].key)]
  IN left[Len(list)]

\* MessageRouter.DeleteQueue: the queue first.
RouterDeleteQueue(c, q) ==
  /\ up /\ op[c] = Idle
  /\ DeleteQueue(q)
  /\ op' = [op EXCEPT ![c] = [at |-> "unbindQueue", q |-> q]]

\* UnbindAllForQueue takes the queue's list out of the index by queue ...
UnbindAllForQueue(c) ==
  /\ up /\ op[c].at = "unbindQueue"
  /\ byQueue' = [byQueue EXCEPT ![op[c].q] = <<>>]
  /\ op' = [op EXCEPT ![c] = [at |-> "cleanByExchange", list |-> byQueue[op[c].q]]]
  /\ UNCHANGED <<up, exchanges, queues, byExchange, e2e, saved, failures, cascaded>>

\* ... and, under the lock again, its bindings out of the index by exchange.
\* The store keeps them.
CleanByExchange(c) ==
  /\ up /\ op[c].at = "cleanByExchange"
  /\ byExchange' = WithoutByExchange(op[c].list)
  /\ op' = [op EXCEPT ![c] = Idle]
  /\ cascaded' = cascaded \cup ToSet(op[c].list)
  /\ UNCHANGED <<up, exchanges, queues, byQueue, e2e, saved, failures>>

\* MessageRouter.DeleteExchange, and UnbindAllForExchange likewise.
RouterDeleteExchange(c, x) ==
  /\ up /\ op[c] = Idle
  /\ DeleteExchange(x)
  /\ op' = [op EXCEPT ![c] = [at |-> "unbindExchange", x |-> x]]

UnbindAllForExchange(c) ==
  /\ up /\ op[c].at = "unbindExchange"
  /\ byExchange' = [byExchange EXCEPT ![op[c].x] = <<>>]
  /\ op' = [op EXCEPT ![c] = [at |-> "cleanByQueue", list |-> byExchange[op[c].x]]]
  /\ cascaded' = cascaded \cup ToSet(byExchange[op[c].x])
  /\ UNCHANGED <<up, exchanges, queues, byQueue, e2e, saved, failures>>

CleanByQueue(c) ==
  /\ up /\ op[c].at = "cleanByQueue"
  /\ byQueue' = WithoutByQueue(op[c].list)
  /\ op' = [op EXCEPT ![c] = Idle]
  /\ UNCHANGED <<up, exchanges, queues, byExchange, e2e, saved, failures, cascaded>>

----------------------------------------------------------------------------
(* Bindings between exchanges                                              *)

\* S holds the destination of every binding of E whose source it holds.
Closed(E, S) == \A e \in E : e.source \in S => e.destination \in S

\* HasCycle's search: the exchanges it visits from x along the bindings E.
Reach(E, x) == {y \in Exchange : \A S \in SUBSET Exchange : x \in S /\ Closed(E, S) => y \in S}

\* Mutant of HasCycle: only the direct way back is looked at.
HasCycle_OneStep(source, destination) ==
  \E e \in e2e : e.source = destination /\ e.destination = source

\* HasCycle: would a binding from source to destination close a cycle?
HasCycle(source, destination) == source \in Reach(e2e, destination)

\* Exchange.Bind, first half: the check, with the bindings it saw.  Other
\* connections may bind and unbind before the second half.
handleExchangeBind(c, e) ==
  /\ up /\ op[c] = Idle
  /\ ~HasCycle(e.source, e.destination)
  /\ op' = [op EXCEPT ![c] = [at |-> "bind", e |-> e, seen |-> e2e]]
  /\ UNCHANGED <<up, memory, saved, failures, cascaded>>

\* Exchange.Bind, second half: E2EBindingManager.Bind, without a check.
BindE2E(c) ==
  /\ up /\ op[c].at = "bind"
  /\ e2e' = e2e \cup {op[c].e}
  /\ op' = [op EXCEPT ![c] = Idle]
  /\ UNCHANGED <<up, exchanges, queues, byExchange, byQueue, saved, failures, cascaded>>

\* Exchange.Unbind.
handleExchangeUnbind(c, e) ==
  /\ up /\ op[c] = Idle
  /\ e2e' = e2e \ {e}
  /\ UNCHANGED <<up, exchanges, queues, byExchange, byQueue, saved, op, failures, cascaded>>

----------------------------------------------------------------------------
(* Crash and restart                                                       *)

Crash ==
  /\ up
  /\ up' = FALSE
  /\ exchanges' = Defaults
  /\ queues' = [q \in Queue |-> Nil]
  /\ byExchange' = NoBindings(Exchange)
  /\ byQueue' = NoBindings(Queue)
  /\ e2e' = {}
  /\ op' = [c \in Conn |-> Idle]
  /\ cascaded' = {}
  /\ UNCHANGED <<saved, failures>>

\* The two indexes after Bind of each binding of a list.
BoundAll(list) ==
  LET bound[n \in 0 .. Len(list)] ==
        IF n = 0 THEN [byExchange |-> NoBindings(Exchange), byQueue |-> NoBindings(Queue)]
        ELSE [byExchange |-> [bound[n - 1].byExchange EXCEPT ![list[n].exchange] = Append(@, list[n])],
              byQueue |-> [bound[n - 1].byQueue EXCEPT ![list[n].queue] = Append(@, list[n])]]
  IN bound[Len(list)]

\* RestoreFromStore, before connections are served: every saved queue and
\* exchange is declared, the built-in ones being there already, and every
\* saved binding bound, in the order the store lists them.  Declare and Bind
\* save again what they were given.
RestoreFromStore ==
  /\ ~up
  /\ up' = TRUE
  /\ queues' = savedQueues
  /\ exchanges' = [x \in Exchange |-> IF x \in Builtin THEN BuiltinType[x]
                                      ELSE savedExchanges[x]]
  /\ \E list \in SetToSeqs(savedBindings) :
       byExchange' = BoundAll(list).byExchange /\ byQueue' = BoundAll(list).byQueue
  /\ UNCHANGED <<e2e, saved, op, failures, cascaded>>

----------------------------------------------------------------------------
Handler(c) ==
  \/ \E q \in Queue : \/ \E args \in QArgs : handleQueueDeclare(c, q, args)
                      \/ handleQueueDelete(c, q)
                      \/ RouterDeleteQueue(c, q)
  \/ \E x \in Exchange : \/ \E name \in Types : handleExchangeDeclare(c, x, name)
                         \/ handleExchangeDelete(c, x)
                         \/ RouterDeleteExchange(c, x)
  \/ \E b \in Binding : handleQueueBind(c, b) \/ handleQueueUnbind(c, b)
  \/ \E e \in E2EBinding : handleExchangeBind(c, e) \/ handleExchangeUnbind(c, e)
  \/ UnbindE2E(c)
  \/ UnbindAllForQueue(c) \/ CleanByExchange(c)
  \/ UnbindAllForExchange(c) \/ CleanByQueue(c)
  \/ BindE2E(c)

Next == (\E c \in Conn : Handler(c)) \/ Crash \/ RestoreFromStore

Spec == Init /\ [][Next]_vars

----------------------------------------------------------------------------
(* Properties                                                              *)

\* Type invariant of the managers, the store and the handlers in progress.
TypeOK ==
  /\ up \in BOOLEAN
  /\ exchanges \in [Exchange -> Types \cup {Nil}]
  /\ queues \in [Queue -> QArgs \cup {Nil}]
  /\ byExchange \in [Exchange -> Seq(Binding)]
  /\ byQueue \in [Queue -> Seq(Binding)]
  /\ e2e \subseteq E2EBinding
  /\ savedExchanges \in [Exchange -> Types \cup {Nil}]
  /\ savedQueues \in [Queue -> QArgs \cup {Nil}]
  /\ savedBindings \subseteq Binding
  /\ op \in [Conn -> Op \cup {Idle}]
  /\ failures \in Nat
  /\ cascaded \subseteq Binding

\* As long as no store call failed, the store holds the queues and the
\* exchanges the managers hold, but for the built-in ones: a crash at any
\* moment loses no declaration and brings back nothing that was deleted.
StoreAgrees ==
  up /\ failures = 0 =>
    /\ savedQueues = queues
    /\ \A x \in Exchange \ Builtin : savedExchanges[x] = exchanges[x]

\* The bindings that route messages.
Live == {b \in Binding : \E i \in DOMAIN byExchange[b.exchange] :
                            byExchange[b.exchange][i] = b}

\* As long as no store call failed, a binding in the store routes messages or
\* was removed by a cascade, which does not reach the store: no other removed
\* binding comes back with a restart.
SavedBindingsLive ==
  up /\ failures = 0 => savedBindings \subseteq Live \cup cascaded

Positions(list, b) == {i \in DOMAIN list : list[i] = b}
Copies(list, b) == Cardinality(Positions(list, b))

\* The copies of b that cascades took from the index by queue and have still
\* to take from the index by exchange: in whose list, and where.
Cleaning(b) ==
  UNION {{c} \X Positions(op[c].list, b) : c \in {k \in Conn : op[k].at = "cleanByExchange"}}

\* The index by queue holds every binding of the index by exchange, with all
\* its copies, or a cascade is about to remove it: UnbindAllForQueue misses
\* none.
QueueIndexCovers ==
  \A b \in Binding :
    Copies(byExchange[b.exchange], b) <= Copies(byQueue[b.queue], b) + Cardinality(Cleaning(b))

\* The bindings between exchanges have no cycle: from no destination does a
\* way lead back to the source ("Prevent cycle: A->B->A.").  Two Exchange.Bind
\* that overlap break it.
Acyclic == \A e \in e2e : e.source \notin Reach(e2e, e.destination)

\* Only an Exchange.Bind that was overtaken closes a cycle: one that binds when
\* a binding is there that its HasCycle did not see.  Whatever else overlaps it
\* (Unbind, deletes of exchanges, a crash) does no harm, and neither does a
\* cycle's length.
CycleNeedsRace ==
  [][Acyclic /\ ~Acyclic' =>
       \E c \in Conn : BindE2E(c) /\ ~(e2e \subseteq op[c].seen)]_vars
=============================================================================
