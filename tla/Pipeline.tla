------------------------------ MODULE Pipeline ------------------------------
(***************************************************************************)
(* The publish pipeline (internal/server/pipeline.go): Submit puts items   *)
(* into a bounded channel, workers gather them into batches and publish    *)
(* them, Flush waits on a condition variable until nothing is in flight,   *)
(* Stop cancels the workers and waits for them.                            *)
(*                                                                         *)
(* An action is one atomic operation or one channel operation.  The        *)
(* condition variable is broadcast without its lock, as in the code.  A    *)
(* count-down and the broadcast that follows it are one action: a later    *)
(* broadcast could only wake more.                                         *)
(***************************************************************************)
EXTENDS Integers, Sequences, FiniteSets, SequencesExt

CONSTANTS
  Item,         \* messages, each submitted once
  ExchangeOf,   \* the exchange of each item
  Worker,       \* the worker goroutines
  Flusher,      \* goroutines that call Flush, once each
  BatchSize,    \* PipelineConfig.BatchSize
  InputBuffer   \* PipelineConfig.InputBuffer

ASSUME PipelineAssumption ==
  /\ IsFiniteSet(Item)
  /\ Worker # {}
  /\ BatchSize \in Nat \ {0} /\ InputBuffer \in Nat \ {0}

VARIABLES
  sub,        \* where the Submit of each item is
  input,      \* the channel p.input
  inFlight,   \* the atomic counter
  pc,         \* where each worker is
  batch,      \* each worker's batch
  rest,       \* the items of the batch processBatch has not published yet
  published,  \* history: how often each item was published
  stop,       \* Stop: not called, waiting for the workers, returned
  flush,      \* where the Flush of each flusher is
  owed,       \* history: the items whose Submit had returned when Flush was called
  atStop      \* history: those whose Submit had returned when Stop was called

workers == <<pc, batch, rest, published>>
flushers == <<flush, owed>>
stopping == stop # "no"
vars == <<sub, input, inFlight, workers, stop, flushers, atStop>>

Init ==
  /\ sub = [i \in Item |-> "new"]
  /\ input = <<>>
  /\ inFlight = 0
  /\ pc = [w \in Worker |-> "idle"]
  /\ batch = [w \in Worker |-> <<>>]
  /\ rest = [w \in Worker |-> <<>>]
  /\ published = [i \in Item |-> 0]
  /\ stop = "no"
  /\ flush = [f \in Flusher |-> "out"]
  /\ owed = [f \in Flusher |-> {}]
  /\ atStop = {}

----------------------------------------------------------------------------
(* Submit                                                                  *)

\* cond.Broadcast: every goroutine on the notify list tries for the lock.
Broadcast == [f \in Flusher |-> IF flush[f] = "parked" THEN "woken" ELSE flush[f]]

\* Submit counts the item ...
Submit(i) ==
  /\ sub[i] = "new"
  /\ sub' = [sub EXCEPT ![i] = "sending"]
  /\ inFlight' = inFlight + 1
  /\ UNCHANGED <<input, workers, stop, flushers, atStop>>

\* ... and sends it when the channel has room,
Send(i) ==
  /\ sub[i] = "sending"
  /\ Len(input) < InputBuffer
  /\ input' = Append(input, i)
  /\ sub' = [sub EXCEPT ![i] = "sent"]
  /\ UNCHANGED <<inFlight, workers, stop, flushers, atStop>>

\* Mutant of SubmitDrop: a dropped item stays counted.
SubmitDrop_StillCounted(i) ==
  /\ sub[i] = "sending" /\ stopping
  /\ sub' = [sub EXCEPT ![i] = "dropped"]
  /\ flush' = Broadcast
  /\ UNCHANGED <<input, inFlight, workers, stop, owed, atStop>>

\* ... or drops it once the context is done.
SubmitDrop(i) ==
  /\ sub[i] = "sending" /\ stopping
  /\ sub' = [sub EXCEPT ![i] = "dropped"]
  /\ inFlight' = inFlight - 1
  /\ flush' = Broadcast
  /\ UNCHANGED <<input, workers, stop, owed, atStop>>

----------------------------------------------------------------------------
(* worker                                                                  *)

\* A worker takes the oldest item of the channel into its batch.
Take(w) ==
  /\ input # <<>>
  /\ input' = Tail(input)
  /\ batch' = [batch EXCEPT ![w] = Append(@, Head(input))]

\* The first item of a batch.
Gather(w) ==
  /\ pc[w] = "idle"
  /\ Take(w)
  /\ pc' = [pc EXCEPT ![w] = "fill"]
  /\ UNCHANGED <<sub, inFlight, rest, published, stop, flushers, atStop>>

\* More items, without blocking.
Fill(w) ==
  /\ pc[w] = "fill" /\ Len(batch[w]) < BatchSize
  /\ Take(w)
  /\ UNCHANGED <<sub, inFlight, pc, rest, published, stop, flushers, atStop>>

FillEnd(w) ==
  /\ pc[w] = "fill"
  /\ Len(batch[w]) >= BatchSize \/ input = <<>>
  /\ pc' = [pc EXCEPT ![w] = "publish"]
  /\ rest' = [rest EXCEPT ![w] = batch[w]]
  /\ UNCHANGED <<sub, input, inFlight, batch, published, stop, flushers, atStop>>

\* Mutant of Cancelled: the worker leaves at once.
Cancelled_NoDrain(w) ==
  /\ pc[w] = "idle" /\ stopping
  /\ pc' = [pc EXCEPT ![w] = "exit"]
  /\ flush' = Broadcast
  /\ UNCHANGED <<sub, input, inFlight, batch, rest, published, stop, owed, atStop>>

\* Mutant of Cancelled: a worker notices the cancellation with its next item.
Cancelled_WithInput(w) ==
  /\ pc[w] = "idle" /\ stopping /\ input # <<>>
  /\ pc' = [pc EXCEPT ![w] = "drain"]
  /\ UNCHANGED <<sub, input, inFlight, batch, rest, published, stop, flushers, atStop>>

\* The context is done: the worker drains what the channel holds, into one
\* batch of any length.
Cancelled(w) ==
  /\ pc[w] = "idle" /\ stopping
  /\ pc' = [pc EXCEPT ![w] = "drain"]
  /\ UNCHANGED <<sub, input, inFlight, batch, rest, published, stop, flushers, atStop>>

Drain(w) ==
  /\ pc[w] = "drain"
  /\ Take(w)
  /\ UNCHANGED <<sub, inFlight, pc, rest, published, stop, flushers, atStop>>

\* The channel is empty: the batch is processed and the worker returns.
DrainEnd(w) ==
  /\ pc[w] = "drain" /\ input = <<>>
  /\ IF batch[w] = <<>>
     THEN /\ pc' = [pc EXCEPT ![w] = "exit"]
          /\ flush' = Broadcast
          /\ UNCHANGED rest
     ELSE /\ pc' = [pc EXCEPT ![w] = "publishLast"]
          /\ rest' = [rest EXCEPT ![w] = batch[w]]
          /\ UNCHANGED flush
  /\ UNCHANGED <<sub, input, inFlight, batch, published, stop, owed, atStop>>

----------------------------------------------------------------------------
(* processBatch                                                            *)

Of(items, x) == SelectSeq(items, LAMBDA i : ExchangeOf[i] = x)

\* The items processBatch may publish next: grouped by exchange, the groups in
\* any order, each from its first item to its last.
Publishable(w) ==
  {k \in DOMAIN rest[w] :
     LET x == ExchangeOf[rest[w][k]] IN
     /\ \A j \in 1 .. (k - 1) : ExchangeOf[rest[w][j]] # x
     /\ \A i \in ToSet(rest[w]) :
          LET y == ExchangeOf[i] IN y # x => Of(rest[w], y) = Of(batch[w], y)}

\* Publisher.Publish of one item, whatever it returns.
Publish(w) ==
  /\ pc[w] \in {"publish", "publishLast"}
  /\ \E k \in Publishable(w) :
       /\ published' = [published EXCEPT ![rest[w][k]] = @ + 1]
       /\ rest' = [rest EXCEPT ![w] = RemoveAt(@, k)]
  /\ UNCHANGED <<sub, input, inFlight, pc, batch, stop, flushers, atStop>>

\* Mutant of BatchDone: the next batch starts with the items of this one.
BatchDone_KeepBatch(w) ==
  /\ pc[w] \in {"publish", "publishLast"} /\ rest[w] = <<>>
  /\ inFlight' = inFlight - Len(batch[w])
  /\ pc' = [pc EXCEPT ![w] = IF pc[w] = "publish" THEN "idle" ELSE "exit"]
  /\ flush' = IF inFlight' = 0 \/ pc[w] = "publishLast" THEN Broadcast ELSE flush
  /\ UNCHANGED <<sub, input, batch, rest, published, stop, owed, atStop>>

\* Mutant of BatchDone: processBatch gives up on the batch at an error.
BatchDone_GivesUp(w) ==
  /\ pc[w] \in {"publish", "publishLast"}
  /\ inFlight' = inFlight - Len(batch[w])
  /\ batch' = [batch EXCEPT ![w] = <<>>]
  /\ rest' = [rest EXCEPT ![w] = <<>>]
  /\ pc' = [pc EXCEPT ![w] = IF pc[w] = "publish" THEN "idle" ELSE "exit"]
  /\ flush' = IF inFlight' = 0 \/ pc[w] = "publishLast" THEN Broadcast ELSE flush
  /\ UNCHANGED <<sub, input, published, stop, owed, atStop>>

\* All are published: the batch is counted down, and Flush told when nothing
\* is in flight any more; a draining worker broadcasts and returns.
BatchDone(w) ==
  /\ pc[w] \in {"publish", "publishLast"} /\ rest[w] = <<>>
  /\ inFlight' = inFlight - Len(batch[w])
  /\ batch' = [batch EXCEPT ![w] = <<>>]
  /\ pc' = [pc EXCEPT ![w] = IF pc[w] = "publish" THEN "idle" ELSE "exit"]
  /\ flush' = IF inFlight' = 0 \/ pc[w] = "publishLast" THEN Broadcast ELSE flush
  /\ UNCHANGED <<sub, input, rest, published, stop, owed, atStop>>

----------------------------------------------------------------------------
(* Flush and Stop                                                          *)

Returned == {i \in Item : sub[i] = "sent"}

\* cond.L is free: no Flush is between Lock and Wait.
Unlocked == \A f \in Flusher : flush[f] \notin {"check", "decided"}

\* Flush takes cond.L.
Flush(f) ==
  /\ flush[f] = "out" /\ Unlocked
  /\ flush' = [flush EXCEPT ![f] = "check"]
  /\ owed' = [owed EXCEPT ![f] = Returned]
  /\ UNCHANGED <<sub, input, inFlight, workers, stop, atStop>>

\* Mutant of FlushCheck: an empty channel is taken for an idle pipeline.
FlushCheck_InputOnly(f) ==
  /\ flush[f] = "check"
  /\ flush' = [flush EXCEPT ![f] = IF Len(input) > 0 THEN "decided" ELSE "back"]
  /\ UNCHANGED <<sub, input, inFlight, workers, stop, owed, atStop>>

\* The loop condition of Flush.
FlushCheck(f) ==
  /\ flush[f] = "check"
  /\ flush' = [flush EXCEPT ![f] = IF inFlight > 0 \/ Len(input) > 0 THEN "decided" ELSE "back"]
  /\ UNCHANGED <<sub, input, inFlight, workers, stop, owed, atStop>>

\* cond.Wait joins the notify list and unlocks ...
FlushWait(f) ==
  /\ flush[f] = "decided"
  /\ flush' = [flush EXCEPT ![f] = "parked"]
  /\ UNCHANGED <<sub, input, inFlight, workers, stop, owed, atStop>>

\* ... and, after a broadcast, locks again.
FlushRelock(f) ==
  /\ flush[f] = "woken" /\ Unlocked
  /\ flush' = [flush EXCEPT ![f] = "check"]
  /\ UNCHANGED <<sub, input, inFlight, workers, stop, owed, atStop>>

\* Stop cancels the context ...
Stop ==
  /\ stop = "no"
  /\ stop' = "waiting"
  /\ atStop' = Returned
  /\ UNCHANGED <<sub, input, inFlight, workers, flushers>>

\* ... and returns when the workers have.
StopReturn ==
  /\ stop = "waiting"
  /\ \A w \in Worker : pc[w] = "exit"
  /\ stop' = "returned"
  /\ UNCHANGED <<sub, input, inFlight, workers, flushers, atStop>>

----------------------------------------------------------------------------
SubmitStep(i) == Submit(i) \/ Send(i) \/ SubmitDrop(i)
WorkerStep(w) ==
  \/ Gather(w) \/ Fill(w) \/ FillEnd(w)
  \/ Cancelled(w) \/ Drain(w) \/ DrainEnd(w)
  \/ Publish(w) \/ BatchDone(w)
FlushStep(f) == Flush(f) \/ FlushCheck(f) \/ FlushWait(f) \/ FlushRelock(f)

Next ==
  \/ \E i \in Item : SubmitStep(i)
  \/ \E w \in Worker : WorkerStep(w)
  \/ \E f \in Flusher : FlushStep(f)
  \/ Stop \/ StopReturn

Spec == Init /\ [][Next]_vars

\* The Go scheduler runs every goroutine that can run: a worker, a Submit or a
\* Flush that has begun, and the Stop that waits.  Nothing forces a call.
Fairness ==
  /\ \A i \in Item : WF_vars(Send(i) \/ SubmitDrop(i))
  /\ \A w \in Worker : WF_vars(WorkerStep(w))
  /\ \A f \in Flusher : WF_vars(FlushCheck(f) \/ FlushWait(f) \/ FlushRelock(f))
  /\ WF_vars(StopReturn)

FairSpec == Spec /\ Fairness

----------------------------------------------------------------------------
(* Properties                                                              *)

\* Type invariant of the channel, the goroutines and the counters.
TypeOK ==
  /\ sub \in [Item -> {"new", "sending", "sent", "dropped"}]
  /\ input \in Seq(Item) /\ Len(input) <= InputBuffer
  /\ inFlight \in Int
  /\ pc \in [Worker -> {"idle", "fill", "publish", "drain", "publishLast", "exit"}]
  /\ batch \in [Worker -> Seq(Item)]
  /\ rest \in [Worker -> Seq(Item)]
  /\ published \in [Item -> Nat]
  /\ stop \in {"no", "waiting", "returned"}
  /\ flush \in [Flusher -> {"out", "check", "decided", "parked", "woken", "back"}]
  /\ owed \in [Flusher -> SUBSET Item]
  /\ atStop \subseteq Item

\* The items on their way: being sent, in the channel, or in a worker's batch.
OnTheWay ==
  {i \in Item : \/ sub[i] = "sending" \/ i \in ToSet(input)
                \/ \E w \in Worker : i \in ToSet(batch[w])}

\* inFlight ("items submitted but not yet processed") is the number of items on
\* their way, whoever holds them: an item is counted once from the call of Submit
\* to the end of its batch, through hand-overs between channel and workers, drops
\* after Stop and the drain.  What Flush waits for is never missed and never
\* negative, and nothing that is gone stays counted.
InFlightCounts == inFlight = Cardinality(OnTheWay)

\* When Flush returns, every item whose Submit had returned before the call is
\* published ("waits for all pending items to be processed"): items in the
\* batches of workers count, not only those in the channel.
FlushSound == \A f \in Flusher : flush[f] = "back" => \A i \in owed[f] : published[i] = 1

\* When Stop returns, every item whose Submit had returned before the call is
\* published ("Stop shuts down the pipeline gracefully"), whichever worker saw
\* the cancellation first.
StopDrains == stop = "returned" => \A i \in atStop : published[i] = 1

\* The pipeline implements the abstract dispatcher: items are published once,
\* and only after Stop are any dropped.
Bag == INSTANCE WorkBag WITH
  Job <- Item,
  waiting <- {i \in Item : sub[i] \in {"sending", "sent"} /\ published[i] = 0},
  runs <- published,
  dropped <- {i \in Item : sub[i] = "dropped"},
  closed <- stopping
ImplementsWorkBag == Bag!Spec

\* An item that was sent is published, unless Stop intervenes.
SentIsPublished == \A i \in Item : sub[i] = "sent" ~> published[i] = 1 \/ stopping

\* Stop returns: no worker waits for input that does not come.
StopReturns == stop = "waiting" ~> stop = "returned"

\* Flush returns ("Flush drains the input buffer and waits for all pending
\* items to be processed."), unless Stop intervenes.  Does not hold: a broadcast
\* between the loop condition and Wait is lost.
FlushReturns == \A f \in Flusher : flush[f] = "check" ~> flush[f] = "back" \/ stopping
=============================================================================
