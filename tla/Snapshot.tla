------------------------------ MODULE Snapshot ------------------------------
(***************************************************************************)
(* Snapshots of the broker's metadata (internal/server/snapshot.go) and    *)
(* the restart from one (restore.go and cmd/gomqd/main.go), on top of the  *)
(* managers and the store of module Topology.                              *)
(*                                                                         *)
(* The snapshot goroutine lists exchanges, queues and bindings under three *)
(* locks, one after the other, while the handlers go on; it then writes a  *)
(* file and removes old ones.  Virtual hosts and cluster nodes are left    *)
(* out: nothing relates them to the rest.                                  *)
(***************************************************************************)
EXTENDS Topology

CONSTANTS
  RetainCount,   \* cfg.RetainCount; 0 keeps every file
  MaxSnapshots   \* bound: calls of Create

ASSUME SnapshotAssumption == RetainCount \in Nat /\ MaxSnapshots \in Nat

VARIABLES
  files,    \* the directory: snapshot files, oldest first
  snap,     \* where Create is, what it has captured, and as history what has been
            \* there all along (stable) or at some time (seen) since it began
  created,  \* calls of Create so far
  written   \* history: a snapshot was written in full

snapVars == <<files, snap, created, written>>
allVars == <<vars, snapVars>>

\* Exchanges, queues and bindings as one set of facts.
Facts(exs, qs, bs) ==
  {<<"exchange", x, exs[x]>> : x \in {y \in Exchange : exs[y] # Nil}}
    \cup {<<"queue", q, qs[q]>> : q \in {r \in Queue : qs[r] # Nil}}
    \cup {<<"binding", b>> : b \in bs}

\* SnapshotData with nothing captured.
NoData == [exchanges |-> [x \in Exchange |-> Nil], queues |-> [q \in Queue |-> Nil],
           bindings |-> <<>>]
NoSnap == [at |-> "idle", data |-> NoData, stable |-> {}, seen |-> {}]

SInit == Init /\ files = <<>> /\ snap = NoSnap /\ created = 0 /\ written = FALSE

----------------------------------------------------------------------------
(* Create, by the ticker or once at the start                              *)

\* capture lists the exchanges ...
CaptureExchanges ==
  /\ up /\ snap.at = "idle" /\ created < MaxSnapshots
  /\ created' = created + 1
  /\ LET now == Facts(exchanges, queues, Live) IN
     snap' = [at |-> "queues", data |-> [NoData EXCEPT !.exchanges = exchanges],
              stable |-> now, seen |-> now]
  /\ UNCHANGED <<vars, files, written>>

\* ... the queues ...
CaptureQueues ==
  /\ up /\ snap.at = "queues"
  /\ snap' = [snap EXCEPT !.at = "bindings", !.data.queues = queues]
  /\ UNCHANGED <<vars, files, created, written>>

\* The lists of an index one after the other, in any order.
Concatenations(index) ==
  {FlattenSeq([i \in DOMAIN order |-> index[order[i]]]) : order \in SetToSeqs(DOMAIN index)}

\* Mutant of ListAll: the bindings of the index by queue.
ListAll_ByQueue == Concatenations(byQueue)

\* BindingManager.ListAll goes through the index by exchange.
ListAll == Concatenations(byExchange)

\* ... and the bindings.
CaptureBindings ==
  /\ up /\ snap.at = "bindings"
  /\ \E list \in ListAll : snap' = [snap EXCEPT !.at = "write", !.data.bindings = list]
  /\ UNCHANGED <<vars, files, created, written>>

\* WriteFile creates the file ...
WriteBegins ==
  /\ up /\ snap.at = "write"
  /\ files' = Append(files, [complete |-> FALSE, data |-> snap.data])
  /\ snap' = [NoSnap EXCEPT !.at = "writing"]
  /\ UNCHANGED <<vars, created, written>>

\* ... and fills it; retain follows when it has a limit ...
WriteEnds ==
  /\ up /\ snap.at = "writing"
  /\ files' = [files EXCEPT ![Len(files)].complete = TRUE]
  /\ written' = TRUE
  /\ snap' = [NoSnap EXCEPT !.at = IF RetainCount > 0 THEN "retain" ELSE "idle"]
  /\ UNCHANGED <<vars, created>>

\* Mutant of WriteFails: the error is logged and Create goes on.
WriteFails_GoesOn ==
  /\ up /\ snap.at \in {"write", "writing"}
  /\ snap' = [NoSnap EXCEPT !.at = "retain"]
  /\ UNCHANGED <<vars, files, created, written>>

\* ... or fails, before there is a file or half way, which leaves what was
\* written and ends Create.
WriteFails ==
  /\ up /\ snap.at \in {"write", "writing"}
  /\ snap' = NoSnap
  /\ UNCHANGED <<vars, files, created, written>>

\* retain removes the files beyond the RetainCount newest one by one, whole or
\* not.  Each was written once, so the order of ModTime is that of creation.
\* ReadDir or a Remove may fail, which leaves files where they are.
Retain ==
  /\ up /\ snap.at = "retain"
  /\ \/ \E i \in 1 .. Len(files) - RetainCount : files' = RemoveAt(files, i) /\ UNCHANGED snap
     \/ snap' = NoSnap /\ UNCHANGED files
  /\ UNCHANGED <<vars, created, written>>

Create ==
  \/ CaptureExchanges \/ CaptureQueues \/ CaptureBindings
  \/ WriteBegins \/ WriteEnds \/ WriteFails \/ Retain

----------------------------------------------------------------------------
(* Crash and restart                                                       *)

\* The file being written stays as it is.
SCrash == Crash /\ snap' = NoSnap /\ UNCHANGED <<files, created, written>>

Start == RestoreFromStore /\ UNCHANGED snapVars

\* The exchanges RestoreFromStore leaves.
Loaded == [x \in Exchange |-> IF x \in Builtin THEN BuiltinType[x] ELSE savedExchanges[x]]

\* A file cut short does not parse.
LoadSnapshot(file) == file.complete

\* A start with --restore: RestoreFromStore, then LoadSnapshot and RestoreFromSnapshot.
\* Declarations that are there stay, with an error when they differ from the snapshot's;
\* without one the store is told of each.  Bindings are bound whether or not the store
\* brought them.
RestoreFromSnapshot(file) ==
  LET data == file.data IN
  /\ ~up /\ LoadSnapshot(file)
  /\ up' = TRUE
  /\ queues' = [q \in Queue |-> IF savedQueues[q] # Nil THEN savedQueues[q] ELSE data.queues[q]]
  /\ exchanges' = [x \in Exchange |-> IF Loaded[x] # Nil THEN Loaded[x] ELSE data.exchanges[x]]
  /\ savedQueues' = queues'
  /\ savedExchanges' = [x \in Exchange |-> IF exchanges'[x] = data.exchanges[x]
                                           THEN exchanges'[x] ELSE savedExchanges[x]]
  /\ savedBindings' = savedBindings \cup ToSet(data.bindings)
  /\ \E list \in SetToSeqs(savedBindings) :
       LET all == BoundAll(list \o data.bindings) IN
       byExchange' = all.byExchange /\ byQueue' = all.byQueue
  /\ UNCHANGED <<e2e, op, failures, cascaded, snapVars>>

----------------------------------------------------------------------------
\* A handler's step, which the histories of a capture follow.
Handle(c) ==
  /\ Handler(c)
  /\ IF snap.at \in {"queues", "bindings"}
     THEN LET now == Facts(exchanges', queues', Live') IN
          snap' = [snap EXCEPT !.stable = @ \cap now, !.seen = @ \cup now]
     ELSE UNCHANGED snap
  /\ UNCHANGED <<files, created, written>>

SNext ==
  \/ \E c \in Conn : Handle(c)
  \/ Create \/ SCrash \/ Start
  \/ \E i \in DOMAIN files : RestoreFromSnapshot(files[i])

SSpec == SInit /\ [][SNext]_allVars

----------------------------------------------------------------------------
(* Properties                                                              *)

\* Once a snapshot was written in full, one stays on disk, whatever writes fail or
\* crash half way and whatever retain removes.
SnapshotKept == written => \E i \in DOMAIN files : files[i].complete

\* capture, whose three lists are taken at different moments: what was there all along
\* is in the snapshot with its type or arguments, and the snapshot holds nothing that
\* was not there at some moment of it.
SnapshotSound ==
  snap.at = "write" =>
    LET facts == Facts(snap.data.exchanges, snap.data.queues, ToSet(snap.data.bindings)) IN
    snap.stable \subseteq facts /\ facts \subseteq snap.seen
=============================================================================
