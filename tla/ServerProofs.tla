---------------------------- MODULE ServerProofs ----------------------------
(***************************************************************************)
(* Theorems about modules Connection and Server, the inside and the        *)
(* outside of a connection's life.  Of a connection: its type invariant,   *)
(* and that the goroutine of Serve and the heartbeat monitor never tear it *)
(* down both, for any socket buffer, heartbeat and set of channels.  Of    *)
(* the server: Shutdown waits for every connection it found, for any       *)
(* clients, listeners and reloads.                                         *)
(***************************************************************************)
EXTENDS Connection, Server, FiniteSetTheorems, TLAPS

----------------------------------------------------------------------------
(* Connection                                                              *)

Handshaking == serving \in {"header", "startOk", "tuneOk", "openOk"}

\* What OneCloser needs: whoever is in the middle of Close has set the state,
\* which keeps the other out and which only the handshake, before the monitor starts,
\* could set back.
ConnectionInv ==
  /\ TypeOK
  /\ Handshaking => heart = "none" /\ state = "header"
  /\ serving \in Closing \/ heart \in Closing => state = "closing"
  /\ OneCloser

LEMMA ConnectionInit == Init => ConnectionInv
<1> SUFFICES ASSUME Init PROVE ConnectionInv
  OBVIOUS
<1>1. sock \in BOOLEAN /\ hbStopped \in BOOLEAN
  BY Zenon DEF Init
<1>2. TypeOK
  BY <1>1, ConnectionAssumption DEF Init, TypeOK
<1> QED
  BY <1>2 DEF Init, ConnectionInv, Handshaking, OneCloser, Closing

\* The client, the socket and the tests.
LEMMA OutsideInv ==
  ConnectionInv /\ (FallSilent \/ WakeUp \/ Leave \/ WriteEnds \/ \E ch \in Chan : CreateChannel(ch))
    => ConnectionInv'
<1> SUFFICES ASSUME ConnectionInv, FallSilent \/ WakeUp \/ Leave \/ WriteEnds
                           \/ \E ch \in Chan : CreateChannel(ch)
             PROVE  ConnectionInv'
  OBVIOUS
<1> USE DEF ConnectionInv, TypeOK, Handshaking, OneCloser, Closing, monitor, wire
<1>1. CASE FallSilent
  BY <1>1 DEF FallSilent
<1>2. CASE WakeUp
  BY <1>2, ConnectionAssumption DEF WakeUp
<1>3. CASE Leave
  BY <1>3 DEF Leave
<1>4. CASE WriteEnds
  BY <1>4 DEF WriteEnds
<1>5. CASE \E ch \in Chan : CreateChannel(ch)
  BY <1>5 DEF CreateChannel
<1> QED
  BY <1>1, <1>2, <1>3, <1>4, <1>5

\* The handshake, the frame loop and the closing of the serving goroutine.
LEMMA ServingInv == ConnectionInv /\ ServingStep => ConnectionInv'
<1> SUFFICES ASSUME ConnectionInv, ServingStep PROVE ConnectionInv'
  OBVIOUS
<1> USE DEF ConnectionInv, TypeOK, Handshaking, OneCloser, Closing, monitor, wire
<1>1. CASE readProtocolHeader \/ readStartOk \/ readOpenOk
  BY <1>1 DEF readProtocolHeader, readStartOk, readOpenOk, NegotiateStep
<1>2. CASE NegotiateFails
  BY <1>2 DEF NegotiateFails
<1>3. ASSUME NEW hb \in Proposal, readTuneOk(hb) PROVE ConnectionInv'
  <2>1. heartbeat' \in 1 .. Heartbeat
    BY <1>3, ConnectionAssumption DEF readTuneOk, Tuned
  <2> QED
    BY <1>3, <2>1 DEF readTuneOk, NegotiateStep
<1>4. CASE IgnoreFrame \/ Dispatch \/ ClientCloses
  BY <1>4 DEF IgnoreFrame, Dispatch, ClientCloses, Received
<1>5. CASE Answer
  BY <1>5, ConnectionAssumption DEF Answer, sendFrame
<1>6. CASE Answered \/ HandlerFails \/ LoopEnds
  <2>1. CASE Answered
    BY <2>1 DEF Answered
  <2>2. CASE HandlerFails
    BY <2>2 DEF HandlerFails
  <2>3. CASE LoopEnds
    BY <2>3 DEF LoopEnds
  <2> QED
    BY <1>6, <2>1, <2>2, <2>3
<1>7. CASE ServingClose("close", "done") \/ ServingClose("clientClose", "loop")
  BY <1>7 DEF ServingClose, CloseBegins, AlreadyClosing
<1>8. CASE ServingCloses
  BY <1>8 DEF ServingCloses, CloseStep, CloseChannels, AskState, CloseSocket, SetClosed
<1> QED
  BY <1>1, <1>2, <1>3, <1>4, <1>5, <1>6, <1>7, <1>8 DEF ServingStep

\* The monitor.
LEMMA HeartInv == ConnectionInv /\ HeartStep => ConnectionInv'
<1> SUFFICES ASSUME ConnectionInv, HeartStep PROVE ConnectionInv'
  OBVIOUS
<1> USE DEF ConnectionInv, TypeOK, Handshaking, OneCloser, Closing, monitor, wire
<1>1. CASE Tick \/ Beat
  <2>1. CASE Tick
    <3>1. age' \in 0 .. 2
      BY <2>1 DEF Tick, isPeerSilent
    <3> QED
      BY <2>1, <3>1 DEF Tick
  <2>2. CASE Beat
    BY <2>2, ConnectionAssumption DEF Beat, sendFrame
  <2> QED
    BY <1>1, <2>1, <2>2
<1>2. CASE BeatEnds \/ Silent \/ HeartStops
  <2>1. CASE BeatEnds
    BY <2>1 DEF BeatEnds
  <2>2. CASE Silent
    BY <2>2 DEF Silent
  <2>3. CASE HeartStops
    BY <2>3 DEF HeartStops
  <2> QED
    BY <1>2, <2>1, <2>2, <2>3
<1>3. CASE HeartClose
  BY <1>3 DEF HeartClose, CloseBegins, AlreadyClosing
<1>4. CASE HeartCloses
  BY <1>4 DEF HeartCloses, CloseStep, CloseChannels, AskState, CloseSocket, SetClosed
<1> QED
  BY <1>1, <1>2, <1>3, <1>4 DEF HeartStep

LEMMA ConnectionInvariance == Spec => []ConnectionInv
<1>1. ConnectionInv /\ [Next]_vars => ConnectionInv'
  <2> SUFFICES ASSUME ConnectionInv, [Next]_vars PROVE ConnectionInv'
    OBVIOUS
  <2>1. CASE Next
    BY <2>1, OutsideInv, ServingInv, HeartInv DEF Next
  <2>2. CASE UNCHANGED vars
    BY <2>2 DEF ConnectionInv, TypeOK, Handshaking, OneCloser, Closing, vars, wire, monitor
  <2> QED
    BY <2>1, <2>2
<1> QED
  BY <1>1, ConnectionInit, PTL DEF Spec

\* The fields of Connection and HeartbeatMonitor keep their types; the negotiated
\* interval is never 0, so Start always runs the monitor's loop.
THEOREM TypeCorrect == Spec => []TypeOK
<1>1. ConnectionInv => TypeOK
  BY DEF ConnectionInv
<1> QED
  BY <1>1, ConnectionInvariance, PTL

\* Connection.Close has one winner: the test and the setting of the state under mu let
\* one of its two callers through.
THEOREM OneCloserTheorem == Spec => []OneCloser
<1>1. ConnectionInv => OneCloser
  BY DEF ConnectionInv
<1> QED
  BY <1>1, ConnectionInvariance, PTL

----------------------------------------------------------------------------
(* Server                                                                  *)

Status == {"absent", "backlog", "limited", "allowed", "start", "serve", "ending", "finished",
           "refused", "reset"}

\* A record of a doReload.
IsReload(r) == r = [by |-> r.by, at |-> r.at, cfg |-> r.cfg]

\* The wait group counts the goroutines of handleConn.
Counted == wg = Cardinality(Served)

\* What ShutdownWaits needs besides the count: a connection Shutdown found is served or
\* has finished, never accepted a second time, and no reload takes main back from the
\* shutdown to the signal loop.
ServerInv ==
  /\ conn \in [Client -> Status]
  /\ Counted
  /\ known \subseteq {c \in Client : conn[c] \in {"start", "serve", "ending", "finished"}}
  /\ reloading = None \/ IsReload(reloading)
  /\ reloading # None /\ reloading.by = "main" => main \in {"reloading", "panic"}
  /\ ShutdownWaits

LEMMA ServedFinite == IsFiniteSet(Served) /\ Cardinality(Served) \in Nat
<1>1. Served \in SUBSET Client
  BY DEF Served
<1>2. IsFiniteSet(Served)
  BY <1>1, FS_Subset, ServerAssumption
<1> QED
  BY <1>2, FS_CardinalityType

LEMMA ServerInitInv == ServerInit => ServerInv
<1> SUFFICES ASSUME ServerInit PROVE ServerInv
  OBVIOUS
<1>1. Served = {}
  BY DEF ServerInit, Served
<1>2. Counted
  BY <1>1, FS_EmptySet DEF ServerInit, Counted
<1> QED
  BY <1>2 DEF ServerInit, ServerInv, Status, ShutdownWaits

\* A step that leaves the served connections and main's shutdown alone.
LEMMA SameServed ==
  ASSUME ServerInv, conn' \in [Client -> Status], Served' = Served, wg' = wg, known' = known,
         \A c \in known : conn'[c] = conn[c],
         reloading' = reloading, main' = main
  PROVE  ServerInv'
<1>1. Counted'
  BY DEF ServerInv, Counted
<1> QED
  BY <1>1 DEF ServerInv, ShutdownWaits

\* The accept loops and handleConn.
LEMMA FrontInv ==
  ASSUME ServerInv, NEW c \in Client, NEW l \in Loop,
         \/ Dial(c) \/ Accept(l, c) \/ Allow(l, c) \/ Refuse(l, c) \/ AcceptFails(l)
         \/ registerConn(c) \/ unregisterConn(c)
  PROVE  ServerInv'
<1>1. conn \in [Client -> Status]
  BY DEF ServerInv
<1>2. /\ conn' \in [Client -> Status] /\ Served' = Served
      /\ \A k \in known : conn'[k] = conn[k] \/ conn'[k] \in {"serve", "ending"}
      /\ \A k \in Client : conn'[k] = conn[k] \/ k = c
      /\ c \in known => conn'[c] = conn[c] \/ conn'[c] \in {"serve", "ending"}
  BY <1>1 DEF ServerInv, Dial, Accept, Allow, Refuse, AcceptFails, registerConn, unregisterConn,
      Status, Served
<1>3. wg' = wg /\ known' = known /\ reloading' = reloading /\ main' = main
  BY DEF Dial, Accept, Allow, Refuse, AcceptFails, registerConn, unregisterConn
<1>4. Counted'
  BY <1>2, <1>3 DEF ServerInv, Counted
<1> QED
  BY <1>2, <1>3, <1>4 DEF ServerInv, ShutdownWaits

\* A connection is counted in: it was not served, nor known to Shutdown.
LEMMA StartInv ==
  ASSUME ServerInv, NEW c \in Client, NEW l \in Loop, Start(l, c)
  PROVE  ServerInv'
<1>1. /\ conn \in [Client -> Status] /\ conn[c] = "allowed"
      /\ conn' = [conn EXCEPT ![c] = "start"] /\ wg' = wg + 1
      /\ known' = known /\ reloading' = reloading /\ main' = main
  BY DEF ServerInv, Start
<1>2. Served' = Served \cup {c} /\ c \notin Served /\ c \notin known
  BY <1>1 DEF ServerInv, Served
<1>3. Counted'
  BY <1>1, <1>2, ServedFinite, FS_AddElement DEF ServerInv, Counted
<1> QED
  BY <1>1, <1>2, <1>3 DEF ServerInv, ShutdownWaits, Status

\* A connection is counted out.
LEMMA DoneInv ==
  ASSUME ServerInv, NEW c \in Client, handleConnDone(c)
  PROVE  ServerInv'
<1>1. /\ conn \in [Client -> Status] /\ conn[c] = "ending"
      /\ conn' = [conn EXCEPT ![c] = "finished"] /\ wg' = wg - 1
      /\ known' = known /\ reloading' = reloading /\ main' = main
  BY DEF ServerInv, handleConnDone
<1>2. Served' = Served \ {c} /\ c \in Served
  BY <1>1 DEF Served
<1>3. Counted'
  BY <1>1, <1>2, ServedFinite, FS_RemoveElement DEF ServerInv, Counted
<1> QED
  BY <1>1, <1>2, <1>3 DEF ServerInv, ShutdownWaits, Status

\* Steps that leave the accept loops and the connections alone.
LEMMA BehindInv ==
  ASSUME ServerInv, main # "panic", UNCHANGED front,
         reloading' = None \/ IsReload(reloading'),
         reloading' # None /\ reloading'.by = "main" => main' \in {"reloading", "panic"},
         main' = "exit" => main = "exit" \/ wg = 0
  PROVE  ServerInv'
<1>1. Served' = Served /\ known' = known /\ wg' = wg /\ conn' = conn
  BY DEF front, Served
<1>2. Counted'
  BY <1>1 DEF ServerInv, Counted
<1>3. wg = 0 => Served = {}
  BY ServedFinite, FS_EmptySet DEF ServerInv, Counted
<1> QED
  BY <1>1, <1>2, <1>3 DEF ServerInv, ShutdownWaits

\* The reloader: whoever holds r.mu gives it back to the caller it has.
LEMMA ReloadInv ==
  ASSUME ServerInv, main # "panic",
         \/ Refill \/ TakeAway \/ Edit \/ WatchEvent \/ TimerFires \/ WatchEnds
         \/ TimerReload \/ Sighup \/ HupReload \/ ReloadStep \/ StopReloader
  PROVE  ServerInv'
<1> USE DEF ServerInv, IsReload
<1>1. CASE Refill \/ TakeAway \/ Edit \/ WatchEvent \/ TimerFires \/ WatchEnds
  BY <1>1, BehindInv DEF Refill, TakeAway, Edit, WatchEvent, TimerFires, WatchEnds
<1>2. CASE TimerReload \/ HupReload
  BY <1>2, BehindInv DEF TimerReload, HupReload, Lock
<1>3. CASE Sighup \/ StopReloader
  BY <1>3, BehindInv DEF Sighup, StopReloader
<1>4. CASE ReloadStep
  <2>1. CASE Stat
    BY <2>1, BehindInv DEF Stat, ReloadReturns
  <2>2. CASE Load
    BY <2>2, BehindInv DEF Load, ReloadReturns
  <2>3. CASE ReloadConfig
    BY <2>3, BehindInv DEF ReloadConfig, ReloadReturns
  <2> QED
    BY <1>4, <2>1, <2>2, <2>3 DEF ReloadStep
<1> QED
  BY <1>1, <1>2, <1>3, <1>4

\* Shutdown notes the connections that are served.
LEMMA ShutdownInv == ASSUME ServerInv, Shutdown PROVE ServerInv'
<1>1. /\ conn \in [Client -> Status]
      /\ conn' = [c \in Client |-> IF conn[c] = "backlog" THEN "reset" ELSE conn[c]]
      /\ known' = Served /\ wg' = wg /\ main' = "waiting" /\ reloading' = reloading
      /\ main = "stopped"
  BY DEF ServerInv, Shutdown
<1>2. Served' = Served /\ conn' \in [Client -> Status]
  BY <1>1 DEF Served, Status
<1>3. Counted'
  BY <1>1, <1>2 DEF ServerInv, Counted
<1>4. known' \subseteq {c \in Client : conn'[c] \in {"start", "serve", "ending", "finished"}}
  BY <1>1 DEF Served
<1> QED
  BY <1>1, <1>2, <1>3, <1>4 DEF ServerInv, ShutdownWaits

LEMMA ServerInvariance == ServerSpec => []ServerInv
<1>1. ServerInv /\ [ServerNext]_ServerVars => ServerInv'
  <2> SUFFICES ASSUME ServerInv, [ServerNext]_ServerVars PROVE ServerInv'
    OBVIOUS
  <2>1. CASE ServerNext
    <3>1. main # "panic"
      BY <2>1 DEF ServerNext
    <3>2. ASSUME NEW c \in Client, Dial(c) \/ registerConn(c) \/ unregisterConn(c)
          PROVE  ServerInv'
      <4>1. PICK l \in Loop : TRUE
        BY ServerAssumption
      <4> QED
        BY <3>2, <4>1, FrontInv
    <3>3. ASSUME NEW c \in Client, handleConnDone(c) PROVE ServerInv'
      BY <3>3, DoneInv
    <3>4. ASSUME NEW l \in Loop, NEW c \in Client,
                 Accept(l, c) \/ Allow(l, c) \/ Refuse(l, c)
          PROVE  ServerInv'
      BY <3>4, FrontInv
    <3>5. ASSUME NEW l \in Loop, NEW c \in Client, Start(l, c) PROVE ServerInv'
      BY <3>5, StartInv
    <3>6. ASSUME NEW l \in Loop, AcceptFails(l) PROVE ServerInv'
      BY <3>6, SameServed DEF AcceptFails, ServerInv, Served
    <3>7. ASSUME NEW l \in Loop, NEW c \in Client, AllowPanics(l, c) PROVE ServerInv'
      BY <3>1, <3>7, BehindInv DEF AllowPanics, ServerInv
    <3>8. CASE ShutdownReturns
      BY <3>1, <3>8, BehindInv DEF ShutdownReturns, ServerInv
    <3> QED
      BY <2>1, <3>1, <3>2, <3>3, <3>4, <3>5, <3>6, <3>7, <3>8, ReloadInv, ShutdownInv
      DEF ServerNext, LoopStep
  <2>2. CASE UNCHANGED ServerVars
    BY <2>2, SameServed DEF ServerInv, ServerVars, front, Served
  <2> QED
    BY <2>1, <2>2
<1> QED
  BY <1>1, ServerInitInv, PTL DEF ServerSpec

\* Server.wg is the number of connections between wg.Add in the accept loop and the
\* deferred Done of handleConn, whatever the limiter, the reloads and the shutdown do.
THEOREM CountTheorem == ServerSpec => []Counted
<1>1. ServerInv => Counted
  BY DEF ServerInv
<1> QED
  BY <1>1, ServerInvariance, PTL

\* When Server.Shutdown returns, every connection counted in when it was called has
\* finished.
THEOREM ShutdownTheorem == ServerSpec => []ShutdownWaits
<1>1. ServerInv => ShutdownWaits
  BY DEF ServerInv
<1> QED
  BY <1>1, ServerInvariance, PTL
=============================================================================
