----------------------------- MODULE Connection -----------------------------
(***************************************************************************)
(* One client connection (internal/server/connection.go): the handshake    *)
(* (handshake.go), the frame loop, the heartbeat monitor (heartbeat.go)    *)
(* and Close.                                                              *)
(*                                                                         *)
(* The goroutine that serves the connection and its monitor share          *)
(* Connection.mu: a frame is written to the socket with mu held, so a      *)
(* write that blocks keeps it, and State(), which Close calls before it    *)
(* closes the socket, waits for it.  No other goroutine writes to the      *)
(* connection: deliveries and flushes hand SendFrame a nil frame, which it *)
(* ignores.  Time is counted in ticks of the heartbeat ticker.             *)
(***************************************************************************)
EXTENDS Integers

CONSTANTS
  Chan,         \* channel numbers
  Proposal,     \* the heartbeat intervals a client may propose in Tune-Ok
  Heartbeat,    \* the interval the server proposes
  SendBuffer    \* frames the socket takes from the server before a write blocks

ASSUME ConnectionAssumption ==
  /\ Proposal \subseteq Nat
  /\ Heartbeat \in Nat \ {0}
  /\ SendBuffer \in Nat

VARIABLES
  peer,       \* the client: sends and reads, is silent, or has gone
  sock,       \* is the server's end of the socket open?
  unread,     \* frames the silent client has not read
  mu,         \* the goroutine that holds Connection.mu in a blocked write
  state,      \* Connection.state
  channels,   \* ChannelManager.channels
  heartbeat,  \* the negotiated interval
  serving,    \* where the goroutine that runs Serve is
  heart,      \* where the monitor's goroutine is
  hbStopped,  \* is HeartbeatMonitor.stopCh closed?
  age         \* ticks since lastRecv

wire == <<peer, sock, unread, mu>>
monitor == <<heart, hbStopped, age>>
vars == <<wire, state, channels, heartbeat, serving, monitor>>

Init ==
  /\ peer = "up" /\ sock = TRUE /\ unread = 0 /\ mu = "free"
  /\ state = "header"
  /\ channels = {}
  /\ heartbeat = Heartbeat
  /\ serving = "header"
  /\ heart = "none" /\ hbStopped = FALSE /\ age = 0

----------------------------------------------------------------------------
(* The client and the socket                                               *)

\* The client stops sending and reading, with its socket open, ...
FallSilent ==
  /\ peer = "up"
  /\ peer' = "silent"
  /\ UNCHANGED <<sock, unread, mu, state, channels, heartbeat, serving, monitor>>

\* ... and may come back and read what it was sent.
WakeUp ==
  /\ peer = "silent"
  /\ peer' = "up"
  /\ unread' = 0
  /\ UNCHANGED <<sock, mu, state, channels, heartbeat, serving, monitor>>

\* The client's end of the socket is closed or reset.
Leave ==
  /\ peer # "gone"
  /\ peer' = "gone"
  /\ UNCHANGED <<sock, unread, mu, state, channels, heartbeat, serving, monitor>>

\* sendFrame by goroutine g: the frame is taken, or the socket is dead and the
\* error ignored, or the write blocks with mu held.
sendFrame(g) ==
  /\ mu = "free"
  /\ IF peer = "silent" /\ sock
     THEN IF unread < SendBuffer
          THEN unread' = unread + 1 /\ UNCHANGED mu
          ELSE mu' = g /\ UNCHANGED unread
     ELSE UNCHANGED <<unread, mu>>
  /\ UNCHANGED <<peer, sock>>

\* A blocked write ends when the client reads again or the socket dies.
WriteEnds ==
  /\ mu # "free"
  /\ peer # "silent" \/ ~sock
  /\ mu' = "free"
  /\ UNCHANGED <<peer, sock, unread, state, channels, heartbeat, serving, monitor>>

----------------------------------------------------------------------------
(* The handshake                                                           *)

\* Negotiate goes on to the next read when the client sends what is expected.
\* What the server sends in between fits the socket's buffer.
NegotiateStep(from, to) ==
  /\ serving = from /\ peer = "up"
  /\ serving' = to
  /\ UNCHANGED <<wire, channels>>

readProtocolHeader ==
  /\ NegotiateStep("header", "startOk")
  /\ UNCHANGED <<state, heartbeat, monitor>>

\* The mechanism is known and the credentials are right.
readStartOk ==
  /\ NegotiateStep("startOk", "tuneOk")
  /\ UNCHANGED <<state, heartbeat, monitor>>

\* Mutant of Tuned: 0 is taken for a smaller interval.
Tuned_Zero(hb) == IF hb < heartbeat THEN hb ELSE heartbeat

\* The client may lower the interval, and cannot switch heartbeats off.
Tuned(hb) == IF hb > 0 /\ hb < heartbeat THEN hb ELSE heartbeat

readTuneOk(hb) ==
  /\ NegotiateStep("tuneOk", "openOk")
  /\ heartbeat' = Tuned(hb)
  /\ UNCHANGED <<state, monitor>>

\* The handshake is over: the state is Open and the monitor started.
readOpenOk ==
  /\ NegotiateStep("openOk", "loop")
  /\ state' = "open"
  /\ heart' = "tick" /\ age' = 0
  /\ UNCHANGED <<heartbeat, hbStopped>>

\* Mutant of NegotiateFails: an error of readFrame is not looked at.
NegotiateFails_Header ==
  /\ serving \in {"header", "startOk", "tuneOk", "openOk"}
  /\ peer = "up" \/ serving = "header"
  /\ serving' = "close"
  /\ UNCHANGED <<wire, state, channels, heartbeat, monitor>>

\* Negotiate returns an error: the client sent something else or the wrong
\* credentials, is gone, or let the deadline pass, which only the protocol
\* header has.
NegotiateFails ==
  /\ serving \in {"header", "startOk", "tuneOk", "openOk"}
  /\ peer # "silent" \/ serving = "header"
  /\ serving' = "close"
  /\ UNCHANGED <<wire, state, channels, heartbeat, monitor>>

----------------------------------------------------------------------------
(* The frame loop                                                          *)

\* ChannelManager.Create.  Its only callers are tests, which create a channel
\* before its first frame arrives.
CreateChannel(ch) ==
  /\ serving = "loop" /\ state = "open"
  /\ channels' = channels \cup {ch}
  /\ UNCHANGED <<wire, state, heartbeat, serving, monitor>>

\* HeartbeatMonitor.Expect.
Received == age' = 0

\* A frame arrives and is handled without an answer: a heartbeat, a frame for a
\* channel that is not there, a method that needs none.
IgnoreFrame ==
  /\ serving = "loop" /\ state = "open" /\ mu = "free"
  /\ peer = "up" /\ sock
  /\ Received
  /\ UNCHANGED <<wire, state, channels, heartbeat, serving, heart, hbStopped>>

\* A frame for a channel is dispatched to its handler, ...
Dispatch ==
  /\ serving = "loop" /\ state = "open" /\ mu = "free" /\ channels # {}
  /\ peer = "up" /\ sock
  /\ Received
  /\ serving' = "handle"
  /\ UNCHANGED <<wire, state, channels, heartbeat, heart, hbStopped>>

\* ... which answers ...
Answer ==
  /\ serving = "handle"
  /\ sendFrame("serving")
  /\ serving' = "answered"
  /\ UNCHANGED <<state, channels, heartbeat, monitor>>

Answered ==
  /\ serving = "answered" /\ mu # "serving"
  /\ serving' = "loop"
  /\ UNCHANGED <<wire, state, channels, heartbeat, monitor>>

\* ... or returns an error, which ends the connection.
HandlerFails ==
  /\ serving = "handle"
  /\ serving' = "close" /\ hbStopped' = TRUE
  /\ UNCHANGED <<wire, state, channels, heartbeat, heart, age>>

\* Connection.Close arrives: handleConnectionFrame closes.
ClientCloses ==
  /\ serving = "loop" /\ state = "open" /\ mu = "free"
  /\ peer = "up" /\ sock
  /\ Received
  /\ serving' = "clientClose"
  /\ UNCHANGED <<wire, state, channels, heartbeat, heart, hbStopped>>

\* The loop ends, because the connection is no longer Open or its socket cannot
\* be read; the deferred hb.Stop.
LoopEnds ==
  /\ serving = "loop"
  /\ \/ state # "open" /\ mu = "free"
     \/ peer = "gone" \/ ~sock
  /\ serving' = "close" /\ hbStopped' = TRUE
  /\ UNCHANGED <<wire, state, channels, heartbeat, heart, age>>

----------------------------------------------------------------------------
(* Connection.Close, by the serving goroutine and by the monitor           *)

\* Mutant of CloseBegins: the state is not looked at, and a second caller goes on.
CloseBegins_Both == mu = "free" /\ state' = "closing"

\* The first caller goes on; another returns at once.
CloseBegins ==
  /\ mu = "free"
  /\ state \notin {"closing", "closed"}
  /\ state' = "closing"

AlreadyClosing == mu = "free" /\ state \in {"closing", "closed"} /\ UNCHANGED state

\* It stops the monitor and closes the channels, ...
CloseChannels ==
  /\ hbStopped' = (hbStopped \/ heart # "none")
  /\ channels' = {}
  /\ UNCHANGED <<wire, state>>

\* ... asks State() whether Connection.Close is to be sent, for which it needs mu; it
\* is not, because the state it would be sent in, Open, is over; ...
AskState == mu = "free" /\ UNCHANGED <<wire, state, channels, hbStopped>>

\* Mutant of CloseSocket: the socket is left to the reader to close.
CloseSocket_Keep == UNCHANGED <<wire, state, channels, hbStopped>>

\* ... closes the socket, whoever holds mu, ...
CloseSocket ==
  /\ sock' = FALSE
  /\ UNCHANGED <<peer, unread, mu, state, channels, hbStopped>>

\* ... and sets the state.
SetClosed ==
  /\ mu = "free"
  /\ state' = "closed"
  /\ UNCHANGED <<wire, channels, hbStopped>>

\* The steps of the caller that goes on, between places from and to.
CloseStep(from, to) ==
  \/ from = "closing" /\ to = "asking" /\ CloseChannels
  \/ from = "asking" /\ to = "cutting" /\ AskState
  \/ from = "cutting" /\ to = "cut" /\ CloseSocket
  \/ from = "cut" /\ to = "done" /\ SetClosed

Closing == {"closing", "asking", "cutting", "cut"}

\* The deferred Close of Serve, and the one of handleConnectionFrame.
ServingClose(from, to) ==
  /\ serving = from
  /\ \/ CloseBegins /\ serving' = "closing"
     \/ AlreadyClosing /\ serving' = to
  /\ UNCHANGED <<wire, channels, heartbeat, monitor>>

\* What Serve does after its own Close, or the client's, changes nothing more.
ServingCloses ==
  /\ serving' \in Closing \cup {"done"} /\ CloseStep(serving, serving')
  /\ UNCHANGED <<heartbeat, heart, age>>

ServingStep ==
  \/ readProtocolHeader \/ readStartOk \/ readOpenOk \/ NegotiateFails
  \/ \E hb \in Proposal : readTuneOk(hb)
  \/ IgnoreFrame \/ Dispatch \/ Answer \/ Answered \/ HandlerFails \/ ClientCloses \/ LoopEnds
  \/ ServingClose("close", "done") \/ ServingClose("clientClose", "loop") \/ ServingCloses

----------------------------------------------------------------------------
(* HeartbeatMonitor                                                        *)

\* May isPeerSilent give this answer at the next tick?  The k-th tick after the last
\* frame comes between k - 1 and k intervals after it, so more than two intervals have
\* passed at the third, may have passed at the second, and have not at the first.
isPeerSilent(answer) == IF answer THEN age + 1 >= 2 ELSE age + 1 <= 2

\* The ticker fires and the client is not silent: a heartbeat is to be sent, ...
Tick ==
  /\ heart = "tick" /\ isPeerSilent(FALSE)
  /\ age' = age + 1
  /\ heart' = "beat"
  /\ UNCHANGED <<wire, state, channels, heartbeat, serving, hbStopped>>

Beat ==
  /\ heart = "beat"
  /\ sendFrame("heart")
  /\ heart' = IF mu' = "heart" THEN "beating" ELSE "tick"
  /\ UNCHANGED <<state, channels, heartbeat, serving, hbStopped, age>>

BeatEnds ==
  /\ heart = "beating" /\ mu # "heart"
  /\ heart' = "tick"
  /\ UNCHANGED <<wire, state, channels, heartbeat, serving, hbStopped, age>>

\* Mutant of Silent: the monitor returns and leaves the connection open.
Silent_Returns ==
  /\ heart = "tick" /\ isPeerSilent(TRUE)
  /\ heart' = "done"
  /\ UNCHANGED <<wire, state, channels, heartbeat, serving, hbStopped, age>>

\* ... or the connection of a silent client is to be closed.
Silent ==
  /\ heart = "tick" /\ isPeerSilent(TRUE)
  /\ heart' = "close"
  /\ UNCHANGED <<wire, state, channels, heartbeat, serving, hbStopped, age>>

HeartClose ==
  /\ heart = "close"
  /\ \/ CloseBegins /\ heart' = "closing"
     \/ AlreadyClosing /\ heart' = "done"
  /\ UNCHANGED <<wire, channels, heartbeat, serving, hbStopped, age>>

HeartCloses ==
  /\ heart' \in Closing \cup {"done"} /\ CloseStep(heart, heart')
  /\ UNCHANGED <<heartbeat, serving, age>>

\* stopCh is closed: the monitor's goroutine ends.
HeartStops ==
  /\ heart = "tick" /\ hbStopped
  /\ heart' = "done"
  /\ UNCHANGED <<wire, state, channels, heartbeat, serving, hbStopped, age>>

HeartStep == Tick \/ Beat \/ BeatEnds \/ Silent \/ HeartClose \/ HeartCloses \/ HeartStops

----------------------------------------------------------------------------
Next ==
  \/ FallSilent \/ WakeUp \/ Leave \/ WriteEnds
  \/ \E ch \in Chan : CreateChannel(ch)
  \/ ServingStep \/ HeartStep

Spec == Init /\ [][Next]_vars

\* Goroutines run, tickers fire and the kernel ends writes to a dead socket; the
\* client and the tests are not forced.
Fairness == WF_vars(ServingStep) /\ WF_vars(HeartStep) /\ WF_vars(WriteEnds)

FairSpec == Spec /\ Fairness

----------------------------------------------------------------------------
(* Properties                                                              *)

\* Type invariant of the connection; the negotiated interval is positive and at
\* most the one proposed, so every open connection has a running monitor.
TypeOK ==
  /\ peer \in {"up", "silent", "gone"} /\ sock \in BOOLEAN
  /\ unread \in 0 .. SendBuffer
  /\ mu \in {"free", "serving", "heart"}
  /\ state \in {"header", "open", "closing", "closed"}
  /\ channels \subseteq Chan
  /\ heartbeat \in 1 .. Heartbeat
  /\ serving \in {"header", "startOk", "tuneOk", "openOk", "loop", "handle", "answered",
                  "clientClose", "close", "done"} \cup Closing
  /\ heart \in {"none", "tick", "beat", "beating", "close", "done"} \cup Closing
  /\ hbStopped \in BOOLEAN
  /\ age \in 0 .. 2

\* Close runs once: the goroutine of Serve and the monitor never both tear the
\* connection down.
OneCloser == ~(serving \in Closing /\ heart \in Closing)

\* A connection whose goroutine has returned is torn down in the end: socket and
\* channels are closed and the monitor's goroutine is not leaked, whichever of the
\* two closed it and although Close waits for mu before it closes the socket that
\* would end a blocked write.
DoneIsReleased ==
  serving = "done" ~> ~sock /\ channels = {} /\ state = "closed" /\ heart \in {"none", "done"}

\* A connection whose client is gone is finished in the end, even if a write to
\* the client was blocked.
GoneIsForgotten == peer = "gone" ~> serving = "done"

\* An open connection whose client stays silent is closed by its monitor, unless
\* a write to that client blocks first.
SilentIsClosed ==
  state = "open" /\ peer = "silent" ~> peer # "silent" \/ state = "closed" \/ mu # "free"

\* An open connection whose client stays silent is closed ("closes the connection
\* if no frame is received within two intervals").  Does not hold: a write that
\* blocks keeps mu, which Close needs before it comes to close the socket.
SilentIsAlwaysClosed ==
  state = "open" /\ peer = "silent" ~> peer # "silent" \/ state = "closed"
=============================================================================
