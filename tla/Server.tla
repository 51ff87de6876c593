------------------------------- MODULE Server -------------------------------
(***************************************************************************)
(* The server's front: the accept loops of its listeners with the rate     *)
(* limiter and the count of served connections (internal/server/server.go, *)
(* rate_limiter.go), the configuration reloader with its file watcher and  *)
(* debounce timer (internal/config/hot_reload.go), and the signal loop and *)
(* shutdown of cmd/gomqd/main.go.                                          *)
(*                                                                         *)
(* What a served connection does is the subject of module Connection; here *)
(* it may end at any time.  BackPressure.CanAccept always answers yes,     *)
(* because nothing in the program calls BackPressure.Check.                *)
(***************************************************************************)
EXTENDS Integers, FiniteSets

CONSTANTS
  Client,       \* clients, each dialling at most once
  Loop,         \* the listeners, plain and TLS, each with its accept loop
  LimitOf,      \* for each version of the file, the connections per second, 0 for none
  Invalid,      \* the versions that do not load or validate
  Removable,    \* bound: the versions that may be taken away before the next is written
  None          \* no limiter, no reload

Version == DOMAIN LimitOf   \* 0 is the file the server was started with

ASSUME ServerAssumption ==
  /\ IsFiniteSet(Client) /\ Loop # {}
  /\ Version = 0 .. (Cardinality(Version) - 1)
  /\ \A v \in Version : LimitOf[v] \in Nat
  /\ Invalid \subseteq Version /\ Removable \subseteq Version

VARIABLES
  listening,  \* are the listeners open?
  accepting,  \* the client whose socket each accept loop holds, "wait" or "done"
  conn,       \* what became of each client's connection
  wg,         \* Server.wg
  connMap,    \* Server.connMap
  known,      \* history: the connections counted in when Shutdown was called
  limiter,    \* Server.rateLimiter
  file,       \* the version of the configuration file, which is its mtime: no two share one
  missing,    \* has the file been taken away, until its next version is there?
  lastMod,    \* Reloader.lastMod
  event,      \* is a file event waiting for the watcher?
  timer,      \* the debounce timer: armed?
  fired,      \* timer functions that have fired and wait for r.mu
  watch,      \* the watcher's loop: runs, is told to stop, has ended
  reloading,  \* the doReload that holds r.mu: its caller, its next step and what it has read
  main        \* main: the signal loop, in Reload, or in the shutdown

front == <<listening, accepting, conn, wg, connMap, known>>
disk == <<file, missing>>
watcher == <<event, timer, fired, watch>>
ServerVars == <<front, limiter, disk, lastMod, watcher, reloading, main>>

ServerInit ==
  /\ listening = TRUE /\ accepting = [l \in Loop |-> "wait"]
  /\ conn = [c \in Client |-> "absent"]
  /\ wg = 0 /\ connMap = {} /\ known = {}
  /\ limiter = None
  /\ file = 0 /\ missing = FALSE /\ lastMod = -1
  /\ event = FALSE /\ timer = FALSE /\ fired = 0 /\ watch = "runs"
  /\ reloading = None
  /\ main = "signals"

----------------------------------------------------------------------------
(* The accept loops                                                        *)

\* A client connects to one of the listeners and waits in its backlog.
Dial(c) ==
  /\ listening /\ conn[c] = "absent"
  /\ conn' = [conn EXCEPT ![c] = "backlog"]
  /\ UNCHANGED <<listening, accepting, wg, connMap, known, limiter, disk, lastMod, watcher,
                 reloading, main>>

\* Accept returns a socket, and without a limiter the connection is allowed; with
\* one, Allow is to be asked ...
Accept(l, c) ==
  /\ accepting[l] = "wait" /\ conn[c] = "backlog"
  /\ accepting' = [accepting EXCEPT ![l] = c]
  /\ conn' = [conn EXCEPT ![c] = IF limiter = None THEN "allowed" ELSE "limited"]
  /\ UNCHANGED <<listening, wg, connMap, known, limiter, disk, lastMod, watcher, reloading, main>>

\* ... which takes a token of the bucket, ...
Allow(l, c) ==
  /\ accepting[l] = c /\ conn[c] = "limited"
  /\ limiter # None /\ limiter.tokens >= 1
  /\ limiter' = [limiter EXCEPT !.tokens = @ - 1]
  /\ conn' = [conn EXCEPT ![c] = "allowed"]
  /\ UNCHANGED <<listening, accepting, wg, connMap, known, disk, lastMod, watcher, reloading, main>>

\* ... or says no, and the socket is closed.
Refuse(l, c) ==
  /\ accepting[l] = c /\ conn[c] = "limited"
  /\ limiter # None /\ limiter.tokens < 1
  /\ accepting' = [accepting EXCEPT ![l] = "wait"]
  /\ conn' = [conn EXCEPT ![c] = "refused"]
  /\ UNCHANGED <<listening, wg, connMap, known, limiter, disk, lastMod, watcher, reloading, main>>

\* A reload that took the limiter away in between leaves Allow a nil receiver: the
\* process ends in a panic.
AllowPanics(l, c) ==
  /\ accepting[l] = c /\ conn[c] = "limited"
  /\ limiter = None
  /\ main' = "panic"
  /\ UNCHANGED <<front, limiter, disk, lastMod, watcher, reloading>>

\* Accept fails, because the listener is closed or for another reason, and the loop
\* ends for good.
AcceptFails(l) ==
  /\ accepting[l] = "wait"
  /\ accepting' = [accepting EXCEPT ![l] = "done"]
  /\ UNCHANGED <<listening, conn, wg, connMap, known, limiter, disk, lastMod, watcher, reloading,
                 main>>

\* Mutant of Start: the connection's goroutine is to count itself in.
Start_AddLater(l, c) ==
  /\ accepting[l] = c /\ conn[c] = "allowed"
  /\ conn' = [conn EXCEPT ![c] = "start"]
  /\ accepting' = [accepting EXCEPT ![l] = "wait"]
  /\ UNCHANGED <<listening, wg, connMap, known, limiter, disk, lastMod, watcher, reloading, main>>

\* The connection is counted in and its goroutine started.
Start(l, c) ==
  /\ accepting[l] = c /\ conn[c] = "allowed"
  /\ wg' = wg + 1
  /\ conn' = [conn EXCEPT ![c] = "start"]
  /\ accepting' = [accepting EXCEPT ![l] = "wait"]
  /\ UNCHANGED <<listening, connMap, known, limiter, disk, lastMod, watcher, reloading, main>>

\* refillTokens: time adds a token, up to the bucket's size.
Refill ==
  /\ limiter # None /\ limiter.tokens < limiter.max
  /\ limiter' = [limiter EXCEPT !.tokens = @ + 1]
  /\ UNCHANGED <<front, disk, lastMod, watcher, reloading, main>>

----------------------------------------------------------------------------
(* handleConn                                                              *)

registerConn(c) ==
  /\ conn[c] = "start"
  /\ conn' = [conn EXCEPT ![c] = "serve"]
  /\ connMap' = connMap \cup {c}
  /\ UNCHANGED <<listening, accepting, wg, known, limiter, disk, lastMod, watcher, reloading, main>>

\* Connection.Serve returns; the deferred unregisterConn ...
unregisterConn(c) ==
  /\ conn[c] = "serve"
  /\ conn' = [conn EXCEPT ![c] = "ending"]
  /\ connMap' = connMap \ {c}
  /\ UNCHANGED <<listening, accepting, wg, known, limiter, disk, lastMod, watcher, reloading, main>>

\* Mutant of handleConnDone: a connection that ends after Shutdown has closed the
\* listeners is not counted out.
handleConnDone_UnlessClosed(c) ==
  /\ conn[c] = "ending"
  /\ conn' = [conn EXCEPT ![c] = "finished"]
  /\ wg' = IF listening THEN wg - 1 ELSE wg
  /\ UNCHANGED <<listening, accepting, connMap, known, limiter, disk, lastMod, watcher, reloading,
                 main>>

\* ... and, last, the deferred wg.Done of handleConn.
handleConnDone(c) ==
  /\ conn[c] = "ending"
  /\ conn' = [conn EXCEPT ![c] = "finished"]
  /\ wg' = wg - 1
  /\ UNCHANGED <<listening, accepting, connMap, known, limiter, disk, lastMod, watcher, reloading,
                 main>>

----------------------------------------------------------------------------
(* Reloader                                                                *)

\* The file is removed, which is no event, or renamed, which is one.
TakeAway ==
  /\ ~missing /\ file \in Removable
  /\ missing' = TRUE
  /\ event' \in {event, watch # "ended"}
  /\ UNCHANGED <<front, limiter, file, lastMod, timer, fired, watch, reloading, main>>

\* The next version is written in place, moved over the file or created.
Edit ==
  /\ file + 1 \in Version
  /\ file' = file + 1 /\ missing' = FALSE
  /\ event' = (watch # "ended")
  /\ UNCHANGED <<front, limiter, lastMod, timer, fired, watch, reloading, main>>

\* The watcher's loop takes the event and arms the timer anew.
WatchEvent ==
  /\ event /\ watch # "ended"
  /\ event' = FALSE /\ timer' = TRUE
  /\ UNCHANGED <<front, limiter, disk, lastMod, fired, watch, reloading, main>>

\* The timer fires.
TimerFires ==
  /\ timer
  /\ timer' = FALSE /\ fired' = fired + 1
  /\ UNCHANGED <<front, limiter, disk, lastMod, event, watch, reloading, main>>

\* The loop notices stopCh and stops the timer, or the closed channels of the watcher,
\* and ends.
WatchEnds ==
  /\ watch = "told"
  /\ watch' = "ended" /\ timer' \in {FALSE, timer} /\ event' = FALSE
  /\ UNCHANGED <<front, limiter, disk, lastMod, fired, reloading, main>>

\* A doReload by g gets r.mu.
Lock(g) == reloading = None /\ reloading' = [by |-> g, at |-> "stat", cfg |-> None]

\* The timer's function calls doReload.
TimerReload ==
  /\ fired > 0 /\ Lock("timer")
  /\ fired' = fired - 1
  /\ UNCHANGED <<front, limiter, disk, lastMod, event, timer, watch, main>>

\* SIGHUP: main calls Reload.
Sighup ==
  /\ main = "signals"
  /\ main' = "hup"
  /\ UNCHANGED <<front, limiter, disk, lastMod, watcher, reloading>>

HupReload ==
  /\ main = "hup" /\ Lock("main")
  /\ main' = "reloading"
  /\ UNCHANGED <<front, limiter, disk, lastMod, watcher>>

\* doReload returns to its caller.
ReloadReturns ==
  /\ reloading' = None
  /\ main' = IF reloading.by = "main" THEN "signals" ELSE main

\* A file that is missing is an error; an unchanged one is not loaded again.
Stat ==
  /\ reloading # None /\ reloading.at = "stat"
  /\ IF missing \/ file = lastMod
     THEN ReloadReturns /\ UNCHANGED lastMod
     ELSE /\ lastMod' = file
          /\ reloading' = [reloading EXCEPT !.at = "load"]
          /\ UNCHANGED main
  /\ UNCHANGED <<front, limiter, disk, watcher>>

\* Mutant of Load: what was loaded is what the last event announced, the file of
\* the time of Stat, and the modification time is taken again.
Load_StatAgain ==
  /\ reloading # None /\ reloading.at = "load"
  /\ IF lastMod \in Invalid
     THEN ReloadReturns
     ELSE reloading' = [reloading EXCEPT !.at = "apply", !.cfg = lastMod] /\ UNCHANGED main
  /\ lastMod' = file
  /\ UNCHANGED <<front, limiter, disk, watcher>>

\* The file is loaded and validated, in whatever version it has by now.
Load ==
  /\ reloading # None /\ reloading.at = "load"
  /\ IF missing \/ file \in Invalid
     THEN ReloadReturns
     ELSE reloading' = [reloading EXCEPT !.at = "apply", !.cfg = file] /\ UNCHANGED main
  /\ UNCHANGED <<front, limiter, disk, lastMod, watcher>>

NewLimiter(max) == [max |-> max, tokens |-> max]

\* Server.ReloadConfig replaces the limiter by one with a full bucket.
ReloadConfig ==
  /\ reloading # None /\ reloading.at = "apply"
  /\ limiter' = IF LimitOf[reloading.cfg] > 0 THEN NewLimiter(LimitOf[reloading.cfg]) ELSE None
  /\ ReloadReturns
  /\ UNCHANGED <<front, disk, lastMod, watcher>>

----------------------------------------------------------------------------
(* Shutdown                                                                *)

\* SIGTERM: main leaves the signal loop and stops the reloader, which takes r.mu.
StopReloader ==
  /\ main = "signals" /\ reloading = None
  /\ main' = "stopped"
  /\ watch' = "told"
  /\ UNCHANGED <<front, limiter, disk, lastMod, event, timer, fired, reloading>>

\* The connections between wg.Add and wg.Done.
Served == {c \in Client : conn[c] \in {"start", "serve", "ending"}}

\* Shutdown closes the listeners, which resets what waits in their backlogs, and
\* stops pipeline, worker pool and flush scheduler ...
Shutdown ==
  /\ main = "stopped"
  /\ main' = "waiting"
  /\ listening' = FALSE
  /\ conn' = [c \in Client |-> IF conn[c] = "backlog" THEN "reset" ELSE conn[c]]
  /\ known' = Served
  /\ UNCHANGED <<accepting, wg, connMap, limiter, disk, lastMod, watcher, reloading>>

\* ... and returns from wg.Wait.
ShutdownReturns ==
  /\ main = "waiting" /\ wg = 0
  /\ main' = "exit"
  /\ UNCHANGED <<front, limiter, disk, lastMod, watcher, reloading>>

----------------------------------------------------------------------------
LoopStep(l) ==
  \/ ~listening /\ AcceptFails(l)
  \/ \E c \in Client : Allow(l, c) \/ Refuse(l, c) \/ AllowPanics(l, c) \/ Start(l, c)
ReloadStep == Stat \/ Load \/ ReloadConfig

ServerNext ==
  /\ main # "panic"
  /\ \/ \E c \in Client : Dial(c) \/ registerConn(c) \/ unregisterConn(c) \/ handleConnDone(c)
     \/ \E l \in Loop : LoopStep(l) \/ AcceptFails(l) \/ \E c \in Client : Accept(l, c)
     \/ Refill \/ TakeAway \/ Edit \/ WatchEvent \/ TimerFires \/ WatchEnds
     \/ TimerReload \/ Sighup \/ HupReload \/ ReloadStep
     \/ StopReloader \/ Shutdown \/ ShutdownReturns

ServerSpec == ServerInit /\ [][ServerNext]_ServerVars

\* What is fair stops with the process.
Running(A) == main # "panic" /\ A

\* Goroutines run and timers fire.  Clients, edits, signals, errors of Accept and the
\* end of Connection.Serve are not forced.  A timer function gets r.mu although main
\* may take it again and again: sync.Mutex hands a waiter the lock after 1 ms.
ServerFairness ==
  /\ \A l \in Loop : WF_ServerVars(Running(LoopStep(l)))
  /\ \A c \in Client : /\ WF_ServerVars(Running(\E l \in Loop : Accept(l, c)))
                       /\ WF_ServerVars(Running(registerConn(c) \/ handleConnDone(c)))
  /\ WF_ServerVars(Running(WatchEvent)) /\ WF_ServerVars(Running(TimerFires)) /\ WF_ServerVars(Running(WatchEnds))
  /\ SF_ServerVars(Running(TimerReload)) /\ WF_ServerVars(Running(HupReload)) /\ WF_ServerVars(Running(ReloadStep))
  /\ WF_ServerVars(Running(Shutdown)) /\ WF_ServerVars(Running(ShutdownReturns))

ServerFairSpec == ServerSpec /\ ServerFairness

----------------------------------------------------------------------------
(* Properties                                                              *)

\* When Shutdown returns, the connections that were served when it was called
\* are finished ("waits for connections to finish"), whatever the accept loops
\* have in hand meanwhile.
ShutdownWaits == main = "exit" => known \cap Served = {}

\* Once the file holds a valid configuration, its limit comes into force, unless
\* the file is changed again or taken away or the server stops: no edit that falls
\* between two steps of a running reload is missed.
EditInForce ==
  \A v \in Version \ (Invalid \cup {0}) :
    file = v /\ ~missing ~> \/ (IF limiter = None THEN 0 ELSE limiter.max) = LimitOf[v]
                            \/ file # v \/ missing
                            \/ watch # "runs" \/ main = "panic"

\* Shutdown returns unless some connection is served for ever, whatever was accepted,
\* counted in and counted out before, while and after it closed the listeners: once
\* the served connections have ended the wait group is down to zero and main is told.
ShutdownEnds ==
  main = "stopped" ~> \/ main \in {"exit", "panic"}
                      \/ \E c \in Client : [](conn[c] = "serve")

\* When Shutdown has returned no connection is served ("Shutdown closes all
\* listeners and waits for connections to finish.").  Does not hold: a connection
\* an accept loop has in hand is counted in after wg.Wait returned.
ShutdownQuiet == main = "exit" => Served = {}
=============================================================================
