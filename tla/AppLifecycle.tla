---------------------------- MODULE AppLifecycle ----------------------------
(***************************************************************************)
(* The process around the router (cmd/server/main.go and internal/app):    *)
(* the main goroutine loads the configuration, constructs the application, *)
(* serves, cleans up and exits; while it serves, a second one waits for    *)
(* SIGINT or SIGTERM and shuts the server down; requests run in goroutines *)
(* of their own, which the end of the process cuts off.  Only between      *)
(* Notify and Stop does the process hear a signal; before and after that   *)
(* it dies of one.                                                         *)
(***************************************************************************)
EXTENDS Naturals

CONSTANT Requests     \* the requests clients send during the process's life

VARIABLES
    main,      \* where the main goroutine is
    stopper,   \* where handleShutdown is
    signals,   \* the buffer of shutdownCh: empty, or holding one signal
    channel,   \* shutdownCh itself: open or closed
    server,    \* http.Server: listening (from Run on), shut down, or failed
    grace,     \* whether the grace period of the shutdown has run out
    pool,      \* the database pool: none when it could not be opened
    request    \* what has become of each request

vars == <<main, stopper, signals, channel, server, grace, pool, request>>

Starting == {"load", "construct", "wire"}      \* no signal is asked for yet
Closing  == {"close", "await pool", "sync"}    \* none is asked for any more
Gone     == {"exited", "killed"}               \* by itself, or by a signal

TypeOK ==
    /\ main \in {"load", "construct", "wire", "serve", "clean", "close", "await pool", "sync"} \cup Gone
    /\ stopper \in {"wait", "begin", "draining", "done"}
    /\ signals \in {"empty", "signal"}
    /\ channel \in {"open", "closed"}
    /\ server \in {"listening", "shut", "failed"}
    /\ grace \in BOOLEAN
    /\ pool \in {"none", "open", "closing", "closed"}
    /\ request \in [Requests -> {"unsent", "running", "querying", "answered", "refused", "lost"}]
    /\ main \in Closing => channel = "closed"
    /\ channel = "closed" => main \in Closing \cup Gone
    /\ main = "await pool" => pool = "closing"
    /\ pool = "closing" => main \in {"await pool"} \cup Gone

Init ==
    /\ main = "load"
    /\ stopper = "wait"
    /\ signals = "empty"
    /\ channel = "open"
    /\ server = "listening"
    /\ grace = FALSE
    /\ pool = "none"
    /\ request = [r \in Requests |-> "unsent"]

Alive  == main \notin Gone
Served == {r \in Requests : request[r] \in {"running", "querying"}}

\* The requests that are being served go down with the process.
CutOff == request' = [r \in Requests |-> IF r \in Served THEN "lost" ELSE request[r]]

-----------------------------------------------------------------------------
(* Load and New *)

\* The configuration is accepted, or the process exits with an error.
LoadConfig ==
    /\ main = "load"
    /\ main' \in {"construct", "exited"}
    /\ UNCHANGED <<stopper, signals, channel, server, grace, pool, request>>

\* The pool is opened and pinged; when that fails the service does without it.
OpenPool ==
    /\ main = "construct"
    /\ pool' \in {"none", "open"}
    /\ main' = "wire"
    /\ UNCHANGED <<stopper, signals, channel, server, grace, request>>

\* A client, or the logger, cannot be constructed: the process exits.
ConstructFails ==
    /\ main = "construct"
    /\ main' = "exited"
    /\ UNCHANGED <<stopper, signals, channel, server, grace, pool, request>>

\* The orchestrator and the server are built; when one refuses its options the
\* process exits without closing the pool: main has no application to close.
Wire ==
    /\ main = "wire"
    /\ main' \in {"serve", "exited"}
    /\ UNCHANGED <<stopper, signals, channel, server, grace, pool, request>>

-----------------------------------------------------------------------------
(* App.Run, App.Close and main *)

\* Mutant: Run returns for the signal, not for its server.
ListenAndServeReturnsOnSignal ==
    /\ main = "serve"
    /\ stopper # "wait" \/ server # "listening"
    /\ main' = "clean"
    /\ UNCHANGED <<stopper, signals, channel, server, grace, pool, request>>

\* Mutant: Run waits for the drain, also where none was asked for.
ListenAndServeReturnsAfterDrain ==
    /\ main = "serve"
    /\ server # "listening"
    /\ stopper = "done"
    /\ main' = "clean"
    /\ UNCHANGED <<stopper, signals, channel, server, grace, pool, request>>

\* ListenAndServe returns: with ErrServerClosed as soon as Shutdown has begun,
\* not when it has finished, or because the listener failed.
ListenAndServeReturns ==
    /\ main = "serve"
    /\ server # "listening"
    /\ main' = "clean"
    /\ UNCHANGED <<stopper, signals, channel, server, grace, pool, request>>

\* Mutant: the channel is left open.
CleanUpKeepsChannel ==
    /\ main = "clean"
    /\ main' = "close"
    /\ UNCHANGED <<stopper, signals, channel, server, grace, pool, request>>

\* Run stops the notification and closes the channel; main's deferred Close is next.
CleanUp ==
    /\ main = "clean"
    /\ channel' = "closed"
    /\ main' = "close"
    /\ UNCHANGED <<stopper, signals, server, grace, pool, request>>

\* Close: the pool hands out no connection any more, and waits for those out.
Close ==
    /\ main = "close"
    /\ IF pool = "open"
       THEN pool' = "closing" /\ main' = "await pool"
       ELSE main' = "sync" /\ UNCHANGED pool
    /\ UNCHANGED <<stopper, signals, channel, server, grace, request>>

\* External (pgxpool): the pool waits until its connections are back.
PoolCloses ==
    /\ main = "await pool"
    /\ \A r \in Requests : request[r] # "querying"
    /\ pool' = "closed"
    /\ main' = "sync"
    /\ UNCHANGED <<stopper, signals, channel, server, grace, request>>

\* The logger is synced and the process exits, whatever else is still running.
Exit ==
    /\ main = "sync"
    /\ main' = "exited"
    /\ CutOff
    /\ UNCHANGED <<stopper, signals, channel, server, grace, pool>>

-----------------------------------------------------------------------------
(* handleShutdown *)

\* The goroutine takes a signal, if one is buffered although the channel may be
\* closed by now; from a channel that is closed and empty it takes none and ends.
TakeSignal ==
    /\ Alive
    /\ stopper = "wait"
    /\ \/ /\ signals = "signal"
          /\ signals' = "empty"
          /\ stopper' = "begin"
       \/ /\ signals = "empty" /\ channel = "closed"
          /\ stopper' = "done"
          /\ UNCHANGED signals
    /\ UNCHANGED <<main, channel, server, grace, pool, request>>

\* Shutdown closes the listener and waits for the requests.
BeginShutdown ==
    /\ Alive
    /\ stopper = "begin"
    /\ stopper' = "draining"
    /\ server' = IF server = "listening" THEN "shut" ELSE server
    /\ UNCHANGED <<main, signals, channel, grace, pool, request>>

\* Shutdown returns: all requests are done, or the grace period is over.
ShutdownReturns ==
    /\ Alive
    /\ stopper = "draining"
    /\ \/ Served = {} /\ UNCHANGED grace
       \/ Served # {} /\ grace' = TRUE
    /\ stopper' = "done"
    /\ UNCHANGED <<main, signals, channel, server, pool, request>>

-----------------------------------------------------------------------------
(* External: the operating system and the requests *)

\* A signal fills the buffer; one that finds it full is dropped.
Signal ==
    /\ main \in {"serve", "clean"}
    /\ signals = "empty"
    /\ signals' = "signal"
    /\ UNCHANGED <<main, stopper, channel, server, grace, pool, request>>

\* Before Run asks for signals, and again once it has stopped asking, a signal
\* ends the process at once: also the second one of an impatient operator.
Killed ==
    /\ main \in Starting \cup Closing
    /\ main' = "killed"
    /\ CutOff
    /\ UNCHANGED <<stopper, signals, channel, server, grace, pool>>

ListenerFails ==
    /\ main = "serve"
    /\ server = "listening"
    /\ server' = "failed"
    /\ UNCHANGED <<main, stopper, signals, channel, grace, pool, request>>

Connect(r) ==
    /\ Alive /\ main \notin Starting
    /\ request[r] = "unsent"
    /\ request' = [request EXCEPT ![r] = IF server = "listening" THEN "running" ELSE "refused"]
    /\ UNCHANGED <<main, stopper, signals, channel, server, grace, pool>>

\* A consent takes a connection from the pool; a pool that is not open makes the
\* composite resolver go to the API at once, which is no step of its own here.
BeginQuery(r) ==
    /\ Alive
    /\ pool = "open"
    /\ request[r] = "running"
    /\ request' = [request EXCEPT ![r] = "querying"]
    /\ UNCHANGED <<main, stopper, signals, channel, server, grace, pool>>

EndQuery(r) ==
    /\ Alive
    /\ request[r] = "querying"
    /\ request' = [request EXCEPT ![r] = "running"]
    /\ UNCHANGED <<main, stopper, signals, channel, server, grace, pool>>

Answer(r) ==
    /\ Alive
    /\ request[r] = "running"
    /\ request' = [request EXCEPT ![r] = "answered"]
    /\ UNCHANGED <<main, stopper, signals, channel, server, grace, pool>>

-----------------------------------------------------------------------------

MainStep ==
    \/ LoadConfig \/ OpenPool \/ ConstructFails \/ Wire
    \/ ListenAndServeReturns \/ CleanUp \/ Close \/ PoolCloses \/ Exit
StopperStep == TakeSignal \/ BeginShutdown \/ ShutdownReturns
RequestStep(r) == Connect(r) \/ BeginQuery(r) \/ EndQuery(r) \/ Answer(r)

\* The process is gone.
Exited == ~Alive /\ UNCHANGED vars

Next ==
    \/ MainStep \/ StopperStep \/ Signal \/ Killed \/ ListenerFails
    \/ \E r \in Requests : RequestStep(r)
    \/ Exited

Spec == Init /\ [][Next]_vars

\* The goroutines run; requests need not end.  A query under way
\* does, and the ping of a new pool: the code sets them no deadline once they are
\* connected, so this is an assumption on the database.
LiveSpec ==
    /\ Spec
    /\ WF_vars(MainStep) /\ WF_vars(StopperStep)
    /\ \A r \in Requests : WF_vars(EndQuery(r))

-----------------------------------------------------------------------------
(* Properties *)

\* The pool closes only after the listener: Close is main's last act, so no
\* request is accepted that could find its pool gone (Run, Close, handleShutdown).
PoolOutlivesListener ==
    pool \in {"closing", "closed"} => server # "listening"

\* A process that has been told to stop, or whose listener failed, ends: neither
\* the drain nor the pool holds it for ever (Run, Close, handleShutdown).
SignalledProcessExits ==
    (signals = "signal" \/ server # "listening") ~> ~Alive

\* App.Close (app.go:100) "performs graceful shutdown of all resources", and a
\* signalled shutdown grants requests 15 s (app.go:32): none is cut off before
\* they are over.
RequestsAreDrained ==
    main = "exited" /\ server = "shut" /\ ~grace =>
        \A r \in Requests : request[r] # "lost"

=============================================================================
