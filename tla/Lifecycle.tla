----------------------------- MODULE Lifecycle ------------------------------
(***************************************************************************)
(* The life of the daemon process: accepting control connections, counting *)
(* persistent clients, and the three ways to shut down (daemon.go, the     *)
(* head of handlePersistentConn, trap_posix.go, the end of p2pd/main.go).  *)
(*                                                                         *)
(*   - the idle timer of KillOnTimeout closes a daemon nobody used;        *)
(*   - awaitTermination closes it after the last persistent client left;   *)
(*   - SIGINT and SIGTERM close it and exit.                               *)
(*                                                                         *)
(* Each runs Daemon.Close in a goroutine of its own, without excluding the *)
(* others, while the main goroutine is in Serve: the process is over as    *)
(* soon as Serve returns, whatever the others were doing.                  *)
(***************************************************************************)
EXTENDS Naturals, FiniteSets

CONSTANTS
    Clients,        \* control connections, each of which may become persistent
    IdleTimeout     \* whether the daemon was started with -idleTimeout

ASSUME LifecycleAssumption ==
    /\ IsFiniteSet(Clients)
    /\ IdleTimeout \in BOOLEAN

VARIABLES
    conn,           \* how far each control connection got
    foundTimer,     \* history: where the timer was when the client upgraded; "late" when
                    \* its time was up
    joined,         \* history: where awaitTermination was when the client was counted
    timer,          \* the goroutine of KillOnTimeout; "starting": it has not yet
                    \* assigned d.cancelTerminateTimer, which is nil; "selecting":
                    \* it has, and is on its way into its select; "cancelled": a
                    \* client called the function meanwhile
    timeUp,         \* timer.C is ready
    wg,             \* the counter of d.terminateWG
    waiter,         \* the goroutine of awaitTermination
    caught,         \* trapSignals has received SIGINT or SIGTERM
    closer,         \* how far each caller of Close got
    closed,         \* d.closed
    listening,      \* the listener is open
    socketFile,     \* the unix socket exists in the file system
    serve,          \* where Serve is
    process         \* "running", or how the process ended

lifeVars == <<conn, foundTimer, joined, timer, timeUp, wg, waiter, caught,
              closer, closed, listening, socketFile, serve, process>>

history == <<foundTimer, joined>>
idleTimer == <<timer, timeUp>>
waitGroup == <<wg, waiter>>
closing == <<caught, closer, closed, listening, socketFile>>
mainLoop == <<serve, process>>

Closers == {"timer", "await", "signal"}

CloseStages == {"no", "host", "listener", "socket", "done"}

TimerStages == {"off", "starting", "selecting", "cancelled", "parked", "fired", "stopped"}

WaiterStages == {"none", "spawned", "parked", "woken", "returned", "panicked"}

\* The clients d.terminateWG counts.
Counted == {c \in Clients : conn[c] \in {"counted", "open"}}

Running == process = "running"

LifeInit ==
    /\ conn = [c \in Clients |-> "outside"]
    /\ foundTimer = [c \in Clients |-> "no"]
    /\ joined = [c \in Clients |-> "no"]
    /\ timer = IF IdleTimeout THEN "starting" ELSE "off"
    /\ timeUp = FALSE
    /\ wg = 0
    /\ waiter = "none"
    /\ caught = FALSE
    /\ closer = [x \in Closers |-> "no"]
    /\ closed = FALSE
    /\ listening = TRUE
    /\ socketFile = TRUE
    /\ serve = "check"
    /\ process = "running"

-----------------------------------------------------------------------------
(***************************************************************************)
(* Serve, in the main goroutine.                                           *)
(***************************************************************************)
Connect(c) ==
    /\ Running
    /\ listening
    /\ conn[c] = "outside"
    /\ conn' = [conn EXCEPT ![c] = "queued"]
    /\ UNCHANGED <<history, idleTimer, waitGroup, closing, mainLoop>>

\* isClosed: when it says so Serve returns, main returns and the process is over.
ServeChecks ==
    /\ Running
    /\ serve = "check"
    /\ \/ /\ closed
          /\ serve' = "returned"
          /\ process' = "exited"
       \/ /\ ~closed
          /\ serve' = "accepting"
          /\ UNCHANGED process
    /\ UNCHANGED <<conn, history, idleTimer, waitGroup, closing>>

\* Accept returns a connection, served by a goroutine running handleConn,
AcceptConn(c) ==
    /\ Running
    /\ serve = "accepting"
    /\ listening
    /\ conn[c] = "queued"
    /\ conn' = [conn EXCEPT ![c] = "handling"]
    /\ serve' = "check"
    /\ UNCHANGED <<history, idleTimer, waitGroup, closing, process>>

\* or an error, which Serve only logs.
AcceptFails ==
    /\ Running
    /\ serve = "accepting"
    /\ ~listening
    /\ serve' = "check"
    /\ UNCHANGED <<conn, history, idleTimer, waitGroup, closing, process>>

-----------------------------------------------------------------------------
(***************************************************************************)
(* handleConn and the head and tail of handlePersistentConn.               *)
(***************************************************************************)
\* A client that never upgrades hangs up.
HangUp(c) ==
    /\ Running
    /\ conn[c] = "handling"
    /\ conn' = [conn EXCEPT ![c] = "gone"]
    /\ UNCHANGED <<history, idleTimer, waitGroup, closing, mainLoop>>

\* Variant: the timer is not cancelled.
CancelForgotten(c) ==
    /\ Running
    /\ conn[c] = "handling"
    /\ conn' = [conn EXCEPT ![c] = "upgrading"]
    /\ foundTimer' = [foundTimer EXCEPT ![c] = IF timeUp THEN "late" ELSE timer]
    /\ UNCHANGED <<joined, idleTimer, waitGroup, closing, mainLoop>>

\* PERSISTENT_CONN_UPGRADE: the idle timer is cancelled, if its cancel function is there.
\* A parked select wakes up with its context case decided.
CancelTimer(c) ==
    /\ Running
    /\ conn[c] = "handling"
    /\ conn' = [conn EXCEPT ![c] = "upgrading"]
    /\ foundTimer' = [foundTimer EXCEPT ![c] = IF timeUp THEN "late" ELSE timer]
    /\ timer' = CASE timer = "parked" -> "stopped"
                  [] timer = "selecting" -> "cancelled"
                  [] OTHER -> timer
    /\ UNCHANGED <<joined, timeUp, waitGroup, closing, mainLoop>>

\* d.terminateWG.Add(1)
Count(c) ==
    /\ Running
    /\ conn[c] = "upgrading"
    /\ conn' = [conn EXCEPT ![c] = "counted"]
    /\ joined' = [joined EXCEPT ![c] = waiter]
    /\ wg' = wg + 1
    /\ UNCHANGED <<foundTimer, idleTimer, waiter, closing, mainLoop>>

\* d.terminateOnce starts awaitTermination for the first client; the client is told OK.
AwaitOnce(c) ==
    /\ Running
    /\ conn[c] = "counted"
    /\ conn' = [conn EXCEPT ![c] = "open"]
    /\ waiter' = IF waiter = "none" THEN "spawned" ELSE waiter
    /\ UNCHANGED <<history, idleTimer, wg, closing, mainLoop>>

\* Variant: the last client does not wake the waiter.
LeaveAsleep(c) ==
    /\ Running
    /\ conn[c] = "open"
    /\ conn' = [conn EXCEPT ![c] = "left"]
    /\ wg' = wg - 1
    /\ UNCHANGED <<history, idleTimer, waiter, closing, mainLoop>>

\* The read loop ends (or the OK could not be written): the deferred Done lets the
\* waiter go when it was the last.
Leave(c) ==
    /\ Running
    /\ conn[c] = "open"
    /\ conn' = [conn EXCEPT ![c] = "left"]
    /\ wg' = wg - 1
    /\ waiter' = IF wg = 1 /\ waiter = "parked" THEN "woken" ELSE waiter
    /\ UNCHANGED <<history, idleTimer, closing, mainLoop>>

-----------------------------------------------------------------------------
(***************************************************************************)
(* The goroutines that call Close.                                         *)
(***************************************************************************)
\* Variant: one client less is enough.
WaiterWakesEarly ==
    /\ Running
    /\ waiter \in {"parked", "woken"}
    /\ wg <= 1
    /\ waiter' = "returned"
    /\ UNCHANGED <<conn, history, idleTimer, wg, closing, mainLoop>>

\* terminateWG.Wait() finds the counter at zero and returns, or sleeps.
WaiterWaits ==
    /\ Running
    /\ waiter = "spawned"
    /\ waiter' = IF wg = 0 THEN "returned" ELSE "parked"
    /\ UNCHANGED <<conn, history, idleTimer, wg, closing, mainLoop>>

\* Wait wakes up and returns.  If a client was counted since the counter reached zero, it
\* panics: the WaitGroup was reused before Wait returned.
WaiterWakes ==
    /\ Running
    /\ waiter = "woken"
    /\ IF wg = 0
       THEN waiter' = "returned" /\ UNCHANGED process
       ELSE waiter' = "panicked" /\ process' = "crashed"
    /\ UNCHANGED <<conn, history, idleTimer, wg, closing, serve>>

\* KillOnTimeout's goroutine publishes its cancel function and makes its timer.
TimerArms ==
    /\ Running
    /\ timer = "starting"
    /\ timer' = "selecting"
    /\ UNCHANGED <<conn, history, timeUp, waitGroup, closing, mainLoop>>

\* Its select: any case that is ready, or none.
TimerSelects ==
    /\ Running
    /\ \/ timer = "cancelled" /\ timer' = "stopped"
       \/ timer \in {"selecting", "cancelled"} /\ timeUp /\ timer' = "fired"
       \/ timer = "selecting" /\ ~timeUp /\ timer' = "parked"
    /\ UNCHANGED <<conn, history, timeUp, waitGroup, closing, mainLoop>>

\* Variant: the select does not look at the timer.
TimeUpUnseen ==
    /\ Running
    /\ timer \in {"selecting", "cancelled", "parked"}
    /\ ~timeUp
    /\ timeUp' = TRUE
    /\ UNCHANGED <<conn, history, timer, waitGroup, closing, mainLoop>>

\* The timer expires, and wakes the select if that sleeps.
TimeUp ==
    /\ Running
    /\ timer \in {"selecting", "cancelled", "parked"}
    /\ ~timeUp
    /\ timeUp' = TRUE
    /\ timer' = IF timer = "parked" THEN "fired" ELSE timer
    /\ UNCHANGED <<conn, history, waitGroup, closing, mainLoop>>

\* SIGINT or SIGTERM reaches trapSignals.
Signal ==
    /\ Running
    /\ ~caught
    /\ caught' = TRUE
    /\ UNCHANGED <<conn, history, idleTimer, waitGroup, closer, closed, listening,
                   socketFile, mainLoop>>

(***************************************************************************)
(* Daemon.Close, step by step: the flag, the host, the listener (closing a *)
(* unix listener removes its file), the file.                              *)
(***************************************************************************)
Called(x) == CASE x = "await" -> waiter = "returned"
               [] x = "timer" -> timer = "fired"
               [] x = "signal" -> caught

CloseStep(x, from, to) ==
    /\ Running
    /\ closer[x] = from
    /\ closer' = [closer EXCEPT ![x] = to]

SetClosed(x) ==
    /\ Called(x)
    /\ CloseStep(x, "no", "host")
    /\ closed' = TRUE
    /\ UNCHANGED <<conn, history, idleTimer, waitGroup, caught, listening, socketFile, mainLoop>>

CloseHost(x) ==
    /\ CloseStep(x, "host", "listener")
    /\ UNCHANGED <<conn, history, idleTimer, waitGroup, caught, closed, listening, socketFile, mainLoop>>

\* Variant: Close forgets the listener.
CloseNoListener(x) ==
    /\ CloseStep(x, "listener", "socket")
    /\ UNCHANGED <<conn, history, idleTimer, waitGroup, caught, closed, listening, socketFile, mainLoop>>

CloseListener(x) ==
    /\ CloseStep(x, "listener", "socket")
    /\ listening' = FALSE
    /\ socketFile' = FALSE
    /\ UNCHANGED <<conn, history, idleTimer, waitGroup, caught, closed, mainLoop>>

clearUnixSockets(x) ==
    /\ CloseStep(x, "socket", "done")
    /\ socketFile' = FALSE
    /\ UNCHANGED <<conn, history, idleTimer, waitGroup, caught, closed, listening, mainLoop>>

\* Variant: trapSignals does not wait for Close.
SignalExitsEarly ==
    /\ Running
    /\ caught
    /\ process' = "killed"
    /\ UNCHANGED <<conn, history, idleTimer, waitGroup, closing, serve>>

\* trapSignals exits once Close has returned.
SignalExits ==
    /\ Running
    /\ closer["signal"] = "done"
    /\ process' = "killed"
    /\ UNCHANGED <<conn, history, idleTimer, waitGroup, closing, serve>>

-----------------------------------------------------------------------------
Close(x) == SetClosed(x) \/ CloseHost(x) \/ CloseListener(x) \/ clearUnixSockets(x)

Over == ~Running /\ UNCHANGED lifeVars

LifeNext ==
    \/ ServeChecks \/ AcceptFails
    \/ \E c \in Clients :
         \/ Connect(c) \/ AcceptConn(c) \/ HangUp(c) \/ CancelTimer(c)
         \/ Count(c) \/ AwaitOnce(c) \/ Leave(c)
    \/ WaiterWaits \/ WaiterWakes \/ TimerArms \/ TimerSelects \/ TimeUp \/ Signal
    \/ \E x \in Closers : Close(x)
    \/ SignalExits
    \/ Over

LifeSpec == LifeInit /\ [][LifeNext]_lifeVars

(***************************************************************************)
(* The daemon's own goroutines run and its timer expires; Host.Close       *)
(* (external) returns.  Clients and signals do as they please.             *)
(***************************************************************************)
LifeFairness ==
    /\ WF_lifeVars(ServeChecks) /\ WF_lifeVars(AcceptFails)
    /\ WF_lifeVars(WaiterWaits) /\ WF_lifeVars(WaiterWakes)
    /\ WF_lifeVars(TimerArms) /\ WF_lifeVars(TimerSelects) /\ WF_lifeVars(TimeUp)
    /\ WF_lifeVars(SignalExits)
    /\ \A x \in Closers : WF_lifeVars(Close(x))
    /\ \A c \in Clients : /\ WF_lifeVars(AcceptConn(c)) /\ WF_lifeVars(Count(c))
                          /\ WF_lifeVars(AwaitOnce(c))

FairLifeSpec == LifeSpec /\ LifeFairness

-----------------------------------------------------------------------------
(***************************************************************************)
(* The values of the program counters; the counter of terminateWG, which   *)
(* panics below zero, never is.                                            *)
(***************************************************************************)
LifeTypeOK ==
    /\ conn \in [Clients -> {"outside", "queued", "handling", "gone", "upgrading",
                             "counted", "open", "left"}]
    /\ foundTimer \in [Clients -> {"no", "late"} \cup TimerStages]
    /\ joined \in [Clients -> {"no"} \cup WaiterStages]
    /\ timer \in TimerStages /\ timeUp \in BOOLEAN
    /\ wg \in Nat
    /\ waiter \in WaiterStages
    /\ caught \in BOOLEAN
    /\ closer \in [Closers -> CloseStages]
    /\ closed \in BOOLEAN /\ listening \in BOOLEAN /\ socketFile \in BOOLEAN
    /\ serve \in {"check", "accepting", "returned"}
    /\ process \in {"running", "exited", "killed", "crashed"}

(***************************************************************************)
(* terminateWG counts exactly the clients between Add and Done, and its    *)
(* waiter sleeps only while there is one: no wake-up is lost.              *)
(***************************************************************************)
WaiterNotForgotten ==
    /\ wg = Cardinality(Counted)
    /\ waiter = "parked" => wg > 0

(***************************************************************************)
(* awaitTermination sets d.closed only after a client has been there and   *)
(* left, and under a client only if that was counted after Wait had        *)
(* returned: nothing stops such a client from being counted and told OK,   *)
(* before d.closed is set or after.                                        *)
(***************************************************************************)
ClosedOnlyUnderLateClient ==
    closer["await"] # "no" =>
      /\ \A k \in Counted : joined[k] = "returned"
      /\ \E k \in Clients : conn[k] = "left"

(***************************************************************************)
(* The unix socket is left behind only by a process that ended while a     *)
(* Close was under way, between setting d.closed and closing the listener, *)
(* or that crashed; an exit by signal never leaves it.                     *)
(***************************************************************************)
StaleSocketOnlyIfCut ==
    socketFile =>
      /\ process = "exited" => \E x \in Closers : closer[x] \in {"host", "listener"}
      /\ process # "killed"

(***************************************************************************)
(* What holds of the daemon at any moment: its counter of clients is right, *)
(* its waiter is not forgotten, and only a Close cut short leaves a socket. *)
(***************************************************************************)
DaemonInv == LifeTypeOK /\ WaiterNotForgotten /\ StaleSocketOnlyIfCut

(***************************************************************************)
(* When the last persistent client has left, the process ends unless a new *)
(* client comes: no descriptor, lock or goroutine keeps it up.             *)
(***************************************************************************)
LastClientEndsDaemon == waiter # "none" /\ wg = 0 ~> ~Running \/ wg > 0

(***************************************************************************)
(* A Close that has begun ends the process, though Serve sits in Accept.   *)
(***************************************************************************)
CloseEndsDaemon == closed ~> ~Running

(***************************************************************************)
(* The idle timer closes the daemon only if no client upgraded while the   *)
(* timer's goroutine slept in its select.  The help of -idleTimeout says   *)
(* more, that it does so if no client upgraded in time (main.go:107), and  *)
(* that does not hold: a client that upgrades before the goroutine has     *)
(* assigned d.cancelTerminateTimer finds nil and cancels nothing, and one  *)
(* that calls it before the select is reached can lose to the timer.  One  *)
(* that upgrades when the time is up comes too late.                       *)
(***************************************************************************)
TimerSparesClients ==
    closer["timer"] # "no" =>
      \A k \in Clients : foundTimer[k] \in {"no", "starting", "selecting", "cancelled", "late"}

(***************************************************************************)
(* With -idleTimeout a daemon that nobody uses ends.                       *)
(***************************************************************************)
UnusedDaemonEnds ==
    IdleTimeout => <>(~Running \/ \E k \in Clients : foundTimer[k] # "no")
=============================================================================
