----------------------------- MODULE Lifecycle -----------------------------
(***************************************************************************)
(* The process from start to exit: main's run (cmd/hole-balancer/main.go), *)
(* the DNS listeners (internal/proxy/listen.go), the admin server          *)
(* (internal/admin/admin.go), the health checker's and the tracker's Run.  *)
(* The four components are goroutines main waits for; the context of       *)
(* signal.NotifyContext tells them all to stop.  A query handler started   *)
(* by a datagram and a sweep started by ProbeNow are in no WaitGroup, a    *)
(* client connection's handler is in serveTCP's.                           *)
(*                                                                         *)
(* What a handler does with its query is module Forwarding's subject; here *)
(* it is resolving, and its exchanges end at once when the context is done *)
(* (module Exchange).  Transient errors that a loop survives, UDP read     *)
(* errors and accept timeouts, change nothing and are left out.            *)
(***************************************************************************)
EXTENDS Naturals

CONSTANTS
    Conns,          \* slots for client TCP connections
    Datagrams,      \* slots for datagrams being answered
    Sweeps,         \* slots for sweeps started by ProbeNow
    Configs,        \* configurations: which of listen.udp, listen.tcp, admin.listen are set
    Faults          \* what may go wrong: "udp", "tcp" (bind), "accept", "admin"

ASSUME ConfigAssumption ==
    /\ Configs \subseteq [udp : BOOLEAN, tcp : BOOLEAN, admin : BOOLEAN]
    /\ \A c \in Configs : c.udp \/ c.tcp

ASSUME FaultAssumption == Faults \subseteq {"udp", "tcp", "accept", "admin"}

VARIABLES
    config,
    canceled,   \* ctx is done
    main,       \* run's place: "boot", "serving", "waiting", or "exited"
    errRet,     \* the error run returns
    checker,    \* Checker.Run: "idle" between sweeps, "sweeping", or "returned"
    tracker,    \* Tracker.Run: "running" or "returned"
    window,     \* queries the tracker has not reported, "early" if before ctx was done
    admin,      \* admin's ListenAndServe
    dns,        \* proxy's ListenAndServe
    retErr,     \* the error proxy's ListenAndServe returns
    open,       \* sockets the listeners hold open
    loop,       \* serveUDP and serveTCP
    conn,       \* serveTCPConn
    cut,        \* connections closed by their watcher
    datagram,   \* serveUDP's handlers
    sweep,      \* sweeps started by ProbeNow
    broke       \* history: the faults that stopped a component

process == <<config, canceled, main, errRet, broke>>
health == <<checker, sweep>>
usage == <<tracker, window>>
listeners == <<dns, retErr, open, loop, conn, cut, datagram>>
vars == <<process, health, usage, admin, listeners>>

Sockets == {"udp", "tcp"}
Errors == {"none", "udp", "tcp", "accept", "admin"}

TypeOK ==
    /\ config \in Configs
    /\ canceled \in BOOLEAN
    /\ main \in {"boot", "serving", "waiting", "exited"}
    /\ errRet \in Errors
    /\ checker \in {"off", "idle", "sweeping", "returned"}
    /\ tracker \in {"off", "running", "returned"}
    /\ window \subseteq {"early", "late"}
    /\ admin \in {"off", "serving", "failed", "closing", "returned"}
    /\ dns \in {"off", "bindUDP", "bindTCP", "serving", "draining", "returned"}
    /\ retErr \in {"none", "accept"}
    /\ open \subseteq Sockets
    /\ loop \in [Sockets -> {"off", "on", "draining", "failing", "ended"}]
    /\ conn \in [Conns -> {"none", "reading", "resolving"}]
    /\ cut \subseteq Conns
    /\ datagram \in [Datagrams -> {"none", "resolving"}]
    /\ sweep \in [Sweeps -> {"none", "sweeping"}]
    /\ broke \subseteq Faults

Init ==
    /\ config \in Configs
    /\ canceled = FALSE
    /\ main = "boot"
    /\ errRet = "none" /\ retErr = "none"
    /\ checker = "off" /\ tracker = "off" /\ admin = "off" /\ dns = "off"
    /\ open = {} /\ cut = {} /\ window = {}
    /\ loop = [s \in Sockets |-> "off"]
    /\ conn = [c \in Conns |-> "none"]
    /\ datagram = [d \in Datagrams |-> "none"]
    /\ sweep = [s \in Sweeps |-> "none"]
    /\ broke = {}
-----------------------------------------------------------------------------
(***************************************************************************)
(* main.                                                                   *)
(***************************************************************************)
\* What main does not wait for stops with the process.
Alive == main # "exited"

\* SIGINT or SIGTERM.
Signal ==
    /\ ~canceled
    /\ canceled' = TRUE
    /\ UNCHANGED <<config, main, errRet, broke, health, usage, admin, listeners>>

\* Bootstrap has returned: the four components start.
Start ==
    /\ main = "boot"
    /\ main' = "serving"
    /\ checker' = "idle" /\ tracker' = "running" /\ admin' = "serving" /\ dns' = "bindUDP"
    /\ UNCHANGED <<config, canceled, errRet, broke, sweep, window, retErr, open, loop,
                   conn, cut, datagram>>

\* Mutant of Failed: the last to return decides, without an error too.
FailedLast(err) ==
    /\ errRet' = err
    /\ canceled' = (canceled \/ err # "none")

\* main's fail: the first error is kept and everything is told to stop.
Failed(err) ==
    /\ errRet' = IF errRet = "none" THEN err ELSE errRet
    /\ canceled' = (canceled \/ err # "none")

\* run wakes up on ctx.Done().
Stopping ==
    /\ main = "serving"
    /\ canceled
    /\ main' = "waiting"
    /\ UNCHANGED <<config, canceled, errRet, broke, health, usage, admin, listeners>>

\* wg.Wait returns, and the process ends with whatever is still running.
Exit ==
    /\ main = "waiting"
    /\ {checker, tracker, admin, dns} = {"returned"}
    /\ main' = "exited"
    /\ UNCHANGED <<config, canceled, errRet, broke, health, usage, admin, listeners>>
-----------------------------------------------------------------------------
(***************************************************************************)
(* The health checker and the tracker.                                     *)
(***************************************************************************)
\* The ticker fires; select may prefer it to a context that is done already.
SweepBegins ==
    /\ checker = "idle"
    /\ checker' = "sweeping"
    /\ UNCHANGED <<process, sweep, usage, admin, listeners>>

SweepEnds ==
    /\ checker = "sweeping"
    /\ checker' = "idle"
    /\ UNCHANGED <<process, sweep, usage, admin, listeners>>

CheckerReturns ==
    /\ checker = "idle"
    /\ canceled
    /\ checker' = "returned"
    /\ UNCHANGED <<process, sweep, usage, admin, listeners>>

\* A handler's query is answered by public DNS, or not even by it: RecordQuery.
RecordQuery ==
    /\ Alive
    /\ \/ \E c \in Conns : conn[c] = "resolving"
       \/ \E d \in Datagrams : datagram[d] = "resolving"
    /\ window' = window \cup {IF canceled THEN "late" ELSE "early"}
    /\ UNCHANGED <<process, health, tracker, admin, listeners>>

\* The summary interval has passed: Report takes the window.
Report ==
    /\ tracker = "running"
    /\ window' = {}
    /\ UNCHANGED <<process, health, tracker, admin, listeners>>

\* Mutant of LastReport: on shutdown nothing is reported.
NoLastReport == UNCHANGED window

LastReport == window' = {}

\* The last report, then Run returns.
TrackerReturns ==
    /\ tracker = "running"
    /\ canceled
    /\ LastReport
    /\ tracker' = "returned"
    /\ UNCHANGED <<process, health, admin, listeners>>
-----------------------------------------------------------------------------
(***************************************************************************)
(* The admin server.                                                       *)
(***************************************************************************)
\* http.Server.ListenAndServe fails and puts its error into errCh.
AdminFails ==
    /\ admin = "serving"
    /\ config.admin
    /\ "admin" \in Faults
    /\ admin' = "failed"
    /\ UNCHANGED <<process, health, usage, listeners>>

\* select takes the error.
AdminReturnsError ==
    /\ admin = "failed"
    /\ admin' = "returned"
    /\ broke' = broke \cup {"admin"}
    /\ Failed("admin")
    /\ UNCHANGED <<config, main, health, usage, listeners>>

\* select takes the context's end, even if an error is waiting in errCh.
AdminCloses ==
    /\ admin \in {"serving", "failed"}
    /\ canceled
    /\ admin' = "closing"
    /\ UNCHANGED <<process, health, usage, listeners>>

\* Shutdown returns, after five seconds at the latest.
AdminReturns ==
    /\ admin = "closing"
    /\ admin' = "returned"
    /\ Failed("none")
    /\ UNCHANGED <<config, main, broke, health, usage, listeners>>

\* ProbeNow, called by handleAddUpstream: nobody waits for this sweep.
ProbeNow(s) ==
    /\ admin \in {"serving", "closing"}
    /\ config.admin
    /\ sweep[s] = "none"
    /\ sweep' = [sweep EXCEPT ![s] = "sweeping"]
    /\ UNCHANGED <<process, checker, usage, admin, listeners>>

ProbeNowEnds(s) ==
    /\ Alive
    /\ sweep[s] = "sweeping"
    /\ sweep' = [sweep EXCEPT ![s] = "none"]
    /\ UNCHANGED <<process, checker, usage, admin, listeners>>
-----------------------------------------------------------------------------
(***************************************************************************)
(* The DNS listeners.                                                      *)
(***************************************************************************)
Moved(s) == IF s = "udp" THEN "bindTCP" ELSE "serving"

Binding(s) == dns = IF s = "udp" THEN "bindUDP" ELSE "bindTCP"

\* The socket is bound and its loop started.
Bind(s) ==
    /\ Binding(s)
    /\ config[s]
    /\ dns' = Moved(s)
    /\ open' = open \cup {s}
    /\ loop' = [loop EXCEPT ![s] = "on"]
    /\ UNCHANGED <<process, health, usage, admin, retErr, conn, cut, datagram>>

\* The socket is not configured.
SkipBind(s) ==
    /\ Binding(s)
    /\ ~config[s]
    /\ dns' = Moved(s)
    /\ UNCHANGED <<process, health, usage, admin, retErr, open, loop, conn, cut, datagram>>

\* A bind fails: whatever is open is closed and the error returned, without
\* waiting for the loop and the handlers that have started.
BindFails(s) ==
    /\ Binding(s)
    /\ config[s]
    /\ s \in Faults
    /\ dns' = "returned"
    /\ open' = {}
    /\ broke' = broke \cup {s}
    /\ Failed(s)
    /\ UNCHANGED <<config, main, health, usage, admin, retErr, loop, conn, cut, datagram>>

\* ctx.Done(): the sockets are closed.
CloseListeners ==
    /\ dns = "serving"
    /\ canceled
    /\ dns' = "draining"
    /\ open' = {}
    /\ UNCHANGED <<process, health, usage, admin, retErr, loop, conn, cut, datagram>>

\* Mutant of Drained: the loops are not waited for.
NotDrained == TRUE

\* wg.Wait: serveUDP and serveTCP have returned.
Drained == \A s \in Sockets : loop[s] \in {"off", "ended"}

ListenersReturn ==
    /\ dns = "draining"
    /\ Drained
    /\ dns' = "returned"
    /\ Failed(retErr)
    /\ UNCHANGED <<config, main, broke, health, usage, admin, retErr, open, loop,
                   conn, cut, datagram>>

\* A datagram is read and handed to a goroutine of its own.
Receive(d) ==
    /\ loop["udp"] = "on"
    /\ "udp" \in open
    /\ datagram[d] = "none"
    /\ datagram' = [datagram EXCEPT ![d] = "resolving"]
    /\ UNCHANGED <<process, health, usage, admin, dns, retErr, open, loop, conn, cut>>

\* Its reply is written, or cannot be.
Replied(d) ==
    /\ Alive
    /\ datagram[d] = "resolving"
    /\ datagram' = [datagram EXCEPT ![d] = "none"]
    /\ UNCHANGED <<process, health, usage, admin, dns, retErr, open, loop, conn, cut>>

\* The read fails because the socket was closed: serveUDP returns.
UDPLoopEnds ==
    /\ Alive
    /\ loop["udp"] = "on"
    /\ "udp" \notin open
    /\ loop' = [loop EXCEPT !["udp"] = "ended"]
    /\ UNCHANGED <<process, health, usage, admin, dns, retErr, open, conn, cut, datagram>>

\* A connection is accepted and handed to a goroutine of its own.
Accept(c) ==
    /\ loop["tcp"] = "on"
    /\ "tcp" \in open
    /\ conn[c] = "none"
    /\ conn' = [conn EXCEPT ![c] = "reading"]
    /\ UNCHANGED <<process, health, usage, admin, dns, retErr, open, loop, cut, datagram>>

\* Accept fails for good; once the context is done that is no error.
AcceptFails ==
    /\ loop["tcp"] = "on"
    /\ "tcp" \in open
    /\ "accept" \in Faults
    /\ loop' = [loop EXCEPT !["tcp"] = IF canceled THEN "draining" ELSE "failing"]
    /\ broke' = IF canceled THEN broke ELSE broke \cup {"accept"}
    /\ UNCHANGED <<config, canceled, main, errRet, health, usage, admin, dns, retErr,
                   open, conn, cut, datagram>>

\* Accept fails because the socket was closed.
TCPLoopEnds ==
    /\ loop["tcp"] = "on"
    /\ "tcp" \notin open
    /\ loop' = [loop EXCEPT !["tcp"] = "draining"]
    /\ UNCHANGED <<process, health, usage, admin, dns, retErr, open, conn, cut, datagram>>

\* Mutant of ConnsDone: serveTCP does not wait for its connections.
ConnsLeft == TRUE

\* serveTCP's deferred wg.Wait.
ConnsDone == \A c \in Conns : conn[c] = "none"

\* serveTCP returns; only then is its error passed on.
TCPLoopReturns ==
    /\ loop["tcp"] \in {"draining", "failing"}
    /\ ConnsDone
    /\ loop' = [loop EXCEPT !["tcp"] = "ended"]
    /\ retErr' = IF loop["tcp"] = "failing" THEN "accept" ELSE retErr
    /\ UNCHANGED <<process, health, usage, admin, dns, open, conn, cut, datagram>>

\* A request is read from a connection.
Request(c) ==
    /\ conn[c] = "reading"
    /\ c \notin cut
    /\ conn' = [conn EXCEPT ![c] = "resolving"]
    /\ UNCHANGED <<process, health, usage, admin, dns, retErr, open, loop, cut, datagram>>

\* Its reply is written, and the next request awaited.
Respond(c) ==
    /\ conn[c] = "resolving"
    /\ c \notin cut
    /\ conn' = [conn EXCEPT ![c] = "reading"]
    /\ UNCHANGED <<process, health, usage, admin, dns, retErr, open, loop, cut, datagram>>

\* Mutant of Watched: only connections with a query in flight have a watcher.
WatchedWhileResolving(c) == conn[c] = "resolving"

\* A connection has a watcher from the beginning to the end.
Watched(c) == conn[c] # "none"

\* The watcher sees the context done and closes the connection.
Cut(c) ==
    /\ canceled
    /\ c \notin cut
    /\ Watched(c)
    /\ cut' = cut \cup {c}
    /\ UNCHANGED <<process, health, usage, admin, dns, retErr, open, loop, conn, datagram>>

\* The handler returns: the connection was cut.
CutShort(c) ==
    /\ c \in cut
    /\ conn' = [conn EXCEPT ![c] = "none"]
    /\ cut' = cut \ {c}
    /\ UNCHANGED <<process, health, usage, admin, dns, retErr, open, loop, datagram>>

\* The handler returns: the client closed, was idle for too long, sent what
\* cannot be answered, or did not take the reply.
HangUp(c) ==
    /\ conn[c] # "none"
    /\ c \notin cut
    /\ conn' = [conn EXCEPT ![c] = "none"]
    /\ UNCHANGED <<process, health, usage, admin, dns, retErr, open, loop, cut, datagram>>
-----------------------------------------------------------------------------
\* The process has ended.
Exited == ~Alive /\ UNCHANGED vars

Next ==
    \/ Signal
    \/ Start
    \/ Stopping
    \/ Exit
    \/ SweepBegins
    \/ SweepEnds
    \/ CheckerReturns
    \/ RecordQuery
    \/ Report
    \/ TrackerReturns
    \/ AdminFails
    \/ AdminReturnsError
    \/ AdminCloses
    \/ AdminReturns
    \/ \E s \in Sweeps : ProbeNow(s) \/ ProbeNowEnds(s)
    \/ \E s \in Sockets : Bind(s) \/ SkipBind(s) \/ BindFails(s)
    \/ CloseListeners
    \/ ListenersReturn
    \/ \E d \in Datagrams : Receive(d) \/ Replied(d)
    \/ UDPLoopEnds
    \/ AcceptFails
    \/ TCPLoopEnds
    \/ TCPLoopReturns
    \/ \E c \in Conns :
          Accept(c) \/ Request(c) \/ Respond(c) \/ Cut(c) \/ CutShort(c) \/ HangUp(c)
    \/ Exited

Spec == Init /\ [][Next]_vars

(***************************************************************************)
(* Goroutines that can go on do, sweeps and exchanges end by their         *)
(* timeouts, and a select with several cases ready does not always pass    *)
(* over the same one.  Nothing is assumed of clients, signals or faults.   *)
(***************************************************************************)
Fairness ==
    /\ WF_vars(Start) /\ WF_vars(Stopping) /\ WF_vars(Exit)
    /\ WF_vars(SweepEnds) /\ SF_vars(CheckerReturns) /\ WF_vars(TrackerReturns)
    /\ WF_vars(AdminReturnsError \/ AdminCloses) /\ WF_vars(AdminReturns)
    /\ \A s \in Sockets : WF_vars(Bind(s) \/ SkipBind(s) \/ BindFails(s))
    /\ WF_vars(CloseListeners) /\ WF_vars(ListenersReturn)
    /\ WF_vars(UDPLoopEnds) /\ WF_vars(TCPLoopEnds) /\ WF_vars(TCPLoopReturns)
    /\ \A c \in Conns : WF_vars(Cut(c)) /\ WF_vars(CutShort(c)) /\ WF_vars(Respond(c) \/ HangUp(c))
    /\ \A d \in Datagrams : WF_vars(Replied(d))
    /\ \A s \in Sweeps : WF_vars(ProbeNowEnds(s))

FairSpec == Spec /\ Fairness
-----------------------------------------------------------------------------
(***************************************************************************)
(* Properties.                                                             *)
(***************************************************************************)

\* Once told to stop, by a signal or by a component's error, the process ends,
\* whatever its clients keep sending (listen.go, the watcher of serveTCPConn;
\* main.go, wg.Wait).
ShutdownCompletes == canceled ~> main = "exited"

\* The exit status tells the supervisor what happened: an error that a bind, the
\* accept loop or the admin server returned is never lost on the way to the exit,
\* and there is no error without a cause (main.go, fail; listen.go, the WaitGroup
\* that retErr is read after).  The one error that can get lost is an admin
\* server's whose select takes the context's end instead.
ErrorsSurface ==
    main = "exited" =>
        /\ errRet = "none" => broke = {}
        /\ errRet # "none" => errRet \in broke

\* Every use of public DNS before the shutdown is in some report; what is left
\* out at the exit was recorded while the process was stopping, by handlers the
\* tracker's Run does not wait for (fallback.go, Run).
EarlyUseReported == tracker = "returned" => "early" \notin window

\* When the process exits no client connection is being served and no loop is
\* left, except the UDP loop of a process whose TCP socket could not be bound;
\* only datagrams' handlers and sweeps of ProbeNow are cut off (listen.go,
\* the WaitGroups of ListenAndServe and serveTCP).
ConnectionsServed ==
    main = "exited" =>
        /\ \A c \in Conns : conn[c] = "none"
        /\ (\A s \in Sockets : loop[s] \in {"off", "ended"}) \/ "tcp" \in broke

\* Stated by main.go ("one failed component brings the process down for the
\* supervisor"): an error that ends the TCP accept loop ends the process.
FailureStops == "accept" \in broke ~> main = "exited"
=============================================================================
