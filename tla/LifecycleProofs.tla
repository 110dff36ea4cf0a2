--------------------------- MODULE LifecycleProofs ---------------------------
(***************************************************************************)
(* Proofs about Lifecycle, for any number of connections, datagrams and    *)
(* sweeps, any set of configurations and any set of faults: type           *)
(* correctness, and what the exit leaves behind of errors, of uses of      *)
(* public DNS and of client connections.                                   *)
(***************************************************************************)
EXTENDS Lifecycle, TLAPS

\* The sockets are bound in their order, each loop starting with its socket.
BoundInOrder ==
    /\ dns \in {"off", "bindUDP", "bindTCP"} => loop["tcp"] = "off"
    /\ dns \in {"off", "bindUDP"} => loop["udp"] = "off"

\* What wg.Wait waits for in the two WaitGroups of the listeners: serveTCP for
\* its connections, ListenAndServe for both loops, unless the second bind failed.
Waited ==
    /\ loop["tcp"] \in {"off", "ended"} => \A c \in Conns : conn[c] = "none"
    /\ dns = "returned" =>
          /\ loop["tcp"] \in {"off", "ended"}
          /\ loop["udp"] \in {"off", "ended"} \/ "tcp" \in broke

\* An error that is kept or on its way has a cause.
Caused ==
    /\ errRet # "none" => errRet \in broke
    /\ retErr # "none" \/ loop["tcp"] = "failing" => "accept" \in broke
    /\ admin = "failed" => "admin" \in Faults

\* As long as main has no error, nothing broke but the accept loop, whose error
\* is still on its way: in serveTCP, which waits for its connections, or in
\* retErr, which ListenAndServe has not returned yet.
OnItsWay ==
    errRet = "none" =>
        /\ broke \subseteq {"accept"}
        /\ "accept" \in broke => loop["tcp"] = "failing" \/ retErr = "accept"
        /\ dns = "returned" => retErr = "none"

\* main starts the listeners after the boot and exits after them.
MainOrder ==
    /\ main = "boot" => dns = "off"
    /\ main = "exited" => dns = "returned"

\* The tracker's Run returns only when the context is done, which it stays.
LastWindow == tracker = "returned" => canceled /\ "early" \notin window

ProcessInv ==
    TypeOK /\ BoundInOrder /\ Waited /\ Caused /\ OnItsWay /\ MainOrder /\ LastWindow
-----------------------------------------------------------------------------
\* Init establishes the invariant.
LEMMA ProcessInit == Init => ProcessInv
<1> SUFFICES ASSUME Init PROVE ProcessInv
  OBVIOUS
<1>1. TypeOK
  BY DEF Init, TypeOK, Errors
<1>2. loop["udp"] = "off" /\ loop["tcp"] = "off"
  BY DEF Init, Sockets
<1>3. \A c \in Conns : conn[c] = "none"
  BY DEF Init
<1> QED
  BY <1>1, <1>2, <1>3 DEF Init, ProcessInv, BoundInOrder, Waited, Caused, OnItsWay, MainOrder, LastWindow

\* The sockets are two, and every fault is an error.
LEMMA Names == /\ "udp" \in Sockets /\ "tcp" \in Sockets
               /\ Faults \subseteq Errors /\ "none" \notin Faults /\ "none" \in Errors
  BY FaultAssumption DEF Sockets, Errors

\* Every action keeps the invariant.
LEMMA ProcessStep == ProcessInv /\ [Next]_vars => ProcessInv'
<1> SUFFICES ASSUME ProcessInv, [Next]_vars PROVE ProcessInv'
  OBVIOUS
<1> USE Names DEF ProcessInv, TypeOK, BoundInOrder, Waited, Caused, OnItsWay, MainOrder,
                  LastWindow, process, health, usage, listeners
<1>1. CASE Signal
  BY <1>1 DEF Signal
<1>2. CASE Start
  BY <1>2 DEF Start
<1>3. CASE Stopping
  BY <1>3 DEF Stopping
<1>4. CASE Exit
  BY <1>4 DEF Exit
<1>5. CASE SweepBegins
  BY <1>5 DEF SweepBegins
<1>6. CASE SweepEnds
  BY <1>6 DEF SweepEnds
<1>7. CASE CheckerReturns
  BY <1>7 DEF CheckerReturns
<1>8. CASE RecordQuery
  BY <1>8 DEF RecordQuery, Alive
<1>9. CASE Report
  BY <1>9 DEF Report
<1>10. CASE TrackerReturns
  BY <1>10 DEF TrackerReturns, LastReport
<1>11. CASE AdminFails
  BY <1>11 DEF AdminFails
<1>12. CASE AdminReturnsError
  <2>1. errRet' = (IF errRet = "none" THEN "admin" ELSE errRet) /\ broke' = broke \cup {"admin"}
    BY <1>12 DEF AdminReturnsError, Failed
  <2>2. errRet' # "none" /\ errRet' \in Errors /\ errRet' \in broke'
    BY <2>1 DEF Errors
  <2>3. broke' \subseteq Faults
    BY <1>12, <2>1 DEF AdminReturnsError
  <2> QED
    BY <1>12, <2>1, <2>2, <2>3 DEF AdminReturnsError, Failed
<1>13. CASE AdminCloses
  BY <1>13 DEF AdminCloses
<1>14. CASE AdminReturns
  BY <1>14 DEF AdminReturns, Failed
<1>15. CASE CloseListeners
  BY <1>15 DEF CloseListeners
<1>16. CASE ListenersReturn
  BY <1>16 DEF ListenersReturn, Failed, Drained
<1>17. CASE UDPLoopEnds
  BY <1>17 DEF UDPLoopEnds
<1>18. CASE AcceptFails
  BY <1>18 DEF AcceptFails
<1>19. CASE TCPLoopEnds
  BY <1>19 DEF TCPLoopEnds
<1>20. CASE TCPLoopReturns
  <2>1. loop' \in [Sockets -> {"off", "on", "draining", "failing", "ended"}]
    BY <1>20 DEF TCPLoopReturns
  <2>2. loop'["tcp"] = "ended" /\ loop'["udp"] = loop["udp"]
    BY <1>20 DEF TCPLoopReturns
  <2>3. Waited'
    BY <1>20, <2>2 DEF TCPLoopReturns, ConnsDone
  <2>4. OnItsWay' /\ Caused'
    BY <1>20, <2>2 DEF TCPLoopReturns
  <2> QED
    BY <1>20, <2>1, <2>2, <2>3, <2>4 DEF TCPLoopReturns
<1>21. ASSUME NEW s \in Sweeps, ProbeNow(s) PROVE ProcessInv'
  BY <1>21 DEF ProbeNow
<1>22. ASSUME NEW s \in Sweeps, ProbeNowEnds(s) PROVE ProcessInv'
  BY <1>22 DEF ProbeNowEnds
<1>23. ASSUME NEW s \in Sockets, Bind(s) PROVE ProcessInv'
  BY <1>23 DEF Bind, Binding, Moved
<1>24. ASSUME NEW s \in Sockets, SkipBind(s) PROVE ProcessInv'
  BY <1>24 DEF SkipBind, Binding, Moved
<1>25. ASSUME NEW s \in Sockets, BindFails(s) PROVE ProcessInv'
  <2>1. errRet' = (IF errRet = "none" THEN s ELSE errRet) /\ broke' = broke \cup {s} /\ s \in Faults
    BY <1>25 DEF BindFails, Failed
  <2>2. errRet' # "none" /\ errRet' \in Errors /\ errRet' \in broke' /\ broke' \subseteq Faults
    BY <2>1
  <2>3. dns' = "returned" /\ UNCHANGED <<loop, conn>> /\ main' = main
    BY <1>25 DEF BindFails
  <2>4. Waited'
    BY <1>25, <2>1, <2>3 DEF BindFails, Binding, Sockets
  <2>5. MainOrder'
    BY <1>25, <2>3 DEF BindFails, Binding
  <2> QED
    BY <1>25, <2>1, <2>2, <2>3, <2>4, <2>5 DEF BindFails, Failed
<1>26. ASSUME NEW d \in Datagrams, Receive(d) PROVE ProcessInv'
  BY <1>26 DEF Receive
<1>27. ASSUME NEW d \in Datagrams, Replied(d) PROVE ProcessInv'
  BY <1>27 DEF Replied
<1>28. ASSUME NEW c \in Conns, Accept(c) PROVE ProcessInv'
  BY <1>28 DEF Accept
<1>29. ASSUME NEW c \in Conns, Request(c) PROVE ProcessInv'
  BY <1>29 DEF Request
<1>30. ASSUME NEW c \in Conns, Respond(c) PROVE ProcessInv'
  BY <1>30 DEF Respond
<1>31. ASSUME NEW c \in Conns, Cut(c) PROVE ProcessInv'
  BY <1>31 DEF Cut, Watched
<1>32. ASSUME NEW c \in Conns, CutShort(c) PROVE ProcessInv'
  BY <1>32 DEF CutShort
<1>33. ASSUME NEW c \in Conns, HangUp(c) PROVE ProcessInv'
  BY <1>33 DEF HangUp
<1>34. CASE UNCHANGED vars
  BY <1>34 DEF vars
<1> QED
  BY <1>1, <1>2, <1>3, <1>4, <1>5, <1>6, <1>7, <1>8, <1>9, <1>10, <1>11, <1>12, <1>13, <1>14, <1>15, <1>16, <1>17, <1>18, <1>19, <1>20, <1>21, <1>22, <1>23, <1>24, <1>25, <1>26, <1>27, <1>28, <1>29, <1>30, <1>31, <1>32, <1>33, <1>34
     DEF Next, Exited

\* Every behaviour keeps the invariant.
LEMMA ProcessSafe == Spec => []ProcessInv
<1>1. Init => ProcessInv
  BY ProcessInit
<1>2. ProcessInv /\ [Next]_vars => ProcessInv'
  BY ProcessStep
<1> QED
  BY <1>1, <1>2, PTL DEF Spec

\* Type correctness.
THEOREM LifecycleTypeOK == Spec => []TypeOK
<1>1. ProcessInv => TypeOK
  BY DEF ProcessInv
<1> QED
  BY <1>1, ProcessSafe, PTL

\* In every configuration and for every set of faults, an error that a bind, the
\* accept loop or the admin server returned is never lost on its way to the exit
\* status, and there is no error without a cause (main.go, fail; listen.go, retErr).
THEOREM ErrorsSurfaceAlways == Spec => []ErrorsSurface
<1>1. ProcessInv => ErrorsSurface
  <2> SUFFICES ASSUME ProcessInv, main = "exited" 
               PROVE  /\ errRet = "none" => broke = {}
                      /\ errRet # "none" => errRet \in broke
    BY DEF ErrorsSurface
  <2>1. dns = "returned" /\ loop["tcp"] # "failing"
    BY DEF ProcessInv, MainOrder, Waited
  <2>2. errRet = "none" => broke \subseteq {"accept"} /\ "accept" \notin broke
    BY <2>1 DEF ProcessInv, OnItsWay
  <2> QED
    BY <2>2 DEF ProcessInv, Caused
<1> QED
  BY <1>1, ProcessSafe, PTL

\* Every use of public DNS recorded before the context was done is in a report by
\* the time the tracker's Run has returned (fallback.go, Run).
THEOREM EarlyUseReportedAlways == Spec => []EarlyUseReported
<1>1. ProcessInv => EarlyUseReported
  BY DEF ProcessInv, LastWindow, EarlyUseReported
<1> QED
  BY <1>1, ProcessSafe, PTL

\* However many connections there are, the process exits only when none is being
\* served and no loop is left, but the UDP loop after a failed TCP bind (listen.go).
THEOREM ConnectionsServedAlways == Spec => []ConnectionsServed
<1>1. ProcessInv => ConnectionsServed
  <2> SUFFICES ASSUME ProcessInv, main = "exited"
               PROVE  /\ \A c \in Conns : conn[c] = "none"
                      /\ (\A s \in Sockets : loop[s] \in {"off", "ended"}) \/ "tcp" \in broke
    BY DEF ConnectionsServed
  <2>1. dns = "returned"
    BY DEF ProcessInv, MainOrder
  <2> QED
    BY <2>1 DEF ProcessInv, Waited, Sockets
<1> QED
  BY <1>1, ProcessSafe, PTL
=============================================================================
