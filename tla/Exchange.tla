------------------------------ MODULE Exchange ------------------------------
(***************************************************************************)
(* dnsclient.Exchange (internal/dnsclient): one query and its reply over   *)
(* a socket of its own, used by query handlers, public fallback and        *)
(* probes at once.  Local ports and receive buffers are used again by      *)
(* later exchanges, the network loses, delays and duplicates datagrams,    *)
(* and the context may be done at any moment.                              *)
(*                                                                         *)
(* An exchange is a number while anything of it is left: a datagram on its *)
(* way or a reply somebody holds.  A message is the number of the exchange *)
(* it answers; lost it is never read, duplicated it is read again, and     *)
(* delayed it is read by a later exchange.                                 *)
(***************************************************************************)
EXTENDS Naturals

CONSTANTS
    Callers,        \* goroutines with an exchange to make
    Numbers,        \* exchanges that can leave traces at the same time
    Ports,          \* local ports
    Ids,            \* transaction ids
    Protos,         \* {"udp"}, {"tcp"} or both
    Bufs,           \* receive buffers
    None            \* no number, no buffer, no query

Queries == [port : Ports, id : Ids, proto : Protos]

ASSUME ValueAssumption ==
    /\ Protos \subseteq {"udp", "tcp"}
    /\ None \notin Numbers \cup Bufs \cup Callers \cup Queries
    /\ Bufs \cap Callers = {}

VARIABLES
    sent,       \* the query of each number: port, id and transport
    answer,     \* "asked" once it is written, then what the server sent for it
    call,       \* each caller's exchange
    mem         \* memory that holds messages: the buffers, a copy per caller

vars == <<sent, answer, call, mem>>

\* A reply; one with the query bit clear; one too short for a header or with an id
\* nobody sent.
Answers == {"reply", "echo", "junk"}

\* expired: the socket's deadline has passed.  done: the context is done.  At
\* "returned" the caller has the outcome, and reply is where its message lies.
\* read and forced are history: the message that ended the exchange, and that
\* the watcher moved the deadline.
Idle == [at |-> "idle", num |-> None, expired |-> FALSE, done |-> FALSE, buf |-> None,
         outcome |-> "none", reply |-> None, read |-> None, forced |-> FALSE]

TypeOK ==
    /\ sent \in [Numbers -> Queries \cup {None}]
    /\ answer \in [Numbers -> Answers \cup {"none", "asked"}]
    /\ call \in [Callers ->
          [at : {"idle", "dialling", "open", "reading", "returned"},
           num : Numbers \cup {None}, expired : BOOLEAN, done : BOOLEAN,
           buf : Bufs \cup {None}, outcome : {"none", "ok", "invalid", "io", "ctx"},
           reply : Bufs \cup Callers \cup {None}, read : Numbers \cup {None},
           forced : BOOLEAN]]
    /\ mem \in [Bufs \cup Callers -> Numbers \cup {None}]

Init ==
    /\ sent = [n \in Numbers |-> None]
    /\ answer = [n \in Numbers |-> "none"]
    /\ call = [c \in Callers |-> Idle]
    /\ mem = [m \in Bufs \cup Callers |-> None]
-----------------------------------------------------------------------------
At(c, place) == call[c].at = place

InProgress(c) == call[c].at \in {"dialling", "open", "reading"}

Query(c) == sent[call[c].num]

(***************************************************************************)
(* External: the server answers a query it was sent, at any time, and      *)
(* the traces of an exchange that is over disappear.                       *)
(***************************************************************************)
Answer(n, a) ==
    /\ answer[n] = "asked"
    /\ answer' = [answer EXCEPT ![n] = a]
    /\ UNCHANGED <<sent, call, mem>>

Vanish(n) ==
    /\ sent[n] # None
    /\ \A c \in Callers : n \notin {call[c].num, call[c].read}
    /\ sent' = [sent EXCEPT ![n] = None]
    /\ answer' = [answer EXCEPT ![n] = "none"]
    /\ mem' = [m \in DOMAIN mem |-> IF mem[m] = n THEN None ELSE mem[m]]
    /\ UNCHANGED call
-----------------------------------------------------------------------------
(***************************************************************************)
(* The caller's goroutine.                                                 *)
(***************************************************************************)
\* Numbers free to name an exchange, it does not matter which.
Unused == {n \in Numbers : sent[n] = None}

\* Exchange is called; the kernel will pick a port no open socket has.
Call(c, q) ==
    /\ At(c, "idle")
    /\ Unused # {}
    /\ \A d \in Callers : InProgress(d) => <<Query(d).port, Query(d).proto>> # <<q.port, q.proto>>
    /\ LET n == CHOOSE m \in Unused : TRUE
       IN  /\ sent' = [sent EXCEPT ![n] = q]
           /\ call' = [call EXCEPT ![c] = [Idle EXCEPT !.at = "dialling", !.num = n]]
    /\ UNCHANGED <<answer, mem>>

\* Exchange returns: a buffer goes back to the pool, the watcher and the deadline
\* go with the socket.
Returned(c, outcome) ==
    [call[c] EXCEPT !.at = "returned", !.outcome = outcome, !.buf = None,
                    !.expired = FALSE, !.done = FALSE]

\* DialContext gives up: refused, or dialCtx is done.
DialFails(c) ==
    /\ At(c, "dialling")
    /\ \E outcome \in {"io"} \cup (IF call[c].done THEN {"ctx"} ELSE {}) :
          call' = [call EXCEPT ![c] = Returned(c, outcome)]
    /\ UNCHANGED <<sent, answer, mem>>

\* The connection is made, the deadline set and the watcher started.
Dial(c) ==
    /\ At(c, "dialling")
    /\ call' = [call EXCEPT ![c].at = "open"]
    /\ UNCHANGED <<sent, answer, mem>>

\* GetBuf: a buffer nobody has, for a datagram.
Buffers(c) ==
    IF Query(c).proto = "udp" THEN Bufs \ {call[d].buf : d \in Callers} ELSE {None}

\* The query is written and the reply awaited.
Write(c) ==
    /\ At(c, "open")
    /\ ~call[c].expired
    /\ answer' = [answer EXCEPT ![call[c].num] = "asked"]
    /\ \E b \in Buffers(c) : call' = [call EXCEPT ![c].at = "reading", ![c].buf = b]
    /\ UNCHANGED <<sent, mem>>

\* Mutant of Error: the forced timeout is reported.
ErrorAsIs(c) == "io"

\* An I/O error is reported as the context's when that is done.
Error(c) == IF call[c].done THEN "ctx" ELSE "io"

\* A write or a read fails: the deadline has passed, or the peer refuses, closes
\* or sends an empty frame.
Fails(c) ==
    /\ call[c].at \in {"open", "reading"}
    /\ call' = [call EXCEPT ![c] = Returned(c, Error(c))]
    /\ UNCHANGED <<sent, answer, mem>>

\* The messages that can arrive at c's socket: for TCP this connection's, for
\* UDP any its port was ever sent.
Arriving(c) ==
    {n \in Numbers :
        /\ answer[n] \in Answers
        /\ IF Query(c).proto = "tcp" THEN n = call[c].num
           ELSE sent[n].proto = "udp" /\ sent[n].port = Query(c).port}

\* The message has a header, with the id of c's query.
SameId(c, n) == answer[n] # "junk" /\ sent[n].id = Query(c).id

\* Mutant of Skips: the first datagram ends the exchange.
SkipsNothing(c, n) == FALSE

\* exchangeUDP passes over short datagrams and other transaction ids.
Skips(c, n) == ~SameId(c, n)

Skip(c, n) ==
    /\ At(c, "reading")
    /\ ~call[c].expired
    /\ Query(c).proto = "udp"
    /\ n \in Arriving(c)
    /\ Skips(c, n)
    /\ mem' = [mem EXCEPT ![call[c].buf] = n]
    /\ UNCHANGED <<sent, answer, call>>

\* ValidateResponse.
Valid(c, n) == SameId(c, n) /\ answer[n] = "reply"

\* Mutant of Kept: the receive buffer itself is returned.
KeptBuffer(c) == IF call[c].buf = None THEN c ELSE call[c].buf

\* The message is returned in memory of its own.
Kept(c) == c

\* A message ends the exchange: it is copied out of the buffer, if there is one,
\* and validated.
Take(c, n) ==
    /\ At(c, "reading")
    /\ ~call[c].expired
    /\ n \in Arriving(c)
    /\ Query(c).proto = "udp" => ~Skips(c, n)
    /\ mem' = [m \in DOMAIN mem |-> IF m \in {call[c].buf, c} THEN n ELSE mem[m]]
    /\ call' = [call EXCEPT ![c] =
          [Returned(c, IF Valid(c, n) THEN "ok" ELSE "invalid") EXCEPT
              !.read = n, !.reply = IF Valid(c, n) THEN Kept(c) ELSE None]]
    /\ UNCHANGED <<sent, answer>>

\* The caller is done with the outcome.
Release(c) ==
    /\ At(c, "returned")
    /\ call' = [call EXCEPT ![c] = Idle]
    /\ mem' = [mem EXCEPT ![c] = None]
    /\ UNCHANGED <<sent, answer>>
-----------------------------------------------------------------------------
(***************************************************************************)
(* Time, the context and the watcher.                                      *)
(***************************************************************************)
\* The socket's deadline passes: the timeout, or the context's if that is sooner.
Expire(c) ==
    /\ call[c].at \in {"open", "reading"}
    /\ ~call[c].expired
    /\ call' = [call EXCEPT ![c].expired = TRUE]
    /\ UNCHANGED <<sent, answer, mem>>

\* The context is canceled or its deadline passes.
Cancel(c) ==
    /\ InProgress(c)
    /\ ~call[c].done
    /\ call' = [call EXCEPT ![c].done = TRUE]
    /\ UNCHANGED <<sent, answer, mem>>

\* Mutant of Watches: the watcher only sees a context that is done when it starts.
WatchesOnce(c) == At(c, "open")

\* The watcher lives until the exchange returns.
Watches(c) == call[c].at \in {"open", "reading"}

\* It moves the deadline into the past.
Watch(c) ==
    /\ Watches(c)
    /\ call[c].done
    /\ ~call[c].expired
    /\ call' = [call EXCEPT ![c].expired = TRUE, ![c].forced = TRUE]
    /\ UNCHANGED <<sent, answer, mem>>
-----------------------------------------------------------------------------
Next ==
    \/ \E n \in Numbers : Vanish(n) \/ \E a \in Answers : Answer(n, a)
    \/ \E c \in Callers :
          \/ \E q \in Queries : Call(c, q)
          \/ DialFails(c) \/ Dial(c) \/ Write(c) \/ Fails(c)
          \/ \E n \in Numbers : Skip(c, n) \/ Take(c, n)
          \/ Release(c)
          \/ Expire(c) \/ Cancel(c) \/ Watch(c)

Spec == Init /\ [][Next]_vars

\* Dialling ends by its own timeout, a goroutine that can go on does, and I/O
\* past the deadline fails.  Deadlines are relied on only where the context is
\* not done: after a cancellation the watcher must do, however long the timeout.
Fairness ==
    \A c \in Callers :
        /\ WF_vars(Dial(c) \/ DialFails(c))
        /\ WF_vars(Write(c))
        /\ WF_vars(call[c].expired /\ Fails(c))
        /\ WF_vars(~call[c].done /\ Expire(c))
        /\ WF_vars(Watch(c))

FairSpec == Spec /\ Fairness
-----------------------------------------------------------------------------
(***************************************************************************)
(* Properties.                                                             *)
(***************************************************************************)

\* What ends an exchange answers its query, or one with the same transaction id
\* that was sent from the same port before: late, duplicated and short datagrams
\* never do, and over TCP there is no such twin (exchangeUDP, ValidateResponse,
\* which leaves the question uncompared).  And while a caller holds a reply it
\* stays the one that was read, though buffers go from exchange to exchange
\* (exchangeUDP: the copy, the deferred PutBuf).
AnswersQuery ==
    \A c \in Callers :
        /\ call[c].read # None =>
              /\ sent[call[c].read] = Query(c)
              /\ Query(c).proto = "tcp" => call[c].read = call[c].num
        /\ call[c].outcome = "ok" =>
              /\ mem[call[c].reply] = call[c].read
              /\ answer[call[c].read] = "reply"

\* A timeout the watcher forced is reported as the context's error, never as the
\* server's failure (Exchange, "Report cancellation as cancellation").
CancelReported ==
    \A c \in Callers : call[c].forced => call[c].outcome # "io"

\* Every exchange ends, however many stray datagrams arrive, and after a
\* cancellation it ends without the deadline's help (Exchange, the watcher).
ExchangeEnds == \A c \in Callers : InProgress(c) ~> ~InProgress(c)
=============================================================================
