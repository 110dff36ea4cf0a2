--------------------------- MODULE ExchangeProofs ---------------------------
(***************************************************************************)
(* Proofs about Exchange, for any number of callers, ports, transaction    *)
(* ids and buffers: type correctness, that a reply answers the query and   *)
(* stays what was read, and that a forced timeout is the context's error.  *)
(***************************************************************************)
EXTENDS Exchange, TLAPS

\* What a caller's exchange can be.
Calls == [at : {"idle", "dialling", "open", "reading", "returned"},
          num : Numbers \cup {None}, expired : BOOLEAN, done : BOOLEAN,
          buf : Bufs \cup {None}, outcome : {"none", "ok", "invalid", "io", "ctx"},
          reply : Bufs \cup Callers \cup {None}, read : Numbers \cup {None},
          forced : BOOLEAN]

\* A number that names no exchange has no answer either.
UnusedSilent == \A n \in Numbers : sent[n] = None => answer[n] = "none"

\* An exchange has a number of its own that is not used again before the caller
\* is done, and no server answers it before it is written.
Numbered(c) ==
    call[c].at # "idle" =>
        /\ call[c].num \in Numbers
        /\ sent[call[c].num] # None
        /\ call[c].at \in {"dialling", "open"} => answer[call[c].num] = "none"

OwnNumber ==
    \A c, d \in Callers :
        c # d /\ call[c].at # "idle" /\ call[d].at # "idle" => call[c].num # call[d].num

\* Only an exchange that has returned has an outcome, and a reply lies in the
\* caller's own memory.
Ended(c) ==
    /\ call[c].at # "returned" => call[c].read = None /\ call[c].outcome = "none"
    /\ call[c].outcome = "ok" => call[c].reply = c /\ call[c].read # None

\* The watcher forces only what a done context still waits for.
Forced(c) ==
    call[c].forced =>
        \/ call[c].at \in {"open", "reading"} /\ call[c].done
        \/ call[c].at = "returned" /\ call[c].outcome # "io"

ExchangeInv ==
    /\ TypeOK /\ UnusedSilent /\ OwnNumber
    /\ \A c \in Callers : Numbered(c) /\ Ended(c) /\ Forced(c)
    /\ AnswersQuery
-----------------------------------------------------------------------------
\* Type correctness, said with the record set above.
LEMMA Types ==
    TypeOK <=> /\ sent \in [Numbers -> Queries \cup {None}]
               /\ answer \in [Numbers -> Answers \cup {"none", "asked"}]
               /\ call \in [Callers -> Calls]
               /\ mem \in [Bufs \cup Callers -> Numbers \cup {None}]
  BY DEF TypeOK, Calls

\* Init establishes the invariant.
LEMMA ExchangeInit == Init => ExchangeInv
<1> SUFFICES ASSUME Init PROVE ExchangeInv
  OBVIOUS
<1>1. Idle \in Calls
  BY DEF Idle, Calls
<1>2. TypeOK
  BY <1>1, Types DEF Init
<1>3. \A c \in Callers : call[c] = Idle
  BY DEF Init
<1>4. UnusedSilent
  BY DEF Init, UnusedSilent
<1> QED
  BY <1>2, <1>3, <1>4 DEF ExchangeInv, OwnNumber, Numbered, Ended, Forced, AnswersQuery, Idle

\* A step of one exchange under way that reads nothing and takes no message keeps
\* the invariant.
LEMMA QuietStep ==
    ASSUME ExchangeInv, NEW c \in Callers, InProgress(c), NEW r \in Calls,
           call' = [call EXCEPT ![c] = r], UNCHANGED <<sent, answer, mem>>,
           r.at # "idle", r.num = call[c].num, r.read = None,
           r.at \in {"dialling", "open"} => call[c].at \in {"dialling", "open"},
           r.at # "returned" => r.outcome = "none",
           r.outcome # "ok",
           r.forced => \/ r.at \in {"open", "reading"} /\ r.done
                       \/ r.at = "returned" /\ r.outcome # "io"
    PROVE  ExchangeInv'
<1>t. TypeOK /\ call \in [Callers -> Calls]
  BY Types DEF ExchangeInv
<1>1. \A d \in Callers : call'[d] = IF d = c THEN r ELSE call[d]
  BY <1>t
<1>2. TypeOK'
  BY <1>t, Types DEF TypeOK, Calls
<1>p. call[c].at # "idle" /\ call[c].at # "returned"
  BY DEF InProgress
<1>3. UnusedSilent'
  BY DEF ExchangeInv, UnusedSilent
<1>4. OwnNumber'
  BY <1>1, <1>p DEF ExchangeInv, OwnNumber
<1>5. \A d \in Callers : Numbered(d)'
  BY <1>1, <1>p DEF ExchangeInv, Numbered
<1>6. \A d \in Callers : Ended(d)'
  BY <1>1 DEF ExchangeInv, Ended
<1>7. \A d \in Callers : Forced(d)'
  BY <1>1 DEF ExchangeInv, Forced
<1>8. AnswersQuery'
  BY <1>1 DEF ExchangeInv, AnswersQuery, Query
<1> QED
  BY <1>2, <1>3, <1>4, <1>5, <1>6, <1>7, <1>8 DEF ExchangeInv

\* What Exchange returns without a message is a well-typed end.
LEMMA ReturnedFacts ==
    ASSUME ExchangeInv, NEW c \in Callers, NEW o \in {"io", "ctx", "ok", "invalid"}
    PROVE  LET r == Returned(c, o)
           IN  /\ r \in Calls
               /\ r.at = "returned" /\ r.outcome = o
               /\ r.num = call[c].num /\ r.read = call[c].read
               /\ r.forced = call[c].forced
<1>1. call[c] \in Calls
  BY Types DEF ExchangeInv
<1> QED
  BY <1>1 DEF Returned, Calls

\* The six steps that neither send nor read a message.
LEMMA QuietSteps ==
    ASSUME ExchangeInv, NEW c \in Callers,
           DialFails(c) \/ Dial(c) \/ Fails(c) \/ Expire(c) \/ Cancel(c) \/ Watch(c)
    PROVE  ExchangeInv'
<1>t. call \in [Callers -> Calls] /\ call[c] \in Calls
  BY Types DEF ExchangeInv
<1>e. Numbered(c) /\ Ended(c) /\ Forced(c)
  BY DEF ExchangeInv
<1>1. CASE DialFails(c)
  <2>1. PICK o \in {"io", "ctx"} : call' = [call EXCEPT ![c] = Returned(c, o)]
    BY <1>1 DEF DialFails
  <2>2. InProgress(c) /\ call[c].at = "dialling" /\ UNCHANGED <<sent, answer, mem>>
    BY <1>1 DEF DialFails, InProgress, At
  <2>3. ~call[c].forced /\ call[c].read = None
    BY <2>2, <1>e DEF Forced, Ended
  <2> DEFINE r == Returned(c, o)
  <2>4. /\ r \in Calls /\ r.at = "returned" /\ r.outcome = o
        /\ r.num = call[c].num /\ r.read = call[c].read /\ r.forced = call[c].forced
    BY ReturnedFacts
  <2> HIDE DEF r
  <2> QED
    BY <2>1, <2>2, <2>3, <2>4, QuietStep DEF r
<1>2. CASE Dial(c)
  <2> DEFINE r == [call[c] EXCEPT !.at = "open"]
  <2>1. InProgress(c) /\ call[c].at = "dialling" /\ UNCHANGED <<sent, answer, mem>>
    BY <1>2 DEF Dial, InProgress, At
  <2>2. call' = [call EXCEPT ![c] = r]
    BY <1>2, <1>t DEF Dial
  <2>3. /\ r \in Calls /\ r.at = "open" /\ r.outcome = call[c].outcome
        /\ r.num = call[c].num /\ r.read = call[c].read /\ r.forced = call[c].forced
    BY <1>t DEF Calls
  <2>4. ~call[c].forced /\ call[c].read = None /\ call[c].outcome = "none"
    BY <2>1, <1>e DEF Forced, Ended
  <2> HIDE DEF r
  <2> QED
    BY <2>1, <2>2, <2>3, <2>4, QuietStep
<1>3. CASE Fails(c)
  <2> DEFINE r == Returned(c, Error(c))
  <2>1. InProgress(c) /\ call[c].at \in {"open", "reading"} /\ UNCHANGED <<sent, answer, mem>>
    BY <1>3 DEF Fails, InProgress
  <2>2. call' = [call EXCEPT ![c] = r] /\ Error(c) \in {"io", "ctx"}
    BY <1>3 DEF Fails, Error
  <2>3. call[c].read = None /\ (call[c].forced => Error(c) = "ctx")
    BY <2>1, <1>e DEF Forced, Ended, Error
  <2>4. /\ r \in Calls /\ r.at = "returned" /\ r.outcome = Error(c)
        /\ r.num = call[c].num /\ r.read = call[c].read /\ r.forced = call[c].forced
    BY <2>2, ReturnedFacts
  <2> HIDE DEF r
  <2> QED
    BY <2>1, <2>2, <2>3, <2>4, QuietStep
<1>4. CASE Expire(c)
  <2> DEFINE r == [call[c] EXCEPT !.expired = TRUE]
  <2>1. InProgress(c) /\ UNCHANGED <<sent, answer, mem>>
    BY <1>4 DEF Expire, InProgress
  <2>2. call' = [call EXCEPT ![c] = r]
    BY <1>4, <1>t DEF Expire
  <2>3. /\ r \in Calls /\ r.at = call[c].at /\ r.outcome = call[c].outcome
        /\ r.num = call[c].num /\ r.read = call[c].read /\ r.forced = call[c].forced
        /\ r.done = call[c].done
    BY <1>t DEF Calls
  <2> HIDE DEF r
  <2> QED
    BY <2>1, <2>2, <2>3, <1>e, QuietStep DEF InProgress, Forced, Ended
<1>5. CASE Cancel(c)
  <2> DEFINE r == [call[c] EXCEPT !.done = TRUE]
  <2>1. InProgress(c) /\ UNCHANGED <<sent, answer, mem>>
    BY <1>5 DEF Cancel, InProgress
  <2>2. call' = [call EXCEPT ![c] = r]
    BY <1>5, <1>t DEF Cancel
  <2>3. /\ r \in Calls /\ r.at = call[c].at /\ r.outcome = call[c].outcome
        /\ r.num = call[c].num /\ r.read = call[c].read /\ r.forced = call[c].forced
        /\ r.done
    BY <1>t DEF Calls
  <2> HIDE DEF r
  <2> QED
    BY <2>1, <2>2, <2>3, <1>e, QuietStep DEF InProgress, Forced, Ended
<1>6. CASE Watch(c)
  <2> DEFINE r == [call[c] EXCEPT !.expired = TRUE, !.forced = TRUE]
  <2>1. /\ InProgress(c) /\ call[c].at \in {"open", "reading"} /\ call[c].done
        /\ UNCHANGED <<sent, answer, mem>>
    BY <1>6 DEF Watch, Watches, InProgress
  <2>2. call' = [call EXCEPT ![c] = r]
    BY <1>6, <1>t DEF Watch
  <2>3. /\ r \in Calls /\ r.at = call[c].at /\ r.outcome = call[c].outcome
        /\ r.num = call[c].num /\ r.read = call[c].read /\ r.done = call[c].done
    BY <1>t DEF Calls
  <2> HIDE DEF r
  <2> QED
    BY <2>1, <2>2, <2>3, <1>e, QuietStep DEF InProgress, Ended
<1> QED
  BY <1>1, <1>2, <1>3, <1>4, <1>5, <1>6

\* The server's answer to a query that is out changes nothing anybody has read.
LEMMA AnswerStep ==
    ASSUME ExchangeInv, NEW n \in Numbers, NEW a \in Answers, Answer(n, a)
    PROVE  ExchangeInv'
<1>t. TypeOK
  BY DEF ExchangeInv
<1>1. \A m \in Numbers : answer'[m] = IF m = n THEN a ELSE answer[m]
  BY <1>t DEF Answer, TypeOK
<1>2. answer[n] = "asked" /\ UNCHANGED <<sent, call, mem>>
  BY DEF Answer
<1>3. TypeOK'
  BY <1>t DEF Answer, TypeOK
<1>4. UnusedSilent'
  BY <1>1, <1>2 DEF ExchangeInv, UnusedSilent
<1>5. OwnNumber'
  BY <1>2 DEF ExchangeInv, OwnNumber
<1>6. \A c \in Callers : Numbered(c)' /\ Ended(c)' /\ Forced(c)'
  BY <1>1, <1>2 DEF ExchangeInv, Numbered, Ended, Forced
<1>7. AnswersQuery'
  <2> SUFFICES ASSUME NEW c \in Callers
               PROVE  /\ call[c].read # None =>
                            /\ sent[call[c].read] = Query(c)
                            /\ Query(c).proto = "tcp" => call[c].read = call[c].num
                      /\ call[c].outcome = "ok" =>
                            /\ mem[call[c].reply] = call[c].read
                            /\ answer'[call[c].read] = "reply"
    BY <1>2 DEF AnswersQuery, Query
  <2>1. call[c].outcome = "ok" => call[c].read \in Numbers
    BY <1>t DEF ExchangeInv, Ended, TypeOK
  <2> QED
    BY <1>1, <1>2, <2>1 DEF ExchangeInv, AnswersQuery
<1> QED
  BY <1>3, <1>4, <1>5, <1>6, <1>7 DEF ExchangeInv

\* Traces disappear only of what no caller has a use for.
LEMMA VanishStep ==
    ASSUME ExchangeInv, NEW n \in Numbers, Vanish(n)
    PROVE  ExchangeInv'
<1>t. TypeOK
  BY DEF ExchangeInv
<1>1. \A m \in Numbers :
         /\ sent'[m] = IF m = n THEN None ELSE sent[m]
         /\ answer'[m] = IF m = n THEN "none" ELSE answer[m]
  BY <1>t DEF Vanish, TypeOK
<1>2. \A m \in Bufs \cup Callers : mem'[m] = IF mem[m] = n THEN None ELSE mem[m]
  BY <1>t DEF Vanish, TypeOK
<1>3. UNCHANGED call /\ \A c \in Callers : call[c].num # n /\ call[c].read # n
  BY DEF Vanish
<1>4. TypeOK'
  <2>1. sent' \in [Numbers -> Queries \cup {None}]
    BY <1>t DEF Vanish, TypeOK
  <2>2. answer' \in [Numbers -> Answers \cup {"none", "asked"}]
    BY <1>t DEF Vanish, TypeOK
  <2>3. mem' \in [Bufs \cup Callers -> Numbers \cup {None}]
    BY <1>t DEF Vanish, TypeOK
  <2> QED
    BY <1>t, <1>3, <2>1, <2>2, <2>3 DEF TypeOK
<1>5. UnusedSilent'
  BY <1>1 DEF ExchangeInv, UnusedSilent
<1>6. OwnNumber'
  BY <1>3 DEF ExchangeInv, OwnNumber
<1>7. \A c \in Callers : Numbered(c)' /\ Ended(c)' /\ Forced(c)'
  BY <1>1, <1>3 DEF ExchangeInv, Numbered, Ended, Forced
<1>8. AnswersQuery'
  <2> SUFFICES ASSUME NEW c \in Callers
               PROVE  /\ call[c].read # None =>
                            /\ sent'[call[c].read] = sent'[call[c].num]
                            /\ sent'[call[c].num].proto = "tcp" => call[c].read = call[c].num
                      /\ call[c].outcome = "ok" =>
                            /\ mem'[call[c].reply] = call[c].read
                            /\ answer'[call[c].read] = "reply"
    BY <1>3 DEF AnswersQuery, Query
  <2>1. call[c].read # None => call[c].read \in Numbers /\ call[c].num \in Numbers
    BY <1>t DEF ExchangeInv, Ended, Numbered, TypeOK
  <2>2. call[c].outcome = "ok" => call[c].reply = c /\ call[c].read # None
    BY DEF ExchangeInv, Ended
  <2>3. call[c].read # None =>
           /\ sent[call[c].read] = sent[call[c].num]
           /\ sent[call[c].num].proto = "tcp" => call[c].read = call[c].num
    BY DEF ExchangeInv, AnswersQuery, Query
  <2>4. call[c].outcome = "ok" => mem[c] = call[c].read /\ answer[call[c].read] = "reply"
    BY <2>2 DEF ExchangeInv, AnswersQuery
  <2> QED
    BY <1>1, <1>2, <1>3, <2>1, <2>2, <2>3, <2>4
<1> QED
  BY <1>4, <1>5, <1>6, <1>7, <1>8 DEF ExchangeInv

\* A new exchange gets a number that nobody else has.
LEMMA CallStep ==
    ASSUME ExchangeInv, NEW c \in Callers, NEW q \in Queries, Call(c, q)
    PROVE  ExchangeInv'
<1>t. TypeOK /\ call \in [Callers -> Calls]
  BY Types DEF ExchangeInv
<1> DEFINE n == CHOOSE m \in Unused : TRUE
           r == [Idle EXCEPT !.at = "dialling", !.num = n]
<1>1. n \in Unused
  BY DEF Call
<1>2. n \in Numbers /\ sent[n] = None /\ answer[n] = "none"
  BY <1>1 DEF Unused, ExchangeInv, UnusedSilent
<1>3. /\ call[c].at = "idle" /\ UNCHANGED <<answer, mem>>
      /\ sent' = [sent EXCEPT ![n] = q] /\ call' = [call EXCEPT ![c] = r]
  BY DEF Call, At
<1> HIDE DEF n
<1>4. /\ r \in Calls /\ r.at = "dialling" /\ r.num = n /\ r.read = None
      /\ r.outcome = "none" /\ ~r.forced
  BY <1>2 DEF Idle, Calls
<1> HIDE DEF r
<1>5. \A d \in Callers : call'[d] = IF d = c THEN r ELSE call[d]
  BY <1>3, <1>t
<1>6. \A m \in Numbers : sent'[m] = IF m = n THEN q ELSE sent[m]
  BY <1>3, <1>t DEF TypeOK
<1>7. q # None
  BY ValueAssumption
<1>8. TypeOK'
  <2>1. call' \in [Callers -> Calls]
    BY <1>3, <1>4, <1>t
  <2>2. sent' \in [Numbers -> Queries \cup {None}]
    BY <1>3, <1>t DEF TypeOK
  <2> QED
    BY <2>1, <2>2, <1>3, <1>t DEF TypeOK, Calls
<1>9. UnusedSilent'
  BY <1>2, <1>3, <1>6 DEF ExchangeInv, UnusedSilent
<1>10. \A d \in Callers : call[d].at # "idle" => call[d].num # n
  BY <1>2 DEF ExchangeInv, Numbered
<1>11. OwnNumber'
  BY <1>4, <1>5, <1>10 DEF ExchangeInv, OwnNumber
<1>12. \A d \in Callers : Numbered(d)'
  BY <1>2, <1>3, <1>4, <1>5, <1>6, <1>7 DEF ExchangeInv, Numbered
<1>13. \A d \in Callers : Ended(d)' /\ Forced(d)'
  BY <1>4, <1>5 DEF ExchangeInv, Ended, Forced
<1>14. AnswersQuery'
  <2> SUFFICES ASSUME NEW d \in Callers
               PROVE  /\ call'[d].read # None =>
                            /\ sent'[call'[d].read] = sent'[call'[d].num]
                            /\ sent'[call'[d].num].proto = "tcp" => call'[d].read = call'[d].num
                      /\ call'[d].outcome = "ok" =>
                            /\ mem[call'[d].reply] = call'[d].read
                            /\ answer[call'[d].read] = "reply"
    BY <1>3 DEF AnswersQuery, Query
  <2>1. CASE d = c
    BY <2>1, <1>4, <1>5
  <2>2. CASE d # c
    <3>1. call'[d] = call[d]
      BY <2>2, <1>5
    <3>2. call[d].outcome = "ok" =>
                            /\ mem[call[d].reply] = call[d].read
                            /\ answer[call[d].read] = "reply"
      BY DEF ExchangeInv, AnswersQuery
    <3>3. call[d].read # None =>
            /\ call[d].read \in Numbers /\ call[d].num \in Numbers
            /\ call[d].num # n /\ sent[call[d].num] # None
      BY <1>t, <1>10 DEF ExchangeInv, Ended, Numbered, Calls
    <3>4. call[d].read # None =>
           /\ sent[call[d].read] = sent[call[d].num]
           /\ sent[call[d].num].proto = "tcp" => call[d].read = call[d].num
      BY DEF ExchangeInv, AnswersQuery, Query
    <3> QED
      BY <3>1, <3>2, <3>3, <3>4, <1>2, <1>6
  <2> QED
    BY <2>1, <2>2
<1> QED
  BY <1>8, <1>9, <1>11, <1>12, <1>13, <1>14 DEF ExchangeInv

\* Writing the query resets an answer nobody can have read yet.
LEMMA WriteStep ==
    ASSUME ExchangeInv, NEW c \in Callers, Write(c)
    PROVE  ExchangeInv'
<1>t. TypeOK /\ call \in [Callers -> Calls] /\ call[c] \in Calls
  BY Types DEF ExchangeInv
<1>1. PICK b \in Buffers(c) : call' = [call EXCEPT ![c].at = "reading", ![c].buf = b]
  BY DEF Write
<1>2. b \in Bufs \cup {None}
  BY DEF Buffers
<1> DEFINE r == [call[c] EXCEPT !.at = "reading", !.buf = b]
           n == call[c].num
<1>3. /\ call[c].at = "open" /\ UNCHANGED <<sent, mem>>
      /\ answer' = [answer EXCEPT ![n] = "asked"] /\ call' = [call EXCEPT ![c] = r]
  BY <1>1, <1>t DEF Write, At
<1>4. n \in Numbers /\ sent[n] # None /\ answer[n] = "none"
  BY <1>3 DEF ExchangeInv, Numbered
<1>5. call[c].read = None /\ call[c].outcome = "none" /\ (call[c].forced => call[c].done)
  BY <1>3 DEF ExchangeInv, Ended, Forced
<1>6. /\ r \in Calls /\ r.at = "reading" /\ r.num = n /\ r.read = None
      /\ r.outcome = "none" /\ (r.forced => r.done)
  BY <1>2, <1>5, <1>t DEF Calls
<1> HIDE DEF r, n
<1>7. \A d \in Callers : call'[d] = IF d = c THEN r ELSE call[d]
  BY <1>3, <1>t
<1>8. \A m \in Numbers : answer'[m] = IF m = n THEN "asked" ELSE answer[m]
  BY <1>3, <1>t DEF TypeOK
<1>9. TypeOK'
  <2>1. call' \in [Callers -> Calls]
    BY <1>3, <1>6, <1>t
  <2>2. answer' \in [Numbers -> Answers \cup {"none", "asked"}]
    BY <1>3, <1>t DEF TypeOK
  <2> QED
    BY <2>1, <2>2, <1>3, <1>t DEF TypeOK, Calls
<1>10. UnusedSilent'
  BY <1>3, <1>4, <1>8 DEF ExchangeInv, UnusedSilent
<1>11. OwnNumber'
  BY <1>3, <1>6, <1>7 DEF ExchangeInv, OwnNumber, n
<1>12. \A d \in Callers : d # c /\ call[d].at # "idle" => call[d].num # n
  BY <1>3 DEF ExchangeInv, OwnNumber, n
<1>13. \A d \in Callers : Numbered(d)'
  BY <1>3, <1>4, <1>6, <1>7, <1>8, <1>12 DEF ExchangeInv, Numbered
<1>14. \A d \in Callers : Ended(d)' /\ Forced(d)'
  BY <1>6, <1>7 DEF ExchangeInv, Ended, Forced
<1>15. AnswersQuery'
  <2> SUFFICES ASSUME NEW d \in Callers
               PROVE  /\ call'[d].read # None =>
                            /\ sent[call'[d].read] = sent[call'[d].num]
                            /\ sent[call'[d].num].proto = "tcp" => call'[d].read = call'[d].num
                      /\ call'[d].outcome = "ok" =>
                            /\ mem[call'[d].reply] = call'[d].read
                            /\ answer'[call'[d].read] = "reply"
    BY <1>3 DEF AnswersQuery, Query
  <2>1. CASE d = c
    BY <2>1, <1>6, <1>7
  <2>2. CASE d # c
    <3>1. call'[d] = call[d]
      BY <2>2, <1>7
    <3>2. call[d].outcome = "ok" =>
             /\ mem[call[d].reply] = call[d].read
             /\ answer[call[d].read] = "reply"
             /\ call[d].read \in Numbers
      BY <1>t DEF ExchangeInv, AnswersQuery, Ended, Calls
    <3>3. call[d].read # None =>
             /\ sent[call[d].read] = sent[call[d].num]
             /\ sent[call[d].num].proto = "tcp" => call[d].read = call[d].num
      BY DEF ExchangeInv, AnswersQuery, Query
    <3> QED
      BY <3>1, <3>2, <3>3, <1>4, <1>8
  <2> QED
    BY <2>1, <2>2
<1> QED
  BY <1>9, <1>10, <1>11, <1>13, <1>14, <1>15 DEF ExchangeInv

\* A datagram passed over lands in the buffer, where no caller's reply lies.
LEMMA SkipStep ==
    ASSUME ExchangeInv, NEW c \in Callers, NEW n \in Numbers, Skip(c, n)
    PROVE  ExchangeInv'
<1>t. TypeOK /\ call \in [Callers -> Calls] /\ call[c] \in Calls
  BY Types DEF ExchangeInv
<1>1. mem' = [mem EXCEPT ![call[c].buf] = n] /\ UNCHANGED <<sent, answer, call>>
  BY DEF Skip
<1>2. call[c].buf \in Bufs \cup {None} /\ call[c].buf \notin Callers
  BY <1>t, ValueAssumption DEF Calls
<1>3. \A d \in Callers : mem'[d] = mem[d]
  BY <1>1, <1>2, <1>t DEF TypeOK
<1>4. TypeOK'
  BY <1>1, <1>t DEF TypeOK
<1>5. AnswersQuery'
  <2> SUFFICES ASSUME NEW d \in Callers
               PROVE  /\ call[d].read # None =>
                            /\ sent[call[d].read] = sent[call[d].num]
                            /\ sent[call[d].num].proto = "tcp" => call[d].read = call[d].num
                      /\ call[d].outcome = "ok" =>
                            /\ mem'[call[d].reply] = call[d].read
                            /\ answer[call[d].read] = "reply"
    BY <1>1 DEF AnswersQuery, Query
  <2>1. call[d].outcome = "ok" => call[d].reply = d
    BY DEF ExchangeInv, Ended
  <2> QED
    BY <1>3, <2>1 DEF ExchangeInv, AnswersQuery, Query
<1> QED
  BY <1>1, <1>4, <1>5
     DEF ExchangeInv, UnusedSilent, OwnNumber, Numbered, Ended, Forced

\* A message that ends the exchange has the query's port, transport and id, so it
\* answers that query or a twin of it.
LEMMA TakenAnswers ==
    ASSUME ExchangeInv, NEW c \in Callers, NEW n \in Numbers, Take(c, n)
    PROVE  /\ sent[n] = Query(c)
           /\ Query(c).proto = "tcp" => n = call[c].num
<1>t. TypeOK
  BY DEF ExchangeInv
<1>1. /\ call[c].at = "reading" /\ answer[n] \in Answers
      /\ Query(c).proto = "tcp" => n = call[c].num
      /\ Query(c).proto # "tcp" => sent[n].proto = "udp" /\ sent[n].port = Query(c).port
      /\ Query(c).proto = "udp" => SameId(c, n)
  BY DEF Take, At, Arriving, Skips
<1>2. sent[n] # None
  BY <1>1 DEF ExchangeInv, UnusedSilent, Answers
<1>3. call[c].num \in Numbers /\ Query(c) # None
  BY <1>1 DEF ExchangeInv, Numbered, Query
<1>4. sent[n] \in Queries /\ Query(c) \in Queries
  BY <1>2, <1>3, <1>t DEF TypeOK, Query
<1>5. CASE Query(c).proto = "tcp"
  BY <1>1, <1>5 DEF Query
<1>6. CASE Query(c).proto # "tcp"
  <2>1. Query(c).proto = "udp"
    BY <1>4, <1>6, ValueAssumption DEF Queries
  <2>2. sent[n].port = Query(c).port /\ sent[n].id = Query(c).id /\ sent[n].proto = Query(c).proto
    BY <1>1, <1>6, <2>1 DEF SameId
  <2>3. sent[n] = Query(c)
    BY <2>2, <1>4 DEF Queries
  <2> QED
    BY <2>3, <1>6
<1> QED
  BY <1>5, <1>6

\* A message that ends the exchange is kept in the caller's own memory.
LEMMA TakeStep ==
    ASSUME ExchangeInv, NEW c \in Callers, NEW n \in Numbers, Take(c, n)
    PROVE  ExchangeInv'
<1>t. TypeOK /\ call \in [Callers -> Calls] /\ call[c] \in Calls
  BY Types DEF ExchangeInv
<1> DEFINE o == IF Valid(c, n) THEN "ok" ELSE "invalid"
           k == IF Valid(c, n) THEN c ELSE None
           e == Returned(c, o)
           r == [e EXCEPT !.read = n, !.reply = k]
<1>1. /\ call[c].at = "reading" /\ UNCHANGED <<sent, answer>>
      /\ call' = [call EXCEPT ![c] = r]
      /\ mem' = [m \in DOMAIN mem |-> IF m \in {call[c].buf, c} THEN n ELSE mem[m]]
  BY DEF Take, At, Kept
<1>2. /\ e \in Calls /\ e.at = "returned" /\ e.outcome = o
      /\ e.num = call[c].num /\ e.forced = call[c].forced
  BY ReturnedFacts
<1>3. k \in Bufs \cup Callers \cup {None} /\ o \in {"ok", "invalid"}
  OBVIOUS
<1>k. o = "ok" => k = c /\ answer[n] = "reply"
  BY DEF Valid
<1> HIDE DEF o, k, e
<1>4. /\ r \in Calls /\ r.at = "returned" /\ r.outcome = o /\ r.read = n /\ r.reply = k
      /\ r.num = call[c].num /\ r.forced = call[c].forced
  BY <1>2, <1>3 DEF Calls
<1>n. n # None
  BY ValueAssumption
<1> HIDE DEF r
<1>5. \A d \in Callers : call'[d] = IF d = c THEN r ELSE call[d]
  BY <1>1, <1>t
<1>6. call[c].buf \notin Callers
  BY <1>t, ValueAssumption DEF Calls
<1>7. \A d \in Callers : mem'[d] = IF d = c THEN n ELSE mem[d]
  BY <1>1, <1>6, <1>t DEF TypeOK
<1>8. TypeOK'
  <2>1. call' \in [Callers -> Calls]
    BY <1>1, <1>4, <1>t
  <2>2. mem' \in [Bufs \cup Callers -> Numbers \cup {None}]
    BY <1>1, <1>t DEF TypeOK
  <2> QED
    BY <2>1, <2>2, <1>1, <1>t DEF TypeOK, Calls
<1>9. UnusedSilent'
  BY <1>1 DEF ExchangeInv, UnusedSilent
<1>10. OwnNumber'
  BY <1>1, <1>4, <1>5 DEF ExchangeInv, OwnNumber
<1>11. \A d \in Callers : Numbered(d)'
  BY <1>1, <1>4, <1>5 DEF ExchangeInv, Numbered
<1>12. \A d \in Callers : Ended(d)'
  BY <1>4, <1>5, <1>k, <1>n DEF ExchangeInv, Ended
<1>13. \A d \in Callers : Forced(d)'
  BY <1>3, <1>4, <1>5 DEF ExchangeInv, Forced
<1>14. AnswersQuery'
  <2> SUFFICES ASSUME NEW d \in Callers
               PROVE  /\ call'[d].read # None =>
                            /\ sent[call'[d].read] = sent[call'[d].num]
                            /\ sent[call'[d].num].proto = "tcp" => call'[d].read = call'[d].num
                      /\ call'[d].outcome = "ok" =>
                            /\ mem'[call'[d].reply] = call'[d].read
                            /\ answer[call'[d].read] = "reply"
    BY <1>1 DEF AnswersQuery, Query
  <2>1. CASE d = c
    <3>1. sent[n] = sent[call[c].num] /\ (sent[call[c].num].proto = "tcp" => n = call[c].num)
      BY TakenAnswers DEF Query
    <3> QED
      BY <2>1, <3>1, <1>4, <1>5, <1>7, <1>k
  <2>2. CASE d # c
    <3>1. call'[d] = call[d] /\ mem'[d] = mem[d]
      BY <2>2, <1>5, <1>7
    <3>2. call[d].outcome = "ok" => call[d].reply = d
      BY DEF ExchangeInv, Ended
    <3> QED
      BY <3>1, <3>2 DEF ExchangeInv, AnswersQuery, Query
  <2> QED
    BY <2>1, <2>2
<1> QED
  BY <1>8, <1>9, <1>10, <1>11, <1>12, <1>13, <1>14 DEF ExchangeInv

\* The caller that is done gives up its own memory only.
LEMMA ReleaseStep ==
    ASSUME ExchangeInv, NEW c \in Callers, Release(c)
    PROVE  ExchangeInv'
<1>t. TypeOK /\ call \in [Callers -> Calls]
  BY Types DEF ExchangeInv
<1>i. /\ Idle \in Calls /\ Idle.at = "idle" /\ Idle.read = None
      /\ Idle.outcome = "none" /\ ~Idle.forced
  BY DEF Idle, Calls
<1>1. /\ call' = [call EXCEPT ![c] = Idle] /\ mem' = [mem EXCEPT ![c] = None]
      /\ UNCHANGED <<sent, answer>>
  BY DEF Release
<1>2. \A d \in Callers : call'[d] = IF d = c THEN Idle ELSE call[d]
  BY <1>1, <1>t
<1>3. \A d \in Callers : d # c => mem'[d] = mem[d]
  BY <1>1, <1>t DEF TypeOK
<1>4. TypeOK'
  <2>1. call' \in [Callers -> Calls]
    BY <1>1, <1>i, <1>t
  <2>2. mem' \in [Bufs \cup Callers -> Numbers \cup {None}]
    BY <1>1, <1>t DEF TypeOK
  <2> QED
    BY <2>1, <2>2, <1>1, <1>t DEF TypeOK, Calls
<1>5. UnusedSilent' /\ OwnNumber'
  BY <1>1, <1>2, <1>i DEF ExchangeInv, UnusedSilent, OwnNumber
<1>6. \A d \in Callers : Numbered(d)' /\ Ended(d)' /\ Forced(d)'
  BY <1>1, <1>2, <1>i DEF ExchangeInv, Numbered, Ended, Forced
<1>7. AnswersQuery'
  <2> SUFFICES ASSUME NEW d \in Callers
               PROVE  /\ call'[d].read # None =>
                            /\ sent[call'[d].read] = sent[call'[d].num]
                            /\ sent[call'[d].num].proto = "tcp" => call'[d].read = call'[d].num
                      /\ call'[d].outcome = "ok" =>
                            /\ mem'[call'[d].reply] = call'[d].read
                            /\ answer[call'[d].read] = "reply"
    BY <1>1 DEF AnswersQuery, Query
  <2>1. CASE d = c
    BY <2>1, <1>2, <1>i
  <2>2. CASE d # c
    <3>1. call'[d] = call[d] /\ mem'[d] = mem[d]
      BY <2>2, <1>2, <1>3
    <3>2. call[d].outcome = "ok" => call[d].reply = d
      BY DEF ExchangeInv, Ended
    <3> QED
      BY <3>1, <3>2 DEF ExchangeInv, AnswersQuery, Query
  <2> QED
    BY <2>1, <2>2
<1> QED
  BY <1>4, <1>5, <1>6, <1>7 DEF ExchangeInv

\* Every behaviour keeps the invariant.
LEMMA ExchangeSafe == Spec => []ExchangeInv
<1>1. Init => ExchangeInv
  BY ExchangeInit
<1>2. ExchangeInv /\ [Next]_vars => ExchangeInv'
  <2> SUFFICES ASSUME ExchangeInv, [Next]_vars PROVE ExchangeInv'
    OBVIOUS
  <2>1. CASE UNCHANGED vars
    BY <2>1 DEF vars, ExchangeInv, TypeOK, UnusedSilent, OwnNumber, Numbered, Ended, Forced,
                AnswersQuery, Query
  <2>2. CASE Next
    BY <2>2, AnswerStep, VanishStep, CallStep, WriteStep, SkipStep, TakeStep, ReleaseStep,
       QuietSteps DEF Next
  <2> QED
    BY <2>1, <2>2
<1> QED
  BY <1>1, <1>2, PTL DEF Spec

\* Type correctness.
THEOREM ExchangeTypeOK == Spec => []TypeOK
<1>1. ExchangeInv => TypeOK
  BY DEF ExchangeInv
<1> QED
  BY <1>1, ExchangeSafe, PTL

\* Whatever the network delays, duplicates or loses, what ends an exchange answers
\* its query or a twin sent from the same port with the same id, and the reply the
\* caller holds stays what was read (exchangeUDP, exchangeTCP, ValidateResponse).
THEOREM AnswersQueryAlways == Spec => []AnswersQuery
<1>1. ExchangeInv => AnswersQuery
  BY DEF ExchangeInv
<1> QED
  BY <1>1, ExchangeSafe, PTL

\* A timeout the watcher forced is never reported as the server's failure
\* (Exchange, "Report cancellation as cancellation").
THEOREM CancelReportedAlways == Spec => []CancelReported
<1>1. ExchangeInv => CancelReported
  BY DEF ExchangeInv, Forced, Ended, CancelReported
<1> QED
  BY <1>1, ExchangeSafe, PTL
=============================================================================
