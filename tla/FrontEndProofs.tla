--------------------------- MODULE FrontEndProofs ---------------------------
(***************************************************************************)
(* Theorems about FrontEnd, for any clients, queries, outcomes of the       *)
(* resolver, limit of a datagram and range of the length prefix.           *)
(***************************************************************************)
EXTENDS FrontEnd, TLAPS

(***************************************************************************)
(* The inductive invariant, client by client: a task that works on a query *)
(* has the one its client asked, by a way there is (Working), and a message *)
(* that has been sent answers what was asked by that way (Answered).       *)
(* RepliesMatch alone is not inductive, since the reply is made from the   *)
(* copy in the task and compared with what its client sent.                *)
(***************************************************************************)
Working(t) ==
  /\ t.pc \in {"waiting", "handle", "resolve"} => t.via \in Via /\ t.asked \in Query
  /\ t.pc \in {"handle", "resolve"} => t.data = t.asked

Match(q, r) ==
  /\ r.query = q
  /\ \/ r.rcode = "FormatError" /\ q.form = "empty"
     \/ \E o \in Outcome(q) : o.rcode = r.rcode

\* The outcomes a message may stand for.
Outcomes(q, r) == {o \in Outcome(q) \cup {FormatError} : o.rcode = r.rcode}

Whole(via, q, r) ==
  /\ \/ \E o \in Outcomes(q, r) : o.records = r.records
     \/ via = "udp" /\ r.tc /\ r.records = 0
  /\ r.tc /\ ~q.tc =>
       /\ via = "udp"
       /\ \E o \in Outcomes(q, r) : Length(q, o.records) > UdpLimit
  /\ via = "tcp" /\ Length(r.query, r.records) < Modulus
       => r.prefix = Length(r.query, r.records)
  /\ via = "udp" /\ q.form # "odd" =>
       Length(r.query, r.records) <= UdpLimit \/ q.len > UdpLimit

Answered(t, r) == IsMessage(r) => Match(t.asked, r) /\ Whole(t.via, t.asked, r)

IInv == TypeOK /\ \A c \in Client : Working(task[c]) /\ Answered(task[c], reply[c])

Task ==
  [pc : {"none", "waiting", "handle", "resolve", "replied", "dropped"},
   via : Via \cup {None}, asked : Query \cup {None}, data : Query \cup {None}]

\* What the invariant says of each client is RepliesMatch and WholeOrMarked.
LEMMA IInvImplies == IInv => TypeOK /\ RepliesMatch /\ WholeOrMarked
<1> SUFFICES ASSUME IInv PROVE RepliesMatch /\ WholeOrMarked
  BY DEF IInv
<1>1. ASSUME NEW c \in Client, IsMessage(reply[c])
      PROVE  Match(task[c].asked, reply[c]) /\ Whole(task[c].via, task[c].asked, reply[c])
  BY <1>1 DEF IInv, Answered
<1>2. RepliesMatch
  BY <1>1 DEF RepliesMatch, Match
<1>3. WholeOrMarked
  BY <1>1 DEF WholeOrMarked, Whole, Outcomes
<1> QED
  BY <1>2, <1>3

\* A step that gives one client another task and reply, and keeps the others.
LEMMA OneClient ==
  ASSUME IInv, NEW c \in Client, NEW t \in Task, NEW r \in Reply \cup {None},
         Working(t), Answered(t, r),
         task' = [task EXCEPT ![c] = t], reply' = [reply EXCEPT ![c] = r],
         UNCHANGED <<dns, doh>>, buf' \in Query \cup {None}
  PROVE  IInv'
<1>1. TypeOK
  BY DEF IInv
<1>2. task' \in [Client -> Task] /\ reply' \in [Client -> Reply \cup {None}]
  BY <1>1 DEF TypeOK, Task
<1>3. TypeOK'
  BY <1>1, <1>2 DEF TypeOK, Task
<1>4. ASSUME NEW d \in Client PROVE Working(task'[d]) /\ Answered(task'[d], reply'[d])
  <2>1. CASE d = c
    BY <1>1, <2>1 DEF TypeOK
  <2>2. CASE d # c
    BY <1>1, <2>2 DEF TypeOK, IInv
  <2> QED
    BY <2>1, <2>2
<1> QED
  BY <1>3, <1>4 DEF IInv

\* A message with what the transports may add or take away.
Sent(q, o, records, tc, prefix, max_age) ==
  [query |-> q, rcode |-> o.rcode, records |-> records, tc |-> tc, ttl |-> o.ttl,
   prefix |-> prefix, max_age |-> max_age]

\* Outcomes and errors as far as a transport looks at them.
LEMMA OutcomeFields ==
  ASSUME NEW q \in Query, NEW o,
         o \in Outcome(q) \/ (o = FormatError /\ q.form = "empty")
  PROVE  /\ o.rcode \in {"NoError", "NameError", "ServerFailure", "FormatError"}
         /\ o.records \in Nat /\ o.ttl \in Nat /\ q.len \in Nat /\ q.tc \in BOOLEAN
         /\ \/ o.rcode = "FormatError" /\ q.form = "empty"
            \/ \E x \in Outcome(q) : x.rcode = o.rcode
<1>1. q.len \in Nat /\ q.tc \in BOOLEAN
  BY QueryAssumption
<1>2. CASE o \in Outcome(q)
  <2>1. o \in [rcode : {"NoError", "NameError", "ServerFailure"}, records : Nat, ttl : Nat]
    BY <1>2, OutcomeAssumption
  <2> QED
    BY <1>1, <1>2, <2>1
<1>3. CASE o = FormatError /\ q.form = "empty"
  BY <1>1, <1>3 DEF FormatError
<1> QED
  BY <1>2, <1>3

\* Such a message is a reply to its query, if it is whole or marked.
LEMMA SentIsAnswer ==
  ASSUME NEW via \in Via, NEW q \in Query, NEW o,
         o \in Outcome(q) \/ (o = FormatError /\ q.form = "empty"),
         NEW n \in Nat, NEW tc \in BOOLEAN, NEW p \in Nat, NEW a \in Nat,
         \/ n = o.records /\ tc = q.tc
         \/ via = "udp" /\ n = 0 /\ tc = TRUE /\ Length(q, o.records) > UdpLimit,
         via = "tcp" /\ Length(q, n) < Modulus => p = Length(q, n),
         via = "udp" => Length(q, n) <= UdpLimit \/ q.len > UdpLimit
  PROVE  /\ Sent(q, o, n, tc, p, a) \in Reply
         /\ Match(q, Sent(q, o, n, tc, p, a)) /\ Whole(via, q, Sent(q, o, n, tc, p, a))
<1> DEFINE m == Sent(q, o, n, tc, p, a)
<1>1. /\ m.query = q /\ m.rcode = o.rcode /\ m.records = n /\ m.tc = tc /\ m.prefix = p
  BY DEF Sent
<1>2. m \in Reply
  BY OutcomeFields DEF Sent, Reply
<1> HIDE DEF m
<1>3. Match(q, m)
  BY <1>1, OutcomeFields DEF Match
<1>4. o \in Outcomes(q, m)
  BY <1>1 DEF Outcomes
<1>5. CASE n = o.records /\ tc = q.tc
  <2>1. \E x \in Outcomes(q, m) : x.records = m.records
    BY <1>1, <1>4, <1>5
  <2>2. ~(m.tc /\ ~q.tc)
    BY <1>1, <1>5
  <2> QED
    BY <1>1, <1>2, <1>3, <2>1, <2>2 DEF m, Whole
<1>6. CASE via = "udp" /\ n = 0 /\ tc = TRUE /\ Length(q, o.records) > UdpLimit
  <2>1. \E x \in Outcomes(q, m) : Length(q, x.records) > UdpLimit
    BY <1>4, <1>6
  <2>2. m.tc /\ m.records = 0
    BY <1>1, <1>6
  <2> QED
    BY <1>1, <1>2, <1>3, <1>6, <2>1, <2>2 DEF m, Whole
<1> QED
  BY <1>5, <1>6

\* What a transport makes of an outcome of a query is an answer to it.
LEMMA Delivered ==
  ASSUME NEW via \in Via, NEW q \in Query, NEW o,
         o \in Outcome(q) \/ (o = FormatError /\ q.form = "empty"),
         NEW m \in ReplyVia(via, q, o)
  PROVE  m = None \/ (m \in Reply /\ Match(q, m) /\ Whole(via, q, m))
<1> DEFINE n == Length(q, o.records)
<1>1. /\ q.len \in Nat /\ q.tc \in BOOLEAN /\ o.records \in Nat
      /\ n \in Nat /\ Length(q, 0) = q.len
  BY OutcomeFields DEF Length
<1>2. CASE via = "udp"
  <2>1. m \in UdpReply(q, o)
    BY <1>2 DEF ReplyVia
  <2>2. CASE n <= UdpLimit
    <3>1. m = Sent(q, o, o.records, q.tc, 0, 0)
      BY <2>1, <2>2 DEF UdpReply, Response, Sent
    <3>2. Length(q, o.records) <= UdpLimit
      BY <2>2
    <3> HIDE DEF n
    <3>3. /\ Sent(q, o, o.records, q.tc, 0, 0) \in Reply
          /\ Match(q, Sent(q, o, o.records, q.tc, 0, 0))
          /\ Whole(via, q, Sent(q, o, o.records, q.tc, 0, 0))
      BY <1>1, <1>2, <3>2, SentIsAnswer
    <3> QED
      BY <3>1, <3>3
  <2>3. CASE ~(n <= UdpLimit)
    <3>1. m = None \/ m = Sent(q, o, 0, TRUE, 0, 0)
      BY <2>1, <2>3 DEF UdpReply, Emptied, Response, Sent
    <3>2. Length(q, 0) <= UdpLimit \/ q.len > UdpLimit
      BY <1>1, LimitAssumption
    <3>3. Length(q, o.records) > UdpLimit
      BY <1>1, <2>3, LimitAssumption
    <3> HIDE DEF n
    <3>4. /\ Sent(q, o, 0, TRUE, 0, 0) \in Reply
          /\ Match(q, Sent(q, o, 0, TRUE, 0, 0))
          /\ Whole(via, q, Sent(q, o, 0, TRUE, 0, 0))
      BY <1>2, <3>2, <3>3, SentIsAnswer
    <3> QED
      BY <3>1, <3>4
  <2> QED
    BY <2>2, <2>3
<1>3. CASE via = "tcp"
  <2> DEFINE p == n % Modulus
  <2>1. p \in Nat /\ (n < Modulus => p = n)
    BY <1>1, LimitAssumption
  <2>2. m = Sent(q, o, o.records, q.tc, p, 0)
    BY <1>3 DEF ReplyVia, TcpReply, Response, Sent
  <2>3. Length(q, o.records) < Modulus => p = Length(q, o.records)
    BY <2>1
  <2> HIDE DEF p, n
  <2>4. /\ Sent(q, o, o.records, q.tc, p, 0) \in Reply
        /\ Match(q, Sent(q, o, o.records, q.tc, p, 0))
        /\ Whole(via, q, Sent(q, o, o.records, q.tc, p, 0))
    BY <1>1, <1>3, <2>1, <2>3, SentIsAnswer
  <2> QED
    BY <2>2, <2>4
<1>4. CASE via = "doh"
  <2>1. PICK a \in Nat : m = Sent(q, o, o.records, q.tc, 0, a)
    BY <1>4, LimitAssumption DEF ReplyVia, DohReply, Response, Sent
  <2>2. /\ Sent(q, o, o.records, q.tc, 0, a) \in Reply
        /\ Match(q, Sent(q, o, o.records, q.tc, 0, a))
        /\ Whole(via, q, Sent(q, o, o.records, q.tc, 0, a))
    BY <1>1, <1>4, SentIsAnswer
  <2> QED
    BY <2>1, <2>2
<1> QED
  BY <1>2, <1>3, <1>4 DEF Via

-----------------------------------------------------------------------------
LEMMA InitInv == Init => IInv
<1> SUFFICES ASSUME Init PROVE IInv
  OBVIOUS
<1>1. \A c \in Client : task[c] = NoTask /\ reply[c] = None
  BY DEF Init
<1>2. NoTask \in Task /\ NoTask.pc = "none"
  BY DEF NoTask, Task
<1>3. TypeOK
  BY <1>2 DEF Init, TypeOK, Task
<1>4. ASSUME NEW c \in Client PROVE Working(task[c]) /\ Answered(task[c], reply[c])
  BY <1>1, <1>2 DEF Working, Answered, IsMessage
<1> QED
  BY <1>3, <1>4 DEF IInv

\* Tasks may come to an end without a word, whatever else becomes of them.
LEMMA SomeDropped ==
  ASSUME IInv, NEW S \in SUBSET Client,
         task' = [c \in Client |->
                    IF c \in S THEN [task[c] EXCEPT !.pc = "dropped"] ELSE task[c]],
         dns' \in {"udp", "tcp", "serving", "exited"},
         doh' \in {"off", "binding", "serving", "stopped"},
         UNCHANGED <<buf, reply>>
  PROVE  IInv'
<1>1. TypeOK
  BY DEF IInv
<1>2. ASSUME NEW c \in Client
      PROVE  /\ task'[c] \in Task
             /\ Working(task'[c]) /\ Answered(task'[c], reply[c])
  <2>1. task[c] \in Task /\ Working(task[c]) /\ Answered(task[c], reply[c])
    BY <1>1 DEF TypeOK, Task, IInv
  <2>2. CASE c \in S
    <3> DEFINE t == [task[c] EXCEPT !.pc = "dropped"]
    <3>1. /\ t \in Task /\ t.pc = "dropped"
          /\ t.via = task[c].via /\ t.asked = task[c].asked
      BY <2>1 DEF Task
    <3>2. task'[c] = t
      BY <2>2
    <3> HIDE DEF t
    <3>3. Working(t) /\ Answered(t, reply[c])
      BY <2>1, <3>1 DEF Working, Answered
    <3> QED
      BY <3>1, <3>2, <3>3
  <2>3. CASE c \notin S
    BY <2>1, <2>3
  <2> QED
    BY <2>2, <2>3
<1>3. TypeOK'
  BY <1>1, <1>2 DEF TypeOK, Task
<1>4. \A c \in Client : Working(task[c])' /\ Answered(task[c], reply[c])'
  BY <1>2
<1> QED
  BY <1>3, <1>4 DEF IInv

\* A task ends with an answer to what it was asked, or with nothing, or with
\* a status of HTTP.
LEMMA EndKeeps ==
  ASSUME IInv, NEW c \in Client, NEW r, End(c, r),
         \/ r = None
         \/ r \in [status : {200, 404, 415, 500}]
         \/ r \in Reply /\ Match(task[c].asked, r) /\ Whole(task[c].via, task[c].asked, r)
  PROVE  IInv'
<1> DEFINE t == [task[c] EXCEPT !.pc = IF r = None THEN "dropped" ELSE "replied"]
<1>1. task[c] \in Task
  BY DEF IInv, TypeOK, Task
<1>2. /\ t \in Task /\ t.pc \in {"dropped", "replied"}
      /\ t.via = task[c].via /\ t.asked = task[c].asked
  BY <1>1 DEF Task
<1>3. task' = [task EXCEPT ![c] = t] /\ reply' = [reply EXCEPT ![c] = r]
      /\ UNCHANGED <<dns, doh, buf>>
  BY DEF End
<1> HIDE DEF t
<1>4. Working(t)
  BY <1>2 DEF Working
<1>5. r \in [status : {200, 404, 415, 500}] => "rcode" \notin DOMAIN r
  OBVIOUS
<1>6. Answered(t, r)
  BY <1>2, <1>5 DEF Answered, IsMessage
<1>7. r \in Reply \cup {None}
  BY DEF Reply
<1>8. buf' \in Query \cup {None}
  BY <1>3 DEF IInv, TypeOK
<1> QED
  BY <1>2, <1>3, <1>4, <1>6, <1>7, <1>8, OneClient

\* A client's task goes on with its query, and its reply stays.
LEMMA TaskMoves ==
  ASSUME IInv, NEW c \in Client, NEW pc \in {"handle", "resolve"},
         task[c].via \in Via, task[c].asked \in Query,
         task' = [task EXCEPT ![c].pc = pc, ![c].data = task[c].asked],
         UNCHANGED <<dns, doh, reply>>, buf' \in Query \cup {None}
  PROVE  IInv'
<1> DEFINE t == [task[c] EXCEPT !.pc = pc, !.data = task[c].asked]
<1>1. task[c] \in Task /\ reply[c] \in Reply \cup {None} /\ Answered(task[c], reply[c])
  BY DEF IInv, TypeOK, Task
<1>2. /\ t \in Task /\ t.pc = pc /\ t.data = t.asked
      /\ t.via = task[c].via /\ t.asked = task[c].asked
  BY <1>1 DEF Task
<1>3. task' = [task EXCEPT ![c] = t]
  OBVIOUS
<1> HIDE DEF t
<1>4. Working(t) /\ Answered(t, reply[c])
  BY <1>1, <1>2 DEF Working, Answered
<1>5. reply' = [reply EXCEPT ![c] = reply[c]]
  BY DEF IInv, TypeOK
<1> QED
  BY <1>1, <1>2, <1>3, <1>4, <1>5, OneClient

LEMMA AskInv ==
  ASSUME IInv, NEW c \in Client, NEW via \in Via, NEW q \in Query, Ask(c, via, q)
  PROVE  IInv'
<1> DEFINE t == [pc |-> "waiting", via |-> via, asked |-> q, data |-> None]
<1>1. t \in Task /\ Working(t) /\ Answered(t, None)
  BY DEF Task, Working, Answered, IsMessage
<1>2. /\ task' = [task EXCEPT ![c] = t] /\ reply' = [reply EXCEPT ![c] = None]
      /\ UNCHANGED <<dns, doh>>
  BY DEF Ask
<1>3. buf' \in Query \cup {None}
  BY DEF Ask, IInv, TypeOK
<1> HIDE DEF t
<1> QED
  BY <1>1, <1>2, <1>3, OneClient

LEMMA AcceptInv ==
  ASSUME IInv, NEW c \in Client, Accept(c)
  PROVE  IInv'
<1>1. task[c].pc = "waiting" /\ task[c].via \in Via /\ task[c].asked \in Query
  BY DEF Accept, IInv, Working
<1>2. buf' \in Query \cup {None}
  BY <1>1 DEF Accept, IInv, TypeOK
<1>3. /\ task' = [task EXCEPT ![c].pc = "handle", ![c].data = task[c].asked]
      /\ UNCHANGED <<dns, doh, reply>>
  BY DEF Accept
<1> QED
  BY <1>1, <1>2, <1>3, TaskMoves

\* A task at work has the query of its client.
LEMMA AtWork ==
  ASSUME IInv, NEW c \in Client, task[c].pc \in {"handle", "resolve"}
  PROVE  /\ Data(c) = task[c].asked /\ task[c].data = task[c].asked
         /\ task[c].via \in Via /\ task[c].asked \in Query
BY DEF IInv, Working, Data

LEMMA WorkInv ==
  ASSUME IInv, NEW c \in Client, Work(c)
  PROVE  IInv'
<1>1. CASE HttpRefuses(c)
  <2>1. HttpStatus(Data(c).http) \in {200, 404, 415, 500}
    BY <1>1 DEF HttpRefuses, HttpStatus
  <2>2. [status |-> HttpStatus(Data(c).http)] \in [status : {200, 404, 415, 500}]
    BY <2>1
  <2> QED
    BY <1>1, <2>2, EndKeeps DEF HttpRefuses
<1>2. CASE ParseFails(c)
  <2>1. PICK r \in {None, [status |-> 500]} : End(c, r)
    BY <1>2 DEF ParseFails
  <2>2. r = None \/ r \in [status : {200, 404, 415, 500}]
    BY <2>1
  <2> QED
    BY <2>1, <2>2, EndKeeps
<1>3. CASE NoQuestion(c)
  <2>1. /\ Data(c) = task[c].asked /\ task[c].via \in Via /\ task[c].asked \in Query
    BY <1>3, AtWork DEF NoQuestion, Parsing
  <2>2. /\ task[c].asked.form = "empty"
        /\ \E m \in ReplyVia(task[c].via, task[c].asked, FormatError) : End(c, m)
    BY <1>3, <2>1 DEF NoQuestion
  <2>3. PICK m \in ReplyVia(task[c].via, task[c].asked, FormatError) : End(c, m)
    BY <2>2
  <2> QED
    BY <2>1, <2>2, <2>3, Delivered, EndKeeps
<1>4. CASE Resolve(c)
  <2>1. /\ Data(c) = task[c].asked /\ task[c].via \in Via /\ task[c].asked \in Query
    BY <1>4, AtWork DEF Resolve, Parsing
  <2>2. /\ task' = [task EXCEPT ![c].pc = "resolve", ![c].data = task[c].asked]
        /\ UNCHANGED <<dns, doh, buf, reply>>
    BY <1>4, <2>1 DEF Resolve
  <2>3. buf' \in Query \cup {None}
    BY <2>2 DEF IInv, TypeOK
  <2> QED
    BY <2>1, <2>2, <2>3, TaskMoves
<1>5. CASE Resolved(c)
  <2>1. /\ task[c].data = task[c].asked /\ task[c].via \in Via /\ task[c].asked \in Query
    BY <1>5, AtWork DEF Resolved
  <2>2. PICK o \in Outcome(task[c].asked) :
          \E m \in ReplyVia(task[c].via, task[c].asked, o) : End(c, m)
    BY <1>5, <2>1 DEF Resolved
  <2>3. PICK m \in ReplyVia(task[c].via, task[c].asked, o) : End(c, m)
    BY <2>2
  <2> QED
    BY <2>1, <2>3, Delivered, EndKeeps
<1> QED
  BY <1>1, <1>2, <1>3, <1>4, <1>5 DEF Work

LEMMA NextInv ==
  ASSUME IInv, [Next]_vars
  PROVE  IInv'
<1>1. CASE BindDns \/ BindDoh
  <2>1. TypeOK'
    BY <1>1 DEF BindDns, BindDoh, IInv, TypeOK
  <2>2. UNCHANGED <<task, reply>>
    BY <1>1 DEF BindDns, BindDoh
  <2> QED
    BY <2>1, <2>2 DEF IInv
<1>2. CASE DnsFails
  <2> DEFINE S == {c \in Client : ~Resting(c)}
  <2>1. /\ task' = [c \in Client |->
                      IF c \in S THEN [task[c] EXCEPT !.pc = "dropped"] ELSE task[c]]
        /\ dns' = "exited" /\ doh' \in {"off", "stopped"} /\ UNCHANGED <<buf, reply>>
    BY <1>2 DEF DnsFails
  <2>2. S \in SUBSET Client
    OBVIOUS
  <2> HIDE DEF S
  <2> QED
    BY <2>1, <2>2, SomeDropped
<1>3. CASE DohFails
  <2> DEFINE S == {c \in Client : task[c].via = "doh" /\ task[c].pc = "waiting"}
  <2>1. /\ task' = [c \in Client |->
                      IF c \in S THEN [task[c] EXCEPT !.pc = "dropped"] ELSE task[c]]
        /\ doh' = "stopped" /\ UNCHANGED <<dns, buf, reply>>
    BY <1>3 DEF DohFails
  <2>2. S \in SUBSET Client
    OBVIOUS
  <2>3. dns' \in {"udp", "tcp", "serving", "exited"}
    BY <2>1 DEF IInv, TypeOK
  <2> HIDE DEF S
  <2> QED
    BY <2>1, <2>2, <2>3, SomeDropped
<1>4. ASSUME NEW c \in Client, NEW via \in Via, NEW q \in Query, Ask(c, via, q) PROVE IInv'
  BY <1>4, AskInv
<1>5. ASSUME NEW c \in Client, Accept(c) PROVE IInv'
  BY <1>5, AcceptInv
<1>6. ASSUME NEW c \in Client, HangUp(c) PROVE IInv'
  BY <1>6, EndKeeps DEF HangUp
<1>7. ASSUME NEW c \in Client, Work(c) PROVE IInv'
  BY <1>7, WorkInv
<1>8. CASE UNCHANGED vars
  BY <1>8 DEF vars, IInv, TypeOK
<1> QED
  BY <1>1, <1>2, <1>3, <1>4, <1>5, <1>6, <1>7, <1>8 DEF Next

LEMMA Invariant == Spec => []IInv
<1> QED
  BY InitInv, NextInv, PTL DEF Spec

-----------------------------------------------------------------------------
\* The listeners and their tasks have their types.
THEOREM TypeCorrect == Spec => []TypeOK
<1>1. IInv => TypeOK
  BY DEF IInv
<1> QED
  BY Invariant, <1>1, PTL

\* Each client gets the reply to its own query, in whatever order the tasks of
\* any number of clients end (run_udp copies what it has received).
THEOREM OwnReply == Spec => []RepliesMatch
<1> QED
  BY Invariant, IInvImplies, PTL

\* Every reply has all the records, or is sent over UDP without any and marked; a
\* mark that does not come from the query itself means that room was wanting; a
\* prefix that can say the length of its message does, and a datagram is within
\* the limit if its questions are (run_udp, run_tcp, make_response).
THEOREM NothingCutSilently == Spec => []WholeOrMarked
<1> QED
  BY Invariant, IInvImplies, PTL
=============================================================================
