------------------------------ MODULE FrontEnd ------------------------------
(***************************************************************************)
(* The listeners: DnsServer (src/server/mod.rs) on UDP and TCP, DohServer  *)
(* (src/doh/mod.rs) on HTTP, and main, which starts both and ends when the *)
(* first one does.  Every query is handled by a task of its own, so that   *)
(* replies leave in any order and one query may wait for ever.             *)
(*                                                                         *)
(* A message is as long as its header and questions, and its records.  The *)
(* resolver is what Outcome says it is: module Resolver.                   *)
(***************************************************************************)
EXTENDS Naturals

CONSTANTS
  Client,      \* whoever sends one query at a time
  Query,       \* what they send: [form, len, tc], and an HTTP request around it
  Outcome(_),  \* what resolve may return for a query; nothing if it hangs
  UdpLimit,    \* 512
  Modulus,     \* 2^16: the range of the length prefix over TCP
  MaxAge,      \* 300: max-age of an answer over HTTP, in seconds
  None

\* The query in the request, as DnsMessage::parse and the resolver see it:
\* unreadable, without a question, a plain one, or one that has, or whose answer
\* has, a label that is not UTF-8, which the server can read but not write back.
Form == {"garbled", "empty", "plain", "odd"}

\* The HTTP request around it; over UDP and TCP it is not looked at.
Http == {"get", "get_bare", "post", "post_untyped", "health", "elsewhere"}

Via == {"udp", "tcp", "doh"}

\* What the server sends: a DNS message, or an HTTP status without one.
Reply ==
  [query : Query, rcode : {"NoError", "NameError", "ServerFailure", "FormatError"},
   records : Nat, tc : BOOLEAN, ttl : Nat, prefix : Nat, max_age : Nat]
  \cup [status : {200, 404, 415, 500}]

ASSUME QueryAssumption == Query \subseteq [form : Form, len : Nat, tc : BOOLEAN, http : Http]
ASSUME OutcomeAssumption ==
  \A q \in Query : Outcome(q) \subseteq
    [rcode : {"NoError", "NameError", "ServerFailure"}, records : Nat, ttl : Nat]
ASSUME LimitAssumption == UdpLimit \in Nat /\ Modulus \in Nat \ {0} /\ MaxAge \in Nat

VARIABLES
  dns,    \* DnsServer::run: "udp" or "tcp" to be bound, "serving", "exited"
  doh,    \* DohServer::run: "off", "binding", "serving", "stopped"
  task,   \* the query of each client: how far it is, by which way, what it says
  buf,    \* the buffer run_udp receives into
  reply   \* the last reply to each client

vars == <<dns, doh, task, buf, reply>>

NoTask == [pc |-> "none", via |-> None, asked |-> None, data |-> None]

Init ==
  /\ dns = "udp"
  /\ doh \in {"off", "binding"}
  /\ task = [c \in Client |-> NoTask]
  /\ buf = None
  /\ reply = [c \in Client |-> None]

Serving(via) == IF via = "doh" THEN doh = "serving" ELSE dns = "serving"
Up == dns # "exited"

Resting(c) == task[c].pc \in {"none", "replied", "dropped"}

-----------------------------------------------------------------------------
(***************************************************************************)
(* Start and end.  When either loop of DnsServer ends so does the program, *)
(* and its tasks with it; an end of the DoH server is only logged.         *)
(***************************************************************************)
BindDns ==
  /\ dns \in {"udp", "tcp"}
  /\ dns' = IF dns = "udp" THEN "tcp" ELSE "serving"
  /\ UNCHANGED <<doh, task, buf, reply>>

\* A bind, recv_from or accept that fails.
DnsFails ==
  /\ Up
  /\ dns' = "exited"
  /\ doh' = IF doh = "off" THEN "off" ELSE "stopped"
  /\ task' = [c \in Client |->
                IF Resting(c) THEN task[c] ELSE [task[c] EXCEPT !.pc = "dropped"]]
  /\ UNCHANGED <<buf, reply>>

BindDoh ==
  /\ Up /\ doh = "binding"
  /\ doh' = "serving"
  /\ UNCHANGED <<dns, task, buf, reply>>

\* The listener is gone; a connection it has accepted is not.
DohFails ==
  /\ doh \in {"binding", "serving"}
  /\ doh' = "stopped"
  /\ task' = [c \in Client |->
                IF task[c].via = "doh" /\ task[c].pc = "waiting"
                THEN [task[c] EXCEPT !.pc = "dropped"] ELSE task[c]]
  /\ UNCHANGED <<dns, buf, reply>>

-----------------------------------------------------------------------------
(***************************************************************************)
(* The clients, and the loops that take their queries in.                  *)
(***************************************************************************)
Ask(c, via, q) ==
  /\ Resting(c) /\ Serving(via)
  /\ task' = [task EXCEPT ![c] =
                [pc |-> "waiting", via |-> via, asked |-> q, data |-> None]]
  /\ reply' = [reply EXCEPT ![c] = None]
  /\ UNCHANGED <<dns, doh, buf>>

\* Variant: the query handled before the loop goes round.
Accept_Inline(c) ==
  LET t == task[c] IN
  /\ t.pc = "waiting" /\ Serving(t.via)
  /\ \A o \in Client : task[o].pc \notin {"handle", "resolve"}
  /\ task' = [task EXCEPT ![c].pc = "handle", ![c].data = t.asked]
  /\ buf' = IF t.via = "udp" THEN t.asked ELSE buf
  /\ UNCHANGED <<dns, doh, reply>>

\* A task is spawned, with a copy of what was received.
Accept(c) ==
  LET t == task[c] IN
  /\ t.pc = "waiting" /\ Serving(t.via)
  /\ task' = [task EXCEPT ![c].pc = "handle", ![c].data = t.asked]
  /\ buf' = IF t.via = "udp" THEN t.asked ELSE buf
  /\ UNCHANGED <<dns, doh, reply>>

\* Variant: the datagram left in the buffer until its task runs.
Data_Shared(c) == IF task[c].via = "udp" THEN buf ELSE task[c].data

Data(c) == task[c].data

End(c, r) ==
  /\ task' = [task EXCEPT ![c].pc = IF r = None THEN "dropped" ELSE "replied"]
  /\ reply' = [reply EXCEPT ![c] = r]
  /\ UNCHANGED <<dns, doh, buf>>

\* A TCP or HTTP client that hangs up: the task ends at its next read or write.
HangUp(c) ==
  /\ task[c].via \in {"tcp", "doh"} /\ task[c].pc \in {"waiting", "handle", "resolve"}
  /\ End(c, None)

-----------------------------------------------------------------------------
(***************************************************************************)
(* The messages that leave.                                                *)
(***************************************************************************)
Length(q, records) == q.len + records

\* A response to q in serialized form.  make_response copies the header of the
\* query, its TC flag too.
Response(q, r) ==
  [query |-> q, rcode |-> r.rcode, records |-> r.records, tc |-> q.tc,
   ttl |-> r.ttl, prefix |-> 0, max_age |-> 0]

FormatError == [rcode |-> "FormatError", records |-> 0, ttl |-> 0]

\* Without its records, and marked.
Emptied(q, r) == [Response(q, r) EXCEPT !.tc = TRUE, !.records = 0]

\* Variant: the records cut without the mark.
UdpReply_Unmarked(q, r) ==
  IF Length(q, r.records) <= UdpLimit THEN {Response(q, r)}
  ELSE {[Response(q, r) EXCEPT !.records = 0]} \cup (IF q.form = "odd" THEN {None} ELSE {})

\* run_udp reads a response that is too long back in to truncate it, and sends
\* nothing when it cannot.
UdpReply(q, r) ==
  IF Length(q, r.records) <= UdpLimit THEN {Response(q, r)}
  ELSE {Emptied(q, r)} \cup (IF q.form = "odd" THEN {None} ELSE {})

TcpReply(q, r) ==
  {[Response(q, r) EXCEPT !.prefix = Length(q, r.records) % Modulus]}

\* Only an answer of the resolver, or its error, is sent with a max-age.
DohReply(q, r) ==
  {[Response(q, r) EXCEPT !.max_age = IF r = FormatError THEN 0 ELSE MaxAge]}

\* What may be sent; None is nothing.
ReplyVia(via, q, r) ==
  CASE via = "udp" -> UdpReply(q, r)
    [] via = "tcp" -> TcpReply(q, r)
    [] via = "doh" -> DohReply(q, r)

\* Variant: a missing parameter reported as the client's mistake.
HttpStatus_BadRequest(http) ==
  CASE http = "health" -> 200
    [] http = "elsewhere" -> 404
    [] http = "post_untyped" -> 415
    [] http = "get_bare" -> 400
    [] OTHER -> None

\* handle_request, handle_get and handle_post up to process_dns_query.
HttpStatus(http) ==
  CASE http = "health" -> 200
    [] http = "elsewhere" -> 404
    [] http = "post_untyped" -> 415
    [] http = "get_bare" -> 500
    [] OTHER -> None

HttpRefuses(c) ==
  /\ task[c].pc = "handle" /\ task[c].via = "doh"
  /\ HttpStatus(Data(c).http) # None
  /\ End(c, [status |-> HttpStatus(Data(c).http)])

\* The query reaches handle_query or process_dns_query.
Parsing(c) ==
  /\ task[c].pc = "handle"
  /\ task[c].via = "doh" => HttpStatus(Data(c).http) = None

\* The parser returns an error, or panics: that ends the task.
ParseFails(c) ==
  /\ Parsing(c) /\ Data(c).form = "garbled"
  /\ \E r \in {None} \cup (IF task[c].via = "doh" THEN {[status |-> 500]} ELSE {}) :
       End(c, r)

NoQuestion(c) ==
  /\ Parsing(c) /\ Data(c).form = "empty"
  /\ \E m \in ReplyVia(task[c].via, Data(c), FormatError) : End(c, m)

Resolve(c) ==
  /\ Parsing(c) /\ Data(c).form \in {"plain", "odd"}
  /\ task' = [task EXCEPT ![c].pc = "resolve", ![c].data = Data(c)]
  /\ UNCHANGED <<dns, doh, buf, reply>>

Resolved(c) ==
  /\ task[c].pc = "resolve"
  /\ \E r \in Outcome(task[c].data) :
       \E m \in ReplyVia(task[c].via, task[c].data, r) : End(c, m)

Work(c) ==
  HttpRefuses(c) \/ ParseFails(c) \/ NoQuestion(c) \/ Resolve(c) \/ Resolved(c)

Next ==
  \/ BindDns \/ DnsFails \/ BindDoh \/ DohFails
  \/ \E c \in Client :
       \/ \E via \in Via, q \in Query : Ask(c, via, q)
       \/ Accept(c) \/ HangUp(c) \/ Work(c)

(***************************************************************************)
(* A socket hands out what waits at it in the order of arrival, and a      *)
(* spawned task is polled.  Nothing makes a resolution end.                *)
(***************************************************************************)
Fairness == \A c \in Client : WF_vars(Accept(c)) /\ WF_vars(Work(c))

Spec == Init /\ [][Next]_vars /\ Fairness

-----------------------------------------------------------------------------
\* Type invariant of the listeners and their tasks.
TypeOK ==
  /\ dns \in {"udp", "tcp", "serving", "exited"}
  /\ doh \in {"off", "binding", "serving", "stopped"}
  /\ task \in [Client -> [pc : {"none", "waiting", "handle", "resolve",
                                "replied", "dropped"},
                          via : Via \cup {None}, asked : Query \cup {None},
                          data : Query \cup {None}]]
  /\ buf \in Query \cup {None}
  /\ reply \in [Client -> Reply \cup {None}]

IsMessage(r) == r # None /\ "rcode" \in DOMAIN r

\* A client is sent the reply to its own query, with an outcome the resolver may
\* have for that query, in whatever order the tasks end and whatever has been
\* received meanwhile (run_udp copies the datagram out of the buffer it reuses).
RepliesMatch ==
  \A c \in Client : IsMessage(reply[c]) =>
    /\ reply[c].query = task[c].asked
    /\ \/ reply[c].rcode = "FormatError" /\ task[c].asked.form = "empty"
       \/ \E r \in Outcome(task[c].asked) : r.rcode = reply[c].rcode

\* Records are left out of a reply only over UDP, and then all of them, under the
\* TC flag; a client that has not set this flag itself (make_response copies it)
\* sees it only where records were left out, or would be if there were any, for
\* want of room.  Over TCP it can read every message that a prefix can announce.
\* What leaves over UDP is within the limit, unless the questions alone are above
\* it, or could not be read back as they were (run_udp truncates all the other
\* sections).
WholeOrMarked ==
  \A c \in Client : IsMessage(reply[c]) =>
    LET q == task[c].asked
        r == reply[c]
        length == Length(r.query, r.records)
        Outcomes == {o \in Outcome(q) \cup {FormatError} : o.rcode = r.rcode}
    IN  /\ \/ \E o \in Outcomes : o.records = r.records
           \/ task[c].via = "udp" /\ r.tc /\ r.records = 0
        /\ r.tc /\ ~q.tc =>
             /\ task[c].via = "udp"
             /\ \E o \in Outcomes : Length(q, o.records) > UdpLimit
        /\ task[c].via = "tcp" /\ length < Modulus => r.prefix = length
        /\ task[c].via = "udp" /\ q.form # "odd" => length <= UdpLimit \/ q.len > UdpLimit

\* A query whose resolution hangs, or that cannot be read, holds up no other:
\* a plain query that waits at a socket is answered, unless its client hangs up
\* or the program ends (tokio::spawn in the loops of run_udp, run_tcp and run).
OthersServed ==
  \A c \in Client :
    (task[c].pc = "waiting" /\ task[c].asked.form = "plain"
       /\ Outcome(task[c].asked) # {}
       /\ (task[c].via = "doh" => HttpStatus(task[c].asked.http) = None))
    ~> task[c].pc \in {"replied", "dropped"}
=============================================================================
