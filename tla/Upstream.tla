------------------------------ MODULE Upstream ------------------------------
(***************************************************************************)
(* One call of query_nameservers, with the query_tcp it falls back on      *)
(* (src/resolver/mod.rs).  One UDP socket and one query id serve all the   *)
(* attempts, so a reply to an earlier attempt can arrive during a later    *)
(* one, and every attempt reads one datagram at most.  Nobody looks at who  *)
(* sent it: what bears the id is the reply.  The network loses, delays,    *)
(* repeats and reorders datagrams, and any host may send one.              *)
(***************************************************************************)
EXTENDS Naturals, FiniteSets

CONSTANTS
  Host,        \* whoever can send a datagram to the socket
  Server,      \* the addresses passed in, not empty
  MaxRetries,  \* MAX_RETRIES
  MaxFlight,   \* bound: datagrams on their way to the socket at a time
  Pending, NoAnswer, None

\* A response that is returned: whose, by what way, and whether it says that it
\* is truncated.
Answer == [from : Host, via : {"udp", "tcp"}, cut : BOOLEAN]

ASSUME ServerAssumption == Server # {} /\ Server \subseteq Host /\ None \notin Host
ASSUME RetriesAssumption == MaxRetries \in Nat \ {0} /\ MaxFlight \in Nat
ASSUME OutcomeAssumption ==
  Pending # NoAnswer /\ Pending \notin Answer /\ NoAnswer \notin Answer

VARIABLES
  pc,       \* where the call is: "bind", "send", "recv", "connect", "read", "done"
  attempt,  \* how many attempts have ended
  ns,       \* the server of the current attempt
  sent,     \* the servers that have been sent the query
  flight,   \* the datagrams on their way to the socket
  kept,     \* who sent the truncated reply that the call holds on to
  read,     \* history: the datagrams read so far
  outcome   \* what the call returns

vars == <<pc, attempt, ns, sent, flight, kept, read, outcome>>

(***************************************************************************)
(* A datagram as the call tells them apart: a reply to this query, whole   *)
(* or truncated, which is whatever parses and bears its id, or anything    *)
(* else.                                                                   *)
(***************************************************************************)
Kind == {"whole", "truncated", "alien"}
Datagram == [from : Host, kind : Kind]

Init ==
  /\ pc = "bind"
  /\ attempt = 0
  /\ ns = None
  /\ sent = {}
  /\ flight = {}
  /\ kept = None
  /\ read = {}
  /\ outcome = Pending

Bind ==
  /\ pc = "bind"
  /\ pc' = "send"
  /\ UNCHANGED <<attempt, ns, sent, flight, kept, read, outcome>>

BindFails ==
  /\ pc = "bind"
  /\ pc' = "done"
  /\ outcome' = NoAnswer
  /\ UNCHANGED <<attempt, ns, sent, flight, kept, read>>

-----------------------------------------------------------------------------
(***************************************************************************)
(* The attempts.  Each picks its server at random.                         *)
(***************************************************************************)
\* Variant: one attempt more than MAX_RETRIES.
Send_OneMore ==
  /\ pc = "send" /\ attempt <= MaxRetries
  /\ \E s \in Server : ns' = s /\ sent' = sent \cup {s}
  /\ pc' = "recv"
  /\ UNCHANGED <<attempt, flight, kept, read, outcome>>

Send ==
  /\ pc = "send" /\ attempt < MaxRetries
  /\ \E s \in Server : ns' = s /\ sent' = sent \cup {s}
  /\ pc' = "recv"
  /\ UNCHANGED <<attempt, flight, kept, read, outcome>>

SendFails ==
  /\ pc = "send" /\ attempt < MaxRetries
  /\ ns' \in Server
  /\ attempt' = attempt + 1
  /\ UNCHANGED <<pc, sent, flight, kept, read, outcome>>

\* The datagram that recv_from returns.
Take(d, kind) ==
  /\ pc = "recv" /\ d \in flight /\ d.kind = kind
  /\ flight' = flight \ {d}
  /\ read' = read \cup {d}

\* The responses the call can return.
Udp(h, cut) == [from |-> h, via |-> "udp", cut |-> cut]
Tcp(s, cut) == [from |-> s, via |-> "tcp", cut |-> cut]

\* Variant: only the reply to the current attempt accepted.
RecvWhole_CurrentOnly(d) ==
  /\ Take(d, "whole")
  /\ IF d.from = ns
     THEN /\ pc' = "done"
          /\ outcome' = Udp(d.from, FALSE)
          /\ UNCHANGED attempt
     ELSE /\ pc' = "send" /\ attempt' = attempt + 1
          /\ UNCHANGED outcome
  /\ UNCHANGED <<ns, sent, kept>>

RecvWhole(d) ==
  /\ Take(d, "whole")
  /\ pc' = "done"
  /\ outcome' = Udp(d.from, FALSE)
  /\ UNCHANGED <<attempt, ns, sent, kept>>

\* Variant: a truncated reply taken for an answer.
RecvTruncated_Accept(d) ==
  /\ Take(d, "truncated")
  /\ pc' = "done"
  /\ outcome' = Udp(d.from, TRUE)
  /\ UNCHANGED <<attempt, ns, sent, kept>>

RecvTruncated(d) ==
  /\ Take(d, "truncated")
  /\ pc' = "connect"
  /\ kept' = d.from
  /\ UNCHANGED <<attempt, ns, sent, outcome>>

\* Variant: an alien datagram does not count as an attempt.
RecvAlien_Free(d) ==
  /\ Take(d, "alien")
  /\ pc' = "send"
  /\ UNCHANGED <<attempt, ns, sent, kept, outcome>>

\* A datagram that is not the reply ends the attempt.
RecvAlien(d) ==
  /\ Take(d, "alien")
  /\ pc' = "send"
  /\ attempt' = attempt + 1
  /\ UNCHANGED <<ns, sent, kept, outcome>>

\* No datagram within QUERY_TIMEOUT, though one may be just arriving, or an
\* error of the socket.
Timeout ==
  /\ pc = "recv"
  /\ pc' = "send"
  /\ attempt' = attempt + 1
  /\ UNCHANGED <<ns, sent, flight, kept, read, outcome>>

Exhausted ==
  /\ pc = "send" /\ attempt = MaxRetries
  /\ pc' = "done"
  /\ outcome' = NoAnswer
  /\ UNCHANGED <<attempt, ns, sent, flight, kept, read>>

(***************************************************************************)
(* query_tcp: the server of the attempt is asked again, whoever sent the   *)
(* truncated reply.  When TCP fails the truncated reply is what is         *)
(* returned.  Only the connection has a timeout, not what is written to it *)
(* or read from it, and of what is read neither the id nor the TC flag is  *)
(* looked at.                                                              *)
(***************************************************************************)
Connect ==
  /\ pc = "connect"
  /\ pc' = "read"
  /\ UNCHANGED <<attempt, ns, sent, flight, kept, read, outcome>>

ConnectFails ==
  /\ pc = "connect"
  /\ pc' = "done"
  /\ outcome' = Udp(kept, TRUE)
  /\ UNCHANGED <<attempt, ns, sent, flight, kept, read>>

\* Variant: a server picked anew for the fallback.
TcpAnswers_AnyServer ==
  /\ pc = "read"
  /\ pc' = "done"
  /\ \E s \in Server, cut \in BOOLEAN : outcome' = Tcp(s, cut)
  /\ UNCHANGED <<attempt, ns, sent, flight, kept, read>>

TcpAnswers ==
  /\ pc = "read"
  /\ pc' = "done"
  /\ \E cut \in BOOLEAN : outcome' = Tcp(ns, cut)
  /\ UNCHANGED <<attempt, ns, sent, flight, kept, read>>

\* The peer closes early or sends what does not parse.
TcpFails ==
  /\ pc = "read"
  /\ pc' = "done"
  /\ outcome' = Udp(kept, TRUE)
  /\ UNCHANGED <<attempt, ns, sent, flight, kept, read>>

-----------------------------------------------------------------------------
(***************************************************************************)
(* The network: while there is a socket any host, asked or not, sends      *)
(* datagrams to it, any number of times; any of them may be lost.          *)
(***************************************************************************)
Arrive(h, kind) ==
  /\ pc \notin {"bind", "done"}
  /\ Cardinality(flight) < MaxFlight
  /\ flight' = flight \cup {[from |-> h, kind |-> kind]}
  /\ UNCHANGED <<pc, attempt, ns, sent, kept, read, outcome>>

Lose(d) ==
  /\ d \in flight
  /\ flight' = flight \ {d}
  /\ UNCHANGED <<pc, attempt, ns, sent, kept, read, outcome>>

Attempt ==
  \/ Bind \/ BindFails
  \/ Send \/ SendFails \/ Timeout \/ Exhausted
  \/ \E d \in flight : RecvWhole(d) \/ RecvTruncated(d) \/ RecvAlien(d)

Fallback == Connect \/ ConnectFails \/ TcpAnswers \/ TcpFails

Network ==
  \/ \E h \in Host, kind \in Kind : Arrive(h, kind)
  \/ \E d \in flight : Lose(d)

Next == Attempt \/ Fallback \/ Network

(***************************************************************************)
(* The call is polled and its timers fire, that of the connection too, but *)
(* nothing makes the peer of a connection speak.                           *)
(***************************************************************************)
Fairness == WF_vars(Attempt) /\ WF_vars(Connect \/ ConnectFails)

Spec == Init /\ [][Next]_vars /\ Fairness

-----------------------------------------------------------------------------
\* Type invariant of the call.
TypeOK ==
  /\ pc \in {"bind", "send", "recv", "connect", "read", "done"}
  /\ attempt \in 0..MaxRetries
  /\ ns \in Server \cup {None}
  /\ sent \subseteq Server
  /\ flight \subseteq Datagram
  /\ kept \in Host \cup {None}
  /\ read \subseteq Datagram
  /\ outcome \in Answer \cup {Pending, NoAnswer}

\* A call that got a socket fails only when every attempt has been made and none
\* of them read a reply: a reply that is late, and comes while another server is being waited
\* for, is as good as one in time (the id comparison in query_nameservers,
\* where the sender is not looked at), and a truncated one is not given up when
\* TCP fails.
NoReplyWasted ==
  outcome = NoAnswer /\ ns # None =>
    attempt = MaxRetries /\ \A d \in read : d.kind = "alien"

\* What is returned was received: a datagram that was read, as it was, from
\* whatever host, or what a server that has been sent the query said over TCP,
\* and that only after a truncated datagram, of this server or of another
\* (query_nameservers, query_tcp).
AnswerReceived ==
  outcome \in Answer =>
    \/ /\ outcome.via = "udp"
       /\ [from |-> outcome.from,
           kind |-> IF outcome.cut THEN "truncated" ELSE "whole"] \in read
    \/ /\ outcome.via = "tcp" /\ outcome.from \in sent
       /\ \E d \in read : d.kind = "truncated"

\* A call that does not end is waiting for the peer of a TCP connection to
\* speak: lost, late, repeated and alien datagrams cannot hold it up.
EndsOrReadsTcp == <>(pc = "done") \/ <>[](pc = "read")

\* A truncated reply is not passed on before the server has been tried over TCP
\* (README.md:14; the nested if in query_nameservers).
CutOnlyAfterTcp ==
  [][outcome' # outcome /\ outcome' \in Answer /\ outcome'.cut
       => pc \in {"connect", "read"}]_vars
=============================================================================
