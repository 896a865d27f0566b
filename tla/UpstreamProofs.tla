--------------------------- MODULE UpstreamProofs ---------------------------
(***************************************************************************)
(* Theorems about Upstream, for any hosts and servers, any number of       *)
(* attempts and any number of datagrams in flight.                         *)
(***************************************************************************)
EXTENDS Upstream, TLAPS

-----------------------------------------------------------------------------
(***************************************************************************)
(* The inductive invariant.  What the call has read, and whom it may take  *)
(* an answer from, depends on how far it is.                               *)
(***************************************************************************)
\* Nothing has happened before there is a socket.
Unbound == pc = "bind" => ns = None

\* The outcome is there when the call is done, and not before.
OutcomeLast == pc = "done" <=> outcome # Pending

\* Until a reply to the query has been read there are only aliens.
OnlyAliens == pc \in {"bind", "send", "recv"} => \A d \in read : d.kind = "alien"

Waiting == pc = "recv" => attempt < MaxRetries /\ ns \in sent

FallingBack ==
  pc \in {"connect", "read"} =>
    ns \in sent /\ [from |-> kept, kind |-> "truncated"] \in read

IInv ==
  /\ TypeOK /\ Unbound /\ OutcomeLast /\ OnlyAliens /\ Waiting /\ FallingBack
  /\ NoReplyWasted /\ AnswerReceived

\* The invariant holds as the call begins.
LEMMA InitInv == Init => IInv
BY ServerAssumption, RetriesAssumption, OutcomeAssumption
   DEF Init, IInv, TypeOK, Unbound, OutcomeLast, OnlyAliens, Waiting,
       FallingBack, NoReplyWasted, AnswerReceived, Answer

\* The responses that query_nameservers and query_tcp make.
LEMMA UdpResponse ==
  ASSUME NEW h \in Host, NEW cut \in BOOLEAN
  PROVE  /\ Udp(h, cut) \in Answer /\ Udp(h, cut).via = "udp"
         /\ Udp(h, cut).from = h /\ Udp(h, cut).cut = cut
BY DEF Udp, Answer

LEMMA TcpResponse ==
  ASSUME NEW s \in Host, NEW cut \in BOOLEAN
  PROVE  /\ Tcp(s, cut) \in Answer /\ Tcp(s, cut).via = "tcp"
         /\ Tcp(s, cut).from = s /\ Tcp(s, cut).cut = cut
BY DEF Tcp, Answer

\* A step that ends the call with a response that was received keeps the
\* invariant.
LEMMA AnswerStep ==
  ASSUME IInv, pc' = "done", outcome' \in Answer, AnswerReceived',
         flight' \subseteq flight, read' \subseteq Datagram,
         UNCHANGED <<attempt, ns, sent, kept>>
  PROVE  IInv'
<1>1. outcome' # Pending /\ outcome' # NoAnswer
  BY OutcomeAssumption
<1> QED
  BY <1>1, RetriesAssumption
     DEF IInv, TypeOK, Unbound, OutcomeLast, OnlyAliens, Waiting, FallingBack,
         NoReplyWasted

\* The truncated reply that is held on to may be returned while TCP is tried.
LEMMA KeptStep ==
  ASSUME IInv, pc \in {"connect", "read"}, pc' = "done", outcome' = Udp(kept, TRUE),
         UNCHANGED <<attempt, ns, sent, flight, kept, read>>
  PROVE  IInv'
<1>1. [from |-> kept, kind |-> "truncated"] \in read /\ read \subseteq Datagram
  BY DEF IInv, FallingBack, TypeOK
<1>2. kept \in Host
  BY <1>1 DEF Datagram
<1>3. outcome' \in Answer /\ outcome'.via = "udp" /\ outcome'.from = kept
      /\ outcome'.cut = TRUE
  BY <1>2, UdpResponse
<1>4. AnswerReceived'
  BY <1>1, <1>3 DEF AnswerReceived
<1> QED
  BY <1>1, <1>3, <1>4, AnswerStep

\* Every step of the call, of TCP and of the network keeps it.
LEMMA NextInv == IInv /\ [Next]_vars => IInv'
<1> SUFFICES ASSUME IInv, [Next]_vars PROVE IInv'
  OBVIOUS
<1> DEFINE Others ==
      ~ \/ \E d \in flight : RecvWhole(d)
        \/ ConnectFails \/ TcpAnswers \/ TcpFails
<1>1. ASSUME NEW d \in flight, RecvWhole(d) PROVE IInv'
  <2>1. d \in Datagram /\ d.kind = "whole" /\ d.from \in Host
    BY <1>1 DEF RecvWhole, Take, IInv, TypeOK, Datagram
  <2>2. d = [from |-> d.from, kind |-> "whole"] /\ d \in read'
    BY <1>1, <2>1 DEF RecvWhole, Take, Datagram
  <2>3. outcome' \in Answer /\ outcome'.via = "udp" /\ outcome'.from = d.from
        /\ outcome'.cut = FALSE
    BY <1>1, <2>1, UdpResponse DEF RecvWhole
  <2>4. AnswerReceived'
    BY <2>2, <2>3 DEF AnswerReceived
  <2>5. /\ pc' = "done" /\ flight' \subseteq flight /\ read' \subseteq Datagram
        /\ UNCHANGED <<attempt, ns, sent, kept>>
    BY <1>1, <2>1 DEF RecvWhole, Take, IInv, TypeOK
  <2> QED
    BY <2>3, <2>4, <2>5, AnswerStep
<1>2. CASE ConnectFails BY <1>2, KeptStep DEF ConnectFails
<1>3. CASE TcpFails     BY <1>3, KeptStep DEF TcpFails
<1>4. CASE TcpAnswers
  <2>1. /\ ns \in sent /\ [from |-> kept, kind |-> "truncated"] \in read
        /\ sent \subseteq Server /\ read \subseteq Datagram
    BY <1>4 DEF TcpAnswers, IInv, FallingBack, TypeOK
  <2>2. PICK cut \in BOOLEAN : outcome' = Tcp(ns, cut)
    BY <1>4 DEF TcpAnswers
  <2>3. ns \in Host
    BY <2>1, ServerAssumption
  <2>4. outcome' \in Answer /\ outcome'.via = "tcp" /\ outcome'.from = ns
    BY <2>2, <2>3, TcpResponse
  <2>5. AnswerReceived'
    BY <1>4, <2>1, <2>4 DEF AnswerReceived, TcpAnswers
  <2> QED
    BY <1>4, <2>1, <2>4, <2>5, AnswerStep DEF TcpAnswers
<1>5. CASE Others /\ Next
  <2> USE ServerAssumption, RetriesAssumption, OutcomeAssumption
  <2> USE DEF IInv, TypeOK, Unbound, OutcomeLast, OnlyAliens, Waiting,
              FallingBack, NoReplyWasted, AnswerReceived, Datagram, Kind
  <2>1. CASE Bind      BY <2>1 DEF Bind
  <2>2. CASE BindFails BY <2>2 DEF BindFails
  <2>3. CASE Send      BY <2>3 DEF Send
  <2>4. CASE SendFails BY <2>4 DEF SendFails
  <2>5. CASE Timeout   BY <2>5 DEF Timeout
  <2>6. CASE Exhausted BY <2>6 DEF Exhausted
  <2>7. ASSUME NEW d \in flight, RecvTruncated(d) PROVE IInv'
    <3>1. d = [from |-> d.from, kind |-> "truncated"] /\ d.from \in Host
      BY <2>7 DEF RecvTruncated, Take
    <3>2. [from |-> kept', kind |-> "truncated"] \in read' /\ read' \subseteq Datagram
      BY <2>7, <3>1 DEF RecvTruncated, Take
    <3> QED
      BY <2>7, <3>1, <3>2 DEF RecvTruncated, Take
  <2>8. ASSUME NEW d \in flight, RecvAlien(d) PROVE IInv'
    BY <2>8 DEF RecvAlien, Take
  <2>9. CASE Connect BY <2>9 DEF Connect
  <2>10. ASSUME NEW h \in Host, NEW kind \in Kind, Arrive(h, kind) PROVE IInv'
    BY <2>10 DEF Arrive
  <2>11. ASSUME NEW d \in flight, Lose(d) PROVE IInv'
    BY <2>11 DEF Lose
  <2> QED
    BY <1>5, <2>1, <2>2, <2>3, <2>4, <2>5, <2>6, <2>7, <2>8, <2>9, <2>10, <2>11
       DEF Next, Attempt, Fallback, Network
<1>6. CASE UNCHANGED vars
  BY <1>6 DEF vars, IInv, TypeOK, Unbound, OutcomeLast, OnlyAliens, Waiting,
              FallingBack, NoReplyWasted, AnswerReceived
<1> QED
  BY <1>1, <1>2, <1>3, <1>4, <1>5, <1>6

LEMMA InvHolds == Spec => []IInv
BY InitInv, NextInv, PTL DEF Spec

\* The type invariant of a call of query_nameservers.
THEOREM TypeCorrect == Spec => []TypeOK
BY InvHolds, PTL DEF IInv

\* A call that got a socket gives up only after MAX_RETRIES attempts none of
\* which read a reply to the query, late or not, whole or truncated
\* (query_nameservers).
THEOREM RepliesAreUsed == Spec => []NoReplyWasted
BY InvHolds, PTL DEF IInv

\* What a call returns it has received, as it was: a datagram that it read, or
\* what a server that it had sent the query to said over TCP, after a truncated
\* datagram (query_nameservers, query_tcp).
THEOREM AnswersAreReceived == Spec => []AnswerReceived
BY InvHolds, PTL DEF IInv

-----------------------------------------------------------------------------
\* Outside the TCP fallback the only response that is returned is a datagram
\* that is not truncated.
LEMMA CutStep ==
  ASSUME IInv, [Next]_vars, outcome' # outcome, outcome' \in Answer, outcome'.cut
  PROVE  pc \in {"connect", "read"}
<1>1. \A d \in flight : ~RecvWhole(d)
  <2> SUFFICES ASSUME NEW d \in flight, RecvWhole(d) PROVE FALSE
    OBVIOUS
  <2>1. d.from \in Host
    BY DEF IInv, TypeOK, Datagram
  <2> QED
    BY <2>1, UdpResponse DEF RecvWhole
<1>2. ~BindFails /\ ~Exhausted
  BY OutcomeAssumption DEF BindFails, Exhausted
<1>3. CASE ConnectFails \/ TcpAnswers \/ TcpFails
  BY <1>3 DEF ConnectFails, TcpAnswers, TcpFails
<1> QED
  BY <1>1, <1>2, <1>3
     DEF Next, Attempt, Fallback, Network, vars, Bind, Send, SendFails, Timeout,
         RecvTruncated, RecvAlien, Take, Connect, Arrive, Lose

\* A reply that was cut off is returned only from within the TCP fallback
\* (the nested if in query_nameservers).
THEOREM TcpBeforeCut == Spec => CutOnlyAfterTcp
<1>1. IInv /\ [Next]_vars =>
        [outcome' # outcome /\ outcome' \in Answer /\ outcome'.cut
           => pc \in {"connect", "read"}]_vars
  BY CutStep
<1> QED
  BY <1>1, InvHolds, PTL DEF Spec, CutOnlyAfterTcp
=============================================================================
