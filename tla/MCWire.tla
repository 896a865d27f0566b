------------------------------- MODULE MCWire -------------------------------
(***************************************************************************)
(* Received for TLC: messages with every layout of record data, written    *)
(* with and without compression, whole, cut anywhere, or with one byte     *)
(* changed; short bodies of any bytes, in which most names go wrong; and   *)
(* signed responses.                                                       *)
(***************************************************************************)
EXTENDS Received

Root == <<>>
NameA == << <<97>> >>
NameBA == << <<98>>, <<97>> >>

RD(head, ns, rest) == [head |-> head, names |-> ns, rest |-> rest]
Q(n, type) == [name |-> n, type |-> type, class |-> 1]
RR(n, type, rdata) == [name |-> n, type |-> type, class |-> 1, ttl |-> 9, rdata |-> rdata]

Address == RR(NameA, RT.A, RD(<<>>, <<>>, <<7>>))
\* raw data that reads like a record: cut by a byte, it is taken for one of the
\* section behind
Raw == RR(Root, 200, RD(<<>>, <<>>, <<0, 200, 1, 9, 0, 1>>))

\* each layout, the names compressible or not
Answers ==
  { Address,
    RR(NameBA, RT.AAAA, RD(<<>>, <<>>, <<7, 8>>)),
    RR(NameA, RT.CNAME, RD(<<>>, <<NameBA>>, <<>>)),
    RR(NameA, RT.MX, RD(<<3>>, <<NameA>>, <<>>)),
    RR(NameA, RT.TXT, RD(<<>>, <<>>, << <<72>>, <<>> >>)),
    RR(NameA, RT.SOA, RD(<<>>, <<NameA, NameBA>>, <<1, 2, 3, 4, 5>>)),
    RR(NameA, RT.SRV, RD(<<1, 2, 3>>, <<Root>>, <<>>)),
    RR(NameBA, RT.DS, RD(<<1, 2, 3>>, <<>>, <<4, 4>>)),
    RR(NameA, RT.DNSKEY, RD(<<1, 2, 3>>, <<>>, <<4>>)),
    RR(NameA, RT.RRSIG, RD(<<1, 2, 3, 4, 5, 6, 7>>, <<NameA>>, <<8, 8>>)),
    RR(NameA, RT.NSEC, RD(<<>>, <<NameBA>>, <<64>>)),
    Raw }

Messages ==
  { [header |-> ReadHeader(5, 171, 163),
     sections |-> << <<Q(NameA, RT.A)>>, <<r>>,
                     <<RR(Root, RT.NS, RD(<<>>, <<NameBA>>, <<>>))>>, <<Raw, Address>> >>] :
      r \in Answers }
    \cup
  { [header |-> ReadHeader(6, 1, 0), sections |-> << qs, <<>>, <<>>, <<>> >>] :
      qs \in { <<>>, <<Q(NameA, RT.NS), Q(NameBA, 255)>> } }

-----------------------------------------------------------------------------
(* A server that compresses: the name of the question is written once. *)
Suffix(n, k) == SubSeq(n, k, Len(n))
Compressed(qname, name) ==
  IF \E k \in DOMAIN name : Suffix(name, k) = qname
  THEN LET k == CHOOSE k \in DOMAIN name : Suffix(name, k) = qname
       IN  FlattenSeq([i \in 1..k - 1 |-> WithLength(name[i])]) \o <<192, HeaderSize>>
  ELSE ToWire(name)

WriteCompressed(m) ==
  LET q == m.sections[1][1]
      full == SerializeWith([n \in {NameA, NameBA} |-> Compressed(q.name, n)], m)
  IN  \* the question itself, in full
      SubSeq(full, 1, HeaderSize) \o ToWire(q.name)
        \o SubSeq(full, HeaderSize + 3, Len(full))

Written(m) ==
  {Serialize(m)} \cup IF Len(m.sections[1]) = 1 THEN {WriteCompressed(m)} ELSE {}

-----------------------------------------------------------------------------
Origin(m, whole) == [known |-> TRUE, whole |-> whole, reply |-> FALSE, msg |-> m]
Bare(cells) == [data |-> cells, sent |-> [known |-> FALSE, reply |-> FALSE]]

WholeInputs ==
  UNION {{[data |-> w, sent |-> Origin(m, TRUE)] : w \in Written(m)} : m \in Messages}

CutInputs ==
  UNION {{[data |-> SubSeq(i.data, 1, n), sent |-> [i.sent EXCEPT !.whole = FALSE]] :
            n \in 0..Len(i.data) - 1} : i \in WholeInputs}

\* another length, count, type, pointer or letter, in messages with one record in the
\* answer and authority sections
AlteredInputs ==
  LET Altered(cells) == {Bare([cells EXCEPT ![n] = b]) : n \in 4..Len(cells), b \in {0, 3, 192}}
  IN  UNION {Altered(Serialize([m EXCEPT !.sections[4] = <<>>])) : m \in Messages}

\* one question or one answer, and up to BodySize bytes that are lengths, letters
\* and pointers to themselves, to one another and out of the message
BodySize == 4
Bodies == UNION {[1..n -> {0, 1, 192, 7, 8, 9}] : n \in 0..BodySize}
ShortInputs ==
  {Bare(<<1, 0, 0>> \o counts4 \o body) :
     counts4 \in {<<1, 0, 0, 0>>, <<0, 1, 0, 0>>}, body \in Bodies}

\* labels of bytes that are not UTF-8: the last one that can be written again, and
\* one that cannot
LongInputs ==
  {Bare(<<1, 0, 0, 1, 0, 0, 0, n>> \o [i \in 1..n |-> 200] \o <<0, 1, 1>>) : n \in {63, 64}}

\* a name of as many pointers as are followed, and one of one more
ChainInputs ==
  {Bare(<<1, 0, 0, 1, 0, 0, 0>> \o chain) :
     chain \in { <<192, 9, 192, 11, 0>>, <<192, 9, 192, 11, 192, 13, 0>> }}

-----------------------------------------------------------------------------
(***************************************************************************)
(* Signed responses.  KeyA has signed the address, once for the time 1..2.  *)
(* KeyB has the same tag, KeyC cannot be read; Forged is no signature of    *)
(* KeyA, and Private has an algorithm nobody knows.  KeyA has also signed   *)
(* two sets of texts, of which the second has two lengths.                 *)
(***************************************************************************)
DnsKey(flags, bytes) == RR(NameA, RT.DNSKEY, RD(<<flags, 3, 8>>, <<>>, bytes))
KeyA == DnsKey(1, <<1, 3, 9>>)
KeyB == DnsKey(4, <<1, 0, 9>>)
KeyC == DnsKey(1, <<9, 3, 1>>)

Rrsig(type, algorithm, bytes) ==
  RR(NameA, RT.RRSIG,
     RD(<<type, algorithm, 1, 5, 2, 1, ComputeKeyTag(KeyA)>>, <<NameA>>, bytes))
Genuine == Rrsig(RT.A, 8, <<50>>)
Forged  == Rrsig(RT.A, 8, <<51>>)
Private == Rrsig(RT.A, 99, <<50>>)

Text(texts) == RR(NameA, RT.TXT, RD(<<>>, <<>>, texts))
OfTexts == Rrsig(RT.TXT, 8, <<52>>)

\* In the order of their data; the first of the second set is the longer one.
SameLength == << Text(<< <<72>> >>), Text(<< <<73>> >>) >>
OtherLength == << Text(<< <<1>>, <<>> >>), Text(<< <<72>> >>) >>

MadeByA(rrsig, recs) ==
  [scheme |-> "RsaSha256", key |-> KeyA.rdata.rest,
   data |-> rrsig.rdata.head \o ToWire(NameA)
              \o FlattenSeq([n \in DOMAIN recs |-> RecordBytes(<<>>, [recs[n] EXCEPT !.ttl = 5])]),
   signature |-> rrsig.rdata.rest]

Signatures ==
  { MadeByA(Genuine, <<Address>>), MadeByA(OfTexts, SameLength), MadeByA(OfTexts, OtherLength) }

Response(answers, additional) ==
  LET m == [header |-> ReadHeader(7, 128, 0),
            sections |-> << <<Q(NameA, RT.A)>>, answers, <<>>, additional >>]
  IN  [data |-> Serialize(m), sent |-> Origin(m, TRUE)]

\* Up to two of a set, in any order.
UpToTwo(S) == {<<>>} \cup {<<x>> : x \in S} \cup {s \in S \X S : s[1] # s[2]}

SignedInputs ==
  { Response(<<Address>> \o rrsigs, keys \o more) :
      rrsigs \in UpToTwo({Genuine, Forged, Private}),
      keys \in UpToTwo({KeyA, KeyB, KeyC}),
      more \in { <<>>, <<RR(NameBA, RT.A, RD(<<>>, <<>>, <<8>>))>> } }
    \cup
  { Response(texts \o <<OfTexts>>, <<KeyA>>) :
      texts \in {SameLength, Reverse(SameLength), OtherLength, Reverse(OtherLength)} }

AllInputs ==
  WholeInputs \cup CutInputs \cup AlteredInputs \cup ShortInputs \cup LongInputs
    \cup ChainInputs \cup SignedInputs

-----------------------------------------------------------------------------
\* Whole messages are what they are said to be: where the items begin, the layouts of
\* the records, and that these fit.
Ends(d, s, q, n) ==
  LET at[i \in 0..n] ==
        IF i = 0 THEN q
        ELSE LET f == Says(d, at[i - 1]).behind
             IN  IF s = 1 THEN f + QuestionSize ELSE f + RecordSize + d[f + RecordSize]
  IN  at

Positions(d, m) ==
  LET N(s) == Len(m.sections[s])
      at[s \in 1..4] ==
        Ends(d, s, IF s = 1 THEN HeaderSize ELSE at[s - 1][N(s - 1)], N(s))
  IN  at

Layout(d, q, r) ==
  LET behind == Says(d, q).behind
      names_[i \in 0..Len(r.rdata.names)] ==
        IF i = 0 THEN behind + RecordSize + HeadSize(r.type) ELSE Says(d, names_[i - 1]).behind
      texts[i \in 0..Len(r.rdata.rest)] ==
        IF i = 0 THEN names_[0] ELSE texts[i - 1] + 1 + d[texts[i - 1] + 1]
  IN  [fixed |-> behind, names |-> names_,
       texts |-> IF Rest(r.type) = "texts" THEN texts ELSE <<>>]

ASSUME \A i \in WholeInputs \cup SignedInputs :
  LET m == i.sent.msg
      at == Positions(i.data, m)
  IN  HoldsMessage(i.data, m, at,
        [s \in 1..4 |-> IF s = 1 THEN <<>>
                        ELSE [n \in DOMAIN m.sections[s] |->
                                Layout(i.data, at[s][n - 1], m.sections[s][n])]])
=============================================================================
