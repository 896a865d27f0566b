----------------------------- MODULE WireFormat -----------------------------
(***************************************************************************)
(* What a DNS message looks like on the wire (src/dns/): the layout of the *)
(* record types, and what serialize writes.  Module Wire is the parser.    *)
(*                                                                         *)
(* A message is a sequence of cells.  A fixed field of the code is one     *)
(* cell whatever its width (an id, a TTL, an address), a byte of a name, a *)
(* text or raw data is one cell; two-byte numbers are reduced to one cell. *)
(***************************************************************************)
EXTENDS Integers, SequencesExt

Cell == 0..255

\* RecordType by its number.
RT ==
  [A |-> 1, NS |-> 2, CNAME |-> 5, SOA |-> 6, PTR |-> 12, MX |-> 15,
   TXT |-> 16, AAAA |-> 28, SRV |-> 33, OPT |-> 41, DS |-> 43,
   RRSIG |-> 46, NSEC |-> 47, DNSKEY |-> 48]

-----------------------------------------------------------------------------
(***************************************************************************)
(* The layouts RData::parse knows: fields, then names, then the rest, which *)
(* is skipped, sliced up to the end of the data, five fields of an SOA, or  *)
(* a list of texts.                                                        *)
(***************************************************************************)
HeadSize(t) ==
  IF t = RT.MX THEN 1
  ELSE IF t \in {RT.DS, RT.DNSKEY, RT.SRV} THEN 3
  ELSE IF t = RT.RRSIG THEN 7 ELSE 0

NameCount(t) ==
  IF t = RT.SOA THEN 2
  ELSE IF t \in {RT.CNAME, RT.NS, RT.PTR, RT.MX, RT.SRV, RT.RRSIG, RT.NSEC} THEN 1
  ELSE 0

SoaSize == 5

LengthOk(t, rdlength) ==
  /\ t = RT.A => rdlength = 1
  /\ t = RT.AAAA => rdlength = 2
  /\ t \in {RT.MX, RT.SRV, RT.DS, RT.DNSKEY, RT.RRSIG} => rdlength > HeadSize(t)

Rest(t) ==
  IF t = RT.TXT THEN "texts"
  ELSE IF t = RT.SOA THEN "soa"
  ELSE IF t \in {RT.CNAME, RT.NS, RT.PTR, RT.MX, RT.SRV} THEN "skip" ELSE "slice"

-----------------------------------------------------------------------------
(***************************************************************************)
(* Text.  from_utf8_lossy puts the replacement character, three bytes long, *)
(* for each byte that is no character; here every byte from 128 on, except  *)
(* for a replacement character that has been written before.               *)
(***************************************************************************)
Replacement == 65533
ReplacementBytes == <<239, 191, 189>>

FromUtf8Lossy(bytes) ==
  LET IsReplacement(i) == /\ i + 2 <= Len(bytes)
                          /\ SubSeq(bytes, i, i + 2) = ReplacementBytes
      text[i \in 1..Len(bytes) + 1] ==
        IF i > Len(bytes) THEN <<>>
        ELSE IF IsReplacement(i) THEN <<Replacement>> \o text[i + 3]
        ELSE <<IF bytes[i] < 128 THEN bytes[i] ELSE Replacement>> \o text[i + 1]
  IN  text[1]

Utf8(text) ==
  FlattenSeq([i \in DOMAIN text |->
                IF text[i] = Replacement THEN ReplacementBytes ELSE <<text[i]>>])

\* A character and a whole label in lower case.
LowerCase(c) == IF c \in 65..90 THEN c + 32 ELSE c
Label(bytes) ==
  LET text == FromUtf8Lossy(bytes) IN [i \in DOMAIN text |-> LowerCase(text[i])]

-----------------------------------------------------------------------------
(* The header: flags are bits of two bytes, of which parse drops one. *)
Bit(byte, weight) == (byte \div weight) % 2

ReadHeader(id, flags1, flags2) ==
  [id |-> id, response |-> Bit(flags1, 128), opcode |-> (flags1 \div 8) % 16,
   authoritative |-> Bit(flags1, 4), truncated |-> Bit(flags1, 2),
   recursion_desired |-> Bit(flags1, 1), recursion_available |-> Bit(flags2, 128),
   authentic_data |-> Bit(flags2, 32), checking_disabled |-> Bit(flags2, 16),
   code |-> flags2 % 16]

HeaderBytes(h) ==
  << h.id,
     128 * h.response + 8 * h.opcode + 4 * h.authoritative + 2 * h.truncated
       + h.recursion_desired,
     128 * h.recursion_available + 32 * h.authentic_data
       + 16 * h.checking_disabled + h.code >>

-----------------------------------------------------------------------------
(***************************************************************************)
(* Writing.  The four sections of a message are sections[1] to [4], the     *)
(* first one of questions.  Some names may have a shorter form, short, as   *)
(* written by servers that compress them; the code has none.               *)
(***************************************************************************)
WithLength(text) == <<Len(Utf8(text)) % 256>> \o Utf8(text)

ToWire(name) == FlattenSeq([i \in DOMAIN name |-> WithLength(name[i])]) \o <<0>>

NameBytes(short, name) == IF name \in DOMAIN short THEN short[name] ELSE ToWire(name)

RDataBytes(short, t, rdata) ==
  rdata.head
    \o FlattenSeq([i \in DOMAIN rdata.names |-> NameBytes(short, rdata.names[i])])
    \o IF Rest(t) = "texts"
       THEN FlattenSeq([i \in DOMAIN rdata.rest |-> WithLength(rdata.rest[i])])
       ELSE rdata.rest

QuestionBytes(short, q) == NameBytes(short, q.name) \o <<q.type, q.class>>

RecordBytes(short, r) ==
  LET rdata == RDataBytes(short, r.type, r.rdata)
  IN  NameBytes(short, r.name) \o <<r.type, r.class, r.ttl, Len(rdata) % 256>> \o rdata

SerializeWith(short, m) ==
  HeaderBytes(m.header)
    \o [s \in 1..4 |-> Len(m.sections[s]) % 256]
    \o FlattenSeq([i \in DOMAIN m.sections[1] |-> QuestionBytes(short, m.sections[1][i])])
    \o FlattenSeq([s \in 1..3 |->
         FlattenSeq([i \in DOMAIN m.sections[s + 1] |->
                       RecordBytes(short, m.sections[s + 1][i])])])

Serialize(m) == SerializeWith(<<>>, m)

\* make_response, and what the server makes of a query it has read: an error
\* when it holds no question, else the question with the records of answer.
MakeResponse(m, code, answer) ==
  [header |-> [m.header EXCEPT !.response = 1, !.recursion_available = 1, !.code = code],
   sections |-> << m.sections[1], answer, <<>>, <<>> >>]
=============================================================================
