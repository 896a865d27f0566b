----------------------------- MODULE WireReply -----------------------------
(***************************************************************************)
(* What is read is written again: a message that Wire has parsed is         *)
(* answered by handle_query (src/server/mod.rs), and the client parses the  *)
(* reply.  sent tells what the cells were written from: sent.msg if         *)
(* sent.known, all of it if sent.whole; sent.reply is set for the reply.    *)
(***************************************************************************)
EXTENDS Wire

(***************************************************************************)
(* A query without a question is an error, one with is answered, here with  *)
(* the records that came with it: a resolver hands on what it has read.     *)
(***************************************************************************)
Message == [header |-> header, sections |-> sections]

Reply ==
  IF sections[1] = <<>>
  THEN MakeResponse(Message, 1, <<>>)
  ELSE MakeResponse(Message, 0, sections[2])

Respond ==
  /\ pc = "done" /\ ~sent.reply
  /\ data' = Serialize(Reply)
  /\ sent' = [known |-> TRUE, whole |-> TRUE, reply |-> TRUE, msg |-> Reply]
  /\ pc' = "header" /\ offset' = 0
  /\ sections' = NoSections /\ sec' = 1
  /\ UNCHANGED <<header, counts, left, nameVars, itemVars>>

Ended ==
  \/ pc \in {"failed", "panicked"}
  \/ pc = "done" /\ sent.reply

-----------------------------------------------------------------------------
(***************************************************************************)
(* What it is for the cells d to hold a message, told without parse and     *)
(* without serialize: what stands at a position q, and the position z behind *)
(* it.  A name may be written in any way that says it.                      *)
(***************************************************************************)
Says(d, q) == Readings(d)[Len(d)][q]

HoldsName(d, q, name, z) ==
  /\ Says(d, q).said
  /\ Says(d, q).labels = name
  /\ Says(d, q).behind = z
  /\ Says(d, q).pointers <= MaxJumps

HoldsCells(d, q, cells, z) == q <= z /\ z <= Len(d) /\ cells = SubSeq(d, q + 1, z)

HoldsText(d, q, text, z) ==
  /\ q < Len(d) /\ z = q + 1 + d[q + 1] /\ z <= Len(d)
  /\ text = FromUtf8Lossy(SubSeq(d, q + 2, z))

IsSequence(s) == Len(s) \in Nat /\ s = [i \in 1..Len(s) |-> s[i]]

\* The names and texts of record data, one behind the other, begin at the positions
\* l.names and l.texts, and the fields behind the owner's name at l.fixed.
HoldsRecord(d, q, r, z, l) ==
  LET rest == l.names[Len(r.rdata.names)]
  IN  /\ r = [name |-> r.name, type |-> r.type, class |-> r.class, ttl |-> r.ttl,
              rdata |-> [head |-> r.rdata.head, names |-> r.rdata.names,
                         rest |-> r.rdata.rest]]
      /\ HoldsName(d, q, r.name, l.fixed)
      /\ l.fixed + RecordSize <= z /\ z <= Len(d)
      /\ HoldsCells(d, l.fixed, <<r.type, r.class, r.ttl, z - (l.fixed + RecordSize)>>,
                    l.fixed + RecordSize)
      /\ LengthOk(r.type, z - (l.fixed + RecordSize))
      /\ l.names \in [0..Len(r.rdata.names) -> 0..z]
      /\ HoldsCells(d, l.fixed + RecordSize, r.rdata.head, l.names[0])
      /\ Len(r.rdata.head) = HeadSize(r.type)
      /\ IsSequence(r.rdata.names) /\ Len(r.rdata.names) = NameCount(r.type)
      /\ \A i \in 1..Len(r.rdata.names) :
           HoldsName(d, l.names[i - 1], r.rdata.names[i], l.names[i])
      /\ Rest(r.type) = "skip" => r.rdata.rest = <<>>
      /\ Rest(r.type) = "soa" => z = rest + SoaSize
      /\ IF Rest(r.type) = "texts"
         THEN /\ IsSequence(r.rdata.rest)
              /\ l.texts \in [0..Len(r.rdata.rest) -> rest..z]
              /\ l.texts[0] = rest /\ l.texts[Len(r.rdata.rest)] = z
              /\ \A i \in 1..Len(r.rdata.rest) :
                   HoldsText(d, l.texts[i - 1], r.rdata.rest[i], l.texts[i])
         ELSE HoldsCells(d, rest, r.rdata.rest, z)

HoldsQuestion(d, q, item, z) ==
  /\ item = [name |-> item.name, type |-> item.type, class |-> item.class]
  /\ z - QuestionSize \in Nat
  /\ HoldsName(d, q, item.name, z - QuestionSize)
  /\ HoldsCells(d, z - QuestionSize, <<item.type, item.class>>, z)

\* at tells where the items of each section begin, and where the last one ends;
\* layouts, the layout of each record.
HoldsMessage(d, m, at, layouts) ==
  /\ m = [header |-> m.header, sections |-> m.sections]
  /\ HeaderSize <= Len(d)
  /\ m.header = ReadHeader(d[1], d[2], d[3])
  /\ IsSequence(m.sections) /\ Len(m.sections) = 4
  /\ at[1][0] = HeaderSize /\ at[4][Len(m.sections[4])] = Len(d)
  /\ \A s \in 1..3 : at[s + 1][0] = at[s][Len(m.sections[s])]
  /\ \A s \in 1..4 :
       /\ IsSequence(m.sections[s]) /\ Len(m.sections[s]) = d[s + 3]
       /\ at[s] \in [0..Len(m.sections[s]) -> Nat]
       /\ \A i \in 1..Len(m.sections[s]) :
            IF s = 1
            THEN HoldsQuestion(d, at[s][i - 1], m.sections[s][i], at[s][i])
            ELSE HoldsRecord(d, at[s][i - 1], m.sections[s][i], at[s][i], layouts[s][i])

Holds(d, m) == \E at, layouts : HoldsMessage(d, m, at, layouts)

\* The messages that are said to be known are those the cells were written from.
SentAsKnown ==
  \A i \in Inputs : i.sent.known =>
    \E w \in Seq(Cell) :
      /\ Holds(w, i.sent.msg)
      /\ IF i.sent.whole THEN i.data = w ELSE IsStrictPrefix(i.data, w)

-----------------------------------------------------------------------------
\* Nothing a length byte cannot say: a label or text that is not UTF-8 grows, and
\* so does what was compressed.
LabelsFit(name) == \A j \in DOMAIN name : Len(Utf8(name[j])) < 192

RecordFits(r) ==
  /\ LabelsFit(r.name)
  /\ \A n \in DOMAIN r.rdata.names : LabelsFit(r.rdata.names[n])
  /\ Rest(r.type) = "texts" => \A n \in DOMAIN r.rdata.rest : Len(Utf8(r.rdata.rest[n])) < 256
  /\ Len(RDataBytes(<<>>, r.type, r.rdata)) < 256

Writable(m) ==
  \A s \in 1..4 : \A i \in DOMAIN m.sections[s] :
    IF s = 1 THEN LabelsFit(m.sections[s][i].name) ELSE RecordFits(m.sections[s][i])

\* A message, compressed or not, is read as it was sent (message.rs, record.rs,
\* rdata.rs), and what serialize writes of what was read from any bytes is read back
\* as it was, if it could be written.
RoundTrip ==
  sent.known /\ sent.whole /\ (sent.reply => Writable(sent.msg)) =>
    /\ pc \notin {"failed", "panicked"}
    /\ pc = "done" => Message = sent.msg /\ offset = Len(data)

\* Of a message that was cut, the sections before the cut are whole and the one
\* with the cut has the records before it (message.rs): a record that does not
\* parse takes none with it, and nothing is read that was not sent - up to there.
\* What is read behind the cut may be anything, and end as OnlySlicesPanic says.
UpToTheBreak ==
  sent.known /\ ~sent.whole /\ ~sent.reply /\ pc \in {"done", "panicked"} =>
    \E b \in 2..4 :
      /\ \A s \in 1..b - 1 : sections[s] = sent.msg.sections[s]
      /\ IsStrictPrefix(sections[b], sent.msg.sections[b])
=============================================================================
