--------------------------- MODULE ReceivedProofs ---------------------------
(***************************************************************************)
(* Theorems about Received, and with it about WireReply and Dnssec: what is *)
(* written is read back, a message that was cut is read up to the cut, and   *)
(* what validation says of a response is founded in its signatures.        *)
(*                                                                         *)
(* First, that the parser keeps in step with a message that the cells hold  *)
(* (ReadAsWritten).  Then, that what serialize writes of a message holds it *)
(* (WrittenHolds), if it is one like those parse makes (ReadTyped), which    *)
(* makes the reply one of them.  Then the validation; at the end, the three *)
(* together.                                                               *)
(***************************************************************************)
EXTENDS Received, WireProofs, FunctionTheorems

-----------------------------------------------------------------------------
(***************************************************************************)
(* Sequences that are the first part of others.                            *)
(***************************************************************************)
IsPart(s, t) == Len(s) \in 0..Len(t) /\ s = [i \in 1..Len(s) |-> t[i]]

\* What is told by its length and its elements is a sequence, of these elements.
LEMMA SequenceIsSeq ==
  ASSUME NEW s, IsSequence(s)
  PROVE  /\ s \in Seq({s[i] : i \in 1..Len(s)})
         /\ IsSeq(s) /\ Len(s) \in Nat /\ DOMAIN s = 1..Len(s)
<1> DEFINE S == {s[i] : i \in 1..Len(s)}
<1>1. Len(s) \in Nat /\ s = [i \in 1..Len(s) |-> s[i]]
  BY DEF IsSequence
<1>2. [i \in 1..Len(s) |-> s[i]] \in [1..Len(s) -> S]
  OBVIOUS
<1>3. s \in [1..Len(s) -> S]
  BY <1>1, <1>2
<1>4. s \in Seq(S)
  <2> HIDE DEF S
  <2> QED BY <1>1, <1>3
<1> QED
  BY <1>1, <1>3, <1>4 DEF IsSeq

LEMMA SeqIsSequence ==
  ASSUME NEW S, NEW s \in Seq(S)
  PROVE  IsSequence(s)
<1>1. Len(s) \in Nat /\ s \in [1..Len(s) -> S]
  BY LenProperties
<1>2. s = [i \in 1..Len(s) |-> s[i]]
  BY <1>1
<1> QED
  BY <1>1, <1>2 DEF IsSequence

LEMMA PartIsSequence ==
  ASSUME NEW t, IsSequence(t), NEW s, IsPart(s, t)
  PROVE  /\ IsSequence(s) /\ Len(s) \in Nat /\ Len(s) <= Len(t) /\ Len(t) \in Nat
         /\ \A i \in 1..Len(s) : s[i] = t[i]
<1>1. Len(t) \in Nat
  BY DEF IsSequence
<1>2. Len(s) \in 0..Len(t) /\ s = [i \in 1..Len(s) |-> t[i]]
  BY DEF IsPart
<1>3. \A i \in 1..Len(s) : s[i] = t[i]
  BY <1>2
<1>4. s = [i \in 1..Len(s) |-> s[i]]
  BY <1>2, <1>3
<1> QED
  BY <1>1, <1>2, <1>3, <1>4 DEF IsSequence

LEMMA EmptyPart ==
  ASSUME NEW t, IsSequence(t)
  PROVE  IsPart(<<>>, t)
<1>1. Len(t) \in Nat /\ Len(<<>>) = 0
  BY EmptyIsSeq DEF IsSequence
<1>2. <<>> = [i \in 1..0 |-> t[i]]
  OBVIOUS
<1> QED
  BY <1>1, <1>2 DEF IsPart

LEMMA PartGrows ==
  ASSUME NEW t, IsSequence(t), NEW s, IsPart(s, t), Len(s) # Len(t),
         NEW e, e = t[Len(s) + 1]
  PROVE  IsPart(Append(s, e), t) /\ Len(Append(s, e)) = Len(s) + 1
<1>1. /\ IsSequence(s) /\ Len(s) \in Nat /\ Len(t) \in Nat /\ Len(s) <= Len(t)
      /\ \A i \in 1..Len(s) : s[i] = t[i]
  BY PartIsSequence
<1> DEFINE S == {s[i] : i \in 1..Len(s)} \cup {e}
<1>2. s \in Seq(S) /\ e \in S
  <2>1. s \in [1..Len(s) -> S]
    BY <1>1 DEF IsSequence
  <2> HIDE DEF S
  <2>2. s \in Seq(S)
    BY <1>1, <2>1
  <2> QED BY <2>2 DEF S
<1> HIDE DEF S
<1> DEFINE a == Append(s, e)
<1>3. a \in Seq(S) /\ Len(a) = Len(s) + 1 /\ a[Len(s) + 1] = e
      /\ \A i \in 1..Len(s) : a[i] = s[i]
  BY <1>2, AppendProperties
<1>4. a = [i \in 1..Len(a) |-> a[i]]
  BY <1>3
<1> HIDE DEF a
<1>5. \A i \in 1..Len(a) : a[i] = t[i]
  BY <1>1, <1>3
<1>6. a = [i \in 1..Len(a) |-> t[i]]
  BY <1>4, <1>5
<1>7. Len(a) \in 0..Len(t)
  BY <1>1, <1>3
<1> QED
  BY <1>3, <1>6, <1>7 DEF IsPart, a

LEMMA WholePart ==
  ASSUME NEW t, IsSequence(t), NEW s, IsPart(s, t), Len(s) = Len(t)
  PROVE  s = t
BY DEF IsSequence, IsPart

\* A part that is shorter is a strict prefix.
LEMMA ShorterPart ==
  ASSUME NEW t, IsSequence(t), NEW s, IsPart(s, t), Len(s) # Len(t)
  PROVE  IsStrictPrefix(s, t)
<1>1. /\ IsSequence(s) /\ Len(s) \in Nat /\ Len(t) \in Nat /\ Len(s) <= Len(t)
      /\ \A i \in 1..Len(s) : s[i] = t[i]
  BY PartIsSequence
<1>2. SubSeq(s, 1, Len(s)) = SubSeq(t, 1, Len(s))
  <2>1. /\ SubSeq(s, 1, Len(s)) = [i \in 1..Len(s) |-> s[i]]
        /\ SubSeq(t, 1, Len(s)) = [i \in 1..Len(s) |-> t[i]]
    <3>1. s \in Seq({s[i] : i \in 1..Len(s)}) /\ t \in Seq({t[i] : i \in 1..Len(t)})
      BY <1>1, SequenceIsSeq
    <3>2. /\ \A i \in 1..Len(s) : s[i] \in {s[j] : j \in 1..Len(s)}
          /\ \A i \in 1..Len(s) : t[i] \in {t[j] : j \in 1..Len(t)}
      BY <1>1
    <3> QED BY <1>1, <3>1, <3>2, SubSeqProperties
  <2> QED BY <1>1, <2>1
<1> QED
  BY <1>1, <1>2 DEF IsStrictPrefix, IsPrefix

-----------------------------------------------------------------------------
(***************************************************************************)
(* A message d and one, w, that it is the beginning of: what a name says in *)
(* d, it says in w.                                                        *)
(***************************************************************************)
Begins(d, w) == Len(d) <= Len(w) /\ \A i \in 1..Len(d) : d[i] = w[i]

LEMMA BeginsSame ==
  ASSUME NEW d \in Seq(Cell), NEW w \in Seq(Cell), Begins(d, w)
  PROVE  /\ Len(d) \in Nat /\ Len(w) \in Nat /\ Len(d) <= Len(w)
         /\ \A i \in Nat : i < Len(d) => d[i + 1] = w[i + 1]
         /\ \A i, j \in Nat : j <= Len(d) => SubSeq(d, i + 1, j) = SubSeq(w, i + 1, j)
         /\ Len(d) = Len(w) => d = w
<1>1. Len(d) \in Nat /\ Len(w) \in Nat /\ Len(d) <= Len(w)
  BY DEF Begins
<1>2. ASSUME NEW i \in Nat, i < Len(d) PROVE d[i + 1] = w[i + 1]
  <2>1. i + 1 \in 1..Len(d)
    BY <1>1, <1>2
  <2> QED
    BY <2>1 DEF Begins
<1>3. ASSUME NEW i \in Nat, NEW j \in Nat, j <= Len(d)
      PROVE  SubSeq(d, i + 1, j) = SubSeq(w, i + 1, j)
  <2>1. \A k \in i + 1..j : d[k] = w[k] /\ d[k] \in Cell /\ w[k] \in Cell
    <3>1. \A k \in i + 1..j : k \in 1..Len(d) /\ k \in 1..Len(w)
      BY <1>1, <1>3
    <3> QED
      BY <3>1, ElementOfSeq DEF Begins
  <2> DEFINE u == SubSeq(d, i + 1, j)
             v == SubSeq(w, i + 1, j)
  <2>2. /\ u \in Seq(Cell) /\ v \in Seq(Cell) /\ Len(u) = Len(v)
        /\ \A k \in 1..j - (i + 1) + 1 : u[k] = d[i + 1 + k - 1] /\ v[k] = w[i + 1 + k - 1]
        /\ Len(u) = IF i + 1 <= j THEN j - (i + 1) + 1 ELSE 0
    <3>1. i + 1 \in Int /\ j \in Int
      OBVIOUS
    <3> HIDE DEF u, v
    <3>2. /\ \A k \in i + 1..j : d[k] \in Cell
          /\ \A k \in i + 1..j : w[k] \in Cell
      BY <2>1
    <3> QED
      BY <3>1, <3>2, SubSeqProperties DEF u, v
  <2> HIDE DEF u, v
  <2>3. \A k \in 1..Len(u) : u[k] = v[k]
    <3> SUFFICES ASSUME NEW k \in 1..Len(u) PROVE u[k] = v[k]
      OBVIOUS
    <3>1. k \in 1..j - (i + 1) + 1 /\ i + 1 + k - 1 \in i + 1..j
      BY <1>1, <2>2
    <3> QED
      BY <2>1, <2>2, <3>1
  <2>4. u = v
    BY <2>2, <2>3, SeqEqual
  <2> QED
    BY <2>4 DEF u, v
<1>4. Len(d) = Len(w) => d = w
  BY SeqEqual DEF Begins
<1> QED
  BY <1>1, <1>2, <1>3, <1>4

LEMMA PrefixBegins ==
  ASSUME NEW d \in Seq(Cell), NEW w \in Seq(Cell), IsStrictPrefix(d, w)
  PROVE  Begins(d, w) /\ Len(d) # Len(w)
<1>1. Len(d) \in Nat /\ Len(w) \in Nat /\ Len(d) <= Len(w)
  BY DEF IsStrictPrefix, IsPrefix
<1>2. SubSeq(d, 1, Len(d)) = SubSeq(w, 1, Len(d)) /\ d # w
  BY DEF IsStrictPrefix, IsPrefix
<1>3. /\ \A i \in 1..Len(d) : d[i] \in Cell
      /\ \A i \in 1..Len(d) : w[i] \in Cell
  <2>1. \A i \in 1..Len(d) : i \in 1..Len(w)
    BY <1>1
  <2> QED BY <2>1, ElementOfSeq
<1> DEFINE n == Len(d)
<1>4. /\ \A i \in 1..n - 1 + 1 : SubSeq(d, 1, n)[i] = d[1 + i - 1]
      /\ \A i \in 1..n - 1 + 1 : SubSeq(w, 1, n)[i] = w[1 + i - 1]
  <2>1. 1 \in Int /\ n \in Int
    BY <1>1
  <2> HIDE DEF n
  <2>2. /\ \A i \in 1..n : d[i] \in Cell
        /\ \A i \in 1..n : w[i] \in Cell
    BY <1>3 DEF n
  <2> QED BY <2>1, <2>2, SubSeqProperties
<1>5. \A i \in 1..n : d[i] = w[i]
  <2> SUFFICES ASSUME NEW i \in 1..n PROVE d[i] = w[i]
    OBVIOUS
  <2>1. i \in 1..n - 1 + 1 /\ 1 + i - 1 = i
    BY <1>1
  <2> QED BY <1>2, <1>4, <2>1
<1>6. Begins(d, w)
  BY <1>1, <1>5 DEF Begins
<1> QED
  BY <1>2, <1>6, BeginsSame

LEMMA SaidInBoth ==
  ASSUME NEW d \in Seq(Cell), NEW w \in Seq(Cell), Begins(d, w), NEW q \in Nat
  PROVE  /\ AtZero(d, q) => AtZero(w, q)
         /\ AtJump(d, q) => AtJump(w, q) /\ Target(w, q) = Target(d, q)
         /\ AtText(d, q) => /\ AtText(w, q) /\ AfterLabel(w, q) = AfterLabel(d, q)
                            /\ LabelAt(w, q) = LabelAt(d, q)
<1>1. /\ Len(d) \in Nat /\ Len(w) \in Nat /\ Len(d) <= Len(w)
      /\ \A i \in Nat : i < Len(d) => d[i + 1] = w[i + 1]
      /\ \A i, j \in Nat : j <= Len(d) => SubSeq(d, i + 1, j) = SubSeq(w, i + 1, j)
  BY BeginsSame
<1>2. q < Len(d) => d[q + 1] = w[q + 1]
  BY <1>1
<1>3. AtZero(d, q) => AtZero(w, q)
  BY <1>1, <1>2 DEF AtZero
<1>4. ASSUME AtJump(d, q) PROVE AtJump(w, q) /\ Target(w, q) = Target(d, q)
  <2>1. q < Len(d) /\ q + 1 < Len(d) /\ q + 1 \in Nat /\ (q + 1) + 1 = q + 2
    BY <1>1, <1>4 DEF AtJump
  <2>2. d[q + 1] = w[q + 1] /\ d[q + 2] = w[q + 2]
    BY <1>1, <2>1
  <2> QED
    BY <1>1, <1>4, <2>1, <2>2 DEF AtJump, Target
<1>5. ASSUME AtText(d, q)
      PROVE  /\ AtText(w, q) /\ AfterLabel(w, q) = AfterLabel(d, q)
             /\ LabelAt(w, q) = LabelAt(d, q)
  <2> DEFINE b == d[q + 1]
  <2>1. w[q + 1] = b /\ b \in 1..191 /\ q < Len(d) /\ q + 1 + b <= Len(d)
    BY <1>2, <1>5 DEF AtText
  <2> HIDE DEF b
  <2>2. AtText(w, q)
    <3>1. q < Len(w) /\ q + 1 + b <= Len(w)
      BY <1>1, <2>1
    <3> QED BY <2>1, <3>1 DEF AtText
  <2>3. /\ AfterLabel(w, q) = AfterLabel(d, q) /\ AfterLabel(d, q) \in Nat
        /\ AfterLabel(d, q) <= Len(d)
    <3>1. q + 1 + b \in Nat
      BY <2>1
    <3> QED BY <2>1, <3>1 DEF AfterLabel, b
  <2>4. SubSeq(d, q + 2, AfterLabel(d, q)) = SubSeq(w, q + 2, AfterLabel(w, q))
    <3>1. q + 1 \in Nat /\ (q + 1) + 1 = q + 2
      OBVIOUS
    <3> QED BY <1>1, <2>3, <3>1
  <2> QED
    BY <2>2, <2>3, <2>4 DEF LabelAt
<1> QED
  BY <1>3, <1>4, <1>5

LEMMA ReadInBoth ==
  ASSUME NEW d \in Seq(Cell), NEW w \in Seq(Cell), Begins(d, w), NEW n \in Nat,
         NEW q \in Nat, ReadBy(d, n, q).said
  PROVE  ReadBy(w, n, q) = ReadBy(d, n, q)
<1> DEFINE Same == {i \in Nat : \A t \in Nat : ReadBy(d, i, t).said
                                                => ReadBy(w, i, t) = ReadBy(d, i, t)}
<1>1. 0 \in Same
  BY ReadByTyped
<1>2. ASSUME NEW i \in Nat, i \in Same PROVE i + 1 \in Same
  <2> SUFFICES ASSUME NEW t \in Nat, ReadBy(d, i + 1, t).said
               PROVE  ReadBy(w, i + 1, t) = ReadBy(d, i + 1, t)
    OBVIOUS
  <2>1. \A u \in Nat : ReadBy(d, i, u).said => ReadBy(w, i, u) = ReadBy(d, i, u)
    BY <1>2
  <2>2. CASE AtZero(d, t)
    BY <2>2, SaidInBoth, ReadAtZero
  <2>3. CASE AtJump(d, t)
    <3>1. /\ Target(d, t) \in Nat
          /\ ReadBy(d, i + 1, t) = WithPointer(ReadBy(d, i, Target(d, t)), t + 2)
          /\ ReadBy(d, i, Target(d, t)).said
      BY <2>3, ReadAtJump, SaidBehind
    <3>2. ReadBy(w, i + 1, t) = WithPointer(ReadBy(w, i, Target(d, t)), t + 2)
      BY <2>3, SaidInBoth, ReadAtJump
    <3>3. ReadBy(w, i, Target(d, t)) = ReadBy(d, i, Target(d, t))
      BY <2>1, <3>1
    <3> QED
      BY <3>1, <3>2, <3>3
  <2>4. CASE AtText(d, t)
    <3>1. /\ AfterLabel(d, t) \in Nat
          /\ ReadBy(d, i + 1, t) = WithLabel(LabelAt(d, t), ReadBy(d, i, AfterLabel(d, t)))
          /\ ReadBy(d, i, AfterLabel(d, t)).said
      BY <2>4, ReadAtText, SaidBehind
    <3>2. ReadBy(w, i + 1, t) = WithLabel(LabelAt(d, t), ReadBy(w, i, AfterLabel(d, t)))
      BY <2>4, SaidInBoth, ReadAtText
    <3>3. ReadBy(w, i, AfterLabel(d, t)) = ReadBy(d, i, AfterLabel(d, t))
      BY <2>1, <3>1
    <3> QED
      BY <3>1, <3>2, <3>3
  <2> QED
    BY <2>2, <2>3, <2>4, SaidBehind
<1>3. n \in Same
  <2> HIDE DEF Same
  <2> QED BY <1>1, <1>2, AllNaturals
<1> QED
  BY <1>3

LEMMA SaysInBoth ==
  ASSUME NEW d \in Seq(Cell), NEW w \in Seq(Cell), Begins(d, w),
         NEW q \in Nat, Says(d, q).said
  PROVE  Says(w, q) = Says(d, q)
<1>1. Len(d) \in Nat
  OBVIOUS
<1>2. ReadBy(d, Len(d), q).said
  BY DEF Says, ReadBy
<1>3. ReadBy(w, Len(d), q) = ReadBy(d, Len(d), q)
  BY <1>1, <1>2, ReadInBoth
<1>4. ReadBy(w, Len(w), q) = ReadBy(w, Len(d), q)
  BY <1>1, <1>2, <1>3, AllIsRead
<1> QED
  BY <1>3, <1>4 DEF Says, ReadBy

LEMMA SaysTyped ==
  ASSUME NEW d \in Seq(Cell), NEW q \in Nat
  PROVE  Says(d, q) \in NameReading
<1>1. Len(d) \in Nat
  OBVIOUS
<1> QED
  BY <1>1, ReadByTyped DEF Says, ReadBy

-----------------------------------------------------------------------------
(***************************************************************************)
(* Facts about a message m that the cells w hold.                          *)
(***************************************************************************)
LEMMA SliceOf ==
  ASSUME NEW S, NEW w \in Seq(S), NEW q \in Nat, NEW z \in Nat, q <= z, z <= Len(w)
  PROVE  LET u == SubSeq(w, q + 1, z)
         IN  /\ u \in Seq(S) /\ Len(u) = z - q
             /\ \A i \in 1..z - q : u[i] = w[q + i] /\ u[i] \in S
<1> DEFINE u == SubSeq(w, q + 1, z)
<1>1. \A i \in q + 1..z : w[i] \in S
  <2>1. Len(w) \in Nat
    OBVIOUS
  <2>2. \A i \in q + 1..z : i \in 1..Len(w)
    BY <2>1
  <2> QED BY <2>2, ElementOfSeq
<1>2. /\ u \in Seq(S)
      /\ Len(u) = IF q + 1 <= z THEN z - (q + 1) + 1 ELSE 0
      /\ \A i \in 1..z - (q + 1) + 1 : u[i] = w[q + 1 + i - 1]
  <2>1. q + 1 \in Int /\ z \in Int
    OBVIOUS
  <2> HIDE DEF u
  <2> QED BY <1>1, <2>1, SubSeqProperties DEF u
<1> HIDE DEF u
<1>3. Len(u) = z - q
  BY <1>2
<1>4. ASSUME NEW i \in 1..z - q PROVE u[i] = w[q + i] /\ u[i] \in S
  <2>1. i \in 1..z - (q + 1) + 1 /\ q + 1 + i - 1 = q + i /\ q + i \in q + 1..z
    OBVIOUS
  <2> QED BY <1>1, <1>2, <2>1
<1> QED
  BY <1>2, <1>3, <1>4 DEF u

LEMMA CellsHeld ==
  ASSUME NEW w \in Seq(Cell), NEW q \in Nat, NEW z \in Nat, NEW cells,
         HoldsCells(w, q, cells, z)
  PROVE  /\ cells \in Seq(Cell) /\ Len(cells) = z - q /\ q <= z /\ z <= Len(w)
         /\ Len(w) \in Nat
         /\ \A i \in 1..z - q : cells[i] = w[q + i] /\ cells[i] \in Cell
<1>1. q <= z /\ z <= Len(w) /\ cells = SubSeq(w, q + 1, z) /\ Len(w) \in Nat
  BY DEF HoldsCells
<1> QED
  BY <1>1, SliceOf

LEMMA NameHeld ==
  ASSUME NEW w \in Seq(Cell), NEW q \in Nat, NEW name, NEW z, HoldsName(w, q, name, z)
  PROVE  name \in Seq(Labels) /\ z \in Nat
BY SaysTyped DEF HoldsName, NameReading

\* The fields of a record, which the parser keeps in fixed.
FieldsOf(w, l) == SubSeq(w, l.fixed + 1, l.names[0])

LEMMA RecordHeld ==
  ASSUME NEW w \in Seq(Cell), NEW q \in Nat, NEW z \in Nat, NEW r, NEW l,
         HoldsRecord(w, q, r, z, l)
  PROVE  /\ l.fixed \in Nat /\ l.fixed + RecordSize <= z /\ z <= Len(w) /\ Len(w) \in Nat
         /\ w[l.fixed + 1] = r.type /\ w[l.fixed + 2] = r.class /\ w[l.fixed + 3] = r.ttl
         /\ w[l.fixed + RecordSize] = z - (l.fixed + RecordSize)
         /\ r.type \in Cell /\ r.class \in Cell /\ r.ttl \in Cell
         /\ HeadSize(r.type) \in Nat
         /\ l.names[0] = l.fixed + RecordSize + HeadSize(r.type)
         /\ l.names[0] \in Nat /\ l.names[0] <= z
         /\ \A i \in 0..Len(r.rdata.names) : l.names[i] \in Nat /\ l.names[i] <= z
         /\ Len(r.rdata.names) = NameCount(r.type) /\ NameCount(r.type) \in 0..2
         /\ IsSequence(r.rdata.names)
         /\ r.rdata.head = SubSeq(w, l.fixed + RecordSize + 1, l.names[0])
<1> USE DEF RecordSize
<1> DEFINE f == l.fixed
           four == <<r.type, r.class, r.ttl, z - (f + 4)>>
<1>1. f \in Nat /\ f + 4 <= z /\ z <= Len(w) /\ Len(w) \in Nat
  BY NameHeld DEF HoldsRecord
<1>2. HoldsCells(w, f, four, f + 4)
  BY DEF HoldsRecord
<1>3. \A i \in 1..4 : four[i] = w[f + i] /\ four[i] \in Cell
  <2>1. f + 4 \in Nat /\ (f + 4) - f = 4
    BY <1>1
  <2> HIDE DEF four, f
  <2>2. \A i \in 1..(f + 4) - f : four[i] = w[f + i] /\ four[i] \in Cell
    BY <1>1, <1>2, <2>1, CellsHeld
  <2> QED BY <2>1, <2>2
<1>4. /\ w[f + 1] = r.type /\ w[f + 2] = r.class /\ w[f + 3] = r.ttl
      /\ w[f + 4] = z - (f + 4)
      /\ r.type \in Cell /\ r.class \in Cell /\ r.ttl \in Cell
  <2>1. four[1] = r.type /\ four[2] = r.class /\ four[3] = r.ttl /\ four[4] = z - (f + 4)
    OBVIOUS
  <2>2. 1 \in 1..4 /\ 2 \in 1..4 /\ 3 \in 1..4 /\ 4 \in 1..4
    OBVIOUS
  <2> HIDE DEF four, f
  <2> QED BY <1>3, <2>1, <2>2
<1>5. /\ l.names \in [0..Len(r.rdata.names) -> 0..z]
      /\ Len(r.rdata.names) = NameCount(r.type) /\ IsSequence(r.rdata.names)
      /\ HoldsCells(w, f + 4, r.rdata.head, l.names[0])
      /\ Len(r.rdata.head) = HeadSize(r.type)
  BY DEF HoldsRecord
<1>6. NameCount(r.type) \in 0..2
  BY NameCountProperties
<1>7. \A i \in 0..Len(r.rdata.names) : l.names[i] \in Nat /\ l.names[i] <= z
  BY <1>5
<1>8. l.names[0] \in Nat /\ l.names[0] <= z
  BY <1>5, <1>6, <1>7
<1>9. HeadSize(r.type) \in Nat /\ l.names[0] = f + 4 + HeadSize(r.type)
  <2>1. f + 4 \in Nat
    BY <1>1
  <2> DEFINE n == l.names[0]
             h == HeadSize(r.type)
             head == r.rdata.head
  <2>2. HoldsCells(w, f + 4, head, n) /\ n \in Nat /\ Len(head) = h
    BY <1>5, <1>8
  <2> HIDE DEF head, n, h, f
  <2>3. h = n - (f + 4) /\ f + 4 <= n /\ n \in Nat /\ f \in Nat
    BY <1>1, <2>1, <2>2, CellsHeld
  <2> HIDE DEF n, h, f
  <2>4. h \in Nat /\ n = f + 4 + h
    BY <2>3
  <2> QED
    BY <2>4 DEF n, h
<1>10. r.rdata.head = SubSeq(w, f + 4 + 1, l.names[0])
  BY <1>5 DEF HoldsCells
<1> QED
  BY <1>1, <1>4, <1>5, <1>6, <1>7, <1>8, <1>9, <1>10

LEMMA FieldsHeld ==
  ASSUME NEW w \in Seq(Cell), NEW q \in Nat, NEW z \in Nat, NEW r, NEW l,
         HoldsRecord(w, q, r, z, l)
  PROVE  LET fields == FieldsOf(w, l)
         IN  /\ Len(fields) = RecordSize + HeadSize(r.type)
             /\ fields[1] = r.type /\ fields[2] = r.class /\ fields[3] = r.ttl
             /\ SubSeq(fields, RecordSize + 1, Len(fields)) = r.rdata.head
<1> USE DEF RecordSize
<1> DEFINE f == l.fixed
           n == l.names[0]
           h == HeadSize(r.type)
           fields == FieldsOf(w, l)
           head == SubSeq(w, f + 4 + 1, n)
<1>1. /\ f \in Nat /\ n \in Nat /\ h \in Nat /\ n = f + 4 + h /\ n <= Len(w) /\ Len(w) \in Nat
      /\ w[f + 1] = r.type /\ w[f + 2] = r.class /\ w[f + 3] = r.ttl
  <2>1. /\ f \in Nat /\ n \in Nat /\ h \in Nat /\ n = f + 4 + h
        /\ n <= z /\ z <= Len(w) /\ Len(w) \in Nat
    BY RecordHeld
  <2>2. w[f + 1] = r.type /\ w[f + 2] = r.class /\ w[f + 3] = r.ttl
    BY RecordHeld
  <2> HIDE DEF f, n, h
  <2> QED BY <2>1, <2>2
<1>2. fields = SubSeq(w, f + 1, n)
  BY DEF FieldsOf
<1>3. r.rdata.head = head
  BY RecordHeld
<1> HIDE DEF f, n, h, fields
<1>4. /\ fields \in Seq(Cell) /\ Len(fields) = 4 + h
      /\ \A i \in 1..4 + h : fields[i] = w[f + i]
  <2>1. f <= n /\ n - f = 4 + h
    BY <1>1
  <2> QED BY SMTT(30), <1>1, <1>2, <2>1, SliceOf
<1>5. fields[1] = r.type /\ fields[2] = r.class /\ fields[3] = r.ttl
  <2>1. 1 \in 1..4 + h /\ 2 \in 1..4 + h /\ 3 \in 1..4 + h
    BY <1>1
  <2> QED BY <1>1, <1>4, <2>1
<1>6. SubSeq(fields, 5, 4 + h) = head
  <2> DEFINE u == SubSeq(fields, 4 + 1, 4 + h)
  <2>1. u \in Seq(Cell) /\ Len(u) = h /\ \A i \in 1..h : u[i] = fields[4 + i]
    <3>1. 4 \in Nat /\ 4 + h \in Nat /\ 4 <= 4 + h /\ 4 + h <= Len(fields) /\ (4 + h) - 4 = h
      BY <1>1, <1>4
    <3> HIDE DEF u
    <3> QED BY <1>4, <3>1, SliceOf DEF u
  <2>2. head \in Seq(Cell) /\ Len(head) = h /\ \A i \in 1..h : head[i] = w[(f + 4) + i]
    <3>1. f + 4 \in Nat /\ f + 4 <= n /\ n - (f + 4) = h
      BY <1>1
    <3> QED BY <1>1, <3>1, SliceOf
  <2> HIDE DEF u, head
  <2>3. ASSUME NEW i \in 1..h PROVE u[i] = head[i]
    <3>1. 4 + i \in 1..4 + h /\ (f + 4) + i = f + (4 + i)
      BY <1>1
    <3> QED BY <1>4, <2>1, <2>2, <3>1
  <2>4. u = head
    BY <2>1, <2>2, <2>3, SeqEqual
  <2>5. 4 + 1 = 5
    OBVIOUS
  <2> QED BY <2>4, <2>5 DEF u
<1>7. SubSeq(fields, 4 + 1, Len(fields)) = r.rdata.head
  <2> HIDE DEF head
  <2>1. 4 + 1 = 5
    OBVIOUS
  <2> QED BY <1>3, <1>4, <1>6, <2>1
<1> QED
  BY <1>4, <1>5, <1>7 DEF h, fields

-----------------------------------------------------------------------------
(***************************************************************************)
(* The parser in step with the message m that the cells w hold, of which    *)
(* the data is the beginning: at item Here, which begins at Start and ends   *)
(* at Stop, and is laid out as Laid says.                                   *)
(***************************************************************************)
Here(m) == m.sections[sec][Len(sections[sec]) + 1]
Start(at) == at[sec][Len(sections[sec])]
Stop(at) == at[sec][Len(sections[sec]) + 1]
Laid(layouts) == layouts[sec][Len(sections[sec]) + 1]

\* The names of a record in the order they are read.
NamesOf(r) ==
  [i \in 1..Len(r.rdata.names) + 1 |-> IF i = 1 THEN r.name ELSE r.rdata.names[i - 1]]

\* The sections before this one are whole, those after it empty.
SectionsFollow(m) ==
  /\ sections = [s \in 1..4 |-> sections[s]]
  /\ \A s \in 1..4 : IsPart(sections[s], m.sections[s])
  /\ \A s \in 1..sec - 1 : Len(sections[s]) = Len(m.sections[s])
  /\ \A s \in sec + 1..4 : sections[s] = <<>>

CountsFollow(m) ==
  /\ header = m.header
  /\ \A s \in 1..4 : counts[s] = Len(m.sections[s])
  /\ left = Len(m.sections[sec]) - Len(sections[sec])

RecordFollows(w, r, z, l) ==
  /\ sec > 1
  /\ fixed = FieldsOf(w, l)
  /\ end = z /\ z <= Len(data)
  /\ IsPart(names, NamesOf(r)) /\ Len(names) > 0
  /\ pc = "rdata" => offset = l.names[Len(names) - 1]
  /\ pc = "name" => from = l.names[Len(names) - 1]
  /\ pc = "texts" => /\ Rest(r.type) = "texts"
                     /\ Len(names) = Len(NamesOf(r))
                     /\ IsPart(parts, r.rdata.rest)
                     /\ current = l.texts[Len(parts)]

PlaceFollows(w, m, at, layouts) ==
  /\ pc \in {"item", "done"} => offset = Start(at)
  /\ pc = "name" /\ Len(names) = 0 => from = Start(at)
  /\ pc = "fixed" => /\ names = <<Here(m).name>>
                     /\ offset = IF sec = 1 THEN Stop(at) - QuestionSize
                                 ELSE Laid(layouts).fixed
  /\ InRecord => RecordFollows(w, Here(m), Stop(at), Laid(layouts))

Follows(w, m, at, layouts) ==
  /\ Begins(data, w)
  /\ pc \notin {"failed", "panicked"}
  /\ SectionsFollow(m)
  /\ pc = "header" => offset = 0 /\ sec = 1 /\ sections = NoSections
  /\ pc # "header" => CountsFollow(m) /\ Start(at) <= Len(data)
  /\ pc = "done" => sec = 4 /\ left = 0
  /\ PlaceFollows(w, m, at, layouts)

\* Behind the break: section b has what there is of it.
BrokenAt(m, b) ==
  /\ sections = [s \in 1..4 |-> sections[s]]
  /\ \A s \in 1..b - 1 : sections[s] = m.sections[s]
  /\ IsPart(sections[b], m.sections[b]) /\ Len(sections[b]) # Len(m.sections[b])
  /\ sec > b \/ (sec = b /\ pc \in {"item", "done"} /\ left = 0)

Broken(w, m) ==
  /\ Begins(data, w) /\ Len(data) # Len(w)
  /\ pc = "failed" \/ \E b \in 2..4 : BrokenAt(m, b)

Known(w, m, at, layouts) == w \in Seq(Cell) /\ HoldsMessage(w, m, at, layouts)

-----------------------------------------------------------------------------
LEMMA MessageHeld ==
  ASSUME NEW w, NEW m, NEW at, NEW layouts, Known(w, m, at, layouts)
  PROVE  /\ w \in Seq(Cell) /\ HeaderSize <= Len(w) /\ Len(w) \in Nat
         /\ at[1][0] = HeaderSize /\ at[4][Len(m.sections[4])] = Len(w)
         /\ \A s \in 1..3 : at[s + 1][0] = at[s][Len(m.sections[s])]
         /\ \A s \in 1..4 : /\ IsSequence(m.sections[s]) /\ Len(m.sections[s]) \in Nat
                            /\ Len(m.sections[s]) = w[s + 3]
         /\ \A s \in 1..4 : \A i \in 0..Len(m.sections[s]) : at[s][i] \in Nat
<1>1. w \in Seq(Cell) /\ HoldsMessage(w, m, at, layouts) /\ Len(w) \in Nat
  BY DEF Known
<1>2. \A s \in 1..4 : /\ IsSequence(m.sections[s]) /\ Len(m.sections[s]) = w[s + 3]
                      /\ at[s] \in [0..Len(m.sections[s]) -> Nat]
  BY <1>1 DEF HoldsMessage
<1>3. \A s \in 1..4 : \A i \in 0..Len(m.sections[s]) : at[s][i] \in Nat
  BY <1>2
<1>4. \A s \in 1..4 : Len(m.sections[s]) \in Nat
  BY <1>2 DEF IsSequence
<1> QED
  BY <1>1, <1>2, <1>3, <1>4 DEF HoldsMessage

\* The item that is read, if there is one.
LEMMA ItemHeld ==
  ASSUME NEW w, NEW m, NEW at, NEW layouts, Known(w, m, at, layouts), IInv,
         Follows(w, m, at, layouts), pc # "header", left > 0
  PROVE  /\ Len(sections[sec]) \in Nat /\ Len(sections[sec]) # Len(m.sections[sec])
         /\ Start(at) \in Nat /\ Stop(at) \in Nat
         /\ sec = 1 => HoldsQuestion(w, Start(at), Here(m), Stop(at))
         /\ sec # 1 => HoldsRecord(w, Start(at), Here(m), Stop(at), Laid(layouts))
<1> DEFINE k == Len(sections[sec])
           n == Len(m.sections[sec])
<1>1. sec \in 1..4 /\ left \in Nat
  BY DEF IInv, TypeOK
<1>2. k \in 0..n /\ left = n - k /\ n \in Nat
  <2>1. IsPart(sections[sec], m.sections[sec]) /\ left = n - k
    BY <1>1 DEF Follows, SectionsFollow, CountsFollow
  <2>2. n \in Nat
    BY <1>1, MessageHeld
  <2> QED BY <2>1, <2>2 DEF IsPart
<1> HIDE DEF k, n
<1>3. k \in Nat /\ k # n /\ k \in 0..n /\ k + 1 \in 0..n /\ k + 1 \in 1..n /\ (k + 1) - 1 = k
  BY <1>2
<1>4. at[sec][k] \in Nat /\ at[sec][k + 1] \in Nat
  BY <1>1, <1>3, MessageHeld DEF n
<1>5. IF sec = 1 THEN HoldsQuestion(w, at[sec][(k + 1) - 1], m.sections[sec][k + 1], at[sec][k + 1])
      ELSE HoldsRecord(w, at[sec][(k + 1) - 1], m.sections[sec][k + 1], at[sec][k + 1],
                       layouts[sec][k + 1])
  BY <1>1, <1>3 DEF Known, HoldsMessage, n
<1>6. IF sec = 1 THEN HoldsQuestion(w, at[sec][k], m.sections[sec][k + 1], at[sec][k + 1])
      ELSE HoldsRecord(w, at[sec][k], m.sections[sec][k + 1], at[sec][k + 1],
                       layouts[sec][k + 1])
  BY <1>3, <1>5
<1> QED
  BY <1>3, <1>4, <1>6 DEF Start, Stop, Here, Laid, k, n

LEMMA NamesOfRecord ==
  ASSUME NEW r, IsSequence(r.rdata.names)
  PROVE  /\ IsSequence(NamesOf(r)) /\ Len(NamesOf(r)) = Len(r.rdata.names) + 1
         /\ NamesOf(r)[1] = r.name
         /\ \A i \in 1..Len(r.rdata.names) : NamesOf(r)[i + 1] = r.rdata.names[i]
         /\ Tail(NamesOf(r)) = r.rdata.names
<1> DEFINE n == Len(r.rdata.names)
           all == NamesOf(r)
           S == {r.name} \cup {r.rdata.names[i] : i \in 1..n}
<1>1. n \in Nat /\ r.rdata.names = [i \in 1..n |-> r.rdata.names[i]]
  BY DEF IsSequence
<1>2. all = [i \in 1..n + 1 |-> IF i = 1 THEN r.name ELSE r.rdata.names[i - 1]]
  BY DEF NamesOf
<1> HIDE DEF n, all
<1>3. all \in [1..n + 1 -> S]
  <2>1. \A i \in 1..n + 1 : i # 1 => i - 1 \in 1..n
    BY <1>1
  <2> QED BY <1>2, <2>1
<1>4. all \in Seq(S) /\ Len(all) = n + 1
  <2> HIDE DEF S
  <2>1. n + 1 \in Nat
    BY <1>1
  <2> QED BY <1>3, <2>1
<1>5. all[1] = r.name
  <2>1. 1 \in 1..n + 1
    BY <1>1
  <2> QED BY <1>2, <2>1
<1>6. \A i \in 1..n : all[i + 1] = r.rdata.names[i]
  <2> SUFFICES ASSUME NEW i \in 1..n PROVE all[i + 1] = r.rdata.names[i]
    OBVIOUS
  <2>1. i + 1 \in 1..n + 1 /\ i + 1 # 1 /\ (i + 1) - 1 = i
    BY <1>1
  <2> QED BY <1>2, <2>1
<1>7. IsSequence(all)
  <2> HIDE DEF S
  <2> QED BY <1>4, SeqIsSequence
<1>8. Tail(all) = r.rdata.names
  <2>1. all # <<>>
    BY <1>1, <1>4
  <2> HIDE DEF S
  <2>2. Tail(all) \in Seq(S) /\ Len(Tail(all)) = Len(all) - 1
        /\ \A i \in 1..Len(Tail(all)) : Tail(all)[i] = all[i + 1]
    BY <1>4, <2>1, HeadTailProperties
  <2>3. Len(Tail(all)) = n
    BY <1>1, <1>4, <2>2
  <2> DEFINE t == Tail(all)
  <2>4. IsSequence(t)
    BY <2>2, SeqIsSequence
  <2>5. Len(t) = n /\ \A i \in 1..n : t[i] = r.rdata.names[i]
    <3>1. \A i \in 1..n : t[i] = all[i + 1]
      BY <2>2, <2>3
    <3> QED BY <1>6, <2>3, <3>1
  <2> HIDE DEF t
  <2>6. t = [i \in 1..n |-> t[i]]
    BY <2>4, <2>5 DEF IsSequence
  <2>7. t = [i \in 1..n |-> r.rdata.names[i]]
    BY <2>5, <2>6
  <2> QED BY <1>1, <2>7 DEF t
<1> QED
  BY <1>4, <1>5, <1>6, <1>7, <1>8 DEF n, all

LEMMA NamesCount ==
  ASSUME NEW w \in Seq(Cell), NEW q \in Nat, NEW z \in Nat, NEW r, NEW l,
         HoldsRecord(w, q, r, z, l)
  PROVE  /\ IsSequence(NamesOf(r)) /\ Len(NamesOf(r)) = NameCount(r.type) + 1
         /\ NamesOf(r)[1] = r.name
         /\ \A i \in 1..NameCount(r.type) : NamesOf(r)[i + 1] = r.rdata.names[i]
         /\ Tail(NamesOf(r)) = r.rdata.names
BY RecordHeld, NamesOfRecord

-----------------------------------------------------------------------------
(***************************************************************************)
(* Every step of the parser keeps in step with the message, or is a break   *)
(* for which a message that was cut is the reason.                          *)
(***************************************************************************)
InStep(w, m, at, layouts) ==
  Known(w, m, at, layouts) /\ NInv /\ Follows(w, m, at, layouts)

GoesOnWith(w, m, at, layouts) == Follows(w, m, at, layouts)' \/ Broken(w, m)'

LEMMA FailBreaks ==
  ASSUME NEW w, NEW m, NEW at, NEW layouts, InStep(w, m, at, layouts),
         Fail, pc \in {"name", "fixed", "rdata", "texts"}, Len(data) # Len(w)
  PROVE  Broken(w, m)'
<1>1. Begins(data', w) /\ Len(data') # Len(w)
  BY DEF InStep, Follows, Fail, inputVars
<1>2. CASE sec = 1
  BY <1>1, <1>2 DEF Fail, Broken
<1>3. CASE sec # 1
  <2>1. sec \in 2..4 /\ left > 0
    BY <1>3 DEF InStep, NInv, IInv, TypeOK, ItemLeft
  <2>2. Len(sections[sec]) # Len(m.sections[sec])
    BY <2>1, ItemHeld DEF InStep, NInv
  <2>3. SectionsFollow(m) /\ CountsFollow(m)
    BY DEF InStep, Follows
  <2>4. sections' = sections /\ sec' = sec /\ pc' = "item" /\ left' = 0
    BY <1>3 DEF Fail, messageVars
  <2>5. ASSUME NEW s \in 1..sec - 1 PROVE sections[s] = m.sections[s]
    <3>1. s \in 1..4
      BY <2>1
    <3> QED BY <2>3, <3>1, MessageHeld, WholePart DEF SectionsFollow, InStep
  <2>6. /\ sections' = [s \in 1..4 |-> sections[s]']
        /\ \A s \in 1..sec - 1 : sections[s]' = m.sections[s]
        /\ IsPart(sections[sec]', m.sections[sec])
        /\ Len(sections[sec]') # Len(m.sections[sec])
    <3>1. /\ sections = [s \in 1..4 |-> sections[s]] /\ IsPart(sections[sec], m.sections[sec])
      BY <2>1, <2>3 DEF SectionsFollow
    <3> QED
      BY <2>2, <2>4, <2>5, <3>1
  <2>7. BrokenAt(m, sec)'
    BY <2>4, <2>6 DEF BrokenAt
  <2> QED
    BY <1>1, <2>1, <2>4, <2>7 DEF Broken
<1> QED
  BY <1>2, <1>3

LEMMA AcceptFollows ==
  ASSUME NEW w, NEW m, NEW at, NEW layouts, InStep(w, m, at, layouts),
         pc \in {"fixed", "rdata", "texts"}, Accept(Here(m)),
         offset' = Stop(at), Stop(at) <= Len(data)
  PROVE  Follows(w, m, at, layouts)'
<1> DEFINE t == m.sections[sec]
           s == sections[sec]
           u == Append(s, Here(m))
<1>1. sec \in 1..4 /\ left > 0 /\ left \in Nat
  BY DEF InStep, NInv, IInv, TypeOK, ItemLeft
<1>2. SectionsFollow(m) /\ CountsFollow(m) /\ Begins(data, w)
  BY DEF InStep, Follows
<1>3. Len(s) \in Nat /\ Len(s) # Len(t) /\ IsSequence(t) /\ Len(t) \in Nat
  BY <1>1, ItemHeld, MessageHeld DEF InStep, NInv
<1>4. IsPart(s, t) /\ sections = [i \in 1..4 |-> sections[i]] /\ left = Len(t) - Len(s)
  BY <1>1, <1>2 DEF SectionsFollow, CountsFollow
<1>5. IsPart(u, t) /\ Len(u) = Len(s) + 1
  BY <1>3, <1>4, PartGrows DEF Here
<1>6. /\ sections' = [sections EXCEPT ![sec] = u] /\ left' = left - 1 /\ pc' = "item"
      /\ sec' = sec /\ counts' = counts /\ header' = header /\ data' = data
  BY DEF Accept, inputVars
<1>7. /\ sections[sec]' = u
      /\ \A i \in 1..4 : i # sec => sections[i]' = sections[i]
      /\ sections' = [i \in 1..4 |-> sections[i]']
  <2> HIDE DEF u, s
  <2> QED BY <1>1, <1>4, <1>6
<1> HIDE DEF u
<1>8. SectionsFollow(m)'
  <2>0. \A i \in 1..4 : IsPart(sections[i], m.sections[i])
    BY <1>2 DEF SectionsFollow
  <2>1. \A i \in 1..4 : IsPart(sections[i]', m.sections[i])
    <3> SUFFICES ASSUME NEW i \in 1..4 PROVE IsPart(sections[i]', m.sections[i])
      OBVIOUS
    <3>1. CASE i = sec
      BY <1>5, <1>6, <1>7, <3>1
    <3>2. CASE i # sec
      <4>1. sections[i]' = sections[i]
        BY <1>7, <3>2
      <4> QED BY <2>0, <4>1
    <3> QED BY <3>1, <3>2
  <2>2. \A i \in 1..sec - 1 : i \in 1..4 /\ i # sec
    BY <1>1
  <2>3. \A i \in sec + 1..4 : i \in 1..4 /\ i # sec
    BY <1>1
  <2>4. \A i \in 1..sec - 1 : Len(sections[i]') = Len(m.sections[i])
    BY <1>2, <1>7, <2>2 DEF SectionsFollow
  <2>5. \A i \in sec + 1..4 : sections[i]' = <<>>
    BY <1>2, <1>7, <2>3 DEF SectionsFollow
  <2> QED
    BY <1>6, <1>7, <2>1, <2>4, <2>5 DEF SectionsFollow
<1>9. CountsFollow(m)'
  <2>1. Len(u) = Len(s) + 1 /\ left = Len(t) - Len(s)
    BY <1>4, <1>5
  <2>2. left' = Len(m.sections[sec]) - Len(u)
    <3> HIDE DEF s, t
    <3>1. left - 1 = Len(t) - Len(u)
      BY <1>3, <2>1
    <3> QED BY <1>6, <3>1 DEF t
  <2> QED
    BY <1>2, <1>6, <1>7, <2>2 DEF CountsFollow
<1>10. Start(at)' = Stop(at)
  BY <1>5, <1>6, <1>7 DEF Start, Stop
<1> QED
  BY <1>2, <1>6, <1>8, <1>9, <1>10 DEF Follows, PlaceFollows, InRecord, InName

LEMMA HeaderFollows ==
  ASSUME NEW w, NEW m, NEW at, NEW layouts, InStep(w, m, at, layouts),
         HeaderShort \/ ParseHeader
  PROVE  GoesOnWith(w, m, at, layouts)
<1> USE DEF HeaderSize
<1>1. /\ pc = "header" /\ offset = 0 /\ sec = 1 /\ sections = NoSections
      /\ Begins(data, w) /\ data \in Seq(Cell)
  BY DEF InStep, Follows, HeaderShort, ParseHeader, NInv, IInv, TypeOK
<1>2. Len(data) \in Nat /\ w \in Seq(Cell) /\ Len(w) \in Nat /\ HeaderSize <= Len(w)
  BY <1>1, MessageHeld DEF InStep
<1>3. CASE HeaderShort
  <2>1. Len(data) # Len(w) /\ data' = data /\ pc' = "failed"
    BY <1>1, <1>2, <1>3 DEF HeaderShort, inputVars
  <2> QED
    BY <1>1, <2>1 DEF Broken, GoesOnWith
<1>4. CASE ParseHeader
  <2>1. /\ header' = ReadHeader(data[1], data[2], data[3]) /\ counts' = Slice(3, 7)
        /\ left' = data[4] /\ offset' = 7 /\ pc' = "item" /\ data' = data
        /\ sections' = NoSections /\ sec' = 1 /\ 7 <= Len(data)
    BY <1>1, <1>4 DEF ParseHeader, inputVars
  <2>2. \A i \in 1..7 : data[i] = w[i]
    <3>1. \A i \in 1..7 : i \in 1..Len(data)
      BY <1>2, <2>1
    <3> QED BY <1>1, <3>1 DEF Begins
  <2>3. header' = m.header
    <3>1. m.header = ReadHeader(w[1], w[2], w[3])
      BY DEF InStep, Known, HoldsMessage
    <3> QED BY <2>1, <2>2, <3>1
  <2>4. \A s \in 1..4 : counts[s]' = Len(m.sections[s])
    <3> SUFFICES ASSUME NEW s \in 1..4 PROVE counts[s]' = Len(m.sections[s])
      OBVIOUS
    <3>1. Len(m.sections[s]) = w[s + 3]
      BY MessageHeld DEF InStep
    <3> DEFINE u == Slice(3, 7)
    <3>2. u[s] = data[3 + s]
      <4>1. 7 - 3 = 4 /\ 3 <= 7 /\ 7 <= Len(data)
        BY <2>1
      <4>2. \A i \in 1..7 - 3 : u[i] = data[3 + i]
        <5>1. u = SubSeq(data, 3 + 1, 7)
          BY DEF Slice
        <5> HIDE DEF u
        <5> QED BY <1>1, <4>1, <5>1, SliceOf
      <4> HIDE DEF u
      <4> QED BY <4>1, <4>2
    <3>3. s + 3 \in 1..7 /\ 3 + s = s + 3
      OBVIOUS
    <3> HIDE DEF u
    <3>4. u[s] = w[s + 3]
      BY <2>2, <3>2, <3>3
    <3> QED BY <2>1, <3>1, <3>4 DEF u
  <2>5. \A s \in 1..4 : NoSections[s] = <<>>
    BY DEF NoSections
  <2>6. SectionsFollow(m)'
    <3>1. SectionsFollow(m)
      BY DEF InStep, Follows
    <3> QED
      BY <1>1, <2>1, <3>1 DEF SectionsFollow
  <2>7. CountsFollow(m)'
    <3>1. left' = Len(m.sections[1])
      <4>1. Len(m.sections[1]) = w[1 + 3]
        BY MessageHeld DEF InStep
      <4>2. 1 + 3 = 4 /\ 4 \in 1..7
        OBVIOUS
      <4> QED BY <2>1, <2>2, <4>1, <4>2
    <3>2. Len(m.sections[1]) \in Nat /\ Len(<<>>) = 0
      BY MessageHeld, EmptyIsSeq DEF InStep
    <3>3. left' = Len(m.sections[1]) - Len(<<>>)
      BY <3>1, <3>2
    <3>4. sections[sec]' = <<>> /\ sec' = 1
      <4>1. 1 \in 1..4
        OBVIOUS
      <4> QED BY <2>1, <2>5, <4>1
    <3>5. left' = Len(m.sections[sec']) - Len(sections[sec]')
      BY <3>3, <3>4
    <3> QED
      BY <2>3, <2>4, <3>5 DEF CountsFollow
  <2>8. Start(at)' = 7
    BY <2>1, <2>5, MessageHeld, EmptyIsSeq DEF Start, InStep
  <2>9. Follows(w, m, at, layouts)'
    BY <1>1, <2>1, <2>6, <2>7, <2>8 DEF Follows, PlaceFollows, InRecord, InName
  <2> QED
    BY <2>9 DEF GoesOnWith
<1> QED
  BY <1>3, <1>4

\* What a step leaves of the sections, the counts and the place where the item begins.
LEMMA SameSections ==
  ASSUME NEW w, NEW m, NEW at, NEW layouts, InStep(w, m, at, layouts), pc # "header",
         UNCHANGED <<data, header, counts, sections, sec, left>>
  PROVE  /\ Begins(data', w) /\ SectionsFollow(m)' /\ CountsFollow(m)'
         /\ Start(at)' = Start(at) /\ Stop(at)' = Stop(at) /\ Here(m)' = Here(m)
         /\ Laid(layouts)' = Laid(layouts) /\ Start(at) <= Len(data)
BY DEF InStep, Follows, SectionsFollow, CountsFollow, Start, Stop, Here, Laid

LEMMA LoopsFollow ==
  ASSUME NEW w, NEW m, NEW at, NEW layouts, InStep(w, m, at, layouts),
         NextItem \/ NextSection \/ Finish
  PROVE  Follows(w, m, at, layouts)'
<1>1. /\ pc = "item" /\ offset = Start(at) /\ Begins(data, w)
      /\ SectionsFollow(m) /\ CountsFollow(m) /\ Start(at) <= Len(data)
  BY DEF InStep, Follows, PlaceFollows, NextItem, NextSection, Finish
<1>2. sec \in 1..4
  BY DEF InStep, NInv, IInv, TypeOK
<1>3. CASE NextItem
  <2>1. /\ UNCHANGED <<data, header, counts, sections, sec, left>>
        /\ pc' = "name" /\ from' = Start(at) /\ names' = <<>>
    BY <1>1, <1>3 DEF NextItem, StartName, inputVars, messageVars
  <2>2. Len(names') = 0
    BY <2>1, EmptyIsSeq
  <2> QED
    BY <1>1, <2>1, <2>2, SameSections DEF Follows, PlaceFollows, InRecord, InName
<1>4. CASE NextSection
  <2>1. /\ UNCHANGED <<data, header, counts, sections, offset>>
        /\ pc' = "item" /\ sec' = sec + 1 /\ left' = counts[sec + 1]
        /\ left = 0 /\ sec \in 1..3 /\ sec + 1 \in 2..4 /\ sec + 1 \in 1..4
    BY <1>1, <1>2, <1>4 DEF NextSection, inputVars
  <2>2. /\ Len(sections[sec]) \in 0..Len(m.sections[sec])
        /\ left = Len(m.sections[sec]) - Len(sections[sec])
        /\ Len(m.sections[sec]) \in Nat
    BY <1>1, <1>2, MessageHeld DEF SectionsFollow, CountsFollow, IsPart, InStep
  <2>3. Len(sections[sec]) = Len(m.sections[sec])
    BY <2>1, <2>2
  <2>4. sections[sec + 1] = <<>>
    <3>1. sec + 1 \in sec + 1..4
      BY <2>1
    <3> QED BY <1>1, <3>1 DEF SectionsFollow
  <2>5. SectionsFollow(m)'
    <3>1. \A s \in 1..sec + 1 - 1 : s = sec \/ s \in 1..sec - 1
      BY <2>1
    <3>2. \A s \in sec + 1 + 1..4 : s \in sec + 1..4
      BY <2>1
    <3>3. \A s \in 1..sec' - 1 : Len(sections'[s]) = Len(m.sections[s])
      <4>1. \A s \in 1..sec - 1 : Len(sections[s]) = Len(m.sections[s])
        BY <1>1 DEF SectionsFollow
      <4> QED BY <2>1, <2>3, <3>1, <4>1
    <3>4. \A s \in sec' + 1..4 : sections'[s] = <<>>
      BY <1>1, <2>1, <3>2 DEF SectionsFollow
    <3> QED BY <1>1, <2>1, <3>3, <3>4 DEF SectionsFollow
  <2>6. CountsFollow(m)'
    <3>1. left' = Len(m.sections[sec + 1]) - Len(<<>>)
      <4>1. left' = Len(m.sections[sec + 1]) /\ Len(m.sections[sec + 1]) \in Nat
        BY <1>1, <2>1, MessageHeld DEF CountsFollow, InStep
      <4> QED BY <4>1, EmptyIsSeq
    <3> QED BY <1>1, <2>1, <2>4, <3>1 DEF CountsFollow
  <2>7. Start(at)' = Start(at)
    <3>1. at[sec + 1][0] = at[sec][Len(m.sections[sec])]
      <4>1. HoldsMessage(w, m, at, layouts)
        BY DEF InStep, Known
      <4>2. \A s \in 1..3 : at[s + 1][0] = at[s][Len(m.sections[s])]
        BY <4>1 DEF HoldsMessage
      <4> QED BY <2>1, <4>2
    <3>2. Start(at)' = at[sec + 1][0]
      BY <2>1, <2>4, EmptyIsSeq DEF Start
    <3> QED BY <2>3, <3>1, <3>2 DEF Start
  <2> QED
    BY <1>1, <2>1, <2>5, <2>6, <2>7 DEF Follows, PlaceFollows, InRecord, InName
<1>5. CASE Finish
  <2>1. /\ UNCHANGED <<data, header, counts, sections, sec, left, offset>>
        /\ pc' = "done" /\ sec = 4 /\ left = 0
    BY <1>5 DEF Finish, inputVars, messageVars
  <2> QED
    BY <1>1, <2>1, SameSections DEF Follows, PlaceFollows, InRecord, InName
<1> QED
  BY <1>3, <1>4, <1>5

\* The name that is read is one of the message: its first one, or the one that
\* the record has next.
NameOfItem(m) ==
  IF Len(names) = 0 THEN Here(m).name ELSE Here(m).rdata.names[Len(names)]

BehindName(m, at, layouts) ==
  IF Len(names) = 0
  THEN IF sec = 1 THEN Stop(at) - QuestionSize ELSE Laid(layouts).fixed
  ELSE Laid(layouts).names[Len(names)]

LEMMA NamesHere ==
  ASSUME NEW w, NEW m, NEW at, NEW layouts, InStep(w, m, at, layouts), InRecord
  PROVE  /\ sec \in 2..4
         /\ HoldsRecord(w, Start(at), Here(m), Stop(at), Laid(layouts))
         /\ RecordFollows(w, Here(m), Stop(at), Laid(layouts))
         /\ fixed[1] = Here(m).type /\ end = Stop(at)
         /\ Len(names) \in Nat /\ Len(names) > 0
         /\ Len(names) <= NameCount(Here(m).type) + 1
         /\ names[1] = Here(m).name
         /\ pc = "name" => Len(names) <= NameCount(Here(m).type)
<1>1. IInv /\ Follows(w, m, at, layouts) /\ w \in Seq(Cell) /\ Known(w, m, at, layouts)
  BY DEF InStep, NInv, Known
<1>2. RecordFollows(w, Here(m), Stop(at), Laid(layouts)) /\ left > 0 /\ sec \in 1..4
      /\ pc # "header"
  BY <1>1 DEF Follows, PlaceFollows, IInv, ItemLeft, TypeOK, InRecord, InName
<1>3. /\ sec \in 2..4 /\ Start(at) \in Nat /\ Stop(at) \in Nat
      /\ HoldsRecord(w, Start(at), Here(m), Stop(at), Laid(layouts))
  BY <1>1, <1>2, ItemHeld DEF RecordFollows
<1>4. fixed[1] = Here(m).type /\ end = Stop(at)
  <2>1. FieldsOf(w, Laid(layouts))[1] = Here(m).type
    BY <1>1, <1>3, FieldsHeld
  <2> QED BY <1>2, <2>1 DEF RecordFollows
<1>5. /\ IsSequence(NamesOf(Here(m))) /\ Len(NamesOf(Here(m))) = NameCount(Here(m).type) + 1
      /\ NamesOf(Here(m))[1] = Here(m).name
  BY <1>1, <1>3, NamesCount
<1>6. /\ Len(names) \in Nat /\ Len(names) > 0 /\ Len(names) <= Len(NamesOf(Here(m)))
      /\ \A i \in 1..Len(names) : names[i] = NamesOf(Here(m))[i]
  BY <1>2, <1>5, PartIsSequence DEF RecordFollows
<1>7. names[1] = Here(m).name
  <2>1. 1 \in 1..Len(names)
    BY <1>6
  <2> QED BY <1>5, <1>6, <2>1
<1>8. pc = "name" => Len(names) <= NameCount(Here(m).type)
  <2>1. InName => Len(names) <= NameCount(fixed[1])
    BY <1>1 DEF IInv, NamesCounted
  <2> QED BY <1>4, <1>6, <2>1 DEF InName
<1> QED
  BY <1>2, <1>3, <1>4, <1>5, <1>6, <1>7, <1>8

LEMMA NameIsHeld ==
  ASSUME NEW w, NEW m, NEW at, NEW layouts, InStep(w, m, at, layouts), pc = "name"
  PROVE  /\ from \in Nat /\ Len(names) \in Nat
         /\ HoldsName(w, from, NameOfItem(m), BehindName(m, at, layouts))
<1>1. /\ IInv /\ Follows(w, m, at, layouts) /\ w \in Seq(Cell) /\ Known(w, m, at, layouts)
      /\ from \in Nat /\ Len(names) \in Nat
  BY AppendCounts DEF InStep, NInv, Known, IInv, TypeOK, NamesCounted
<1>2. left > 0 /\ sec \in 1..4
  BY <1>1 DEF IInv, ItemLeft, TypeOK
<1>3. CASE Len(names) = 0
  <2>1. from = Start(at)
    BY <1>1, <1>3 DEF Follows, PlaceFollows
  <2>2. /\ sec = 1 => HoldsQuestion(w, Start(at), Here(m), Stop(at))
        /\ sec # 1 => HoldsRecord(w, Start(at), Here(m), Stop(at), Laid(layouts))
    BY <1>1, <1>2, ItemHeld
  <2> QED
    BY <1>1, <1>3, <2>1, <2>2 DEF NameOfItem, BehindName, HoldsQuestion, HoldsRecord
<1>4. CASE Len(names) # 0
  <2>1. InRecord
    BY <1>1, <1>4 DEF InRecord, InName
  <2>2. /\ HoldsRecord(w, Start(at), Here(m), Stop(at), Laid(layouts))
        /\ RecordFollows(w, Here(m), Stop(at), Laid(layouts))
        /\ Len(names) \in 1..NameCount(Here(m).type)
    <3>1. /\ Len(names) \in Nat /\ Len(names) > 0
          /\ Len(names) <= NameCount(Here(m).type)
      BY <2>1, NamesHere
    <3>2. NameCount(Here(m).type) \in 0..2
      BY NameCountProperties
    <3> QED BY <2>1, <3>1, <3>2, NamesHere
  <2>3. from = Laid(layouts).names[Len(names) - 1]
    BY <2>2 DEF RecordFollows
  <2>4. Len(names) \in 1..Len(Here(m).rdata.names)
    BY <2>2 DEF HoldsRecord
  <2>5. HoldsName(w, Laid(layouts).names[Len(names) - 1], Here(m).rdata.names[Len(names)],
                  Laid(layouts).names[Len(names)])
    BY <2>2, <2>4 DEF HoldsRecord
  <2> QED
    BY <1>1, <1>4, <2>3, <2>5 DEF NameOfItem, BehindName
<1> QED
  BY <1>3, <1>4

LEMMA NameFails ==
  ASSUME NEW w, NEW m, NEW at, NEW layouts, InStep(w, m, at, layouts),
         NameShort \/ BadPointer \/ PointerLoop
  PROVE  Broken(w, m)'
<1>1. pc = "name" /\ Fail /\ Begins(data, w) /\ data \in Seq(Cell) /\ w \in Seq(Cell)
  BY DEF NameShort, BadPointer, PointerLoop, AtPointer, AtLength, InStep, Follows, NInv,
         IInv, TypeOK, Known
<1>2. CASE Len(data) # Len(w)
  BY <1>1, <1>2, FailBreaks
<1>3. CASE Len(data) = Len(w)
  <2>1. data = w
    BY <1>1, <1>3, BeginsSame
  <2>2. HoldsName(data, from, NameOfItem(m), BehindName(m, at, layouts))
    BY <1>1, <2>1, NameIsHeld
  <2>3. Meaning(from).said /\ Meaning(from).pointers <= MaxJumps
    BY <2>2 DEF HoldsName, Says, Meaning
  <2>4. ~NameShort /\ ~BadPointer /\ ~PointerLoop
    BY <1>1, <2>3, NameNotRefused DEF InStep
  <2> QED BY <2>4
<1> QED
  BY <1>2, <1>3

LEMMA NamePartFollows ==
  ASSUME NEW w, NEW m, NEW at, NEW layouts, InStep(w, m, at, layouts),
         FollowPointer \/ ReadLabel
  PROVE  Follows(w, m, at, layouts)'
<1>1. /\ pc = "name" /\ pc' = "name" /\ from' = from
      /\ UNCHANGED <<data, header, counts, sections, sec, left, fixed, end, names>>
  BY DEF FollowPointer, ReadLabel, AtPointer, AtLabel, AtLength, inputVars, messageVars,
         itemVars
<1>2. PlaceFollows(w, m, at, layouts)
  BY DEF InStep, Follows
<1>3. PlaceFollows(w, m, at, layouts)'
  <2>1. InRecord' = InRecord
    BY <1>1 DEF InRecord, InName
  <2>2. Len(names) = 0 => from = Start(at)
    BY <1>1, <1>2 DEF PlaceFollows
  <2>3. InRecord => RecordFollows(w, Here(m), Stop(at), Laid(layouts))'
    BY <1>1, <1>2, SameSections DEF PlaceFollows, RecordFollows
  <2> QED
    BY <1>1, <2>1, <2>2, <2>3, SameSections DEF PlaceFollows
<1> QED
  BY <1>1, <1>3, SameSections DEF Follows

LEMMA NameEndFollows ==
  ASSUME NEW w, NEW m, NEW at, NEW layouts, InStep(w, m, at, layouts), NInv', NameEnd
  PROVE  Follows(w, m, at, layouts)'
<1>1. /\ pc = "name" /\ pc' = (IF names = <<>> THEN "fixed" ELSE "rdata")
      /\ UNCHANGED <<data, header, counts, sections, sec, left, fixed, end, from>>
      /\ names' = Append(names, parts)
  BY DEF NameEnd, AtLength, inputVars, messageVars, nameVars
<1>2. /\ Begins(data, w) /\ data \in Seq(Cell) /\ w \in Seq(Cell) /\ from \in Nat
      /\ IsSeq(names) /\ Len(names) \in Nat
      /\ IsSeq(names') /\ Len(names') = Len(names) + 1 /\ names'[Len(names')] = parts
  BY <1>1, AppendCounts, LastAppended DEF InStep, Follows, NInv, IInv, TypeOK,
     NamesCounted, Known
<1>3. /\ Says(data, from).said /\ parts = Says(data, from).labels
      /\ offset' = Says(data, from).behind
  <2>1. NamesMeanWhatTheySay'
    BY DEF NInv
  <2>2. pc' = "rdata" => Len(names') > 1
    <3>1. names # <<>> => Len(names) # 0
      BY <1>2, EmptySequence
    <3> QED BY <1>1, <1>2, <3>1
  <2>3. pc' \in {"fixed", "rdata"}
    BY <1>1
  <2> QED
    BY <1>1, <1>2, <2>1, <2>2, <2>3 DEF NamesMeanWhatTheySay, Meaning, Says
<1>4. parts = NameOfItem(m) /\ offset' = BehindName(m, at, layouts)
  <2>1. Says(w, from) = Says(data, from)
    BY <1>2, <1>3, SaysInBoth
  <2>2. HoldsName(w, from, NameOfItem(m), BehindName(m, at, layouts))
    BY <1>1, NameIsHeld
  <2> QED
    BY <1>3, <2>1, <2>2 DEF HoldsName
<1>5. CASE names = <<>>
  <2>1. Len(names) = 0 /\ pc' = "fixed" /\ names' = <<parts>>
    BY <1>1, <1>5, EmptyIsSeq
  <2>2. PlaceFollows(w, m, at, layouts)'
    BY <1>1, <1>4, <2>1, SameSections
       DEF PlaceFollows, NameOfItem, BehindName, InRecord, InName
  <2> QED
    BY <1>1, <2>1, <2>2, SameSections DEF Follows
<1>6. CASE names # <<>>
  <2>1. Len(names) # 0 /\ Len(names) > 0 /\ pc' = "rdata" /\ InRecord
    BY <1>1, <1>2, <1>6, EmptySequence DEF InRecord, InName
  <2>2. /\ HoldsRecord(w, Start(at), Here(m), Stop(at), Laid(layouts))
        /\ RecordFollows(w, Here(m), Stop(at), Laid(layouts))
        /\ Len(names) <= NameCount(Here(m).type)
        /\ Start(at) \in Nat /\ Stop(at) \in Nat
    <3>1. pc # "header" /\ left > 0 /\ NInv
      BY <1>1 DEF InStep, NInv, IInv, ItemLeft
    <3> QED BY <1>1, <2>1, <3>1, NamesHere, ItemHeld DEF InStep, NInv
  <2>3. NameCount(Here(m).type) \in 0..2 /\ Len(names) \in 1..NameCount(Here(m).type)
    BY <1>2, <2>1, <2>2, NameCountProperties
  <2>4. /\ IsSequence(NamesOf(Here(m)))
        /\ Len(NamesOf(Here(m))) = NameCount(Here(m).type) + 1
        /\ NamesOf(Here(m))[Len(names) + 1] = Here(m).rdata.names[Len(names)]
    BY <1>2, <2>2, <2>3, NamesCount
  <2>5. IsPart(names', NamesOf(Here(m)))
    <3>1. Len(names) # Len(NamesOf(Here(m)))
      BY <2>3, <2>4
    <3>2. parts = NamesOf(Here(m))[Len(names) + 1]
      BY <1>4, <2>1, <2>4 DEF NameOfItem
    <3>3. IsPart(names, NamesOf(Here(m)))
      BY <2>2 DEF RecordFollows
    <3> QED
      BY <1>1, <2>4, <3>1, <3>2, <3>3, PartGrows
  <2>6. offset' = Laid(layouts).names[Len(names') - 1] /\ Len(names') > 0
    BY <1>2, <1>4, <2>1 DEF BehindName
  <2>7. RecordFollows(w, Here(m), Stop(at), Laid(layouts))'
    BY <1>1, <2>1, <2>2, <2>5, <2>6, SameSections DEF RecordFollows
  <2>8. PlaceFollows(w, m, at, layouts)'
    BY <2>1, <2>7, SameSections DEF PlaceFollows, InRecord, InName
  <2> QED
    BY <1>1, <2>1, <2>8, SameSections DEF Follows
<1> QED
  BY <1>5, <1>6

LEMMA FixedHere ==
  ASSUME NEW w, NEW m, NEW at, NEW layouts, InStep(w, m, at, layouts), pc = "fixed"
  PROVE  /\ sec \in 1..4 /\ left > 0 /\ offset \in Nat
         /\ data \in Seq(Cell) /\ w \in Seq(Cell) /\ Begins(data, w)
         /\ Len(data) \in Nat /\ Len(w) \in Nat /\ Len(data) <= Len(w)
         /\ names = <<Here(m).name>>
         /\ Start(at) \in Nat /\ Stop(at) \in Nat
         /\ sec = 1 => /\ offset = Stop(at) - QuestionSize
                       /\ HoldsQuestion(w, Start(at), Here(m), Stop(at))
         /\ sec # 1 => /\ offset = Laid(layouts).fixed
                       /\ HoldsRecord(w, Start(at), Here(m), Stop(at), Laid(layouts))
<1>1. /\ sec \in 1..4 /\ left > 0 /\ offset \in Nat /\ data \in Seq(Cell) /\ w \in Seq(Cell)
      /\ Begins(data, w)
  BY DEF InStep, NInv, IInv, TypeOK, ItemLeft, Follows, Known
<1>2. Len(data) \in Nat /\ Len(w) \in Nat /\ Len(data) <= Len(w)
  BY <1>1, BeginsSame
<1>3. /\ Start(at) \in Nat /\ Stop(at) \in Nat
      /\ sec = 1 => HoldsQuestion(w, Start(at), Here(m), Stop(at))
      /\ sec # 1 => HoldsRecord(w, Start(at), Here(m), Stop(at), Laid(layouts))
  BY <1>1, ItemHeld DEF InStep, NInv
<1>4. /\ names = <<Here(m).name>>
      /\ offset = IF sec = 1 THEN Stop(at) - QuestionSize ELSE Laid(layouts).fixed
  BY DEF InStep, Follows, PlaceFollows
<1> QED
  BY <1>1, <1>2, <1>3, <1>4

LEMMA FixedFits ==
  ASSUME NEW w, NEW m, NEW at, NEW layouts, InStep(w, m, at, layouts), pc = "fixed",
         Len(data) = Len(w)
  PROVE  Fits(FixedSize)
<1> USE DEF QuestionSize, RecordSize
<1>1. CASE sec = 1
  <2>1. /\ HoldsCells(w, Stop(at) - 2, <<Here(m).type, Here(m).class>>, Stop(at))
        /\ offset = Stop(at) - 2 /\ Stop(at) \in Nat /\ offset \in Nat
    BY <1>1, FixedHere DEF HoldsQuestion
  <2> QED BY <1>1, <2>1 DEF Fits, FixedSize, HoldsCells
<1>2. CASE sec # 1
  <2>1. /\ HoldsRecord(w, Start(at), Here(m), Stop(at), Laid(layouts))
        /\ Start(at) \in Nat /\ Stop(at) \in Nat /\ w \in Seq(Cell)
        /\ offset = Laid(layouts).fixed /\ offset \in Nat
    BY <1>2, FixedHere
  <2>2. Laid(layouts).fixed + 4 <= Stop(at) /\ Stop(at) <= Len(w)
    BY <2>1 DEF HoldsRecord
  <2>3. offset + 4 <= Len(data)
    <3>1. Len(w) \in Nat
      BY <2>1
    <3> QED BY <2>1, <2>2, <3>1
  <2> QED BY <1>2, <2>3 DEF Fits, FixedSize
<1> QED
  BY <1>1, <1>2

LEMMA FixedShortBreaks ==
  ASSUME NEW w, NEW m, NEW at, NEW layouts, InStep(w, m, at, layouts), FixedShort
  PROVE  Broken(w, m)'
<1>1. pc = "fixed" /\ Fail
  BY DEF FixedShort
<1>2. Len(data) # Len(w)
  BY <1>1, FixedFits DEF FixedShort
<1> QED
  BY <1>1, <1>2, FailBreaks

LEMMA QuestionFollows ==
  ASSUME NEW w, NEW m, NEW at, NEW layouts, InStep(w, m, at, layouts), ParseQuestion
  PROVE  Follows(w, m, at, layouts)'
<1> USE DEF QuestionSize
<1>1. pc = "fixed" /\ sec = 1 /\ Fits(2)
  BY DEF ParseQuestion
<1>2. /\ offset \in Nat /\ Stop(at) \in Nat /\ offset = Stop(at) - 2 /\ Len(data) \in Nat
      /\ names = <<Here(m).name>> /\ w \in Seq(Cell) /\ data \in Seq(Cell) /\ Begins(data, w)
      /\ HoldsQuestion(w, Start(at), Here(m), Stop(at))
  BY <1>1, FixedHere
<1>3. offset + 2 = Stop(at) /\ Stop(at) <= Len(data)
  BY <1>1, <1>2 DEF Fits
<1>4. /\ offset' = Stop(at)
      /\ Accept([name |-> names[1], type |-> data[offset + 1], class |-> data[offset + 2]])
  BY <1>1, <1>2, <1>3 DEF ParseQuestion, Reading
<1>5. data[offset + 1] = Here(m).type /\ data[offset + 2] = Here(m).class
  <2> DEFINE two == <<Here(m).type, Here(m).class>>
             z == Stop(at)
  <2>1. HoldsCells(w, offset, two, z) /\ z - offset = 2 /\ z \in Nat
    BY <1>2, <1>3 DEF HoldsQuestion
  <2>2. two[1] = Here(m).type /\ two[2] = Here(m).class
    OBVIOUS
  <2> HIDE DEF two, z
  <2>3. two[1] = w[offset + 1] /\ two[2] = w[offset + 2]
    <3>1. \A i \in 1..z - offset : two[i] = w[offset + i]
      <4> DEFINE q == offset
      <4>1. q \in Nat /\ HoldsCells(w, q, two, z) /\ w \in Seq(Cell) /\ z \in Nat
        BY <1>2, <2>1
      <4> HIDE DEF q
      <4>2. \A i \in 1..z - q : two[i] = w[q + i]
        BY <4>1, CellsHeld
      <4> QED BY <4>2 DEF q
    <3>2. 1 \in 1..2 /\ 2 \in 1..2
      OBVIOUS
    <3> QED BY <2>1, <3>1, <3>2
  <2>4. data[offset + 1] = w[offset + 1] /\ data[offset + 2] = w[offset + 2]
    <3>1. /\ offset < Len(data) /\ offset + 1 < Len(data)
          /\ offset + 1 \in Nat /\ (offset + 1) + 1 = offset + 2
      BY <1>2, <1>3
    <3> QED BY <1>2, <3>1, BeginsSame
  <2> QED BY <2>2, <2>3, <2>4
<1>6. Accept(Here(m))
  <2>1. Here(m) = [name |-> Here(m).name, type |-> Here(m).type, class |-> Here(m).class]
    BY <1>2 DEF HoldsQuestion
  <2>2. names[1] = Here(m).name
    BY <1>2
  <2> QED BY <1>4, <1>5, <2>1, <2>2
<1> QED
  BY <1>1, <1>3, <1>4, <1>6, AcceptFollows

LEMMA TypeAndLength ==
  ASSUME NEW w \in Seq(Cell), NEW q \in Nat, NEW z \in Nat, NEW r, NEW l,
         HoldsRecord(w, q, r, z, l)
  PROVE  /\ w[l.fixed + 1] = r.type
         /\ w[l.fixed + RecordSize] = z - (l.fixed + RecordSize)
<1> DEFINE f == l.fixed
           four == <<r.type, r.class, r.ttl, z - (f + 4)>>
<1>1. f \in Nat
  BY RecordHeld
<1>2. HoldsCells(w, f, four, f + 4)
  BY DEF HoldsRecord, RecordSize
<1>3. \A i \in 1..4 : four[i] = w[f + i]
  <2>1. f + 4 \in Nat /\ (f + 4) - f = 4
    BY <1>1
  <2> HIDE DEF four, f
  <2>2. \A i \in 1..(f + 4) - f : four[i] = w[f + i]
    BY <1>1, <1>2, <2>1, CellsHeld
  <2> QED BY <2>1, <2>2
<1>4. four[1] = r.type /\ four[4] = z - (f + 4)
  OBVIOUS
<1> HIDE DEF four
<1> QED
  BY <1>3, <1>4 DEF RecordSize

\* The fields of the record, as the cells of the message have them.
LEMMA RecordFields ==
  ASSUME NEW w, NEW m, NEW at, NEW layouts, InStep(w, m, at, layouts), pc = "fixed",
         sec # 1, Fits(RecordSize)
  PROVE  /\ data[offset + 1] = Here(m).type /\ Here(m).type \in Cell
         /\ offset + RecordSize \in Nat /\ offset + RecordSize <= Len(data)
         /\ data[offset + RecordSize] \in Cell
         /\ offset + RecordSize + data[offset + RecordSize] = Stop(at)
         /\ LengthOk(Here(m).type, data[offset + RecordSize])
         /\ Stop(at) <= Len(w)
         /\ offset + RecordSize + HeadSize(Here(m).type) = Laid(layouts).names[0]
         /\ Laid(layouts).names[0] \in Nat /\ Laid(layouts).names[0] <= Stop(at)
         /\ HeadSize(Here(m).type) \in Nat
<1> USE DEF RecordSize
<1> DEFINE z == Stop(at)
           r == Here(m)
           l == Laid(layouts)
           f == l.fixed
           q == Start(at)
<1>1. /\ offset \in Nat /\ z \in Nat /\ q \in Nat /\ offset = f /\ Len(data) \in Nat
      /\ w \in Seq(Cell) /\ data \in Seq(Cell) /\ Begins(data, w) /\ Len(w) \in Nat
      /\ HoldsRecord(w, q, r, z, l)
  BY FixedHere
<1>2. /\ f \in Nat /\ f + 4 <= z /\ z <= Len(w)
      /\ w[f + 1] = r.type /\ w[f + 4] = z - (f + 4) /\ r.type \in Cell
      /\ HeadSize(r.type) \in Nat /\ l.names[0] = f + 4 + HeadSize(r.type)
      /\ l.names[0] \in Nat /\ l.names[0] <= z
  <2> HIDE DEF z, r, l, q
  <2>1. l.fixed \in Nat /\ l.fixed + 4 <= z /\ z <= Len(w)
    BY <1>1, RecordHeld
  <2>2. r.type \in Cell
    BY <1>1, RecordHeld
  <2>5. w[l.fixed + 1] = r.type /\ w[l.fixed + 4] = z - (l.fixed + 4)
    BY <1>1, TypeAndLength
  <2>3. HeadSize(r.type) \in Nat /\ l.names[0] = l.fixed + 4 + HeadSize(r.type)
    BY <1>1, RecordHeld
  <2>4. l.names[0] \in Nat /\ l.names[0] <= z
    BY <1>1, RecordHeld
  <2> QED BY <2>1, <2>2, <2>3, <2>4, <2>5
<1>3. LengthOk(r.type, z - (f + 4))
  BY <1>1 DEF HoldsRecord
<1> HIDE DEF f, z, r, l, q
<1>4. offset + 4 <= Len(data) /\ offset + 4 \in Nat
  BY <1>1 DEF Fits
<1>5. data[offset + 1] = w[offset + 1] /\ data[offset + 4] = w[offset + 4]
  <2>1. /\ offset < Len(data) /\ offset + 3 < Len(data)
        /\ offset + 3 \in Nat /\ (offset + 3) + 1 = offset + 4
    BY <1>1, <1>4
  <2> QED BY <1>1, <2>1, BeginsSame
<1>6. data[offset + 4] \in Cell
  <2>1. offset + 4 \in 1..Len(data)
    BY <1>1, <1>4
  <2> QED BY <1>1, <2>1, ElementOfSeq
<1>7. offset + 4 + (z - (f + 4)) = z
  BY <1>1, <1>2
<1> QED
  BY <1>1, <1>2, <1>3, <1>4, <1>5, <1>6, <1>7 DEF f, z, r, l, q

LEMMA FirstPart ==
  ASSUME NEW t, IsSequence(t), Len(t) # 0
  PROVE  IsPart(<<t[1]>>, t) /\ Len(<<t[1]>>) = 1
<1>1. IsPart(<<>>, t) /\ Len(<<>>) = 0 /\ Append(<<>>, t[1]) = <<t[1]>>
  BY EmptyPart, EmptyIsSeq
<1> DEFINE e == t[1]
           s == <<>>
<1>2. e = t[Len(s) + 1] /\ Len(s) # Len(t) /\ IsPart(s, t)
  BY <1>1
<1> HIDE DEF e, s
<1>3. IsPart(Append(s, e), t) /\ Len(Append(s, e)) = Len(s) + 1
  BY <1>2, PartGrows
<1> QED
  BY <1>1, <1>3 DEF e, s

LEMMA FixedFollows ==
  ASSUME NEW w, NEW m, NEW at, NEW layouts, InStep(w, m, at, layouts), ParseFixed
  PROVE  GoesOnWith(w, m, at, layouts)
<1> USE DEF RecordSize
<1> DEFINE r == Here(m)
           l == Laid(layouts)
           z == Stop(at)
           start == offset + 4
           rdlength == data[start]
           past == start + HeadSize(data[offset + 1])
<1>1. pc = "fixed" /\ sec > 1 /\ Fits(4)
  BY DEF ParseFixed
<1>2. /\ data[offset + 1] = r.type
      /\ start \in Nat /\ start <= Len(data) /\ rdlength \in Cell
      /\ start + rdlength = z /\ LengthOk(r.type, rdlength) /\ z <= Len(w)
      /\ past = l.names[0] /\ past \in Nat /\ past <= z /\ HeadSize(r.type) \in Nat
  <2>1. sec # 1
    BY <1>1, FixedHere
  <2> QED BY <1>1, <2>1, RecordFields
<1>3. /\ offset \in Nat /\ z \in Nat /\ Start(at) \in Nat /\ offset = l.fixed
      /\ names = <<r.name>>
      /\ w \in Seq(Cell) /\ data \in Seq(Cell) /\ Begins(data, w)
      /\ Len(data) \in Nat /\ Len(w) \in Nat
      /\ HoldsRecord(w, Start(at), r, z, l) /\ sec \in 1..4
  BY <1>1, FixedHere
<1>4. CASE z > Len(data)
  <2>1. offset <= start
    BY <1>3
  <2>2. Fail
    BY <1>1, <1>2, <1>4, <2>1 DEF ParseFixed, Reading
  <2>3. Len(data) # Len(w)
    BY <1>2, <1>3, <1>4
  <2> QED
    BY <1>1, <2>2, <2>3, FailBreaks DEF GoesOnWith
<1>5. CASE ~(z > Len(data))
  <2>1. z <= Len(data) /\ offset <= start /\ start <= past /\ past <= Len(data)
    <3> DEFINE h == HeadSize(r.type)
    <3>1. past = start + h /\ h \in Nat
      BY <1>2
    <3> HIDE DEF h, past, z, start
    <3>2. z <= Len(data) /\ start <= past /\ past <= Len(data)
      BY <1>2, <1>3, <1>5, <3>1
    <3>3. offset <= start
      BY <1>3 DEF start
    <3> QED BY <3>2, <3>3
  <2>2. /\ fixed' = Slice(offset, past) /\ end' = z /\ offset' = past /\ pc' = "rdata"
        /\ UNCHANGED <<data, header, counts, sections, sec, left, names>>
    <3>1. ~(start + rdlength > Len(data) \/ ~LengthOk(data[offset + 1], rdlength))
      BY <1>2, <1>5
    <3>2. Reading(start, past,
                  /\ fixed' = Slice(offset, past)
                  /\ end' = start + rdlength
                  /\ offset' = past
                  /\ pc' = "rdata"
                  /\ UNCHANGED <<inputVars, messageVars, left, nameVars, names>>)
      BY <1>2, <2>1, <3>1 DEF ParseFixed, Reading
    <3> QED
      BY <1>2, <2>1, <3>2 DEF Reading, inputVars, messageVars
  <2>3. fixed' = FieldsOf(w, l)
    <3>1. SubSeq(data, offset + 1, past) = SubSeq(w, offset + 1, past)
      <4> HIDE DEF past
      <4>1. \A i, j \in Nat : j <= Len(data) => SubSeq(data, i + 1, j) = SubSeq(w, i + 1, j)
        BY <1>3, BeginsSame
      <4> QED BY <1>2, <1>3, <2>1, <4>1
    <3> QED
      BY <1>2, <1>3, <2>2, <3>1 DEF Slice, FieldsOf
  <2>4. IsPart(names, NamesOf(r)) /\ Len(names) = 1
    <3>1. /\ IsSequence(NamesOf(r)) /\ Len(NamesOf(r)) = NameCount(r.type) + 1
          /\ NamesOf(r)[1] = r.name /\ NameCount(r.type) \in 0..2
      BY <1>3, NamesCount, NameCountProperties
    <3>2. Len(NamesOf(r)) # 0
      BY <3>1
    <3>3. IsPart(<<NamesOf(r)[1]>>, NamesOf(r)) /\ Len(<<NamesOf(r)[1]>>) = 1
      BY <3>1, <3>2, FirstPart
    <3> QED BY <1>3, <3>1, <3>3
  <2>5. l.names[Len(names) - 1] = past
    <3>1. Len(names) - 1 = 0
      BY <2>4
    <3> QED BY <1>2, <3>1
  <2>6. RecordFollows(w, r, z, l)'
    <3> HIDE DEF past
    <3>1. r' = r /\ z' = z /\ l' = l
      BY <1>1, <2>2, SameSections
    <3>2. offset' = l.names[Len(names') - 1] /\ names' = names /\ pc' = "rdata"
      BY <2>2, <2>5
    <3>3. sec' > 1 /\ fixed' = FieldsOf(w, l) /\ end' = z /\ z <= Len(data')
      BY <1>1, <2>1, <2>2, <2>3
    <3>4. IsPart(names', NamesOf(r)) /\ Len(names') > 0
      BY <2>2, <2>4
    <3> HIDE DEF z, r, l
    <3> QED BY <3>1, <3>2, <3>3, <3>4 DEF RecordFollows
  <2>7. PlaceFollows(w, m, at, layouts)'
    <3> HIDE DEF past
    <3> QED BY <2>2, <2>4, <2>6 DEF PlaceFollows
  <2> QED
    BY <1>1, <2>2, <2>7, SameSections DEF Follows, GoesOnWith
<1> QED
  BY <1>4, <1>5

LEMMA NextNameFollows ==
  ASSUME NEW w, NEW m, NEW at, NEW layouts, InStep(w, m, at, layouts), NextName
  PROVE  Follows(w, m, at, layouts)'
<1>1. /\ pc = "rdata" /\ pc' = "name" /\ from' = offset
      /\ UNCHANGED <<data, header, counts, sections, sec, left, fixed, end, names>>
  BY DEF NextName, StartName, inputVars, messageVars, itemVars
<1>2. InRecord
  BY <1>1 DEF InRecord
<1>3. /\ RecordFollows(w, Here(m), Stop(at), Laid(layouts))
      /\ Len(names) \in Nat /\ Len(names) > 0
  BY <1>1, <1>2, NamesHere
<1>4. RecordFollows(w, Here(m), Stop(at), Laid(layouts))'
  BY <1>1, <1>3, SameSections DEF RecordFollows
<1>5. PlaceFollows(w, m, at, layouts)'
  BY <1>1, <1>3, <1>4, SameSections DEF PlaceFollows
<1> QED
  BY <1>1, <1>5, SameSections DEF Follows

\* All names are read: the offset is behind them.
LEMMA RestHere ==
  ASSUME NEW w, NEW m, NEW at, NEW layouts, InStep(w, m, at, layouts),
         pc = "rdata", Len(names) > NameCount(fixed[1])
  PROVE  /\ names = NamesOf(Here(m))
         /\ offset = Laid(layouts).names[Len(Here(m).rdata.names)]
         /\ offset \in Nat /\ offset <= Stop(at) /\ Stop(at) \in Nat /\ Stop(at) <= Len(data)
         /\ Start(at) \in Nat /\ Len(data) \in Nat
         /\ end = Stop(at) /\ fixed[1] = Here(m).type
         /\ w \in Seq(Cell) /\ data \in Seq(Cell) /\ Begins(data, w)
         /\ HoldsRecord(w, Start(at), Here(m), Stop(at), Laid(layouts))
         /\ RecordFollows(w, Here(m), Stop(at), Laid(layouts))
<1>1. InRecord
  BY DEF InRecord
<1>2. /\ HoldsRecord(w, Start(at), Here(m), Stop(at), Laid(layouts))
      /\ RecordFollows(w, Here(m), Stop(at), Laid(layouts))
      /\ fixed[1] = Here(m).type /\ end = Stop(at)
      /\ Len(names) \in Nat /\ Len(names) <= NameCount(Here(m).type) + 1
  BY <1>1, NamesHere
<1>3. /\ Start(at) \in Nat /\ Stop(at) \in Nat /\ w \in Seq(Cell) /\ data \in Seq(Cell)
      /\ offset \in Nat /\ Begins(data, w) /\ Len(data) \in Nat
  BY ItemHeld DEF InStep, Known, NInv, IInv, TypeOK, Follows, ItemLeft
<1>4. /\ IsSequence(NamesOf(Here(m)))
      /\ Len(NamesOf(Here(m))) = NameCount(Here(m).type) + 1
  BY <1>2, <1>3, NamesCount
<1>5. NameCount(Here(m).type) \in 0..2
  BY NameCountProperties
<1>6. Len(names) = Len(NamesOf(Here(m))) /\ Len(names) - 1 = NameCount(Here(m).type)
  BY <1>2, <1>4, <1>5
<1>7. names = NamesOf(Here(m))
  BY <1>2, <1>4, <1>6, WholePart DEF RecordFollows
<1>8. Len(Here(m).rdata.names) = NameCount(Here(m).type)
  BY <1>2 DEF HoldsRecord
<1>9. offset = Laid(layouts).names[Len(Here(m).rdata.names)]
  BY <1>2, <1>6, <1>8 DEF RecordFollows
<1>10. offset <= Stop(at)
  <2> DEFINE l == Laid(layouts)
             r == Here(m)
             z == Stop(at)
             q == Start(at)
             k == Len(r.rdata.names)
  <2>1. \A i \in 0..k : l.names[i] <= z
    <3>1. HoldsRecord(w, q, r, z, l) /\ q \in Nat /\ z \in Nat
      BY <1>2, <1>3
    <3> HIDE DEF l, r, z, q
    <3> QED BY <1>3, <3>1, RecordHeld
  <2>2. k \in 0..k
    BY <1>5, <1>8
  <2> HIDE DEF k
  <2>3. l.names[k] <= z
    BY <2>1, <2>2
  <2> QED BY <1>9, <2>3 DEF k
<1>11. Stop(at) <= Len(data)
  BY <1>2 DEF RecordFollows
<1> QED
  BY <1>2, <1>3, <1>7, <1>9, <1>10, <1>11

LEMMA RecordAccepted ==
  ASSUME NEW w, NEW m, NEW at, NEW layouts, InStep(w, m, at, layouts),
         pc \in {"rdata", "texts"}, names = NamesOf(Here(m)),
         NEW rest, rest = Here(m).rdata.rest, AcceptRecord(rest)
  PROVE  Follows(w, m, at, layouts)'
<1> DEFINE r == Here(m)
           l == Laid(layouts)
           z == Stop(at)
           q == Start(at)
           head == SubSeq(fixed, RecordSize + 1, Len(fixed))
<1>1. InRecord
  BY DEF InRecord
<1>2. /\ HoldsRecord(w, q, r, z, l) /\ RecordFollows(w, r, z, l) /\ end = z
      /\ w \in Seq(Cell) /\ q \in Nat /\ z \in Nat
  BY <1>1, NamesHere, ItemHeld DEF InStep, Known, NInv, IInv, ItemLeft
<1>3. fixed = FieldsOf(w, l) /\ z <= Len(data)
  BY <1>2 DEF RecordFollows
<1>4. /\ AcceptRecord(rest) <=>
           /\ offset' = end
           /\ Accept([name |-> names[1], type |-> fixed[1], class |-> fixed[2],
                      ttl |-> fixed[3],
                      rdata |-> [head |-> head, names |-> Tail(names), rest |-> rest]])
           /\ UNCHANGED <<nameVars, itemVars>>
  BY DEF AcceptRecord
<1>5. fixed[1] = r.type /\ fixed[2] = r.class /\ fixed[3] = r.ttl /\ head = r.rdata.head
  <2> DEFINE fields == FieldsOf(w, l)
  <2>1. /\ fields[1] = r.type /\ fields[2] = r.class /\ fields[3] = r.ttl
        /\ SubSeq(fields, RecordSize + 1, Len(fields)) = r.rdata.head
    <3> HIDE DEF r, z, q, l
    <3> QED BY <1>2, FieldsHeld
  <2>2. fixed = fields
    BY <1>3
  <2> HIDE DEF fields, r
  <2> QED BY <2>1, <2>2
<1>6. names[1] = r.name /\ Tail(names) = r.rdata.names
  <2>1. NamesOf(r)[1] = r.name /\ Tail(NamesOf(r)) = r.rdata.names
    BY <1>2, NamesCount
  <2> QED BY <2>1
<1>7. r = [name |-> r.name, type |-> r.type, class |-> r.class, ttl |-> r.ttl,
           rdata |-> [head |-> r.rdata.head, names |-> r.rdata.names,
                      rest |-> r.rdata.rest]]
  BY <1>2 DEF HoldsRecord
<1>8. Accept(r) /\ offset' = z
  <2> HIDE DEF head
  <2> QED BY <1>2, <1>4, <1>5, <1>6, <1>7
<1> QED
  BY <1>3, <1>8, AcceptFollows

LEMMA SkipFollows ==
  ASSUME NEW w, NEW m, NEW at, NEW layouts, InStep(w, m, at, layouts), SkipRest
  PROVE  Follows(w, m, at, layouts)'
<1>1. /\ pc = "rdata" /\ Len(names) > NameCount(fixed[1]) /\ Rest(fixed[1]) = "skip"
      /\ AcceptRecord(<<>>)
  BY DEF SkipRest, AtRest
<1>2. /\ names = NamesOf(Here(m)) /\ fixed[1] = Here(m).type
      /\ HoldsRecord(w, Start(at), Here(m), Stop(at), Laid(layouts))
  BY <1>1, RestHere
<1>3. <<>> = Here(m).rdata.rest
  BY <1>1, <1>2 DEF HoldsRecord
<1> QED
  BY <1>1, <1>2, <1>3, RecordAccepted

LEMMA SliceFollows ==
  ASSUME NEW w, NEW m, NEW at, NEW layouts, InStep(w, m, at, layouts),
         SliceRest \/ ParseSoa
  PROVE  Follows(w, m, at, layouts)'
<1> DEFINE r == Here(m)
           l == Laid(layouts)
           z == Stop(at)
<1>1. /\ pc = "rdata" /\ Len(names) > NameCount(fixed[1])
      /\ SliceRest => Rest(fixed[1]) = "slice"
      /\ ParseSoa => Rest(fixed[1]) = "soa"
  BY DEF SliceRest, ParseSoa, AtRest
<1>2. /\ names = NamesOf(r) /\ fixed[1] = r.type /\ end = z
      /\ offset = l.names[Len(r.rdata.names)]
      /\ offset \in Nat /\ offset <= z /\ z \in Nat /\ z <= Len(data)
      /\ HoldsRecord(w, Start(at), r, z, l)
      /\ w \in Seq(Cell) /\ data \in Seq(Cell) /\ Begins(data, w)
  BY <1>1, RestHere
<1>3. Rest(r.type) \in {"slice", "soa"}
  BY <1>1, <1>2
<1>4. Slice(offset, z) = r.rdata.rest
  <2>1. HoldsCells(w, offset, r.rdata.rest, z)
    BY <1>2, <1>3 DEF HoldsRecord
  <2>2. r.rdata.rest = SubSeq(w, offset + 1, z)
    BY <2>1 DEF HoldsCells
  <2>3. \A i, j \in Nat : j <= Len(data) => SubSeq(data, i + 1, j) = SubSeq(w, i + 1, j)
    BY <1>2, BeginsSame
  <2>4. SubSeq(data, offset + 1, z) = SubSeq(w, offset + 1, z)
    <3> HIDE DEF z
    <3> QED BY <1>2, <2>3
  <2> QED BY <2>2, <2>4 DEF Slice
<1>5. AcceptRecord(Slice(offset, z))
  <2>1. CASE SliceRest
    BY <1>2, <2>1 DEF SliceRest, Reading
  <2>2. CASE ParseSoa
    <3>1. z = offset + SoaSize
      BY <1>1, <1>2, <2>2 DEF HoldsRecord
    <3>2. ~(offset + SoaSize > end)
      <4> HIDE DEF z
      <4> QED BY <1>2, <3>1
    <3>3. Reading(offset, offset + SoaSize, AcceptRecord(Slice(offset, offset + SoaSize)))
      BY <2>2, <3>2 DEF ParseSoa
    <3> QED BY <1>2, <3>1, <3>3 DEF Reading
  <2> QED BY <2>1, <2>2
<1> QED
  BY <1>1, <1>2, <1>4, <1>5, RecordAccepted

\* The texts of the record, the next of which begins at current.
LEMMA TextsHere ==
  ASSUME NEW w, NEW m, NEW at, NEW layouts, InStep(w, m, at, layouts), pc = "texts"
  PROVE  /\ names = NamesOf(Here(m)) /\ end = Stop(at)
         /\ Start(at) \in Nat /\ Stop(at) \in Nat /\ Stop(at) <= Len(data)
         /\ w \in Seq(Cell) /\ data \in Seq(Cell) /\ Begins(data, w)
         /\ Len(data) \in Nat /\ current \in Nat
         /\ RecordFollows(w, Here(m), Stop(at), Laid(layouts))
         /\ IsSequence(Here(m).rdata.rest) /\ IsPart(parts, Here(m).rdata.rest)
         /\ Len(parts) \in Nat /\ Len(parts) <= Len(Here(m).rdata.rest)
         /\ current = Laid(layouts).texts[Len(parts)]
         /\ Len(parts) = Len(Here(m).rdata.rest) => current = end
         /\ Len(parts) # Len(Here(m).rdata.rest) =>
              /\ HoldsText(w, current, Here(m).rdata.rest[Len(parts) + 1],
                           Laid(layouts).texts[Len(parts) + 1])
              /\ Laid(layouts).texts[Len(parts) + 1] \in Nat
              /\ Laid(layouts).texts[Len(parts) + 1] <= end
<1> DEFINE r == Here(m)
           l == Laid(layouts)
           z == Stop(at)
           n == Len(parts)
           last == Len(r.rdata.rest)
<1>1. InRecord
  BY DEF InRecord
<1>2. /\ HoldsRecord(w, Start(at), r, z, l) /\ RecordFollows(w, r, z, l) /\ end = z
  BY <1>1, NamesHere
<1>3. /\ Start(at) \in Nat /\ z \in Nat /\ w \in Seq(Cell) /\ data \in Seq(Cell)
      /\ current \in Nat /\ Begins(data, w) /\ Len(data) \in Nat
  BY ItemHeld DEF InStep, Known, NInv, IInv, TypeOK, Follows, ItemLeft
<1>4. /\ Rest(r.type) = "texts" /\ Len(names) = Len(NamesOf(r))
      /\ IsPart(parts, r.rdata.rest) /\ current = l.texts[n] /\ z <= Len(data)
      /\ IsPart(names, NamesOf(r))
  BY <1>2 DEF RecordFollows
<1>5. /\ IsSequence(r.rdata.rest)
      /\ l.texts \in [0..last -> l.names[Len(r.rdata.names)]..z]
      /\ l.texts[last] = z
      /\ \A i \in 1..last : HoldsText(w, l.texts[i - 1], r.rdata.rest[i], l.texts[i])
  BY <1>2, <1>4 DEF HoldsRecord
<1>6. names = NamesOf(r)
  <2>1. IsSequence(NamesOf(r))
    BY <1>2, <1>3, NamesCount
  <2> QED BY <1>4, <2>1, WholePart
<1>7. n \in Nat /\ n <= last /\ last \in Nat
  BY <1>4, <1>5, PartIsSequence
<1>8. n = last => current = z
  BY <1>4, <1>5
<1>9. ASSUME n # last
      PROVE  /\ HoldsText(w, current, r.rdata.rest[n + 1], l.texts[n + 1])
             /\ l.texts[n + 1] \in Nat /\ l.texts[n + 1] <= z
  <2> HIDE DEF n, last
  <2>1. n + 1 \in 1..last /\ (n + 1) - 1 = n /\ n + 1 \in 0..last
    BY <1>7, <1>9
  <2>2. HoldsText(w, l.texts[(n + 1) - 1], r.rdata.rest[n + 1], l.texts[n + 1])
    BY <1>5, <2>1
  <2>3. HoldsText(w, l.texts[n], r.rdata.rest[n + 1], l.texts[n + 1])
    BY <2>1, <2>2
  <2>4. l.texts[n + 1] \in l.names[Len(r.rdata.names)]..z
    BY <1>5, <2>1
  <2>5. l.names[Len(r.rdata.names)] \in Nat
    <3> DEFINE k == Len(r.rdata.names)
    <3>1. l.names \in [0..k -> 0..z] /\ k \in 0..2
      BY <1>2, NameCountProperties DEF HoldsRecord
    <3> HIDE DEF k, l, z, r
    <3>2. l.names[k] \in Nat
      BY <1>3, <3>1
    <3> QED BY <3>2 DEF k
  <2>6. l.texts[n + 1] \in Nat /\ l.texts[n + 1] <= z
    <3> DEFINE a == l.names[Len(r.rdata.names)]
               b == l.texts[n + 1]
    <3>1. a \in Nat /\ b \in a..z
      BY <2>4, <2>5
    <3> HIDE DEF a, b, z
    <3>2. b \in Nat /\ b <= z
      BY <1>3, <3>1
    <3> QED BY <3>2 DEF b
  <2> QED
    BY <1>4, <2>3, <2>6
<1> QED
  BY <1>2, <1>3, <1>4, <1>5, <1>6, <1>7, <1>8, <1>9

\* A text takes one cell for its length, and what the length says.
LEMMA TextHeld ==
  ASSUME NEW d \in Seq(Cell), NEW w \in Seq(Cell), Begins(d, w), NEW q \in Nat,
         NEW text, NEW z \in Nat, HoldsText(w, q, text, z), z <= Len(d)
  PROVE  /\ q < z /\ q < Len(d) /\ d[q + 1] \in Cell /\ q + 1 + d[q + 1] = z
         /\ text = FromUtf8Lossy(SubSeq(d, (q + 1) + 1, z))
<1>1. /\ q < Len(w) /\ z = q + 1 + w[q + 1] /\ z <= Len(w)
      /\ text = FromUtf8Lossy(SubSeq(w, q + 2, z))
  BY DEF HoldsText
<1>2. w[q + 1] \in Cell /\ w[q + 1] \in Nat
  <2>1. q + 1 \in 1..Len(w)
    BY <1>1
  <2> QED BY <2>1, ElementOfSeq, CellIsNumber
<1>3. q < z /\ q < Len(d)
  <2>1. Len(d) \in Nat
    OBVIOUS
  <2> QED BY <1>1, <1>2, <2>1
<1>4. d[q + 1] = w[q + 1]
  BY <1>3, BeginsSame
<1>5. SubSeq(d, q + 1 + 1, z) = SubSeq(w, q + 1 + 1, z)
  <2>1. \A i, j \in Nat : j <= Len(d) => SubSeq(d, i + 1, j) = SubSeq(w, i + 1, j)
    BY BeginsSame
  <2>2. q + 1 \in Nat
    OBVIOUS
  <2> QED BY <2>1, <2>2
<1>6. q + 1 + 1 = q + 2
  OBVIOUS
<1> QED
  BY <1>1, <1>2, <1>3, <1>4, <1>5, <1>6

LEMMA StartTextsFollows ==
  ASSUME NEW w, NEW m, NEW at, NEW layouts, InStep(w, m, at, layouts), StartTexts
  PROVE  Follows(w, m, at, layouts)'
<1>1. /\ pc = "rdata" /\ Len(names) > NameCount(fixed[1]) /\ Rest(fixed[1]) = "texts"
      /\ pc' = "texts" /\ current' = offset /\ parts' = <<>>
      /\ UNCHANGED <<data, header, counts, sections, sec, left, fixed, end, names>>
  BY DEF StartTexts, AtRest, inputVars, messageVars, itemVars
<1>2. /\ names = NamesOf(Here(m)) /\ fixed[1] = Here(m).type
      /\ offset = Laid(layouts).names[Len(Here(m).rdata.names)]
      /\ HoldsRecord(w, Start(at), Here(m), Stop(at), Laid(layouts))
      /\ RecordFollows(w, Here(m), Stop(at), Laid(layouts))
  BY <1>1, RestHere
<1>3. /\ IsSequence(Here(m).rdata.rest) /\ offset = Laid(layouts).texts[0]
  BY <1>1, <1>2 DEF HoldsRecord
<1>4. IsPart(<<>>, Here(m).rdata.rest) /\ Len(<<>>) = 0
  BY <1>3, EmptyPart, EmptyIsSeq
<1>5. RecordFollows(w, Here(m), Stop(at), Laid(layouts))'
  BY <1>1, <1>2, <1>3, <1>4, SameSections DEF RecordFollows
<1>6. PlaceFollows(w, m, at, layouts)'
  BY <1>1, <1>5 DEF PlaceFollows, InName
<1> QED
  BY <1>1, <1>6, SameSections DEF Follows

LEMMA ReadTextFollows ==
  ASSUME NEW w, NEW m, NEW at, NEW layouts, InStep(w, m, at, layouts), ReadText
  PROVE  Follows(w, m, at, layouts)'
<1> DEFINE r == Here(m)
           l == Laid(layouts)
           z == l.texts[Len(parts) + 1]
           text == r.rdata.rest[Len(parts) + 1]
           start == current + 1
           stop == start + LengthByte
<1>1. pc = "texts" /\ current < end
  BY DEF ReadText
<1>2. /\ end = Stop(at) /\ Stop(at) <= Len(data) /\ current \in Nat /\ Len(data) \in Nat
      /\ Stop(at) \in Nat
      /\ w \in Seq(Cell) /\ data \in Seq(Cell) /\ Begins(data, w)
      /\ RecordFollows(w, r, Stop(at), l) /\ IsSequence(r.rdata.rest)
      /\ IsPart(parts, r.rdata.rest) /\ Len(parts) \in Nat
  BY <1>1, TextsHere
<1>3. /\ Len(parts) # Len(r.rdata.rest)
      /\ HoldsText(w, current, text, z) /\ z \in Nat /\ z <= end
  <2>1. Len(parts) # Len(r.rdata.rest)
    <3>1. Len(parts) = Len(r.rdata.rest) => current = end
      BY <1>1, TextsHere
    <3> QED BY <1>1, <1>2, <3>1
  <2> QED BY <1>1, <2>1, TextsHere
<1>4. /\ current < z /\ LengthByte \in Cell /\ stop = z
      /\ text = FromUtf8Lossy(SubSeq(data, start + 1, z))
  <2> DEFINE q == current
             d == data
  <2>1. q \in Nat /\ d \in Seq(Cell) /\ HoldsText(w, q, text, z) /\ z \in Nat /\ z <= Len(d)
        /\ Begins(d, w) /\ w \in Seq(Cell)
    <3> HIDE DEF z, text
    <3> QED BY <1>2, <1>3
  <2> HIDE DEF z, text, q, d
  <2>2. /\ q < z /\ d[q + 1] \in Cell /\ q + 1 + d[q + 1] = z
        /\ text = FromUtf8Lossy(SubSeq(d, (q + 1) + 1, z))
    BY <2>1, TextHeld
  <2> QED BY <2>2 DEF q, d, LengthByte
<1>5. /\ parts' = Append(parts, text) /\ current' = z
      /\ UNCHANGED <<data, pc, header, counts, sections, sec, left, fixed, end, names>>
  <2>1. ~(stop > end) /\ start <= stop /\ stop <= Len(data)
    <3>1. start <= z
      <4> HIDE DEF z
      <4> QED BY <1>2, <1>3, <1>4
    <3> HIDE DEF z, stop
    <3> QED BY <1>2, <1>3, <1>4, <3>1
  <2>2. /\ parts' = Append(parts, FromUtf8Lossy(Slice(start, stop))) /\ current' = stop
        /\ UNCHANGED <<inputVars, pc, offset, messageVars, left, itemVars>>
    BY <2>1 DEF ReadText, Reading
  <2>3. FromUtf8Lossy(Slice(start, stop)) = text
    BY <1>4 DEF Slice
  <2> QED
    BY <1>4, <2>2, <2>3 DEF inputVars, messageVars, itemVars
<1>6. IsPart(parts', r.rdata.rest) /\ Len(parts') = Len(parts) + 1
  <2> HIDE DEF r, z
  <2> QED BY <1>2, <1>3, <1>5, PartGrows
<1>7. RecordFollows(w, Here(m), Stop(at), Laid(layouts))'
  <2>1. r' = r /\ l' = l /\ Stop(at)' = Stop(at)
    BY <1>1, <1>5, SameSections
  <2>2. current' = l.texts[Len(parts')]
    BY <1>5, <1>6
  <2>3. Rest(r.type) = "texts" /\ Len(names) = Len(NamesOf(r))
    BY <1>1, <1>2 DEF RecordFollows
  <2> HIDE DEF r, l, z
  <2>4. RecordFollows(w, r, Stop(at), l)'
    BY <1>1, <1>2, <1>5, <1>6, <2>1, <2>2, <2>3 DEF RecordFollows
  <2> QED BY <2>4 DEF r, l
<1>8. PlaceFollows(w, m, at, layouts)'
  BY <1>1, <1>5, <1>7 DEF PlaceFollows, InName
<1> QED
  BY <1>1, <1>5, <1>8, SameSections DEF Follows

LEMMA TextsEndFollows ==
  ASSUME NEW w, NEW m, NEW at, NEW layouts, InStep(w, m, at, layouts), TextsEnd
  PROVE  Follows(w, m, at, layouts)'
<1> DEFINE r == Here(m)
           l == Laid(layouts)
           z == l.texts[Len(parts) + 1]
           text == r.rdata.rest[Len(parts) + 1]
<1>1. pc = "texts" /\ current >= end /\ AcceptRecord(parts)
  BY DEF TextsEnd
<1>2. /\ end = Stop(at) /\ Stop(at) <= Len(data) /\ current \in Nat /\ Len(data) \in Nat
      /\ Stop(at) \in Nat /\ names = NamesOf(r)
      /\ w \in Seq(Cell) /\ data \in Seq(Cell) /\ Begins(data, w)
      /\ IsSequence(r.rdata.rest) /\ IsPart(parts, r.rdata.rest)
  BY <1>1, TextsHere
<1>3. Len(parts) = Len(r.rdata.rest)
  <2> SUFFICES ASSUME Len(parts) # Len(r.rdata.rest) PROVE FALSE
    OBVIOUS
  <2>1. HoldsText(w, current, text, z) /\ z \in Nat /\ z <= end
    BY <1>1, TextsHere
  <2>2. current < z
    <3> DEFINE q == current
               d == data
    <3>1. q \in Nat /\ d \in Seq(Cell) /\ HoldsText(w, q, text, z) /\ z \in Nat
          /\ z <= Len(d) /\ Begins(d, w) /\ w \in Seq(Cell)
      <4> HIDE DEF z, text
      <4> QED BY <1>2, <2>1
    <3> HIDE DEF z, text, q, d
    <3>2. q < z
      BY <3>1, TextHeld
    <3> QED BY <3>2 DEF q
  <2> HIDE DEF z
  <2> QED BY <1>1, <1>2, <2>1, <2>2
<1>4. parts = r.rdata.rest
  BY <1>2, <1>3, WholePart
<1> QED
  BY <1>1, <1>2, <1>4, RecordAccepted

LEMMA StepFollows ==
  ASSUME NEW w, NEW m, NEW at, NEW layouts, InStep(w, m, at, layouts), NInv', Next
  PROVE  GoesOnWith(w, m, at, layouts)
<1>1. CASE HeaderShort \/ ParseHeader
  BY <1>1, HeaderFollows
<1>2. CASE NextItem \/ NextSection \/ Finish
  BY <1>2, LoopsFollow DEF GoesOnWith
<1>3. CASE NameShort \/ BadPointer \/ PointerLoop
  BY <1>3, NameFails DEF GoesOnWith
<1>4. CASE NameEnd
  BY <1>4, NameEndFollows DEF GoesOnWith
<1>5. CASE FollowPointer \/ ReadLabel
  BY <1>5, NamePartFollows DEF GoesOnWith
<1>6. CASE FixedShort
  BY <1>6, FixedShortBreaks DEF GoesOnWith
<1>7. CASE ParseQuestion
  BY <1>7, QuestionFollows DEF GoesOnWith
<1>8. CASE ParseFixed
  BY <1>8, FixedFollows
<1>9. CASE NextName
  BY <1>9, NextNameFollows DEF GoesOnWith
<1>10. CASE SkipRest
  BY <1>10, SkipFollows DEF GoesOnWith
<1>11. CASE SliceRest \/ ParseSoa
  BY <1>11, SliceFollows DEF GoesOnWith
<1>12. CASE StartTexts
  BY <1>12, StartTextsFollows DEF GoesOnWith
<1>13. CASE ReadText
  BY <1>13, ReadTextFollows DEF GoesOnWith
<1>14. CASE TextsEnd
  BY <1>14, TextsEndFollows DEF GoesOnWith
<1> QED
  BY <1>1, <1>2, <1>3, <1>4, <1>5, <1>6, <1>7, <1>8, <1>9, <1>10, <1>11, <1>12, <1>13,
     <1>14 DEF Next, NameStep, ItemStep

\* A step leaves the sections behind it as they are.
LEMMA SectionsStay ==
  ASSUME IInv, Next
  PROVE  /\ sec' = sec \/ (sec' = sec + 1 /\ pc = "item" /\ left = 0)
         /\ sections' = sections \/ \E u : sections' = [sections EXCEPT ![sec] = u]
         /\ pc = "item" /\ left = 0 =>
              /\ sections' = sections
              /\ (pc' = "item" /\ sec' = sec + 1) \/ (pc' = "done" /\ sec' = sec /\ left' = 0)
         /\ pc \notin {"done", "failed", "panicked"}
         /\ data' = data /\ sent' = sent
<1> USE DEF inputVars, messageVars
<1>1. CASE HeaderShort \/ ParseHeader \/ NextItem \/ NextSection \/ Finish
  BY <1>1 DEF HeaderShort, ParseHeader, NextItem, NextSection, Finish
<1>2. ASSUME pc \in {"name", "fixed", "rdata", "texts"},
             \/ Fail \/ Panic \/ (\E item : Accept(item))
             \/ UNCHANGED <<inputVars, sections, sec>>
      PROVE  /\ sec' = sec \/ (sec' = sec + 1 /\ pc = "item" /\ left = 0)
             /\ sections' = sections \/ \E u : sections' = [sections EXCEPT ![sec] = u]
             /\ pc = "item" /\ left = 0 =>
                  /\ sections' = sections
                  /\ (pc' = "item" /\ sec' = sec + 1)
                     \/ (pc' = "done" /\ sec' = sec /\ left' = 0)
             /\ pc \notin {"done", "failed", "panicked"}
             /\ data' = data /\ sent' = sent
  <2>1. CASE \E item : Accept(item)
    <3>1. PICK item : Accept(item)
      BY <2>1
    <3>2. sections' = [sections EXCEPT ![sec] = Append(sections[sec], item)]
      BY <3>1 DEF Accept
    <3> QED BY <1>2, <3>1, <3>2 DEF Accept
  <2>2. CASE Fail \/ Panic \/ UNCHANGED <<inputVars, sections, sec>>
    BY <1>2, <2>2 DEF Fail, Panic
  <2> QED BY <1>2, <2>1, <2>2
<1>3. CASE NameStep
  <2>1. pc = "name" /\ (Fail \/ UNCHANGED <<inputVars, sections, sec>>)
    BY <1>3 DEF NameStep, NameShort, NameEnd, BadPointer, FollowPointer, PointerLoop,
                ReadLabel, AtPointer, AtLabel, AtLength
  <2> QED BY <1>2, <2>1
<1>4. CASE FixedShort \/ ParseQuestion \/ ParseFixed
  <2>1. pc = "fixed"
    BY <1>4 DEF FixedShort, ParseQuestion, ParseFixed
  <2>2. Fail \/ Panic \/ (\E item : Accept(item)) \/ UNCHANGED <<inputVars, sections, sec>>
    BY <1>4 DEF FixedShort, ParseQuestion, ParseFixed, Reading
  <2> QED BY <1>2, <2>1, <2>2
<1>5. CASE NextName \/ StartTexts \/ ReadText
  <2>1. pc \in {"rdata", "texts"}
    BY <1>5 DEF NextName, StartTexts, ReadText, AtRest
  <2>2. Fail \/ Panic \/ UNCHANGED <<inputVars, sections, sec>>
    BY <1>5 DEF NextName, StartTexts, ReadText, StartName, Reading
  <2> QED BY <1>2, <2>1, <2>2
<1>6. CASE SkipRest \/ SliceRest \/ ParseSoa \/ TextsEnd
  <2>1. pc \in {"rdata", "texts"}
    BY <1>6 DEF SkipRest, SliceRest, ParseSoa, TextsEnd, AtRest
  <2>2. ASSUME NEW rest, AcceptRecord(rest) PROVE \E item : Accept(item)
    BY <2>2 DEF AcceptRecord
  <2>3. Fail \/ Panic \/ (\E item : Accept(item))
    <3>1. CASE SkipRest
      BY <2>2, <3>1 DEF SkipRest
    <3>2. CASE SliceRest
      BY <2>2, <3>2 DEF SliceRest, Reading
    <3>3. CASE ParseSoa
      BY <2>2, <3>3 DEF ParseSoa, Reading
    <3>4. CASE TextsEnd
      BY <2>2, <3>4 DEF TextsEnd
    <3> QED BY <1>6, <3>1, <3>2, <3>3, <3>4
  <2> QED BY <1>2, <2>1, <2>3
<1> QED
  BY <1>1, <1>3, <1>4, <1>5, <1>6 DEF Next, ItemStep

LEMMA BrokenStays ==
  ASSUME NEW w, NEW m, IInv, Broken(w, m), Next
  PROVE  Broken(w, m)'
<1>1. PICK b \in 2..4 : BrokenAt(m, b)
  BY SectionsStay DEF Broken
<1>2. sec \in 1..4
  BY DEF IInv, TypeOK
<1>3. \A s \in 1..b : sections'[s] = sections[s]
  <2>1. CASE sections' = sections
    BY <2>1
  <2>2. CASE sections' # sections
    <3>1. sec > b
      BY <1>1, <2>2, SectionsStay DEF BrokenAt
    <3>2. PICK u : sections' = [sections EXCEPT ![sec] = u]
      BY <2>2, SectionsStay
    <3>3. \A s \in 1..b : s # sec /\ s \in 1..4
      BY <1>1, <1>2, <3>1
    <3>4. sections = [s \in 1..4 |-> sections[s]]
      BY <1>1 DEF BrokenAt
    <3>5. \A s \in 1..4 : s # sec => [sections EXCEPT ![sec] = u][s] = sections[s]
      BY <3>4
    <3> QED BY <3>2, <3>3, <3>5
  <2> QED BY <2>1, <2>2
<1>4. sections' = [s \in 1..4 |-> sections'[s]]
  <2>1. sections = [s \in 1..4 |-> sections[s]]
    BY <1>1 DEF BrokenAt
  <2>2. CASE sections' = sections
    BY <2>1, <2>2
  <2>3. CASE \E u : sections' = [sections EXCEPT ![sec] = u]
    BY <2>1, <2>3
  <2> QED BY <2>2, <2>3, SectionsStay
<1>5. sec' > b \/ (sec' = b /\ pc' \in {"item", "done"} /\ left' = 0)
  <2>1. CASE sec > b
    BY <1>2, <2>1, SectionsStay
  <2>2. CASE sec = b /\ pc \in {"item", "done"} /\ left = 0
    BY <1>2, <2>2, SectionsStay
  <2> QED BY <1>1, <2>1, <2>2 DEF BrokenAt
<1>6. BrokenAt(m, b)'
  <2>1. b \in 1..b /\ \A s \in 1..b - 1 : s \in 1..b
    OBVIOUS
  <2> QED BY <1>1, <1>3, <1>4, <1>5, <2>1 DEF BrokenAt
<1>7. Begins(data', w) /\ Len(data') # Len(w)
  BY SectionsStay DEF Broken
<1> QED
  BY <1>6, <1>7 DEF Broken

(***************************************************************************)
(* The invariant: the cells are the beginning of a message that is known, or *)
(* all of it, and the parser follows it up to a break, if there is one.     *)
(***************************************************************************)
ReadAsWritten ==
  sent.known /\ (sent.reply => Writable(sent.msg)) =>
    \E w, at, layouts :
      /\ Known(w, sent.msg, at, layouts)
      /\ sent.whole <=> Len(data) = Len(w)
      /\ Follows(w, sent.msg, at, layouts) \/ Broken(w, sent.msg)

LEMMA NothingYet ==
  ASSUME NEW w, NEW m, NEW at, NEW layouts, Known(w, m, at, layouts)
  PROVE  /\ NoSections = [s \in 1..4 |-> NoSections[s]]
         /\ \A s \in 1..4 : NoSections[s] = <<>> /\ IsPart(NoSections[s], m.sections[s])
<1>1. \A s \in 1..4 : IsPart(<<>>, m.sections[s])
  BY EmptyPart, MessageHeld
<1>2. NoSections = [s \in 1..4 |-> NoSections[s]] /\ \A s \in 1..4 : NoSections[s] = <<>>
  BY DEF NoSections
<1> HIDE DEF NoSections
<1>3. \A s \in 1..4 : IsPart(NoSections[s], m.sections[s])
  BY <1>1, <1>2
<1> QED
  BY <1>2, <1>3

LEMMA InitAsWritten ==
  ASSUME SentAsKnown, Init
  PROVE  ReadAsWritten
<1> SUFFICES ASSUME sent.known
             PROVE  \E w, at, layouts :
                      /\ Known(w, sent.msg, at, layouts)
                      /\ sent.whole <=> Len(data) = Len(w)
                      /\ Follows(w, sent.msg, at, layouts)
  BY DEF ReadAsWritten
<1>1. PICK i \in Inputs : data = i.data /\ sent = i.sent
  BY DEF Init
<1>2. data \in Seq(Cell)
  BY <1>1, InputAssumption
<1>3. PICK w \in Seq(Cell) : /\ Holds(w, sent.msg)
                             /\ IF sent.whole THEN data = w ELSE IsStrictPrefix(data, w)
  BY <1>1 DEF SentAsKnown
<1>4. PICK at, layouts : HoldsMessage(w, sent.msg, at, layouts)
  BY <1>3 DEF Holds
<1>5. Known(w, sent.msg, at, layouts)
  BY <1>3, <1>4 DEF Known
<1>6. Begins(data, w) /\ (sent.whole <=> Len(data) = Len(w))
  <2>1. CASE sent.whole
    <3>1. data = w /\ Len(w) \in Nat
      BY <1>3, <2>1
    <3> QED BY <2>1, <3>1 DEF Begins
  <2>2. CASE ~sent.whole
    BY <1>2, <1>3, <2>2, PrefixBegins
  <2> QED BY <2>1, <2>2
<1>7. Follows(w, sent.msg, at, layouts)
  <2>1. pc = "header" /\ offset = 0 /\ sec = 1 /\ sections = NoSections
    BY DEF Init
  <2>2. SectionsFollow(sent.msg)
    <3>1. /\ NoSections = [s \in 1..4 |-> NoSections[s]]
          /\ \A s \in 1..4 : NoSections[s] = <<>> /\ IsPart(NoSections[s], sent.msg.sections[s])
      BY <1>5, NothingYet
    <3>2. 1..sec - 1 = {} /\ \A s \in sec + 1..4 : s \in 1..4
      BY <2>1
    <3> HIDE DEF NoSections
    <3> QED BY <2>1, <3>1, <3>2 DEF SectionsFollow
  <2> QED
    BY <1>6, <2>1, <2>2 DEF Follows, PlaceFollows, InRecord, InName
<1> QED
  BY <1>5, <1>6, <1>7

LEMMA NextAsWritten ==
  ASSUME NInv, NInv', ReadAsWritten, Next
  PROVE  ReadAsWritten'
<1>1. sent' = sent /\ data' = data
  BY SectionsStay DEF NInv
<1> SUFFICES ASSUME sent.known, sent.reply => Writable(sent.msg)
             PROVE  \E w, at, layouts :
                      /\ Known(w, sent.msg, at, layouts)
                      /\ sent.whole <=> Len(data') = Len(w)
                      /\ Follows(w, sent.msg, at, layouts)' \/ Broken(w, sent.msg)'
  BY <1>1 DEF ReadAsWritten
<1>2. PICK w, at, layouts : /\ Known(w, sent.msg, at, layouts)
                            /\ sent.whole <=> Len(data) = Len(w)
                            /\ Follows(w, sent.msg, at, layouts) \/ Broken(w, sent.msg)
  BY DEF ReadAsWritten
<1> DEFINE m == sent.msg
<1>3. m' = m
  BY <1>1
<1>4. CASE Broken(w, m)
  BY <1>1, <1>2, <1>3, <1>4, BrokenStays DEF NInv
<1>5. CASE Follows(w, m, at, layouts)
  BY <1>1, <1>2, <1>3, <1>5, StepFollows DEF InStep, GoesOnWith
<1> QED
  BY <1>2, <1>4, <1>5

\* A parser that has followed the message to the end has read all of it.
LEMMA FollowedToTheEnd ==
  ASSUME NEW w, NEW m, NEW at, NEW layouts, InStep(w, m, at, layouts), pc = "done"
  PROVE  /\ Message = m /\ offset = Len(w)
         /\ Len(data) = Len(w)
<1>1. /\ sec = 4 /\ left = 0 /\ SectionsFollow(m) /\ CountsFollow(m) /\ offset = Start(at)
      /\ Start(at) <= Len(data) /\ Begins(data, w) /\ data \in Seq(Cell)
  BY DEF InStep, Follows, PlaceFollows, NInv, IInv, TypeOK
<1>2. \A s \in 1..4 : IsSequence(m.sections[s]) /\ Len(m.sections[s]) \in Nat
  BY MessageHeld DEF InStep
<1>3. \A s \in 1..4 : IsPart(sections[s], m.sections[s])
  BY <1>1 DEF SectionsFollow
<1>4. ASSUME NEW s \in 1..4 PROVE Len(sections[s]) = Len(m.sections[s])
  <2>1. CASE s \in 1..3
    <3>1. s \in 1..sec - 1
      BY <1>1, <2>1
    <3> QED BY <1>1, <3>1 DEF SectionsFollow
  <2>2. CASE s = 4
    <3> DEFINE k == Len(sections[s])
               n == Len(m.sections[s])
    <3>1. k \in 0..n /\ n \in Nat /\ 0 = n - k
      BY <1>1, <1>2, <1>3, <2>2 DEF IsPart, CountsFollow
    <3> HIDE DEF k, n
    <3>2. k = n
      BY <3>1
    <3> QED BY <3>2 DEF k, n
  <2> QED BY <2>1, <2>2
<1>5. Message = m
  <2>1. \A s \in 1..4 : sections[s] = m.sections[s]
    BY <1>2, <1>3, <1>4, WholePart
  <2>2. m.sections = [s \in 1..4 |-> m.sections[s]]
    <3>1. IsSequence(m.sections) /\ Len(m.sections) = 4
      BY DEF InStep, Known, HoldsMessage
    <3> QED BY <3>1 DEF IsSequence
  <2>3. sections = [s \in 1..4 |-> sections[s]]
    BY <1>1 DEF SectionsFollow
  <2>4. sections = m.sections
    BY <2>1, <2>2, <2>3
  <2>5. m = [header |-> m.header, sections |-> m.sections] /\ header = m.header
    BY <1>1 DEF InStep, Known, HoldsMessage, CountsFollow
  <2> QED BY <2>4, <2>5 DEF Message
<1>6. offset = Len(w) /\ Start(at) = Len(w)
  <2>1. at[4][Len(m.sections[4])] = Len(w)
    BY MessageHeld DEF InStep
  <2>2. Len(sections[4]) = Len(m.sections[4])
    BY <1>4
  <2>3. Start(at) = at[4][Len(m.sections[4])]
    BY <1>1, <2>2 DEF Start
  <2> QED BY <1>1, <2>1, <2>3
<1>7. Len(data) = Len(w)
  BY <1>1, <1>6 DEF Begins, InStep, Known
<1> QED
  BY <1>5, <1>6, <1>7

\* What the invariant says of messages that came whole, and of those that were cut.
LEMMA WholeIsFollowed ==
  ASSUME NInv, ReadAsWritten, sent.known, sent.whole, sent.reply => Writable(sent.msg)
  PROVE  /\ pc \notin {"failed", "panicked"}
         /\ pc = "done" => Message = sent.msg /\ offset = Len(data)
<1>1. PICK w, at, layouts : /\ Known(w, sent.msg, at, layouts) /\ Len(data) = Len(w)
                            /\ Follows(w, sent.msg, at, layouts)
  BY DEF ReadAsWritten, Broken
<1> QED
  BY <1>1, FollowedToTheEnd DEF InStep, Follows

LEMMA CutIsBroken ==
  ASSUME NInv, ReadAsWritten, sent.known, ~sent.whole, ~sent.reply,
         pc \in {"done", "panicked"}
  PROVE  \E b \in 2..4 :
           /\ \A s \in 1..b - 1 : sections[s] = sent.msg.sections[s]
           /\ IsStrictPrefix(sections[b], sent.msg.sections[b])
<1> DEFINE m == sent.msg
<1>1. PICK w, at, layouts : /\ Known(w, m, at, layouts) /\ Len(data) # Len(w)
                            /\ Follows(w, m, at, layouts) \/ Broken(w, m)
  BY DEF ReadAsWritten
<1>2. ~Follows(w, m, at, layouts)
  BY <1>1, FollowedToTheEnd DEF InStep, Follows
<1>3. PICK b \in 2..4 : BrokenAt(m, b)
  BY <1>1, <1>2 DEF Broken
<1>4. IsStrictPrefix(sections[b], m.sections[b])
  <2>1. IsSequence(m.sections[b])
    BY <1>1, MessageHeld
  <2> QED BY <1>3, <2>1, ShorterPart DEF BrokenAt
<1> QED
  BY <1>3, <1>4 DEF BrokenAt

LEMMA WrittenSays ==
  ASSUME NInv, ReadAsWritten
  PROVE  RoundTrip /\ UpToTheBreak
<1>1. RoundTrip
  BY WholeIsFollowed DEF RoundTrip
<1>2. UpToTheBreak
  BY CutIsBroken DEF UpToTheBreak
<1> QED
  BY <1>1, <1>2

LEMMA StutterAsWritten ==
  ASSUME ReadAsWritten, UNCHANGED vars
  PROVE  ReadAsWritten'
<1>1. /\ sent' = sent /\ data' = data /\ pc' = pc /\ offset' = offset /\ header' = header
      /\ counts' = counts /\ sections' = sections /\ sec' = sec /\ left' = left
      /\ from' = from /\ current' = current /\ parts' = parts /\ fixed' = fixed
      /\ end' = end /\ names' = names
  BY DEF vars, inputVars, messageVars, nameVars, itemVars
<1> SUFFICES ASSUME sent.known, sent.reply => Writable(sent.msg)
             PROVE  \E w, at, layouts :
                      /\ Known(w, sent.msg, at, layouts)
                      /\ sent.whole <=> Len(data) = Len(w)
                      /\ Follows(w, sent.msg, at, layouts)' \/ Broken(w, sent.msg)'
  BY <1>1 DEF ReadAsWritten
<1>2. PICK w, at, layouts : /\ Known(w, sent.msg, at, layouts)
                            /\ sent.whole <=> Len(data) = Len(w)
                            /\ Follows(w, sent.msg, at, layouts) \/ Broken(w, sent.msg)
  BY DEF ReadAsWritten
<1>3. Follows(w, sent.msg, at, layouts) => Follows(w, sent.msg, at, layouts)'
  <2>1. InRecord' = InRecord /\ InName' = InName
    BY <1>1 DEF InRecord, InName
  <2>2. SectionsFollow(sent.msg) => SectionsFollow(sent.msg)'
    BY <1>1 DEF SectionsFollow
  <2>3. CountsFollow(sent.msg) => CountsFollow(sent.msg)'
    BY <1>1 DEF CountsFollow
  <2>4. /\ Here(sent.msg)' = Here(sent.msg) /\ Start(at)' = Start(at) /\ Stop(at)' = Stop(at)
        /\ Laid(layouts)' = Laid(layouts)
    BY <1>1 DEF Here, Start, Stop, Laid
  <2>5. PlaceFollows(w, sent.msg, at, layouts) => PlaceFollows(w, sent.msg, at, layouts)'
    <3>1. RecordFollows(w, Here(sent.msg), Stop(at), Laid(layouts))
            => RecordFollows(w, Here(sent.msg), Stop(at), Laid(layouts))'
      BY <1>1, <2>4 DEF RecordFollows
    <3> QED BY <1>1, <2>1, <2>4, <3>1 DEF PlaceFollows
  <2> QED BY <1>1, <2>2, <2>3, <2>4, <2>5 DEF Follows
<1>4. Broken(w, sent.msg) => Broken(w, sent.msg)'
  BY <1>1 DEF Broken, BrokenAt
<1> QED
  BY <1>2, <1>3, <1>4

-----------------------------------------------------------------------------
(***************************************************************************)
(* Texts.  What from_utf8_lossy makes of any bytes, and that it gives back  *)
(* a text of such characters from its bytes.                                *)
(***************************************************************************)
TextChar == 0..127 \cup {Replacement}

RepAt(b, i) == i + 2 <= Len(b) /\ SubSeq(b, i, i + 2) = ReplacementBytes
CharAt(b, i) == IF b[i] < 128 THEN b[i] ELSE Replacement

TextAt(b, f, i) ==
  IF i > Len(b) THEN <<>>
  ELSE IF RepAt(b, i) THEN <<Replacement>> \o f[i + 3]
  ELSE <<CharAt(b, i)>> \o f[i + 1]

IsText(b, f) == f = [i \in 1..Len(b) + 1 |-> TextAt(b, f, i)]

LEMMA InFront ==
  ASSUME NEW S, NEW e \in S, NEW s \in Seq(S)
  PROVE  /\ <<e>> \o s \in Seq(S) /\ Len(<<e>> \o s) = Len(s) + 1
         /\ (<<e>> \o s)[1] = e /\ \A i \in 1..Len(s) : (<<e>> \o s)[i + 1] = s[i]
<1>1. <<e>> \in Seq(S) /\ Len(<<e>>) = 1 /\ Len(s) \in Nat /\ <<e>>[1] = e
  OBVIOUS
<1> DEFINE h == <<e>>
           u == h \o s
<1>2. h \in Seq(S) /\ Len(h) = 1 /\ h[1] = e
  BY <1>1
<1> HIDE DEF h
<1>3. /\ u \in Seq(S) /\ Len(u) = 1 + Len(s)
      /\ \A i \in 1..1 + Len(s) : u[i] = IF i <= 1 THEN h[i] ELSE s[i - 1]
  <2>1. h \in Seq(S) /\ s \in Seq(S)
    BY <1>2
  <2>2. /\ h \o s \in Seq(S) /\ Len(h \o s) = Len(h) + Len(s)
        /\ \A i \in 1..Len(h) + Len(s) :
             (h \o s)[i] = IF i <= Len(h) THEN h[i] ELSE s[i - Len(h)]
    BY <2>1, ConcatProperties
  <2> QED BY <1>2, <2>2
<1> HIDE DEF u
<1>4. u[1] = e
  <2>1. 1 \in 1..1 + Len(s)
    BY <1>1
  <2> QED BY <1>2, <1>3, <2>1
<1>5. \A i \in 1..Len(s) : u[i + 1] = s[i]
  <2> SUFFICES ASSUME NEW i \in 1..Len(s) PROVE u[i + 1] = s[i]
    OBVIOUS
  <2>1. i + 1 \in 1..1 + Len(s) /\ ~(i + 1 <= 1) /\ (i + 1) - 1 = i
    BY <1>1
  <2> QED BY <1>3, <2>1
<1>6. Len(u) = Len(s) + 1
  BY <1>1, <1>3
<1> QED
  BY <1>3, <1>4, <1>5, <1>6 DEF u, h

LEMMA TextAtTyped ==
  ASSUME NEW b \in Seq(Cell), NEW f, NEW i \in 1..Len(b) + 1,
         \A j \in 1..Len(b) + 1 : j > i => f[j] \in Seq(TextChar)
  PROVE  /\ TextAt(b, f, i) \in Seq(TextChar)
         /\ i <= Len(b) => TextAt(b, f, i) # <<>>
<1>1. Len(b) \in Nat
  OBVIOUS
<1>2. CASE i > Len(b)
  BY <1>1, <1>2 DEF TextAt
<1>3. CASE ~(i > Len(b)) /\ RepAt(b, i)
  <2>1. f[i + 3] \in Seq(TextChar)
    <3>1. i + 3 \in 1..Len(b) + 1 /\ i + 3 > i
      BY <1>1, <1>3 DEF RepAt
    <3> QED BY <3>1
  <2>2. Replacement \in TextChar
    BY DEF TextChar
  <2> DEFINE e == Replacement
             s == f[i + 3]
  <2> HIDE DEF e, s
  <2>3. <<e>> \o s \in Seq(TextChar) /\ Len(<<e>> \o s) = Len(s) + 1 /\ Len(s) \in Nat
    BY <2>1, <2>2, InFront, LenProperties DEF e, s
  <2>4. <<e>> \o s # <<>>
    BY <2>3, EmptyIsSeq
  <2> QED BY <1>3, <2>3, <2>4 DEF TextAt, e, s
<1>4. CASE ~(i > Len(b)) /\ ~RepAt(b, i)
  <2>1. f[i + 1] \in Seq(TextChar)
    <3>1. i + 1 \in 1..Len(b) + 1 /\ i + 1 > i
      BY <1>1, <1>4
    <3> QED BY <3>1
  <2>2. CharAt(b, i) \in TextChar
    <3>1. b[i] \in Cell
      <4>1. i \in 1..Len(b)
        BY <1>1, <1>4
      <4> QED BY <4>1, ElementOfSeq
    <3> DEFINE c == b[i]
    <3>2. c \in 0..255
      BY <3>1 DEF Cell
    <3> HIDE DEF c
    <3>3. c < 128 => c \in 0..127
      BY <3>2
    <3> QED BY <3>3 DEF CharAt, TextChar, c
  <2> DEFINE e == CharAt(b, i)
             s == f[i + 1]
  <2> HIDE DEF e, s
  <2>3. <<e>> \o s \in Seq(TextChar) /\ Len(<<e>> \o s) = Len(s) + 1 /\ Len(s) \in Nat
    BY <2>1, <2>2, InFront, LenProperties DEF e, s
  <2>4. <<e>> \o s # <<>>
    BY <2>3, EmptyIsSeq
  <2> QED BY <1>4, <2>3, <2>4 DEF TextAt, e, s
<1> QED
  BY <1>2, <1>3, <1>4

LEMMA TextExists ==
  ASSUME NEW b \in Seq(Cell)
  PROVE  \E f : IsText(b, f)
<1> DEFINE n == Len(b)
           V == [1..n + 1 -> Seq(TextChar)]
           base == [i \in 1..n + 1 |-> <<>>]
           step == [h \in V |-> [i \in 1..n + 1 |-> TextAt(b, h, i)]]
<1>1. n \in Nat
  OBVIOUS
<1>2. base \in V
  BY EmptySeq
<1>3. step \in [V -> V]
  <2> SUFFICES ASSUME NEW h \in V PROVE [i \in 1..n + 1 |-> TextAt(b, h, i)] \in V
    OBVIOUS
  <2>1. \A i \in 1..n + 1 : TextAt(b, h, i) \in Seq(TextChar)
    BY TextAtTyped
  <2> QED BY <2>1
<1>4. PICK g \in [Nat -> V] : g[0] = base /\ \A k \in Nat : g[k + 1] = step[g[k]]
  <2> HIDE DEF V, base, step
  <2>1. Iterates(V, base, step)
    BY <1>2, <1>3, Iteration
  <2> QED BY <2>1 DEF Iterates
<1>5. \A k \in Nat : g[k] \in V
  OBVIOUS
<1>6. \A k \in Nat : \A i \in 1..n + 1 : g[k + 1][i] = TextAt(b, g[k], i)
  <2> SUFFICES ASSUME NEW k \in Nat, NEW i \in 1..n + 1
               PROVE  g[k + 1][i] = TextAt(b, g[k], i)
    OBVIOUS
  <2>1. g[k + 1] = step[g[k]] /\ g[k] \in V
    BY <1>4, <1>5
  <2>2. step[g[k]] = [j \in 1..n + 1 |-> TextAt(b, g[k], j)]
    <3> HIDE DEF V
    <3> QED BY <2>1
  <2> QED BY <2>1, <2>2
<1>7. g[0] = base
  BY <1>4
<1> DEFINE Stable == {k \in Nat : \A i \in 1..n + 1 : i + k >= n + 1 => g[k + 1][i] = g[k][i]}
<1>8. Nat \subseteq Stable
  <2>1. 0 \in Stable
    <3> SUFFICES ASSUME NEW i \in 1..n + 1, i + 0 >= n + 1 PROVE g[0 + 1][i] = g[0][i]
      OBVIOUS
    <3>1. i > n
      BY <1>1
    <3>2. TextAt(b, g[0], i) = <<>>
      BY <3>1 DEF TextAt
    <3> QED BY <1>6, <1>7, <3>2
  <2>2. ASSUME NEW k \in Nat, k \in Stable PROVE k + 1 \in Stable
    <3> SUFFICES ASSUME NEW i \in 1..n + 1, i + (k + 1) >= n + 1
                 PROVE  g[k + 1 + 1][i] = g[k + 1][i]
      OBVIOUS
    <3>1. g[k + 1 + 1][i] = TextAt(b, g[k + 1], i) /\ g[k + 1][i] = TextAt(b, g[k], i)
      <4>1. k + 1 \in Nat
        OBVIOUS
      <4> QED BY <1>6, <4>1
    <3>2. \A j \in 1..n + 1 : j > i => g[k + 1][j] = g[k][j]
      BY <1>1, <2>2
    <3>3. TextAt(b, g[k + 1], i) = TextAt(b, g[k], i)
      <4>1. ~(i > n) => i + 1 \in 1..n + 1 /\ i + 1 > i
        BY <1>1
      <4>2. RepAt(b, i) => i + 3 \in 1..n + 1 /\ i + 3 > i
        BY <1>1 DEF RepAt
      <4> QED BY <3>2, <4>1, <4>2 DEF TextAt
    <3> QED BY <3>1, <3>3
  <2> HIDE DEF Stable
  <2> QED BY <2>1, <2>2, AllNaturals
<1>9. n \in Stable
  <2> HIDE DEF Stable
  <2> QED BY <1>1, <1>8
<1> DEFINE f == g[n]
<1>10. \A i \in 1..n + 1 : f[i] = TextAt(b, f, i)
  <2>1. \A i \in 1..n + 1 : i + n >= n + 1
    BY <1>1
  <2> QED BY <1>1, <1>6, <1>9, <2>1
<1>11. f \in V
  BY <1>1, <1>5
<1>12. f = [i \in 1..n + 1 |-> TextAt(b, f, i)]
  <2> HIDE DEF f
  <2> QED BY <1>10, <1>11
<1> QED
  BY <1>12 DEF IsText

LEMMA LossyUnfold ==
  ASSUME NEW b \in Seq(Cell)
  PROVE  \E f : IsText(b, f) /\ FromUtf8Lossy(b) = f[1]
<1> DEFINE f == CHOOSE f : IsText(b, f)
<1>1. IsText(b, f)
  BY TextExists
<1>2. FromUtf8Lossy(b) = f[1]
  BY DEF FromUtf8Lossy, IsText, TextAt, RepAt, CharAt
<1> HIDE DEF f
<1> QED
  BY <1>1, <1>2

-----------------------------------------------------------------------------
(***************************************************************************)
(* Sequences of sequences: FlattenSeq puts them one behind the other.       *)
(***************************************************************************)
Flattening(us, flat) ==
  /\ flat[0] = <<>>
  /\ \A i \in 1..Len(us) : flat[i] = flat[i - 1] \o us[i]

LEMMA EmptyConcat ==
  ASSUME NEW S, NEW s \in Seq(S)
  PROVE  <<>> \o s = s /\ s \o <<>> = s
OBVIOUS

LEMMA FlattenParts ==
  ASSUME NEW S, NEW us \in Seq(Seq(S))
  PROVE  \E flat \in [0..Len(us) -> Seq(S)] : Flattening(us, flat)
<1> DEFINE n == Len(us)
           V == Nat \X Seq(S)
           base == <<0, <<>> >>
           Longer(v) == IF v[1] + 1 \in 1..n THEN v[2] \o us[v[1] + 1] ELSE v[2]
           More(v) == <<v[1] + 1, Longer(v)>>
           step == [v \in V |-> More(v)]
<1>1. n \in Nat /\ \A i \in 1..n : us[i] \in Seq(S)
  BY LenProperties, ElementOfSeq
<1>2. base \in V
  BY EmptySeq
<1>3. step \in [V -> V]
  <2> SUFFICES ASSUME NEW v \in V PROVE More(v) \in V
    OBVIOUS
  <2>1. v[1] + 1 \in Nat /\ v[2] \in Seq(S)
    OBVIOUS
  <2>2. v[1] + 1 \in 1..n => v[2] \o us[v[1] + 1] \in Seq(S)
    BY <1>1, <2>1, ConcatProperties
  <2> QED BY <2>1, <2>2
<1>4. PICK g \in [Nat -> V] : g[0] = base /\ \A k \in Nat : g[k + 1] = step[g[k]]
  <2> HIDE DEF V, base, step
  <2>1. Iterates(V, base, step)
    BY <1>2, <1>3, Iteration
  <2> QED BY <2>1 DEF Iterates
<1>5. \A k \in Nat : g[k] \in V /\ g[k + 1] = More(g[k])
  <2> SUFFICES ASSUME NEW k \in Nat PROVE g[k] \in V /\ g[k + 1] = More(g[k])
    OBVIOUS
  <2>1. g[k] \in V
    <3> HIDE DEF V
    <3> QED OBVIOUS
  <2>2. step[g[k]] = More(g[k])
    <3> HIDE DEF V, More
    <3> QED BY <2>1
  <2> QED BY <1>4, <2>1, <2>2
<1> DEFINE Counted == {k \in Nat : g[k][1] = k}
<1>6. Nat \subseteq Counted
  <2>1. 0 \in Counted
    BY <1>4
  <2>2. ASSUME NEW k \in Nat, k \in Counted PROVE k + 1 \in Counted
    <3>1. g[k + 1] = More(g[k]) /\ g[k][1] = k
      BY <1>5, <2>2
    <3> HIDE DEF Longer
    <3>2. g[k + 1][1] = g[k][1] + 1
      BY <3>1
    <3> QED BY <3>1, <3>2
  <2> HIDE DEF Counted
  <2> QED BY <2>1, <2>2, AllNaturals
<1> DEFINE flat == [i \in 0..n |-> g[i][2]]
<1>7. flat \in [0..n -> Seq(S)]
  <2>1. \A i \in 0..n : g[i][2] \in Seq(S)
    BY <1>1, <1>5
  <2> QED BY <2>1
<1>8. flat[0] = <<>>
  BY <1>1, <1>4
<1>9. ASSUME NEW i \in 1..n PROVE flat[i] = flat[i - 1] \o us[i]
  <2> DEFINE k == i - 1
  <2>1. k \in Nat /\ k + 1 = i /\ k \in 0..n /\ i \in 0..n
    BY <1>1
  <2> HIDE DEF k
  <2>2. g[k + 1] = More(g[k]) /\ g[k][1] = k
    BY <1>5, <1>6, <2>1
  <2>3. Longer(g[k]) = g[k][2] \o us[i]
    BY <2>1, <2>2
  <2>4. g[k + 1][2] = Longer(g[k])
    <3> HIDE DEF Longer
    <3> QED BY <2>2
  <2> QED BY <2>1, <2>3, <2>4 DEF k
<1> HIDE DEF flat
<1> QED
  BY <1>7, <1>8, <1>9 DEF Flattening

LEMMA FlattenUnfold ==
  ASSUME NEW S, NEW us \in Seq(Seq(S))
  PROVE  \E flat \in [0..Len(us) -> Seq(S)] :
           Flattening(us, flat) /\ FlattenSeq(us) = flat[Len(us)]
<1> DEFINE n == Len(us)
<1>1. n \in Nat /\ \A i \in 1..n : us[i] \in Seq(S)
  BY LenProperties, ElementOfSeq
<1>2. PICK flat \in [0..n -> Seq(S)] : Flattening(us, flat)
  BY FlattenParts
<1>3. CASE n = 0
  <2>1. us = <<>>
    BY <1>3, EmptySeq
  <2>2. FlattenSeq(us) = us
    BY <1>3 DEF FlattenSeq
  <2>3. flat[0] = <<>>
    BY <1>2 DEF Flattening
  <2> QED BY <1>2, <1>3, <2>1, <2>2, <2>3
<1>4. CASE n # 0
  <2> DEFINE Unfolds(f) == f = [i \in 1..n |-> IF i = 1 THEN us[i] ELSE f[i - 1] \o us[i]]
             c == CHOOSE f : Unfolds(f)
             first == [i \in 1..n |-> flat[i]]
  <2>1. \A i \in 1..n : flat[i] = IF i = 1 THEN us[i] ELSE first[i - 1] \o us[i]
    <3> SUFFICES ASSUME NEW i \in 1..n
                 PROVE  flat[i] = IF i = 1 THEN us[i] ELSE first[i - 1] \o us[i]
      OBVIOUS
    <3>1. flat[i] = flat[i - 1] \o us[i]
      BY <1>2 DEF Flattening
    <3>2. CASE i = 1
      <4>1. flat[0] = <<>> /\ i - 1 = 0 /\ us[i] \in Seq(S)
        BY <1>1, <1>2, <3>2 DEF Flattening
      <4> QED BY <3>1, <3>2, <4>1, EmptyConcat
    <3>3. CASE i # 1
      <4>1. i - 1 \in 1..n
        BY <1>1, <3>3
      <4> QED BY <3>1, <3>3, <4>1
    <3> QED BY <3>2, <3>3
  <2>2. Unfolds(first)
    BY <2>1
  <2>3. Unfolds(c)
    <3> HIDE DEF first, Unfolds
    <3> QED BY <2>2
  <2>4. FlattenSeq(us) = c[n]
    BY <1>4 DEF FlattenSeq
  <2> HIDE DEF c
  <2>5. \A i \in 1..n : c[i] = IF i = 1 THEN us[i] ELSE c[i - 1] \o us[i]
    BY <2>3
  <2> DEFINE Alike == {k \in Nat : k \in 1..n => c[k] = flat[k]}
  <2>6. Nat \subseteq Alike
    <3>1. 0 \in Alike
      OBVIOUS
    <3>2. ASSUME NEW k \in Nat, k \in Alike PROVE k + 1 \in Alike
      <4> SUFFICES ASSUME k + 1 \in 1..n PROVE c[k + 1] = flat[k + 1]
        OBVIOUS
      <4>1. CASE k = 0
        <5>1. 1 \in 1..n /\ c[1] = us[1]
          BY <2>5, <4>1
        <5>2. flat[1] = us[1]
          BY <2>1, <5>1
        <5> QED BY <4>1, <5>1, <5>2
      <4>2. CASE k # 0
        <5>1. k \in 1..n /\ k + 1 # 1 /\ (k + 1) - 1 = k
          BY <1>1, <4>2
        <5>2. c[k + 1] = c[k] \o us[k + 1] /\ c[k] = flat[k]
          BY <2>5, <3>2, <5>1
        <5>3. flat[k + 1] = flat[k] \o us[k + 1]
          BY <1>2, <5>1 DEF Flattening
        <5> QED BY <5>2, <5>3
      <4> QED BY <4>1, <4>2
    <3> HIDE DEF Alike
    <3> QED BY <3>1, <3>2, AllNaturals
  <2>7. n \in 1..n
    BY <1>1, <1>4
  <2>8. c[n] = flat[n]
    BY <1>1, <2>6, <2>7
  <2> QED BY <1>2, <2>4, <2>8
<1> QED
  BY <1>3, <1>4

LEMMA FunctionIsSeq ==
  ASSUME NEW S, NEW n \in Nat, NEW s \in [1..n -> S]
  PROVE  s \in Seq(S) /\ Len(s) = n
OBVIOUS

LEMMA FlattenTyped ==
  ASSUME NEW S, NEW us \in Seq(Seq(S))
  PROVE  FlattenSeq(us) \in Seq(S)
<1>1. PICK flat \in [0..Len(us) -> Seq(S)] : FlattenSeq(us) = flat[Len(us)]
  BY FlattenUnfold
<1>2. Len(us) \in 0..Len(us)
  OBVIOUS
<1> QED
  BY <1>1, <1>2

\* The cells u stand in w behind the first q.
StandsAt(w, q, u) == q + Len(u) <= Len(w) /\ \A i \in 1..Len(u) : w[q + i] = u[i]

LEMMA StandsAtStart ==
  ASSUME NEW S, NEW w \in Seq(S)
  PROVE  StandsAt(w, 0, w)
BY LenProperties DEF StandsAt

LEMMA ConcatStands ==
  ASSUME NEW S, NEW u \in Seq(S), NEW v \in Seq(S), NEW w \in Seq(S), NEW q \in Nat,
         StandsAt(w, q, u \o v)
  PROVE  StandsAt(w, q, u) /\ StandsAt(w, q + Len(u), v)
<1> DEFINE m == Len(u)
           n == Len(v)
           c == u \o v
<1>1. m \in Nat /\ n \in Nat /\ Len(w) \in Nat
  OBVIOUS
<1>2. /\ Len(c) = m + n
      /\ \A i \in 1..m + n : c[i] = IF i <= m THEN u[i] ELSE v[i - m]
  BY ConcatProperties
<1>3. q + (m + n) <= Len(w) /\ \A i \in 1..m + n : w[q + i] = c[i]
  BY <1>2 DEF StandsAt
<1> HIDE DEF m, n, c
<1>4. \A i \in 1..m : w[q + i] = u[i]
  <2>1. \A i \in 1..m : i \in 1..m + n /\ i <= m
    BY <1>1
  <2> QED BY <1>2, <1>3, <2>1
<1>5. \A i \in 1..n : w[(q + m) + i] = v[i]
  <2> SUFFICES ASSUME NEW i \in 1..n PROVE w[(q + m) + i] = v[i]
    OBVIOUS
  <2> DEFINE j == m + i
  <2>1. j \in 1..m + n /\ ~(j <= m) /\ j - m = i /\ (q + m) + i = q + j
    BY <1>1
  <2> HIDE DEF j
  <2> QED BY <1>2, <1>3, <2>1
<1>6. q + m <= Len(w) /\ (q + m) + n <= Len(w)
  BY <1>1, <1>3
<1> QED
  BY <1>4, <1>5, <1>6 DEF StandsAt, m, n

\* The sequences us stand in w one behind the other, from q to z.
Lined(us, w, q, z) ==
  \E ends \in [0..Len(us) -> Nat] :
    /\ ends[0] = q /\ ends[Len(us)] = z
    /\ \A i \in 0..Len(us) : q <= ends[i] /\ ends[i] <= z
    /\ \A i \in 1..Len(us) : /\ ends[i] = ends[i - 1] + Len(us[i])
                             /\ StandsAt(w, ends[i - 1], us[i])

LEMMA FlattenStands ==
  ASSUME NEW S, NEW us \in Seq(Seq(S)), NEW w \in Seq(S), NEW q \in Nat,
         StandsAt(w, q, FlattenSeq(us))
  PROVE  Lined(us, w, q, q + Len(FlattenSeq(us)))
<1> DEFINE n == Len(us)
<1>1. n \in Nat /\ \A i \in 1..n : us[i] \in Seq(S)
  BY LenProperties, ElementOfSeq
<1>2. PICK flat \in [0..n -> Seq(S)] : Flattening(us, flat) /\ FlattenSeq(us) = flat[n]
  BY FlattenUnfold
<1> DEFINE ends == [i \in 0..n |-> q + Len(flat[i])]
<1>3. \A i \in 0..n : flat[i] \in Seq(S) /\ Len(flat[i]) \in Nat
  OBVIOUS
<1>4. ends \in [0..n -> Nat]
  BY <1>3
<1>5. \A i \in 1..n : i - 1 \in 0..n /\ i \in 0..n
  BY <1>1
<1>6. \A i \in 1..n : /\ flat[i] = flat[i - 1] \o us[i]
                      /\ Len(flat[i]) = Len(flat[i - 1]) + Len(us[i])
  <2> SUFFICES ASSUME NEW i \in 1..n
               PROVE  /\ flat[i] = flat[i - 1] \o us[i]
                      /\ Len(flat[i]) = Len(flat[i - 1]) + Len(us[i])
    OBVIOUS
  <2>1. flat[i] = flat[i - 1] \o us[i]
    BY <1>2 DEF Flattening
  <2>2. flat[i - 1] \in Seq(S) /\ us[i] \in Seq(S)
    BY <1>1, <1>3, <1>5
  <2>3. Len(flat[i - 1] \o us[i]) = Len(flat[i - 1]) + Len(us[i])
    BY <2>2, ConcatProperties
  <2> QED BY <2>1, <2>3
<1> DEFINE total == Len(flat[n])
           Here_ == {k \in Nat : k <= n => /\ StandsAt(w, q, flat[n - k])
                                         /\ Len(flat[n - k]) <= total}
<1>7. Nat \subseteq Here_
  <2>1. 0 \in Here_
    <3>1. n - 0 = n /\ n \in 0..n
      BY <1>1
    <3>2. Len(flat[n]) \in Nat
      BY <1>3, <3>1
    <3>3. Len(flat[n]) <= Len(flat[n])
      BY <3>2
    <3> QED BY <1>2, <3>1, <3>3
  <2>2. ASSUME NEW k \in Nat, k \in Here_ PROVE k + 1 \in Here_
    <3> HIDE DEF total
    <3> SUFFICES ASSUME k + 1 <= n
                 PROVE  /\ StandsAt(w, q, flat[n - (k + 1)])
                        /\ Len(flat[n - (k + 1)]) <= total
      OBVIOUS
    <3> DEFINE i == n - k
    <3>1. i \in 1..n /\ i - 1 = n - (k + 1) /\ k <= n
      BY <1>1
    <3>2. StandsAt(w, q, flat[i]) /\ Len(flat[i]) <= total
      BY <2>2, <3>1
    <3> HIDE DEF i
    <3>3. flat[i] = flat[i - 1] \o us[i] /\ flat[i - 1] \in Seq(S) /\ us[i] \in Seq(S)
      BY <1>1, <1>3, <1>5, <1>6, <3>1
    <3>4. StandsAt(w, q, flat[i - 1])
      BY <3>2, <3>3, ConcatStands
    <3>5. Len(flat[i - 1]) <= total
      <4>1. Len(flat[i]) = Len(flat[i - 1]) + Len(us[i])
        BY <1>6, <3>1
      <4> DEFINE x == Len(flat[i - 1])
                 y == Len(us[i])
      <4>2. x \in Nat /\ y \in Nat /\ Len(flat[i]) = x + y
        BY <1>1, <3>3, <4>1, LenProperties
      <4>3. total \in Nat
        <5>1. n \in 0..n
          BY <1>1
        <5> QED BY <1>3, <5>1 DEF total
      <4> HIDE DEF x, y
      <4>4. x <= total
        BY <3>2, <4>2, <4>3
      <4> QED BY <4>4 DEF x
    <3> QED BY <3>1, <3>4, <3>5
  <2> HIDE DEF Here_
  <2> QED BY <2>1, <2>2, AllNaturals
<1>8. ASSUME NEW i \in 1..n PROVE StandsAt(w, ends[i - 1], us[i])
  <2>1. StandsAt(w, q, flat[i])
    <3> DEFINE k == n - i
    <3>1. k \in Nat /\ k <= n /\ n - k = i
      BY <1>1
    <3> HIDE DEF k
    <3> QED BY <1>7, <3>1
  <2>2. flat[i] = flat[i - 1] \o us[i] /\ flat[i - 1] \in Seq(S) /\ us[i] \in Seq(S)
    BY <1>1, <1>3, <1>5, <1>6
  <2>3. StandsAt(w, q + Len(flat[i - 1]), us[i])
    BY <2>1, <2>2, ConcatStands
  <2> QED BY <1>5, <2>3
<1>9. ends[0] = q /\ ends[n] = q + Len(FlattenSeq(us))
  <2>1. 0 \in 0..n /\ n \in 0..n /\ flat[0] = <<>>
    BY <1>1, <1>2 DEF Flattening
  <2>2. ends[0] = q + 0 /\ ends[n] = q + Len(flat[n])
    BY <2>1
  <2> QED BY <1>2, <2>2
<1>10. \A i \in 1..n : ends[i] = ends[i - 1] + Len(us[i])
  <2> SUFFICES ASSUME NEW i \in 1..n PROVE ends[i] = ends[i - 1] + Len(us[i])
    OBVIOUS
  <2>1. ends[i] = q + Len(flat[i]) /\ ends[i - 1] = q + Len(flat[i - 1])
    BY <1>5
  <2>2. Len(flat[i]) = Len(flat[i - 1]) + Len(us[i])
    BY <1>6
  <2>3. Len(flat[i - 1]) \in Nat /\ Len(us[i]) \in Nat
    BY <1>1, <1>3, <1>5, LenProperties
  <2> DEFINE x == Len(flat[i - 1])
             y == Len(us[i])
  <2>4. ends[i] = q + (x + y) /\ ends[i - 1] = q + x /\ x \in Nat /\ y \in Nat
    <3> HIDE DEF ends
    <3> QED BY <2>1, <2>2, <2>3
  <2> HIDE DEF ends, x, y
  <2>5. ends[i] = ends[i - 1] + y
    BY <2>4
  <2> QED BY <2>5 DEF y
<1>11. \A i \in 0..n : q <= ends[i] /\ ends[i] <= q + Len(FlattenSeq(us))
  <2> SUFFICES ASSUME NEW i \in 0..n
               PROVE  q <= ends[i] /\ ends[i] <= q + Len(FlattenSeq(us))
    OBVIOUS
  <2> DEFINE k == n - i
             x == Len(flat[i])
  <2>1. k \in Nat /\ k <= n /\ n - k = i
    BY <1>1
  <2>2. x \in Nat /\ total \in Nat
    <3>1. n \in 0..n
      BY <1>1
    <3> QED BY <1>3, <3>1
  <2>3. x <= total
    <3> HIDE DEF k, total
    <3> QED BY <1>7, <2>1
  <2>4. ends[i] = q + x /\ total = Len(FlattenSeq(us))
    BY <1>2
  <2> HIDE DEF x, total, ends
  <2>5. q <= ends[i] /\ ends[i] <= q + total
    BY <2>2, <2>3, <2>4
  <2> QED BY <2>4, <2>5
<1> HIDE DEF ends
<1> QED
  BY <1>4, <1>8, <1>9, <1>10, <1>11 DEF Lined

-----------------------------------------------------------------------------
(***************************************************************************)
(* The bytes of a text are read as that text.                              *)
(***************************************************************************)
Piece(c) == IF c = Replacement THEN ReplacementBytes ELSE <<c>>
Pieces(t) == [i \in DOMAIN t |-> Piece(t[i])]

LEMMA PieceTyped ==
  ASSUME NEW c \in TextChar
  PROVE  /\ Piece(c) \in Seq(Cell)
         /\ c = Replacement => Piece(c) = ReplacementBytes /\ Len(Piece(c)) = 3
         /\ c # Replacement => Piece(c) = <<c>> /\ Len(Piece(c)) = 1 /\ c \in 0..127
<1>1. ReplacementBytes \in Seq(Cell) /\ Len(ReplacementBytes) = 3
  BY DEF ReplacementBytes, Cell
<1>2. c # Replacement => c \in 0..127
  BY DEF TextChar
<1>3. c # Replacement => <<c>> \in Seq(Cell) /\ Len(<<c>>) = 1
  <2>1. c # Replacement => c \in Cell
    BY <1>2 DEF Cell
  <2> QED BY <2>1
<1> QED
  BY <1>1, <1>2, <1>3 DEF Piece

LEMMA PiecesTyped ==
  ASSUME NEW t \in Seq(TextChar)
  PROVE  /\ Pieces(t) \in Seq(Seq(Cell)) /\ Len(Pieces(t)) = Len(t)
         /\ \A i \in 1..Len(t) : Pieces(t)[i] = Piece(t[i]) /\ t[i] \in TextChar
         /\ Utf8(t) = FlattenSeq(Pieces(t)) /\ Utf8(t) \in Seq(Cell)
<1>1. Len(t) \in Nat /\ DOMAIN t = 1..Len(t) /\ \A i \in 1..Len(t) : t[i] \in TextChar
  BY LenProperties, ElementOfSeq
<1>2. \A i \in 1..Len(t) : Piece(t[i]) \in Seq(Cell)
  BY <1>1, PieceTyped
<1>3. Pieces(t) \in [1..Len(t) -> Seq(Cell)] /\ \A i \in 1..Len(t) : Pieces(t)[i] = Piece(t[i])
  BY <1>1, <1>2 DEF Pieces
<1>4. Pieces(t) \in Seq(Seq(Cell)) /\ Len(Pieces(t)) = Len(t)
  BY <1>1, <1>3, FunctionIsSeq
<1>5. Utf8(t) = FlattenSeq(Pieces(t))
  BY DEF Utf8, Pieces, Piece
<1> QED
  BY <1>1, <1>3, <1>4, <1>5, FlattenTyped

LEMMA ThreeCells ==
  ASSUME NEW b \in Seq(Cell), NEW p \in Nat \ {0}, p + 2 <= Len(b)
  PROVE  SubSeq(b, p, p + 2) = ReplacementBytes
           <=> b[p] = 239 /\ b[p + 1] = 191 /\ b[p + 2] = 189
<1> DEFINE s == SubSeq(b, p, p + 2)
           r == ReplacementBytes
<1>1. r \in Seq(Cell) /\ Len(r) = 3 /\ r[1] = 239 /\ r[2] = 191 /\ r[3] = 189
  BY DEF ReplacementBytes, Cell
<1>2. \A j \in p..p + 2 : b[j] \in Cell
  <2>1. \A j \in p..p + 2 : j \in 1..Len(b)
    BY LenProperties
  <2> QED BY <2>1, ElementOfSeq
<1>3. /\ s \in Seq(Cell)
      /\ Len(s) = (IF p <= p + 2 THEN (p + 2) - p + 1 ELSE 0)
      /\ \A j \in 1..(p + 2) - p + 1 : s[j] = b[p + j - 1]
  <2>1. p \in Int /\ p + 2 \in Int
    OBVIOUS
  <2> QED BY <1>2, <2>1, SubSeqProperties
<1> HIDE DEF s, r
<1>4. (p + 2) - p + 1 = 3 /\ p <= p + 2 /\ p + 1 - 1 = p /\ p + 2 - 1 = p + 1
      /\ p + 3 - 1 = p + 2
  OBVIOUS
<1>5. Len(s) = 3 /\ \A j \in 1..3 : s[j] = b[p + j - 1]
  BY <1>3, <1>4
<1>6. s[1] = b[p] /\ s[2] = b[p + 1] /\ s[3] = b[p + 2]
  BY <1>4, <1>5
<1>7. ASSUME s[1] = r[1], s[2] = r[2], s[3] = r[3] PROVE s = r
  <2>1. \A j \in 1..Len(s) : s[j] = r[j]
    BY <1>5, <1>7
  <2> QED BY SMTT(30), <1>1, <1>3, <1>5, <2>1, SeqEqual
<1> QED
  BY <1>1, <1>6, <1>7 DEF s, r

LEMMA LossyUtf8 ==
  ASSUME NEW t \in Seq(TextChar)
  PROVE  FromUtf8Lossy(Utf8(t)) = t
<1> DEFINE n == Len(t)
           b == Utf8(t)
<1>1. n \in Nat
  OBVIOUS
<1>2. b \in Seq(Cell) /\ Len(b) \in Nat /\ \A i \in 1..Len(b) : b[i] \in Cell
  BY PiecesTyped, LenProperties, ElementOfSeq
<1>3. PICK ends \in [0..n -> Nat] :
        /\ ends[0] = 0 /\ ends[n] = 0 + Len(b)
        /\ \A i \in 1..n : /\ ends[i] = ends[i - 1] + Len(Piece(t[i]))
                           /\ StandsAt(b, ends[i - 1], Piece(t[i]))
  <2> DEFINE us == Pieces(t)
  <2>1. us \in Seq(Seq(Cell)) /\ Len(us) = n /\ b = FlattenSeq(us)
        /\ \A i \in 1..n : us[i] = Piece(t[i])
    BY PiecesTyped
  <2> HIDE DEF us
  <2>2. StandsAt(b, 0, FlattenSeq(us))
    BY <1>2, <2>1, StandsAtStart
  <2> HIDE DEF b
  <2>3. Lined(us, b, 0, 0 + Len(FlattenSeq(us)))
    BY <1>2, <2>1, <2>2, FlattenStands
  <2> HIDE DEF n
  <2> QED BY <2>1, <2>3 DEF Lined
<1>4. PICK f : IsText(b, f) /\ FromUtf8Lossy(b) = f[1]
  BY <1>2, LossyUnfold
<1> HIDE DEF b
<1>5. \A i \in 1..Len(b) + 1 : f[i] = TextAt(b, f, i)
  BY <1>4 DEF IsText
<1> DEFINE Suffixed == {k \in Nat : k <= n => f[ends[n - k] + 1] = SubSeq(t, (n - k) + 1, n)}
<1>6. Nat \subseteq Suffixed
  <2>1. 0 \in Suffixed
    <3>1. n - 0 = n /\ ends[n] + 1 \in 1..Len(b) + 1 /\ ends[n] + 1 > Len(b)
      BY <1>1, <1>2, <1>3
    <3>2. f[ends[n] + 1] = <<>>
      BY <1>5, <3>1 DEF TextAt
    <3>3. SubSeq(t, n + 1, n) = <<>>
      BY <1>1, SubSeqEmpty
    <3> QED BY <3>1, <3>2, <3>3
  <2>2. ASSUME NEW k \in Nat, k \in Suffixed PROVE k + 1 \in Suffixed
    <3> SUFFICES ASSUME k + 1 <= n
                 PROVE  f[ends[n - (k + 1)] + 1] = SubSeq(t, (n - (k + 1)) + 1, n)
      OBVIOUS
    <3> DEFINE i == n - k
               p == ends[i - 1] + 1
               c == t[i]
    <3>1. i \in 1..n /\ n - (k + 1) = i - 1 /\ k <= n /\ (n - (k + 1)) + 1 = i
          /\ i - 1 \in 0..n /\ i \in 0..n
      BY <1>1
    <3>2. f[ends[i] + 1] = SubSeq(t, i + 1, n)
      BY <2>2, <3>1
    <3> HIDE DEF i
    <3>3. SubSeq(t, i, n) = <<c>> \o SubSeq(t, i + 1, n)
      <4>1. i \in 1..Len(t) /\ n \in i..Len(t)
        BY <1>1, <3>1
      <4> QED BY <4>1, SubSeqRecursiveFirst
    <3>4. c \in TextChar
      BY <3>1, ElementOfSeq
    <3>5. ends[i] = ends[i - 1] + Len(Piece(c)) /\ StandsAt(b, ends[i - 1], Piece(c))
      BY <1>3, <3>1
    <3>6. ends[i - 1] \in Nat
      BY <3>1
    <3> HIDE DEF c
    <3>7. f[p] = <<c>> \o f[ends[i] + 1]
      <4>1. CASE c = Replacement
        <5>1. Piece(c) = <<239, 191, 189>> /\ Len(Piece(c)) = 3
          BY <3>4, <4>1, PieceTyped DEF ReplacementBytes
        <5> DEFINE e == ends[i - 1]
        <5>2. e \in Nat /\ e + 3 <= Len(b) /\ \A j \in 1..3 : b[e + j] = Piece(c)[j]
          BY <3>5, <3>6, <5>1 DEF StandsAt
        <5>3. b[e + 1] = 239 /\ b[e + 2] = 191 /\ b[e + 3] = 189
          BY <5>1, <5>2
        <5>4. ends[i] + 1 = p + 3 /\ p = e + 1
          BY <3>5, <3>6, <5>1
        <5> HIDE DEF e, p
        <5>5. p \in 1..Len(b) + 1 /\ p + 2 <= Len(b) /\ ~(p > Len(b))
          BY <1>2, <5>2, <5>4
        <5>6. SubSeq(b, p, p + 2) = ReplacementBytes
          <6>1. b[p] = 239 /\ b[p + 1] = 191 /\ b[p + 2] = 189
            BY <5>2, <5>3, <5>4
          <6>2. p \in Nat \ {0}
            BY <5>5
          <6> QED BY <1>2, <5>5, <6>1, <6>2, ThreeCells
        <5>7. f[p] = <<Replacement>> \o f[p + 3]
          BY <1>5, <5>5, <5>6 DEF TextAt, RepAt
        <5> QED BY <4>1, <5>4, <5>7
      <4>2. CASE c # Replacement
        <5>1. Piece(c) = <<c>> /\ Len(Piece(c)) = 1 /\ c \in 0..127
          BY <3>4, <4>2, PieceTyped
        <5> DEFINE e == ends[i - 1]
        <5>2. e \in Nat /\ e + 1 <= Len(b) /\ \A j \in 1..1 : b[e + j] = Piece(c)[j]
          BY <3>5, <3>6, <5>1 DEF StandsAt
        <5>3. b[e + 1] = c
          BY <5>1, <5>2
        <5>4. ends[i] + 1 = p + 1 /\ p = e + 1
          BY <3>5, <3>6, <5>1
        <5> HIDE DEF e, p
        <5>5. p \in 1..Len(b) + 1 /\ ~(p > Len(b)) /\ b[p] = c
          BY <1>2, <5>2, <5>3, <5>4
        <5>6. ~RepAt(b, p)
          <6> SUFFICES ASSUME RepAt(b, p) PROVE FALSE
            OBVIOUS
          <6>1. p + 2 <= Len(b) /\ SubSeq(b, p, p + 2) = ReplacementBytes /\ p \in Nat \ {0}
            BY <5>5 DEF RepAt
          <6>2. b[p] = 239
            BY <1>2, <6>1, ThreeCells
          <6> QED BY <5>1, <5>5, <6>2
        <5>7. CharAt(b, p) = c
          BY <5>1, <5>5 DEF CharAt
        <5>8. f[p] = <<c>> \o f[p + 1]
          BY <1>5, <5>5, <5>6, <5>7 DEF TextAt
        <5> QED BY <5>4, <5>8
      <4> QED BY <4>1, <4>2
    <3> QED BY <3>1, <3>2, <3>3, <3>7
  <2> HIDE DEF Suffixed
  <2> QED BY <2>1, <2>2, AllNaturals
<1>7. f[1] = SubSeq(t, 1, n)
  <2>1. n - n = 0 /\ n <= n
    BY <1>1
  <2>2. f[ends[n - n] + 1] = SubSeq(t, (n - n) + 1, n)
    BY <1>1, <1>6, <2>1
  <2> QED BY <1>3, <2>1, <2>2
<1>8. SubSeq(t, 1, n) = t
  BY SubSeqFull
<1> QED
  BY <1>4, <1>7, <1>8 DEF b

LEMMA LossyTyped ==
  ASSUME NEW b \in Seq(Cell)
  PROVE  /\ FromUtf8Lossy(b) \in Seq(TextChar)
         /\ b # <<>> => FromUtf8Lossy(b) # <<>>
<1> DEFINE n == Len(b)
<1>1. n \in Nat
  OBVIOUS
<1>2. PICK f : IsText(b, f) /\ FromUtf8Lossy(b) = f[1]
  BY LossyUnfold
<1>3. \A i \in 1..n + 1 : f[i] = TextAt(b, f, i)
  BY <1>2 DEF IsText
<1> DEFINE Typed == {k \in Nat : \A i \in 1..n + 1 : i + k > n => f[i] \in Seq(TextChar)}
<1>4. Nat \subseteq Typed
  <2>1. 0 \in Typed
    <3> SUFFICES ASSUME NEW i \in 1..n + 1, i + 0 > n PROVE f[i] \in Seq(TextChar)
      OBVIOUS
    <3>1. i > Len(b)
      BY <1>1
    <3>2. f[i] = <<>>
      <4>1. TextAt(b, f, i) = <<>>
        BY <3>1 DEF TextAt
      <4> QED BY <1>3, <4>1
    <3> QED BY <3>2, EmptySeq
  <2>2. ASSUME NEW k \in Nat, k \in Typed PROVE k + 1 \in Typed
    <3> SUFFICES ASSUME NEW i \in 1..n + 1, i + (k + 1) > n PROVE f[i] \in Seq(TextChar)
      OBVIOUS
    <3>1. \A j \in 1..n + 1 : j > i => f[j] \in Seq(TextChar)
      BY <1>1, <2>2
    <3> QED BY <1>3, <3>1, TextAtTyped
  <2> HIDE DEF Typed
  <2> QED BY <2>1, <2>2, AllNaturals
<1>5. \A i \in 1..n + 1 : f[i] \in Seq(TextChar)
  <2>1. n \in Typed
    <3> HIDE DEF Typed
    <3> QED BY <1>1, <1>4
  <2>2. \A i \in 1..n + 1 : i + n > n
    BY <1>1
  <2> QED BY <2>1, <2>2
<1>6. b # <<>> => f[1] # <<>>
  <2> SUFFICES ASSUME b # <<>> PROVE f[1] # <<>>
    OBVIOUS
  <2>1. 1 <= n
    BY EmptySeq
  <2>2. TextAt(b, f, 1) # <<>>
    BY <1>1, <1>5, <2>1, TextAtTyped
  <2> QED BY <1>1, <1>3, <2>2
<1> QED
  BY <1>1, <1>2, <1>5, <1>6

\* What a label says: a text that is not empty and has no capitals.
LowerChar == TextChar \ (65..90)
LabelText == Seq(LowerChar) \ {<<>>}

LEMMA LabelTyped ==
  ASSUME NEW b \in Seq(Cell) \ {<<>>}
  PROVE  Label(b) \in LabelText
<1> DEFINE t == FromUtf8Lossy(b)
           l == [i \in DOMAIN t |-> LowerCase(t[i])]
<1>1. t \in Seq(TextChar) /\ t # <<>>
  BY LossyTyped
<1>2. Label(b) = l
  BY DEF Label
<1> HIDE DEF t
<1>3. /\ Len(t) \in Nat \ {0} /\ DOMAIN t = 1..Len(t)
      /\ \A i \in 1..Len(t) : t[i] \in TextChar
  BY <1>1, EmptySeq, LenProperties, ElementOfSeq
<1>4. \A c \in TextChar : LowerCase(c) \in LowerChar
  BY DEF LowerCase, LowerChar, TextChar, Replacement
<1>5. l \in [1..Len(t) -> LowerChar]
  BY <1>3, <1>4
<1> HIDE DEF l
<1>6. l \in Seq(LowerChar) /\ Len(l) = Len(t)
  BY <1>3, <1>5, FunctionIsSeq
<1>7. l # <<>>
  BY <1>3, <1>6
<1> QED
  BY <1>2, <1>6, <1>7 DEF LabelText

LEMMA LabelsTyped == Labels \subseteq LabelText
BY LabelTyped DEF Labels

\* The bytes of a text: none only if there is no text.
LEMMA Utf8Bytes ==
  ASSUME NEW t \in Seq(TextChar)
  PROVE  Utf8(t) \in Seq(Cell) /\ Len(Utf8(t)) \in Nat /\ (t # <<>> => Utf8(t) # <<>>)
<1>1. Utf8(t) \in Seq(Cell) /\ Len(Utf8(t)) \in Nat
  BY PiecesTyped, LenProperties
<1>2. Utf8(t) = <<>> => t = <<>>
  <2> SUFFICES ASSUME Utf8(t) = <<>> PROVE t = <<>>
    OBVIOUS
  <2>1. FromUtf8Lossy(<<>>) = t
    BY LossyUtf8
  <2>2. <<>> \in Seq(Cell) /\ Len(<<>>) = 0
    BY EmptySeq
  <2>3. PICK f : IsText(<<>>, f) /\ FromUtf8Lossy(<<>>) = f[1]
    BY <2>2, LossyUnfold
  <2>4. f[1] = TextAt(<<>>, f, 1)
    BY <2>2, <2>3 DEF IsText
  <2>5. f[1] = <<>>
    BY <2>2, <2>4 DEF TextAt
  <2> QED BY <2>1, <2>3, <2>5
<1> QED
  BY <1>1, <1>2

LEMMA LabelIsText ==
  ASSUME NEW l \in LabelText
  PROVE  l \in Seq(TextChar) /\ l # <<>> /\ Label(Utf8(l)) = l
<1>1. l \in Seq(LowerChar) /\ l # <<>>
  BY DEF LabelText
<1>2. l \in Seq(TextChar)
  BY <1>1, SeqMonotonic DEF LowerChar
<1>3. Label(Utf8(l)) = [i \in DOMAIN l |-> LowerCase(l[i])]
  BY <1>2, LossyUtf8 DEF Label
<1>4. Len(l) \in Nat /\ DOMAIN l = 1..Len(l) /\ \A i \in 1..Len(l) : l[i] \in LowerChar
  BY <1>1, LenProperties, ElementOfSeq
<1>5. \A i \in 1..Len(l) : LowerCase(l[i]) = l[i]
  BY <1>4 DEF LowerCase, LowerChar
<1>6. l = [i \in 1..Len(l) |-> l[i]]
  BY <1>1
<1> QED
  BY <1>1, <1>2, <1>3, <1>4, <1>5, <1>6

-----------------------------------------------------------------------------
(***************************************************************************)
(* Where cells, texts and names have been written, they are held.          *)
(***************************************************************************)
LEMMA StandsSlice ==
  ASSUME NEW w \in Seq(Cell), NEW q \in Nat, NEW u \in Seq(Cell), StandsAt(w, q, u)
  PROVE  SubSeq(w, q + 1, q + Len(u)) = u /\ HoldsCells(w, q, u, q + Len(u))
<1> DEFINE n == Len(u)
           s == SubSeq(w, q + 1, q + n)
<1>1. n \in Nat /\ q + n <= Len(w) /\ (\A i \in 1..n : w[q + i] = u[i]) /\ Len(w) \in Nat
  BY DEF StandsAt
<1> HIDE DEF n
<1>2. \A i \in q + 1..q + n : w[i] \in Cell
  <2>1. \A i \in q + 1..q + n : i \in 1..Len(w)
    BY <1>1
  <2> QED BY <2>1, ElementOfSeq
<1>3. /\ s \in Seq(Cell)
      /\ Len(s) = (IF q + 1 <= q + n THEN (q + n) - (q + 1) + 1 ELSE 0)
      /\ \A i \in 1..(q + n) - (q + 1) + 1 : s[i] = w[q + 1 + i - 1]
  <2>1. q + 1 \in Int /\ q + n \in Int
    BY <1>1
  <2> QED BY <1>2, <2>1, SubSeqProperties
<1> HIDE DEF s
<1>4. (q + n) - (q + 1) + 1 = n /\ \A i \in 1..n : q + 1 + i - 1 = q + i
  BY <1>1
<1>5. Len(s) = n /\ \A i \in 1..n : s[i] = u[i]
  <2>1. Len(s) = n
    BY <1>1, <1>3, <1>4
  <2>2. \A i \in 1..n : s[i] = w[q + i]
    BY <1>3, <1>4
  <2> QED BY <1>1, <2>1, <2>2
<1>6. s = u
  BY <1>3, <1>5, SeqEqual DEF n
<1>7. q <= q + n
  BY <1>1
<1> QED
  BY <1>1, <1>6, <1>7 DEF HoldsCells, s, n

LEMMA TextStands ==
  ASSUME NEW w \in Seq(Cell), NEW q \in Nat, NEW t \in Seq(TextChar),
         Len(Utf8(t)) < 256, StandsAt(w, q, WithLength(t))
  PROVE  /\ Len(WithLength(t)) = 1 + Len(Utf8(t)) /\ q < Len(w) /\ w[q + 1] = Len(Utf8(t))
         /\ q + 1 + Len(Utf8(t)) <= Len(w)
         /\ SubSeq(w, q + 2, q + 1 + Len(Utf8(t))) = Utf8(t)
<1> DEFINE u == Utf8(t)
           n == Len(u)
           h == <<n>>
<1>1. u \in Seq(Cell) /\ n \in Nat /\ n \in 0..255 /\ n % 256 = n
  <2>1. u \in Seq(Cell) /\ n \in Nat
    BY Utf8Bytes
  <2> HIDE DEF n
  <2>2. n < 256
    BY DEF n
  <2> QED BY <2>1, <2>2
<1>2. h \in Seq(Cell) /\ Len(h) = 1 /\ h[1] = n
  <2>1. n \in Cell
    BY <1>1 DEF Cell
  <2> HIDE DEF n
  <2> QED BY <2>1
<1>3. WithLength(t) = h \o u
  BY <1>1 DEF WithLength
<1>4. StandsAt(w, q, h \o u)
  BY <1>3
<1> HIDE DEF u, h
<1>5. StandsAt(w, q, h) /\ StandsAt(w, q + Len(h), u)
  BY <1>1, <1>2, <1>4, ConcatStands
<1>6. Len(w) \in Nat /\ q + 1 <= Len(w) /\ w[q + 1] = n
  <2>1. q + 1 <= Len(w) /\ \A i \in 1..1 : w[q + i] = h[i]
    BY <1>2, <1>5 DEF StandsAt
  <2>2. 1 \in 1..1 /\ Len(w) \in Nat
    BY LenProperties
  <2> QED BY <1>2, <2>1, <2>2
<1>7. StandsAt(w, q + 1, u)
  BY <1>2, <1>5
<1>8. (q + 1) + n <= Len(w) /\ SubSeq(w, q + 1 + 1, q + 1 + n) = u
  <2>1. q + 1 \in Nat
    OBVIOUS
  <2> QED BY <1>1, <1>7, <2>1, StandsSlice DEF StandsAt
<1>9. q + 1 + 1 = q + 2 /\ q < Len(w)
  BY <1>6
<1>10. Len(h \o u) = 1 + n
  <2>1. Len(h \o u) = Len(h) + Len(u)
    BY ZenonT(40), <1>1, <1>2, ConcatProperties
  <2> QED BY <1>2, <2>1
<1> QED
  BY <1>3, <1>6, <1>8, <1>9, <1>10 DEF u

Name == Seq(LabelText)
LabelBytes(name) == [i \in DOMAIN name |-> WithLength(name[i])]

LEMMA WithLengthTyped ==
  ASSUME NEW t \in Seq(TextChar)
  PROVE  WithLength(t) \in Seq(Cell)
<1>1. Utf8(t) \in Seq(Cell) /\ Len(Utf8(t)) \in Nat
  BY Utf8Bytes
<1> DEFINE b == Len(Utf8(t)) % 256
           h == <<b>>
<1>2. b \in Cell
  <2> DEFINE n == Len(Utf8(t))
  <2>1. n \in Nat
    BY <1>1
  <2> HIDE DEF n
  <2>2. n % 256 \in 0..255
    BY <2>1
  <2> QED BY <2>2 DEF Cell, n
<1> HIDE DEF b
<1>3. h \in Seq(Cell)
  BY <1>2
<1> HIDE DEF h
<1>4. h \o Utf8(t) \in Seq(Cell)
  BY <1>1, <1>3, ConcatProperties
<1> QED
  BY <1>4 DEF WithLength, h, b

LEMMA NameTyped ==
  ASSUME NEW name \in Name
  PROVE  /\ LabelBytes(name) \in Seq(Seq(Cell)) /\ Len(LabelBytes(name)) = Len(name)
         /\ \A i \in 1..Len(name) : /\ name[i] \in LabelText
                                    /\ LabelBytes(name)[i] = WithLength(name[i])
         /\ FlattenSeq(LabelBytes(name)) \in Seq(Cell)
         /\ ToWire(name) = FlattenSeq(LabelBytes(name)) \o <<0>> /\ <<0>> \in Seq(Cell)
         /\ ToWire(name) \in Seq(Cell)
         /\ Len(ToWire(name)) = Len(FlattenSeq(LabelBytes(name))) + 1
<1>1. Len(name) \in Nat /\ DOMAIN name = 1..Len(name)
      /\ \A i \in 1..Len(name) : name[i] \in LabelText
  BY LenProperties, ElementOfSeq DEF Name
<1>2. \A i \in 1..Len(name) : WithLength(name[i]) \in Seq(Cell)
  BY <1>1, LabelIsText, WithLengthTyped
<1>3. LabelBytes(name) \in [1..Len(name) -> Seq(Cell)]
      /\ \A i \in 1..Len(name) : LabelBytes(name)[i] = WithLength(name[i])
  BY <1>1, <1>2 DEF LabelBytes
<1>4. LabelBytes(name) \in Seq(Seq(Cell)) /\ Len(LabelBytes(name)) = Len(name)
  BY <1>1, <1>3, FunctionIsSeq
<1>5. FlattenSeq(LabelBytes(name)) \in Seq(Cell)
  BY <1>4, FlattenTyped
<1>6. <<0>> \in Seq(Cell) /\ Len(<<0>>) = 1
  BY DEF Cell
<1>7. ToWire(name) = FlattenSeq(LabelBytes(name)) \o <<0>>
  BY DEF ToWire, LabelBytes
<1> QED
  BY <1>1, <1>3, <1>4, <1>5, <1>6, <1>7, ConcatProperties

LEMMA LabelWritten ==
  ASSUME NEW w \in Seq(Cell), NEW q \in Nat, NEW l \in LabelText,
         Len(Utf8(l)) < 192, StandsAt(w, q, WithLength(l))
  PROVE  /\ AtText(w, q) /\ LabelAt(w, q) = l
         /\ AfterLabel(w, q) = q + Len(WithLength(l))
<1>1. l \in Seq(TextChar) /\ Label(Utf8(l)) = l /\ l # <<>>
  BY LabelIsText
<1> DEFINE u == Utf8(l)
           n == Len(u)
<1>2. n \in 1..191 /\ n < 256
  <2>1. u \in Seq(Cell) /\ u # <<>>
    BY <1>1, Utf8Bytes
  <2>2. n \in Nat \ {0}
    BY <2>1, EmptySeq
  <2> HIDE DEF u
  <2>3. n < 192
    BY DEF u
  <2> HIDE DEF n
  <2> QED BY <2>2, <2>3
<1>3. /\ Len(WithLength(l)) = 1 + n /\ q < Len(w) /\ w[q + 1] = n
      /\ q + 1 + n <= Len(w) /\ SubSeq(w, q + 2, q + 1 + n) = u
  BY <1>1, <1>2, TextStands
<1> HIDE DEF n, u
<1>4. AtText(w, q) /\ AfterLabel(w, q) = q + 1 + n
  BY <1>2, <1>3 DEF AtText, AfterLabel
<1>5. LabelAt(w, q) = l
  BY <1>1, <1>3, <1>4 DEF LabelAt, u
<1>6. q + Len(WithLength(l)) = q + 1 + n
  BY <1>2, <1>3
<1> QED
  BY <1>4, <1>5, <1>6

LEMMA WithLabelBefore ==
  ASSUME NEW l, NEW s, NEW b
  PROVE  WithLabel(l, [said |-> TRUE, labels |-> s, behind |-> b, pointers |-> 0])
           = [said |-> TRUE, labels |-> <<l>> \o s, behind |-> b, pointers |-> 0]
<1> DEFINE r == [said |-> TRUE, labels |-> s, behind |-> b, pointers |-> 0]
           c == <<l>> \o s
<1>1. WithLabel(l, r) = [r EXCEPT !.labels = <<l>> \o r.labels]
  BY DEF WithLabel
<1>2. r.labels = s
  OBVIOUS
<1>3. WithLabel(l, r) = [r EXCEPT !.labels = c]
  <2> HIDE DEF r
  <2> QED BY <1>1, <1>2
<1> HIDE DEF c
<1>4. [r EXCEPT !.labels = c] = [said |-> TRUE, labels |-> c, behind |-> b, pointers |-> 0]
  <2> DEFINE R == [said : BOOLEAN, labels : {s, c}, behind : {b}, pointers : {0}]
  <2>1. r \in R
    OBVIOUS
  <2>2. r.said = TRUE /\ r.behind = b /\ r.pointers = 0
    OBVIOUS
  <2> HIDE DEF r
  <2>3. [r EXCEPT !.labels = c] = [said |-> r.said, labels |-> c, behind |-> r.behind,
                                   pointers |-> r.pointers]
    BY <2>1
  <2> QED BY <2>2, <2>3
<1> QED
  BY <1>3, <1>4 DEF c

LEMMA NameStands ==
  ASSUME NEW w \in Seq(Cell), NEW q \in Nat, NEW name \in Name, LabelsFit(name),
         StandsAt(w, q, ToWire(name))
  PROVE  HoldsName(w, q, name, q + Len(ToWire(name)))
<1> DEFINE n == Len(name)
           us == LabelBytes(name)
           cells == FlattenSeq(us)
           z == q + Len(cells)
           Read(k) == [said |-> TRUE, labels |-> SubSeq(name, k + 1, n), behind |-> z + 1,
                       pointers |-> 0]
<1>1. /\ us \in Seq(Seq(Cell)) /\ Len(us) = n /\ n \in Nat
      /\ \A i \in 1..n : name[i] \in LabelText /\ us[i] = WithLength(name[i])
      /\ cells \in Seq(Cell) /\ ToWire(name) = cells \o <<0>> /\ <<0>> \in Seq(Cell)
      /\ Len(ToWire(name)) = Len(cells) + 1
  BY NameTyped, LenProperties DEF Name
<1>2. DOMAIN name = 1..n
  BY LenProperties DEF Name
<1> HIDE DEF us
<1>3. StandsAt(w, q, cells) /\ StandsAt(w, z, <<0>>)
  <2>1. StandsAt(w, q, cells \o <<0>>)
    BY <1>1
  <2> QED BY <1>1, <2>1, ConcatStands
<1>4. z \in Nat
  <2>1. Len(cells) \in Nat
    BY <1>1, LenProperties
  <2> HIDE DEF cells
  <2> QED BY <2>1
<1>5. PICK ends \in [0..n -> Nat] :
        /\ ends[0] = q /\ ends[n] = z
        /\ \A i \in 1..n : /\ ends[i] = ends[i - 1] + Len(us[i])
                           /\ StandsAt(w, ends[i - 1], us[i])
  <2>1. Lined(us, w, q, z)
    BY <1>1, <1>3, FlattenStands
  <2> HIDE DEF n, z
  <2> QED BY <1>1, <2>1 DEF Lined
<1> HIDE DEF cells, z
<1> DEFINE Down == {k \in Nat : k <= n => ReadBy(w, k + 1, ends[n - k]) = Read(n - k)}
<1>6. Nat \subseteq Down
  <2>1. 0 \in Down
    <3>1. AtZero(w, z)
      <4>1. z + 1 <= Len(w) /\ \A i \in 1..1 : w[z + i] = <<0>>[i]
        BY <1>3 DEF StandsAt
      <4>2. Len(w) \in Nat /\ 1 \in 1..1
        OBVIOUS
      <4> QED BY <1>4, <4>1, <4>2 DEF AtZero
    <3>2. ReadBy(w, 0 + 1, z) = ZeroAt(z)
      BY <1>4, <3>1, ReadAtZero
    <3>3. SubSeq(name, n + 1, n) = <<>>
      BY <1>1, SubSeqEmpty
    <3>4. ZeroAt(z) = Read(n)
      BY <3>3 DEF ZeroAt
    <3>5. n - 0 = n /\ ends[n] = z
      BY <1>1, <1>5
    <3> HIDE DEF Read
    <3> QED BY <3>2, <3>4, <3>5
  <2>2. ASSUME NEW k \in Nat, k \in Down PROVE k + 1 \in Down
    <3> SUFFICES ASSUME k + 1 <= n
                 PROVE  ReadBy(w, k + 1 + 1, ends[n - (k + 1)]) = Read(n - (k + 1))
      <4> HIDE DEF Read
      <4> QED OBVIOUS
    <3> DEFINE i == n - k
               e == ends[i - 1]
               l == name[i]
    <3>1. i \in 1..n /\ n - (k + 1) = i - 1 /\ k <= n /\ i - 1 \in 0..n /\ i \in 0..n
          /\ (i - 1) + 1 = i
      BY <1>1
    <3>2. ReadBy(w, k + 1, ends[i]) = Read(i)
      BY <2>2, <3>1
    <3> HIDE DEF i
    <3>3. e \in Nat /\ l \in LabelText /\ Len(Utf8(l)) < 192
      BY <1>1, <1>2, <3>1 DEF LabelsFit
    <3>4. ends[i] = e + Len(WithLength(l)) /\ StandsAt(w, e, WithLength(l))
      BY <1>1, <1>5, <3>1
    <3> HIDE DEF l
    <3>5. AtText(w, e) /\ LabelAt(w, e) = l /\ AfterLabel(w, e) = ends[i]
      <4> HIDE DEF e
      <4> QED BY <3>3, <3>4, LabelWritten
    <3>6. ReadBy(w, (k + 1) + 1, e) = WithLabel(l, ReadBy(w, k + 1, ends[i]))
      <4>1. k + 1 \in Nat
        OBVIOUS
      <4> HIDE DEF e
      <4>2. ReadBy(w, (k + 1) + 1, e) = WithLabel(LabelAt(w, e), ReadBy(w, k + 1, AfterLabel(w, e)))
        BY <3>3, <3>5, <4>1, ReadAtText
      <4> QED BY <3>5, <4>2
    <3>7. SubSeq(name, i, n) = <<l>> \o SubSeq(name, i + 1, n)
      <4>1. i \in 1..Len(name) /\ n \in i..Len(name) /\ name \in Seq(LabelText)
        BY <1>1, <3>1 DEF Name
      <4> QED BY <4>1, SubSeqRecursiveFirst DEF l
    <3>8. WithLabel(l, Read(i)) = Read(i - 1)
      <4> DEFINE s == SubSeq(name, i + 1, n)
      <4>1. SubSeq(name, (i - 1) + 1, n) = <<l>> \o s
        BY <3>1, <3>7
      <4> HIDE DEF s
      <4>2. WithLabel(l, [said |-> TRUE, labels |-> s, behind |-> z + 1, pointers |-> 0])
              = [said |-> TRUE, labels |-> <<l>> \o s, behind |-> z + 1, pointers |-> 0]
        BY WithLabelBefore
      <4> QED BY <4>1, <4>2 DEF s
    <3> HIDE DEF Read
    <3> QED BY <3>1, <3>2, <3>6, <3>8
  <2> HIDE DEF Down
  <2> QED BY <2>1, <2>2, AllNaturals
<1>7. ReadBy(w, n + 1, q) = Read(0)
  <2>1. n - n = 0 /\ n <= n
    BY <1>1
  <2>2. ReadBy(w, n + 1, ends[n - n]) = Read(n - n)
    <3> HIDE DEF Read
    <3> QED BY <1>1, <1>6, <2>1
  <2> HIDE DEF Read
  <2> QED BY <1>5, <2>1, <2>2
<1>8. SubSeq(name, 0 + 1, n) = name
  BY SubSeqFull DEF Name
<1>9. Says(w, q) = Read(0)
  <2>1. ReadBy(w, n + 1, q).said
    BY <1>7
  <2>2. n + 1 \in Nat
    BY <1>1
  <2> HIDE DEF Read
  <2>3. ReadBy(w, Len(w), q) = ReadBy(w, n + 1, q)
    BY <2>1, <2>2, AllIsRead
  <2> QED BY <1>7, <2>3 DEF Says, ReadBy
<1>10. q + Len(ToWire(name)) = z + 1
  <2>1. Len(cells) \in Nat /\ z = q + Len(cells)
    BY <1>1, LenProperties DEF z
  <2> QED BY <1>1, <2>1
<1>11. 0 <= MaxJumps
  BY JumpAssumption
<1> QED
  BY <1>8, <1>9, <1>10, <1>11 DEF HoldsName

-----------------------------------------------------------------------------
(***************************************************************************)
(* What a parser makes of any message, and what is written of it.          *)
(***************************************************************************)
Flag == 0..1
Header ==
  [id : Cell, response : Flag, opcode : 0..15, authoritative : Flag, truncated : Flag,
   recursion_desired : Flag, recursion_available : Flag, authentic_data : Flag,
   checking_disabled : Flag, code : 0..15]

LEMMA ReadHeaderTyped ==
  ASSUME NEW id \in Cell, NEW f \in Cell, NEW g \in Cell
  PROVE  ReadHeader(id, f, g) \in Header
<1>1. \A x \in Nat : x % 2 \in Flag /\ x % 16 \in 0..15
  BY DEF Flag
<1>2. \A x \in Cell : /\ x \in Nat /\ x \div 128 \in Nat /\ x \div 32 \in Nat
                      /\ x \div 16 \in Nat /\ x \div 8 \in Nat /\ x \div 4 \in Nat
                      /\ x \div 2 \in Nat /\ x \div 1 \in Nat
  BY DEF Cell
<1>3. /\ \A x \in Cell, k \in {128, 32, 16, 4, 2, 1} : Bit(x, k) \in Flag
      /\ (f \div 8) % 16 \in 0..15 /\ g % 16 \in 0..15
  BY ZenonT(40), <1>1, <1>2 DEF Bit
<1> QED
  BY <1>3 DEF ReadHeader, Header

FirstByte(r, o, a, t, d) == 128 * r + 8 * o + 4 * a + 2 * t + d
SecondByte(r, a, c, k) == 128 * r + 32 * a + 16 * c + k

Flags1(h) ==
  FirstByte(h.response, h.opcode, h.authoritative, h.truncated, h.recursion_desired)
Flags2(h) ==
  SecondByte(h.recursion_available, h.authentic_data, h.checking_disabled, h.code)

LEMMA FirstFlags ==
  ASSUME NEW r \in 0..1, NEW o \in 0..15, NEW a \in 0..1, NEW t \in 0..1, NEW d \in 0..1,
         NEW f, f = FirstByte(r, o, a, t, d)
  PROVE  /\ f \in Cell
         /\ Bit(f, 128) = r /\ (f \div 8) % 16 = o /\ Bit(f, 4) = a /\ Bit(f, 2) = t
         /\ Bit(f, 1) = d
<1> USE DEF FirstByte
<1>1. f \in 0..255
  OBVIOUS
<1>2. f \div 128 = r /\ f \div 8 = 16 * r + o /\ f \div 4 = 32 * r + 2 * o + a
      /\ f \div 2 = 64 * r + 4 * o + 2 * a + t /\ f \div 1 = f
  OBVIOUS
<1>3. r % 2 = r /\ (16 * r + o) % 16 = o /\ (32 * r + 2 * o + a) % 2 = a
      /\ (64 * r + 4 * o + 2 * a + t) % 2 = t /\ f % 2 = d
  OBVIOUS
<1> QED
  BY <1>1, <1>2, <1>3 DEF Bit, Cell

LEMMA SecondFlags ==
  ASSUME NEW r \in 0..1, NEW a \in 0..1, NEW c \in 0..1, NEW k \in 0..15,
         NEW g, g = SecondByte(r, a, c, k)
  PROVE  /\ g \in Cell
         /\ Bit(g, 128) = r /\ Bit(g, 32) = a /\ Bit(g, 16) = c /\ g % 16 = k
<1> USE DEF SecondByte
<1>1. g \in 0..255
  OBVIOUS
<1>2. g \div 128 = r /\ g \div 32 = 4 * r + a /\ g \div 16 = 8 * r + 2 * a + c
  OBVIOUS
<1>3. r % 2 = r /\ (4 * r + a) % 2 = a /\ (8 * r + 2 * a + c) % 2 = c /\ g % 16 = k
  OBVIOUS
<1> QED
  BY <1>1, <1>2, <1>3 DEF Bit, Cell

LEMMA HeaderWritten ==
  ASSUME NEW h \in Header
  PROVE  /\ HeaderBytes(h) = <<h.id, Flags1(h), Flags2(h)>>
         /\ HeaderBytes(h) \in Seq(Cell) /\ Len(HeaderBytes(h)) = 3
         /\ ReadHeader(h.id, Flags1(h), Flags2(h)) = h
<1> DEFINE f == Flags1(h)
           g == Flags2(h)
<1>1. /\ h.id \in Cell /\ h.response \in 0..1 /\ h.opcode \in 0..15
      /\ h.authoritative \in 0..1 /\ h.truncated \in 0..1 /\ h.recursion_desired \in 0..1
      /\ h.recursion_available \in 0..1 /\ h.authentic_data \in 0..1
      /\ h.checking_disabled \in 0..1 /\ h.code \in 0..15
  BY DEF Header, Flag
<1>2. f = FirstByte(h.response, h.opcode, h.authoritative, h.truncated, h.recursion_desired)
  BY DEF Flags1
<1>3. g = SecondByte(h.recursion_available, h.authentic_data, h.checking_disabled, h.code)
  BY DEF Flags2
<1>4. HeaderBytes(h) = <<h.id, f, g>>
  BY DEF HeaderBytes, Flags1, Flags2, FirstByte, SecondByte
<1> HIDE DEF f, g
<1>5. /\ f \in Cell /\ Bit(f, 128) = h.response /\ (f \div 8) % 16 = h.opcode
      /\ Bit(f, 4) = h.authoritative /\ Bit(f, 2) = h.truncated
      /\ Bit(f, 1) = h.recursion_desired
  BY <1>1, <1>2, FirstFlags
<1>6. /\ g \in Cell /\ Bit(g, 128) = h.recursion_available /\ Bit(g, 32) = h.authentic_data
      /\ Bit(g, 16) = h.checking_disabled /\ g % 16 = h.code
  BY <1>1, <1>3, SecondFlags
<1>7. <<h.id, f, g>> \in Seq(Cell) /\ Len(<<h.id, f, g>>) = 3
  BY <1>1, <1>5, <1>6
<1>8. h = [id |-> h.id, response |-> h.response, opcode |-> h.opcode,
           authoritative |-> h.authoritative, truncated |-> h.truncated,
           recursion_desired |-> h.recursion_desired,
           recursion_available |-> h.recursion_available,
           authentic_data |-> h.authentic_data,
           checking_disabled |-> h.checking_disabled, code |-> h.code]
  BY DEF Header
<1>9. ReadHeader(h.id, f, g) = h
  BY <1>5, <1>6, <1>8 DEF ReadHeader
<1> QED
  BY <1>4, <1>7, <1>9 DEF f, g

Question == [name : Name, type : Cell, class : Cell]

RestOk(t, rest) ==
  /\ IF Rest(t) = "texts" THEN rest \in Seq(Seq(TextChar)) ELSE rest \in Seq(Cell)
  /\ Rest(t) = "skip" => rest = <<>>
  /\ Rest(t) = "soa" => Len(rest) = SoaSize
  /\ Rest(t) = "slice" /\ NameCount(t) = 0 => LengthOk(t, HeadSize(t) + Len(rest))

DataOk(t, d) ==
  /\ d = [head |-> d.head, names |-> d.names, rest |-> d.rest]
  /\ d.head \in Seq(Cell) /\ Len(d.head) = HeadSize(t)
  /\ d.names \in Seq(Name) /\ Len(d.names) = NameCount(t)
  /\ RestOk(t, d.rest)

IsRecord(r) ==
  /\ r = [name |-> r.name, type |-> r.type, class |-> r.class, ttl |-> r.ttl,
          rdata |-> r.rdata]
  /\ r.name \in Name /\ r.type \in Cell /\ r.class \in Cell /\ r.ttl \in Cell
  /\ DataOk(r.type, r.rdata)

NamesBytes(d) == [i \in DOMAIN d.names |-> ToWire(d.names[i])]
TextsBytes(d) == [i \in DOMAIN d.rest |-> WithLength(d.rest[i])]
RestBytes(t, d) == IF Rest(t) = "texts" THEN FlattenSeq(TextsBytes(d)) ELSE d.rest

LEMMA NoShortNames == \A name : NameBytes(<<>>, name) = ToWire(name)
<1>1. DOMAIN <<>> = {}
  OBVIOUS
<1> QED
  BY <1>1 DEF NameBytes

LEMMA DataWritten ==
  ASSUME NEW t, NEW d, DataOk(t, d)
  PROVE  /\ RDataBytes(<<>>, t, d) = (d.head \o FlattenSeq(NamesBytes(d))) \o RestBytes(t, d)
         /\ d.head \in Seq(Cell) /\ FlattenSeq(NamesBytes(d)) \in Seq(Cell)
         /\ RestBytes(t, d) \in Seq(Cell) /\ RDataBytes(<<>>, t, d) \in Seq(Cell)
         /\ NamesBytes(d) \in Seq(Seq(Cell)) /\ Len(NamesBytes(d)) = NameCount(t)
         /\ \A i \in 1..NameCount(t) : /\ d.names[i] \in Name
                                       /\ NamesBytes(d)[i] = ToWire(d.names[i])
         /\ DOMAIN d.names = 1..NameCount(t)
         /\ Rest(t) = "texts" =>
              /\ TextsBytes(d) \in Seq(Seq(Cell)) /\ Len(TextsBytes(d)) = Len(d.rest)
              /\ Len(d.rest) \in Nat /\ DOMAIN d.rest = 1..Len(d.rest)
              /\ \A i \in 1..Len(d.rest) : /\ d.rest[i] \in Seq(TextChar)
                                           /\ TextsBytes(d)[i] = WithLength(d.rest[i])
<1>1. /\ d.head \in Seq(Cell) /\ d.names \in Seq(Name) /\ Len(d.names) = NameCount(t)
      /\ RestOk(t, d.rest) /\ NameCount(t) \in Nat
  BY NameCountProperties DEF DataOk
<1>2. /\ NamesBytes(d) \in Seq(Seq(Cell)) /\ Len(NamesBytes(d)) = NameCount(t)
      /\ \A i \in 1..NameCount(t) : /\ d.names[i] \in Name
                                    /\ NamesBytes(d)[i] = ToWire(d.names[i])
      /\ DOMAIN d.names = 1..NameCount(t)
  <2>1. DOMAIN d.names = 1..NameCount(t) /\ \A i \in 1..NameCount(t) : d.names[i] \in Name
    BY <1>1, LenProperties, ElementOfSeq
  <2>2. \A i \in 1..NameCount(t) : ToWire(d.names[i]) \in Seq(Cell)
    BY <2>1, NameTyped
  <2>3. NamesBytes(d) \in [1..NameCount(t) -> Seq(Cell)]
        /\ \A i \in 1..NameCount(t) : NamesBytes(d)[i] = ToWire(d.names[i])
    BY <2>1, <2>2 DEF NamesBytes
  <2> QED BY <1>1, <2>1, <2>3, FunctionIsSeq
<1>3. FlattenSeq(NamesBytes(d)) \in Seq(Cell)
  BY <1>2, FlattenTyped
<1>4. ASSUME Rest(t) = "texts"
      PROVE  /\ TextsBytes(d) \in Seq(Seq(Cell)) /\ Len(TextsBytes(d)) = Len(d.rest)
             /\ Len(d.rest) \in Nat /\ DOMAIN d.rest = 1..Len(d.rest)
             /\ \A i \in 1..Len(d.rest) : /\ d.rest[i] \in Seq(TextChar)
                                          /\ TextsBytes(d)[i] = WithLength(d.rest[i])
  <2>1. d.rest \in Seq(Seq(TextChar))
    BY <1>1, <1>4 DEF RestOk
  <2>2. Len(d.rest) \in Nat /\ DOMAIN d.rest = 1..Len(d.rest)
        /\ \A i \in 1..Len(d.rest) : d.rest[i] \in Seq(TextChar)
    BY <2>1, LenProperties, ElementOfSeq
  <2>3. \A i \in 1..Len(d.rest) : WithLength(d.rest[i]) \in Seq(Cell)
    BY <2>2, WithLengthTyped
  <2>4. TextsBytes(d) \in [1..Len(d.rest) -> Seq(Cell)]
        /\ \A i \in 1..Len(d.rest) : TextsBytes(d)[i] = WithLength(d.rest[i])
    BY <2>2, <2>3 DEF TextsBytes
  <2> QED BY <2>2, <2>4, FunctionIsSeq
<1>5. RestBytes(t, d) \in Seq(Cell)
  <2>1. Rest(t) = "texts" => FlattenSeq(TextsBytes(d)) \in Seq(Cell)
    BY <1>4, FlattenTyped
  <2>2. Rest(t) # "texts" => d.rest \in Seq(Cell)
    BY <1>1 DEF RestOk
  <2> QED BY <2>1, <2>2 DEF RestBytes
<1>6. RDataBytes(<<>>, t, d) = (d.head \o FlattenSeq(NamesBytes(d))) \o RestBytes(t, d)
  <2>1. [i \in DOMAIN d.names |-> NameBytes(<<>>, d.names[i])] = NamesBytes(d)
    BY NoShortNames DEF NamesBytes
  <2> QED BY <2>1 DEF RDataBytes, RestBytes, TextsBytes
<1>7. RDataBytes(<<>>, t, d) \in Seq(Cell)
  <2>1. d.head \o FlattenSeq(NamesBytes(d)) \in Seq(Cell)
    BY <1>1, <1>3, ConcatProperties
  <2> QED BY <1>5, <1>6, <2>1, ConcatProperties
<1> QED
  BY <1>1, <1>2, <1>3, <1>4, <1>5, <1>6, <1>7

\* The length of what is written fits the type as the length that was read did.
LEMMA WrittenLength ==
  ASSUME NEW t, NEW d, DataOk(t, d)
  PROVE  /\ Len(RDataBytes(<<>>, t, d)) \in Nat
         /\ LengthOk(t, Len(RDataBytes(<<>>, t, d)))
<1> DEFINE n == FlattenSeq(NamesBytes(d))
           x == RestBytes(t, d)
           h == d.head
           b == RDataBytes(<<>>, t, d)
<1> SUFFICES Len(b) \in Nat /\ LengthOk(t, Len(b))
  OBVIOUS
<1>1. /\ b = (h \o n) \o x /\ h \in Seq(Cell) /\ n \in Seq(Cell) /\ x \in Seq(Cell)
      /\ Len(h) = HeadSize(t)
  BY DataWritten DEF DataOk
<1>2. /\ Len(h) \in Nat /\ Len(n) \in Nat /\ Len(x) \in Nat
      /\ Len(b) = Len(h) + Len(n) + Len(x) /\ Len(b) \in Nat
  <2> HIDE DEF h, n, x, b
  <2>1. Len(h \o n) = Len(h) + Len(n) /\ h \o n \in Seq(Cell)
    BY <1>1, ConcatProperties
  <2>2. Len((h \o n) \o x) = Len(h \o n) + Len(x)
    BY <1>1, <2>1, ConcatProperties
  <2>3. Len(h) \in Nat /\ Len(n) \in Nat /\ Len(x) \in Nat
    BY <1>1, LenProperties
  <2> QED BY <1>1, <2>1, <2>2, <2>3
<1>3. CASE NameCount(t) > 0
  <2>1. Len(n) >= 1
    <3> DEFINE us == NamesBytes(d)
    <3>1. us \in Seq(Seq(Cell)) /\ Len(us) = NameCount(t) /\ NameCount(t) \in Nat
          /\ us[1] = ToWire(d.names[1]) /\ d.names[1] \in Name
      <4>1. NameCount(t) \in Nat /\ 1 \in 1..NameCount(t)
        BY <1>3, NameCountProperties
      <4>2. \A i \in 1..NameCount(t) : d.names[i] \in Name /\ us[i] = ToWire(d.names[i])
        BY DataWritten
      <4> QED BY <4>1, <4>2, DataWritten
    <3>2. Len(us[1]) >= 1
      <4> DEFINE c == FlattenSeq(LabelBytes(d.names[1]))
      <4>1. c \in Seq(Cell) /\ Len(us[1]) = Len(c) + 1
        BY <3>1, NameTyped
      <4>2. Len(c) \in Nat
        BY <4>1, LenProperties
      <4> HIDE DEF c
      <4> QED BY <4>1, <4>2
    <3> HIDE DEF us
    <3>3. Lined(us, n, 0, 0 + Len(FlattenSeq(us)))
      <4>1. n = FlattenSeq(us)
        BY DEF us
      <4>2. StandsAt(n, 0, FlattenSeq(us))
        BY <1>1, <4>1, StandsAtStart
      <4> HIDE DEF n
      <4> QED BY <1>1, <3>1, <4>2, FlattenStands
    <3>4. PICK ends \in [0..Len(us) -> Nat] :
            /\ ends[0] = 0 /\ \A i \in 0..Len(us) : ends[i] <= 0 + Len(FlattenSeq(us))
            /\ \A i \in 1..Len(us) : ends[i] = ends[i - 1] + Len(us[i])
      BY <3>3 DEF Lined
    <3>5. 1 \in 1..Len(us) /\ 1 \in 0..Len(us) /\ 1 - 1 = 0 /\ Len(us[1]) \in Nat
      BY <1>3, <3>1, ElementOfSeq, LenProperties
    <3>6. ends[1] = 0 + Len(us[1]) /\ ends[1] <= 0 + Len(FlattenSeq(us))
      BY <3>4, <3>5
    <3>7. Len(FlattenSeq(us)) = Len(n)
      BY DEF us
    <3> HIDE DEF n
    <3> QED BY <1>2, <3>2, <3>5, <3>6, <3>7
  <2>2. Len(b) > HeadSize(t)
    <3> HIDE DEF b, h, n, x
    <3> QED BY <1>1, <1>2, <2>1
  <2>3. t # RT.A /\ t # RT.AAAA
    BY <1>3 DEF NameCount, RT
  <2> HIDE DEF b
  <2> QED BY <1>2, <2>2, <2>3 DEF LengthOk
<1>4. CASE NameCount(t) = 0 /\ Rest(t) = "slice"
  <2>1. n = <<>>
    <3>1. NamesBytes(d) = <<>>
      BY <1>4, DataWritten, EmptySeq
    <3> QED BY <3>1, EmptySeq DEF FlattenSeq
  <2>2. x = d.rest
    BY <1>4 DEF RestBytes
  <2>3. LengthOk(t, HeadSize(t) + Len(d.rest))
    BY <1>4 DEF DataOk, RestOk
  <2>4. Len(b) = HeadSize(t) + Len(d.rest)
    <3>1. Len(n) = 0
      BY <2>1
    <3> HIDE DEF b, h, n, x
    <3>2. Len(b) = Len(h) + Len(x)
      BY <1>2, <3>1
    <3> QED BY <1>1, <2>2, <3>2
  <2> HIDE DEF b
  <2> QED BY <1>2, <2>3, <2>4
<1>5. CASE NameCount(t) = 0 /\ Rest(t) # "slice"
  <2>1. t = RT.TXT
    BY <1>5 DEF NameCount, Rest, RT
  <2> HIDE DEF b
  <2>2. LengthOk(t, Len(b))
    BY <2>1 DEF LengthOk, RT
  <2> QED BY <1>2, <2>2
<1>6. NameCount(t) > 0 \/ NameCount(t) = 0
  BY NameCountProperties
<1> QED
  BY <1>3, <1>4, <1>5, <1>6

LEMMA QuestionStands ==
  ASSUME NEW w \in Seq(Cell), NEW q \in Nat, NEW item \in Question, LabelsFit(item.name),
         StandsAt(w, q, QuestionBytes(<<>>, item))
  PROVE  HoldsQuestion(w, q, item, q + Len(QuestionBytes(<<>>, item)))
<1> DEFINE a == ToWire(item.name)
           f == <<item.type, item.class>>
           u == QuestionBytes(<<>>, item)
           z == q + Len(u)
<1>1. /\ item = [name |-> item.name, type |-> item.type, class |-> item.class]
      /\ item.name \in Name /\ item.type \in Cell /\ item.class \in Cell
  BY DEF Question
<1>2. a \in Seq(Cell) /\ f \in Seq(Cell) /\ Len(f) = 2 /\ u = a \o f
  <2>1. a \in Seq(Cell)
    BY <1>1, NameTyped
  <2>2. f \in Seq(Cell) /\ Len(f) = 2
    BY <1>1
  <2>3. u = a \o f
    BY NoShortNames DEF QuestionBytes
  <2> QED BY <2>1, <2>2, <2>3
<1>3. StandsAt(w, q, a) /\ StandsAt(w, q + Len(a), f) /\ Len(a) \in Nat /\ Len(u) = Len(a) + 2
  <2>1. StandsAt(w, q, a \o f)
    BY <1>2
  <2> HIDE DEF a, f, u
  <2>2. Len(a \o f) = Len(a) + Len(f)
    BY <1>2, ConcatProperties
  <2> QED BY <1>2, <2>1, <2>2, ConcatStands, LenProperties
<1>4. HoldsName(w, q, item.name, q + Len(a))
  BY <1>1, <1>3, NameStands
<1>5. q + Len(a) \in Nat /\ HoldsCells(w, q + Len(a), f, q + Len(a) + 2)
  <2>1. q + Len(a) \in Nat
    BY <1>3
  <2> HIDE DEF f
  <2>2. HoldsCells(w, q + Len(a), f, q + Len(a) + Len(f))
    BY <1>2, <1>3, <2>1, StandsSlice
  <2> QED BY <1>2, <2>1, <2>2
<1>6. z - QuestionSize = q + Len(a) /\ z = q + Len(a) + 2
  <2> HIDE DEF a, u
  <2> QED BY <1>3 DEF QuestionSize
<1> HIDE DEF a, z, f
<1>7. HoldsQuestion(w, q, item, z)
  BY <1>1, <1>4, <1>5, <1>6 DEF HoldsQuestion, f
<1> QED
  BY <1>7 DEF z

\* The names of record data, from q to z.
LEMMA NamesStand ==
  ASSUME NEW w \in Seq(Cell), NEW q \in Nat, NEW t, NEW d, DataOk(t, d),
         \A n \in DOMAIN d.names : LabelsFit(d.names[n]),
         StandsAt(w, q, FlattenSeq(NamesBytes(d)))
  PROVE  \E ends \in [0..Len(d.names) -> Nat] :
           /\ ends[0] = q /\ ends[Len(d.names)] = q + Len(FlattenSeq(NamesBytes(d)))
           /\ \A i \in 0..Len(d.names) :
                ends[i] <= q + Len(FlattenSeq(NamesBytes(d)))
           /\ \A i \in 1..Len(d.names) : HoldsName(w, ends[i - 1], d.names[i], ends[i])
<1> DEFINE us == NamesBytes(d)
           z == q + Len(FlattenSeq(us))
           n == Len(d.names)
<1>1. /\ us \in Seq(Seq(Cell)) /\ Len(us) = n /\ n \in Nat
      /\ \A i \in 1..n : d.names[i] \in Name /\ us[i] = ToWire(d.names[i])
      /\ \A i \in 1..n : LabelsFit(d.names[i])
  <2>1. n = NameCount(t) /\ n \in Nat
    BY NameCountProperties DEF DataOk
  <2>2. /\ us \in Seq(Seq(Cell)) /\ Len(us) = NameCount(t) /\ DOMAIN d.names = 1..NameCount(t)
        /\ \A i \in 1..NameCount(t) : d.names[i] \in Name /\ us[i] = ToWire(d.names[i])
    BY DataWritten
  <2> QED BY <2>1, <2>2
<1>2. Lined(us, w, q, z)
  BY <1>1, FlattenStands
<1> HIDE DEF us, z
<1>3. PICK ends \in [0..n -> Nat] :
        /\ ends[0] = q /\ ends[n] = z /\ \A i \in 0..n : ends[i] <= z
        /\ \A i \in 1..n : /\ ends[i] = ends[i - 1] + Len(us[i])
                           /\ StandsAt(w, ends[i - 1], us[i])
  <2> HIDE DEF n
  <2> QED BY <1>1, <1>2 DEF Lined
<1>4. ASSUME NEW i \in 1..n PROVE HoldsName(w, ends[i - 1], d.names[i], ends[i])
  <2> DEFINE e == ends[i - 1]
             name == d.names[i]
  <2>1. e \in Nat
    <3>1. i - 1 \in 0..n
      BY <1>1
    <3> QED BY <3>1
  <2>2. /\ name \in Name /\ LabelsFit(name) /\ StandsAt(w, e, ToWire(name))
        /\ ends[i] = e + Len(ToWire(name))
    BY <1>1, <1>3
  <2> HIDE DEF e, name
  <2>3. HoldsName(w, e, name, e + Len(ToWire(name)))
    BY <2>1, <2>2, NameStands
  <2> QED BY <2>2, <2>3 DEF e, name
<1> QED
  BY <1>3, <1>4 DEF us, z

\* The texts of record data, from q to z.
LEMMA TextsStand ==
  ASSUME NEW w \in Seq(Cell), NEW q \in Nat, NEW t, NEW d, DataOk(t, d), Rest(t) = "texts",
         \A n \in DOMAIN d.rest : Len(Utf8(d.rest[n])) < 256,
         StandsAt(w, q, FlattenSeq(TextsBytes(d)))
  PROVE  \E ends \in [0..Len(d.rest) -> Nat] :
           /\ ends[0] = q /\ ends[Len(d.rest)] = q + Len(FlattenSeq(TextsBytes(d)))
           /\ \A i \in 0..Len(d.rest) :
                q <= ends[i] /\ ends[i] <= q + Len(FlattenSeq(TextsBytes(d)))
           /\ \A i \in 1..Len(d.rest) : HoldsText(w, ends[i - 1], d.rest[i], ends[i])
<1> DEFINE us == TextsBytes(d)
           z == q + Len(FlattenSeq(us))
           n == Len(d.rest)
<1>1. /\ us \in Seq(Seq(Cell)) /\ Len(us) = n /\ n \in Nat
      /\ \A i \in 1..n : d.rest[i] \in Seq(TextChar) /\ us[i] = WithLength(d.rest[i])
      /\ \A i \in 1..n : Len(Utf8(d.rest[i])) < 256
  BY DataWritten
<1>2. Lined(us, w, q, z)
  BY <1>1, FlattenStands
<1> HIDE DEF us, z
<1>3. PICK ends \in [0..n -> Nat] :
        /\ ends[0] = q /\ ends[n] = z /\ \A i \in 0..n : q <= ends[i] /\ ends[i] <= z
        /\ \A i \in 1..n : /\ ends[i] = ends[i - 1] + Len(us[i])
                           /\ StandsAt(w, ends[i - 1], us[i])
  <2> HIDE DEF n
  <2> QED BY <1>1, <1>2 DEF Lined
<1>4. ASSUME NEW i \in 1..n PROVE HoldsText(w, ends[i - 1], d.rest[i], ends[i])
  <2> DEFINE e == ends[i - 1]
             text == d.rest[i]
             len == Len(Utf8(text))
  <2>1. e \in Nat
    <3>1. i - 1 \in 0..n
      BY <1>1
    <3> QED BY <3>1
  <2>2. /\ text \in Seq(TextChar) /\ len < 256 /\ StandsAt(w, e, WithLength(text))
        /\ ends[i] = e + Len(WithLength(text))
    BY <1>1, <1>3
  <2> HIDE DEF e, text
  <2>3. /\ Len(WithLength(text)) = 1 + len /\ e < Len(w) /\ w[e + 1] = len
        /\ e + 1 + len <= Len(w) /\ SubSeq(w, e + 2, e + 1 + len) = Utf8(text)
    BY <2>1, <2>2, TextStands
  <2>4. len \in Nat
    BY <2>2, Utf8Bytes
  <2>5. FromUtf8Lossy(Utf8(text)) = text
    BY <2>2, LossyUtf8
  <2> HIDE DEF len
  <2>6. ends[i] = e + 1 + w[e + 1] /\ ends[i] = e + 1 + len
    BY <2>1, <2>2, <2>3, <2>4
  <2>7. HoldsText(w, e, text, ends[i])
    BY <2>3, <2>5, <2>6 DEF HoldsText
  <2> QED BY <2>7 DEF e, text
<1> QED
  BY <1>3, <1>4 DEF us, z

LEMMA RecordStands ==
  ASSUME NEW w \in Seq(Cell), NEW q \in Nat, NEW r, IsRecord(r), RecordFits(r),
         StandsAt(w, q, RecordBytes(<<>>, r))
  PROVE  \E l : HoldsRecord(w, q, r, q + Len(RecordBytes(<<>>, r)), l)
<1> DEFINE t == r.type
           d == r.rdata
           a == ToWire(r.name)
           b == RDataBytes(<<>>, t, d)
           n == FlattenSeq(NamesBytes(d))
           x == RestBytes(t, d)
           h == d.head
           f == <<t, r.class, r.ttl, Len(b)>>
           u == RecordBytes(<<>>, r)
           start == q + Len(a)
           data_ == start + RecordSize
           first == data_ + Len(h)
           rest == first + Len(n)
           z == rest + Len(x)
<1>1. /\ r = [name |-> r.name, type |-> t, class |-> r.class, ttl |-> r.ttl,
              rdata |-> [head |-> h, names |-> d.names, rest |-> d.rest]]
      /\ r.name \in Name /\ t \in Cell /\ r.class \in Cell /\ r.ttl \in Cell /\ DataOk(t, d)
      /\ LabelsFit(r.name) /\ Len(b) < 256 /\ \A i \in DOMAIN d.names : LabelsFit(d.names[i])
      /\ Rest(t) = "texts" => \A i \in DOMAIN d.rest : Len(Utf8(d.rest[i])) < 256
  BY DEF IsRecord, DataOk, RecordFits
<1>2. Len(b) \in Nat /\ LengthOk(t, Len(b))
  BY <1>1, WrittenLength
<1>3. /\ b = (h \o n) \o x /\ h \in Seq(Cell) /\ n \in Seq(Cell) /\ x \in Seq(Cell)
      /\ Len(h) = HeadSize(t) /\ b \in Seq(Cell)
  BY <1>1, DataWritten DEF DataOk
<1>4. a \in Seq(Cell)
  BY <1>1, NameTyped
<1>5. Len(b) \in Cell /\ Len(b) % 256 = Len(b)
  <2> DEFINE len == Len(b)
  <2>1. len \in Nat /\ len < 256
    BY <1>1, <1>2
  <2> HIDE DEF len
  <2>2. len \in 0..255 /\ len % 256 = len
    BY <2>1
  <2> QED BY <2>2 DEF Cell, len
<1>6. f \in Seq(Cell) /\ Len(f) = RecordSize
  <2> HIDE DEF b, t
  <2> QED BY <1>1, <1>5 DEF RecordSize
<1>7. u = (a \o f) \o b
  BY <1>5, NoShortNames DEF RecordBytes
<1> HIDE DEF t, d, a, b, n, x, h, f, u
<1>8. /\ StandsAt(w, q, a) /\ StandsAt(w, start, f) /\ StandsAt(w, data_, b)
      /\ Len(u) = Len(a) + RecordSize + Len(b)
      /\ Len(a) \in Nat /\ start \in Nat /\ data_ \in Nat
  <2>1. a \o f \in Seq(Cell) /\ Len(a \o f) = Len(a) + Len(f)
    BY <1>4, <1>6, ConcatProperties
  <2>2. StandsAt(w, q, (a \o f) \o b)
    BY <1>7 DEF u
  <2>3. StandsAt(w, q, a \o f) /\ StandsAt(w, q + Len(a \o f), b)
    BY <1>3, <2>1, <2>2, ConcatStands
  <2>4. StandsAt(w, q, a) /\ StandsAt(w, q + Len(a), f)
    BY <1>4, <1>6, <2>3, ConcatStands
  <2>5. Len((a \o f) \o b) = Len(a \o f) + Len(b)
    BY <1>3, <2>1, ConcatProperties
  <2>6. Len(a) \in Nat
    BY <1>4, LenProperties
  <2>7. q + Len(a \o f) = data_ /\ start \in Nat /\ data_ \in Nat
    BY <1>6, <2>1, <2>6 DEF RecordSize
  <2> QED BY <1>6, <1>7, <2>1, <2>3, <2>4, <2>5, <2>6, <2>7
<1>9. /\ StandsAt(w, data_, h) /\ StandsAt(w, first, n) /\ StandsAt(w, rest, x)
      /\ Len(b) = Len(h) + Len(n) + Len(x)
      /\ Len(h) \in Nat /\ Len(n) \in Nat /\ Len(x) \in Nat
      /\ first \in Nat /\ rest \in Nat /\ z \in Nat
  <2>1. h \o n \in Seq(Cell) /\ Len(h \o n) = Len(h) + Len(n)
    BY <1>3, ConcatProperties
  <2>2. StandsAt(w, data_, (h \o n) \o x)
    BY <1>3, <1>8
  <2>3. data_ \in Nat
    BY <1>8
  <2>4. Len(h) \in Nat /\ Len(n) \in Nat /\ Len(x) \in Nat
    BY <1>3, LenProperties
  <2> HIDE DEF data_
  <2>5. StandsAt(w, data_, h \o n) /\ StandsAt(w, data_ + Len(h \o n), x)
    BY <1>3, <2>1, <2>2, <2>3, ConcatStands
  <2>6. StandsAt(w, data_, h) /\ StandsAt(w, data_ + Len(h), n)
    BY <1>3, <2>3, <2>5, ConcatStands
  <2>7. Len((h \o n) \o x) = Len(h \o n) + Len(x)
    BY <1>3, <2>1, ConcatProperties
  <2>8. data_ + Len(h \o n) = rest /\ first \in Nat /\ rest \in Nat /\ z \in Nat
    BY <2>1, <2>3, <2>4
  <2> QED BY <1>3, <2>1, <2>4, <2>5, <2>6, <2>7, <2>8
<1>10. z = data_ + Len(b) /\ z = q + Len(u) /\ data_ <= z /\ z - data_ = Len(b)
  <2> QED BY <1>2, <1>8, <1>9 DEF RecordSize
<1>11. z <= Len(w)
  BY <1>8, <1>10 DEF StandsAt
<1>12. PICK names_ \in [0..Len(d.names) -> Nat] :
         /\ names_[0] = first /\ names_[Len(d.names)] = rest
         /\ \A i \in 0..Len(d.names) : names_[i] <= rest
         /\ \A i \in 1..Len(d.names) : HoldsName(w, names_[i - 1], d.names[i], names_[i])
  <2>1. first \in Nat /\ StandsAt(w, first, FlattenSeq(NamesBytes(d)))
    BY <1>9 DEF n
  <2> HIDE DEF first
  <2> QED BY ZenonT(40), <1>1, <2>1, NamesStand DEF n
<1>13. PICK texts \in [0..Len(d.rest) -> Nat] :
         Rest(t) = "texts" =>
           /\ texts[0] = rest /\ texts[Len(d.rest)] = z
           /\ \A i \in 0..Len(d.rest) : rest <= texts[i] /\ texts[i] <= z
           /\ \A i \in 1..Len(d.rest) : HoldsText(w, texts[i - 1], d.rest[i], texts[i])
  <2>1. CASE Rest(t) = "texts"
    <3>1. x = FlattenSeq(TextsBytes(d))
      BY <2>1 DEF x, RestBytes
    <3>2. rest \in Nat /\ StandsAt(w, rest, FlattenSeq(TextsBytes(d)))
      BY <1>9, <3>1
    <3> HIDE DEF rest
    <3> QED BY ZenonT(40), <1>1, <2>1, <3>1, <3>2, TextsStand DEF z
  <2>2. CASE Rest(t) # "texts"
    <3>1. [i \in 0..Len(d.rest) |-> 0] \in [0..Len(d.rest) -> Nat]
      OBVIOUS
    <3> QED BY <2>2, <3>1
  <2> QED BY <2>1, <2>2
<1> DEFINE l == [fixed |-> start, names |-> names_, texts |-> texts]
           count == Len(d.names)
<1>14. l.fixed = start /\ l.names = names_ /\ l.texts = texts
  OBVIOUS
<1> HIDE DEF l
<1>15. HoldsName(w, q, r.name, start)
  BY <1>1, <1>8, NameStands DEF a
<1>16. HoldsCells(w, start, <<t, r.class, r.ttl, z - data_>>, data_)
  <2>1. HoldsCells(w, start, f, start + Len(f))
    <3>1. start \in Nat
      BY <1>8
    <3> HIDE DEF start
    <3> QED BY <1>6, <1>8, <3>1, StandsSlice
  <2>2. f = <<t, r.class, r.ttl, z - data_>>
    <3>1. z - data_ = Len(b)
      BY <1>10
    <3> HIDE DEF z, data_
    <3> QED BY <3>1 DEF f
  <2> QED BY <1>6, <2>1, <2>2
<1>17. HoldsCells(w, data_, h, first)
  <2>1. data_ \in Nat
    BY <1>8
  <2> HIDE DEF data_
  <2> QED BY <1>3, <1>9, <2>1, StandsSlice DEF data_
<1>18. Rest(t) # "texts" => HoldsCells(w, rest, d.rest, z)
  <2> SUFFICES ASSUME Rest(t) # "texts" PROVE HoldsCells(w, rest, d.rest, z)
    OBVIOUS
  <2>1. x = d.rest
    BY DEF x, RestBytes
  <2>2. rest \in Nat
    BY <1>9
  <2> HIDE DEF rest
  <2> QED BY <1>3, <1>9, <2>1, <2>2, StandsSlice
<1>19. /\ IsSequence(d.names) /\ count = NameCount(t) /\ count \in Nat
       /\ Rest(t) = "texts" => IsSequence(d.rest)
       /\ Rest(t) = "skip" => d.rest = <<>>
       /\ Rest(t) = "soa" => Len(d.rest) = SoaSize
  BY <1>1, SeqIsSequence, NameCountProperties DEF DataOk, RestOk
<1>20. Rest(t) = "soa" => z = rest + SoaSize
  <2> SUFFICES ASSUME Rest(t) = "soa" PROVE z = rest + SoaSize
    OBVIOUS
  <2>1. x = d.rest
    BY DEF x, RestBytes
  <2> QED BY <1>19, <2>1
<1>21. names_ \in [0..count -> 0..z]
  <2>1. rest <= z
    <3>1. rest \in Nat /\ Len(x) \in Nat
      BY <1>9
    <3> HIDE DEF rest
    <3> QED BY <3>1
  <2>2. rest \in Nat /\ z \in Nat
    BY <1>9
  <2> HIDE DEF rest, z, count
  <2>3. \A i \in 0..count : names_[i] \in Nat /\ names_[i] <= rest
    BY <1>12 DEF count
  <2>4. \A i \in 0..count : names_[i] \in 0..z
    BY <2>1, <2>2, <2>3
  <2> QED BY <1>12, <2>4 DEF count
<1>22. Rest(t) = "texts" => texts \in [0..Len(d.rest) -> rest..z]
  <2> SUFFICES ASSUME Rest(t) = "texts" PROVE texts \in [0..Len(d.rest) -> rest..z]
    OBVIOUS
  <2>1. rest \in Nat /\ z \in Nat
    BY <1>9
  <2> HIDE DEF rest, z
  <2>2. \A i \in 0..Len(d.rest) : texts[i] \in Nat /\ rest <= texts[i] /\ texts[i] <= z
    BY <1>13
  <2>3. \A i \in 0..Len(d.rest) : texts[i] \in rest..z
    BY <2>1, <2>2
  <2> QED BY <1>13, <2>3
<1>23. LengthOk(t, z - data_) /\ data_ <= z
  <2>1. z - data_ = Len(b) /\ data_ <= z
    BY <1>10
  <2> HIDE DEF z, data_
  <2> QED BY <1>2, <2>1
<1>24. l.fixed + RecordSize = data_
  BY <1>14
<1>25. names_[0] = first /\ names_[count] = rest
  BY <1>12
<1> HIDE DEF start, data_, first, rest, z, count
<1>26. HoldsRecord(w, q, r, z, l)
  <2> USE DEF t, d, h, count
  <2>1. l.names[Len(r.rdata.names)] = rest
    BY <1>14, <1>25
  <2> QED
    BY ZenonT(40), <1>1, <1>3, <1>11, <1>12, <1>13, <1>14, <1>15, <1>16, <1>17, <1>18, <1>19, <1>20,
       <1>21, <1>22, <1>23, <1>24, <1>25, <2>1 DEF HoldsRecord
<1> QED
  BY <1>10, <1>26 DEF u

-----------------------------------------------------------------------------
(***************************************************************************)
(* A message: its sections, one item behind the other.                     *)
(***************************************************************************)
IsItem(s, item) == IF s = 1 THEN item \in Question ELSE IsRecord(item)
ItemFits(s, item) == LabelsFit(item.name) /\ (s > 1 => RecordFits(item))

IsSection(s, items) ==
  /\ IsSequence(items) /\ Len(items) < 256
  /\ \A i \in 1..Len(items) : IsItem(s, items[i])

IsMessage(m) ==
  /\ m = [header |-> m.header, sections |-> m.sections]
  /\ m.header \in Header
  /\ IsSequence(m.sections) /\ Len(m.sections) = 4
  /\ \A s \in 1..4 : IsSection(s, m.sections[s])

ItemBytes(s, item) == IF s = 1 THEN QuestionBytes(<<>>, item) ELSE RecordBytes(<<>>, item)
SectionBytes(s, items) == [i \in DOMAIN items |-> ItemBytes(s, items[i])]

HoldsItem(w, q, s, item, z, l) ==
  IF s = 1 THEN HoldsQuestion(w, q, item, z) ELSE HoldsRecord(w, q, item, z, l)

LEMMA QuestionTyped ==
  ASSUME NEW item \in Question
  PROVE  QuestionBytes(<<>>, item) \in Seq(Cell)
<1> DEFINE f == <<item.type, item.class>>
<1>1. item.name \in Name /\ f \in Seq(Cell)
  BY DEF Question
<1> HIDE DEF f
<1>2. ToWire(item.name) \o f \in Seq(Cell)
  BY <1>1, NameTyped, ConcatProperties
<1> QED
  BY <1>2, NoShortNames DEF QuestionBytes, f

LEMMA RecordTyped ==
  ASSUME NEW r, IsRecord(r)
  PROVE  RecordBytes(<<>>, r) \in Seq(Cell)
<1> DEFINE a == ToWire(r.name)
           b == RDataBytes(<<>>, r.type, r.rdata)
           c == Len(b) % 256
           f == <<r.type, r.class, r.ttl, c>>
<1>1. a \in Seq(Cell) /\ b \in Seq(Cell)
  BY NameTyped, DataWritten DEF IsRecord
<1>2. c \in Cell
  <2> DEFINE n == Len(b)
  <2>1. n \in Nat
    BY <1>1, LenProperties
  <2> HIDE DEF n
  <2>2. n % 256 \in 0..255
    BY <2>1
  <2> QED BY <2>2 DEF Cell, n
<1> HIDE DEF c
<1>3. f \in Seq(Cell)
  BY <1>2 DEF IsRecord
<1> HIDE DEF f, a, b
<1>4. (a \o f) \o b \in Seq(Cell)
  <2>1. a \o f \in Seq(Cell)
    BY <1>1, <1>3, ConcatProperties
  <2> QED BY <1>1, <2>1, ConcatProperties
<1> QED
  BY <1>4, NoShortNames DEF RecordBytes, a, b, c, f

LEMMA SectionWritten ==
  ASSUME NEW s, NEW items, IsSection(s, items)
  PROVE  /\ SectionBytes(s, items) \in Seq(Seq(Cell))
         /\ Len(SectionBytes(s, items)) = Len(items) /\ Len(items) \in Nat
         /\ DOMAIN items = 1..Len(items)
         /\ \A i \in 1..Len(items) :
              SectionBytes(s, items)[i] = ItemBytes(s, items[i]) /\ IsItem(s, items[i])
         /\ FlattenSeq(SectionBytes(s, items)) \in Seq(Cell)
<1>1. Len(items) \in Nat /\ DOMAIN items = 1..Len(items)
      /\ \A i \in 1..Len(items) : IsItem(s, items[i])
  BY SequenceIsSeq DEF IsSection
<1>2. \A i \in 1..Len(items) : ItemBytes(s, items[i]) \in Seq(Cell)
  BY <1>1, QuestionTyped, RecordTyped DEF ItemBytes, IsItem
<1>3. SectionBytes(s, items) \in [1..Len(items) -> Seq(Cell)]
      /\ \A i \in 1..Len(items) : SectionBytes(s, items)[i] = ItemBytes(s, items[i])
  BY <1>1, <1>2 DEF SectionBytes
<1>4. SectionBytes(s, items) \in Seq(Seq(Cell)) /\ Len(SectionBytes(s, items)) = Len(items)
  BY <1>1, <1>3, FunctionIsSeq
<1> QED
  BY <1>1, <1>3, <1>4, FlattenTyped

LEMMA ItemStands ==
  ASSUME NEW w \in Seq(Cell), NEW q \in Nat, NEW s, NEW item, IsItem(s, item),
         s \in 1..4, ItemFits(s, item), StandsAt(w, q, ItemBytes(s, item))
  PROVE  \E l : HoldsItem(w, q, s, item, q + Len(ItemBytes(s, item)), l)
<1>1. CASE s = 1
  <2>1. item \in Question /\ LabelsFit(item.name)
        /\ ItemBytes(s, item) = QuestionBytes(<<>>, item)
    BY <1>1 DEF IsItem, ItemFits, ItemBytes
  <2>2. HoldsQuestion(w, q, item, q + Len(QuestionBytes(<<>>, item)))
    BY <2>1, QuestionStands
  <2> QED BY <1>1, <2>1, <2>2 DEF HoldsItem
<1>2. CASE s # 1
  <2>1. IsRecord(item) /\ RecordFits(item) /\ ItemBytes(s, item) = RecordBytes(<<>>, item)
    BY <1>2 DEF IsItem, ItemFits, ItemBytes
  <2>2. \E l : HoldsRecord(w, q, item, q + Len(RecordBytes(<<>>, item)), l)
    BY <2>1, RecordStands
  <2> QED BY <1>2, <2>1, <2>2 DEF HoldsItem
<1> QED
  BY <1>1, <1>2

\* Where the items of a section stand: ends, and the layouts of its records.
SectionStandsAt(w, q, s, items, z, ends, lays) ==
  /\ ends \in [0..Len(items) -> Nat]
  /\ ends[0] = q /\ ends[Len(items)] = z
  /\ \A i \in 1..Len(items) : HoldsItem(w, ends[i - 1], s, items[i], ends[i], lays[i])

LEMMA SectionStands ==
  ASSUME NEW w \in Seq(Cell), NEW q \in Nat, NEW s \in 1..4, NEW items,
         IsSection(s, items), \A i \in 1..Len(items) : ItemFits(s, items[i]),
         StandsAt(w, q, FlattenSeq(SectionBytes(s, items)))
  PROVE  \E ends, lays :
           SectionStandsAt(w, q, s, items, q + Len(FlattenSeq(SectionBytes(s, items))),
                           ends, lays)
<1> DEFINE us == SectionBytes(s, items)
           n == Len(items)
           z == q + Len(FlattenSeq(us))
<1>1. us \in Seq(Seq(Cell)) /\ Len(us) = n /\ n \in Nat
      /\ \A i \in 1..n : us[i] = ItemBytes(s, items[i]) /\ IsItem(s, items[i])
  BY SectionWritten
<1>2. Lined(us, w, q, z)
  BY <1>1, FlattenStands
<1> HIDE DEF us, z
<1>3. PICK ends \in [0..n -> Nat] :
        /\ ends[0] = q /\ ends[n] = z
        /\ \A i \in 1..n : /\ ends[i] = ends[i - 1] + Len(us[i])
                           /\ StandsAt(w, ends[i - 1], us[i])
  <2> HIDE DEF n
  <2> QED BY <1>1, <1>2 DEF Lined
<1> DEFINE Lay(i) == CHOOSE l : HoldsItem(w, ends[i - 1], s, items[i], ends[i], l)
           lays == [i \in 1..n |-> Lay(i)]
<1>4. ASSUME NEW i \in 1..n
      PROVE  HoldsItem(w, ends[i - 1], s, items[i], ends[i], lays[i])
  <2> DEFINE e == ends[i - 1]
             item == items[i]
  <2>1. e \in Nat
    <3>1. i - 1 \in 0..n
      BY <1>1
    <3> QED BY <3>1
  <2>2. /\ IsItem(s, item) /\ ItemFits(s, item) /\ StandsAt(w, e, ItemBytes(s, item))
        /\ ends[i] = e + Len(ItemBytes(s, item))
    BY <1>1, <1>3
  <2> HIDE DEF e, item
  <2>3. \E l : HoldsItem(w, e, s, item, e + Len(ItemBytes(s, item)), l)
    BY <2>1, <2>2, ItemStands
  <2>4. \E l : HoldsItem(w, ends[i - 1], s, items[i], ends[i], l)
    BY <2>2, <2>3 DEF e, item
  <2>5. HoldsItem(w, ends[i - 1], s, items[i], ends[i], Lay(i))
    BY <2>4
  <2>6. lays[i] = Lay(i)
    OBVIOUS
  <2> QED BY <2>5, <2>6
<1> HIDE DEF lays
<1>5. SectionStandsAt(w, q, s, items, z, ends, lays)
  BY <1>3, <1>4 DEF SectionStandsAt
<1> QED
  BY <1>5 DEF z, us

CountsBytes(m) == [s \in 1..4 |-> Len(m.sections[s]) % 256]
AllBytes(m, s) == FlattenSeq(SectionBytes(s, m.sections[s]))
RecordsBytes(m) == [s \in 1..3 |-> AllBytes(m, s + 1)]

LEMMA MessageWritten ==
  ASSUME NEW m, IsMessage(m)
  PROVE  /\ Serialize(m) = ((HeaderBytes(m.header) \o CountsBytes(m)) \o AllBytes(m, 1))
                             \o FlattenSeq(RecordsBytes(m))
         /\ HeaderBytes(m.header) \in Seq(Cell) /\ Len(HeaderBytes(m.header)) = 3
         /\ CountsBytes(m) \in Seq(Cell) /\ Len(CountsBytes(m)) = 4
         /\ \A s \in 1..4 : /\ CountsBytes(m)[s] = Len(m.sections[s])
                            /\ AllBytes(m, s) \in Seq(Cell)
                            /\ Len(m.sections[s]) \in Nat
         /\ RecordsBytes(m) \in Seq(Seq(Cell)) /\ Len(RecordsBytes(m)) = 3
         /\ \A s \in 1..3 : RecordsBytes(m)[s] = AllBytes(m, s + 1)
         /\ FlattenSeq(RecordsBytes(m)) \in Seq(Cell)
         /\ Serialize(m) \in Seq(Cell)
<1>1. \A s \in 1..4 : IsSection(s, m.sections[s])
  BY DEF IsMessage
<1>2. \A s \in 1..4 : AllBytes(m, s) \in Seq(Cell) /\ Len(m.sections[s]) \in Nat
  BY <1>1, SectionWritten DEF AllBytes
<1>3. ASSUME NEW s \in 1..4
      PROVE  Len(m.sections[s]) % 256 = Len(m.sections[s]) /\ Len(m.sections[s]) \in Cell
  <2> DEFINE n == Len(m.sections[s])
  <2>1. n \in Nat /\ n < 256
    BY <1>1, <1>2 DEF IsSection
  <2> HIDE DEF n
  <2>2. n % 256 = n /\ n \in 0..255
    BY <2>1
  <2> QED BY <2>2 DEF Cell, n
<1>4. CountsBytes(m) \in [1..4 -> Cell] /\ \A s \in 1..4 : CountsBytes(m)[s] = Len(m.sections[s])
  BY <1>3 DEF CountsBytes
<1>5. CountsBytes(m) \in Seq(Cell) /\ Len(CountsBytes(m)) = 4
  <2> DEFINE n == 4
             c == CountsBytes(m)
  <2>1. n \in Nat /\ c \in [1..n -> Cell]
    BY <1>4
  <2> HIDE DEF n, c
  <2>2. c \in Seq(Cell) /\ Len(c) = n
    BY <2>1, FunctionIsSeq
  <2> QED BY <2>2 DEF n, c
<1>6. HeaderBytes(m.header) \in Seq(Cell) /\ Len(HeaderBytes(m.header)) = 3
  BY HeaderWritten DEF IsMessage
<1>7. /\ RecordsBytes(m) \in [1..3 -> Seq(Cell)]
      /\ \A s \in 1..3 : RecordsBytes(m)[s] = AllBytes(m, s + 1)
  <2>1. \A s \in 1..3 : s + 1 \in 1..4
    OBVIOUS
  <2> QED BY <1>2, <2>1 DEF RecordsBytes
<1>8. RecordsBytes(m) \in Seq(Seq(Cell)) /\ Len(RecordsBytes(m)) = 3
  <2>1. 3 \in Nat
    OBVIOUS
  <2> QED BY <1>7, <2>1, FunctionIsSeq
<1>9. FlattenSeq(RecordsBytes(m)) \in Seq(Cell)
  BY <1>8, FlattenTyped
<1>10. Serialize(m) = ((HeaderBytes(m.header) \o CountsBytes(m)) \o AllBytes(m, 1))
                         \o FlattenSeq(RecordsBytes(m))
  <2>1. [i \in DOMAIN m.sections[1] |-> QuestionBytes(<<>>, m.sections[1][i])]
          = SectionBytes(1, m.sections[1])
    BY DEF SectionBytes, ItemBytes
  <2>2. \A s \in 1..3 :
          [i \in DOMAIN m.sections[s + 1] |-> RecordBytes(<<>>, m.sections[s + 1][i])]
            = SectionBytes(s + 1, m.sections[s + 1])
    BY DEF SectionBytes, ItemBytes
  <2>3. [s \in 1..3 |-> FlattenSeq([i \in DOMAIN m.sections[s + 1] |->
                                     RecordBytes(<<>>, m.sections[s + 1][i])])]
          = RecordsBytes(m)
    BY <2>2 DEF RecordsBytes, AllBytes
  <2> QED BY <2>1, <2>3 DEF Serialize, SerializeWith, CountsBytes, AllBytes
<1>11. Serialize(m) \in Seq(Cell)
  <2> DEFINE h == HeaderBytes(m.header)
             c == CountsBytes(m)
             a == AllBytes(m, 1)
             r == FlattenSeq(RecordsBytes(m))
  <2>1. h \in Seq(Cell) /\ c \in Seq(Cell) /\ a \in Seq(Cell) /\ r \in Seq(Cell)
    BY <1>2, <1>5, <1>6, <1>9
  <2> HIDE DEF h, c, a, r
  <2>2. h \o c \in Seq(Cell)
    BY <2>1, ConcatProperties
  <2>3. (h \o c) \o a \in Seq(Cell)
    BY <2>1, <2>2, ConcatProperties
  <2>4. ((h \o c) \o a) \o r \in Seq(Cell)
    BY <2>1, <2>3, ConcatProperties
  <2> QED BY <1>10, <2>4 DEF h, c, a, r
<1> QED
  BY <1>2, <1>4, <1>5, <1>6, <1>7, <1>8, <1>9, <1>10, <1>11

\* Where the parts of what is written stand.
LEMMA PartsStand ==
  ASSUME NEW m, IsMessage(m)
  PROVE  LET w == Serialize(m)
             n == Len(AllBytes(m, 1))
         IN  /\ StandsAt(w, 0, HeaderBytes(m.header)) /\ StandsAt(w, 3, CountsBytes(m))
             /\ StandsAt(w, 7, AllBytes(m, 1)) /\ n \in Nat
             /\ StandsAt(w, 7 + n, FlattenSeq(RecordsBytes(m)))
             /\ Len(w) = 7 + n + Len(FlattenSeq(RecordsBytes(m)))
<1> DEFINE w == Serialize(m)
           h == HeaderBytes(m.header)
           c == CountsBytes(m)
           a == AllBytes(m, 1)
           r == FlattenSeq(RecordsBytes(m))
           n == Len(a)
<1> SUFFICES /\ StandsAt(w, 0, h) /\ StandsAt(w, 3, c) /\ StandsAt(w, 7, a) /\ n \in Nat
             /\ StandsAt(w, 7 + n, r) /\ Len(w) = 7 + n + Len(r)
  OBVIOUS
<1>1. /\ w = ((h \o c) \o a) \o r /\ w \in Seq(Cell)
      /\ h \in Seq(Cell) /\ c \in Seq(Cell) /\ a \in Seq(Cell) /\ r \in Seq(Cell)
      /\ Len(h) = 3 /\ Len(c) = 4
  <2>1. w = ((h \o c) \o a) \o r
    BY MessageWritten
  <2>2. w \in Seq(Cell) /\ h \in Seq(Cell) /\ c \in Seq(Cell) /\ r \in Seq(Cell)
    BY MessageWritten
  <2>3. \A s \in 1..4 : AllBytes(m, s) \in Seq(Cell)
    BY MessageWritten
  <2>4. 1 \in 1..4
    OBVIOUS
  <2>5. Len(h) = 3 /\ Len(c) = 4
    BY MessageWritten
  <2>6. a \in Seq(Cell)
    BY <2>3, <2>4
  <2> HIDE DEF w, h, c, a, r
  <2> QED BY <2>1, <2>2, <2>5, <2>6
<1> HIDE DEF w, h, c, a, r
<1>2. /\ h \o c \in Seq(Cell) /\ Len(h \o c) = 7
      /\ (h \o c) \o a \in Seq(Cell) /\ Len((h \o c) \o a) = 7 + n
      /\ n \in Nat /\ Len(r) \in Nat
  <2>1. h \o c \in Seq(Cell) /\ Len(h \o c) = Len(h) + Len(c)
    BY <1>1, ConcatProperties
  <2>2. (h \o c) \o a \in Seq(Cell) /\ Len((h \o c) \o a) = Len(h \o c) + n
    BY <1>1, <2>1, ConcatProperties
  <2> QED BY <1>1, <2>1, <2>2, LenProperties
<1> HIDE DEF n
<1>3. Len(w) = 7 + n + Len(r)
  <2>1. Len(((h \o c) \o a) \o r) = Len((h \o c) \o a) + Len(r)
    BY <1>1, <1>2, ConcatProperties
  <2> QED BY <1>1, <1>2, <2>1
<1>4. StandsAt(w, 0, ((h \o c) \o a) \o r)
  BY <1>1, StandsAtStart
<1>5. StandsAt(w, 0, (h \o c) \o a) /\ StandsAt(w, 7 + n, r)
  <2>1. StandsAt(w, 0, (h \o c) \o a) /\ StandsAt(w, 0 + Len((h \o c) \o a), r)
    BY <1>1, <1>2, <1>4, ConcatStands
  <2>2. 0 + Len((h \o c) \o a) = 7 + n
    BY <1>2
  <2> QED BY <2>1, <2>2
<1>6. StandsAt(w, 0, h \o c) /\ StandsAt(w, 7, a)
  <2>1. StandsAt(w, 0, h \o c) /\ StandsAt(w, 0 + Len(h \o c), a)
    BY <1>1, <1>2, <1>5, ConcatStands
  <2>2. 0 + Len(h \o c) = 7
    BY <1>2
  <2> QED BY <2>1, <2>2
<1>7. StandsAt(w, 0, h) /\ StandsAt(w, 3, c)
  <2>1. StandsAt(w, 0, h) /\ StandsAt(w, 0 + Len(h), c)
    BY <1>1, <1>6, ConcatStands
  <2>2. 0 + Len(h) = 3
    BY <1>1
  <2> QED BY <2>1, <2>2
<1> QED
  BY <1>2, <1>3, <1>5, <1>6, <1>7

LEMMA WritableFits ==
  ASSUME NEW m, IsMessage(m), Writable(m), NEW s \in 1..4
  PROVE  \A i \in 1..Len(m.sections[s]) : ItemFits(s, m.sections[s][i])
<1>1. DOMAIN m.sections[s] = 1..Len(m.sections[s])
  BY SectionWritten DEF IsMessage
<1>2. ASSUME NEW i \in 1..Len(m.sections[s])
      PROVE  ItemFits(s, m.sections[s][i])
  <2>1. i \in DOMAIN m.sections[s]
    BY <1>1
  <2>2. IF s = 1 THEN LabelsFit(m.sections[s][i].name) ELSE RecordFits(m.sections[s][i])
    BY <2>1 DEF Writable
  <2> QED BY <2>2 DEF ItemFits, RecordFits
<1> QED
  BY <1>2

\* What is written holds what it was written from.
LEMMA WrittenHolds ==
  ASSUME NEW m, IsMessage(m), Writable(m)
  PROVE  Holds(Serialize(m), m)
<1> DEFINE w == Serialize(m)
           items(s) == m.sections[s]
           a == AllBytes(m, 1)
           rs == RecordsBytes(m)
           r == FlattenSeq(rs)
           n == Len(a)
           z == Len(w)
<1>1. /\ StandsAt(w, 0, HeaderBytes(m.header)) /\ StandsAt(w, 3, CountsBytes(m))
      /\ StandsAt(w, 7, a) /\ n \in Nat /\ StandsAt(w, 7 + n, r)
      /\ z = 7 + n + Len(r)
  BY PartsStand
<1>2. /\ w \in Seq(Cell) /\ a \in Seq(Cell) /\ r \in Seq(Cell) /\ z \in Nat
      /\ rs \in Seq(Seq(Cell)) /\ Len(rs) = 3
  <2>1. /\ w \in Seq(Cell) /\ r \in Seq(Cell) /\ rs \in Seq(Seq(Cell)) /\ Len(rs) = 3
    BY MessageWritten
  <2>2. \A s \in 1..4 : AllBytes(m, s) \in Seq(Cell)
    BY MessageWritten
  <2>3. 1 \in 1..4
    OBVIOUS
  <2>4. z \in Nat
    BY <2>1, LenProperties
  <2> HIDE DEF w, r, rs, z
  <2> QED BY <2>1, <2>2, <2>3, <2>4
<1>3. \A s \in 1..3 : rs[s] = AllBytes(m, s + 1)
  BY MessageWritten
<1>4. \A s \in 1..4 : /\ IsSection(s, items(s)) /\ Len(items(s)) \in Nat
                      /\ CountsBytes(m)[s] = Len(items(s))
                      /\ \A i \in 1..Len(items(s)) : ItemFits(s, items(s)[i])
  BY MessageWritten, WritableFits DEF IsMessage
<1>5. /\ m.header = ReadHeader(w[1], w[2], w[3]) /\ 7 <= z
      /\ \A s \in 1..4 : Len(items(s)) = w[s + 3]
  <2>1. HeaderBytes(m.header) = <<m.header.id, Flags1(m.header), Flags2(m.header)>>
        /\ ReadHeader(m.header.id, Flags1(m.header), Flags2(m.header)) = m.header
        /\ Len(HeaderBytes(m.header)) = 3
    BY HeaderWritten DEF IsMessage
  <2> DEFINE h == HeaderBytes(m.header)
             c == CountsBytes(m)
  <2>2. h[1] = m.header.id /\ h[2] = Flags1(m.header) /\ h[3] = Flags2(m.header)
    BY <2>1
  <2>3. Len(c) = 4
    BY MessageWritten
  <2> HIDE DEF w, h, c, n, r
  <2>4. \A i \in 1..3 : w[0 + i] = h[i]
    BY <1>1, <2>1 DEF StandsAt, h
  <2>5. w[1] = h[1] /\ w[2] = h[2] /\ w[3] = h[3]
    <3>1. 0 + 1 = 1 /\ 0 + 2 = 2 /\ 0 + 3 = 3
      OBVIOUS
    <3>2. 1 \in 1..3 /\ 2 \in 1..3 /\ 3 \in 1..3
      OBVIOUS
    <3> QED BY <2>4, <3>1, <3>2
  <2>6. \A s \in 1..4 : w[3 + s] = c[s]
    BY <1>1, <2>3 DEF StandsAt, c
  <2>7. \A s \in 1..4 : 3 + s = s + 3
    OBVIOUS
  <2>8. \A s \in 1..4 : w[s + 3] = c[s]
    BY <2>6, <2>7
  <2>9. 7 <= z
    <3>1. Len(r) \in Nat
      BY <1>2, LenProperties
    <3> HIDE DEF z
    <3> QED BY <1>1, <3>1
  <2> QED BY <1>4, <2>1, <2>2, <2>5, <2>8, <2>9 DEF c
<1> HIDE DEF w, rs, r, n, z
<1>6. PICK ends \in [0..3 -> Nat] :
        /\ ends[0] = 7 + n /\ ends[3] = z
        /\ \A s \in 1..3 : /\ ends[s] = ends[s - 1] + Len(AllBytes(m, s + 1))
                           /\ StandsAt(w, ends[s - 1], AllBytes(m, s + 1))
  <2>1. 7 + n \in Nat
    BY <1>1
  <2>2. Lined(rs, w, 7 + n, 7 + n + Len(r))
    BY <1>1, <1>2, <2>1, FlattenStands DEF r
  <2>3. PICK ends \in [0..Len(rs) -> Nat] :
          /\ ends[0] = 7 + n /\ ends[Len(rs)] = 7 + n + Len(r)
          /\ \A s \in 1..Len(rs) : /\ ends[s] = ends[s - 1] + Len(rs[s])
                                   /\ StandsAt(w, ends[s - 1], rs[s])
    BY <2>2 DEF Lined
  <2> HIDE DEF a
  <2>4. /\ ends \in [0..3 -> Nat] /\ ends[0] = 7 + n /\ ends[3] = z
        /\ \A s \in 1..3 : /\ ends[s] = ends[s - 1] + Len(rs[s])
                           /\ StandsAt(w, ends[s - 1], rs[s])
    BY <1>1, <1>2, <2>3
  <2>5. \A s \in 1..3 : /\ ends[s] = ends[s - 1] + Len(AllBytes(m, s + 1))
                       /\ StandsAt(w, ends[s - 1], AllBytes(m, s + 1))
    BY <1>3, <2>4
  <2> QED BY <2>4, <2>5
<1> DEFINE Begin(s) == IF s = 1 THEN 7 ELSE ends[s - 2]
           End(s) == ends[s - 1]
<1>7. ASSUME NEW s \in 1..4
      PROVE  \E e, l : SectionStandsAt(w, Begin(s), s, items(s), End(s), e, l)
  <2>1. /\ Begin(s) \in Nat /\ End(s) = Begin(s) + Len(AllBytes(m, s))
        /\ StandsAt(w, Begin(s), AllBytes(m, s))
    <3>1. CASE s = 1
      <4>1. 1 - 1 = 0
        OBVIOUS
      <4> QED BY <1>1, <1>6, <3>1, <4>1 DEF n
    <3>2. CASE s # 1
      <4>1. s - 1 \in 1..3 /\ (s - 1) - 1 = s - 2 /\ (s - 1) + 1 = s /\ s - 2 \in 0..3
        BY <3>2
      <4>2. /\ ends[s - 1] = ends[(s - 1) - 1] + Len(AllBytes(m, (s - 1) + 1))
            /\ StandsAt(w, ends[(s - 1) - 1], AllBytes(m, (s - 1) + 1))
        BY <1>6, <4>1
      <4>3. Begin(s) = ends[s - 2] /\ End(s) = ends[s - 1] /\ ends[s - 2] \in Nat
        BY <1>6, <3>2, <4>1
      <4> HIDE DEF Begin, End
      <4> QED BY <4>1, <4>2, <4>3
    <3> QED BY <3>1, <3>2
  <2>2. IsSection(s, items(s)) /\ \A i \in 1..Len(items(s)) : ItemFits(s, items(s)[i])
    BY <1>4
  <2> HIDE DEF Begin, End, items
  <2>3. StandsAt(w, Begin(s), FlattenSeq(SectionBytes(s, items(s))))
        /\ End(s) = Begin(s) + Len(FlattenSeq(SectionBytes(s, items(s))))
    BY <2>1 DEF AllBytes, items
  <2>4. \E e, l : SectionStandsAt(w, Begin(s), s, items(s),
                    Begin(s) + Len(FlattenSeq(SectionBytes(s, items(s)))), e, l)
    BY <1>2, <2>1, <2>2, <2>3, SectionStands
  <2> QED BY <2>3, <2>4
<1> DEFINE Both(s) == CHOOSE p : SectionStandsAt(w, Begin(s), s, items(s), End(s), p[1], p[2])
           at == [s \in 1..4 |-> Both(s)[1]]
           layouts == [s \in 1..4 |-> Both(s)[2]]
<1>8. ASSUME NEW s \in 1..4
      PROVE  SectionStandsAt(w, Begin(s), s, items(s), End(s), at[s], layouts[s])
  <2> HIDE DEF Begin, End, items
  <2>1. PICK e, l : SectionStandsAt(w, Begin(s), s, items(s), End(s), e, l)
    BY <1>7
  <2>2. <<e, l>>[1] = e /\ <<e, l>>[2] = l
    OBVIOUS
  <2>3. \E p : SectionStandsAt(w, Begin(s), s, items(s), End(s), p[1], p[2])
    BY <2>1, <2>2
  <2>4. SectionStandsAt(w, Begin(s), s, items(s), End(s), Both(s)[1], Both(s)[2])
    BY <2>3
  <2>5. at[s] = Both(s)[1] /\ layouts[s] = Both(s)[2]
    OBVIOUS
  <2> QED BY <2>4, <2>5
<1> HIDE DEF at, layouts
<1>9. \A s \in 1..4 :
        /\ at[s] \in [0..Len(items(s)) -> Nat]
        /\ at[s][0] = Begin(s) /\ at[s][Len(items(s))] = End(s)
        /\ \A i \in 1..Len(items(s)) :
             HoldsItem(w, at[s][i - 1], s, items(s)[i], at[s][i], layouts[s][i])
  BY <1>8 DEF SectionStandsAt
<1>10. at[1][0] = 7 /\ at[4][Len(items(4))] = z
  <2>1. 1 \in 1..4 /\ 4 \in 1..4 /\ Begin(1) = 7 /\ End(4) = ends[3]
    OBVIOUS
  <2> HIDE DEF items, Begin, End
  <2>2. at[1][0] = Begin(1) /\ at[4][Len(items(4))] = End(4)
    BY <1>9, <2>1
  <2> QED BY <1>6, <2>1, <2>2
<1>11. \A s \in 1..3 : at[s + 1][0] = at[s][Len(items(s))]
  <2> SUFFICES ASSUME NEW s \in 1..3
               PROVE  at[s + 1][0] = at[s][Len(items(s))]
    OBVIOUS
  <2>1. s \in 1..4 /\ s + 1 \in 1..4 /\ s + 1 # 1 /\ (s + 1) - 2 = s - 1
    OBVIOUS
  <2>2. Begin(s + 1) = End(s)
    BY <2>1
  <2> HIDE DEF items, Begin, End
  <2>3. at[s + 1][0] = Begin(s + 1) /\ at[s][Len(items(s))] = End(s)
    BY <1>9, <2>1
  <2> QED BY <2>2, <2>3
<1>12. \A s \in 1..4 : IsSequence(items(s))
  BY <1>4 DEF IsSection
<1>13. HoldsMessage(w, m, at, layouts)
  <2>1. /\ m = [header |-> m.header, sections |-> m.sections]
        /\ IsSequence(m.sections) /\ Len(m.sections) = 4
    BY DEF IsMessage
  <2> QED
    BY <1>5, <1>9, <1>10, <1>11, <1>12, <2>1 DEF HoldsMessage, HoldsItem, HeaderSize, z
<1> QED
  BY <1>13 DEF Holds, w

-----------------------------------------------------------------------------
(***************************************************************************)
(* What the parser has read is such a message at every step, and the item it *)
(* reads is on the way to being one: of data that is sliced without a name   *)
(* before it, the length is the one that has been checked.                  *)
(***************************************************************************)
SectionsTyped ==
  /\ header \in Header
  /\ sections = [s \in 1..4 |-> sections[s]]
  /\ \A s \in 1..4 : IsSection(s, sections[s])
  /\ Len(sections[sec]) + left < 256
  /\ \A s \in sec + 1..4 : sections[s] = <<>>
  /\ pc = "header" => sec = 1 /\ sections = NoSections

ItemTyped ==
  /\ pc \in {"name", "fixed", "rdata", "texts"} => names \in Seq(Name)
  /\ InRecord => sec > 1 /\ Len(fixed) = RecordSize + HeadSize(fixed[1])
  /\ pc = "rdata" /\ Len(names) = 1 =>
       LengthOk(fixed[1], HeadSize(fixed[1]) + (end - offset))
  /\ pc = "texts" => Rest(fixed[1]) = "texts" /\ parts \in Seq(Seq(TextChar))

ReadTyped == SectionsTyped /\ ItemTyped

LEMMA EmptySection ==
  ASSUME NEW s
  PROVE  IsSection(s, <<>>)
<1>1. IsSequence(<<>>)
  BY EmptySeq, SeqIsSequence
<1>2. Len(<<>>) = 0 /\ 1..0 = {}
  OBVIOUS
<1> QED
  BY <1>1, <1>2 DEF IsSection

LEMMA SectionGrows ==
  ASSUME NEW s, NEW items, IsSection(s, items), Len(items) + 1 < 256,
         NEW item, IsItem(s, item)
  PROVE  IsSection(s, Append(items, item)) /\ Len(Append(items, item)) = Len(items) + 1
<1> DEFINE S == {items[i] : i \in 1..Len(items)} \cup {item}
           a == Append(items, item)
<1>1. IsSequence(items) /\ Len(items) \in Nat /\ \A i \in 1..Len(items) : IsItem(s, items[i])
  BY DEF IsSection, IsSequence
<1>2. items \in Seq(S) /\ item \in S
  <2>1. items \in [1..Len(items) -> S]
    BY <1>1 DEF IsSequence
  <2> HIDE DEF S
  <2>2. items \in Seq(S)
    BY <1>1, <2>1
  <2> QED BY <2>2 DEF S
<1> HIDE DEF S
<1>3. a \in Seq(S) /\ Len(a) = Len(items) + 1 /\ a[Len(items) + 1] = item
      /\ \A i \in 1..Len(items) : a[i] = items[i]
  BY <1>2, AppendProperties
<1> HIDE DEF a
<1>4. IsSequence(a)
  BY <1>3, SeqIsSequence
<1>5. \A i \in 1..Len(a) : IsItem(s, a[i])
  BY <1>1, <1>3
<1> QED
  BY <1>3, <1>4, <1>5 DEF IsSection, a

\* A step that adds no item, and passes over none of the sections.
LEMMA NoItem ==
  ASSUME NInv, SectionsTyped, UNCHANGED <<header, sections, sec>>,
         left' \in Nat, left' <= left, pc' # "header"
  PROVE  SectionsTyped'
<1>1. Len(sections[sec]) \in Nat /\ left \in Nat /\ sec \in 1..4
  BY DEF SectionsTyped, IsSection, IsSequence, NInv, IInv, TypeOK
<1>2. Len(sections[sec]) + left' < 256
  <2> DEFINE n == Len(sections[sec])
             k == left'
             l == left
  <2>1. n \in Nat /\ n + l < 256 /\ k \in Nat /\ l \in Nat /\ k <= l
    BY <1>1 DEF SectionsTyped
  <2> HIDE DEF n, k, l
  <2>2. n + k < 256
    BY <2>1
  <2> QED BY <2>2 DEF n, k
<1> QED
  BY <1>2 DEF SectionsTyped

\* Between the items there is nothing more to show.
LEMMA NoItemHere ==
  pc' \notin {"name", "fixed", "rdata", "texts"} => ItemTyped'
BY DEF ItemTyped, InRecord, InName

LEMMA FailTyped ==
  ASSUME NInv, SectionsTyped, Fail \/ Panic
  PROVE  ReadTyped'
<1>1. /\ pc' \in {"failed", "item", "panicked"} /\ left' \in Nat /\ left' <= left
      /\ UNCHANGED <<header, sections, sec>>
  BY DEF Fail, Panic, messageVars, NInv, IInv, TypeOK
<1> QED
  BY <1>1, NoItem, NoItemHere DEF ReadTyped

LEMMA ItemAccepted ==
  ASSUME NInv, SectionsTyped, left > 0, NEW item, IsItem(sec, item), Accept(item)
  PROVE  ReadTyped'
<1> DEFINE n == Len(sections[sec])
           items == sections[sec]
           a == Append(items, item)
<1>1. sec \in 1..4 /\ left \in Nat /\ IsSection(sec, items) /\ n \in Nat /\ n + left < 256
  BY DEF SectionsTyped, IsSection, IsSequence, NInv, IInv, TypeOK
<1>2. n + 1 < 256
  <2> HIDE DEF n
  <2> QED BY <1>1
<1>3. IsSection(sec, a) /\ Len(a) = n + 1
  BY <1>1, <1>2, SectionGrows
<1>4. /\ sections' = [sections EXCEPT ![sec] = a] /\ left' = left - 1 /\ pc' = "item"
      /\ header' = header /\ sec' = sec
  BY DEF Accept
<1> HIDE DEF a
<1>5. /\ sections'[sec] = a /\ sections' = [s \in 1..4 |-> sections'[s]]
      /\ \A s \in 1..4 : s # sec => sections'[s] = sections[s]
  <2>1. sections = [s \in 1..4 |-> sections[s]]
    BY DEF SectionsTyped
  <2> QED BY <1>1, <1>4, <2>1
<1>6. Len(sections'[sec']) + left' < 256
  <2>1. Len(sections'[sec']) = n + 1
    BY <1>3, <1>4, <1>5
  <2> HIDE DEF n
  <2>2. n + 1 + left' < 256
    BY <1>1, <1>4
  <2> QED BY <2>1, <2>2
<1>7. \A s \in 1..4 : IsSection(s, sections'[s])
  BY <1>1, <1>3, <1>5 DEF SectionsTyped
<1>8. \A s \in sec' + 1..4 : sections'[s] = <<>>
  <2>1. \A s \in sec + 1..4 : s \in 1..4 /\ s # sec
    BY <1>1
  <2> QED BY <1>4, <1>5, <2>1 DEF SectionsTyped
<1>9. SectionsTyped'
  BY <1>4, <1>5, <1>6, <1>7, <1>8 DEF SectionsTyped
<1> QED
  BY <1>4, <1>9, NoItemHere DEF ReadTyped

LEMMA HeaderTyped ==
  ASSUME NInv, ReadTyped, HeaderShort \/ ParseHeader \/ NextItem \/ NextSection \/ Finish
  PROVE  ReadTyped'
<1>1. SectionsTyped /\ TypeOK
  BY DEF ReadTyped, NInv, IInv
<1>2. CASE HeaderShort \/ Finish
  <2>1. pc' \in {"failed", "done"} /\ UNCHANGED <<header, sections, sec, left>>
    BY <1>2 DEF HeaderShort, Finish, messageVars
  <2>2. left' \in Nat /\ left' <= left
    BY <1>1, <2>1 DEF TypeOK
  <2> QED BY <1>1, <2>1, <2>2, NoItem, NoItemHere DEF ReadTyped
<1>3. CASE ParseHeader
  <2>1. /\ pc = "header" /\ offset + 7 <= Len(data) /\ data \in Seq(Cell) /\ offset \in Nat
        /\ header' = ReadHeader(data[1], data[2], data[3]) /\ left' = data[4]
        /\ pc' = "item" /\ sections' = sections /\ sec' = sec
    BY <1>1, <1>3 DEF ParseHeader, TypeOK, HeaderSize
  <2>2. \A i \in 1..4 : data[i] \in Cell
    <3>1. \A i \in 1..4 : i \in 1..Len(data)
      BY <2>1
    <3> QED BY <2>1, <3>1, ElementOfSeq
  <2>3. header' \in Header
    BY <2>1, <2>2, ReadHeaderTyped
  <2>4. sec = 1 /\ sections = NoSections
    BY <1>1, <2>1 DEF SectionsTyped
  <2>5. Len(sections'[sec']) + left' < 256
    <3>1. NoSections[1] = <<>> /\ Len(<<>>) = 0
      BY DEF NoSections
    <3>2. Len(sections'[sec']) = 0
      BY <2>1, <2>4, <3>1
    <3>3. left' \in 0..255
      BY <2>1, <2>2 DEF Cell
    <3> DEFINE n == Len(sections'[sec'])
               k == left'
    <3> HIDE DEF n, k
    <3>4. n = 0 /\ k \in 0..255
      BY <3>2, <3>3 DEF n, k
    <3>5. n + k < 256
      BY <3>4
    <3> QED BY <3>5 DEF n, k
  <2>6. SectionsTyped'
    BY <1>1, <2>1, <2>3, <2>5 DEF SectionsTyped
  <2> QED BY <2>1, <2>6, NoItemHere DEF ReadTyped
<1>4. CASE NextItem
  <2>1. /\ pc' = "name" /\ names' = <<>> /\ UNCHANGED <<header, sections, sec, left>>
    BY <1>4 DEF NextItem, StartName, messageVars
  <2>2. left' \in Nat /\ left' <= left
    BY <1>1, <2>1 DEF TypeOK
  <2>3. SectionsTyped'
    BY <1>1, <2>1, <2>2, NoItem
  <2>4. names' \in Seq(Name) /\ Len(names') = 0
    BY <2>1
  <2> QED BY <2>1, <2>3, <2>4 DEF ReadTyped, ItemTyped, InRecord, InName
<1>5. CASE NextSection
  <2>1. /\ pc = "item" /\ pc' = "item" /\ sec < 4 /\ sec' = sec + 1 /\ left' = counts[sec + 1]
        /\ header' = header /\ sections' = sections /\ sec \in 1..4
        /\ counts \in Seq(Cell) /\ Len(counts) = 4
    BY <1>1, <1>5 DEF NextSection, TypeOK
  <2>2. sec + 1 \in 1..4 /\ sec + 1 \in sec + 1..4
        /\ \A s \in (sec + 1) + 1..4 : s \in sec + 1..4
    BY <2>1
  <2>3. left' \in 0..255
    BY ZenonT(40), <2>1, <2>2, ElementOfSeq DEF Cell
  <2>4. sections'[sec'] = <<>> /\ Len(<<>>) = 0
    BY <1>1, <2>1, <2>2 DEF SectionsTyped
  <2>5. Len(sections'[sec']) + left' < 256
    <3>1. Len(sections'[sec']) = 0
      BY <2>4
    <3> DEFINE n == Len(sections'[sec'])
               k == left'
    <3> HIDE DEF n, k
    <3>2. n = 0 /\ k \in 0..255
      BY <2>3, <3>1 DEF n, k
    <3>3. n + k < 256
      BY <3>2
    <3> QED BY <3>3 DEF n, k
  <2>6. \A s \in sec' + 1..4 : sections'[s] = <<>>
    BY <1>1, <2>1, <2>2 DEF SectionsTyped
  <2>7. SectionsTyped'
    BY <1>1, <2>1, <2>5, <2>6 DEF SectionsTyped
  <2> QED BY <2>1, <2>7, NoItemHere DEF ReadTyped
<1> QED
  BY <1>2, <1>3, <1>4, <1>5

\* Any name that has been read is one.
LEMMA LabelsAreName ==
  ASSUME NEW parts_ \in Seq(Labels)
  PROVE  parts_ \in Name
BY LabelsTyped, SeqMonotonic DEF Name

LEMMA NameStepTyped ==
  ASSUME NInv, ReadTyped, NameStep
  PROVE  ReadTyped'
<1>1. SectionsTyped /\ ItemTyped /\ TypeOK /\ ReadSoFar /\ NamesCounted
  BY DEF ReadTyped, NInv, IInv
<1>2. CASE NameShort \/ BadPointer \/ PointerLoop
  <2>1. Fail
    BY <1>2 DEF NameShort, BadPointer, PointerLoop
  <2> QED BY <1>1, <2>1, FailTyped
<1>3. CASE NameEnd
  <2>1. /\ pc = "name" /\ pc' = IF names = <<>> THEN "fixed" ELSE "rdata"
        /\ names' = Append(names, parts) /\ fixed' = fixed
        /\ UNCHANGED <<header, sections, sec, left>>
    BY <1>3 DEF NameEnd, AtLength, messageVars
  <2>2. left' \in Nat /\ left' <= left /\ pc' # "header"
    BY <1>1, <2>1 DEF TypeOK
  <2>3. SectionsTyped'
    BY <1>1, <2>1, <2>2, NoItem
  <2>4. names \in Seq(Name) /\ parts \in Name
    BY <1>1, <2>1, LabelsAreName DEF ItemTyped, ReadSoFar
  <2>5. names' \in Seq(Name) /\ Len(names') = Len(names) + 1 /\ Len(names) \in Nat
    BY <2>1, <2>4, AppendProperties, LenProperties
  <2>6. CASE names = <<>>
    BY <2>1, <2>3, <2>5, <2>6 DEF ReadTyped, ItemTyped, InRecord, InName
  <2>7. CASE names # <<>>
    <3>1. Len(names) > 0
      BY <2>4, <2>5, <2>7, EmptySeq
    <3>2. sec > 1 /\ Len(fixed) = RecordSize + HeadSize(fixed[1])
      BY <1>1, <2>1, <3>1 DEF ItemTyped, InRecord, InName
    <3>3. pc' = "rdata" /\ Len(names') # 1
      BY <2>1, <2>5, <2>7, <3>1
    <3> QED BY <2>1, <2>3, <2>5, <3>2, <3>3 DEF ReadTyped, ItemTyped, InRecord, InName
  <2> QED BY <2>6, <2>7
<1>4. CASE FollowPointer \/ ReadLabel
  <2>1. pc = "name" /\ pc' = "name" /\ UNCHANGED <<header, sections, sec, left, fixed, names>>
    BY <1>4 DEF FollowPointer, ReadLabel, AtPointer, AtLabel, AtLength, messageVars, itemVars
  <2>2. left' \in Nat /\ left' <= left
    BY <1>1, <2>1 DEF TypeOK
  <2>3. SectionsTyped'
    BY <1>1, <2>1, <2>2, NoItem
  <2> QED BY <1>1, <2>1, <2>3 DEF ReadTyped, ItemTyped, InRecord, InName
<1> QED
  BY <1>2, <1>3, <1>4 DEF NameStep

LEMMA FixedTyped ==
  ASSUME NInv, ReadTyped, FixedShort \/ ParseQuestion \/ ParseFixed
  PROVE  ReadTyped'
<1>1. SectionsTyped /\ ItemTyped /\ TypeOK /\ IInv /\ NamesCounted
  BY DEF ReadTyped, NInv, IInv
<1>2. pc = "fixed" /\ left > 0 /\ names \in Seq(Name) /\ Len(names) = 1 /\ names[1] \in Name
  <2>1. pc = "fixed"
    BY DEF FixedShort, ParseQuestion, ParseFixed
  <2>2. left > 0 /\ names \in Seq(Name) /\ Len(names) = 1
    BY <1>1, <2>1 DEF ItemTyped, NamesCounted, IInv, ItemLeft
  <2>3. 1 \in 1..Len(names)
    BY <2>2
  <2> QED BY <2>1, <2>2, <2>3, ElementOfSeq
<1>3. CASE FixedShort
  BY <1>1, <1>3, FailTyped DEF FixedShort
<1>4. CASE ParseQuestion
  <2> DEFINE item == [name |-> names[1], type |-> data[offset + 1], class |-> data[offset + 2]]
  <2>1. /\ sec = 1 /\ Fits(QuestionSize) /\ offset \in Nat /\ data \in Seq(Cell)
        /\ offset + 2 <= Len(data)
    BY <1>1, <1>4 DEF ParseQuestion, TypeOK, Fits, QuestionSize
  <2>2. data[offset + 1] \in Cell /\ data[offset + 2] \in Cell
    <3>1. offset + 1 \in 1..Len(data) /\ offset + 2 \in 1..Len(data)
      BY <2>1
    <3> QED BY <2>1, <3>1, ElementOfSeq
  <2>3. IsItem(sec, item)
    BY <1>2, <2>1, <2>2 DEF IsItem, Question
  <2>4. Accept(item) \/ Panic
    BY <1>4 DEF ParseQuestion, Reading
  <2> HIDE DEF item
  <2> QED BY <1>1, <1>2, <2>3, <2>4, ItemAccepted, FailTyped
<1>5. CASE ParseFixed
  <2> DEFINE start == offset + RecordSize
             type == data[offset + 1]
             rdlength == data[start]
             past == start + HeadSize(type)
  <2>1. CASE Fail \/ Panic
    BY <1>1, <2>1, FailTyped
  <2>2. CASE ~(Fail \/ Panic)
    <3>1. /\ sec > 1 /\ Fits(RecordSize) /\ offset \in Nat /\ data \in Seq(Cell)
          /\ start <= Len(data) /\ Len(data) \in Nat
      BY <1>1, <1>5 DEF ParseFixed, TypeOK, Fits
    <3>2. /\ LengthOk(type, rdlength) /\ fixed' = Slice(offset, past)
          /\ end' = start + rdlength /\ offset' = past /\ pc' = "rdata" /\ past <= Len(data)
          /\ UNCHANGED <<header, sections, sec, left, names>>
      BY <1>5, <2>2 DEF ParseFixed, Reading, messageVars
    <3>3. type \in Cell /\ rdlength \in Cell /\ rdlength \in Nat
          /\ start \in Nat /\ start = offset + 4
      <4>1. offset + 1 \in 1..Len(data) /\ start \in 1..Len(data) /\ start = offset + 4
        BY <3>1 DEF RecordSize
      <4>2. type \in Cell /\ rdlength \in Cell
        BY <3>1, <4>1, ElementOfSeq
      <4> HIDE DEF type, rdlength
      <4>3. rdlength \in Nat
        BY <4>2 DEF Cell
      <4>4. start \in Nat
        BY <3>1 DEF RecordSize
      <4> QED BY <4>1, <4>2, <4>3, <4>4
    <3> HIDE DEF start, type, rdlength
    <3>4. HeadSize(type) \in Nat /\ HeadSize(type) <= rdlength
      BY <3>2, <3>3, HeadWithinData
    <3>5. /\ past \in Nat /\ offset <= past /\ past - offset = 4 + HeadSize(type)
          /\ HeadSize(type) + (end' - offset') = rdlength
      BY <3>1, <3>2, <3>3, <3>4
    <3> HIDE DEF past
    <3>6. Len(fixed') = RecordSize + HeadSize(type) /\ fixed'[1] = type
      <4> DEFINE f == Slice(offset, past)
      <4>1. /\ Len(f) = (IF offset + 1 <= past THEN past - (offset + 1) + 1 ELSE 0)
            /\ \A i \in 1..past - (offset + 1) + 1 : f[i] = data[offset + 1 + i - 1]
        <5>1. offset + 1 \in Nat /\ \A i \in (offset + 1)..past : i \in 1..Len(data)
          BY <3>1, <3>2, <3>5
        <5>2. \A i \in (offset + 1)..past : data[i] \in Cell
          BY <3>1, <5>1, ElementOfSeq
        <5> QED BY <3>1, <3>5, <5>1, <5>2, SubSeqProperties DEF Slice
      <4>2. past - (offset + 1) + 1 = 4 + HeadSize(type) /\ offset + 1 <= past
            /\ 1 \in 1..past - (offset + 1) + 1 /\ offset + 1 + 1 - 1 = offset + 1
        BY <3>1, <3>4, <3>5
      <4> HIDE DEF f
      <4>3. Len(f) = 4 + HeadSize(type) /\ f[1] = data[offset + 1]
        BY <4>1, <4>2
      <4> QED BY <3>2, <4>3 DEF RecordSize, f, type
    <3>7. SectionsTyped'
      <4>1. left' \in Nat /\ left' <= left /\ pc' # "header"
        BY <1>1, <3>2 DEF TypeOK
      <4> QED BY <1>1, <3>2, <4>1, NoItem
    <3>8. LengthOk(fixed'[1], HeadSize(fixed'[1]) + (end' - offset'))
      <4>1. LengthOk(type, HeadSize(type) + (end' - offset'))
        BY <3>2, <3>5
      <4> QED BY <3>6, <4>1
    <3>9. ItemTyped'
      BY <1>2, <3>1, <3>2, <3>6, <3>8 DEF ItemTyped, InRecord, InName
    <3> QED BY <3>7, <3>9 DEF ReadTyped
  <2> QED BY <2>1, <2>2
<1> QED
  BY <1>3, <1>4, <1>5

\* A record whose data has been read to its end.
LEMMA RecordTaken ==
  ASSUME NInv, ReadTyped, pc \in {"rdata", "texts"}, Len(names) > NameCount(fixed[1]),
         NEW rest, RestOk(fixed[1], rest), AcceptRecord(rest)
  PROVE  ReadTyped'
<1> DEFINE t == fixed[1]
           count == NameCount(t)
           n == Len(names)
           head == SubSeq(fixed, RecordSize + 1, Len(fixed))
           d == [head |-> head, names |-> Tail(names), rest |-> rest]
           r == [name |-> names[1], type |-> t, class |-> fixed[2], ttl |-> fixed[3], rdata |-> d]
<1>1. SectionsTyped /\ left > 0 /\ names \in Seq(Name) /\ fixed \in Seq(Cell) /\ sec > 1
      /\ Len(fixed) = RecordSize + HeadSize(t) /\ n \in 1..count + 1 /\ count \in 0..2
      /\ n > count
  BY RDataFacts DEF ReadTyped, ItemTyped, InRecord, NInv, IInv, TypeOK
<1>2. n = count + 1 /\ n \in Nat /\ count \in Nat
  <2> HIDE DEF n, count
  <2> QED BY <1>1
<1>3. Tail(names) \in Seq(Name) /\ Len(Tail(names)) = count /\ names[1] \in Name
  <2>1. names # <<>>
    <3>1. Len(names) # 0
      BY <1>2
    <3> QED BY <1>1, <3>1, EmptySeq
  <2>2. Tail(names) \in Seq(Name) /\ Len(Tail(names)) = n - 1
    BY <1>1, <2>1
  <2>3. 1 \in 1..Len(names)
    BY <1>2
  <2>4. names[1] \in Name
    BY <1>1, <2>3, ElementOfSeq
  <2> HIDE DEF n, count
  <2> QED BY <1>2, <2>2, <2>4
<1>4. /\ t \in Cell /\ fixed[2] \in Cell /\ fixed[3] \in Cell
      /\ head \in Seq(Cell) /\ Len(head) = HeadSize(t)
  <2>1. HeadSize(t) \in Nat
    BY DEF HeadSize
  <2> DEFINE h == HeadSize(t)
             l == Len(fixed)
  <2> HIDE DEF h
  <2>2. l = 4 + h /\ h \in Nat
    BY <1>1, <2>1 DEF RecordSize, h
  <2> HIDE DEF l
  <2>3. 1 \in 1..l /\ 2 \in 1..l /\ 3 \in 1..l /\ RecordSize + 1 = 5 /\ l \in Int
        /\ \A i \in 5..l : i \in 1..l
    BY <2>2 DEF RecordSize
  <2>4. \A i \in 1..l : fixed[i] \in Cell
    BY <1>1, ElementOfSeq DEF l
  <2>5. head = SubSeq(fixed, 5, l)
    BY <2>3 DEF l
  <2>6. head \in Seq(Cell) /\ Len(head) = (IF 5 <= l THEN l - 5 + 1 ELSE 0)
    <3>1. 5 \in Int /\ \A i \in 5..l : fixed[i] \in Cell
      BY <2>3, <2>4
    <3> HIDE DEF head
    <3> QED BY <1>1, <2>3, <2>5, <3>1, SubSeqProperties
  <2>7. Len(head) = h
    <3> HIDE DEF head
    <3> QED BY <2>2, <2>6
  <2> QED BY <2>3, <2>4, <2>6, <2>7 DEF h
<1> HIDE DEF head
<1>5. d = [head |-> d.head, names |-> d.names, rest |-> d.rest]
      /\ d.head = head /\ d.names = Tail(names) /\ d.rest = rest
  OBVIOUS
<1>6. DataOk(t, d)
  <2> HIDE DEF d
  <2> QED BY <1>3, <1>4, <1>5 DEF DataOk
<1> HIDE DEF d
<1>7. IsRecord(r)
  <2>1. /\ r.name = names[1] /\ r.type = t /\ r.class = fixed[2] /\ r.ttl = fixed[3]
        /\ r.rdata = d
    OBVIOUS
  <2> QED BY <1>3, <1>4, <1>6, <2>1 DEF IsRecord
<1>8. Accept(r)
  BY DEF AcceptRecord, d, head
<1> HIDE DEF r
<1>9. IsItem(sec, r)
  BY <1>1, <1>7 DEF IsItem
<1> QED
  BY <1>1, <1>8, <1>9, ItemAccepted

LEMMA RDataTyped ==
  ASSUME NInv, ReadTyped,
         NextName \/ SkipRest \/ SliceRest \/ ParseSoa \/ StartTexts \/ ReadText \/ TextsEnd
  PROVE  ReadTyped'
<1>1. SectionsTyped /\ ItemTyped /\ TypeOK /\ IInv
  BY DEF ReadTyped, NInv, IInv
<1>2. /\ pc \in {"rdata", "texts"} /\ names \in Seq(Name) /\ sec > 1
      /\ Len(fixed) = RecordSize + HeadSize(fixed[1])
  <2>1. pc \in {"rdata", "texts"}
    BY DEF NextName, SkipRest, SliceRest, ParseSoa, StartTexts, ReadText, TextsEnd, AtRest
  <2> QED BY <1>1, <2>1 DEF ItemTyped, InRecord
<1>3. CASE NextName
  <2>1. /\ pc' = "name" /\ UNCHANGED <<header, sections, sec, left, fixed, names>>
    BY <1>3 DEF NextName, StartName, messageVars, itemVars
  <2>2. left' \in Nat /\ left' <= left
    BY <1>1, <2>1 DEF TypeOK
  <2>3. SectionsTyped'
    BY <1>1, <2>1, <2>2, NoItem
  <2> QED BY <1>2, <2>1, <2>3 DEF ReadTyped, ItemTyped, InRecord, InName
<1>4. CASE SkipRest
  <2>1. /\ Len(names) > NameCount(fixed[1]) /\ Rest(fixed[1]) = "skip" /\ AcceptRecord(<<>>)
    BY <1>4 DEF SkipRest, AtRest
  <2>2. RestOk(fixed[1], <<>>)
    BY <2>1, EmptySeq DEF RestOk
  <2> QED BY <1>2, <2>1, <2>2, RecordTaken
<1>5. CASE SliceRest
  <2>1. pc = "rdata" /\ Len(names) > NameCount(fixed[1]) /\ Rest(fixed[1]) = "slice"
    BY <1>5 DEF SliceRest, AtRest
  <2>2. CASE Panic
    BY <1>1, <2>2, FailTyped
  <2>3. CASE ~Panic
    <3> DEFINE rest == Slice(offset, end)
    <3>1. offset <= end /\ end <= Len(data) /\ AcceptRecord(rest)
      BY <1>5, <2>3 DEF SliceRest, Reading
    <3>2. rest \in Seq(Cell) /\ Len(rest) = end - offset
      BY <1>1, <3>1, SliceProperties DEF TypeOK
    <3>3. NameCount(fixed[1]) = 0 => LengthOk(fixed[1], HeadSize(fixed[1]) + Len(rest))
      <4> SUFFICES ASSUME NameCount(fixed[1]) = 0
                   PROVE  LengthOk(fixed[1], HeadSize(fixed[1]) + Len(rest))
        OBVIOUS
      <4>1. Len(names) \in 1..0 + 1
        BY <1>1, <2>1, RDataFacts
      <4>2. Len(names) = 1
        BY <4>1
      <4>3. LengthOk(fixed[1], HeadSize(fixed[1]) + (end - offset))
        BY <1>1, <2>1, <4>2 DEF ItemTyped
      <4> QED BY <3>2, <4>3
    <3> HIDE DEF rest
    <3>4. RestOk(fixed[1], rest)
      BY <2>1, <3>2, <3>3 DEF RestOk
    <3> QED BY <1>2, <2>1, <3>1, <3>4, RecordTaken
  <2> QED BY <2>2, <2>3
<1>6. CASE ParseSoa
  <2>1. pc = "rdata" /\ Len(names) > NameCount(fixed[1]) /\ Rest(fixed[1]) = "soa"
    BY <1>6 DEF ParseSoa, AtRest
  <2>2. CASE Fail \/ Panic
    BY <1>1, <2>2, FailTyped
  <2>3. CASE ~(Fail \/ Panic)
    <3> DEFINE rest == Slice(offset, offset + SoaSize)
    <3>1. /\ offset <= offset + SoaSize /\ offset + SoaSize <= Len(data) /\ AcceptRecord(rest)
      BY <1>6, <2>3 DEF ParseSoa, Reading
    <3>2. offset \in Nat /\ offset + SoaSize \in Nat /\ (offset + SoaSize) - offset = SoaSize
      BY <1>1 DEF TypeOK, SoaSize
    <3>3. rest \in Seq(Cell) /\ Len(rest) = SoaSize
      BY <1>1, <3>1, <3>2, SliceProperties DEF TypeOK
    <3> HIDE DEF rest
    <3>4. RestOk(fixed[1], rest)
      BY <2>1, <3>3 DEF RestOk
    <3> QED BY <1>2, <2>1, <3>1, <3>4, RecordTaken
  <2> QED BY <2>2, <2>3
<1>7. CASE StartTexts
  <2>1. /\ pc' = "texts" /\ parts' = <<>> /\ Rest(fixed[1]) = "texts"
        /\ UNCHANGED <<header, sections, sec, left, fixed, names>>
    BY <1>7 DEF StartTexts, AtRest, messageVars, itemVars
  <2>2. left' \in Nat /\ left' <= left
    BY <1>1, <2>1 DEF TypeOK
  <2>3. SectionsTyped'
    BY <1>1, <2>1, <2>2, NoItem
  <2>4. parts' \in Seq(Seq(TextChar))
    BY <2>1, EmptySeq
  <2> QED BY <1>2, <2>1, <2>3, <2>4 DEF ReadTyped, ItemTyped, InRecord, InName
<1>8. CASE ReadText
  <2> DEFINE start == current + 1
             stop == start + LengthByte
             bytes == Slice(start, stop)
  <2>1. pc = "texts" /\ current < end
    BY <1>8 DEF ReadText
  <2>2. CASE Fail \/ Panic
    BY <1>1, <2>2, FailTyped
  <2>3. CASE ~(Fail \/ Panic)
    <3>1. /\ start <= stop /\ stop <= Len(data)
          /\ parts' = Append(parts, FromUtf8Lossy(bytes))
          /\ UNCHANGED <<pc, header, sections, sec, left, fixed, names>>
      BY <1>8, <2>3 DEF ReadText, Reading, messageVars, itemVars
    <3>2. start \in Nat /\ stop \in Nat
      <4>1. current \in Nat /\ current + 1 \in 1..Len(data)
        BY <1>1, <2>1, RDataFacts DEF IInv, TypeOK
      <4>2. LengthByte \in Nat
        BY <2>1, <4>1, <1>1, RDataFacts, CellIsNumber DEF LengthByte
      <4> QED BY <4>1, <4>2
    <3>3. FromUtf8Lossy(bytes) \in Seq(TextChar)
      <4>1. data \in Seq(Cell)
        BY <1>1 DEF TypeOK
      <4> HIDE DEF start, stop
      <4>2. bytes \in Seq(Cell)
        BY <3>1, <3>2, <4>1, SliceProperties
      <4> QED BY <4>2, LossyTyped
    <3> HIDE DEF bytes
    <3>4. parts' \in Seq(Seq(TextChar)) /\ Rest(fixed[1]) = "texts"
      BY <1>1, <2>1, <3>1, <3>3, AppendProperties DEF ItemTyped
    <3>5. SectionsTyped'
      <4>1. left' \in Nat /\ left' <= left /\ pc' # "header"
        BY <1>1, <2>1, <3>1 DEF TypeOK
      <4> QED BY <1>1, <3>1, <4>1, NoItem
    <3> QED BY <1>2, <2>1, <3>1, <3>4, <3>5 DEF ReadTyped, ItemTyped, InRecord, InName
  <2> QED BY <2>2, <2>3
<1>9. CASE TextsEnd
  <2>1. pc = "texts" /\ AcceptRecord(parts)
    BY <1>9 DEF TextsEnd
  <2>2. Rest(fixed[1]) = "texts" /\ parts \in Seq(Seq(TextChar))
    BY <1>1, <2>1 DEF ItemTyped
  <2>3. Len(names) > NameCount(fixed[1])
    <3>1. NameCount(fixed[1]) = 0
      BY <2>2 DEF Rest, NameCount, RT
    <3>2. Len(names) \in 1..0 + 1
      BY <1>1, <2>1, <3>1, RDataFacts
    <3> QED BY <3>1, <3>2
  <2>4. RestOk(fixed[1], parts)
    BY <2>2 DEF RestOk
  <2> QED BY <2>1, <2>3, <2>4, RecordTaken
<1> QED
  BY <1>3, <1>4, <1>5, <1>6, <1>7, <1>8, <1>9

LEMMA InitTyped == Init => ReadTyped
<1> SUFFICES ASSUME Init PROVE ReadTyped
  OBVIOUS
<1>1. /\ pc = "header" /\ header = ReadHeader(0, 0, 0) /\ sections = NoSections /\ sec = 1
      /\ left = 0
  BY DEF Init
<1>2. header \in Header
  <2>1. 0 \in Cell
    BY DEF Cell
  <2> QED BY <1>1, <2>1, ReadHeaderTyped
<1>3. /\ NoSections = [s \in 1..4 |-> NoSections[s]]
      /\ \A s \in 1..4 : NoSections[s] = <<>>
  BY DEF NoSections
<1> HIDE DEF NoSections
<1>4. Len(sections[sec]) + left < 256
  <2>1. Len(<<>>) = 0 /\ 1 \in 1..4
    OBVIOUS
  <2> QED BY <1>1, <1>3, <2>1
<1>5. \A s \in sec + 1..4 : s \in 1..4
  BY <1>1
<1>6. SectionsTyped
  BY <1>1, <1>2, <1>3, <1>4, <1>5, EmptySection DEF SectionsTyped
<1> QED
  BY <1>1, <1>6 DEF ReadTyped, ItemTyped, InRecord, InName

LEMMA NextTyped ==
  ASSUME NInv, ReadTyped, Next
  PROVE  ReadTyped'
BY HeaderTyped, NameStepTyped, FixedTyped, RDataTyped DEF Next, ItemStep

LEMMA StutterTyped ==
  ASSUME ReadTyped, UNCHANGED vars
  PROVE  ReadTyped'
<1>1. /\ pc' = pc /\ offset' = offset /\ header' = header /\ sections' = sections
      /\ sec' = sec /\ left' = left /\ parts' = parts /\ fixed' = fixed /\ end' = end
      /\ names' = names
  BY DEF vars, messageVars, nameVars, itemVars
<1> QED
  BY <1>1 DEF ReadTyped, SectionsTyped, ItemTyped, InRecord, InName

-----------------------------------------------------------------------------
(***************************************************************************)
(* The reply to a message that has been read, and all of what becomes of it. *)
(***************************************************************************)
LEMMA ReplyTyped ==
  ASSUME ReadTyped
  PROVE  IsMessage(Reply)
<1> DEFINE a == IF sections[1] = <<>> THEN <<>> ELSE sections[2]
           code == IF sections[1] = <<>> THEN 1 ELSE 0
           h == [header EXCEPT !.response = 1, !.recursion_available = 1, !.code = code]
           ss == << sections[1], a, <<>>, <<>> >>
<1>1. header \in Header /\ \A s \in 1..4 : IsSection(s, sections[s])
  BY DEF ReadTyped, SectionsTyped
<1>2. Reply = [header |-> h, sections |-> ss]
  <2>1. Message.header = header /\ Message.sections = sections
    BY DEF Message
  <2> QED BY <2>1 DEF Reply, MakeResponse
<1>3. h \in Header
  <2>1. 1 \in Flag /\ code \in 0..15
    BY DEF Flag
  <2> HIDE DEF code
  <2> QED BY <1>1, <2>1 DEF Header
<1>4. IsSection(1, sections[1]) /\ IsSection(2, a) /\ IsSection(3, <<>>) /\ IsSection(4, <<>>)
  <2>1. 1 \in 1..4 /\ 2 \in 1..4
    OBVIOUS
  <2>2. IsSection(1, sections[1]) /\ IsSection(2, sections[2])
    BY <1>1, <2>1
  <2> QED BY <2>2, EmptySection
<1> HIDE DEF h, a
<1>5. IsSequence(ss) /\ Len(ss) = 4
  <2>1. Len(ss) = 4
    OBVIOUS
  <2>2. ss = [s \in 1..4 |-> ss[s]]
    OBVIOUS
  <2> QED BY <2>1, <2>2 DEF IsSequence
<1>6. \A s \in 1..4 : IsSection(s, ss[s])
  <2>1. ss[1] = sections[1] /\ ss[2] = a /\ ss[3] = <<>> /\ ss[4] = <<>>
    OBVIOUS
  <2> HIDE DEF ss
  <2>2. ASSUME NEW s \in 1..4 PROVE s = 1 \/ s = 2 \/ s = 3 \/ s = 4
    OBVIOUS
  <2> QED BY <1>4, <2>1, <2>2
<1> HIDE DEF ss
<1> DEFINE m == [header |-> h, sections |-> ss]
<1>7. m.header = h /\ m.sections = ss
  OBVIOUS
<1>8. IsMessage(m)
  BY <1>3, <1>5, <1>6, <1>7 DEF IsMessage
<1> QED
  BY <1>2, <1>8

LEMMA RespondKeeps ==
  ASSUME NInv, ReadTyped, Respond
  PROVE  NInv' /\ ReadTyped' /\ ReadAsWritten'
<1> SUFFICES ASSUME NEW m, m = Reply, NEW w, w = Serialize(m)
             PROVE  NInv' /\ ReadTyped' /\ ReadAsWritten'
  OBVIOUS
<1>1. /\ pc = "done" /\ data' = w
      /\ sent' = [known |-> TRUE, whole |-> TRUE, reply |-> TRUE, msg |-> m]
      /\ pc' = "header" /\ offset' = 0 /\ sections' = NoSections /\ sec' = 1
      /\ UNCHANGED <<header, counts, left, from, current, jumped, jumps, parts, fixed, end,
                     names>>
  BY DEF Respond, nameVars, itemVars
<1>2. IsMessage(m)
  BY ReplyTyped
<1>3. w \in Seq(Cell)
  BY <1>2, MessageWritten
<1>4. /\ counts \in Seq(Cell) /\ Len(counts) = 4 /\ left \in Nat /\ from \in Nat
      /\ current \in Nat /\ jumped \in BOOLEAN /\ jumps \in 0..MaxJumps /\ end \in Nat
      /\ fixed \in Seq(Cell) /\ IsSeq(names)
  BY DEF NInv, IInv, TypeOK, NamesCounted
<1>5. TypeOK'
  <2>1. pc' \in PcValues /\ offset' \in Nat /\ sec' \in 1..4
    BY <1>1 DEF PcValues
  <2> QED BY <1>1, <1>3, <1>4, <2>1 DEF TypeOK
<1>6. IInv'
  BY <1>1, <1>4, <1>5
     DEF IInv, ItemLeft, DataInside, NamesCounted, BeforeNames, OnlySlicesPanic, InRecord,
         InName
<1>7. NInv'
  BY <1>1, <1>6, NoNameHere DEF NInv
<1>8. /\ NoSections = [s \in 1..4 |-> NoSections[s]]
      /\ \A s \in 1..4 : NoSections[s] = <<>>
  BY DEF NoSections
<1> HIDE DEF NoSections
<1>9. ReadTyped'
  <2>1. header' \in Header
    BY <1>1 DEF ReadTyped, SectionsTyped
  <2>2. Len(sections'[sec']) + left' < 256
    <3> DEFINE n == Len(sections[sec])
               k == left
    <3>1. n \in Nat /\ k \in Nat /\ n + k < 256
      BY <1>4 DEF ReadTyped, SectionsTyped, IsSection, IsSequence, NInv, IInv, TypeOK
    <3> HIDE DEF n, k
    <3>2. 0 + k < 256
      BY <3>1
    <3>3. Len(<<>>) = 0 /\ 1 \in 1..4
      OBVIOUS
    <3>4. Len(sections'[sec']) = 0
      BY <1>1, <1>8, <3>3
    <3> QED BY <1>1, <3>2, <3>4 DEF k
  <2>3. \A s \in sec' + 1..4 : s \in 1..4
    BY <1>1
  <2>4. SectionsTyped'
    BY <1>1, <1>8, <2>1, <2>2, <2>3, EmptySection DEF SectionsTyped
  <2> QED BY <1>1, <2>4, NoItemHere DEF ReadTyped
<1>10. ReadAsWritten'
  <2>1. sent'.known /\ sent'.whole /\ sent'.reply /\ sent'.msg = m
    BY <1>1
  <2> SUFFICES ASSUME Writable(m)
               PROVE  \E at, layouts : Known(w, m, at, layouts) /\ Follows(w, m, at, layouts)'
    <3>1. Len(data') = Len(w)
      BY <1>1
    <3> QED BY <1>3, <2>1, <3>1 DEF ReadAsWritten
  <2>2. PICK at, layouts : HoldsMessage(w, m, at, layouts)
    BY <1>2, WrittenHolds DEF Holds
  <2>3. Known(w, m, at, layouts)
    BY <1>3, <2>2 DEF Known
  <2>4. Begins(data', w)
    BY <1>1, <1>3, LenProperties DEF Begins
  <2>5. SectionsFollow(m)'
    <3>1. \A s \in 1..4 : IsPart(NoSections[s], m.sections[s])
      BY <2>3, NothingYet
    <3>2. 1..1 - 1 = {} /\ \A s \in 1 + 1..4 : s \in 1..4
      OBVIOUS
    <3> QED BY <1>1, <1>8, <3>1, <3>2 DEF SectionsFollow
  <2>6. Follows(w, m, at, layouts)'
    BY <1>1, <2>4, <2>5 DEF Follows, PlaceFollows, InRecord, InName
  <2> QED BY <2>3, <2>6
<1> QED
  BY <1>7, <1>9, <1>10

-----------------------------------------------------------------------------
(***************************************************************************)
(* Sorting.  Before orders the sequences of cells, byte by byte, and        *)
(* SortedBy makes a sequence of a set that has each of its elements once.    *)
(***************************************************************************)
\* A set of natural numbers has a least one.
LEMMA LeastNatural ==
  ASSUME NEW S \in SUBSET Nat, S # {}
  PROVE  \E n \in S : \A k \in S : n <= k
<1>1. PICK n \in S : \A k \in S : ~(<<k, n>> \in OpToRel(<, Nat))
  BY WFMin, NatLessThanWellFounded
<1>2. \A k \in S : ~(k < n)
  BY <1>1 DEF OpToRel
<1> QED
  BY <1>2

LEMMA CellsOrdered ==
  \A x, y, z \in Cell :
    ~(x < x) /\ (x # y => x < y \/ y < x) /\ (x < y /\ y < z => x < z)
BY DEF Cell

\* Before is an order, and a total one, of sequences of cells.
LEMMA BeforeNotItself ==
  ASSUME NEW u \in Seq(Cell)
  PROVE  ~Before(u, u)
<1> SUFFICES ASSUME NEW n \in 1..Len(u), n > Len(u) \/ u[n] < u[n] PROVE FALSE
  BY DEF Before
<1>1. Len(u) \in Nat
  BY LenProperties
<1>2. u[n] \in Cell
  BY ElementOfSeq
<1>3. ~(u[n] < u[n])
  BY <1>2, CellsOrdered
<1>4. ~(n > Len(u))
  BY <1>1
<1> QED
  BY <1>3, <1>4

LEMMA BeforeGoesOn ==
  ASSUME NEW u \in Seq(Cell), NEW v \in Seq(Cell), NEW w \in Seq(Cell),
         Before(u, v), Before(v, w)
  PROVE  Before(u, w)
<1>1. PICK n \in 1..Len(v) : /\ \A i \in 1..n - 1 : i <= Len(u) /\ u[i] = v[i]
                             /\ n > Len(u) \/ u[n] < v[n]
  BY DEF Before
<1>2. PICK m \in 1..Len(w) : /\ \A i \in 1..m - 1 : i <= Len(v) /\ v[i] = w[i]
                             /\ m > Len(v) \/ v[m] < w[m]
  BY DEF Before
<1>3. Len(u) \in Nat /\ Len(v) \in Nat /\ Len(w) \in Nat /\ n \in Nat /\ m \in Nat
  BY LenProperties
<1>4. CASE m <= n
  <2>1. m <= Len(v) /\ v[m] < w[m] /\ v[m] \in Cell /\ w[m] \in Cell
    BY <1>2, <1>3, <1>4, ElementOfSeq
  <2>2. \A i \in 1..m - 1 : i <= Len(u) /\ u[i] = w[i]
    BY <1>1, <1>2, <1>3, <1>4
  <2>3. m > Len(u) \/ u[m] < w[m]
    <3> SUFFICES ASSUME m <= Len(u) PROVE u[m] < w[m]
      BY <1>3
    <3>1. u[m] \in Cell
      BY <1>3, ElementOfSeq
    <3>2. u[m] = v[m] \/ u[m] < v[m]
      BY <1>1, <1>3, <1>4
    <3> QED
      BY <2>1, <3>1, <3>2, CellsOrdered
  <2> QED
    BY <2>2, <2>3 DEF Before
<1>5. CASE n < m
  <2>1. n \in 1..Len(w) /\ v[n] = w[n]
    BY <1>2, <1>3, <1>5
  <2>2. \A i \in 1..n - 1 : i <= Len(u) /\ u[i] = w[i]
    BY <1>1, <1>2, <1>3, <1>5
  <2> QED
    BY <1>1, <2>1, <2>2 DEF Before
<1> QED
  BY <1>3, <1>4, <1>5

LEMMA BeforeIsTotal ==
  ASSUME NEW u \in Seq(Cell), NEW v \in Seq(Cell), u # v
  PROVE  Before(u, v) \/ Before(v, u)
<1> DEFINE Differ == {n \in 1..Len(u) + 1 : n <= Len(v) + 1
                        /\ (n > Len(u) \/ n > Len(v) \/ u[n] # v[n])}
<1>1. Len(u) \in Nat /\ Len(v) \in Nat
  BY LenProperties
<1>2. Differ \in SUBSET Nat
  BY <1>1
<1>3. Differ # {}
  <2>1. CASE Len(u) <= Len(v)
    <3>1. Len(u) + 1 \in Differ
      BY <1>1, <2>1
    <3> QED
      BY <3>1
  <2>2. CASE Len(v) < Len(u)
    <3>1. Len(v) + 1 \in Differ
      BY <1>1, <2>2
    <3> QED
      BY <3>1
  <2> QED
    BY <1>1, <2>1, <2>2
<1>4. PICK n \in Differ : \A k \in Differ : n <= k
  <2> HIDE DEF Differ
  <2> QED
    BY <1>2, <1>3, LeastNatural
<1>5. n \in 1..Len(u) + 1 /\ n <= Len(v) + 1 /\ (n > Len(u) \/ n > Len(v) \/ u[n] # v[n])
  BY <1>4
<1>6. ASSUME NEW i \in 1..n - 1
      PROVE  i <= Len(u) /\ i <= Len(v) /\ u[i] = v[i]
  <2>1. i \notin Differ
    BY <1>1, <1>4, <1>5
  <2> QED
    BY <1>1, <1>5, <2>1
<1>7. CASE n <= Len(u) /\ n <= Len(v)
  <2>1. u[n] # v[n] /\ u[n] \in Cell /\ v[n] \in Cell
    BY <1>1, <1>5, <1>7, ElementOfSeq
  <2>2. u[n] < v[n] \/ v[n] < u[n]
    BY <2>1, CellsOrdered
  <2>3. n \in 1..Len(u) /\ n \in 1..Len(v)
    BY <1>1, <1>5, <1>7
  <2> QED
    BY <1>6, <2>2, <2>3 DEF Before
<1>8. CASE n > Len(u) /\ n <= Len(v)
  <2>1. n \in 1..Len(v)
    BY <1>1, <1>5, <1>8
  <2> QED
    BY <1>6, <1>8, <2>1 DEF Before
<1>9. CASE n <= Len(u) /\ n > Len(v)
  <2>1. n \in 1..Len(u)
    BY <1>1, <1>5, <1>9
  <2> QED
    BY <1>6, <1>9, <2>1 DEF Before
<1>10. CASE n > Len(u) /\ n > Len(v)
  <2>1. Len(u) = n - 1 /\ Len(v) = n - 1
    BY <1>1, <1>5, <1>10
  <2>2. \A i \in 1..Len(u) : u[i] = v[i]
    BY <1>6, <2>1
  <2>3. u = v
    BY <2>1, <2>2, SeqEqual
  <2> QED
    BY <2>3
<1> QED
  BY <1>1, <1>5, <1>7, <1>8, <1>9, <1>10

\* What is in front of both does not matter.
LEMMA BeforeBehind ==
  ASSUME NEW p \in Seq(Cell), NEW u \in Seq(Cell), NEW v \in Seq(Cell)
  PROVE  Before(p \o u, p \o v) <=> Before(u, v)
<1> DEFINE k == Len(p)
           a == p \o u
           b == p \o v
<1>1. k \in Nat /\ Len(u) \in Nat /\ Len(v) \in Nat
  BY LenProperties
<1>2. /\ Len(a) = k + Len(u) /\ Len(b) = k + Len(v)
      /\ \A i \in 1..k : a[i] = p[i] /\ b[i] = p[i]
      /\ \A i \in 1..Len(u) : a[k + i] = u[i]
      /\ \A i \in 1..Len(v) : b[k + i] = v[i]
  BY <1>1, ConcatProperties
<1> HIDE DEF a, b, k
<1>3. ASSUME Before(a, b) PROVE Before(u, v)
  <2>1. PICK n \in 1..Len(b) : /\ \A i \in 1..n - 1 : i <= Len(a) /\ a[i] = b[i]
                               /\ n > Len(a) \/ a[n] < b[n]
    BY <1>3 DEF Before
  <2>2. n > k
    <3> SUFFICES ASSUME n <= k PROVE FALSE
      BY <1>1, <1>2, <2>1
    <3>1. n \in 1..k /\ n <= Len(a) /\ p[n] \in Cell
      <4>1. n \in 1..k /\ n <= Len(a)
        BY <1>1, <1>2
      <4>2. p[n] \in Cell
        BY <4>1, ElementOfSeq DEF k
      <4> QED
        BY <4>1, <4>2
    <3>2. a[n] = p[n] /\ b[n] = p[n]
      BY <1>2, <3>1
    <3>3. ~(n > Len(a))
      BY <1>1, <1>2, <3>1
    <3>4. p[n] < p[n]
      BY <2>1, <3>2, <3>3
    <3> QED
      BY <3>1, <3>4, CellsOrdered
  <2> DEFINE m == n - k
  <2>3. m \in 1..Len(v) /\ k + m = n
    BY <1>1, <1>2, <2>1, <2>2
  <2> HIDE DEF m
  <2>4. ASSUME NEW i \in 1..m - 1 PROVE i <= Len(u) /\ u[i] = v[i]
    <3>1. k + i \in 1..n - 1 /\ i \in 1..Len(v)
      BY <1>1, <2>3
    <3>2. k + i <= Len(a) /\ a[k + i] = b[k + i]
      BY <2>1, <3>1
    <3>3. i \in 1..Len(u)
      BY <1>1, <1>2, <3>2
    <3> QED
      BY <1>1, <1>2, <3>1, <3>2, <3>3
  <2>5. m > Len(u) \/ u[m] < v[m]
    <3>1. CASE n > Len(a)
      BY <1>1, <1>2, <2>3, <3>1
    <3>2. CASE n <= Len(a)
      <4>1. m \in 1..Len(u)
        BY <1>1, <1>2, <2>3, <3>2
      <4>2. a[n] = u[m] /\ b[n] = v[m]
        BY <1>2, <2>3, <4>1
      <4>3. a[n] < b[n]
        BY <1>1, <1>2, <2>1, <2>3, <3>2
      <4> QED
        BY <4>2, <4>3
    <3> QED
      BY <1>1, <1>2, <2>1, <3>1, <3>2
  <2> QED
    BY <2>3, <2>4, <2>5 DEF Before
<1>4. ASSUME Before(u, v) PROVE Before(a, b)
  <2>1. PICK m \in 1..Len(v) : /\ \A i \in 1..m - 1 : i <= Len(u) /\ u[i] = v[i]
                               /\ m > Len(u) \/ u[m] < v[m]
    BY <1>4 DEF Before
  <2> DEFINE n == k + m
  <2>2. n \in 1..Len(b)
    BY <1>1, <1>2, <2>1
  <2>3. ASSUME NEW i \in 1..n - 1 PROVE i <= Len(a) /\ a[i] = b[i]
    <3>1. CASE i <= k
      BY <1>1, <1>2, <3>1
    <3>2. CASE i > k
      <4> DEFINE j == i - k
      <4>1. j \in 1..m - 1 /\ j \in 1..Len(v) /\ k + j = i
        BY <1>1, <2>1, <3>2
      <4> HIDE DEF j
      <4>2. j \in 1..Len(u) /\ u[j] = v[j]
        BY <1>1, <2>1, <4>1
      <4>3. a[k + j] = u[j] /\ b[k + j] = v[j] /\ k + j <= Len(a)
        BY <1>1, <1>2, <4>1, <4>2
      <4> QED
        BY <4>1, <4>2, <4>3
    <3> QED
      BY <1>1, <3>1, <3>2
  <2>4. n > Len(a) \/ a[n] < b[n]
    <3>1. CASE m > Len(u)
      BY <1>1, <1>2, <3>1
    <3>2. CASE m <= Len(u)
      <4>1. m \in 1..Len(u) /\ u[m] < v[m]
        BY <1>1, <2>1, <3>2
      <4>2. a[n] = u[m] /\ b[n] = v[m]
        BY <1>2, <4>1
      <4> QED
        BY <4>1, <4>2
    <3> QED
      BY <1>1, <2>1, <3>1, <3>2
  <2> HIDE DEF n
  <2> QED
    BY <2>2, <2>3, <2>4 DEF Before
<1> QED
  BY <1>3, <1>4 DEF a, b

-----------------------------------------------------------------------------
(* SortedBy puts every element of a set in its place. *)
Sortable(E, field) ==
  /\ IsFiniteSet(E)
  /\ \A e \in E : e[field] \in Seq(Cell) /\ e.at \in Nat
  /\ \A e, f \in E : e.at = f.at => e = f

LEMMA LessIsOrder ==
  ASSUME NEW E, NEW field, Sortable(E, field),
         NEW e \in E, NEW f \in E, NEW g \in E
  PROVE  /\ ~Less(e, e, field)
         /\ e # f => Less(e, f, field) \/ Less(f, e, field)
         /\ Less(e, f, field) /\ Less(f, g, field) => Less(e, g, field)
<1> DEFINE a == e[field]
           b == f[field]
           c == g[field]
<1>1. a \in Seq(Cell) /\ b \in Seq(Cell) /\ c \in Seq(Cell)
  BY DEF Sortable
<1>2. e.at \in Nat /\ f.at \in Nat /\ g.at \in Nat /\ (e.at = f.at => e = f)
  BY DEF Sortable
<1>3. /\ Less(e, e, field) <=> Before(a, a) \/ (a = a /\ e.at < e.at)
      /\ Less(e, f, field) <=> Before(a, b) \/ (a = b /\ e.at < f.at)
      /\ Less(f, e, field) <=> Before(b, a) \/ (b = a /\ f.at < e.at)
      /\ Less(f, g, field) <=> Before(b, c) \/ (b = c /\ f.at < g.at)
      /\ Less(e, g, field) <=> Before(a, c) \/ (a = c /\ e.at < g.at)
  BY DEF Less
<1> HIDE DEF a, b, c
<1>4. ~Before(a, a)
  BY <1>1, BeforeNotItself
<1>5. a # b => Before(a, b) \/ Before(b, a)
  BY <1>1, BeforeIsTotal
<1>6. Before(a, b) /\ Before(b, c) => Before(a, c)
  BY <1>1, BeforeGoesOn
<1>7. ~Less(e, e, field)
  BY <1>2, <1>3, <1>4
<1>8. e # f => Less(e, f, field) \/ Less(f, e, field)
  BY <1>2, <1>3, <1>5
<1>9. ASSUME Less(e, f, field), Less(f, g, field) PROVE Less(e, g, field)
  <2>1. CASE Before(a, b) /\ Before(b, c)
    BY <1>3, <1>6, <2>1
  <2>2. CASE Before(a, b) /\ b = c
    BY <1>3, <2>2
  <2>3. CASE a = b /\ Before(b, c)
    BY <1>3, <2>3
  <2>4. CASE a = b /\ b = c /\ e.at < f.at /\ f.at < g.at
    BY <1>2, <1>3, <2>4
  <2> QED
    BY <1>3, <1>9, <2>1, <2>2, <2>3, <2>4
<1> QED
  BY <1>7, <1>8, <1>9

LEMMA SortedIsBijection ==
  ASSUME NEW E, NEW field, Sortable(E, field)
  PROVE  SortedBy(E, field) \in Bijection(1..Cardinality(E), E)
<1> DEFINE N == Cardinality(E)
           Under(e) == {f \in E : Less(f, e, field)}
           rank == [e \in E |-> Cardinality(Under(e)) + 1]
           At(n) == CHOOSE e \in E : Cardinality(Under(e)) = n - 1
<1>1. IsFiniteSet(E) /\ N \in Nat
  BY FS_CardinalityType DEF Sortable
<1>2. ASSUME NEW e \in E
      PROVE  IsFiniteSet(Under(e)) /\ Cardinality(Under(e)) \in 0..N - 1
  <2>1. e \notin Under(e)
    BY LessIsOrder
  <2>2. IsFiniteSet(Under(e)) /\ Cardinality(Under(e)) \in Nat
    BY <1>1, FS_Subset, FS_CardinalityType
  <2>3. /\ IsFiniteSet(Under(e) \cup {e})
        /\ Cardinality(Under(e) \cup {e}) = Cardinality(Under(e)) + 1
    BY <2>1, <2>2, FS_AddElement
  <2>4. Under(e) \cup {e} \in SUBSET E
    OBVIOUS
  <2>5. Cardinality(Under(e) \cup {e}) <= N
    BY <1>1, <2>4, FS_Subset
  <2> HIDE DEF Under, N
  <2> QED
    BY <1>1, <2>2, <2>3, <2>5
<1>3. ASSUME NEW e \in E, NEW f \in E, Less(e, f, field)
      PROVE  Cardinality(Under(e)) < Cardinality(Under(f))
  <2>1. Under(e) \cup {e} \in SUBSET Under(f)
    <3> SUFFICES ASSUME NEW g \in E, Less(g, e, field) PROVE Less(g, f, field)
      BY <1>3
    <3> QED
      BY <1>3, LessIsOrder
  <2>2. e \notin Under(e)
    BY LessIsOrder
  <2>3. /\ Cardinality(Under(e) \cup {e}) = Cardinality(Under(e)) + 1
        /\ Cardinality(Under(e) \cup {e}) <= Cardinality(Under(f))
    <3>1. IsFiniteSet(Under(e)) /\ IsFiniteSet(Under(f))
      BY <1>2
    <3> HIDE DEF Under
    <3> QED
      BY <2>1, <2>2, <3>1, FS_AddElement, FS_Subset
  <2>4. Cardinality(Under(e)) \in Int /\ Cardinality(Under(f)) \in Int
    BY <1>2
  <2> HIDE DEF Under
  <2> QED
    BY <2>3, <2>4
<1> HIDE DEF Under, N
<1>4. ASSUME NEW e \in E, NEW f \in E, Cardinality(Under(e)) = Cardinality(Under(f))
      PROVE  e = f
  <2>1. Cardinality(Under(e)) \in Int
    BY <1>1, <1>2
  <2>2. ~Less(e, f, field) /\ ~Less(f, e, field)
    BY <1>3, <1>4, <2>1
  <2> QED
    BY <2>2, LessIsOrder
<1>5. rank \in Injection(E, 1..N)
  <2>1. \A e \in E : Cardinality(Under(e)) + 1 \in 1..N
    BY <1>1, <1>2
  <2>2. rank \in [E -> 1..N]
    BY <2>1
  <2>3. \A e, f \in E : rank[e] = rank[f] => e = f
    <3> SUFFICES ASSUME NEW e \in E, NEW f \in E, rank[e] = rank[f] PROVE e = f
      OBVIOUS
    <3>1. Cardinality(Under(e)) \in Int /\ Cardinality(Under(f)) \in Int
      BY <1>1, <1>2
    <3>2. Cardinality(Under(e)) = Cardinality(Under(f))
      BY <3>1
    <3> QED
      BY <1>4, <3>2
  <2> HIDE DEF rank
  <2> QED
    BY <2>2, <2>3, Fun_IsInj
<1>6. IsFiniteSet(1..N) /\ Cardinality(1..N) = N
  BY <1>1, FS_Interval
<1>7. rank \in Surjection(E, 1..N)
  <2> HIDE DEF rank
  <2> QED
    BY <1>5, <1>6, FS_Injection DEF N
<1>8. ASSUME NEW n \in 1..N
      PROVE  At(n) \in E /\ Cardinality(Under(At(n))) = n - 1
  <2>1. \E e \in E : rank[e] = n
    <3> HIDE DEF rank
    <3> QED
      BY <1>7 DEF Surjection
  <2>2. \E e \in E : Cardinality(Under(e)) = n - 1
    <3>1. PICK e \in E : Cardinality(Under(e)) + 1 = n
      BY <2>1
    <3>2. Cardinality(Under(e)) \in Int
      BY <1>1, <1>2
    <3> QED
      BY <3>1, <3>2
  <2> QED
    BY <2>2
<1> DEFINE s == [n \in 1..N |-> At(n)]
<1>9. s \in Injection(1..N, E)
  <2>1. s \in [1..N -> E]
    BY <1>8
  <2>2. ASSUME NEW n \in 1..N, NEW m \in 1..N, s[n] = s[m] PROVE n = m
    <3>1. n - 1 = m - 1
      <4>1. At(n) = At(m)
        BY <2>2
      <4> HIDE DEF At
      <4> QED
        BY <1>8, <4>1
    <3> QED
      BY <3>1
  <2> HIDE DEF s
  <2> QED
    BY <2>1, <2>2, Fun_IsInj
<1>10. s \in Surjection(1..N, E)
  <2> HIDE DEF s
  <2> QED
    BY <1>1, <1>6, <1>9, FS_Injection DEF N
<1>11. SortedBy(E, field) = s
  BY DEF SortedBy, N, Under
<1> HIDE DEF s
<1> QED
  BY <1>9, <1>10, <1>11 DEF Bijection, N

\* Fields that agree on the order sort alike.
LEMMA SortedAlike ==
  ASSUME NEW E, NEW g, NEW h,
         \A e, f \in E : Less(e, f, g) <=> Less(e, f, h)
  PROVE  SortedBy(E, g) = SortedBy(E, h)
<1> DEFINE ByG(n) == CHOOSE e \in E : Cardinality({f \in E : Less(f, e, g)}) = n - 1
           ByH(n) == CHOOSE e \in E : Cardinality({f \in E : Less(f, e, h)}) = n - 1
<1>1. \A e \in E : {f \in E : Less(f, e, g)} = {f \in E : Less(f, e, h)}
  OBVIOUS
<1>2. \A n : ByG(n) = ByH(n)
  BY <1>1
<1>3. /\ SortedBy(E, g) = [n \in 1..Cardinality(E) |-> ByG(n)]
      /\ SortedBy(E, h) = [n \in 1..Cardinality(E) |-> ByH(n)]
  BY DEF SortedBy
<1> HIDE DEF ByG, ByH
<1> QED
  BY <1>2, <1>3

-----------------------------------------------------------------------------
(***************************************************************************)
(* Validation, of responses with any number of signatures and keys, for any *)
(* signatures made and any clock.                                          *)
(***************************************************************************)
(***************************************************************************)
(* The inductive invariant.  An attempt that did not succeed says something *)
(* of the time it was made, so that what is kept is not that the pairs      *)
(* behind are bad but that each was so at some time of the validation.     *)
(***************************************************************************)
Failed(p, q) == \E t \in began..now : Verdict(p, q, t) # "Secure"

\* What the parser hands to the validator.
RecordsRead(recs) ==
  /\ Len(recs) \in Nat /\ DOMAIN recs = 1..Len(recs)
  /\ \A p \in DOMAIN recs : IsRecord(recs[p])

Shape ==
  /\ RecordsRead(records)
  /\ Len(records) \in Nat /\ DOMAIN records = 1..Len(records)
  /\ sig \in Nat \ {0} /\ key \in Nat \ {0} /\ now \in Nat /\ began \in Nat /\ began <= now
  /\ stage \in {"idle", "loop", "over", "used"}
  /\ outcome \in {"none", "Secure", "Insecure", "Indeterminate"}
  /\ stage = "idle" => sig = 1 /\ key = 1
  /\ stage \in {"idle", "loop"} => outcome = "none"

PairsTried ==
  stage = "loop" =>
    /\ \A p, q \in DOMAIN records : p < sig => Failed(p, q)
    /\ \A q \in DOMAIN records : q < key => Failed(sig, q)

OutcomeFounded ==
  /\ outcome = "Secure" =>
       \E p, q \in DOMAIN records, t \in began..now : Verdict(p, q, t) = "Secure"
  /\ outcome = "Insecure" => \A p \in DOMAIN records : ~IsRrsig(p)
  /\ outcome = "Indeterminate" => \A p, q \in DOMAIN records : Failed(p, q)

DInv == Shape /\ PairsTried /\ OutcomeFounded

LEMMA DInitInv == DnssecInit => DInv
<1> SUFFICES ASSUME DnssecInit PROVE DInv
  OBVIOUS
<1>1. RecordsRead(records)
  BY EmptySeq DEF DnssecInit, RecordsRead
<1> QED
  BY <1>1, EmptySeq DEF DnssecInit, DInv, Shape, PairsTried, OutcomeFounded

\* What has failed has failed, as long as the response is the same.
LEMMA FailedStays ==
  ASSUME DInv, now' \in Nat, now <= now', UNCHANGED <<records, began>>,
         NEW p, NEW q, Failed(p, q)
  PROVE  Failed(p, q)'
<1>1. PICK t \in began..now : Verdict(p, q, t) # "Secure"
  BY DEF Failed
<1>2. t \in began..now'
  BY DEF DInv, Shape
<1>3. Verdict(p, q, t)' = Verdict(p, q, t)
  BY DEF Verdict, IsRrsig, IsDnskey
<1> QED
  BY <1>1, <1>2, <1>3 DEF Failed

LEMMA StartKeeps ==
  ASSUME NEW recs, RecordsRead(recs), DInv, StartValidation(recs)
  PROVE  DInv'
<1>1. Len(recs) \in Nat /\ DOMAIN recs = 1..Len(recs) /\ records' = recs
  BY DEF RecordsRead, StartValidation
<1>2. Shape'
  BY <1>1 DEF StartValidation, DInv, Shape
<1>3. sig' = 1 /\ key' = 1 /\ outcome' \in {"none", "Insecure"}
  BY DEF StartValidation, DInv, Shape
<1>4. outcome' = "Insecure" => \A p \in DOMAIN records' : ~(records'[p].type = RT.RRSIG)
  BY DEF StartValidation
<1>5. DOMAIN records' = 1..Len(records')
  BY <1>2 DEF Shape
<1>6. PairsTried'
  BY <1>3, <1>5 DEF PairsTried
<1>7. OutcomeFounded'
  BY <1>3, <1>4 DEF OutcomeFounded, IsRrsig
<1> QED
  BY <1>2, <1>6, <1>7 DEF DInv

LEMMA GoesOnKeeps ==
  ASSUME DInv, Loop \/ Tick \/ UseOrReject
  PROVE  DInv'
<1>1. CASE TryPair
  <2>1. Shape'
    BY <1>1 DEF TryPair, AtPair, Over, DInv, Shape
  <2>2. CASE Verdict(sig, key, now) = "Secure"
    <3>1. /\ stage' = "over" /\ outcome' = "Secure"
          /\ UNCHANGED <<now, records, sig, key, began>>
      BY <1>1, <2>2 DEF TryPair, Over
    <3>2. sig \in DOMAIN records /\ key \in DOMAIN records /\ now \in began..now
      BY <1>1 DEF TryPair, AtPair, DInv, Shape
    <3>3. Verdict(sig, key, now)' = "Secure"
      BY <2>2, <3>1 DEF Verdict, IsRrsig, IsDnskey
    <3> QED
      BY <2>1, <3>1, <3>2, <3>3 DEF DInv, PairsTried, OutcomeFounded
  <2>3. CASE Verdict(sig, key, now) # "Secure"
    <3>1. key' = key + 1 /\ UNCHANGED <<now, stage, records, sig, outcome, began>>
      BY <1>1, <2>3 DEF TryPair
    <3>2. Failed(sig, key)
      BY <2>3 DEF Failed, DInv, Shape
    <3>3. \A p, q : Failed(p, q)' <=> Failed(p, q)
      BY <3>1 DEF Failed, Verdict, IsRrsig, IsDnskey
    <3>4. PairsTried'
      BY <3>1, <3>2, <3>3 DEF DInv, Shape, PairsTried
    <3>5. OutcomeFounded'
      <4>1. stage = "loop" /\ outcome' = "none"
        BY <1>1, <3>1 DEF TryPair, AtPair, DInv, Shape
      <4> QED
        BY <4>1 DEF OutcomeFounded
    <3> QED
      BY <2>1, <3>4, <3>5 DEF DInv
  <2> QED
    BY <2>2, <2>3
<1>2. CASE NextSignature
  <2>1. /\ stage = "loop" /\ sig <= Len(records) /\ sig' = sig + 1 /\ key' = 1
        /\ ~IsRrsig(sig) \/ key > Len(records)
        /\ UNCHANGED <<now, stage, records, outcome, began>>
    BY <1>2 DEF NextSignature
  <2>2. Shape'
    BY <2>1 DEF DInv, Shape
  <2>3. ASSUME NEW q \in DOMAIN records PROVE Failed(sig, q)
    <3>1. CASE IsRrsig(sig)
      BY <2>1, <3>1 DEF DInv, Shape, PairsTried
    <3>2. CASE ~IsRrsig(sig)
      <4>1. Verdict(sig, q, now) # "Secure"
        BY <3>2 DEF Verdict
      <4> QED
        BY <4>1 DEF DInv, Shape, Failed
    <3> QED
      BY <3>1, <3>2
  <2>4. \A p, q \in DOMAIN records : p < sig + 1 => Failed(p, q)
    BY <2>1, <2>3 DEF DInv, Shape, PairsTried
  <2>5. \A p, q : Failed(p, q)' <=> Failed(p, q)
    BY <2>1 DEF Failed, Verdict, IsRrsig, IsDnskey
  <2>6. PairsTried'
    BY <2>1, <2>4, <2>5 DEF DInv, Shape, PairsTried
  <2>7. OutcomeFounded'
    BY <2>1 DEF DInv, Shape, OutcomeFounded
  <2> QED
    BY <2>2, <2>6, <2>7 DEF DInv
<1>3. CASE NoneVerified
  <2>1. /\ stage = "loop" /\ sig > Len(records) /\ stage' = "over"
        /\ outcome' = "Indeterminate"
        /\ UNCHANGED <<now, records, sig, key, began>>
    BY <1>3 DEF NoneVerified, Over
  <2>2. \A p, q \in DOMAIN records : Failed(p, q)
    BY <2>1 DEF DInv, Shape, PairsTried
  <2>3. \A p, q : Failed(p, q)' <=> Failed(p, q)
    BY <2>1 DEF Failed, Verdict, IsRrsig, IsDnskey
  <2> QED
    BY <2>1, <2>2, <2>3 DEF DInv, Shape, PairsTried, OutcomeFounded
<1>4. CASE Tick
  <2>1. /\ stage \in {"idle", "loop"} /\ now' = now + 1
        /\ UNCHANGED <<stage, records, sig, key, outcome, began>>
    BY <1>4 DEF Tick
  <2>2. Shape'
    BY <2>1 DEF DInv, Shape
  <2>3. now' \in Nat /\ now <= now'
    BY <2>1 DEF DInv, Shape
  <2>4. \A p, q : Failed(p, q) => Failed(p, q)'
    BY <2>1, <2>3, FailedStays
  <2>5. PairsTried'
    BY <2>1, <2>4 DEF DInv, PairsTried
  <2>6. OutcomeFounded'
    BY <2>1 DEF DInv, Shape, OutcomeFounded
  <2> QED
    BY <2>2, <2>5, <2>6 DEF DInv
<1>5. CASE UseOrReject
  <2>1. /\ stage = "over" /\ stage' = "used"
        /\ UNCHANGED <<now, records, sig, key, outcome, began>>
    BY <1>5 DEF UseOrReject, DInv, Shape
  <2>2. \A p, q : Failed(p, q)' <=> Failed(p, q)
    BY <2>1 DEF Failed, Verdict, IsRrsig, IsDnskey
  <2>3. Shape' /\ PairsTried'
    BY <2>1 DEF DInv, Shape, PairsTried
  <2>4. OutcomeFounded'
    BY <2>1, <2>2 DEF DInv, OutcomeFounded, Verdict, IsRrsig, IsDnskey
  <2> QED
    BY <2>3, <2>4 DEF DInv
<1> QED
  BY <1>1, <1>2, <1>3, <1>4, <1>5 DEF Loop

LEMMA DNextInv ==
  ASSUME NEW Responses, \A recs \in Responses : RecordsRead(recs),
         DInv, DnssecNext(Responses)
  PROVE  DInv'
BY StartKeeps, GoesOnKeeps DEF DnssecNext

LEMMA DStutterInv == DInv /\ UNCHANGED dnssecVars => DInv'
BY DEF dnssecVars, DInv, Shape, PairsTried, OutcomeFounded, Failed, Verdict, IsRrsig,
       IsDnskey

LEMMA DSpecInv ==
  ASSUME NEW CONSTANT Responses, \A recs \in Responses : RecordsRead(recs)
  PROVE  DnssecSpec(Responses) => []DInv
<1>1. DInv /\ [DnssecNext(Responses)]_dnssecVars => DInv'
  BY DNextInv, DStutterInv
<1> QED
  BY <1>1, DInitInv, PTL DEF DnssecSpec

-----------------------------------------------------------------------------
(* From the verdict of the code to what the properties say of it, and back. *)
\* A record is written with its data at the end; what is in front of the data depends
\* on its name, type, class and TTL, and the length of the data.
AheadOfData(r, n) == ToWire(r.name) \o <<r.type, r.class, r.ttl, n % 256>>

LEMMA RecordSplits ==
  ASSUME NEW r, IsRecord(r)
  PROVE  LET d == RDataBytes(<<>>, r.type, r.rdata)
         IN  /\ d \in Seq(Cell) /\ Len(d) \in Nat /\ AheadOfData(r, Len(d)) \in Seq(Cell)
             /\ RecordBytes(<<>>, r) = AheadOfData(r, Len(d)) \o d
<1> DEFINE a == ToWire(r.name)
           d == RDataBytes(<<>>, r.type, r.rdata)
           c == Len(d) % 256
           f == <<r.type, r.class, r.ttl, c>>
<1>1. a \in Seq(Cell) /\ d \in Seq(Cell) /\ Len(d) \in Nat
  BY NameTyped, DataWritten, LenProperties DEF IsRecord
<1>2. c \in Cell
  <2> DEFINE n == Len(d)
  <2>1. n \in Nat
    BY <1>1
  <2> HIDE DEF n
  <2>2. n % 256 \in 0..255
    BY <2>1
  <2> QED BY <2>2 DEF Cell, n
<1> HIDE DEF c
<1>3. f \in Seq(Cell)
  BY <1>2 DEF IsRecord
<1> HIDE DEF f, a, d
<1>4. a \o f \in Seq(Cell)
  BY <1>1, <1>3, ConcatProperties
<1>5. RecordBytes(<<>>, r) = (a \o f) \o d /\ AheadOfData(r, Len(d)) = a \o f
  BY NoShortNames DEF RecordBytes, AheadOfData, a, d, c, f
<1> QED
  BY <1>1, <1>4, <1>5 DEF d

\* The elements of RrWires, one for each record that is covered.
Canonical(r, ttl) == [r EXCEPT !.ttl = ttl]

RrWire(s, x) ==
  [at |-> x, rdata |-> RDataBytes(<<>>, records[x].type, records[x].rdata),
   wire |-> RecordBytes(<<>>, Canonical(records[x], OriginalTtl(s)))]

LEMMA WiresOfRecords ==
  ASSUME RecordsRead(records), NEW p \in DOMAIN records, IsRrsig(p)
  PROVE  LET s == records[p]
         IN  /\ RrWires(s, records) = {RrWire(s, x) : x \in Covered(s, records)}
             /\ Covered(s, records) \in SUBSET (1..Len(records))
             /\ \A x \in Covered(s, records) :
                  LET r == Canonical(records[x], OriginalTtl(s))
                  IN  /\ IsRecord(r) /\ r.name = records[x].name /\ r.type = TypeCovered(s)
                      /\ r.class = records[x].class /\ r.ttl = OriginalTtl(s)
                      /\ r.type = records[x].type /\ r.rdata = records[x].rdata
<1> DEFINE s == records[p]
<1>1. OriginalTtl(s) \in Cell
  <2>1. s.type = RT.RRSIG /\ DataOk(s.type, s.rdata)
    BY DEF RecordsRead, IsRecord, IsRrsig
  <2>2. s.rdata.head \in Seq(Cell) /\ Len(s.rdata.head) = 7
    BY <2>1 DEF DataOk, HeadSize, RT
  <2> QED
    BY <2>2, ElementOfSeq DEF OriginalTtl
<1>2. Covered(s, records) \in SUBSET (1..Len(records))
  BY DEF Covered, RecordsRead
<1>3. ASSUME NEW x \in Covered(s, records)
      PROVE  LET r == Canonical(records[x], OriginalTtl(s))
             IN  /\ IsRecord(r) /\ r.name = records[x].name /\ r.type = TypeCovered(s)
                 /\ r.class = records[x].class /\ r.ttl = OriginalTtl(s)
                 /\ r.type = records[x].type /\ r.rdata = records[x].rdata
  <2> DEFINE o == records[x]
             ttl == OriginalTtl(s)
  <2>1. IsRecord(o) /\ o.type = TypeCovered(s)
    BY DEF RecordsRead, Covered
  <2> HIDE DEF o, ttl, s
  <2>2. Canonical(o, ttl) = [name |-> o.name, type |-> o.type, class |-> o.class,
                             ttl |-> ttl, rdata |-> o.rdata]
    BY <2>1 DEF IsRecord, Canonical
  <2>3. ttl \in Cell
    BY <1>1 DEF ttl
  <2>4. IsRecord(Canonical(o, ttl))
    BY <2>1, <2>2, <2>3 DEF IsRecord
  <2> QED
    BY <2>1, <2>2, <2>4 DEF o, ttl
<1>4. RrWires(s, records) = {RrWire(s, x) : x \in Covered(s, records)}
  BY DEF RrWires, RrWire, Canonical
<1> QED
  BY <1>2, <1>3, <1>4

LEMMA WiresSortable ==
  ASSUME RecordsRead(records), NEW p \in DOMAIN records, IsRrsig(p)
  PROVE  LET E == RrWires(records[p], records)
         IN  Sortable(E, "wire") /\ Sortable(E, "rdata")
<1> DEFINE s == records[p]
           C == Covered(s, records)
           E == RrWires(s, records)
           W(x) == RrWire(s, x)
           f == [x \in C |-> W(x)]
<1>1. E = {W(x) : x \in C} /\ C \in SUBSET (1..Len(records))
  BY WiresOfRecords
<1>2. Len(records) \in Nat
  BY DEF RecordsRead
<1>3. ASSUME NEW x \in C
      PROVE  W(x).wire \in Seq(Cell) /\ W(x).rdata \in Seq(Cell) /\ W(x).at = x /\ x \in Nat
  <2> DEFINE r == Canonical(records[x], OriginalTtl(s))
  <2>1. IsRecord(r) /\ r.type = records[x].type /\ r.rdata = records[x].rdata
    BY WiresOfRecords
  <2>2. RecordBytes(<<>>, r) \in Seq(Cell) /\ RDataBytes(<<>>, r.type, r.rdata) \in Seq(Cell)
    <3> HIDE DEF r
    <3> QED
      BY <2>1, RecordTyped, RecordSplits
  <2>3. x \in Nat
    BY <1>1, <1>2
  <2> QED
    BY <2>1, <2>2, <2>3 DEF RrWire
<1> HIDE DEF W, C, E
<1>4. IsFiniteSet(E)
  <2>1. IsFiniteSet(C)
    <3>1. IsFiniteSet(1..Len(records))
      BY <1>2, FS_Interval
    <3> QED
      BY <1>1, <3>1, FS_Subset
  <2>2. f \in Surjection(C, E)
    <3>1. f \in [C -> E]
      BY <1>1
    <3>2. \A e \in E : \E x \in C : f[x] = e
      BY <1>1
    <3> QED
      BY <3>1, <3>2 DEF Surjection
  <2> HIDE DEF f
  <2> QED
    BY <2>1, <2>2, FS_Surjection
<1>5. \A e \in E : e.wire \in Seq(Cell) /\ e.rdata \in Seq(Cell) /\ e.at \in Nat
  BY <1>1, <1>3
<1>6. \A e, g \in E : e.at = g.at => e = g
  BY <1>1, <1>3
<1>7. Sortable(E, "wire") /\ Sortable(E, "rdata")
  BY <1>4, <1>5, <1>6 DEF Sortable
<1> QED
  BY <1>7 DEF E

LEMMA SecureVerdict ==
  ASSUME RecordsRead(records), NEW p \in DOMAIN records, NEW q \in DOMAIN records, NEW t,
         Verdict(p, q, t) = "Secure"
  PROVE  \E m \in Made : Carries(p, q, m) /\ CoversResponse(p, m) /\ InWindow(p, t)
<1> DEFINE s == records[p]
           k == records[q]
           E == RrWires(s, records)
           m == [scheme |-> Scheme[Algorithm(s)], key |-> k.rdata.rest,
                 data |-> SignedData(s, records), signature |-> s.rdata.rest]
<1>1. /\ IsRrsig(p) /\ IsDnskey(q) /\ ComputeKeyTag(k) = KeyTag(s)
      /\ VerifyRrsig(s, records, k, t) = "Secure"
  BY DEF Verdict
<1>2. /\ Algorithm(s) = KeyAlgorithm(k) /\ InPeriod(s, t)
      /\ m \in Made
  BY <1>1 DEF VerifyRrsig, VerifySignature
<1>3. Carries(p, q, m)
  BY <1>1, <1>2 DEF Carries
<1>4. CoversResponse(p, m)
  <2>1. SortedBy(E, "wire") \in Bijection(1..Cardinality(E), E)
    BY <1>1, WiresSortable, SortedIsBijection
  <2>2. m.data = InOrder(s, SortedBy(E, "wire"))
    BY DEF SignedData
  <2> HIDE DEF m, E, s
  <2>3. \E order \in Bijection(1..Cardinality(E), E) : m.data = InOrder(s, order)
    BY <2>1, <2>2
  <2> QED
    BY <2>3 DEF CoversResponse, E, s
<1>5. InWindow(p, t)
  BY <1>2 DEF InPeriod, Inception, Expiration, InWindow
<1> QED
  BY <1>2, <1>3, <1>4, <1>5

\* A signature as RFC 4034 has it.
Genuine(m, p, q) ==
  /\ Carries(p, q, m)
  /\ OneSetOneLength(records[p], records)
  /\ m.data = CanonicalData(records[p], records)
  /\ Algorithm(records[p]) \in DOMAIN Scheme
  /\ m.scheme = Scheme[Algorithm(records[p])]
  /\ Readable(m.scheme, m.key, m.signature)

\* The records of one set with data of one length are sorted by it.
LEMMA SameOrder ==
  ASSUME RecordsRead(records), NEW p \in DOMAIN records, IsRrsig(p),
         OneSetOneLength(records[p], records)
  PROVE  SignedData(records[p], records) = CanonicalData(records[p], records)
<1> DEFINE s == records[p]
           C == Covered(s, records)
           E == RrWires(s, records)
           r(x) == Canonical(records[x], OriginalTtl(s))
           d(x) == RDataBytes(<<>>, records[x].type, records[x].rdata)
           a(x) == AheadOfData(r(x), Len(d(x)))
<1>1. ASSUME NEW x \in C
      PROVE  /\ RrWire(s, x).wire = a(x) \o d(x) /\ RrWire(s, x).rdata = d(x)
             /\ RrWire(s, x).at = x /\ RrWire(s, x) \in E
             /\ a(x) \in Seq(Cell) /\ d(x) \in Seq(Cell)
  <2>1. IsRecord(r(x)) /\ r(x).type = records[x].type /\ r(x).rdata = records[x].rdata
    BY WiresOfRecords
  <2>2. RrWire(s, x) \in E
    BY WiresOfRecords
  <2>3. /\ RecordBytes(<<>>, r(x)) = a(x) \o d(x)
        /\ a(x) \in Seq(Cell) /\ d(x) \in Seq(Cell)
    <3> HIDE DEF r
    <3> QED
      BY <2>1, RecordSplits
  <2> QED
    BY <2>2, <2>3 DEF RrWire
<1>2. ASSUME NEW x \in C, NEW y \in C
      PROVE  a(x) = a(y)
  <2>1. /\ r(x).name = records[x].name /\ r(x).type = TypeCovered(s)
        /\ r(x).class = records[x].class /\ r(x).ttl = OriginalTtl(s)
        /\ r(y).name = records[y].name /\ r(y).type = TypeCovered(s)
        /\ r(y).class = records[y].class /\ r(y).ttl = OriginalTtl(s)
    BY WiresOfRecords
  <2>2. /\ records[x].name = records[y].name /\ records[x].class = records[y].class
        /\ Len(d(x)) = Len(d(y))
    <3> DEFINE e == RrWire(s, x)
               f == RrWire(s, y)
    <3>1. e \in E /\ f \in E /\ e.at = x /\ f.at = y /\ e.rdata = d(x) /\ f.rdata = d(y)
      BY <1>1
    <3> HIDE DEF e, f, d
    <3>2. /\ records[e.at].name = records[f.at].name
          /\ records[e.at].class = records[f.at].class
          /\ Len(e.rdata) = Len(f.rdata)
      BY <3>1 DEF OneSetOneLength
    <3> QED
      BY <3>1, <3>2
  <2> HIDE DEF r, d
  <2> QED
    BY <2>1, <2>2 DEF AheadOfData
<1>3. E = {RrWire(s, x) : x \in C}
  BY WiresOfRecords
<1>4. ASSUME NEW x \in C, NEW y \in C
      PROVE  Less(RrWire(s, x), RrWire(s, y), "wire")
               <=> Less(RrWire(s, x), RrWire(s, y), "rdata")
  <2> HIDE DEF C, E, a, d
  <2>1. Before(a(x) \o d(x), a(x) \o d(y)) <=> Before(d(x), d(y))
    BY <1>1, BeforeBehind
  <2>2. a(x) \o d(x) = a(x) \o d(y) <=> d(x) = d(y)
    <3> SUFFICES ASSUME a(x) \o d(x) = a(x) \o d(y) PROVE d(x) = d(y)
      OBVIOUS
    <3>1. Before(d(x), d(y)) \/ Before(d(y), d(x)) => FALSE
      <4>1. a(x) \o d(x) \in Seq(Cell)
        BY <1>1, ConcatProperties
      <4>2. ~Before(a(x) \o d(x), a(x) \o d(x))
        BY <4>1, BeforeNotItself
      <4> QED
        BY <1>1, <4>2, BeforeBehind
    <3> QED
      BY <1>1, <3>1, BeforeIsTotal
  <2>3. a(y) = a(x)
    BY <1>2
  <2> DEFINE e == RrWire(s, x)
             f == RrWire(s, y)
  <2>4. /\ e.wire = a(x) \o d(x) /\ f.wire = a(x) \o d(y)
        /\ e.rdata = d(x) /\ f.rdata = d(y)
    BY <1>1, <2>3
  <2> HIDE DEF e, f
  <2>5. /\ Less(e, f, "wire") <=> Before(e.wire, f.wire) \/ (e.wire = f.wire /\ e.at < f.at)
        /\ Less(e, f, "rdata")
             <=> Before(e.rdata, f.rdata) \/ (e.rdata = f.rdata /\ e.at < f.at)
    BY DEF Less
  <2>6. Less(e, f, "wire") <=> Less(e, f, "rdata")
    BY <2>1, <2>2, <2>4, <2>5
  <2> QED
    BY <2>6 DEF e, f
<1>5. \A e, f \in E : Less(e, f, "wire") <=> Less(e, f, "rdata")
  <2> HIDE DEF C, E
  <2> QED
    BY <1>3, <1>4
<1>6. SortedBy(E, "wire") = SortedBy(E, "rdata")
  <2> HIDE DEF E
  <2> QED
    BY <1>5, SortedAlike
<1> QED
  BY <1>6 DEF SignedData, CanonicalData

LEMMA GoodVerdict ==
  ASSUME RecordsRead(records), NEW m \in Made, NEW p \in DOMAIN records,
         NEW q \in DOMAIN records, NEW t, Genuine(m, p, q), InWindow(p, t)
  PROVE  Verdict(p, q, t) = "Secure"
<1> DEFINE s == records[p]
           k == records[q]
<1>1. m.data = SignedData(s, records)
  BY SameOrder DEF Genuine, Carries
<1>2. m = [scheme |-> Scheme[Algorithm(s)], key |-> k.rdata.rest,
           data |-> SignedData(s, records), signature |-> s.rdata.rest]
  <2>1. /\ m.scheme = Scheme[Algorithm(s)] /\ m.key = k.rdata.rest
        /\ m.signature = s.rdata.rest
    BY DEF Genuine, Carries
  <2>2. m = [scheme |-> m.scheme, key |-> m.key, data |-> m.data, signature |-> m.signature]
    BY MadeAssumption
  <2> QED
    BY <1>1, <2>1, <2>2
<1>3. VerifySignature(Algorithm(s), k.rdata.rest, SignedData(s, records), s.rdata.rest)
        = "Secure"
  <2>1. /\ Algorithm(s) \in DOMAIN Scheme
        /\ Readable(Scheme[Algorithm(s)], k.rdata.rest, s.rdata.rest)
    BY DEF Genuine, Carries
  <2> QED
    BY <1>2, <2>1 DEF VerifySignature
<1>4. InPeriod(s, t)
  BY DEF InPeriod, Inception, Expiration, InWindow
<1>5. /\ IsRrsig(p) /\ IsDnskey(q) /\ ComputeKeyTag(k) = KeyTag(s)
      /\ Algorithm(s) = KeyAlgorithm(k)
  BY DEF Genuine, Carries
<1> QED
  BY <1>3, <1>4, <1>5 DEF Verdict, VerifyRrsig

-----------------------------------------------------------------------------
\* What is secure was signed when it was looked at.
LEMMA DInvSecure == DInv => SecureIsSigned
<1> SUFFICES ASSUME DInv, outcome = "Secure" PROVE SecureIsSigned
  BY DEF SecureIsSigned
<1>1. PICK p \in DOMAIN records, q \in DOMAIN records, t \in began..now :
        Verdict(p, q, t) = "Secure"
  BY DEF DInv, OutcomeFounded
<1>2. \E m \in Made : Carries(p, q, m) /\ CoversResponse(p, m) /\ InWindow(p, t)
  BY <1>1, SecureVerdict DEF DInv, Shape
<1> QED
  BY <1>2 DEF SecureIsSigned

\* For any response and clock: secure means signed, at some time of the validation.
THEOREM SecureMeansSigned ==
  ASSUME NEW CONSTANT Responses, \A recs \in Responses : RecordsRead(recs)
  PROVE  DnssecSpec(Responses) => []SecureIsSigned
BY DInvSecure, DSpecInv, PTL

\* A good signature is found, whatever comes before it.
LEMMA DInvGood == DInv => GoodSignatureFound
<1> SUFFICES ASSUME DInv, outcome \in {"Insecure", "Indeterminate", "Bogus"},
                    NEW m \in Made, NEW p \in DOMAIN records, NEW q \in DOMAIN records,
                    Genuine(m, p, q), \A t \in began..now : InWindow(p, t)
             PROVE  FALSE
  BY DEF GoodSignatureFound, Genuine
<1>1. \A t \in began..now : Verdict(p, q, t) = "Secure"
  BY GoodVerdict DEF DInv, Shape
<1>2. ~Failed(p, q)
  BY <1>1 DEF Failed
<1>3. outcome # "Indeterminate"
  BY <1>2 DEF DInv, OutcomeFounded
<1>4. outcome # "Insecure"
  BY DEF Genuine, Carries, DInv, OutcomeFounded
<1> QED
  BY <1>3, <1>4 DEF DInv, Shape

\* For any response and clock: what is not secure had no signature, made as RFC 4034
\* says over a set of records of one length, that was good all the time of the
\* validation.
THEOREM GoodSignaturesFound ==
  ASSUME NEW CONSTANT Responses, \A recs \in Responses : RecordsRead(recs)
  PROVE  DnssecSpec(Responses) => []GoodSignatureFound
BY DInvGood, DSpecInv, PTL

-----------------------------------------------------------------------------
(***************************************************************************)
(* Parser, server and validator together.                                  *)
(***************************************************************************)
LEMMA ConcatOfSections ==
  ASSUME NEW s, IsSection(2, s), NEW t, IsSection(3, t), NEW u, IsSection(4, u)
  PROVE  RecordsRead(s \o t \o u)
<1> DEFINE R == {s[i] : i \in 1..Len(s)} \cup {t[i] : i \in 1..Len(t)}
                  \cup {u[i] : i \in 1..Len(u)}
<1>1. s \in Seq(R) /\ t \in Seq(R) /\ u \in Seq(R)
  <2>1. s \in Seq({s[i] : i \in 1..Len(s)}) /\ t \in Seq({t[i] : i \in 1..Len(t)})
        /\ u \in Seq({u[i] : i \in 1..Len(u)})
    BY SequenceIsSeq DEF IsSection
  <2>2. /\ {s[i] : i \in 1..Len(s)} \subseteq R /\ {t[i] : i \in 1..Len(t)} \subseteq R
        /\ {u[i] : i \in 1..Len(u)} \subseteq R
    OBVIOUS
  <2> HIDE DEF R
  <2> QED BY <2>1, <2>2, SeqMonotonic
<1>2. \A r \in R : IsRecord(r)
  BY DEF IsSection, IsItem
<1> HIDE DEF R
<1> DEFINE all == (s \o t) \o u
<1>3. all \in Seq(R)
  BY <1>1, ConcatProperties
<1> HIDE DEF all
<1>4. Len(all) \in Nat /\ DOMAIN all = 1..Len(all) /\ \A i \in 1..Len(all) : all[i] \in R
  BY <1>3, LenProperties, ElementOfSeq
<1> QED
  BY <1>2, <1>4 DEF RecordsRead, all

\* The invariant that holds of any input.
RInv == NInv /\ Within /\ ReadTyped /\ DInv

LEMMA ReceivedInitInv == ReceivedInit => RInv
<1> SUFFICES ASSUME Init, DnssecInit PROVE RInv
  BY DEF ReceivedInit
<1>1. NInv
  <2>1. ReadSoFar /\ NamesMeanWhatTheySay
    BY DEF Init, ReadSoFar, NamesMeanWhatTheySay
  <2> QED
    BY <2>1, InitInv DEF NInv
<1>2. Within
  BY InputAssumption DEF Init, Within
<1> QED
  BY <1>1, <1>2, InitTyped, DInitInv DEF RInv

\* What the validator is given are records, in a sequence.
LEMMA ValidateKeeps ==
  ASSUME RInv, Validate
  PROVE  DInv'
<1>1. \A s \in 1..4 : IsSection(s, sections[s])
  BY DEF RInv, ReadTyped, SectionsTyped
<1> DEFINE recs == sections[2] \o sections[3] \o sections[4]
<1>2. RecordsRead(recs)
  <2>1. 2 \in 1..4 /\ 3 \in 1..4 /\ 4 \in 1..4
    OBVIOUS
  <2> QED BY <1>1, <2>1, ConcatOfSections
<1>3. StartValidation(recs) /\ DInv
  BY DEF Validate, RInv
<1> HIDE DEF recs
<1> QED
  BY <1>2, <1>3, StartKeeps

LEMMA ReceivedNextInv ==
  ASSUME RInv, [ReceivedNext]_AllVars
  PROVE  RInv'
<1>1. CASE Next /\ UNCHANGED dnssecVars
  <2>1. IInv'
    BY <1>1, NextInv DEF RInv, NInv
  <2>2. NInv'
    BY <1>1, <2>1, NextRead DEF RInv, NInv
  <2>3. Within'
    BY <1>1, NextWork DEF RInv, NInv, Closer
  <2> QED BY <1>1, <2>2, <2>3, NextTyped, DStutterInv DEF RInv
<1>2. CASE Respond /\ UNCHANGED dnssecVars
  <2>1. NInv' /\ ReadTyped'
    BY <1>2, RespondKeeps DEF RInv
  <2>2. Within'
    <3>1. pc' = "header" /\ offset' = 0
      BY <1>2 DEF Respond
    <3>2. Len(data') \in Nat
      BY <2>1, LenProperties DEF NInv, IInv, TypeOK
    <3> QED BY <3>1, <3>2 DEF Within
  <2> QED BY <1>2, <2>1, <2>2, DStutterInv DEF RInv
<1>3. ASSUME UNCHANGED vars, DInv' PROVE RInv'
  <2>1. IInv'
    BY <1>3, NextInv DEF RInv, NInv
  <2>2. NInv'
    BY <1>3, <2>1, StutterRead DEF RInv, NInv
  <2>3. Within'
    BY <1>3 DEF RInv, vars, inputVars, nameVars, Within
  <2> QED BY <1>3, <2>2, <2>3, StutterTyped DEF RInv
<1>4. CASE Validating
  <2>1. Validate \/ Loop \/ UseOrReject \/ Tick
    BY <1>4 DEF Validating
  <2>2. DInv'
    BY <2>1, ValidateKeeps, GoesOnKeeps DEF RInv
  <2> QED BY <1>3, <1>4, <2>2 DEF Validating
<1>5. CASE UNCHANGED AllVars
  <2>1. UNCHANGED vars /\ UNCHANGED dnssecVars
    BY <1>5 DEF AllVars
  <2> QED BY <1>3, <2>1, DStutterInv DEF RInv
<1> QED
  BY <1>1, <1>2, <1>4, <1>5 DEF ReceivedNext

\* With what the messages are known to say, the parser also reads what was sent.
LEMMA ReceivedAsWritten ==
  ASSUME RInv, RInv', ReadAsWritten, [ReceivedNext]_AllVars
  PROVE  ReadAsWritten'
<1>1. CASE Next
  BY <1>1, NextAsWritten DEF RInv
<1>2. CASE Respond
  BY <1>2, RespondKeeps DEF RInv
<1>3. CASE UNCHANGED vars
  BY <1>3, StutterAsWritten
<1> QED
  BY <1>1, <1>2, <1>3 DEF ReceivedNext, Validating, AllVars

LEMMA ReceivedInv == ReceivedSpec => []RInv
BY ReceivedInitInv, ReceivedNextInv, PTL DEF ReceivedSpec

\* Of any message, and of the reply that is written of it, the parser keeps its
\* type, reads nothing outside but where the rest is cut out, and reads every name
\* as what it says (message.rs, name.rs, rdata.rs).
THEOREM AnyMessageRead ==
  ReceivedSpec => [](TypeOK /\ OnlySlicesPanic /\ NamesMeanWhatTheySay)
<1>1. RInv => TypeOK /\ OnlySlicesPanic /\ NamesMeanWhatTheySay
  BY DEF RInv, NInv, IInv
<1> QED
  BY <1>1, ReceivedInv, PTL

\* The parser comes to an end on each of them, and refuses no name that can be read:
\* only when a message is done does the client begin with the reply (message.rs,
\* name.rs).
THEOREM AnyMessageEnds == ReceivedSpec => WorkShrinks /\ NoNameRefused
<1> DEFINE Refused == pc = "name" /\ pc' \in {"item", "failed"} =>
                        ~(Meaning(from).said /\ Meaning(from).pointers <= MaxJumps)
           Shrinks == pc # "done" => Below(Work', Work)
<1>1. RInv => WorkCounts
  BY WorkIsCounted DEF RInv, NInv
<1>2. RInv /\ [ReceivedNext]_AllVars => [Shrinks]_vars /\ [Refused]_vars
  <2> SUFFICES ASSUME RInv, [ReceivedNext]_AllVars, ~(UNCHANGED vars)
               PROVE  Shrinks /\ Refused
    OBVIOUS
  <2>1. CASE Next
    <3>1. Shrinks
      BY <2>1, NextWork DEF RInv, NInv, Closer
    <3>2. Refused
      BY <2>1, NameLeft, NameNotRefused DEF RInv
    <3> QED BY <3>1, <3>2
  <2>2. CASE Respond
    BY <2>2 DEF Respond
  <2> QED
    BY <2>1, <2>2 DEF ReceivedNext, Validating, AllVars
<1>3. ReceivedSpec => []WorkCounts
  BY <1>1, ReceivedInv, PTL
<1>4. ReceivedSpec => [][Shrinks]_vars /\ [][Refused]_vars
  BY <1>2, ReceivedInv, PTL DEF ReceivedSpec
<1>5. ReceivedSpec => WorkShrinks
  BY <1>3, <1>4, PTL DEF WorkShrinks
<1> QED
  BY <1>4, <1>5, PTL DEF NoNameRefused

\* What the validator says of the records that the parser found in a message: secure
\* means signed, and a good signature is found (dnssec/mod.rs).
THEOREM AnyMessageValidated == ReceivedSpec => [](SecureIsSigned /\ GoodSignatureFound)
<1>1. RInv => SecureIsSigned /\ GoodSignatureFound
  BY DInvSecure, DInvGood DEF RInv
<1> QED
  BY <1>1, ReceivedInv, PTL

LEMMA WrittenInv ==
  ASSUME SentAsKnown
  PROVE  ReceivedSpec => [](NInv /\ ReadAsWritten)
<1>1. ReceivedInit => ReadAsWritten
  BY InitAsWritten DEF ReceivedInit
<1>2. RInv /\ RInv' /\ ReadAsWritten /\ [ReceivedNext]_AllVars => ReadAsWritten'
  BY ReceivedAsWritten
<1>3. RInv => NInv
  BY DEF RInv
<1> QED
  BY <1>1, <1>2, <1>3, ReceivedInv, PTL DEF ReceivedSpec

\* Whatever messages the cells were written from, by this program or by others
\* that compress the names, the message is read as it was sent, and so is, by the
\* client, the reply that serialize writes of what has been read, if its lengths fit
\* their bytes (message.rs, record.rs, rdata.rs, name.rs).
THEOREM RepliesReadBack ==
  ASSUME SentAsKnown
  PROVE  ReceivedSpec => []RoundTrip
<1>1. NInv /\ ReadAsWritten => RoundTrip
  BY WrittenSays
<1> QED
  BY <1>1, WrittenInv, PTL

\* Of a message that was cut anywhere, the records before the cut are read as they
\* were sent, all of them, and nothing else is up to the section of the cut
\* (message.rs).
THEOREM CutMessagesRead ==
  ASSUME SentAsKnown
  PROVE  ReceivedSpec => []UpToTheBreak
<1>1. NInv /\ ReadAsWritten => UpToTheBreak
  BY WrittenSays
<1> QED
  BY <1>1, WrittenInv, PTL
=============================================================================
