----------------------------- MODULE WireProofs -----------------------------
(***************************************************************************)
(* Theorems about Wire, for messages of any length and content and any      *)
(* number of pointers: the parser never reads outside the message but in    *)
(* the place OnlySlicesPanic names, reads of each name what is written, and *)
(* comes to an end.                                                        *)
(*                                                                         *)
(* What is written is defined by recursion (Readings), which the provers    *)
(* know as the choice of a function that obeys an equation: the second part *)
(* first shows that there is such a function (Iteration, ReadingsUnfold),   *)
(* then that names of more parts than the message has cells say nothing new *)
(* (HeardByThen), and then that the loop follows it step by step.           *)
(***************************************************************************)
EXTENDS Wire, SequenceTheorems, FiniteSetTheorems, WellFoundedInduction, TLAPS

\* What a label or a text says is of no concern here, how many were read is.
IsSeq(s) == \E S : s \in Seq(S)

\* A sequence with one element more is one.
LEMMA AppendToSeq ==
  ASSUME NEW S, NEW s \in Seq(S), NEW e
  PROVE  /\ \E R : Append(s, e) \in Seq(R)
         /\ Len(s) \in Nat
         /\ Len(Append(s, e)) = Len(s) + 1
<1> DEFINE R == S \cup {e}
<1>1. s \in Seq(R) /\ e \in R
  <2>1. Len(s) \in Nat /\ DOMAIN s = 1..Len(s) /\ s \in [1..Len(s) -> S]
    BY LenProperties
  <2>2. s \in [1..Len(s) -> R]
    BY <2>1
  <2> QED
    BY <2>1, <2>2
<1> HIDE DEF R
<1>2. Append(s, e) \in Seq(R) /\ Len(s) \in Nat /\ Len(Append(s, e)) = Len(s) + 1
  BY <1>1
<1> QED
  BY <1>2

LEMMA AppendCounts ==
  ASSUME NEW s, IsSeq(s), NEW e
  PROVE  /\ IsSeq(Append(s, e))
         /\ Len(s) \in Nat
         /\ Len(Append(s, e)) = Len(s) + 1
<1>1. \E S : s \in Seq(S)
  BY DEF IsSeq
<1>2. ASSUME NEW S, s \in Seq(S)
      PROVE  /\ \E R : Append(s, e) \in Seq(R)
             /\ Len(s) \in Nat
             /\ Len(Append(s, e)) = Len(s) + 1
  BY <1>2, AppendToSeq
<1> QED
  BY <1>1, <1>2 DEF IsSeq

\* The empty sequence is one.
LEMMA EmptyIsSeq == IsSeq(<<>>) /\ Len(<<>>) = 0
<1>1. <<>> \in Seq({})
  OBVIOUS
<1> QED
  BY <1>1 DEF IsSeq

LEMMA EmptySequence ==
  ASSUME NEW s, IsSeq(s)
  PROVE  Len(s) = 0 => s = <<>>
<1>1. \E S : s \in Seq(S)
  BY DEF IsSeq
<1>2. ASSUME NEW S, s \in Seq(S), Len(s) = 0 PROVE s = <<>>
  BY <1>2, EmptySeq
<1> QED
  BY <1>1, <1>2

\* What stands in a sequence of cells is a number.
LEMMA CellIsNumber ==
  ASSUME NEW s \in Seq(Cell), NEW i \in 1..Len(s)
  PROVE  s[i] \in Nat
<1>1. s[i] \in Cell
  BY ElementOfSeq
<1>2. Cell \subseteq Nat
  BY DEF Cell
<1> QED
  BY <1>1, <1>2

\* A slice within the message is a sequence of cells of the length asked for.
LEMMA SliceProperties ==
  ASSUME data \in Seq(Cell), NEW lo \in Nat, NEW hi \in Nat, lo <= hi, hi <= Len(data)
  PROVE  Slice(lo, hi) \in Seq(Cell) /\ Len(Slice(lo, hi)) = hi - lo
<1>1. \A i \in lo + 1..hi : data[i] \in Cell
  BY ElementOfSeq
<1> QED
  BY <1>1, SubSeqProperties DEF Slice

\* What the layouts demand of the length of record data is more than the fields.
LEMMA HeadWithinData ==
  ASSUME NEW t \in Cell, NEW n \in Cell, LengthOk(t, n)
  PROVE  HeadSize(t) \in Nat /\ HeadSize(t) <= n
BY DEF LengthOk, HeadSize, RT, Cell

LEMMA NameCountProperties ==
  ASSUME NEW t
  PROVE  /\ NameCount(t) \in 0..2
         /\ Rest(t) = "slice" /\ NameCount(t) > 0
              => t \in {RT.RRSIG, RT.NSEC} /\ NameCount(t) = 1
BY DEF NameCount, Rest, RT

-----------------------------------------------------------------------------
(***************************************************************************)
(* The inductive invariant.  In a record, the data lies in the message      *)
(* (DataInside), the names of the layout are not all read while one of them *)
(* is (NamesCounted), and before the first of them the offset is within the *)
(* data (BeforeNames): behind a name it need not be.  What is read is one of *)
(* the items that remain (ItemLeft).                                       *)
(***************************************************************************)
InName == pc = "name" /\ Len(names) > 0
InRecord == pc \in {"rdata", "texts"} \/ InName

DataInside == InRecord => Len(fixed) >= RecordSize /\ end <= Len(data)

NamesCounted ==
  /\ IsSeq(names)
  /\ pc = "fixed" => Len(names) = 1
  /\ InName => Len(names) <= NameCount(fixed[1])
  /\ pc \in {"rdata", "texts"} => Len(names) \in 1..NameCount(fixed[1]) + 1

BeforeNames == pc = "rdata" /\ Len(names) = 1 => offset <= end

ItemLeft == pc \in {"name", "fixed", "rdata", "texts"} => left > 0

IInv == TypeOK /\ ItemLeft /\ DataInside /\ NamesCounted /\ BeforeNames /\ OnlySlicesPanic

\* The invariant holds as the parsing begins.
LEMMA InitInv == Init => IInv
<1> SUFFICES ASSUME Init PROVE IInv
  OBVIOUS
<1>1. data \in Seq(Cell)
  BY InputAssumption DEF Init
<1>2. counts \in Seq(Cell) /\ Len(counts) = 4
  BY DEF Init, Cell
<1>3. fixed \in Seq(Cell)
  BY DEF Init
<1>4. pc = "header" /\ names = <<>>
  BY DEF Init
<1>5. /\ offset \in Nat /\ current \in Nat /\ from \in Nat /\ end \in Nat
      /\ sec \in 1..4 /\ left \in Nat /\ jumps = 0
  BY DEF Init
<1>6. jumped \in BOOLEAN
  BY Zenon DEF Init
<1>7. TypeOK
  <2>1. pc \in PcValues
    BY <1>4 DEF PcValues
  <2>2. jumps \in 0..MaxJumps
    BY <1>5, JumpAssumption
  <2> QED
    BY <1>1, <1>2, <1>3, <1>5, <1>6, <2>1, <2>2 DEF TypeOK
<1>8. NamesCounted
  BY <1>4, EmptyIsSeq DEF NamesCounted, InName
<1> QED
  BY <1>4, <1>7, <1>8
     DEF IInv, ItemLeft, DataInside, BeforeNames, OnlySlicesPanic, InRecord, InName

\* Each byte that is read is a number below 256.
LEMMA ByteInside ==
  ASSUME IInv, NEW i \in Nat, i < Len(data)
  PROVE  data[i + 1] \in Cell
<1>1. data \in Seq(Cell) /\ i + 1 \in 1..Len(data)
  BY DEF IInv, TypeOK
<1> QED
  BY <1>1, ElementOfSeq

\* A step to "item", or to the end, that leaves the offset a number keeps the invariant.
LEMMA LeavesRecord ==
  ASSUME IInv, pc' \in {"item", "done", "failed"},
         UNCHANGED <<data, counts, itemVars>>,
         offset' \in Nat, left' \in Nat, sec' \in 1..4,
         from' \in Nat, current' \in Nat, jumped' \in BOOLEAN, jumps' \in 0..MaxJumps
  PROVE  IInv'
BY DEF IInv, TypeOK, PcValues, ItemLeft, DataInside, NamesCounted, BeforeNames,
       OnlySlicesPanic, InRecord, InName, itemVars

LEMMA FailStep ==
  ASSUME IInv, Fail, offset' \in Nat, UNCHANGED nameVars
  PROVE  IInv'
BY LeavesRecord DEF IInv, TypeOK, Fail, inputVars, messageVars, nameVars, itemVars

LEMMA AcceptStep ==
  ASSUME IInv, NEW item, Accept(item), left > 0, offset' \in Nat, UNCHANGED <<nameVars, itemVars>>
  PROVE  IInv'
BY LeavesRecord DEF IInv, TypeOK, Accept, inputVars, nameVars, itemVars

-----------------------------------------------------------------------------
LEMMA StartNameTypes ==
  ASSUME IInv, StartName
  PROVE  /\ pc' = "name" /\ pc' \in PcValues
         /\ from' \in Nat /\ current' \in Nat
         /\ jumped' \in BOOLEAN /\ jumps' \in 0..MaxJumps
<1>1. /\ pc' = "name" /\ pc' \in PcValues
      /\ from' \in Nat /\ current' \in Nat
  BY DEF StartName, IInv, TypeOK, PcValues
<1>2. jumps' \in 0..MaxJumps
  BY JumpAssumption DEF StartName
<1>3. jumped' \in BOOLEAN
  BY Zenon DEF StartName
<1> QED
  BY <1>1, <1>2, <1>3

LEMMA HeaderStepInv ==
  ASSUME IInv, HeaderShort \/ ParseHeader \/ NextItem \/ NextSection \/ Finish
  PROVE  IInv'
<1>1. CASE HeaderShort
  BY <1>1, LeavesRecord
     DEF HeaderShort, IInv, TypeOK, inputVars, messageVars, nameVars, itemVars
<1>2. CASE ParseHeader
  <2>1. data \in Seq(Cell) /\ offset \in Nat /\ offset + 7 <= Len(data) /\ 7 <= Len(data)
    BY <1>2 DEF ParseHeader, HeaderSize, IInv, TypeOK
  <2>2. Slice(3, 7) \in Seq(Cell) /\ Len(Slice(3, 7)) = 4
    <3>1. 3 \in Nat /\ 7 \in Nat /\ 3 <= 7 /\ 7 - 3 = 4
      OBVIOUS
    <3>2. Slice(3, 7) \in Seq(Cell) /\ Len(Slice(3, 7)) = 7 - 3
      BY <2>1, <3>1, SliceProperties
    <3> QED
      BY <3>1, <3>2
  <2>3. data[4] \in Nat
    <3>1. 4 \in 1..Len(data)
      BY <2>1
    <3> QED
      BY <2>1, <3>1, CellIsNumber
  <2>4. TypeOK'
    BY <1>2, <2>1, <2>2, <2>3
       DEF ParseHeader, HeaderSize, IInv, TypeOK, PcValues, inputVars, nameVars, itemVars
  <2> QED
    BY <1>2, <2>4
       DEF ParseHeader, IInv, ItemLeft, DataInside, NamesCounted, BeforeNames,
           OnlySlicesPanic, InRecord, InName, inputVars, nameVars, itemVars
<1>3. CASE NextItem
  <2>1. pc' = "name" /\ left > 0 /\ names' = <<>> /\ left' = left
    BY <1>3 DEF NextItem, StartName
  <2>2. TypeOK'
    BY <1>3, StartNameTypes DEF NextItem, IInv, TypeOK, inputVars, messageVars
  <2> QED
    BY <2>1, <2>2, EmptyIsSeq
       DEF IInv, ItemLeft, DataInside, NamesCounted, BeforeNames, OnlySlicesPanic,
           InRecord, InName
<1>4. CASE NextSection
  <2>1. counts[sec + 1] \in Nat
    <3>1. counts \in Seq(Cell) /\ sec + 1 \in 1..Len(counts)
      BY <1>4 DEF NextSection, IInv, TypeOK
    <3> QED
      BY <3>1, CellIsNumber
  <2> QED
    BY <1>4, <2>1, LeavesRecord
       DEF NextSection, IInv, TypeOK, inputVars, nameVars, itemVars
<1>5. CASE Finish
  BY <1>5, LeavesRecord
     DEF Finish, IInv, TypeOK, inputVars, messageVars, nameVars, itemVars
<1> QED
  BY <1>1, <1>2, <1>3, <1>4, <1>5

\* While a name is read: the length byte, and what a pointer says, are numbers.
LEMMA NameNumbers ==
  ASSUME IInv, AtLength
  PROVE  /\ LengthByte \in Nat
         /\ current + 1 < Len(data) => Pointer \in Nat
<1>1. data \in Seq(Cell) /\ current \in Nat /\ current + 1 \in 1..Len(data)
  BY DEF AtLength, IInv, TypeOK
<1>2. LengthByte \in Nat
  BY <1>1, CellIsNumber DEF LengthByte
<1>3. ASSUME current + 1 < Len(data) PROVE data[current + 2] \in Nat
  <2>1. current + 2 \in 1..Len(data)
    BY <1>1, <1>3
  <2> QED
    BY <1>1, <2>1, CellIsNumber
<1>4. LengthByte % 64 \in Nat
  BY <1>2
<1> QED
  BY <1>2, <1>3, <1>4 DEF Pointer

LEMMA NameStepInv ==
  ASSUME IInv, NameStep
  PROVE  IInv'
<1>1. /\ offset \in Nat /\ current \in Nat /\ current + 1 \in Nat /\ current + 2 \in Nat
      /\ AfterPointer \in Nat
  BY DEF IInv, TypeOK, AfterPointer
<1>2. CASE NameShort
  BY <1>1, <1>2, FailStep DEF NameShort
<1>3. CASE NameEnd
  <2>1. /\ pc = "name" /\ names' = Append(names, parts) /\ left' = left /\ left > 0
        /\ pc' = IF names = <<>> THEN "fixed" ELSE "rdata"
        /\ UNCHANGED <<data, fixed, end>>
    BY <1>3 DEF NameEnd, AtLength, IInv, ItemLeft, inputVars
  <2>2. /\ IsSeq(names) /\ IsSeq(names') /\ Len(names) \in Nat
        /\ Len(names') = Len(names) + 1
    BY <2>1, AppendCounts DEF IInv, NamesCounted
  <2>3. names = <<>> <=> Len(names) = 0
    BY <2>2, EmptyIsSeq, EmptySequence
  <2>4. TypeOK'
    <3>1. offset' \in Nat
      BY <1>1, <1>3 DEF NameEnd
    <3> QED
      BY <1>3, <2>1, <3>1
         DEF NameEnd, IInv, TypeOK, PcValues, messageVars, nameVars
  <2>5. NameCount(fixed[1]) \in 0..2
    BY NameCountProperties
  <2>6. CASE names = <<>>
    BY <2>1, <2>2, <2>3, <2>4, <2>6
       DEF IInv, ItemLeft, DataInside, NamesCounted, BeforeNames, OnlySlicesPanic,
           InRecord, InName
  <2>7. CASE names # <<>>
    <3>1. pc' = "rdata" /\ InName /\ Len(names') > 1
      BY <2>1, <2>2, <2>3, <2>7 DEF InName
    <3>2. NamesCounted'
      BY <2>1, <2>2, <2>5, <3>1 DEF IInv, NamesCounted, InName
    <3> QED
      BY <2>1, <2>4, <3>1, <3>2
         DEF IInv, ItemLeft, DataInside, BeforeNames, OnlySlicesPanic, InRecord, InName
  <2> QED
    BY <2>6, <2>7
<1>4. CASE BadPointer
  BY <1>1, <1>4, FailStep DEF BadPointer
<1>5. CASE PointerLoop
  BY <1>1, <1>5, FailStep DEF PointerLoop
<1>6. CASE FollowPointer
  <2>1. Pointer \in Nat
    BY <1>6, NameNumbers DEF FollowPointer, AtPointer
  <2>2. jumps' \in 0..MaxJumps
    BY <1>6, JumpAssumption DEF FollowPointer, IInv, TypeOK
  <2>3. jumped' \in BOOLEAN
    BY <1>6, Zenon DEF FollowPointer
  <2>4. TypeOK'
    BY <1>1, <1>6, <2>1, <2>2, <2>3
       DEF FollowPointer, IInv, TypeOK, inputVars, messageVars, itemVars
  <2>5. /\ pc = "name"
        /\ UNCHANGED <<data, pc, left, fixed, end, names>>
    BY <1>6 DEF FollowPointer, AtPointer, AtLength, inputVars, itemVars
  <2> QED
    BY <2>4, <2>5
       DEF IInv, ItemLeft, DataInside, NamesCounted, BeforeNames, OnlySlicesPanic,
           InRecord, InName
<1>7. CASE ReadLabel
  <2>1. current' \in Nat
    BY <1>1, <1>7, NameNumbers DEF ReadLabel, AtLabel
  <2>2. TypeOK'
    BY <1>7, <2>1 DEF ReadLabel, IInv, TypeOK, inputVars, messageVars, itemVars
  <2>3. UNCHANGED <<data, pc, offset, left, fixed, end, names>>
    BY <1>7 DEF ReadLabel, inputVars, itemVars
  <2> QED
    BY <2>2, <2>3
       DEF IInv, ItemLeft, DataInside, NamesCounted, BeforeNames, OnlySlicesPanic,
           InRecord, InName
<1> QED
  BY <1>2, <1>3, <1>4, <1>5, <1>6, <1>7 DEF NameStep

\* An item whose fixed part lies in the message.
LEMMA FixedInside ==
  ASSUME IInv, NEW size \in Nat, size > 0, Fits(size)
  PROVE  /\ offset \in Nat /\ offset + size \in Nat
         /\ offset <= offset + size /\ offset + size <= Len(data)
         /\ data \in Seq(Cell) /\ Len(data) \in Nat
         /\ \A i \in 1..size : data[offset + i] \in Nat
<1>1. /\ offset \in Nat /\ data \in Seq(Cell) /\ Len(data) \in Nat
      /\ offset + size <= Len(data)
  BY DEF Fits, IInv, TypeOK
<1>2. ASSUME NEW i \in 1..size PROVE data[offset + i] \in Nat
  <2>1. offset + i \in 1..Len(data)
    BY <1>1
  <2> QED
    BY <1>1, <2>1, CellIsNumber
<1> QED
  BY <1>1, <1>2

LEMMA FixedStepInv ==
  ASSUME IInv, FixedShort \/ ParseQuestion \/ ParseFixed
  PROVE  IInv'
<1>1. CASE FixedShort
  BY <1>1, FailStep DEF FixedShort, IInv, TypeOK
<1>2. CASE ParseQuestion
  <2>1. /\ offset \in Nat /\ offset + QuestionSize \in Nat
        /\ offset <= offset + QuestionSize /\ offset + QuestionSize <= Len(data)
    BY <1>2, FixedInside DEF ParseQuestion, QuestionSize
  <2>2. left > 0
    BY <1>2 DEF ParseQuestion, IInv, ItemLeft
  <2>3. /\ offset' = offset + QuestionSize
        /\ Accept([name |-> names[1], type |-> data[offset + 1],
                   class |-> data[offset + 2]])
        /\ UNCHANGED <<nameVars, itemVars>>
    BY <1>2, <2>1 DEF ParseQuestion, Reading
  <2> QED
    BY <2>1, <2>2, <2>3, AcceptStep
<1>3. CASE ParseFixed
  <2> DEFINE start == offset + RecordSize
             type == data[offset + 1]
             rdlength == data[start]
             past == start + HeadSize(type)
  <2>1. /\ offset \in Nat /\ start \in Nat /\ offset <= start /\ start <= Len(data)
        /\ data \in Seq(Cell) /\ Len(data) \in Nat
        /\ type \in Cell /\ rdlength \in Cell /\ rdlength \in Nat
    <3>1. /\ offset \in Nat /\ start \in Nat /\ offset <= start /\ start <= Len(data)
          /\ data \in Seq(Cell) /\ Len(data) \in Nat
          /\ \A i \in 1..RecordSize : data[offset + i] \in Nat
      BY <1>3, FixedInside DEF ParseFixed, RecordSize
    <3>2. offset + 1 \in 1..Len(data) /\ start \in 1..Len(data)
      BY <3>1 DEF RecordSize
    <3>3. type \in Cell /\ rdlength \in Cell
      BY <3>1, <3>2, ElementOfSeq
    <3> QED
      BY <3>1, <3>2, <3>3, CellIsNumber
  <2> HIDE DEF start, type, rdlength
  <2>2. CASE start + rdlength > Len(data) \/ ~LengthOk(type, rdlength)
    BY <1>3, <2>1, <2>2, FailStep
       DEF ParseFixed, Reading, start, type, rdlength
  <2>3. CASE ~(start + rdlength > Len(data) \/ ~LengthOk(type, rdlength))
    <3>1. /\ HeadSize(type) \in Nat /\ HeadSize(type) <= rdlength
      BY <2>1, <2>3, HeadWithinData
    <3>2. /\ past \in Nat /\ offset <= past /\ start <= past
          /\ past <= start + rdlength /\ past <= Len(data)
          /\ past - offset >= RecordSize /\ start + rdlength \in Nat
          /\ start + rdlength <= Len(data)
      BY <2>1, <2>3, <3>1 DEF start, RecordSize
    <3>3. /\ fixed' = Slice(offset, past)
          /\ end' = start + rdlength
          /\ offset' = past
          /\ pc' = "rdata"
          /\ UNCHANGED <<inputVars, messageVars, left, nameVars, names>>
      BY <1>3, <2>1, <2>3, <3>2 DEF ParseFixed, Reading, start, type, rdlength
    <3> HIDE DEF past
    <3>4. fixed' \in Seq(Cell) /\ Len(fixed') >= RecordSize
      BY <2>1, <3>2, <3>3, SliceProperties
    <3>5. TypeOK'
      BY <3>2, <3>3, <3>4
         DEF IInv, TypeOK, PcValues, inputVars, messageVars, nameVars
    <3>6. Len(names) = 1 /\ left > 0
      BY <1>3 DEF ParseFixed, IInv, NamesCounted, ItemLeft
    <3>7. NameCount(fixed'[1]) \in 0..2
      BY NameCountProperties
    <3>8. NamesCounted'
      BY <3>3, <3>6, <3>7 DEF IInv, NamesCounted, InName
    <3> QED
      BY <3>2, <3>3, <3>4, <3>5, <3>6, <3>8
         DEF IInv, ItemLeft, DataInside, BeforeNames, OnlySlicesPanic, InRecord, InName,
             inputVars
  <2> QED
    BY <2>2, <2>3
<1> QED
  BY <1>1, <1>2, <1>3

\* Behind the fields of a record.
LEMMA RDataFacts ==
  ASSUME IInv, pc \in {"rdata", "texts"}
  PROVE  /\ offset \in Nat /\ end \in Nat /\ left \in Nat /\ left > 0
         /\ data \in Seq(Cell) /\ Len(data) \in Nat /\ end <= Len(data)
         /\ Len(fixed) >= RecordSize
         /\ IsSeq(names) /\ NameCount(fixed[1]) \in 0..2
         /\ Len(names) \in 1..NameCount(fixed[1]) + 1
BY NameCountProperties
   DEF IInv, TypeOK, ItemLeft, DataInside, NamesCounted, InRecord

LEMMA RestAccepted ==
  ASSUME IInv, pc \in {"rdata", "texts"}, NEW rest, AcceptRecord(rest)
  PROVE  IInv'
<1>1. /\ offset' \in Nat /\ left > 0 /\ UNCHANGED <<nameVars, itemVars>>
  BY RDataFacts DEF AcceptRecord
<1>2. PICK item : Accept(item)
  BY Zenon DEF AcceptRecord
<1> QED
  BY <1>1, <1>2, AcceptStep

\* The one place where the offset may be behind the end of the data.
LEMMA SliceRestInv ==
  ASSUME IInv, SliceRest
  PROVE  IInv'
<1>1. /\ pc = "rdata" /\ Len(names) > NameCount(fixed[1])
      /\ Rest(fixed[1]) = "slice"
  BY DEF SliceRest, AtRest
<1> DEFINE count == NameCount(fixed[1])
           read == Len(names)
<1>4. /\ offset \in Nat /\ end \in Nat /\ Len(data) \in Nat /\ end <= Len(data)
      /\ count \in 0..2 /\ read \in 1..count + 1 /\ Len(fixed) >= RecordSize
  BY <1>1, RDataFacts
<1> HIDE DEF count, read
<1>2. CASE offset <= end /\ end <= Len(data)
  <2>1. AcceptRecord(Slice(offset, end))
    BY <1>2 DEF SliceRest, Reading
  <2> QED
    BY <1>1, <2>1, RestAccepted
<1>3. CASE ~(offset <= end /\ end <= Len(data))
  <2>1. Panic
    BY <1>3 DEF SliceRest, Reading
  <2>2. offset > end
    BY <1>3, <1>4
  <2>3. read # 1
    BY <1>1, <1>4, <2>2 DEF IInv, BeforeNames, read
  <2>4. count > 0
    BY <1>4, <2>3
  <2>5. fixed[1] \in {RT.RRSIG, RT.NSEC} /\ count = 1
    BY <1>1, <2>4, NameCountProperties DEF count
  <2>6. Len(names) = 2 /\ Len(fixed) >= RecordSize
    BY <1>4, <2>3, <2>5 DEF read
  <2>7. pc' = "panicked"
        /\ UNCHANGED <<data, offset, counts, sec, left, from, current, jumped, jumps,
                       fixed, end, names>>
    BY <2>1 DEF Panic, inputVars, messageVars, nameVars, itemVars
  <2>8. TypeOK'
    BY <2>7 DEF IInv, TypeOK, PcValues
  <2> QED
    BY <2>2, <2>5, <2>6, <2>7, <2>8
       DEF IInv, ItemLeft, DataInside, NamesCounted, BeforeNames, OnlySlicesPanic,
           InRecord, InName
<1> QED
  BY <1>2, <1>3

LEMMA RDataStepInv ==
  ASSUME IInv,
         NextName \/ SkipRest \/ SliceRest \/ ParseSoa \/ StartTexts \/ ReadText \/ TextsEnd
  PROVE  IInv'
<1>1. CASE NextName
  <2>1. /\ pc = "rdata" /\ pc' = "name" /\ Len(names) <= NameCount(fixed[1])
        /\ UNCHANGED <<data, left, fixed, end, names>>
    BY <1>1 DEF NextName, StartName, inputVars, itemVars
  <2>2. TypeOK'
    BY <1>1, StartNameTypes
       DEF NextName, IInv, TypeOK, inputVars, messageVars, itemVars
  <2> QED
    BY <2>1, <2>2
       DEF IInv, ItemLeft, DataInside, NamesCounted, BeforeNames, OnlySlicesPanic,
           InRecord, InName
<1>2. CASE SkipRest
  BY <1>2, RestAccepted DEF SkipRest, AtRest
<1>3. CASE SliceRest
  BY <1>3, SliceRestInv
<1>4. CASE ParseSoa
  <2>1. pc = "rdata"
    BY <1>4 DEF ParseSoa, AtRest
  <2>2. CASE offset + SoaSize > end
    BY <1>4, <2>2, FailStep DEF ParseSoa, IInv, TypeOK
  <2>3. CASE ~(offset + SoaSize > end)
    <3>1. offset <= offset + SoaSize /\ offset + SoaSize <= Len(data)
      BY <2>1, <2>3, RDataFacts DEF SoaSize
    <3>2. AcceptRecord(Slice(offset, offset + SoaSize))
      BY <1>4, <2>3, <3>1 DEF ParseSoa, Reading
    <3> QED
      BY <2>1, <3>2, RestAccepted
  <2> QED
    BY <2>2, <2>3
<1>5. CASE StartTexts
  <2>1. /\ pc = "rdata" /\ pc' = "texts"
        /\ UNCHANGED <<data, left, fixed, end, names>>
    BY <1>5 DEF StartTexts, AtRest, inputVars, itemVars
  <2>2. TypeOK'
    BY <1>5 DEF StartTexts, IInv, TypeOK, PcValues, inputVars, messageVars, itemVars
  <2> QED
    BY <2>1, <2>2
       DEF IInv, ItemLeft, DataInside, NamesCounted, BeforeNames, OnlySlicesPanic,
           InRecord, InName
<1>6. CASE ReadText
  <2> DEFINE start == current + 1
             stop == start + LengthByte
  <2>1. pc = "texts" /\ current < end
    BY <1>6 DEF ReadText
  <2>2. CASE stop > end
    BY <1>6, <2>2, FailStep DEF ReadText, IInv, TypeOK
  <2>3. CASE ~(stop > end)
    <3>1. current \in Nat /\ current + 1 \in 1..Len(data)
      BY <2>1, RDataFacts DEF IInv, TypeOK
    <3>2. LengthByte \in Nat
      BY <2>1, <3>1, RDataFacts, CellIsNumber DEF LengthByte
    <3>3. stop \in Nat /\ start <= stop /\ stop <= Len(data)
      BY <2>1, <2>3, <3>1, <3>2, RDataFacts
    <3>4. /\ current' = stop
          /\ UNCHANGED <<inputVars, pc, offset, messageVars, left, from, jumped, jumps,
                         itemVars>>
      BY <1>6, <2>3, <3>3 DEF ReadText, Reading
    <3>5. TypeOK'
      BY <3>3, <3>4 DEF IInv, TypeOK, inputVars, messageVars, itemVars
    <3> QED
      BY <3>4, <3>5
         DEF IInv, ItemLeft, DataInside, NamesCounted, BeforeNames, OnlySlicesPanic,
             InRecord, InName, inputVars, itemVars
  <2> QED
    BY <2>2, <2>3
<1>7. CASE TextsEnd
  BY <1>7, RestAccepted DEF TextsEnd
<1> QED
  BY <1>1, <1>2, <1>3, <1>4, <1>5, <1>6, <1>7

-----------------------------------------------------------------------------
\* Every step, and a stutter, keeps the invariant.
LEMMA NextInv == IInv /\ [Next]_vars => IInv'
<1> SUFFICES ASSUME IInv, [Next]_vars PROVE IInv'
  OBVIOUS
<1>1. CASE Next
  BY <1>1, HeaderStepInv, NameStepInv, FixedStepInv, RDataStepInv DEF Next, ItemStep
<1>2. CASE UNCHANGED vars
  BY <1>2
     DEF vars, inputVars, messageVars, nameVars, itemVars, IInv, TypeOK, PcValues,
         ItemLeft, DataInside, NamesCounted, BeforeNames, OnlySlicesPanic, InRecord,
         InName
<1> QED
  BY <1>1, <1>2

LEMMA SpecInv == Spec => []IInv
BY InitInv, NextInv, PTL DEF Spec

\* The state of the parser has its type, whatever the message (message.rs).
THEOREM TypeCorrect == Spec => []TypeOK
<1>1. IInv => TypeOK
  BY DEF IInv
<1> QED
  BY <1>1, SpecInv, PTL

\* No message, however long or malformed, makes the parser read outside of it,
\* but where the rest of RRSIG or NSEC data is cut out (rdata.rs).
THEOREM ReadsInside == Spec => []OnlySlicesPanic
<1>1. IInv => OnlySlicesPanic
  BY DEF IInv
<1> QED
  BY <1>1, SpecInv, PTL

-----------------------------------------------------------------------------
(***************************************************************************)
(* Recursion over the natural numbers.                                     *)
(***************************************************************************)
LEMMA AllNaturals ==
  ASSUME NEW S, 0 \in S, \A n \in Nat : n \in S => n + 1 \in S
  PROVE  Nat \subseteq S
<1> DEFINE Bad == Nat \ S
<1> SUFFICES ASSUME Bad # {} PROVE FALSE
  OBVIOUS
<1>1. PICK m \in Bad : \A n \in Bad : ~(<<n, m>> \in OpToRel(<, Nat))
  BY WFMin, NatLessThanWellFounded
<1>2. \A n \in Bad : ~(n < m)
  BY <1>1 DEF OpToRel
<1>3. m # 0 /\ m - 1 \in Nat
  OBVIOUS
<1>4. m - 1 \in S
  BY <1>2, <1>3
<1> QED
  BY <1>3, <1>4

\* A first value and a step have a sequence of values.
Iterates(V, base, step) ==
  \E f \in [Nat -> V] : f[0] = base /\ \A n \in Nat : f[n + 1] = step[f[n]]

LEMMA Iteration ==
  ASSUME NEW V, NEW base \in V, NEW step \in [V -> V]
  PROVE  Iterates(V, base, step)
<1> DEFINE Part(n) == {g \in [0..n -> V] : /\ g[0] = base
                                           /\ \A i \in 0..n - 1 : g[i + 1] = step[g[i]]}
           Whole == {n \in Nat : Part(n) # {}}
<1>1. Nat \subseteq Whole
  <2>1. 0 \in Whole
    <3>1. [i \in 0..0 |-> base] \in Part(0)
      OBVIOUS
    <3> QED
      BY <3>1
  <2>2. ASSUME NEW n \in Nat, n \in Whole PROVE n + 1 \in Whole
    <3>1. PICK g : g \in Part(n)
      BY <2>2
    <3> DEFINE h == [i \in 0..n + 1 |-> IF i = n + 1 THEN step[g[n]] ELSE g[i]]
    <3>2. g[n] \in V
      BY <3>1
    <3>3. h \in [0..n + 1 -> V] /\ h[0] = base
      BY <3>1, <3>2
    <3>4. ASSUME NEW i \in 0..(n + 1) - 1 PROVE h[i + 1] = step[h[i]]
      <4>1. CASE i = n
        BY <4>1
      <4>2. CASE i \in 0..n - 1
        BY <3>1, <4>2
      <4> QED
        BY <4>1, <4>2
    <3>5. h \in Part(n + 1)
      BY <3>3, <3>4
    <3> HIDE DEF Part, h
    <3> QED
      BY <3>5
  <2> HIDE DEF Whole
  <2> QED
    BY <2>1, <2>2, AllNaturals
<1>2. ASSUME NEW n \in Nat, NEW m \in Nat, n <= m, NEW g \in Part(n), NEW h \in Part(m)
      PROVE  g[n] = h[n]
  <2> DEFINE Same == {i \in Nat : i <= n => g[i] = h[i]}
  <2>1. 0 \in Same
    OBVIOUS
  <2>2. ASSUME NEW i \in Nat, i \in Same, i + 1 <= n PROVE g[i + 1] = h[i + 1]
    <3>1. i \in 0..n - 1 /\ i \in 0..m - 1 /\ g[i] = h[i]
      BY <1>2, <2>2
    <3> QED
      BY <3>1
  <2>3. n \in Same
    <3> HIDE DEF Part
    <3>1. \A i \in Nat : i \in Same => i + 1 \in Same
      BY <2>2
    <3> HIDE DEF Same
    <3> QED
      BY <2>1, <3>1, AllNaturals
  <2> QED
    BY <2>3
<1> DEFINE G(n) == CHOOSE g : g \in Part(n)
           f == [n \in Nat |-> G(n)[n]]
<1>3. \A n \in Nat : G(n) \in Part(n)
  <2> HIDE DEF Part
  <2> QED BY <1>1
<1>4. \A n \in Nat : G(n)[n] \in V
  <2> HIDE DEF G
  <2> QED BY <1>3
<1>5. f \in [Nat -> V] /\ f[0] = base
  <2>1. G(0)[0] = base
    <3> HIDE DEF G
    <3> QED BY <1>3
  <2> HIDE DEF G
  <2> QED BY <1>4, <2>1
<1>6. ASSUME NEW n \in Nat PROVE f[n + 1] = step[f[n]]
  <2>1. G(n) \in Part(n) /\ G(n + 1) \in Part(n + 1)
    <3> HIDE DEF G, Part
    <3> QED BY <1>3
  <2>2. G(n + 1)[n + 1] = step[G(n + 1)[n]]
    <3> HIDE DEF G
    <3> QED BY <2>1
  <2>3. G(n)[n] = G(n + 1)[n]
    <3> HIDE DEF G, Part
    <3> QED BY <1>2, <2>1
  <2> HIDE DEF G
  <2> QED BY <2>2, <2>3
<1> HIDE DEF f
<1> QED
  BY <1>5, <1>6 DEF Iterates

-----------------------------------------------------------------------------
(***************************************************************************)
(* The reference for names.                                                *)
(***************************************************************************)
Labels == {Label(bytes) : bytes \in Seq(Cell) \ {<<>>}}
NameReading == [said : BOOLEAN, labels : Seq(Labels), behind : Nat, pointers : Nat]

\* The three ways to read on at a position, and what is read there.
AtZero(d, q) == q < Len(d) /\ d[q + 1] = 0
AtJump(d, q) == q + 1 < Len(d) /\ d[q + 1] >= 192
AtText(d, q) == q < Len(d) /\ d[q + 1] \in 1..191 /\ q + 1 + d[q + 1] <= Len(d)

Target(d, q) == (d[q + 1] - 192) * 256 + d[q + 2]
AfterLabel(d, q) == q + 1 + d[q + 1]
LabelAt(d, q) == Label(SubSeq(d, q + 2, AfterLabel(d, q)))

ZeroAt(q) == [said |-> TRUE, labels |-> <<>>, behind |-> q + 1, pointers |-> 0]
WithPointer(r, b) == [r EXCEPT !.behind = b, !.pointers = @ + 1]
WithLabel(l, r) == [r EXCEPT !.labels = <<l>> \o @]

LEMMA ReadingCases ==
  ASSUME NEW d \in Seq(Cell), NEW h, NEW q \in Nat
  PROVE  /\ AtZero(d, q) => ReadingAt(d, h, q) = ZeroAt(q)
         /\ AtJump(d, q) =>
              /\ Target(d, q) \in Nat /\ ~AtZero(d, q) /\ q < Len(d)
              /\ ReadingAt(d, h, q) = WithPointer(h[Target(d, q)], q + 2)
         /\ AtText(d, q) =>
              /\ AfterLabel(d, q) \in Nat /\ ~AtZero(d, q) /\ ~AtJump(d, q)
              /\ LabelAt(d, q) \in Labels
              /\ ReadingAt(d, h, q) = WithLabel(LabelAt(d, q), h[AfterLabel(d, q)])
         /\ AtZero(d, q) \/ AtJump(d, q) \/ AtText(d, q) \/ ReadingAt(d, h, q) = NoName
<1>1. Len(d) \in Nat
  OBVIOUS
<1>2. q < Len(d) => d[q + 1] \in Nat /\ d[q + 1] \in Cell
  <2> SUFFICES ASSUME q < Len(d) PROVE d[q + 1] \in Nat /\ d[q + 1] \in Cell
    OBVIOUS
  <2>1. q + 1 \in 1..Len(d)
    BY <1>1
  <2> QED
    BY <2>1, CellIsNumber, ElementOfSeq
<1>3. AtZero(d, q) => ReadingAt(d, h, q) = ZeroAt(q)
  BY DEF ReadingAt, AtZero, ZeroAt
<1>4. ASSUME AtJump(d, q)
      PROVE  /\ Target(d, q) \in Nat /\ ~AtZero(d, q) /\ q < Len(d)
             /\ ReadingAt(d, h, q) = WithPointer(h[Target(d, q)], q + 2)
  <2>1. q + 2 \in 1..Len(d) /\ q < Len(d)
    BY <1>1, <1>4 DEF AtJump
  <2>2. d[q + 2] \in Nat
    BY <2>1, CellIsNumber
  <2>3. Target(d, q) \in Nat
    BY <1>2, <1>4, <2>1, <2>2 DEF AtJump, Target
  <2>4. d[q + 1] # 0
    BY <1>4 DEF AtJump
  <2> QED
    BY <1>4, <2>1, <2>3, <2>4 DEF AtJump, AtZero, ReadingAt, Target, WithPointer
<1>5. ASSUME AtText(d, q)
      PROVE  /\ AfterLabel(d, q) \in Nat /\ ~AtZero(d, q) /\ ~AtJump(d, q)
             /\ LabelAt(d, q) \in Labels
             /\ ReadingAt(d, h, q) = WithLabel(LabelAt(d, q), h[AfterLabel(d, q)])
  <2>1. d[q + 1] \in 1..191 /\ q < Len(d) /\ AfterLabel(d, q) \in Nat /\ AfterLabel(d, q) <= Len(d)
    BY <1>2, <1>5 DEF AtText, AfterLabel
  <2>2. ~AtZero(d, q) /\ ~AtJump(d, q)
    <3>1. \A b \in 1..191 : b # 0 /\ ~(b >= 192)
      OBVIOUS
    <3> QED
      BY <2>1, <3>1 DEF AtZero, AtJump
  <2>3. ReadingAt(d, h, q) = WithLabel(LabelAt(d, q), h[AfterLabel(d, q)])
    BY <1>5, <2>2 DEF AtText, AtZero, AtJump, ReadingAt, AfterLabel, LabelAt, WithLabel
  <2>4. SubSeq(d, q + 2, AfterLabel(d, q)) \in Seq(Cell) \ {<<>>}
    <3> DEFINE z == AfterLabel(d, q)
    <3>1. \A i \in q + 2..z : d[i] \in Cell
      BY <1>1, <2>1, ElementOfSeq
    <3>2. q + 2 <= z /\ z \in Nat
      <4> DEFINE b == d[q + 1]
      <4>1. b \in 1..191 /\ z = q + 1 + b
        BY <2>1 DEF AfterLabel
      <4> HIDE DEF b, z
      <4> QED BY <4>1
    <3> HIDE DEF z
    <3>3. SubSeq(d, q + 2, z) \in Seq(Cell) /\ Len(SubSeq(d, q + 2, z)) = z - (q + 2) + 1
      BY <3>1, <3>2, SubSeqProperties
    <3>4. Len(SubSeq(d, q + 2, z)) # 0
      BY <3>2, <3>3
    <3>5. SubSeq(d, q + 2, z) # <<>>
      BY <3>4, EmptyIsSeq
    <3> QED
      BY <3>3, <3>5 DEF z
  <2> QED
    BY <2>1, <2>2, <2>3, <2>4 DEF LabelAt, Labels
<1>6. ~AtZero(d, q) /\ ~AtJump(d, q) /\ ~AtText(d, q) => ReadingAt(d, h, q) = NoName
  BY DEF AtZero, AtJump, AtText, ReadingAt
<1> QED
  BY <1>3, <1>4, <1>5, <1>6

LEMMA ReadingExcept ==
  ASSUME NEW r \in NameReading
  PROVE  /\ \A b \in Nat : WithPointer(r, b) \in NameReading
         /\ \A l \in Labels : WithLabel(l, r) \in NameReading
<1>1. ASSUME NEW b \in Nat PROVE WithPointer(r, b) \in NameReading
  <2>1. r.pointers + 1 \in Nat
    BY DEF NameReading
  <2> QED
    BY <2>1 DEF NameReading, WithPointer
<1>2. ASSUME NEW l \in Labels PROVE WithLabel(l, r) \in NameReading
  <2>1. <<l>> \in Seq(Labels) /\ r.labels \in Seq(Labels)
    BY DEF NameReading
  <2>2. <<l>> \o r.labels \in Seq(Labels)
    BY <2>1, ConcatProperties
  <2> DEFINE m == <<l>> \o r.labels
  <2>3. [r EXCEPT !.labels = m] \in NameReading
    <3>1. m \in Seq(Labels)
      BY <2>2
    <3> HIDE DEF m
    <3> QED BY <3>1 DEF NameReading
  <2> QED
    BY <2>3 DEF WithLabel
<1> QED
  BY <1>1, <1>2

LEMMA ReadingTyped ==
  ASSUME NEW d \in Seq(Cell), NEW h \in [Nat -> NameReading], NEW q \in Nat
  PROVE  ReadingAt(d, h, q) \in NameReading
<1>1. CASE AtZero(d, q)
  <2>1. ZeroAt(q) \in NameReading
    BY DEF NameReading, ZeroAt
  <2> QED
    BY <1>1, <2>1, ReadingCases
<1>2. CASE AtJump(d, q)
  <2>1. Target(d, q) \in Nat
    BY <1>2, ReadingCases
  <2>2. ReadingAt(d, h, q) = WithPointer(h[Target(d, q)], q + 2)
    BY <1>2, ReadingCases
  <2>3. h[Target(d, q)] \in NameReading /\ q + 2 \in Nat
    BY <2>1
  <2> QED
    BY <2>2, <2>3, ReadingExcept
<1>3. CASE AtText(d, q)
  <2>1. AfterLabel(d, q) \in Nat /\ LabelAt(d, q) \in Labels
    BY <1>3, ReadingCases
  <2>2. ReadingAt(d, h, q) = WithLabel(LabelAt(d, q), h[AfterLabel(d, q)])
    BY <1>3, ReadingCases
  <2>3. h[AfterLabel(d, q)] \in NameReading
    BY <2>1
  <2> QED
    BY <2>1, <2>2, <2>3, ReadingExcept
<1>4. NoName \in NameReading
  BY DEF NoName, NameReading
<1> QED
  BY <1>1, <1>2, <1>3, <1>4, ReadingCases

\* The names of one part more are read with the help of those of n.
LEMMA ReadingsUnfold ==
  ASSUME NEW d \in Seq(Cell)
  PROVE  /\ Readings(d) \in [Nat -> [Nat -> NameReading]]
         /\ \A q \in Nat : Readings(d)[0][q] = NoName
         /\ \A n, q \in Nat : Readings(d)[n + 1][q] = ReadingAt(d, Readings(d)[n], q)
<1> DEFINE V == [Nat -> NameReading]
           base == [q \in Nat |-> NoName]
           step == [h \in V |-> [q \in Nat |-> ReadingAt(d, h, q)]]
           Unfolds(f) == f = [n \in Nat |-> IF n = 0 THEN [q \in Nat |-> NoName]
                                            ELSE [q \in Nat |-> ReadingAt(d, f[n - 1], q)]]
           R == Readings(d)
<1>1. PICK f \in [Nat -> V] : f[0] = base /\ \A n \in Nat : f[n + 1] = step[f[n]]
  <2>1. base \in V
    BY DEF NoName, NameReading
  <2>2. step \in [V -> V]
    BY ReadingTyped
  <2> HIDE DEF V, base, step
  <2>3. Iterates(V, base, step)
    BY <2>1, <2>2, Iteration
  <2> QED
    BY <2>3 DEF Iterates
<1>2. \A n \in Nat : f[n + 1] = [q \in Nat |-> ReadingAt(d, f[n], q)]
  <2> SUFFICES ASSUME NEW n \in Nat PROVE step[f[n]] = [q \in Nat |-> ReadingAt(d, f[n], q)]
    BY <1>1
  <2>1. f[n] \in V
    BY <1>1
  <2> HIDE DEF V
  <2> QED
    BY <2>1
<1>3. Unfolds(f)
  <2> DEFINE g == [n \in Nat |-> IF n = 0 THEN [q \in Nat |-> NoName]
                                 ELSE [q \in Nat |-> ReadingAt(d, f[n - 1], q)]]
  <2>1. ASSUME NEW n \in Nat PROVE f[n] = g[n]
    <3>1. CASE n = 0
      BY <1>1, <3>1
    <3>2. CASE n # 0
      <4>1. n - 1 \in Nat /\ (n - 1) + 1 = n
        BY <3>2
      <4>2. f[n] = [q \in Nat |-> ReadingAt(d, f[n - 1], q)]
        BY <1>2, <4>1
      <4> QED
        BY <3>2, <4>2
    <3> QED
      BY <3>1, <3>2
  <2>2. f = [n \in Nat |-> f[n]] /\ g = [n \in Nat |-> g[n]]
    BY <1>1
  <2> HIDE DEF g
  <2>3. f = g
    BY <2>1, <2>2
  <2> QED
    BY <2>3 DEF g
<1>4. R = CHOOSE u : Unfolds(u)
  BY DEF Readings
<1>5. Unfolds(R)
  <2> HIDE DEF Unfolds, R
  <2> QED BY <1>3, <1>4
<1> HIDE DEF R
<1>6. R[0] = base /\ \A n \in Nat : R[n + 1] = [q \in Nat |-> ReadingAt(d, R[n], q)]
  <2>1. R[0] = base
    BY <1>5
  <2>2. ASSUME NEW n \in Nat PROVE R[n + 1] = [q \in Nat |-> ReadingAt(d, R[n], q)]
    <3>1. n + 1 \in Nat /\ n + 1 # 0 /\ (n + 1) - 1 = n
      OBVIOUS
    <3>2. R[n + 1] = [q \in Nat |-> ReadingAt(d, R[(n + 1) - 1], q)]
      BY <1>5, <3>1
    <3> QED
      BY <3>1, <3>2
  <2> QED
    BY <2>1, <2>2
<1>7. R \in [Nat -> V]
  <2>1. R = [n \in Nat |-> R[n]]
    BY <1>5
  <2> DEFINE S == {n \in Nat : R[n] \in V}
  <2>2. 0 \in S
    <3>1. base \in V
      BY DEF NoName, NameReading
    <3> HIDE DEF V, base
    <3> QED BY <1>6, <3>1
  <2>3. ASSUME NEW n \in Nat, n \in S PROVE n + 1 \in S
    <3>1. R[n] \in V
      BY <2>3
    <3>2. [q \in Nat |-> ReadingAt(d, R[n], q)] \in V
      BY <3>1, ReadingTyped
    <3> HIDE DEF V
    <3> QED
      BY <1>6, <3>2
  <2>4. Nat \subseteq S
    <3> HIDE DEF S
    <3> QED BY <2>2, <2>3, AllNaturals
  <2> HIDE DEF V
  <2> QED
    BY <2>1, <2>4
<1>8. \A q \in Nat : R[0][q] = NoName
  BY <1>6
<1>9. ASSUME NEW n \in Nat, NEW q \in Nat PROVE R[n + 1][q] = ReadingAt(d, R[n], q)
  <2>1. R[n + 1] = [p \in Nat |-> ReadingAt(d, R[n], p)]
    BY <1>6
  <2> HIDE DEF V, base, step
  <2> QED
    BY <2>1
<1> HIDE DEF V, base, step, Unfolds
<1>10. /\ R \in [Nat -> [Nat -> NameReading]]
       /\ \A n, q \in Nat : R[n + 1][q] = ReadingAt(d, R[n], q)
  BY <1>7, <1>9 DEF V
<1> QED
  BY <1>8, <1>10 DEF R

\* What is read at q by way of the names of n parts at most.
ReadBy(d, n, q) == Readings(d)[n][q]


LEMMA ReadByTyped ==
  ASSUME NEW d \in Seq(Cell), NEW n \in Nat, NEW q \in Nat
  PROVE  ReadBy(d, n, q) \in NameReading /\ ~ReadBy(d, 0, q).said
<1>1. ReadBy(d, n, q) \in NameReading
  BY ReadingsUnfold DEF ReadBy
<1>2. ~ReadBy(d, 0, q).said
  BY ReadingsUnfold DEF ReadBy, NoName
<1> QED
  BY <1>1, <1>2

LEMMA ReadByUnfold ==
  ASSUME NEW d \in Seq(Cell), NEW n \in Nat, NEW q \in Nat
  PROVE  ReadBy(d, n + 1, q) = ReadingAt(d, Readings(d)[n], q)
  BY ReadingsUnfold DEF ReadBy

LEMMA ReadAtZero ==
  ASSUME NEW d \in Seq(Cell), NEW n \in Nat, NEW q \in Nat, AtZero(d, q)
  PROVE  ReadBy(d, n + 1, q) = ZeroAt(q)
<1>1. ReadingAt(d, Readings(d)[n], q) = ZeroAt(q)
  BY DEF ReadingAt, AtZero, ZeroAt
<1> QED
  BY <1>1, ReadByUnfold

LEMMA ReadAtJump ==
  ASSUME NEW d \in Seq(Cell), NEW n \in Nat, NEW q \in Nat, AtJump(d, q)
  PROVE  /\ Target(d, q) \in Nat
         /\ ReadBy(d, n + 1, q) = WithPointer(ReadBy(d, n, Target(d, q)), q + 2)
<1> DEFINE h == Readings(d)[n]
<1>1. ReadBy(d, n + 1, q) = ReadingAt(d, h, q)
  BY ReadByUnfold
<1>2. h[Target(d, q)] = ReadBy(d, n, Target(d, q))
  BY DEF ReadBy
<1> HIDE DEF h
<1>3. Target(d, q) \in Nat /\ ReadingAt(d, h, q) = WithPointer(h[Target(d, q)], q + 2)
  BY ReadingCases
<1> QED
  BY <1>1, <1>2, <1>3 DEF WithPointer

LEMMA ReadAtText ==
  ASSUME NEW d \in Seq(Cell), NEW n \in Nat, NEW q \in Nat, AtText(d, q)
  PROVE  /\ AfterLabel(d, q) \in Nat
         /\ LabelAt(d, q) \in Labels
         /\ ReadBy(d, n + 1, q) = WithLabel(LabelAt(d, q), ReadBy(d, n, AfterLabel(d, q)))
<1> DEFINE h == Readings(d)[n]
<1>1. ReadBy(d, n + 1, q) = ReadingAt(d, h, q)
  BY ReadByUnfold
<1>2. h[AfterLabel(d, q)] = ReadBy(d, n, AfterLabel(d, q))
  BY DEF ReadBy
<1> HIDE DEF h
<1>3. /\ AfterLabel(d, q) \in Nat
      /\ LabelAt(d, q) \in Labels
      /\ ReadingAt(d, h, q) = WithLabel(LabelAt(d, q), h[AfterLabel(d, q)])
  BY ReadingCases DEF WithLabel
<1> QED
  BY <1>1, <1>2, <1>3

LEMMA ReadNothing ==
  ASSUME NEW d \in Seq(Cell), NEW n \in Nat, NEW q \in Nat,
         ~AtZero(d, q), ~AtJump(d, q), ~AtText(d, q)
  PROVE  ~ReadBy(d, n + 1, q).said
<1>1. ReadingAt(d, Readings(d)[n], q) = NoName
  BY DEF ReadingAt, AtZero, AtJump, AtText
<1> QED
  BY <1>1, ReadByUnfold DEF NoName

\* What is said at q hangs on what is said by the names of one part less.
LEMMA SaidBehind ==
  ASSUME NEW d \in Seq(Cell), NEW n \in Nat, NEW q \in Nat
  PROVE  /\ AtJump(d, q) => ReadBy(d, n + 1, q).said <=> ReadBy(d, n, Target(d, q)).said
         /\ AtText(d, q) => ReadBy(d, n + 1, q).said <=> ReadBy(d, n, AfterLabel(d, q)).said
         /\ AtZero(d, q) => ReadBy(d, n + 1, q).said
         /\ ReadBy(d, n + 1, q).said => /\ q < Len(d)
                                        /\ AtZero(d, q) \/ AtJump(d, q) \/ AtText(d, q)
<1>1. ASSUME NEW r \in NameReading, NEW b, NEW l
      PROVE  WithPointer(r, b).said = r.said /\ WithLabel(l, r).said = r.said
  BY DEF NameReading, WithPointer, WithLabel
<1>2. ASSUME AtJump(d, q) PROVE ReadBy(d, n + 1, q).said = ReadBy(d, n, Target(d, q)).said
  <2>1. ReadBy(d, n, Target(d, q)) \in NameReading
    BY <1>2, ReadAtJump, ReadByTyped
  <2> QED
    BY <1>1, <1>2, <2>1, ReadAtJump
<1>3. ASSUME AtText(d, q) PROVE ReadBy(d, n + 1, q).said = ReadBy(d, n, AfterLabel(d, q)).said
  <2>1. ReadBy(d, n, AfterLabel(d, q)) \in NameReading
    BY <1>3, ReadAtText, ReadByTyped
  <2>2. ReadBy(d, n + 1, q) = WithLabel(LabelAt(d, q), ReadBy(d, n, AfterLabel(d, q)))
    BY <1>3, ReadAtText
  <2>3. WithLabel(LabelAt(d, q), ReadBy(d, n, AfterLabel(d, q))).said
          = ReadBy(d, n, AfterLabel(d, q)).said
    BY <1>1, <2>1
  <2> QED
    BY <2>2, <2>3
<1>4. ASSUME AtZero(d, q) PROVE ReadBy(d, n + 1, q).said
  <2>1. ReadBy(d, n + 1, q) = ZeroAt(q)
    BY <1>4, ReadAtZero
  <2> QED
    BY <2>1 DEF ZeroAt
<1>5. ReadBy(d, n + 1, q).said => AtZero(d, q) \/ AtJump(d, q) \/ AtText(d, q)
  BY ReadNothing
<1>6. AtZero(d, q) \/ AtJump(d, q) \/ AtText(d, q) => q < Len(d)
  BY DEF AtZero, AtJump, AtText
<1> QED
  BY <1>2, <1>3, <1>4, <1>5, <1>6

\* What one allowance of parts does for every name, one part more does for a
\* name that is one part longer.
SaidToo(d, n, m) == \A t \in Nat : ReadBy(d, n, t).said => ReadBy(d, m, t).said
SaidSame(d, n, m) ==
  \A t \in Nat : ReadBy(d, n, t).said => ReadBy(d, m, t) = ReadBy(d, n, t)

LEMMA OnePartMore ==
  ASSUME NEW d \in Seq(Cell), NEW n \in Nat, NEW m \in Nat
  PROVE  /\ SaidToo(d, n, m) => SaidToo(d, n + 1, m + 1)
         /\ SaidSame(d, n, m) => SaidSame(d, n + 1, m + 1)
<1>1. ASSUME \A t \in Nat : ReadBy(d, n, t).said => ReadBy(d, m, t).said,
             NEW q \in Nat, ReadBy(d, n + 1, q).said
      PROVE  ReadBy(d, m + 1, q).said
  <2>1. ReadBy(d, n + 1, q).said
    BY <1>1
  <2>2. CASE AtZero(d, q)
    BY <2>2, SaidBehind
  <2>3. CASE AtJump(d, q)
    <3>1. Target(d, q) \in Nat
      BY <2>3, ReadAtJump
    <3>2. ReadBy(d, n, Target(d, q)).said
      BY <2>1, <2>3, SaidBehind
    <3>3. ReadBy(d, m, Target(d, q)).said
      BY <1>1, <3>1, <3>2
    <3> QED
      BY <2>3, <3>3, SaidBehind
  <2>4. CASE AtText(d, q)
    <3>1. AfterLabel(d, q) \in Nat
      BY <2>4, ReadAtText
    <3>2. ReadBy(d, n, AfterLabel(d, q)).said
      BY <2>1, <2>4, SaidBehind
    <3>3. ReadBy(d, m, AfterLabel(d, q)).said
      BY <1>1, <3>1, <3>2
    <3> QED
      BY <2>4, <3>3, SaidBehind
  <2> QED
    BY <2>1, <2>2, <2>3, <2>4, SaidBehind
<1>2. ASSUME \A t \in Nat : ReadBy(d, n, t).said => ReadBy(d, m, t) = ReadBy(d, n, t),
             NEW q \in Nat, ReadBy(d, n + 1, q).said
      PROVE  ReadBy(d, m + 1, q) = ReadBy(d, n + 1, q)
  <2>1. CASE AtZero(d, q)
    BY <2>1, ReadAtZero
  <2>2. CASE AtJump(d, q)
    <3>1. Target(d, q) \in Nat
      BY <2>2, ReadAtJump
    <3>2. ReadBy(d, n, Target(d, q)).said
      BY <1>2, <2>2, SaidBehind
    <3>3. ReadBy(d, m, Target(d, q)) = ReadBy(d, n, Target(d, q))
      BY <1>2, <3>1, <3>2
    <3>4. /\ ReadBy(d, n + 1, q) = WithPointer(ReadBy(d, n, Target(d, q)), q + 2)
          /\ ReadBy(d, m + 1, q) = WithPointer(ReadBy(d, m, Target(d, q)), q + 2)
      BY <2>2, ReadAtJump
    <3> QED
      BY <3>3, <3>4
  <2>3. CASE AtText(d, q)
    <3>1. AfterLabel(d, q) \in Nat
      BY <2>3, ReadAtText
    <3>2. ReadBy(d, n, AfterLabel(d, q)).said
      BY <1>2, <2>3, SaidBehind
    <3>3. ReadBy(d, m, AfterLabel(d, q)) = ReadBy(d, n, AfterLabel(d, q))
      BY <1>2, <3>1, <3>2
    <3>4. /\ ReadBy(d, n + 1, q) = WithLabel(LabelAt(d, q), ReadBy(d, n, AfterLabel(d, q)))
          /\ ReadBy(d, m + 1, q) = WithLabel(LabelAt(d, q), ReadBy(d, m, AfterLabel(d, q)))
      BY <2>3, ReadAtText
    <3> QED
      BY <3>3, <3>4
  <2> QED
    BY <1>2, <2>1, <2>2, <2>3, SaidBehind
<1> QED
  BY <1>1, <1>2 DEF SaidToo, SaidSame

\* A name that is read stays read, whatever else may be.
LEMMA SaidStays ==
  ASSUME NEW d \in Seq(Cell), NEW n \in Nat, NEW k \in Nat, n <= k, NEW q \in Nat,
         ReadBy(d, n, q).said
  PROVE  ReadBy(d, k, q) = ReadBy(d, n, q)
<1> DEFINE Ones == {i \in Nat : SaidSame(d, i, i + 1)}
<1>1. 0 \in Ones
  BY ReadByTyped DEF SaidSame
<1>2. ASSUME NEW i \in Nat, i \in Ones PROVE i + 1 \in Ones
  BY <1>2, OnePartMore
<1>3. ASSUME NEW i \in Nat PROVE SaidSame(d, i, i + 1)
  <2>1. Nat \subseteq Ones
    <3> HIDE DEF Ones
    <3> QED BY <1>1, <1>2, AllNaturals
  <2> QED
    BY <2>1
<1> DEFINE Same == {i \in Nat : ReadBy(d, n + i, q) = ReadBy(d, n, q)}
<1>4. 0 \in Same
  OBVIOUS
<1>5. ASSUME NEW i \in Nat, i \in Same PROVE i + 1 \in Same
  <2>1. n + i \in Nat /\ (n + i) + 1 = n + (i + 1)
    OBVIOUS
  <2>2. ReadBy(d, n + i, q) = ReadBy(d, n, q)
    BY <1>5
  <2>3. ReadBy(d, (n + i) + 1, q) = ReadBy(d, n + i, q)
    BY <1>3, <2>1, <2>2 DEF SaidSame
  <2> QED
    BY <2>1, <2>2, <2>3
<1>6. k - n \in Nat /\ n + (k - n) = k
  OBVIOUS
<1>7. k - n \in Same
  <2> HIDE DEF Same
  <2> QED BY <1>4, <1>5, <1>6, AllNaturals
<1> QED
  BY <1>6, <1>7

\* The positions at which something is said in n parts at most: each is one of
\* the message, so there are no more of them than it has cells.
Heard(d, n) == {q \in Nat : ReadBy(d, n, q).said}

LEMMA HeardFinite ==
  ASSUME NEW d \in Seq(Cell), NEW n \in Nat
  PROVE  /\ Heard(d, n) \subseteq 0..Len(d) - 1
         /\ IsFiniteSet(Heard(d, n)) /\ Cardinality(Heard(d, n)) \in Nat
<1>1. Len(d) \in Nat
  OBVIOUS
<1>2. ASSUME NEW q \in Nat, ReadBy(d, n, q).said PROVE q \in 0..Len(d) - 1
  <2>1. n # 0
    BY <1>2, ReadByTyped
  <2>2. n - 1 \in Nat /\ (n - 1) + 1 = n
    BY <2>1
  <2>3. ReadBy(d, (n - 1) + 1, q).said
    BY <1>2, <2>2
  <2>4. q < Len(d)
    BY <2>2, <2>3, SaidBehind
  <2> QED
    BY <1>1, <2>4
<1>3. Heard(d, n) \subseteq 0..Len(d) - 1
  BY <1>2 DEF Heard
<1>4. IsFiniteSet(0..Len(d) - 1)
  <2>1. 0 \in Int /\ Len(d) - 1 \in Int
    BY <1>1
  <2> QED
    BY <2>1, FS_Interval
<1>5. IsFiniteSet(Heard(d, n))
  BY <1>3, <1>4, FS_Subset
<1> QED
  BY <1>3, <1>5, FS_CardinalityType

LEMMA HeardGrows ==
  ASSUME NEW d \in Seq(Cell), NEW n \in Nat, NEW m \in Nat
  PROVE  /\ n <= m => Heard(d, n) \subseteq Heard(d, m)
         /\ Heard(d, n) = Heard(d, m) => Heard(d, n + 1) = Heard(d, m + 1)
<1>1. ASSUME n <= m, NEW q \in Heard(d, n) PROVE q \in Heard(d, m)
  <2>1. q \in Nat /\ ReadBy(d, n, q).said
    BY DEF Heard
  <2>2. ReadBy(d, m, q) = ReadBy(d, n, q)
    BY <1>1, <2>1, SaidStays
  <2> QED
    BY <2>1, <2>2 DEF Heard
<1>2. ASSUME Heard(d, n) = Heard(d, m) PROVE Heard(d, n + 1) = Heard(d, m + 1)
  <2>1. SaidToo(d, n, m) /\ SaidToo(d, m, n)
    BY <1>2 DEF SaidToo, Heard
  <2>2. SaidToo(d, n + 1, m + 1) /\ SaidToo(d, m + 1, n + 1)
    BY <2>1, OnePartMore
  <2> QED
    BY <2>2 DEF SaidToo, Heard
<1> QED
  BY <1>1, <1>2

\* With every part more something new is said, until nothing new ever is.
LEMMA HeardOrDone ==
  ASSUME NEW d \in Seq(Cell), NEW n \in Nat
  PROVE  Heard(d, n) = Heard(d, n + 1) \/ Cardinality(Heard(d, n)) >= n
<1> DEFINE Good == {i \in Nat : \/ Heard(d, i) = Heard(d, i + 1)
                                \/ Cardinality(Heard(d, i)) >= i}
<1>1. 0 \in Good
  BY HeardFinite
<1>2. ASSUME NEW i \in Nat, i \in Good PROVE i + 1 \in Good
  <2>1. CASE Heard(d, i) = Heard(d, i + 1)
    BY <2>1, HeardGrows
  <2>2. CASE Heard(d, i) # Heard(d, i + 1)
    <3> DEFINE A == Heard(d, i)
               B == Heard(d, i + 1)
    <3>1. A \subseteq B
      BY HeardGrows
    <3>2. IsFiniteSet(B) /\ Cardinality(A) \in Nat /\ Cardinality(B) \in Nat
      <4>1. i + 1 \in Nat
        OBVIOUS
      <4> QED BY <4>1, HeardFinite
    <3>3. Cardinality(A) >= i
      BY <1>2, <2>2
    <3>4. Cardinality(A) <= Cardinality(B) /\ Cardinality(A) # Cardinality(B)
      BY <2>2, <3>1, <3>2, FS_Subset
    <3>5. Cardinality(B) >= i + 1
      <4> HIDE DEF A, B
      <4> QED BY <3>2, <3>3, <3>4
    <3> QED
      BY <3>5
  <2> QED
    BY <2>1, <2>2
<1>3. n \in Good
  <2> HIDE DEF Good
  <2> QED BY <1>1, <1>2, AllNaturals
<1> QED
  BY <1>3

\* So as many parts as the message has cells are enough for any name.
LEMMA HeardByThen ==
  ASSUME NEW d \in Seq(Cell), NEW k \in Nat
  PROVE  Heard(d, k) \subseteq Heard(d, Len(d))
<1> DEFINE l == Len(d)
<1>1. l \in Nat
  OBVIOUS
<1>2. Heard(d, l) = Heard(d, l + 1)
  <2>1. CASE Cardinality(Heard(d, l)) >= l
    <3>1. IsFiniteSet(0..l - 1) /\ Cardinality(0..l - 1) = l
      <4>1. 0 \in Int /\ l - 1 \in Int
        BY <1>1
      <4> HIDE DEF l
      <4> QED BY <1>1, <4>1, FS_Interval
    <3>2. Heard(d, l) \subseteq 0..l - 1 /\ Heard(d, l + 1) \subseteq 0..l - 1
      BY <1>1, HeardFinite
    <3>3. Cardinality(Heard(d, l)) \in Nat
      BY <1>1, HeardFinite
    <3>4. Cardinality(Heard(d, l)) <= Cardinality(0..l - 1)
      BY <3>1, <3>2, FS_Subset
    <3>5. Cardinality(Heard(d, l)) = Cardinality(0..l - 1)
      <4> HIDE DEF l
      <4> QED BY <1>1, <2>1, <3>1, <3>3, <3>4
    <3>6. Heard(d, l) = 0..l - 1
      BY <3>1, <3>2, <3>5, FS_Subset
    <3>7. Heard(d, l) \subseteq Heard(d, l + 1)
      <4>1. l + 1 \in Nat /\ l <= l + 1
        BY <1>1
      <4> QED BY <1>1, <4>1, HeardGrows
    <3> QED
      BY <3>2, <3>6, <3>7
  <2> QED
    BY <1>1, <2>1, HeardOrDone
<1> DEFINE Same == {i \in Nat : Heard(d, l + i) = Heard(d, l)}
<1> HIDE DEF l
<1>3. 0 \in Same
  BY <1>1
<1>4. ASSUME NEW i \in Nat, i \in Same PROVE i + 1 \in Same
  <2>1. l + i \in Nat /\ (l + i) + 1 = l + (i + 1)
    BY <1>1
  <2>2. Heard(d, l + i) = Heard(d, l)
    BY <1>4
  <2>3. Heard(d, (l + i) + 1) = Heard(d, l + 1)
    BY <1>1, <2>1, <2>2, HeardGrows
  <2> QED
    BY <1>2, <2>1, <2>3
<1>5. Nat \subseteq Same
  <2> HIDE DEF Same
  <2> QED BY <1>3, <1>4, AllNaturals
<1>6. CASE k <= l
  BY <1>1, <1>6, HeardGrows DEF l
<1>7. CASE k > l
  <2>1. k - l \in Nat /\ l + (k - l) = k
    BY <1>1, <1>7
  <2>2. k - l \in Same
    BY <1>5, <2>1
  <2> QED
    BY <2>1, <2>2 DEF l
<1> QED
  BY <1>1, <1>6, <1>7

\* What a name says with any number of parts is what it says with so many.
LEMMA AllIsRead ==
  ASSUME NEW d \in Seq(Cell), NEW n \in Nat, NEW p \in Nat, ReadBy(d, n, p).said
  PROVE  ReadBy(d, Len(d), p) = ReadBy(d, n, p)
<1> DEFINE l == Len(d)
<1>1. l \in Nat
  OBVIOUS
<1> HIDE DEF l
<1>2. CASE n <= l
  BY <1>1, <1>2, SaidStays DEF l
<1>3. CASE l <= n
  <2>1. p \in Heard(d, n)
    BY DEF Heard
  <2>2. ReadBy(d, l, p).said
    BY <2>1, HeardByThen DEF Heard, l
  <2>3. ReadBy(d, n, p) = ReadBy(d, l, p)
    BY <1>1, <1>3, <2>2, SaidStays
  <2> QED
    BY <2>3 DEF l
<1> QED
  BY <1>1, <1>2, <1>3

\* Whatever a name says with any number of parts is its meaning.
LEMMA MeaningIsRead ==
  ASSUME data \in Seq(Cell), NEW n \in Nat, NEW p \in Nat, ReadBy(data, n, p).said
  PROVE  Meaning(p) = ReadBy(data, n, p)
BY AllIsRead DEF Meaning, ReadBy

LEMMA LastAppended ==
  ASSUME NEW s, IsSeq(s), NEW e
  PROVE  Append(s, e)[Len(Append(s, e))] = e
<1>1. \E S : s \in Seq(S)
  BY DEF IsSeq
<1>2. ASSUME NEW S, s \in Seq(S) PROVE Append(s, e)[Len(Append(s, e))] = e
  <2> DEFINE R == S \cup {e}
  <2>1. s \in Seq(R) /\ e \in R
    <3>1. Len(s) \in Nat /\ DOMAIN s = 1..Len(s) /\ s \in [1..Len(s) -> S]
      BY <1>2, LenProperties
    <3>2. s \in [1..Len(s) -> R]
      BY <3>1
    <3> QED
      BY <3>1, <3>2
  <2> HIDE DEF R
  <2> QED
    BY <2>1, AppendProperties
<1> QED
  BY <1>1, <1>2

-----------------------------------------------------------------------------
(***************************************************************************)
(* While a name is read: what it says is the labels read so far, and then   *)
(* what the name at the current position says, however many parts that has  *)
(* (ReadSoFar), so that it says something if and only if the rest does; the *)
(* offset is already the final one once a pointer has been followed.        *)
(***************************************************************************)
GoesOn(n, k) ==
  LET rest == ReadBy(data, k, current)
      whole == ReadBy(data, k + n, from)
  IN  /\ whole.said = rest.said
      /\ rest.said =>
           /\ whole.labels = parts \o rest.labels
           /\ whole.behind = IF jumped THEN offset ELSE rest.behind
           /\ whole.pointers = jumps + rest.pointers

ReadSoFar ==
  pc = "name" =>
    /\ parts \in Seq(Labels)
    /\ \E n \in Nat : \A k \in Nat : GoesOn(n, k)

NInv == IInv /\ ReadSoFar /\ NamesMeanWhatTheySay

\* Where no name is read, nor one has just been, there is nothing to show.
LEMMA NoNameHere ==
  pc' \notin {"name", "fixed", "rdata"} => ReadSoFar' /\ NamesMeanWhatTheySay'
BY DEF ReadSoFar, NamesMeanWhatTheySay

\* A name begins: none of it has been read.
LEMMA StartNameRead ==
  ASSUME IInv, StartName, data' = data
  PROVE  ReadSoFar' /\ NamesMeanWhatTheySay'
<1>1. /\ pc' = "name" /\ from' = offset /\ current' = offset
      /\ jumped' = FALSE /\ jumps' = 0 /\ parts' = <<>>
      /\ offset \in Nat /\ data \in Seq(Cell)
  BY DEF StartName, IInv, TypeOK
<1>2. ASSUME NEW k \in Nat PROVE GoesOn(0, k)'
  <2> DEFINE r == ReadBy(data, k, offset)
  <2>1. r \in NameReading
    BY <1>1, ReadByTyped
  <2>2. r.labels \in Seq(Labels) /\ 0 + r.pointers = r.pointers
    <3> HIDE DEF r
    <3> QED BY <2>1 DEF NameReading
  <2> HIDE DEF r
  <2>3. <<>> \o r.labels = r.labels
    BY <2>2, ConcatEmptySeq
  <2>4. k + 0 = k
    OBVIOUS
  <2>5. ReadBy(data, k, current)' = r /\ ReadBy(data, k + 0, from)' = r
    BY <1>1, <2>4 DEF r
  <2>6. parts' \o r.labels = r.labels /\ jumps' + r.pointers = r.pointers /\ ~jumped'
    BY <1>1, <2>2, <2>3
  <2> QED
    BY <2>5, <2>6 DEF GoesOn
<1>3. <<>> \in Seq(Labels)
  OBVIOUS
<1>4. \E n \in Nat : \A k \in Nat : GoesOn(n, k)'
  BY <1>2
<1>5. ReadSoFar'
  BY <1>1, <1>3, <1>4 DEF ReadSoFar
<1> QED
  BY <1>1, <1>5 DEF NamesMeanWhatTheySay

\* How the step of DnsName::parse relates to what is read at its position.
LEMMA PartAtCurrent ==
  ASSUME IInv, AtLength
  PROVE  /\ data \in Seq(Cell) /\ current \in Nat /\ from \in Nat
         /\ LengthByte = 0 => AtZero(data, current)
         /\ AtPointer => AtJump(data, current) /\ Pointer = Target(data, current)
         /\ AtLabel /\ current + 1 + LengthByte <= Len(data) => AtText(data, current)
<1>1. data \in Seq(Cell) /\ current \in Nat /\ from \in Nat /\ current < Len(data)
  BY DEF AtLength, IInv, TypeOK
<1>2. data[current + 1] \in 0..255
  BY <1>1, ByteInside DEF Cell
<1>3. LengthByte = 0 => AtZero(data, current)
  BY <1>1 DEF LengthByte, AtZero
<1>4. ASSUME AtPointer PROVE AtJump(data, current) /\ Pointer = Target(data, current)
  <2>1. data[current + 1] >= 192 /\ current + 1 < Len(data)
    BY <1>4 DEF AtPointer, IsPointer, LengthByte
  <2>2. \A b \in 0..255 : b >= 192 => b % 64 = b - 192
    BY SMT
  <2>3. LengthByte % 64 = data[current + 1] - 192
    BY <1>2, <2>1, <2>2 DEF LengthByte
  <2> QED
    BY <2>1, <2>3 DEF AtJump, Pointer, Target
<1>5. ASSUME AtLabel, current + 1 + LengthByte <= Len(data) PROVE AtText(data, current)
  <2>1. data[current + 1] # 0 /\ ~(data[current + 1] >= 192)
    BY <1>5 DEF AtLabel, IsPointer, LengthByte
  <2>2. \A b \in 0..255 : b # 0 /\ ~(b >= 192) => b \in 1..191
    OBVIOUS
  <2>3. data[current + 1] \in 1..191
    BY <1>2, <2>1, <2>2
  <2>4. current + 1 + data[current + 1] <= Len(data)
    BY <1>5 DEF LengthByte
  <2> QED
    BY <1>1, <2>3, <2>4 DEF AtText
<1> QED
  BY <1>1, <1>3, <1>4, <1>5

LEMMA AppendConcat ==
  ASSUME NEW s \in Seq(Labels), NEW e \in Labels, NEW t \in Seq(Labels)
  PROVE  Append(s, e) \in Seq(Labels) /\ s \o (<<e>> \o t) = Append(s, e) \o t
<1>1. <<e>> \in Seq(Labels) /\ Len(<<e>>) = 1 /\ <<e>>[1] = e
  OBVIOUS
<1>2. Append(s, e) = s \o <<e>>
  BY AppendIsConcat
<1>3. s \o (<<e>> \o t) = (s \o <<e>>) \o t
  BY <1>1, ConcatAssociative
<1> QED
  BY <1>2, <1>3

LEMMA ReadLabelRead ==
  ASSUME IInv, ReadSoFar, ReadLabel
  PROVE  ReadSoFar'
<1>1. /\ AtLength /\ AtLabel /\ pc = "name" /\ pc' = "name"
      /\ current + 1 + LengthByte <= Len(data)
      /\ current' = current + 1 + LengthByte
      /\ parts' = Append(parts, Label(Slice(current + 1, current + 1 + LengthByte)))
      /\ data' = data /\ offset' = offset /\ from' = from
      /\ jumped' = jumped /\ jumps' = jumps
  BY DEF ReadLabel, AtLabel, AtLength, inputVars
<1>2. AtText(data, current) /\ data \in Seq(Cell) /\ current \in Nat /\ from \in Nat
  BY <1>1, PartAtCurrent
<1> DEFINE l == LabelAt(data, current)
<1>3. AfterLabel(data, current) \in Nat /\ l \in Labels
  BY <1>2, ReadAtText
<1>4. current' = AfterLabel(data, current)
  BY <1>1 DEF AfterLabel, LengthByte
<1>5. parts' = Append(parts, l)
  <2>1. Slice(current + 1, current + 1 + LengthByte)
          = SubSeq(data, current + 2, AfterLabel(data, current))
    <3>1. (current + 1) + 1 = current + 2
      BY <1>2
    <3> QED
      BY <3>1 DEF Slice, AfterLabel, LengthByte
  <2> QED
    BY <1>1, <2>1 DEF LabelAt
<1>6. PICK n \in Nat : \A k \in Nat : GoesOn(n, k)
  BY <1>1 DEF ReadSoFar
<1>7. parts \in Seq(Labels)
  BY <1>1 DEF ReadSoFar
<1> HIDE DEF l
<1>8. ASSUME NEW k \in Nat PROVE GoesOn(n + 1, k)'
  <2> DEFINE r == ReadBy(data, k, AfterLabel(data, current))
             w == ReadBy(data, k + (n + 1), from)
  <2>1. r \in NameReading
    BY <1>2, <1>3, ReadByTyped
  <2>2. ReadBy(data, k + 1, current) = WithLabel(l, r)
    BY <1>2, ReadAtText DEF l
  <2>3. /\ ReadBy(data, k + 1, current).said = r.said
        /\ ReadBy(data, k + 1, current).behind = r.behind
        /\ ReadBy(data, k + 1, current).pointers = r.pointers
        /\ ReadBy(data, k + 1, current).labels = <<l>> \o r.labels
        /\ r.labels \in Seq(Labels)
    <3> HIDE DEF r
    <3> QED BY <2>1, <2>2 DEF WithLabel, NameReading
  <2>4. GoesOn(n, k + 1) /\ (k + 1) + n = k + (n + 1)
    BY <1>6
  <2>5. ReadBy(data, (k + 1) + n, from) = w
    BY <2>4
  <2> HIDE DEF r, w
  <2>6. /\ w.said = r.said
        /\ r.said => /\ w.labels = parts \o (<<l>> \o r.labels)
                     /\ w.behind = IF jumped THEN offset ELSE r.behind
                     /\ w.pointers = jumps + r.pointers
    BY <2>3, <2>4, <2>5 DEF GoesOn
  <2>7. parts \o (<<l>> \o r.labels) = Append(parts, l) \o r.labels
    <3>1. ASSUME NEW t \in Seq(Labels)
          PROVE  parts \o (<<l>> \o t) = Append(parts, l) \o t
      <4>1. parts \in Seq(Labels) /\ l \in Labels
        BY <1>3, <1>7
      <4> HIDE DEF l
      <4> QED BY <4>1, AppendConcat
    <3>2. r.labels \in Seq(Labels)
      BY <2>3
    <3> QED
      BY <3>1, <3>2
  <2>8. ReadBy(data, k, current)' = r /\ ReadBy(data, k + (n + 1), from)' = w
    BY <1>1, <1>4 DEF r, w
  <2> QED
    BY <1>1, <1>5, <2>6, <2>7, <2>8 DEF GoesOn
<1>9. parts' \in Seq(Labels)
  BY <1>3, <1>5, <1>7, AppendConcat
<1>10. n + 1 \in Nat
  OBVIOUS
<1> QED
  BY <1>8, <1>9, <1>10 DEF ReadSoFar

LEMMA FollowPointerRead ==
  ASSUME IInv, ReadSoFar, FollowPointer
  PROVE  ReadSoFar'
<1>1. /\ AtLength /\ AtPointer /\ pc = "name" /\ pc' = "name"
      /\ current' = Pointer /\ jumped' = TRUE /\ offset' = AfterPointer
      /\ jumps' = jumps + 1 /\ jumps \in Int
      /\ parts' = parts /\ data' = data /\ from' = from
  BY DEF FollowPointer, AtPointer, AtLength, inputVars, IInv, TypeOK
<1>2. /\ AtJump(data, current) /\ Pointer = Target(data, current)
      /\ data \in Seq(Cell) /\ current \in Nat /\ from \in Nat
  BY <1>1, PartAtCurrent
<1>3. Target(data, current) \in Nat
  BY <1>2, ReadAtJump
<1>4. PICK n \in Nat : \A k \in Nat : GoesOn(n, k)
  BY <1>1 DEF ReadSoFar
<1>5. ASSUME NEW k \in Nat PROVE GoesOn(n + 1, k)'
  <2> DEFINE r == ReadBy(data, k, Target(data, current))
             w == ReadBy(data, k + (n + 1), from)
  <2>1. r \in NameReading
    BY <1>2, <1>3, ReadByTyped
  <2>2. ReadBy(data, k + 1, current) = WithPointer(r, current + 2)
    BY <1>2, ReadAtJump
  <2>3. /\ ReadBy(data, k + 1, current).said = r.said
        /\ ReadBy(data, k + 1, current).behind = current + 2
        /\ ReadBy(data, k + 1, current).pointers = r.pointers + 1
        /\ ReadBy(data, k + 1, current).labels = r.labels
        /\ r.pointers \in Nat
    <3> HIDE DEF r
    <3> QED BY <2>1, <2>2 DEF WithPointer, NameReading
  <2>4. GoesOn(n, k + 1) /\ (k + 1) + n = k + (n + 1)
    BY <1>4
  <2>5. ReadBy(data, (k + 1) + n, from) = w
    BY <2>4
  <2> HIDE DEF r, w
  <2>6. /\ w.said = r.said
        /\ r.said => /\ w.labels = parts \o r.labels
                     /\ w.behind = AfterPointer
                     /\ w.pointers = (jumps + 1) + r.pointers
    <3>1. jumps + (r.pointers + 1) = (jumps + 1) + r.pointers
      BY <1>1, <2>3
    <3> QED
      BY <2>3, <2>4, <2>5, <3>1 DEF GoesOn, AfterPointer
  <2>7. ReadBy(data, k, current)' = r /\ ReadBy(data, k + (n + 1), from)' = w
    BY <1>1, <1>2 DEF r, w
  <2> QED
    BY <1>1, <2>6, <2>7 DEF GoesOn
<1>6. parts' \in Seq(Labels)
  BY <1>1 DEF ReadSoFar
<1>7. n + 1 \in Nat
  OBVIOUS
<1> QED
  BY <1>5, <1>6, <1>7 DEF ReadSoFar

\* The zero: all has been read that the name says.
LEMMA NameEndRead ==
  ASSUME IInv, ReadSoFar, NameEnd
  PROVE  ReadSoFar' /\ NamesMeanWhatTheySay'
<1>1. /\ AtLength /\ LengthByte = 0 /\ pc = "name"
      /\ offset' = IF jumped THEN offset ELSE current + 1
      /\ names' = Append(names, parts) /\ data' = data /\ from' = from
      /\ pc' \in {"fixed", "rdata"}
  BY DEF NameEnd, AtLength, inputVars, nameVars
<1>2. AtZero(data, current) /\ data \in Seq(Cell) /\ current \in Nat /\ from \in Nat
  BY <1>1, PartAtCurrent
<1>3. PICK n \in Nat : \A k \in Nat : GoesOn(n, k)
  BY <1>1 DEF ReadSoFar
<1> DEFINE w == ReadBy(data, 1 + n, from)
<1>4. ReadBy(data, 1, current) = ZeroAt(current)
  <2>1. 0 \in Nat /\ 0 + 1 = 1
    OBVIOUS
  <2>2. ReadBy(data, 0 + 1, current) = ZeroAt(current)
    BY <1>2, <2>1, ReadAtZero
  <2> QED
    BY <2>1, <2>2
<1>5. parts \in Seq(Labels) /\ parts \o <<>> = parts
  BY <1>1, ConcatEmptySeq DEF ReadSoFar
<1>6. w.said /\ w.labels = parts /\ w.behind = offset'
  <2> DEFINE r == ReadBy(data, 1, current)
  <2>1. GoesOn(n, 1)
    BY <1>3
  <2>2. r.said /\ r.labels = <<>> /\ r.behind = current + 1
    BY <1>4 DEF ZeroAt
  <2>3. /\ w.said
        /\ w.labels = parts \o r.labels
        /\ w.behind = IF jumped THEN offset ELSE r.behind
    BY <2>1, <2>2 DEF GoesOn
  <2> HIDE DEF r, w
  <2> QED
    BY <1>1, <1>5, <2>2, <2>3
<1>7. Meaning(from) = w
  BY <1>2, <1>6, MeaningIsRead
<1>8. Meaning(from)' = w
  BY <1>1, <1>7 DEF Meaning
<1> HIDE DEF w
<1>9. names'[Len(names')] = parts
  <2>1. IsSeq(names)
    BY DEF IInv, NamesCounted
  <2> QED
    BY <1>1, <2>1, LastAppended
<1> QED
  BY <1>1, <1>6, <1>8, <1>9 DEF ReadSoFar, NamesMeanWhatTheySay

\* Behind a name the offset and the name are left alone; a record that begins
\* to be read has no name in its data yet.
LEMMA FixedRead ==
  ASSUME IInv, ParseFixed
  PROVE  ReadSoFar' /\ NamesMeanWhatTheySay'
<1>1. CASE pc' = "rdata"
  <2>1. names' = names
    BY <1>1 DEF ParseFixed, Reading, Fail, Panic, inputVars, messageVars, itemVars, IInv,
                TypeOK
  <2>2. Len(names') = 1
    BY <2>1 DEF ParseFixed, IInv, NamesCounted
  <2> QED
    BY <1>1, <2>2 DEF ReadSoFar, NamesMeanWhatTheySay
<1>2. CASE pc' # "rdata"
  <2>1. pc' \in {"failed", "item", "panicked"}
    BY <1>2 DEF ParseFixed, Reading, Fail, Panic
  <2> QED
    BY <2>1, NoNameHere
<1> QED
  BY <1>1, <1>2

LEMMA NextRead ==
  ASSUME NInv, Next
  PROVE  ReadSoFar' /\ NamesMeanWhatTheySay'
<1>1. IInv /\ ReadSoFar
  BY DEF NInv
<1>2. CASE HeaderShort \/ ParseHeader \/ NextSection \/ Finish
  <2>1. pc' \in {"failed", "item", "done"}
    BY <1>2 DEF HeaderShort, ParseHeader, NextSection, Finish
  <2> QED
    BY <2>1, NoNameHere
<1>3. CASE NextItem
  BY <1>1, <1>3, StartNameRead DEF NextItem, inputVars
<1>4. CASE NameShort \/ BadPointer \/ PointerLoop
  <2>1. pc' \in {"failed", "item"}
    BY <1>4 DEF NameShort, BadPointer, PointerLoop, Fail
  <2> QED
    BY <2>1, NoNameHere
<1>5. CASE NameEnd
  BY <1>1, <1>5, NameEndRead
<1>6. CASE FollowPointer
  <2>1. pc' = "name"
    BY <1>6 DEF FollowPointer, AtPointer, AtLength
  <2> QED
    BY <1>1, <1>6, <2>1, FollowPointerRead DEF NamesMeanWhatTheySay
<1>7. CASE ReadLabel
  <2>1. pc' = "name"
    BY <1>7 DEF ReadLabel, AtLabel, AtLength
  <2> QED
    BY <1>1, <1>7, <2>1, ReadLabelRead DEF NamesMeanWhatTheySay
<1>8. CASE FixedShort \/ ParseQuestion
  <2>1. pc' \in {"failed", "item", "panicked"}
    BY <1>8 DEF FixedShort, ParseQuestion, Reading, Fail, Accept, Panic
  <2> QED
    BY <2>1, NoNameHere
<1>9. CASE ParseFixed
  BY <1>1, <1>9, FixedRead
<1>10. CASE NextName
  BY <1>1, <1>10, StartNameRead DEF NextName, inputVars
<1>11. CASE SkipRest \/ SliceRest \/ ParseSoa \/ StartTexts \/ TextsEnd
  <2>1. pc' \in {"failed", "item", "panicked", "texts"}
    BY <1>11 DEF SkipRest, SliceRest, ParseSoa, StartTexts, TextsEnd, AcceptRecord,
                 Accept, Reading, Fail, Panic
  <2> QED
    BY <2>1, NoNameHere
<1>12. CASE ReadText
  <2>1. pc' \in {"failed", "item", "panicked", "texts"}
    BY <1>12 DEF ReadText, Reading, Fail, Panic
  <2> QED
    BY <2>1, NoNameHere
<1> QED
  BY <1>2, <1>3, <1>4, <1>5, <1>6, <1>7, <1>8, <1>9, <1>10, <1>11, <1>12
     DEF Next, NameStep, ItemStep

LEMMA StutterRead ==
  ASSUME NInv, UNCHANGED vars
  PROVE  ReadSoFar' /\ NamesMeanWhatTheySay'
<1>1. UNCHANGED <<data, pc, offset, from, current, jumped, jumps, parts, names>>
  BY DEF vars, inputVars, nameVars, itemVars
<1>2. ReadSoFar'
  BY <1>1 DEF NInv, ReadSoFar, GoesOn
<1>3. NamesMeanWhatTheySay'
  BY <1>1 DEF NInv, NamesMeanWhatTheySay, Meaning
<1> QED
  BY <1>2, <1>3

\* DnsName::parse returns the labels that are written where it is called, found
\* through any chain of pointers, and leaves the offset behind the cells that
\* the name takes up there: in a message of any length and for any number of
\* pointers that may be followed (name.rs).
THEOREM NamesRead == Spec => []NamesMeanWhatTheySay
<1>1. Init => ReadSoFar /\ NamesMeanWhatTheySay
  BY DEF Init, ReadSoFar, NamesMeanWhatTheySay
<1>2. Init => NInv
  BY <1>1, InitInv DEF NInv
<1>3. NInv /\ [Next]_vars => NInv'
  <2>1. NInv /\ [Next]_vars => IInv'
    BY NextInv DEF NInv
  <2>2. NInv /\ [Next]_vars => ReadSoFar' /\ NamesMeanWhatTheySay'
    BY NextRead, StutterRead
  <2> QED
    BY <2>1, <2>2 DEF NInv
<1>4. NInv => NamesMeanWhatTheySay
  BY DEF NInv
<1> QED
  BY <1>2, <1>3, <1>4, PTL DEF Spec

\* A name that says something, with no more pointers than may be followed, is one
\* that the loop can go on with wherever it is.
LEMMA NameGoesOn ==
  ASSUME NInv, pc = "name", Meaning(from).said, Meaning(from).pointers <= MaxJumps
  PROVE  /\ AtZero(data, current) \/ AtJump(data, current) \/ AtText(data, current)
         /\ AtJump(data, current) => Target(data, current) < Len(data) /\ jumps < MaxJumps
<1>1. /\ data \in Seq(Cell) /\ current \in Nat /\ from \in Nat /\ Len(data) \in Nat
      /\ jumps \in Nat /\ MaxJumps \in Nat
  BY JumpAssumption DEF NInv, IInv, TypeOK
<1>2. PICK n \in Nat : \A k \in Nat : GoesOn(n, k)
  BY DEF NInv, ReadSoFar
<1> DEFINE l == Len(data)
           w == ReadBy(data, l, from)
           r == ReadBy(data, l, current)
<1>3. w.said /\ w.pointers <= MaxJumps
  BY DEF Meaning, ReadBy
<1>4. ReadBy(data, l + n, from) = w
  <2>1. l <= l + n /\ l + n \in Nat
    BY <1>1
  <2> HIDE DEF l
  <2>2. l \in Nat
    BY <1>1 DEF l
  <2> QED
    BY <1>1, <1>3, <2>1, <2>2, SaidStays
<1>5. GoesOn(n, l)
  BY <1>1, <1>2
<1>6. r.said /\ w.pointers = jumps + r.pointers
  <2> HIDE DEF l, w, r
  <2>1. ReadBy(data, l, current) = r
    BY DEF r
  <2> QED
    BY <1>3, <1>4, <1>5, <2>1 DEF GoesOn
<1>7. l # 0
  BY <1>1, <1>6, ReadByTyped
<1> DEFINE m == l - 1
<1>8. m \in Nat /\ m + 1 = l
  BY <1>1, <1>7
<1>9. ReadBy(data, m + 1, current) = r
  BY <1>8
<1> HIDE DEF m, w
<1>10. AtZero(data, current) \/ AtJump(data, current) \/ AtText(data, current)
  BY <1>1, <1>6, <1>8, <1>9, SaidBehind
<1>11. ASSUME AtJump(data, current)
       PROVE  Target(data, current) < Len(data) /\ jumps < MaxJumps
  <2> DEFINE t == ReadBy(data, m, Target(data, current))
  <2>1. Target(data, current) \in Nat
    BY <1>1, <1>8, <1>11, ReadAtJump
  <2>2. t \in NameReading /\ r = WithPointer(t, current + 2)
    BY <1>1, <1>8, <1>9, <1>11, <2>1, ReadAtJump, ReadByTyped
  <2>3. t.said /\ t.pointers \in Nat /\ r.pointers = t.pointers + 1
    <3> HIDE DEF t, r
    <3> QED BY <1>6, <2>2 DEF WithPointer, NameReading
  <2>4. Target(data, current) < Len(data)
    <3>1. Target(data, current) \in Heard(data, m)
      BY <2>1, <2>3 DEF Heard
    <3>2. Heard(data, m) \subseteq 0..Len(data) - 1
      BY <1>1, <1>8, HeardFinite
    <3> QED
      BY <1>1, <3>1, <3>2
  <2> HIDE DEF t, r
  <2>5. jumps < MaxJumps
    BY <1>1, <1>3, <1>6, <2>3
  <2> QED
    BY <2>4, <2>5
<1> QED
  BY <1>10, <1>11

\* So none of the errors of DnsName::parse is found in it.
LEMMA NameNotRefused ==
  ASSUME NInv, pc = "name", Meaning(from).said, Meaning(from).pointers <= MaxJumps
  PROVE  ~NameShort /\ ~BadPointer /\ ~PointerLoop
<1>1. /\ data \in Seq(Cell) /\ current \in Nat /\ Len(data) \in Nat
      /\ jumps \in Nat /\ MaxJumps \in Nat /\ IInv
  BY JumpAssumption DEF NInv, IInv, TypeOK
<1>2. /\ AtZero(data, current) \/ AtJump(data, current) \/ AtText(data, current)
      /\ AtJump(data, current) => Target(data, current) < Len(data) /\ jumps < MaxJumps
  BY NameGoesOn
<1>3. AtLength /\ current < Len(data)
  BY <1>1, <1>2 DEF AtLength, AtZero, AtJump, AtText
<1>4. AtPointer => Pointer < Len(data) /\ jumps < MaxJumps
  BY <1>1, <1>2, <1>3, PartAtCurrent
<1>5. ~BadPointer /\ ~PointerLoop
  <2>1. AtPointer => Pointer \in Nat
    BY <1>1, <1>3, PartAtCurrent, ReadAtJump
  <2> QED
    BY <1>1, <1>4, <2>1 DEF BadPointer, PointerLoop
<1>6. ~NameShort
  <2>1. LengthByte \in 0..255
    BY <1>1, <1>3, ByteInside DEF LengthByte, Cell
  <2>2. CASE AtZero(data, current)
    BY <1>1, <1>3, <2>2 DEF NameShort, AtLabel, IsPointer, LengthByte, AtZero
  <2>3. CASE AtJump(data, current)
    BY <1>1, <1>3, <2>1, <2>3 DEF NameShort, AtLabel, IsPointer, LengthByte, AtJump
  <2>4. CASE AtText(data, current)
    <3> DEFINE b == LengthByte
    <3>1. b \in 1..191 /\ current + 1 + b <= Len(data)
      BY <2>4 DEF AtText, LengthByte
    <3> HIDE DEF b
    <3>2. ~(b >= 192) /\ ~(current + 1 + b > Len(data)) /\ ~(current >= Len(data))
      BY <1>1, <1>3, <3>1
    <3> QED
      BY <3>2 DEF NameShort, IsPointer, b
  <2> QED
    BY <1>2, <2>2, <2>3, <2>4
<1> QED
  BY <1>5, <1>6

\* And no other step leaves the loop but at its end.
LEMMA NameLeft ==
  ASSUME NInv, Next, pc = "name", pc' \in {"item", "failed"}
  PROVE  NameShort \/ BadPointer \/ PointerLoop
<1>1. ~(HeaderShort \/ ParseHeader \/ NextItem \/ NextSection \/ Finish)
  BY DEF HeaderShort, ParseHeader, NextItem, NextSection, Finish
<1>2. ~ItemStep
  BY DEF ItemStep, FixedShort, ParseQuestion, ParseFixed, NextName, SkipRest, SliceRest,
         ParseSoa, StartTexts, ReadText, TextsEnd, AtRest
<1>3. ~NameEnd
  BY DEF NameEnd
<1>4. ~FollowPointer /\ ~ReadLabel
  BY DEF FollowPointer, ReadLabel
<1> QED
  BY <1>1, <1>2, <1>3, <1>4 DEF Next, NameStep

\* The other direction of NamesRead: what can be read is read.  A name is only
\* refused if it says nothing, in a circle, out of the message or cut off, or has
\* more pointers than the loop follows (name.rs).
THEOREM ReadableNamesRead == Spec => NoNameRefused
<1>1. Init => NInv
  <2>1. Init => ReadSoFar /\ NamesMeanWhatTheySay
    BY DEF Init, ReadSoFar, NamesMeanWhatTheySay
  <2> QED
    BY <2>1, InitInv DEF NInv
<1>2. NInv /\ [Next]_vars => NInv'
  BY NextInv, NextRead, StutterRead DEF NInv
<1> DEFINE A == pc = "name" /\ pc' \in {"item", "failed"} =>
                  ~(Meaning(from).said /\ Meaning(from).pointers <= MaxJumps)
<1>3. NInv /\ [Next]_vars => [A]_vars
  <2>1. ASSUME NInv, Next PROVE A
    BY <2>1, NameLeft, NameNotRefused
  <2> HIDE DEF A
  <2> QED
    BY <2>1
<1> QED
  BY <1>1, <1>2, <1>3, PTL DEF Spec, NoNameRefused

-----------------------------------------------------------------------------
(***************************************************************************)
(* What is left to do.  That it never grows depends on where the parser is *)
(* in the message (Within): only so are there cells left.                  *)
(***************************************************************************)
Within ==
  /\ offset <= Len(data)
  /\ pc \in {"name", "texts"} => current <= Len(data)

Closer == Below(Work', Work) /\ Within'

LEMMA WorkOrder ==
  /\ SectionsLeft' < SectionsLeft => Below(Work', Work)
  /\ SectionsLeft' = SectionsLeft /\ left' < left => Below(Work', Work)
  /\ SectionsLeft' = SectionsLeft /\ left' = left /\ PartsLeft' < PartsLeft
       => Below(Work', Work)
  /\ SectionsLeft' = SectionsLeft /\ left' = left /\ PartsLeft' = PartsLeft
       /\ MaxJumps - jumps' < MaxJumps - jumps => Below(Work', Work)
  /\ SectionsLeft' = SectionsLeft /\ left' = left /\ PartsLeft' = PartsLeft
       /\ MaxJumps - jumps' = MaxJumps - jumps /\ CellsLeft' < CellsLeft
       => Below(Work', Work)
BY DEF Work, Below

\* How many parts of an item are left.
LEMMA PartsLeftValues ==
  ASSUME IInv
  PROVE  /\ pc = "item" => PartsLeft = 11
         /\ pc = "name" => Len(names) \in 0..2 /\ PartsLeft = 10 - 3 * Len(names)
         /\ pc = "fixed" => PartsLeft = 9
         /\ pc = "rdata" => Len(names) \in 1..3 /\ PartsLeft = 11 - 3 * Len(names)
         /\ pc = "texts" => PartsLeft = 1
         /\ pc \in {"item", "name", "fixed", "rdata", "texts"} => PartsLeft \in 1..11
<1> DEFINE count == NameCount(fixed[1])
           read == Len(names)
<1>1. count \in 0..2 /\ read \in Nat
  BY NameCountProperties, AppendCounts DEF IInv, NamesCounted
<1>2. /\ pc = "name" => ~(read > 0) \/ read <= count
      /\ pc = "rdata" => read \in 1..count + 1
  BY DEF IInv, NamesCounted, InName
<1> HIDE DEF count, read
<1>3. pc = "name" => read \in 0..2 /\ 10 - 3 * read \in 1..11
  BY <1>1, <1>2
<1>4. pc = "rdata" => read \in 1..3 /\ 11 - 3 * read \in 1..11
  BY <1>1, <1>2
<1>5. /\ pc = "item" => PartsLeft = 11
      /\ pc = "name" => PartsLeft = 10 - 3 * read
      /\ pc = "fixed" => PartsLeft = 9
      /\ pc = "rdata" => PartsLeft = 11 - 3 * read
      /\ pc = "texts" => PartsLeft = 1
  BY DEF PartsLeft, read
<1>6. pc \in {"item", "name", "fixed", "rdata", "texts"} => PartsLeft \in 1..11
  BY <1>3, <1>4, <1>5
<1> QED
  BY <1>3, <1>4, <1>5, <1>6 DEF read

\* All of it is counted in natural numbers.
LEMMA WorkIsCounted ==
  ASSUME IInv, Within
  PROVE  WorkCounts
<1>1. SectionsLeft \in Nat /\ left \in Nat /\ MaxJumps - jumps \in Nat
  BY JumpAssumption DEF SectionsLeft, IInv, TypeOK
<1>2. PartsLeft \in Nat
  <2>1. CASE pc \in {"item", "name", "fixed", "rdata", "texts"}
    BY <2>1, PartsLeftValues
  <2>2. CASE pc \notin {"item", "name", "fixed", "rdata", "texts"}
    BY <2>2 DEF PartsLeft
  <2> QED
    BY <2>1, <2>2
<1>3. CellsLeft \in Nat
  BY DEF CellsLeft, Within, IInv, TypeOK
<1> QED
  BY <1>1, <1>2, <1>3 DEF WorkCounts, Work

\* The ends of an item: it fails, is taken, or the task panics.
LEMMA FailWork ==
  ASSUME IInv, Fail, pc \in {"name", "fixed", "rdata", "texts"}, offset' <= Len(data)
  PROVE  Closer
<1>1. /\ UNCHANGED <<data, sec>> /\ left \in Nat /\ left > 0
      /\ \/ pc' = "failed" /\ left' = left
         \/ pc' = "item" /\ left' = 0
  BY DEF Fail, inputVars, messageVars, IInv, TypeOK, ItemLeft
<1>2. Within'
  BY <1>1 DEF Within
<1>3. SectionsLeft' = SectionsLeft
  BY <1>1 DEF SectionsLeft
<1>4. CASE pc' = "failed" /\ left' = left
  <2>1. PartsLeft' = 0 /\ PartsLeft > 0
    <3>1. PartsLeft' = 0
      BY <1>4 DEF PartsLeft
    <3> QED
      BY <3>1, PartsLeftValues
  <2> QED
    BY <1>2, <1>3, <1>4, <2>1, WorkOrder DEF Closer
<1>5. CASE left' = 0
  BY <1>1, <1>2, <1>3, <1>5, WorkOrder DEF Closer
<1> QED
  BY <1>1, <1>4, <1>5

LEMMA AcceptWork ==
  ASSUME IInv, pc \in {"fixed", "rdata", "texts"}, NEW item, Accept(item),
         offset' <= Len(data)
  PROVE  Closer
<1>1. UNCHANGED <<data, sec>> /\ left \in Nat /\ left' = left - 1 /\ pc' = "item"
  BY DEF Accept, inputVars, IInv, TypeOK
<1>2. SectionsLeft' = SectionsLeft
  BY <1>1 DEF SectionsLeft
<1>3. Below(Work', Work)
  BY <1>1, <1>2, WorkOrder
<1> QED
  BY <1>1, <1>3 DEF Closer, Within

LEMMA PanicWork ==
  ASSUME IInv, Within, Panic, pc \in {"fixed", "rdata", "texts"}
  PROVE  Closer
<1>1. UNCHANGED <<data, sec, left, offset>> /\ pc' = "panicked"
  BY DEF Panic, inputVars, messageVars
<1>2. SectionsLeft' = SectionsLeft /\ PartsLeft' = 0
  BY <1>1 DEF SectionsLeft, PartsLeft
<1>3. PartsLeft > 0
  BY PartsLeftValues
<1>4. Below(Work', Work)
  BY <1>1, <1>2, <1>3, WorkOrder
<1> QED
  BY <1>1, <1>4 DEF Closer, Within

\* A part of an item is done: another one, nearer to the end, is next.
LEMMA PartWork ==
  ASSUME pc # "header", pc' # "header", UNCHANGED <<data, sec, left>>,
         PartsLeft' < PartsLeft, Within'
  PROVE  Closer
<1>1. SectionsLeft' = SectionsLeft
  BY DEF SectionsLeft
<1> QED
  BY <1>1, WorkOrder DEF Closer

\* A name begins where the offset is.
LEMMA StartNameWork ==
  ASSUME IInv, Within, StartName, UNCHANGED <<data, offset, sec, left>>,
         (pc = "rdata" /\ names' = names) \/ (pc = "item" /\ names' = <<>>)
  PROVE  Closer
<1>1. pc' = "name" /\ current' = offset
  BY DEF StartName
<1>2. Within'
  BY <1>1 DEF Within
<1>3. CASE pc = "rdata"
  <2> DEFINE read == Len(names)
  <2>1. PartsLeft = 11 - 3 * read /\ PartsLeft' = 10 - 3 * read /\ read \in 1..3
    BY <1>1, <1>3, PartsLeftValues DEF PartsLeft
  <2> HIDE DEF read
  <2>2. PartsLeft' < PartsLeft
    BY <2>1
  <2> QED
    BY <1>1, <1>2, <1>3, <2>2, PartWork
<1>4. CASE pc = "item"
  <2> DEFINE read == Len(names')
  <2>1. PartsLeft = 11 /\ PartsLeft' = 10 - 3 * read /\ read \in Nat
    <3>1. PartsLeft = 11 /\ PartsLeft' = 10 - 3 * read
      BY <1>1, <1>4, PartsLeftValues DEF PartsLeft
    <3>2. IsSeq(names')
      BY EmptyIsSeq DEF IInv, NamesCounted
    <3> QED
      BY <3>1, <3>2, AppendCounts
  <2> HIDE DEF read
  <2>2. PartsLeft' < PartsLeft
    BY <2>1
  <2> QED
    BY <1>1, <1>2, <1>4, <2>2, PartWork
<1> QED
  BY <1>3, <1>4

LEMMA HeaderStepWork ==
  ASSUME IInv, Within, HeaderShort \/ ParseHeader \/ NextItem \/ NextSection \/ Finish
  PROVE  Closer
<1>1. CASE HeaderShort \/ ParseHeader
  <2>1. pc = "header" /\ pc' # "header" /\ sec' = sec /\ sec \in 1..4 /\ Within'
    BY <1>1 DEF HeaderShort, ParseHeader, Within, IInv, TypeOK, inputVars, messageVars
  <2>2. SectionsLeft' < SectionsLeft
    BY <2>1 DEF SectionsLeft
  <2> QED
    BY <2>1, <2>2, WorkOrder DEF Closer
<1>2. CASE NextItem
  BY <1>2, StartNameWork DEF NextItem, inputVars, messageVars
<1>3. CASE NextSection
  <2>1. /\ pc = "item" /\ pc' = "item" /\ sec' = sec + 1 /\ sec \in 1..4
        /\ UNCHANGED <<data, offset>>
    BY <1>3 DEF NextSection, IInv, TypeOK, inputVars
  <2>2. SectionsLeft' < SectionsLeft
    BY <2>1 DEF SectionsLeft
  <2> QED
    BY <2>1, <2>2, WorkOrder DEF Closer, Within
<1>4. CASE Finish
  <2>1. /\ pc = "item" /\ pc' = "done" /\ UNCHANGED <<data, offset, sec, left>>
    BY <1>4 DEF Finish, inputVars, messageVars
  <2>2. PartsLeft' < PartsLeft
    <3>1. PartsLeft' = 0
      BY <2>1 DEF PartsLeft
    <3> QED
      BY <2>1, <3>1, PartsLeftValues
  <2> QED
    BY <2>1, <2>2, PartWork DEF Within
<1> QED
  BY <1>1, <1>2, <1>3, <1>4

LEMMA NameStepWork ==
  ASSUME IInv, Within, NameStep
  PROVE  Closer
<1>1. /\ pc = "name" /\ data \in Seq(Cell) /\ Len(data) \in Nat
      /\ offset \in Nat /\ current \in Nat
      /\ offset <= Len(data) /\ current <= Len(data)
  BY DEF NameStep, NameShort, NameEnd, BadPointer, FollowPointer, PointerLoop, ReadLabel,
         AtPointer, AtLabel, AtLength, IInv, TypeOK, Within
<1>2. AtPointer => AfterPointer <= Len(data)
  BY <1>1 DEF AtPointer, AfterPointer
<1>3. CASE NameShort
  BY <1>1, <1>3, FailWork DEF NameShort
<1>4. CASE BadPointer \/ PointerLoop
  BY <1>1, <1>2, <1>4, FailWork DEF BadPointer, PointerLoop
<1>5. CASE NameEnd
  <2>1. /\ current < Len(data) /\ offset' = IF jumped THEN offset ELSE current + 1
        /\ names' = Append(names, parts)
        /\ pc' = IF names = <<>> THEN "fixed" ELSE "rdata"
        /\ UNCHANGED <<data, sec, left>>
    BY <1>5 DEF NameEnd, AtLength, inputVars, messageVars
  <2>2. Within'
    BY <1>1, <2>1 DEF Within
  <2> DEFINE read == Len(names)
  <2>3. /\ Len(names') = read + 1 /\ read \in 0..2 /\ PartsLeft = 10 - 3 * read
        /\ names = <<>> <=> read = 0
    BY <1>1, <2>1, PartsLeftValues, AppendCounts, EmptyIsSeq, EmptySequence
       DEF IInv, NamesCounted
  <2>4. PartsLeft' = IF names = <<>> THEN 9 ELSE 11 - 3 * (read + 1)
    BY <2>1, <2>3 DEF PartsLeft
  <2> HIDE DEF read
  <2>5. PartsLeft' < PartsLeft
    BY <2>3, <2>4
  <2> QED
    BY <1>1, <2>1, <2>2, <2>5, PartWork
<1>6. CASE FollowPointer
  <2>1. /\ pc' = "name" /\ current' = Pointer /\ Pointer < Len(data)
        /\ offset' = AfterPointer /\ AfterPointer <= Len(data)
        /\ jumps' = jumps + 1 /\ UNCHANGED <<data, sec, left, names>>
    BY <1>1, <1>2, <1>6 DEF FollowPointer, inputVars, messageVars, itemVars
  <2>2. Pointer \in Nat
    BY <1>6, NameNumbers DEF FollowPointer, AtPointer
  <2>3. /\ SectionsLeft' = SectionsLeft /\ PartsLeft' = PartsLeft
        /\ MaxJumps - jumps' < MaxJumps - jumps
    <3>1. MaxJumps - jumps' < MaxJumps - jumps
      BY <2>1, JumpAssumption DEF IInv, TypeOK
    <3> QED
      BY <1>1, <2>1, <3>1 DEF SectionsLeft, PartsLeft
  <2>4. Within'
    BY <1>1, <2>1, <2>2 DEF Within
  <2> QED
    BY <2>1, <2>3, <2>4, WorkOrder DEF Closer
<1>7. CASE ReadLabel
  <2>1. /\ pc' = "name" /\ current' = current + 1 + LengthByte
        /\ current' <= Len(data) /\ AtLabel
        /\ UNCHANGED <<data, offset, sec, left, names, jumps>>
    BY <1>1, <1>7 DEF ReadLabel, inputVars, messageVars, itemVars
  <2>2. LengthByte \in Nat
    BY <2>1, NameNumbers DEF AtLabel
  <2>3. CellsLeft' < CellsLeft
    BY <1>1, <2>1, <2>2 DEF CellsLeft
  <2>4. SectionsLeft' = SectionsLeft /\ PartsLeft' = PartsLeft
    BY <1>1, <2>1 DEF SectionsLeft, PartsLeft
  <2>5. Within'
    BY <1>1, <2>1 DEF Within
  <2> QED
    BY <2>1, <2>3, <2>4, <2>5, WorkOrder DEF Closer
<1> QED
  BY <1>3, <1>4, <1>5, <1>6, <1>7 DEF NameStep

LEMMA FixedStepWork ==
  ASSUME IInv, Within, FixedShort \/ ParseQuestion \/ ParseFixed
  PROVE  Closer
<1>1. pc = "fixed"
  BY DEF FixedShort, ParseQuestion, ParseFixed
<1>2. CASE FixedShort
  BY <1>1, <1>2, FailWork DEF FixedShort, Within
<1>3. CASE ParseQuestion
  <2>1. offset + QuestionSize <= Len(data) /\ offset <= offset + QuestionSize
    BY <1>3, FixedInside DEF ParseQuestion, QuestionSize
  <2>2. /\ offset' = offset + QuestionSize
        /\ Accept([name |-> names[1], type |-> data[offset + 1],
                   class |-> data[offset + 2]])
    BY <1>3, <2>1 DEF ParseQuestion, Reading
  <2> QED
    BY <1>1, <2>1, <2>2, AcceptWork
<1>4. CASE ParseFixed
  <2> DEFINE start == offset + RecordSize
             type == data[offset + 1]
             rdlength == data[start]
             past == start + HeadSize(type)
  <2>1. offset <= start /\ start <= Len(data)
    BY <1>4, FixedInside DEF ParseFixed, RecordSize
  <2>2. CASE start + rdlength > Len(data) \/ ~LengthOk(type, rdlength)
    <3>1. offset' = start /\ Fail
      BY <1>4, <2>1, <2>2 DEF ParseFixed, Reading
    <3> QED
      BY <1>1, <2>1, <3>1, FailWork
  <2>3. CASE ~(start + rdlength > Len(data) \/ ~LengthOk(type, rdlength))
    <3>1. Reading(start, past,
             /\ fixed' = Slice(offset, past)
             /\ end' = start + rdlength
             /\ offset' = past
             /\ pc' = "rdata"
             /\ UNCHANGED <<inputVars, messageVars, left, nameVars, names>>)
      BY <1>4, <2>1, <2>3 DEF ParseFixed, Reading
    <3> HIDE DEF start, past, type, rdlength
    <3>2. CASE start <= past /\ past <= Len(data)
      <4>1. /\ offset' = past /\ pc' = "rdata"
            /\ UNCHANGED <<data, sec, left, names>>
        BY <3>1, <3>2 DEF Reading, inputVars, messageVars
      <4>2. Len(names) = 1
        BY <1>1 DEF IInv, NamesCounted
      <4>3. PartsLeft' = 8 /\ PartsLeft = 9
        BY <1>1, <4>1, <4>2 DEF PartsLeft
      <4>4. Within'
        BY <3>2, <4>1 DEF Within
      <4> QED
        BY <1>1, <4>1, <4>3, <4>4, PartWork
    <3>3. CASE ~(start <= past /\ past <= Len(data))
      <4>1. Panic
        BY <3>1, <3>3 DEF Reading
      <4> QED
        BY <1>1, <4>1, PanicWork
    <3> QED
      BY <3>2, <3>3
  <2> QED
    BY <2>2, <2>3
<1> QED
  BY <1>2, <1>3, <1>4

LEMMA RDataStepWork ==
  ASSUME IInv, Within,
         NextName \/ SkipRest \/ SliceRest \/ ParseSoa \/ StartTexts \/ ReadText \/ TextsEnd
  PROVE  Closer
<1>1. ASSUME NEW rest, AcceptRecord(rest), pc \in {"rdata", "texts"} PROVE Closer
  <2>1. offset' = end /\ end <= Len(data)
    BY <1>1, RDataFacts DEF AcceptRecord
  <2>2. PICK item : Accept(item)
    BY <1>1, Zenon DEF AcceptRecord
  <2> QED
    BY <1>1, <2>1, <2>2, AcceptWork
<1>2. CASE NextName
  <2>1. /\ pc = "rdata" /\ StartName /\ names' = names
        /\ UNCHANGED <<data, offset, sec, left>>
    BY <1>2 DEF NextName, inputVars, messageVars, itemVars
  <2> QED
    BY <2>1, StartNameWork
<1>3. CASE SkipRest
  BY <1>1, <1>3 DEF SkipRest, AtRest
<1>4. CASE TextsEnd
  BY <1>1, <1>4 DEF TextsEnd
<1>5. CASE SliceRest
  <2>1. pc = "rdata" /\ (AcceptRecord(Slice(offset, end)) \/ Panic)
    BY <1>5 DEF SliceRest, AtRest, Reading
  <2> QED
    BY <1>1, <2>1, PanicWork
<1>6. CASE ParseSoa
  <2>1. /\ pc = "rdata"
        /\ \/ Fail /\ offset' = offset
           \/ AcceptRecord(Slice(offset, offset + SoaSize))
           \/ Panic
    BY <1>6 DEF ParseSoa, AtRest, Reading
  <2> QED
    BY <1>1, <2>1, FailWork, PanicWork DEF Within
<1>7. CASE StartTexts
  <2>1. /\ pc = "rdata" /\ pc' = "texts" /\ current' = offset
        /\ UNCHANGED <<data, offset, sec, left>>
    BY <1>7 DEF StartTexts, AtRest, inputVars, messageVars
  <2>2. Within'
    BY <2>1 DEF Within
  <2>3. PartsLeft' = 1 /\ PartsLeft > 1
    <3> DEFINE read == Len(names)
    <3>1. PartsLeft' = 1
      BY <2>1 DEF PartsLeft
    <3>2. PartsLeft = 11 - 3 * read /\ read \in 1..3
      BY <2>1, PartsLeftValues
    <3> HIDE DEF read
    <3> QED
      BY <3>1, <3>2
  <2> QED
    BY <2>1, <2>2, <2>3, PartWork
<1>8. CASE ReadText
  <2> DEFINE start == current + 1
             stop == start + LengthByte
  <2>1. /\ pc = "texts" /\ current < end /\ end <= Len(data)
        /\ current \in Nat /\ end \in Nat /\ Len(data) \in Nat
    BY <1>8, RDataFacts DEF ReadText, IInv, TypeOK
  <2>2. LengthByte \in Nat
    <3>1. current + 1 \in 1..Len(data) /\ data \in Seq(Cell)
      BY <2>1, RDataFacts
    <3> QED
      BY <3>1, CellIsNumber DEF LengthByte
  <2>3. CASE stop > end
    BY <1>8, <2>1, <2>3, FailWork DEF ReadText, Within
  <2>4. CASE ~(stop > end)
    <3>1. start <= stop /\ stop <= Len(data) /\ current < stop
      BY <2>1, <2>2, <2>4
    <3>2. /\ current' = stop
          /\ UNCHANGED <<data, pc, offset, sec, left, jumps, names>>
      BY <1>8, <2>4, <3>1 DEF ReadText, Reading, inputVars, messageVars, itemVars
    <3> HIDE DEF stop
    <3>3. SectionsLeft' = SectionsLeft /\ PartsLeft' = PartsLeft
      BY <2>1, <3>2 DEF SectionsLeft, PartsLeft
    <3>4. Within' /\ CellsLeft' < CellsLeft
      <4>1. stop \in Nat
        BY <2>1, <2>2 DEF stop
      <4> QED
        BY <2>1, <3>1, <3>2, <4>1 DEF Within, CellsLeft
    <3> QED
      BY <3>2, <3>3, <3>4, WorkOrder DEF Closer
  <2> QED
    BY <2>3, <2>4
<1> QED
  BY <1>2, <1>3, <1>4, <1>5, <1>6, <1>7, <1>8

LEMMA NextWork == IInv /\ Within /\ Next => Closer
BY HeaderStepWork, NameStepWork, FixedStepWork, RDataStepWork DEF Next, ItemStep

\* On a message of any bytes and length, every step of the parser, whichever
\* of its loops takes it, leaves less to do, counted in natural numbers: so it
\* takes finitely many, and the task it runs in comes to its end (message.rs,
\* name.rs, rdata.rs).
THEOREM ParsingEnds == Spec => WorkShrinks
<1>1. Init => Within
  BY InputAssumption DEF Init, Within
<1>2. IInv /\ Within /\ [Next]_vars => Within'
  <2>1. UNCHANGED vars /\ Within => Within'
    BY DEF vars, inputVars, nameVars, Within
  <2> QED
    BY <2>1, NextWork DEF Closer
<1>3. Spec => [](IInv /\ Within)
  <2>1. Spec => []IInv
    BY SpecInv
  <2> QED
    BY <1>1, <1>2, <2>1, PTL DEF Spec
<1>4. IInv /\ Within => WorkCounts
  BY WorkIsCounted
<1>5. IInv /\ Within /\ [Next]_vars => [pc # "done" => Below(Work', Work)]_vars
  BY NextWork DEF Closer
<1>6. Spec => []WorkCounts
  BY <1>3, <1>4, PTL
<1>7. Spec => [][pc # "done" => Below(Work', Work)]_vars
  BY <1>3, <1>5, PTL DEF Spec
<1> QED
  BY <1>6, <1>7, PTL DEF WorkShrinks
=============================================================================
