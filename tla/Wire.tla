-------------------------------- MODULE Wire --------------------------------
(***************************************************************************)
(* DnsMessage::parse (src/dns/message.rs) and all it calls, on any input:   *)
(* DnsHeader, DnsQuestion, DnsRecord, RData and DnsName::parse, with the    *)
(* loops of the last two one step per iteration.                            *)
(*                                                                         *)
(* Positions count from 0, as in the code.  Indexing out of range panics.   *)
(* Variables named after the local variables of the functions hold what     *)
(* these do while they run.                                                 *)
(***************************************************************************)
EXTENDS WireFormat

CONSTANTS
  Inputs,        \* [data, sent]: the cells, and the message they were written from
  MaxJumps       \* MAX_JUMPS

ASSUME InputAssumption == \A i \in Inputs : i.data \in Seq(Cell)
ASSUME JumpAssumption == MaxJumps \in Nat

VARIABLES
  data,          \* what is parsed
  sent,          \* the message it was written from, if any
  pc,            \* what comes next
  offset,        \* *offset, shared by all the parsers
  header, counts, sections,     \* DnsMessage::parse
  sec, left,     \* the section that is read, and how many items of it remain
  from, current, jumped, jumps, parts,  \* DnsName::parse, and the texts of a TXT
  fixed, end, names             \* DnsRecord::parse and RData::parse

inputVars == <<data, sent>>
messageVars == <<header, counts, sections, sec>>
nameVars == <<from, current, jumped, jumps, parts>>
itemVars == <<fixed, end, names>>
vars == <<inputVars, pc, offset, messageVars, left, nameVars, itemVars>>

HeaderSize == 7
QuestionSize == 2
RecordSize == 4

NoSections == << <<>>, <<>>, <<>>, <<>> >>

Init ==
  /\ \E i \in Inputs : data = i.data /\ sent = i.sent
  /\ pc = "header"
  /\ offset = 0
  /\ header = ReadHeader(0, 0, 0)
  /\ counts = <<0, 0, 0, 0>>
  /\ sections = NoSections
  /\ sec = 1
  /\ left = 0
  /\ from = 0 /\ current = 0 /\ jumped = FALSE /\ jumps = 0 /\ parts = <<>>
  /\ fixed = <<>> /\ end = 0 /\ names = <<>>

-----------------------------------------------------------------------------
(* data[lo..hi], and what happens when there is no such slice. *)
Slice(lo, hi) == SubSeq(data, lo + 1, hi)

Panic ==
  /\ pc' = "panicked"
  /\ UNCHANGED <<inputVars, offset, messageVars, left, nameVars, itemVars>>

Reading(lo, hi, Step) == IF lo <= hi /\ hi <= Len(data) THEN Step ELSE Panic

\* Variant: the record is passed over, the section goes on.
Fail_Continue ==
  /\ IF sec = 1
     THEN pc' = "failed" /\ left' = left
     ELSE pc' = "item" /\ left' = left - 1
  /\ UNCHANGED <<inputVars, messageVars, itemVars>>

\* An error ends the parsing while questions are read, and only the section
\* later on; the offset stays where the error was found.
Fail ==
  /\ IF sec = 1
     THEN pc' = "failed" /\ left' = left
     ELSE pc' = "item" /\ left' = 0
  /\ UNCHANGED <<inputVars, messageVars, itemVars>>

\* One more question or record.
Accept(item) ==
  /\ sections' = [sections EXCEPT ![sec] = Append(@, item)]
  /\ left' = left - 1
  /\ pc' = "item"
  /\ UNCHANGED <<inputVars, header, counts, sec>>

-----------------------------------------------------------------------------
(* DnsMessage::parse: the header, and the loops over the sections. *)
HeaderShort ==
  /\ pc = "header"
  /\ offset + HeaderSize > Len(data)
  /\ pc' = "failed"
  /\ UNCHANGED <<inputVars, offset, messageVars, left, nameVars, itemVars>>

ParseHeader ==
  /\ pc = "header"
  /\ offset + HeaderSize <= Len(data)
  /\ header' = ReadHeader(data[1], data[2], data[3])
  /\ counts' = Slice(3, 7)
  /\ left' = data[4]
  /\ offset' = offset + HeaderSize
  /\ pc' = "item"
  /\ UNCHANGED <<inputVars, sections, sec, nameVars, itemVars>>

StartName ==
  /\ pc' = "name"
  /\ from' = offset /\ current' = offset
  /\ jumped' = FALSE /\ jumps' = 0 /\ parts' = <<>>

NextItem ==
  /\ pc = "item" /\ left > 0
  /\ StartName
  /\ names' = <<>>
  /\ UNCHANGED <<inputVars, offset, messageVars, left, fixed, end>>

NextSection ==
  /\ pc = "item" /\ left = 0 /\ sec < 4
  /\ sec' = sec + 1
  /\ left' = counts[sec + 1]
  /\ UNCHANGED <<inputVars, pc, offset, header, counts, sections, nameVars, itemVars>>

Finish ==
  /\ pc = "item" /\ left = 0 /\ sec = 4
  /\ pc' = "done"
  /\ UNCHANGED <<inputVars, offset, messageVars, left, nameVars, itemVars>>

-----------------------------------------------------------------------------
(***************************************************************************)
(* DnsName::parse.  The caller's offset ends behind the first pointer, or   *)
(* behind the zero when there was none.                                     *)
(***************************************************************************)
LengthByte == data[current + 1]
IsPointer(byte) == byte >= 192
Pointer == (LengthByte % 64) * 256 + data[current + 2]

AtLength == pc = "name" /\ current < Len(data)
AtPointer == AtLength /\ IsPointer(LengthByte) /\ current + 1 < Len(data)
AtLabel == AtLength /\ LengthByte # 0 /\ ~IsPointer(LengthByte)

NameShort ==
  /\ pc = "name"
  /\ \/ current >= Len(data)
     \/ /\ AtLength /\ IsPointer(LengthByte)
        /\ current + 1 >= Len(data)
     \/ /\ AtLabel
        /\ current + 1 + LengthByte > Len(data)
  /\ Fail
  /\ UNCHANGED <<offset, nameVars>>

\* Variant: the offset ends where the name does.
NameEnd_Jumped ==
  /\ AtLength
  /\ LengthByte = 0
  /\ offset' = current + 1
  /\ names' = Append(names, parts)
  /\ pc' = IF names = <<>> THEN "fixed" ELSE "rdata"
  /\ UNCHANGED <<inputVars, messageVars, left, nameVars, fixed, end>>

NameEnd ==
  /\ AtLength
  /\ LengthByte = 0
  /\ offset' = IF jumped THEN offset ELSE current + 1
  /\ names' = Append(names, parts)
  /\ pc' = IF names = <<>> THEN "fixed" ELSE "rdata"
  /\ UNCHANGED <<inputVars, messageVars, left, nameVars, fixed, end>>

AfterPointer == IF jumped THEN offset ELSE current + 2

BadPointer ==
  /\ AtPointer
  /\ Pointer >= Len(data)
  /\ offset' = AfterPointer
  /\ Fail
  /\ UNCHANGED nameVars

\* Variant: one pointer more than the limit.
FollowPointer_OneMore ==
  /\ AtPointer
  /\ Pointer < Len(data)
  /\ jumps <= MaxJumps
  /\ offset' = AfterPointer
  /\ current' = Pointer
  /\ jumped' = TRUE
  /\ jumps' = jumps + 1
  /\ UNCHANGED <<inputVars, pc, messageVars, left, from, parts, itemVars>>

\* Variant: the jumps are not counted.
FollowPointer_Uncounted ==
  /\ AtPointer
  /\ Pointer < Len(data)
  /\ jumps < MaxJumps
  /\ offset' = AfterPointer
  /\ current' = Pointer
  /\ jumped' = TRUE
  /\ UNCHANGED <<inputVars, pc, messageVars, left, from, jumps, parts, itemVars>>

FollowPointer ==
  /\ AtPointer
  /\ Pointer < Len(data)
  /\ jumps < MaxJumps
  /\ offset' = AfterPointer
  /\ current' = Pointer
  /\ jumped' = TRUE
  /\ jumps' = jumps + 1
  /\ UNCHANGED <<inputVars, pc, messageVars, left, from, parts, itemVars>>

\* Variant: one pointer less than the limit.
PointerLoop_Early ==
  /\ AtPointer
  /\ Pointer < Len(data)
  /\ jumps + 1 >= MaxJumps
  /\ offset' = AfterPointer
  /\ Fail
  /\ UNCHANGED nameVars

PointerLoop ==
  /\ AtPointer
  /\ Pointer < Len(data)
  /\ jumps >= MaxJumps
  /\ offset' = AfterPointer
  /\ Fail
  /\ UNCHANGED nameVars

ReadLabel ==
  LET start == current + 1
      stop == start + LengthByte
  IN  /\ AtLabel
      /\ stop <= Len(data)
      /\ parts' = Append(parts, Label(Slice(start, stop)))
      /\ current' = stop
      /\ UNCHANGED <<inputVars, pc, offset, messageVars, left, from, jumped, jumps,
                     itemVars>>

NameStep ==
  \/ NameShort \/ NameEnd \/ BadPointer \/ FollowPointer \/ PointerLoop \/ ReadLabel

-----------------------------------------------------------------------------
(* The fields after the name of a question or a record. *)
FixedSize == IF sec = 1 THEN QuestionSize ELSE RecordSize
\* Variant: a field more than there is.
Fits_OneMore(size) == offset + size <= Len(data) + 1

Fits(size) == offset + size <= Len(data)

FixedShort ==
  /\ pc = "fixed"
  /\ ~Fits(FixedSize)
  /\ Fail
  /\ UNCHANGED <<offset, nameVars>>

ParseQuestion ==
  /\ pc = "fixed" /\ sec = 1
  /\ Fits(QuestionSize)
  /\ Reading(offset, offset + QuestionSize,
       /\ offset' = offset + QuestionSize
       /\ Accept([name |-> names[1], type |-> data[offset + 1],
                  class |-> data[offset + 2]])
       /\ UNCHANGED <<nameVars, itemVars>>)

\* RData::parse begins: the data must lie in the message and be of a length
\* that fits its type; fields come first.
ParseFixed ==
  LET start == offset + RecordSize
      type == data[offset + 1]
      rdlength == data[start]
      past == start + HeadSize(type)
  IN  /\ pc = "fixed" /\ sec > 1
      /\ Fits(RecordSize)
      /\ Reading(offset, start,
           IF start + rdlength > Len(data) \/ ~LengthOk(type, rdlength)
           THEN /\ offset' = start
                /\ Fail
                /\ UNCHANGED nameVars
           ELSE Reading(start, past,
                  /\ fixed' = Slice(offset, past)
                  /\ end' = start + rdlength
                  /\ offset' = past
                  /\ pc' = "rdata"
                  /\ UNCHANGED <<inputVars, messageVars, left, nameVars, names>>))

-----------------------------------------------------------------------------
(* RData::parse, behind its fields: the names, and what follows them. *)
NextName ==
  /\ pc = "rdata"
  /\ Len(names) <= NameCount(fixed[1])
  /\ StartName
  /\ UNCHANGED <<inputVars, offset, messageVars, left, itemVars>>

AtRest(kind) ==
  /\ pc = "rdata"
  /\ Len(names) > NameCount(fixed[1])
  /\ Rest(fixed[1]) = kind

AcceptRecord(rest) ==
  /\ offset' = end
  /\ Accept([name |-> names[1], type |-> fixed[1], class |-> fixed[2],
             ttl |-> fixed[3],
             rdata |-> [head |-> SubSeq(fixed, RecordSize + 1, Len(fixed)),
                        names |-> Tail(names), rest |-> rest]])
  /\ UNCHANGED <<nameVars, itemVars>>

SkipRest == AtRest("skip") /\ AcceptRecord(<<>>)

SliceRest ==
  /\ AtRest("slice")
  /\ Reading(offset, end, AcceptRecord(Slice(offset, end)))

ParseSoa ==
  /\ AtRest("soa")
  /\ IF offset + SoaSize > end
     THEN Fail /\ UNCHANGED <<offset, nameVars>>
     ELSE Reading(offset, offset + SoaSize,
                  AcceptRecord(Slice(offset, offset + SoaSize)))

StartTexts ==
  /\ AtRest("texts")
  /\ pc' = "texts"
  /\ current' = offset
  /\ parts' = <<>>
  /\ UNCHANGED <<inputVars, offset, messageVars, left, from, jumped, jumps, itemVars>>

\* Variant: a text may not end where the data ends.
ReadText_Last ==
  LET start == current + 1
      stop == start + LengthByte
  IN  /\ pc = "texts" /\ current < end
      /\ IF stop >= end
         THEN Fail /\ UNCHANGED <<offset, nameVars>>
         ELSE Reading(start, stop,
                /\ parts' = Append(parts, FromUtf8Lossy(Slice(start, stop)))
                /\ current' = stop
                /\ UNCHANGED <<inputVars, pc, offset, messageVars, left, from, jumped,
                               jumps, itemVars>>)

ReadText ==
  LET start == current + 1
      stop == start + LengthByte
  IN  /\ pc = "texts" /\ current < end
      /\ IF stop > end
         THEN Fail /\ UNCHANGED <<offset, nameVars>>
         ELSE Reading(start, stop,
                /\ parts' = Append(parts, FromUtf8Lossy(Slice(start, stop)))
                /\ current' = stop
                /\ UNCHANGED <<inputVars, pc, offset, messageVars, left, from, jumped,
                               jumps, itemVars>>)

TextsEnd == pc = "texts" /\ current >= end /\ AcceptRecord(parts)

ItemStep ==
  \/ FixedShort \/ ParseQuestion \/ ParseFixed \/ NextName \/ SkipRest \/ SliceRest
  \/ ParseSoa \/ StartTexts \/ ReadText \/ TextsEnd

-----------------------------------------------------------------------------
Next ==
  \/ HeaderShort \/ ParseHeader \/ NextItem \/ NextSection \/ Finish
  \/ NameStep \/ ItemStep

Spec == Init /\ [][Next]_vars

-----------------------------------------------------------------------------
PcValues == {"header", "item", "name", "fixed", "rdata", "texts", "done", "failed",
             "panicked"}

\* Types: in particular, a count that says how many records remain never goes
\* below zero, and the parser is never past the fourth section.
TypeOK ==
  /\ data \in Seq(Cell)
  /\ pc \in PcValues
  /\ offset \in Nat /\ current \in Nat /\ from \in Nat /\ end \in Nat
  /\ sec \in 1..4 /\ left \in Nat
  /\ counts \in Seq(Cell) /\ Len(counts) = 4
  /\ jumped \in BOOLEAN /\ jumps \in 0..MaxJumps
  /\ fixed \in Seq(Cell)

(***************************************************************************)
(* What there is left to do, the greater before the lesser: sections, items *)
(* of the section, parts of the item, pointers that may be followed, cells  *)
(* that may be read.                                                        *)
(***************************************************************************)
PartsLeft ==
  CASE pc = "item"  -> 11
    [] pc = "name"  -> 10 - 3 * Len(names)
    [] pc = "fixed" -> 9
    [] pc = "rdata" -> 11 - 3 * Len(names)
    [] pc = "texts" -> 1
    [] OTHER -> 0

SectionsLeft == IF pc = "header" THEN 4 ELSE 4 - sec
CellsLeft == IF pc \in {"name", "texts"} THEN Len(data) - current ELSE 0

Work == <<SectionsLeft, left, PartsLeft, MaxJumps - jumps, CellsLeft>>

\* Less work: less of one kind, and as much of those before it.
Below(v, w) == \E i \in 1..5 : v[i] < w[i] /\ \A j \in 1..i - 1 : v[j] = w[j]

WorkCounts == \A i \in 1..5 : Work[i] \in Nat

\* Every iteration of every loop of the parser comes closer to its end, whatever
\* the message: pointers, texts of no length and records that do not parse
\* included (name.rs, rdata.rs, message.rs).
WorkShrinks == [][pc # "done" => Below(Work', Work) /\ WorkCounts']_vars

\* A parser reads no byte that is not there: an index out of range, which ends
\* the task, is left only where RRSIG and NSEC data is cut out behind a name
\* that may have run past it (rdata.rs).
OnlySlicesPanic ==
  pc = "panicked" =>
    /\ Len(fixed) >= RecordSize
    /\ fixed[1] \in {RT.RRSIG, RT.NSEC}
    /\ Len(names) = 2
    /\ offset > end

(***************************************************************************)
(* The reference for names: what a name says that begins at position q of   *)
(* the message d, and the position behind the cells it takes up there, by   *)
(* structural rules and without offsets and jumps, and how many pointers it *)
(* has.  With h the reading of the shorter names, it is the zero, a pointer *)
(* to one of them, or a label before one.                                  *)
(***************************************************************************)
NoName == [said |-> FALSE, labels |-> <<>>, behind |-> 0, pointers |-> 0]

ReadingAt(d, h, q) ==
  LET b == d[q + 1]
      target == (b - 192) * 256 + d[q + 2]
      next == q + 1 + b
  IN  IF q < Len(d) /\ b = 0
      THEN [said |-> TRUE, labels |-> <<>>, behind |-> q + 1, pointers |-> 0]
      ELSE IF q + 1 < Len(d) /\ b >= 192
           THEN [h[target] EXCEPT !.behind = q + 2, !.pointers = @ + 1]
      ELSE IF q < Len(d) /\ b \in 1..191 /\ next <= Len(d)
           THEN [h[next] EXCEPT !.labels = <<Label(SubSeq(d, q + 2, next))>> \o @]
      ELSE NoName

\* The names of n parts at most: labels, pointers and the zero.
Readings(d) ==
  LET upTo[n \in Nat] ==
        IF n = 0 THEN [q \in Nat |-> NoName]
        ELSE [q \in Nat |-> ReadingAt(d, upTo[n - 1], q)]
  IN  upTo

\* A name has no more parts than the message has cells: one that goes on for
\* longer goes round in a circle, and says nothing.
Meaning(p) == Readings(data)[Len(data)][p]

\* DnsName::parse reads what is written, through any pointers, and leaves the
\* offset behind the first of them (name.rs).
NamesMeanWhatTheySay ==
  pc \in {"fixed", "rdata"} /\ (pc = "rdata" => Len(names) > 1) =>
    /\ Meaning(from).said
    /\ names[Len(names)] = Meaning(from).labels
    /\ offset = Meaning(from).behind

\* DnsName::parse refuses no name that says something and has no more pointers
\* than it follows: an error is one of the name and not of the loop (name.rs).
NoNameRefused ==
  [][pc = "name" /\ pc' \in {"item", "failed"} =>
       ~(Meaning(from).said /\ Meaning(from).pointers <= MaxJumps)]_vars
=============================================================================
