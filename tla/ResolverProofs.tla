--------------------------- MODULE ResolverProofs ---------------------------
(***************************************************************************)
(* Theorems about Resolver, for every network (Reply), every list of       *)
(* zones, any number of tasks and any limits.                              *)
(***************************************************************************)
EXTENDS HonestNet, ZonesProofs

-----------------------------------------------------------------------------
(***************************************************************************)
(* The zones: find_zone has something to find, and what a lookup returns   *)
(* has the type that was asked for.                                        *)
(***************************************************************************)

\* find_zone of a name that lies in a zone is one of the zones.
LEMMA ZoneFound ==
  ASSUME NEW n, Enclosing(ZoneList, n) # {}
  PROVE  FindZone(ZoneList, n) \in 1..Len(ZoneList)
<1>1. \A i \in 1..Len(ZoneList) : Len(ZoneList[i].name) \in Nat
  BY ZoneAssumption, NameAssumption
<1>2. FindZone(ZoneList, n) \in Enclosing(ZoneList, n)
  BY <1>1, ZoneAssumption, ClosestFound
<1> QED
  BY <1>2 DEF Enclosing

\* ZoneStore::lookup returns records of the type asked for.
LEMMA ZoneDataTyped ==
  ASSUME NEW n, NEW type
  PROVE  /\ ZoneData(n, type) \subseteq Record
         /\ type = "CNAME" => \A r \in ZoneData(n, type) : r.type = type
<1>1. CASE Enclosing(ZoneList, n) = {}
  BY <1>1 DEF ZoneData, StoreLookup
<1>2. CASE Enclosing(ZoneList, n) # {}
  <2> DEFINE z == ZoneList[FindZone(ZoneList, n)]
  <2>1. ZoneData(n, type) = ZoneLookup(z, n, type)
    BY <1>2 DEF ZoneData, StoreLookup
  <2>2. z.records \subseteq Record /\ z.soa \in Record /\ z.ns_records \subseteq Record
    BY <1>2, ZoneFound, ZoneAssumption
  <2> HIDE DEF z
  <2> QED
    BY <2>1, <2>2 DEF ZoneLookup
<1> QED
  BY <1>1, <1>2

-----------------------------------------------------------------------------
(***************************************************************************)
(* The stack of calls.                                                     *)
(***************************************************************************)
CallFrame ==
  [pc : {"query", "ns"}, name : Name, type : Type, depth : Nat,
   servers : SUBSET Addr, last_ns : Seq(Name), todo : Seq(Name)]

ChainFrame ==
  [pc : {"target", "alias"}, name : Name, type : Type, depth : Nat,
   chain : SUBSET Record, iter : Nat]

\* A frame at depth d as the code leaves it: a call about to query has servers
\* to ask, and one that is past the depth check has passed it.
Sound(f, d) ==
  /\ f \in Frame
  /\ f.depth = d
  /\ f.depth <= MaxDepth + 1
  /\ f.pc = "query" => f.servers # {}
  /\ f.pc # "query" => f.depth <= MaxDepth

GoodStack(s) ==
  /\ s \in Seq(Frame)
  /\ \A i \in 1..Len(s) : Sound(s[i], i - 1)

\* A call that waits for another one from the loop over the NS names waits for
\* the first of those that are left.
AtName(f) == f.pc = "ns" => f.todo # <<>>

\* Every call of a stack waits for the next one; the last does so too when it
\* has a result to take.
AllWait(s) == \A i \in 1..Len(s) : AtName(s[i])
Waits(s, r) == \A i \in 1..Len(s) : i < Len(s) \/ r # Pending => AtName(s[i])

\* resolve_recursive starts with the root servers.
LEMMA RecFrameSound ==
  ASSUME NEW n \in Name, NEW type \in Type, NEW d \in Nat, d <= MaxDepth + 1
  PROVE  Sound(RecFrame(n, type, d), d) /\ RecFrame(n, type, d).pc = "query"
<1> DEFINE f == RecFrame(n, type, d)
<1>1. /\ f.pc = "query" /\ f.depth = d /\ f.servers = Roots
  BY DEF RecFrame
<1>2. f \in CallFrame
  BY RootAssumption DEF RecFrame, CallFrame
<1>3. f \in Frame
  BY <1>2 DEF Frame, CallFrame
<1>4. Sound(f, d)
  <2> HIDE DEF f
  <2> QED
    BY <1>1, <1>3, RootAssumption DEF Sound
<1> QED
  BY <1>1, <1>4

\* Which of the two functions a frame is a call of shows in its pc.
LEMMA FrameKinds ==
  ASSUME NEW f \in Frame
  PROVE  /\ f.pc \in {"query", "ns"} => f \in CallFrame
         /\ f.pc \in {"target", "alias"} => f \in ChainFrame
         /\ f.name \in Name /\ f.type \in Type /\ f.depth \in Nat
         /\ f.pc \in {"query", "ns", "target", "alias"}
BY DEF Frame, CallFrame, ChainFrame

\* A frame whose depth is that of another has as much room.
LEMMA FrameBelow ==
  ASSUME NEW s, GoodStack(s), s # <<>>
  PROVE  /\ Len(s) \in Nat \ {0}
         /\ s[Len(s)] \in Frame
         /\ s[Len(s)].depth = Len(s) - 1
         /\ Sound(s[Len(s)], Len(s) - 1)
<1>1. Len(s) \in Nat \ {0}
  BY EmptySeq DEF GoodStack
<1>2. Sound(s[Len(s)], Len(s) - 1)
  BY <1>1 DEF GoodStack
<1> QED
  BY <1>1, <1>2 DEF Sound

\* What a return leaves.
LEMMA Popped ==
  ASSUME NEW s, GoodStack(s), s # <<>>
  PROVE  /\ GoodStack(SubSeq(s, 1, Len(s) - 1))
         /\ Len(SubSeq(s, 1, Len(s) - 1)) = Len(s) - 1
         /\ \A r : Waits(s, r) => AllWait(SubSeq(s, 1, Len(s) - 1))
<1>1. Len(s) \in Nat \ {0}
  BY FrameBelow
<1> DEFINE b == SubSeq(s, 1, Len(s) - 1)
<1>2. /\ b \in Seq(Frame) /\ Len(b) = Len(s) - 1
      /\ \A i \in 1..Len(b) : b[i] = s[i]
  <2>1. \A i \in 1..(Len(s) - 1) : s[i] \in Frame
    BY <1>1 DEF GoodStack, Sound
  <2>2. 1 \in Int /\ Len(s) - 1 \in Int
    BY <1>1
  <2>3. /\ b \in Seq(Frame)
        /\ Len(b) = IF 1 <= Len(s) - 1 THEN (Len(s) - 1) - 1 + 1 ELSE 0
        /\ \A i \in 1..((Len(s) - 1) - 1 + 1) : b[i] = s[1 + i - 1]
    BY <2>1, <2>2, SubSeqProperties
  <2> HIDE DEF b
  <2>4. Len(b) = Len(s) - 1
    <3>1. Len(b) = IF 1 <= Len(s) - 1 THEN (Len(s) - 1) - 1 + 1 ELSE 0
      BY <2>3
    <3>2. CASE Len(s) = 1
      BY <3>1, <3>2
    <3>3. CASE Len(s) > 1
      BY <1>1, <3>1, <3>3
    <3> QED
      BY <1>1, <3>2, <3>3
  <2>5. \A i \in 1..Len(b) : i \in 1..((Len(s) - 1) - 1 + 1) /\ 1 + i - 1 = i
    BY <1>1, <2>4
  <2> QED
    BY <2>3, <2>4, <2>5
<1>3. \A i \in 1..Len(b) : i \in 1..Len(s) /\ i < Len(s)
  BY <1>1, <1>2
<1> HIDE DEF b
<1>4. GoodStack(b)
  BY <1>2, <1>3 DEF GoodStack
<1>5. \A r : Waits(s, r) => AllWait(b)
  BY <1>2, <1>3 DEF Waits, AllWait
<1> QED
  BY <1>2, <1>4, <1>5 DEF b

\* What a call adds.
LEMMA Pushed ==
  ASSUME NEW s, GoodStack(s), NEW f, Sound(f, Len(s))
  PROVE  /\ GoodStack(s \o <<f>>)
         /\ Len(s \o <<f>>) = Len(s) + 1
         /\ AllWait(s) => Waits(s \o <<f>>, Pending)
<1> DEFINE p == s \o <<f>>
<1>1. /\ <<f>> \in Seq(Frame) /\ Len(<<f>>) = 1 /\ <<f>>[1] = f
  BY DEF Sound
<1>2. /\ p \in Seq(Frame) /\ Len(p) = Len(s) + 1 /\ Len(s) \in Nat
      /\ \A i \in 1..Len(s) : p[i] = s[i]
      /\ p[Len(s) + 1] = f
  BY <1>1, ConcatProperties DEF GoodStack
<1> HIDE DEF p
<1>3. \A i \in 1..Len(p) : Sound(p[i], i - 1)
  <2> SUFFICES ASSUME NEW i \in 1..Len(p) PROVE Sound(p[i], i - 1)
    OBVIOUS
  <2>1. CASE i \in 1..Len(s)
    BY <1>2, <2>1 DEF GoodStack
  <2>2. CASE i = Len(s) + 1
    BY <1>2, <2>2
  <2> QED
    BY <1>2, <2>1, <2>2
<1>4. GoodStack(p)
  BY <1>2, <1>3 DEF GoodStack
<1>5. AllWait(s) => Waits(p, Pending)
  BY <1>2 DEF Waits, AllWait
<1> QED
  BY <1>2, <1>4, <1>5 DEF p

\* A call that turns into another waits for a third: both frames at once.
LEMMA PushedTwo ==
  ASSUME NEW s, GoodStack(s), NEW f, Sound(f, Len(s)),
         NEW g, Sound(g, Len(s) + 1)
  PROVE  /\ GoodStack(s \o <<f, g>>)
         /\ AllWait(s) /\ AtName(f) => Waits(s \o <<f, g>>, Pending)
<1> DEFINE p == s \o <<f, g>>
<1>1. /\ <<f, g>> \in Seq(Frame) /\ Len(<<f, g>>) = 2
      /\ <<f, g>>[1] = f /\ <<f, g>>[2] = g
  BY DEF Sound
<1>2. /\ p \in Seq(Frame) /\ Len(p) = Len(s) + 2 /\ Len(s) \in Nat
      /\ \A i \in 1..Len(s) : p[i] = s[i]
      /\ p[Len(s) + 1] = f /\ p[Len(s) + 2] = g
  BY <1>1, ConcatProperties DEF GoodStack
<1> HIDE DEF p
<1>3. \A i \in 1..Len(p) : Sound(p[i], i - 1)
  <2> SUFFICES ASSUME NEW i \in 1..Len(p) PROVE Sound(p[i], i - 1)
    OBVIOUS
  <2>1. CASE i \in 1..Len(s)
    BY <1>2, <2>1 DEF GoodStack
  <2>2. CASE i = Len(s) + 1 \/ i = Len(s) + 2
    <3>1. i - 1 = Len(s) \/ i - 1 = Len(s) + 1
      BY <1>2, <2>2
    <3> QED
      BY <1>2, <2>2, <3>1
  <2> QED
    BY <1>2, <2>1, <2>2
<1>4. GoodStack(p)
  BY <1>2, <1>3 DEF GoodStack
<1>5. AllWait(s) /\ AtName(f) => Waits(p, Pending)
  <2> SUFFICES ASSUME AllWait(s), AtName(f), NEW i \in 1..Len(p), i < Len(p)
               PROVE  AtName(p[i])
    BY DEF Waits
  <2>1. i \in 1..Len(s) \/ i = Len(s) + 1
    BY <1>2
  <2> QED
    BY <1>2, <2>1 DEF AllWait
<1> QED
  BY <1>4, <1>5 DEF p

\* The bound on the nesting is a property of every good stack.
LEMMA GoodStackBounded ==
  ASSUME NEW s, GoodStack(s)
  PROVE  /\ Len(s) <= MaxDepth + 2
         /\ \A i \in 1..Len(s) : s[i].depth = i - 1
<1>1. Len(s) \in Nat
  BY LenProperties DEF GoodStack
<1>2. CASE s = <<>>
  BY <1>2, LimitAssumption, EmptySeq DEF GoodStack
<1>3. CASE s # <<>>
  <2>1. s[Len(s)].depth = Len(s) - 1 /\ s[Len(s)].depth <= MaxDepth + 1
    BY <1>3, FrameBelow DEF Sound
  <2> QED
    BY <1>1, <2>1, LimitAssumption DEF GoodStack, Sound
<1> QED
  BY <1>2, <1>3

\* follow_cname_chain starts with two calls, one below the other, each within
\* the limit if its caller is.
LEMMA ChainCallsSound ==
  ASSUME NEW alias, alias.value \in Name, NEW recs \in SUBSET Record,
         NEW type \in Type, NEW d \in Nat, d <= MaxDepth
  PROVE  \E f, g : /\ ChainCalls(alias, recs, type, d) = <<f, g>>
                   /\ Sound(f, d) /\ Sound(g, d + 1) /\ AtName(f)
<1> DEFINE f == [pc |-> "target", name |-> alias.value, type |-> type,
                 depth |-> d, chain |-> recs, iter |-> 0]
           g == RecFrame(alias.value, type, d + 1)
<1>1. f \in ChainFrame /\ f.pc = "target" /\ f.depth = d
  BY DEF ChainFrame
<1>2. f \in Frame
  BY <1>1 DEF Frame, ChainFrame
<1>3. Sound(f, d)
  <2> HIDE DEF f
  <2> QED
    BY <1>1, <1>2, LimitAssumption DEF Sound
<1>4. Sound(g, d + 1)
  BY RecFrameSound, LimitAssumption
<1>5. ChainCalls(alias, recs, type, d) = <<f, g>>
  BY DEF ChainCalls
<1>6. AtName(f)
  BY DEF AtName
<1> QED
  BY <1>3, <1>4, <1>5, <1>6

\* The stacks resolve starts with.
LEMMA FirstStacks ==
  /\ GoodStack(<<>>) /\ AllWait(<<>>)
  /\ \A f : Sound(f, 0) => GoodStack(<<f>>) /\ Waits(<<f>>, Pending)
  /\ \A f, g : Sound(f, 0) /\ Sound(g, 1) /\ AtName(f) =>
       GoodStack(<<f, g>>) /\ Waits(<<f, g>>, Pending)
<1>1. GoodStack(<<>>) /\ AllWait(<<>>)
  BY EmptySeq DEF GoodStack, AllWait
<1>2. ASSUME NEW f, Sound(f, 0)
      PROVE  GoodStack(<<f>>) /\ Waits(<<f>>, Pending)
  <2>1. <<f>> \in Seq(Frame) /\ Len(<<f>>) = 1 /\ <<f>>[1] = f
    BY <1>2 DEF Sound
  <2>2. GoodStack(<<f>>)
    BY <1>2, <2>1 DEF GoodStack
  <2>3. Waits(<<f>>, Pending)
    BY <2>1 DEF Waits
  <2> QED
    BY <2>2, <2>3
<1>3. ASSUME NEW f, NEW g, Sound(f, 0), Sound(g, 1), AtName(f)
      PROVE  GoodStack(<<f, g>>) /\ Waits(<<f, g>>, Pending)
  <2>1. /\ <<f, g>> \in Seq(Frame) /\ Len(<<f, g>>) = 2
        /\ <<f, g>>[1] = f /\ <<f, g>>[2] = g
    BY <1>3 DEF Sound
  <2>2. GoodStack(<<f, g>>)
    BY <1>3, <2>1 DEF GoodStack
  <2>3. Waits(<<f, g>>, Pending)
    BY <1>3, <2>1 DEF Waits
  <2> QED
    BY <2>2, <2>3
<1> QED
  BY <1>1, <1>2, <1>3

-----------------------------------------------------------------------------
(***************************************************************************)
(* The cache.                                                              *)
(***************************************************************************)
GoodCache(c) ==
  /\ DOMAIN c \subseteq Name \X Type
  /\ \A k \in DOMAIN c : /\ c[k] \subseteq Record
                         /\ c[k] # {}
                         /\ \A r \in c[k] : r.type = k[2]

\* What the resolver may do with the value of a record.
LEMMA RecordParts ==
  ASSUME NEW r \in Record
  PROVE  /\ r.name \in Name /\ r.type \in Type
         /\ r.type \in {"CNAME", "NS"} => r.value \in Name
         /\ r.type = "A" => r.value \in Addr
<1>1. /\ r.name \in Name /\ r.type \in Type
      /\ r.value \in Value(r.type)
  BY DEF Record
<1>2. r.type \in {"CNAME", "NS"} => r.value \in Name
  BY <1>1 DEF Value
<1>3. r.type = "A" => r.value \in Addr
  BY <1>1 DEF Value
<1> QED
  BY <1>1, <1>2, <1>3

\* An insert of records of one type under that type.
LEMMA InsertGood ==
  ASSUME GoodCache(cache), NEW n \in Name, NEW type \in Type,
         NEW recs \in SUBSET Record, \A r \in recs : r.type = type
  PROVE  GoodCache(Insert(n, type, recs))
<1> DEFINE k0 == <<n, type>>
           c == [k \in DOMAIN cache \cup {k0} |->
                   IF k = k0 THEN recs ELSE cache[k]]
<1>1. CASE recs = {} \/ recs \cap Uncached # {}
  BY <1>1 DEF Insert
<1>2. CASE ~(recs = {} \/ recs \cap Uncached # {})
  <2>1. Insert(n, type, recs) = c
    BY <1>2 DEF Insert
  <2>2. k0 \in Name \X Type /\ k0[2] = type
    OBVIOUS
  <2>3. /\ DOMAIN c = DOMAIN cache \cup {k0}
        /\ \A k \in DOMAIN c : c[k] = IF k = k0 THEN recs ELSE cache[k]
    OBVIOUS
  <2> HIDE DEF c, k0
  <2>4. GoodCache(c)
    BY <1>2, <2>2, <2>3 DEF GoodCache
  <2> QED
    BY <2>1, <2>4
<1> QED
  BY <1>1, <1>2

\* The cache, with what each task has yet to put into it.
Stored(c, o) ==
  GoodCache(c) /\ o \in [Task -> SUBSET [at : Nat, record : Record]]

-----------------------------------------------------------------------------
(***************************************************************************)
(* The inductive invariant.  CallsBounded alone is not inductive: whether  *)
(* a call may start another shows in the depth and the pc of its frame,    *)
(* and what it asks about in the types of the records it read, some of     *)
(* them from the cache.                                                    *)
(***************************************************************************)
IInv ==
  /\ TypeOK
  /\ \A t \in Task : GoodStack(stack[t]) /\ Waits(stack[t], result[t])
  /\ GoodCache(cache)

\* The steps that leave both alone.
LEMMA StoredKept ==
  ASSUME IInv, UNCHANGED <<cache, owed>>
  PROVE  Stored(cache', owed')
BY DEF IInv, TypeOK, Stored

\* The invariant implies what the runs check.
LEMMA InvImplies == IInv => CallsBounded /\ ServersKnown /\ CacheTyped
<1> SUFFICES ASSUME IInv PROVE CallsBounded /\ ServersKnown /\ CacheTyped
  OBVIOUS
<1>1. CallsBounded
  BY GoodStackBounded DEF IInv, CallsBounded
<1>2. ServersKnown
  <2> SUFFICES ASSUME NEW t \in Task, Querying(t) PROVE Top(t).servers # {}
    BY DEF ServersKnown
  <2>1. GoodStack(stack[t]) /\ stack[t] # <<>> /\ Top(t).pc = "query"
    BY DEF IInv, Querying, Active
  <2>2. Sound(Top(t), Len(stack[t]) - 1)
    BY <2>1, FrameBelow DEF Top
  <2> QED
    BY <2>1, <2>2 DEF Sound
<1>3. CacheTyped
  BY DEF IInv, CacheTyped, GoodCache
<1> QED
  BY <1>1, <1>2, <1>3

\* It holds before anyone has asked.
LEMMA InitInv == Init => IInv
<1> SUFFICES ASSUME Init PROVE IInv
  OBVIOUS
<1>1. Pending \in Result
  BY DEF Pending, Result
<1>2. TypeOK
  BY <1>1, EmptySeq DEF Init, TypeOK
<1>3. \A t \in Task : GoodStack(stack[t]) /\ Waits(stack[t], result[t])
  BY FirstStacks DEF Init, AllWait, Waits
<1>4. GoodCache(cache)
  BY DEF Init, GoodCache
<1> QED
  BY <1>2, <1>3, <1>4 DEF IInv

(***************************************************************************)
(* The four ways a step changes the calls of its task.                     *)
(***************************************************************************)

\* The call of Top(t), and what is below it.
LEMMA TopFrame ==
  ASSUME IInv, NEW t \in Task, Active(t)
  PROVE  /\ Len(stack[t]) \in Nat \ {0}
         /\ Sound(Top(t), Len(stack[t]) - 1)
         /\ Top(t) \in Frame
         /\ Top(t).depth = Len(stack[t]) - 1
         /\ GoodStack(Below(t)) /\ Len(Below(t)) = Len(stack[t]) - 1
         /\ AllWait(Below(t))
         /\ result[t] # Pending => AtName(Top(t))
<1>1. GoodStack(stack[t]) /\ stack[t] # <<>> /\ Waits(stack[t], result[t])
  BY DEF IInv, Active
<1>2. result[t] # Pending => AtName(Top(t))
  BY <1>1, FrameBelow DEF Waits, Top
<1> QED
  BY <1>1, <1>2, FrameBelow, Popped DEF Top, Below

\* A step that replaces the stack of its task by a good one, and its result.
LEMMA StackStep ==
  ASSUME IInv, NEW t \in Task, NEW s, GoodStack(s), NEW r \in Result,
         Waits(s, r),
         stack' = [stack EXCEPT ![t] = s],
         result' = [result EXCEPT ![t] = r],
         asked' \in [Task -> Question],
         phase' \in [Task -> {"idle", "cache", "alias", "calls"}],
         Stored(cache', owed')
  PROVE  IInv'
<1>1. s \in Seq(Frame)
  BY DEF GoodStack
<1>2. stack' \in [Task -> Seq(Frame)] /\ result' \in [Task -> Result]
  BY <1>1 DEF IInv, TypeOK
<1>3. TypeOK'
  BY <1>2 DEF TypeOK, GoodCache, Stored
<1>4. ASSUME NEW u \in Task
      PROVE  GoodStack(stack'[u]) /\ Waits(stack'[u], result'[u])
  <2>1. /\ stack'[u] = IF u = t THEN s ELSE stack[u]
        /\ result'[u] = IF u = t THEN r ELSE result[u]
    BY DEF IInv, TypeOK
  <2>2. GoodStack(stack[u]) /\ Waits(stack[u], result[u])
    BY DEF IInv
  <2> QED
    BY <2>1, <2>2
<1> QED
  BY <1>3, <1>4 DEF IInv, Stored

LEMMA ReturnStep ==
  ASSUME IInv, NEW t \in Task, Active(t), NEW r \in Result, Return(t, r),
         Stored(cache', owed')
  PROVE  IInv'
<1>1. GoodStack(Below(t)) /\ Waits(Below(t), r)
  BY TopFrame DEF AllWait, Waits
<1>2. /\ asked' \in [Task -> Question]
      /\ phase' \in [Task -> {"idle", "cache", "alias", "calls"}]
  BY DEF Return, IInv, TypeOK
<1> QED
  BY <1>1, <1>2, StackStep DEF Return

LEMMA ContinueStep ==
  ASSUME IInv, NEW t \in Task, NEW fs, GoodStack(Below(t) \o fs),
         Waits(Below(t) \o fs, Pending),
         Continue(t, fs), Stored(cache', owed')
  PROVE  IInv'
<1>1. Pending \in Result
  BY DEF Pending, Result
<1>2. /\ asked' \in [Task -> Question]
      /\ phase' \in [Task -> {"idle", "cache", "alias", "calls"}]
  BY DEF Continue, IInv, TypeOK
<1> QED
  BY <1>1, <1>2, StackStep DEF Continue

LEMMA OneFrameStep ==
  ASSUME IInv, NEW t \in Task, Active(t), NEW f, Sound(f, Top(t).depth),
         Continue(t, <<f>>), Stored(cache', owed')
  PROVE  IInv'
<1>1. /\ GoodStack(Below(t)) /\ Len(Below(t)) = Top(t).depth
      /\ AllWait(Below(t))
  BY TopFrame
<1>2. GoodStack(Below(t) \o <<f>>) /\ Waits(Below(t) \o <<f>>, Pending)
  BY <1>1, Pushed
<1> QED
  BY <1>2, ContinueStep

LEMMA TwoFramesStep ==
  ASSUME IInv, NEW t \in Task, Active(t), NEW f, Sound(f, Top(t).depth),
         NEW g, Sound(g, Top(t).depth + 1), AtName(f),
         Continue(t, <<f, g>>), Stored(cache', owed')
  PROVE  IInv'
<1>1. /\ GoodStack(Below(t)) /\ Len(Below(t)) = Top(t).depth
      /\ AllWait(Below(t))
  BY TopFrame
<1>2. GoodStack(Below(t) \o <<f, g>>) /\ Waits(Below(t) \o <<f, g>>, Pending)
  BY <1>1, PushedTwo
<1> QED
  BY <1>2, ContinueStep

LEMMA CallsStep ==
  ASSUME IInv, NEW t \in Task, NEW s, GoodStack(s), NEW r \in Result,
         Waits(s, r), Calls(t, s, r)
  PROVE  IInv'
<1>1. /\ asked' \in [Task -> Question]
      /\ phase' \in [Task -> {"idle", "cache", "alias", "calls"}]
      /\ Stored(cache', owed')
  BY StoredKept DEF Calls, IInv, TypeOK
<1> QED
  BY <1>1, StackStep DEF Calls

LEMMA BeginStep ==
  ASSUME IInv, NEW t \in Task, NEW q \in Question, NEW s, GoodStack(s),
         NEW r \in Result, Waits(s, r), NEW ph \in {"cache", "calls"}, Begin(t, q, ph, s, r)
  PROVE  IInv'
<1>1. /\ asked' \in [Task -> Question]
      /\ phase' \in [Task -> {"idle", "cache", "alias", "calls"}]
      /\ Stored(cache', owed')
  BY StoredKept DEF Begin, IInv, TypeOK
<1> QED
  BY <1>1, StackStep DEF Begin

-----------------------------------------------------------------------------
(***************************************************************************)
(* The steps.                                                              *)
(***************************************************************************)
LEMMA Results ==
  /\ \A recs \in SUBSET Record : Ok(recs) \in Result
  /\ Err("ServerFailure") \in Result /\ Err("NameError") \in Result
  /\ Pending \in Result
BY DEF Ok, Err, Pending, Result

LEMMA QuestionParts ==
  ASSUME NEW q \in Question
  PROVE  q.name \in Name /\ q.type \in Type
BY QuestionAssumption

\* resolve, as far as the zones take it.
LEMMA AskInv ==
  ASSUME IInv, NEW t \in Task, NEW q \in Question, Ask(t, q)
  PROVE  IInv'
<1> USE LimitAssumption
<1>1. CASE AskFound(t, q)
  <2>1. Ok(ZoneData(q.name, q.type)) \in Result
    BY ZoneDataTyped, Results
  <2> QED
    BY <1>1, <2>1, FirstStacks, BeginStep DEF AskFound, AllWait, Waits
<1>2. CASE AskAlias(t, q)
  <2> DEFINE recs == ZoneData(q.name, "CNAME")
  <2>1. PICK alias \in recs :
          Begin(t, q, "calls", ChainCalls(alias, recs, q.type, 0), Pending)
    BY <1>2 DEF AskAlias
  <2>2. recs \in SUBSET Record /\ alias.value \in Name
    <3>1. recs \subseteq Record /\ alias.type = "CNAME"
      BY <2>1, ZoneDataTyped
    <3> QED
      BY <2>1, <3>1, RecordParts
  <2> HIDE DEF recs
  <2>3. PICK f, g : /\ ChainCalls(alias, recs, q.type, 0) = <<f, g>>
                    /\ Sound(f, 0) /\ Sound(g, 0 + 1) /\ AtName(f)
    BY <2>2, QuestionParts, ChainCallsSound
  <2>4. /\ GoodStack(ChainCalls(alias, recs, q.type, 0))
        /\ Waits(ChainCalls(alias, recs, q.type, 0), Pending)
    BY <2>3, FirstStacks
  <2> QED
    BY <2>1, <2>4, Results, BeginStep
<1>3. CASE AskNoData(t, q)
  BY <1>3, FirstStacks, Results, BeginStep DEF AskNoData, AllWait, Waits
<1>4. CASE AskOutside(t, q)
  BY <1>4, FirstStacks, Results, BeginStep DEF AskOutside, AllWait, Waits
<1> QED
  BY <1>1, <1>2, <1>3, <1>4 DEF Ask

\* resolve, as far as the cache takes it.
LEMMA LookupInv ==
  ASSUME IInv, NEW t \in Task,
         LookupHit(t) \/ LookupMiss(t) \/ LookupAlias(t) \/ Recurse(t)
  PROVE  IInv'
<1> USE LimitAssumption
<1>1. asked[t] \in Question /\ asked[t].name \in Name /\ asked[t].type \in Type
  BY QuestionParts DEF IInv, TypeOK
<1>2. CASE LookupHit(t)
  <2>1. Ok(cache[<<asked[t].name, asked[t].type>>]) \in Result
    BY <1>2, Results DEF LookupHit, Cached, IInv, GoodCache
  <2> QED
    BY <1>2, <2>1, FirstStacks, CallsStep DEF LookupHit, AllWait, Waits
<1>3. CASE LookupMiss(t)
  BY <1>3 DEF LookupMiss, IInv, TypeOK
<1>4. CASE LookupAlias(t)
  <2> DEFINE recs == cache[<<asked[t].name, "CNAME">>]
  <2>1. PICK alias \in recs :
          Calls(t, ChainCalls(alias, recs, asked[t].type, 0), Pending)
    BY <1>4 DEF LookupAlias
  <2>2. recs \in SUBSET Record /\ alias.value \in Name
    <3>1. /\ recs \subseteq Record
          /\ \A r \in recs : r.type = "CNAME"
      BY <1>4 DEF LookupAlias, Cached, IInv, GoodCache
    <3> QED
      BY <2>1, <3>1, RecordParts
  <2> HIDE DEF recs
  <2>3. PICK f, g : /\ ChainCalls(alias, recs, asked[t].type, 0) = <<f, g>>
                    /\ Sound(f, 0) /\ Sound(g, 0 + 1) /\ AtName(f)
    BY <1>1, <2>2, ChainCallsSound
  <2>4. /\ GoodStack(ChainCalls(alias, recs, asked[t].type, 0))
        /\ Waits(ChainCalls(alias, recs, asked[t].type, 0), Pending)
    BY <2>3, FirstStacks
  <2> QED
    BY <2>1, <2>4, Results, CallsStep
<1>5. CASE Recurse(t)
  <2>1. Sound(RecFrame(asked[t].name, asked[t].type, 0), 0)
    BY <1>1, RecFrameSound
  <2> QED
    BY <1>5, <2>1, FirstStacks, Results, CallsStep DEF Recurse
<1> QED
  BY <1>2, <1>3, <1>4, <1>5

\* What a message of the network is.
LEMMA MessageParts ==
  ASSUME NEW a \in Addr, NEW n \in Name, NEW type \in Type,
         NEW m \in Reply(a, n, type)
  PROVE  /\ m.answers \in SUBSET Record
         /\ m.ns \in Seq(Record) /\ m.additional \in Seq(Record)
         /\ NsNames(m) \in Seq(Name)
         /\ GlueAt(m) \subseteq 1..Len(m.additional)
         /\ GlueAddrs(m) \subseteq Addr
<1>1. /\ m \in Message
      /\ \A i \in 1..Len(m.ns) : m.ns[i].type = "NS"
      /\ \A i \in 1..Len(m.additional) : m.additional[i].type = "A"
  BY ReplyAssumption
<1>2. /\ m.answers \in SUBSET Record
      /\ m.ns \in Seq(Record) /\ m.additional \in Seq(Record)
  BY <1>1 DEF Message
<1>3. Len(m.ns) \in Nat
  BY <1>2, LenProperties
<1>4. \A i \in 1..Len(m.ns) : m.ns[i].value \in Name
  BY <1>1, <1>2, ElementOfSeq, RecordParts
<1>5. NsNames(m) \in Seq(Name)
  BY <1>3, <1>4 DEF NsNames
<1>6. \A i \in 1..Len(m.additional) : m.additional[i].value \in Addr
  BY <1>1, <1>2, ElementOfSeq, RecordParts
<1>7. GlueAt(m) \subseteq 1..Len(m.additional)
  BY DEF GlueAt
<1>8. GlueAddrs(m) \subseteq Addr
  BY <1>6, <1>7 DEF GlueAddrs
<1> QED
  BY <1>2, <1>5, <1>7, <1>8

\* The call that finds the limit passed.
LEMMA TooDeepInv ==
  ASSUME IInv, NEW t \in Task, GiveUpTooDeep(t)
  PROVE  IInv'
<1>1. Active(t) /\ Return(t, Err("ServerFailure")) /\ Stored(cache', owed')
  BY StoredKept DEF GiveUpTooDeep, TooDeep
<1> QED
  BY <1>1, Results, ReturnStep

\* What a referral brings: records, in their places.
LEMMA InsertsOwed ==
  ASSUME NEW m, m.ns \in Seq(Record), m.additional \in Seq(Record)
  PROVE  /\ Inserts(m) \in SUBSET [at : Nat, record : Record]
         /\ \A e \in Inserts(m) : \/ \E i \in 1..Len(m.ns) : e.record = m.ns[i]
                                 \/ \E i \in GlueAt(m) : e.record = m.additional[i]
<1> DEFINE names == {[at |-> i, record |-> m.ns[i]] : i \in 1..Len(m.ns)}
           glue == {[at |-> Len(m.ns) + i, record |-> m.additional[i]] : i \in GlueAt(m)}
<1>1. Len(m.ns) \in Nat /\ \A i \in 1..Len(m.ns) : i \in Nat /\ m.ns[i] \in Record
  BY ElementOfSeq, LenProperties
<1>2. \A i \in GlueAt(m) : Len(m.ns) + i \in Nat /\ m.additional[i] \in Record
  BY <1>1, ElementOfSeq, LenProperties DEF GlueAt
<1>3. /\ names \subseteq [at : Nat, record : Record]
      /\ \A e \in names : \E i \in 1..Len(m.ns) : e.record = m.ns[i]
  BY <1>1
<1>4. /\ glue \subseteq [at : Nat, record : Record]
      /\ \A e \in glue : \E i \in GlueAt(m) : e.record = m.additional[i]
  BY <1>2
<1>5. Inserts(m) = names \cup glue
  BY DEF Inserts
<1> HIDE DEF names, glue
<1> QED
  BY <1>3, <1>4, <1>5

LEMMA StoredOwed ==
  ASSUME IInv, NEW t \in Task, NEW m, CacheReferral(t, m),
         m.ns \in Seq(Record), m.additional \in Seq(Record)
  PROVE  Stored(cache', owed')
BY InsertsOwed DEF CacheReferral, IInv, TypeOK, Stored

\* The next of its inserts.
LEMMA InsertNextInv ==
  ASSUME IInv, NEW t \in Task, InsertNext(t)
  PROVE  IInv'
<1>1. PICK e \in owed[t] :
        /\ cache' = Insert(e.record.name, e.record.type, {e.record})
        /\ owed' = [owed EXCEPT ![t] = @ \ {e}]
        /\ UNCHANGED <<asked, phase, stack, result>>
  BY DEF InsertNext
<1>2. owed[t] \in SUBSET [at : Nat, record : Record] /\ e.record \in Record
  BY DEF IInv, TypeOK
<1>3. GoodCache(cache')
  <2> DEFINE r == e.record
  <2>1. r.name \in Name /\ r.type \in Type /\ {r} \in SUBSET Record
    BY <1>2, RecordParts
  <2> HIDE DEF r
  <2>2. GoodCache(Insert(r.name, r.type, {r}))
    BY <2>1, InsertGood DEF IInv
  <2> QED
    BY <1>1, <2>2 DEF r
<1>4. owed' \in [Task -> SUBSET [at : Nat, record : Record]]
  <2>1. owed[t] \ {e} \in SUBSET [at : Nat, record : Record]
    BY <1>2
  <2> QED
    BY <1>1, <2>1 DEF IInv, TypeOK
<1>5. TypeOK'
  BY <1>1, <1>3, <1>4 DEF IInv, TypeOK, GoodCache
<1> QED
  BY <1>1, <1>3, <1>5 DEF IInv

\* Whatever the answer to a query is, what becomes of it keeps the invariant.
LEMMA QueryInv ==
  ASSUME IInv, NEW t \in Task, Query(t)
  PROVE  IInv'
<1> USE LimitAssumption
<1>1. /\ Active(t) /\ Top(t).pc = "query" /\ Top(t).depth <= MaxDepth
      /\ Top(t) \in Frame /\ Sound(Top(t), Top(t).depth)
      /\ Top(t).depth \in Nat
  <2>1. Active(t) /\ Top(t).pc = "query" /\ Top(t).depth <= MaxDepth
    BY DEF Query, Querying
  <2>2. Top(t) \in Frame
    BY <2>1, TopFrame
  <2> QED
    BY <2>1, <2>2, TopFrame, FrameKinds
<1>2. Top(t) \in CallFrame /\ Top(t).name \in Name /\ Top(t).type \in Type
  BY <1>1, FrameKinds
<1>3. PICK a \in Top(t).servers :
        \E m \in Reply(a, Top(t).name, Top(t).type) : Receive(t, m)
  BY DEF Query
<1>4. PICK m \in Reply(a, Top(t).name, Top(t).type) : Receive(t, m)
  BY <1>3
<1>5. a \in Addr
  BY <1>2 DEF CallFrame
<1>6. /\ m.answers \in SUBSET Record
      /\ m.ns \in Seq(Record) /\ m.additional \in Seq(Record)
      /\ NsNames(m) \in Seq(Name)
      /\ GlueAt(m) \subseteq 1..Len(m.additional)
      /\ GlueAddrs(m) \subseteq Addr
  BY <1>2, <1>5, MessageParts
<1>7. /\ GoodCache(cache) /\ Stored(cache, owed)
      /\ UNCHANGED <<cache, owed>> => Stored(cache', owed')
  BY StoredKept DEF IInv, TypeOK, Stored
<1>8. CASE NoMessage(t, m) \/ NoSuchName(t, m) \/ Lame(t, m)
  BY <1>1, <1>7, <1>8, Results, ReturnStep DEF NoMessage, NoSuchName, Lame
<1>9. CASE AnswerOther(t, m) \/ NoData(t, m)
  <2>1. Ok({}) \in Result
    BY Results
  <2> QED
    BY <1>1, <1>7, <1>9, <2>1, ReturnStep DEF AnswerOther, NoData
<1>10. CASE Answer(t, m)
  <2>1. /\ Wanted(t, m) \in SUBSET Record
        /\ \A r \in Wanted(t, m) : r.type = Top(t).type
    BY <1>6 DEF Wanted
  <2>2. Stored(cache', owed')
    BY <1>2, <1>7, <1>10, <2>1, InsertGood DEF Answer, Stored
  <2>3. Ok(Wanted(t, m)) \in Result
    BY <2>1, Results
  <2> QED
    BY <1>1, <1>10, <2>2, <2>3, ReturnStep DEF Answer
<1>11. CASE AnswerAlias(t, m)
  <2> DEFINE recs == Aliases(t, m)
             d == Top(t).depth
  <2>1. recs \in SUBSET Record /\ \A r \in recs : r.type = "CNAME"
    BY <1>6 DEF Aliases
  <2>2. Stored(cache', owed')
    BY <1>2, <1>7, <1>11, <2>1, InsertGood, TypeAssumption DEF AnswerAlias, Stored
  <2>3. PICK alias \in recs :
          Continue(t, ChainCalls(alias, recs, Top(t).type, d))
    BY <1>11 DEF AnswerAlias
  <2>4. alias.value \in Name
    BY <2>1, <2>3, RecordParts
  <2> HIDE DEF recs
  <2>5. PICK f, g : /\ ChainCalls(alias, recs, Top(t).type, d) = <<f, g>>
                    /\ Sound(f, d) /\ Sound(g, d + 1) /\ AtName(f)
    BY <1>1, <1>2, <2>1, <2>4, ChainCallsSound
  <2>6. Continue(t, <<f, g>>)
    BY <2>3, <2>5
  <2> QED
    BY <1>1, <2>2, <2>5, <2>6, TwoFramesStep
<1>12. CASE SameReferral(t, m) \/ ReferralGlue(t, m) \/ ReferralNames(t, m)
  <2>1. Stored(cache', owed')
    BY <1>6, <1>12, StoredOwed
       DEF SameReferral, ReferralGlue, ReferralNames
  <2>2. CASE SameReferral(t, m)
    BY <1>1, <2>1, <2>2, Results, ReturnStep DEF SameReferral
  <2>3. CASE ReferralGlue(t, m)
    <3> DEFINE g == [Top(t) EXCEPT !.last_ns = NsNames(m),
                                   !.servers = GlueAddrs(m)]
    <3>1. GlueAddrs(m) # {}
      BY <2>3 DEF ReferralGlue, GlueAddrs
    <3>2. /\ g \in CallFrame
          /\ g.pc = "query" /\ g.servers = GlueAddrs(m) /\ g.depth = Top(t).depth
      BY <1>1, <1>2, <1>6 DEF CallFrame
    <3>3. Continue(t, <<g>>)
      BY <2>3 DEF ReferralGlue
    <3> HIDE DEF g
    <3>4. Sound(g, Top(t).depth)
      BY <1>1, <3>1, <3>2 DEF Sound, Frame, CallFrame
    <3> QED
      BY <1>1, <2>1, <3>3, <3>4, OneFrameStep
  <2>4. CASE ReferralNames(t, m)
    <3> DEFINE g == [Top(t) EXCEPT !.last_ns = NsNames(m),
                                   !.pc = "ns", !.todo = NsNames(m)]
    <3>2. g \in CallFrame /\ g.pc = "ns" /\ g.depth = Top(t).depth
      BY <1>1, <1>2, <1>6 DEF CallFrame
    <3>3. Continue(t, <<g>>)
      BY <2>4 DEF ReferralNames
    <3> HIDE DEF g
    <3>4. Sound(g, Top(t).depth)
      BY <1>1, <3>2 DEF Sound, Frame, CallFrame
    <3> QED
      BY <1>1, <2>1, <3>3, <3>4, OneFrameStep
  <2> QED
    BY <1>12, <2>2, <2>3, <2>4
<1> QED
  BY <1>4, <1>8, <1>9, <1>10, <1>11, <1>12 DEF Receive

\* What the loop over the NS names makes of the records of one of them.
LEMMA NextServerSound ==
  ASSUME NEW f \in CallFrame, f.pc = "ns", Sound(f, f.depth), f.todo # <<>>,
         NEW recs \in SUBSET Record
  PROVE  Sound(NextServer(f, recs), f.depth)
<1>1. Addresses(recs) \subseteq Addr
  BY RecordParts DEF Addresses
<1>2. CASE Addresses(recs) # {}
  <2> DEFINE g == [f EXCEPT !.pc = "query", !.servers = Addresses(recs),
                            !.todo = <<>>]
  <2>1. /\ g \in CallFrame
        /\ g.pc = "query" /\ g.servers = Addresses(recs) /\ g.depth = f.depth
    <3>1. <<>> \in Seq(Name)
      BY EmptySeq
    <3> QED
      BY <1>1, <3>1 DEF CallFrame
  <2>2. NextServer(f, recs) = g
    BY <1>2 DEF NextServer
  <2> HIDE DEF g
  <2> QED
    BY <1>2, <2>1, <2>2 DEF Sound, Frame, CallFrame
<1>3. CASE Addresses(recs) = {}
  <2> DEFINE g == [f EXCEPT !.todo = Tail(f.todo)]
  <2>1. Tail(f.todo) \in Seq(Name)
    BY HeadTailProperties DEF CallFrame
  <2>2. g \in CallFrame /\ g.pc = "ns" /\ g.depth = f.depth
    BY <2>1 DEF CallFrame
  <2>3. NextServer(f, recs) = g
    BY <1>3 DEF NextServer
  <2> HIDE DEF g
  <2> QED
    BY <2>2, <2>3 DEF Sound, Frame, CallFrame
<1> QED
  BY <1>2, <1>3

\* A result is there for the innermost call to use.
LEMMA ResultParts ==
  ASSUME IInv, NEW t \in Task
  PROVE  result[t] \in Result /\ result[t].records \in SUBSET Record
BY DEF IInv, TypeOK, Result

\* The loop over the NS names of a referral without glue.
LEMMA NsInv ==
  ASSUME IInv, NEW t \in Task,
         NsCached(t) \/ NsResolve(t) \/ NsReturned(t) \/ NsExhausted(t)
  PROVE  IInv'
<1> USE LimitAssumption
<1>1. /\ Active(t) /\ Top(t).pc = "ns" /\ GoodCache(cache) /\ Stored(cache', owed')
  BY StoredKept DEF NsCached, NsResolve, NsReturned, NsExhausted, Choosing, Returned, IInv
<1>2. /\ Top(t) \in Frame /\ Sound(Top(t), Top(t).depth)
      /\ Top(t).depth \in Nat
  BY <1>1, TopFrame, FrameKinds
<1>3. Top(t).depth <= MaxDepth
  BY <1>1, <1>2 DEF Sound
<1>4. Top(t) \in CallFrame
  BY <1>1, <1>2, FrameKinds
<1>5. CASE NsCached(t)
  <2>1. /\ Top(t).todo # <<>>
        /\ Continue(t, << NextServer(Top(t), cache[<<Head(Top(t).todo), "A">>]) >>)
        /\ <<Head(Top(t).todo), "A">> \in DOMAIN cache
    BY <1>5 DEF NsCached, Cached
  <2>2. cache[<<Head(Top(t).todo), "A">>] \in SUBSET Record
    BY <1>1, <2>1 DEF GoodCache
  <2>3. Sound(NextServer(Top(t), cache[<<Head(Top(t).todo), "A">>]), Top(t).depth)
    BY <1>1, <1>2, <1>4, <2>1, <2>2, NextServerSound
  <2> QED
    BY <1>1, <2>1, <2>3, OneFrameStep
<1>6. CASE NsResolve(t)
  <2> DEFINE g == RecFrame(Head(Top(t).todo), "A", Top(t).depth + 1)
  <2>1. Head(Top(t).todo) \in Name
    BY <1>4, <1>6, HeadTailProperties DEF NsResolve, CallFrame
  <2>2. Sound(g, Top(t).depth + 1)
    BY <1>2, <1>3, <2>1, RecFrameSound, TypeAssumption
  <2>3. Continue(t, <<Top(t), g>>)
    BY <1>6 DEF NsResolve
  <2>4. AtName(Top(t))
    BY <1>6 DEF NsResolve, AtName
  <2> HIDE DEF g
  <2> QED
    BY <1>1, <1>2, <2>2, <2>3, <2>4, TwoFramesStep
<1>7. CASE NsReturned(t)
  <2>1. Top(t).todo # <<>>
    BY <1>1, <1>7, TopFrame DEF NsReturned, Returned, AtName
  <2>2. Continue(t, << NextServer(Top(t), result[t].records) >>)
    BY <1>7 DEF NsReturned
  <2>3. Sound(NextServer(Top(t), result[t].records), Top(t).depth)
    BY <1>1, <1>2, <1>4, <2>1, ResultParts, NextServerSound
  <2> QED
    BY <1>1, <2>2, <2>3, OneFrameStep
<1>8. CASE NsExhausted(t)
  BY <1>1, <1>8, Results, ReturnStep DEF NsExhausted
<1> QED
  BY <1>5, <1>6, <1>7, <1>8

\* follow_cname_chain after its call for the target.
LEMMA TargetInv ==
  ASSUME IInv, NEW t \in Task,
         TargetFound(t) \/ TargetEmpty(t) \/ TargetFails(t)
  PROVE  IInv'
<1> USE LimitAssumption
<1>1. Active(t) /\ Top(t).pc = "target" /\ Stored(cache', owed')
  BY StoredKept DEF TargetFound, TargetEmpty, TargetFails, Returned
<1>2. /\ Top(t) \in Frame /\ Sound(Top(t), Top(t).depth)
      /\ Top(t).depth \in Nat /\ Top(t).name \in Name
  BY <1>1, TopFrame, FrameKinds
<1>3. Top(t).depth <= MaxDepth
  BY <1>1, <1>2 DEF Sound
<1>4. Top(t) \in ChainFrame
  BY <1>1, <1>2, FrameKinds
<1>5. CASE TargetFound(t)
  <2>1. Top(t).chain \cup result[t].records \in SUBSET Record
    BY <1>4, ResultParts DEF ChainFrame
  <2>2. Ok(Top(t).chain \cup result[t].records) \in Result
    BY <2>1, Results
  <2> QED
    BY <1>1, <1>5, <2>2, ReturnStep DEF TargetFound
<1>6. CASE TargetEmpty(t)
  <2> DEFINE f == [Top(t) EXCEPT !.pc = "alias"]
             g == RecFrame(Top(t).name, "CNAME", Top(t).depth + 1)
  <2>1. f \in ChainFrame /\ f.pc = "alias" /\ f.depth = Top(t).depth
    BY <1>4 DEF ChainFrame
  <2>2. Sound(f, Top(t).depth)
    <3> HIDE DEF f
    <3> QED BY <1>2, <1>3, <2>1 DEF Sound, Frame, ChainFrame
  <2>3. Sound(g, Top(t).depth + 1)
    BY <1>2, <1>3, RecFrameSound, TypeAssumption
  <2>4. Continue(t, <<f, g>>)
    BY <1>6 DEF TargetEmpty
  <2> HIDE DEF f, g
  <2>5. AtName(f)
    BY <2>1 DEF AtName
  <2> QED
    BY <1>1, <2>2, <2>3, <2>4, <2>5, TwoFramesStep
<1>7. CASE TargetFails(t)
  BY <1>1, <1>7, ResultParts, ReturnStep DEF TargetFails
<1> QED
  BY <1>5, <1>6, <1>7

\* The frame of a chain that goes on.
LEMMA FollowedKind ==
  ASSUME NEW f \in ChainFrame, NEW n \in Name, NEW recs,
         f.chain \cup Cnames(recs) \in SUBSET Record
  PROVE  /\ Followed(f, n, recs) \in ChainFrame
         /\ Followed(f, n, recs).pc = "target"
         /\ Followed(f, n, recs).depth = f.depth
<1> DEFINE c == f.chain \cup Cnames(recs)
           i == f.iter + 1
           g == [f EXCEPT !.pc = "target", !.name = n, !.chain = c, !.iter = i]
<1>1. i \in Nat /\ c \in SUBSET Record
  BY DEF ChainFrame
<1>2. Followed(f, n, recs) = g
  BY DEF Followed
<1>3. g \in ChainFrame /\ g.pc = "target" /\ g.depth = f.depth
  <2> HIDE DEF c, i
  <2> QED BY <1>1 DEF ChainFrame
<1> QED
  BY <1>2, <1>3

\* follow_cname_chain after its call for the CNAME of the target.
LEMMA AliasInv ==
  ASSUME IInv, NEW t \in Task,
         AliasAgain(t) \/ AliasLimit(t) \/ AliasFails(t)
  PROVE  IInv'
<1> USE LimitAssumption
<1>1. Active(t) /\ Top(t).pc = "alias" /\ Stored(cache', owed')
  BY StoredKept DEF AliasAgain, AliasLimit, AliasFails, Returned
<1>2. /\ Top(t) \in Frame /\ Sound(Top(t), Top(t).depth)
      /\ Top(t).depth \in Nat /\ Top(t).name \in Name /\ Top(t).type \in Type
  BY <1>1, TopFrame, FrameKinds
<1>3. Top(t).depth <= MaxDepth
  BY <1>1, <1>2 DEF Sound
<1>4. Top(t) \in ChainFrame
  BY <1>1, <1>2, FrameKinds
<1>5. /\ Top(t).chain \cup Cnames(result[t].records) \in SUBSET Record
      /\ Top(t).chain \in SUBSET Record
  BY <1>4, ResultParts DEF ChainFrame, Cnames
<1>6. CASE AliasAgain(t)
  <2>1. PICK n \in NextName(Top(t), result[t].records) :
          Continue(t, << Followed(Top(t), n, result[t].records),
                         RecFrame(n, Top(t).type, Top(t).depth + 1) >>)
    BY <1>6 DEF AliasAgain
  <2>2. n \in Name
    <3>1. \A r \in Cnames(result[t].records) : r.value \in Name
      BY ResultParts, RecordParts DEF Cnames
    <3> QED
      BY <1>2, <2>1, <3>1 DEF NextName
  <2> DEFINE f == Followed(Top(t), n, result[t].records)
             g == RecFrame(n, Top(t).type, Top(t).depth + 1)
  <2>3. f \in ChainFrame /\ f.pc = "target" /\ f.depth = Top(t).depth
    BY <1>4, <1>5, <2>2, FollowedKind
  <2>4. Sound(f, Top(t).depth)
    <3> HIDE DEF f
    <3> QED BY <1>2, <1>3, <2>3 DEF Sound, Frame, ChainFrame
  <2>5. Sound(g, Top(t).depth + 1)
    BY <1>2, <1>3, <2>2, RecFrameSound
  <2>6. Continue(t, <<f, g>>)
    BY <2>1
  <2> HIDE DEF f, g
  <2>7. AtName(f)
    BY <2>3 DEF AtName
  <2> QED
    BY <1>1, <2>4, <2>5, <2>6, <2>7, TwoFramesStep
<1>7. CASE AliasLimit(t)
  <2>1. Ok(Top(t).chain \cup Cnames(result[t].records)) \in Result
    BY <1>5, Results
  <2> QED
    BY <1>1, <1>7, <2>1, ReturnStep DEF AliasLimit
<1>8. CASE AliasFails(t)
  <2>1. Ok(Top(t).chain) \in Result
    BY <1>5, Results
  <2> QED
    BY <1>1, <1>8, <2>1, ReturnStep DEF AliasFails
<1> QED
  BY <1>6, <1>7, <1>8

\* Expiry, eviction and clear.
LEMMA ForgetInv ==
  ASSUME IInv, NEW k \in Name \X Type, Forget(k)
  PROVE  IInv'
<1>1. GoodCache(cache')
  BY DEF Forget, IInv, GoodCache
<1>2. TypeOK'
  BY <1>1 DEF Forget, IInv, TypeOK, GoodCache
<1>3. \A t \in Task : GoodStack(stack'[t]) /\ Waits(stack'[t], result'[t])
  BY DEF Forget, IInv
<1> QED
  BY <1>1, <1>2, <1>3 DEF IInv

\* Every step of every task, and of the cache by itself, keeps the invariant.
LEMMA NextInv == IInv /\ [Next]_vars => IInv'
<1> SUFFICES ASSUME IInv, [Next]_vars PROVE IInv'
  OBVIOUS
<1>1. ASSUME NEW t \in Task, NEW q \in Question, Ask(t, q) PROVE IInv'
  BY <1>1, AskInv
<1>2. ASSUME NEW t \in Task, Work(t) PROVE IInv'
  <2>1. CASE LookupHit(t) \/ LookupMiss(t) \/ LookupAlias(t) \/ Recurse(t)
    BY <2>1, LookupInv
  <2>2. CASE GiveUpTooDeep(t)
    BY <2>2, TooDeepInv
  <2>7. CASE InsertNext(t)
    BY <2>7, InsertNextInv
  <2>3. CASE Query(t)
    BY <2>3, QueryInv
  <2>4. CASE NsCached(t) \/ NsResolve(t) \/ NsReturned(t) \/ NsExhausted(t)
    BY <2>4, NsInv
  <2>5. CASE TargetFound(t) \/ TargetEmpty(t) \/ TargetFails(t)
    BY <2>5, TargetInv
  <2>6. CASE AliasAgain(t) \/ AliasLimit(t) \/ AliasFails(t)
    BY <2>6, AliasInv
  <2> QED
    BY <1>2, <2>1, <2>2, <2>3, <2>4, <2>5, <2>6, <2>7 DEF Work, Step
<1>3. ASSUME NEW k \in Name \X Type, Forget(k) PROVE IInv'
  BY <1>3, ForgetInv
<1>4. CASE UNCHANGED vars
  BY <1>4 DEF vars, IInv, TypeOK
<1> QED
  BY <1>1, <1>2, <1>3, <1>4 DEF Next

LEMMA InvHolds == Spec => []IInv
BY InitInv, NextInv, PTL DEF Spec

-----------------------------------------------------------------------------
\* The type invariant of the tasks and of what they share.
THEOREM TypeCorrect == Spec => []TypeOK
<1>1. IInv => TypeOK
  BY DEF IInv
<1> QED
  BY <1>1, InvHolds, PTL

\* Whatever the servers answer, to however many tasks, the calls of a task nest
\* MAX_RECURSION_DEPTH deep and no deeper: the recursion over NS names and the
\* one over CNAMEs count against the same limit (the depth + 1 arguments in
\* resolve_recursive and follow_cname_chain).
THEOREM RecursionBounded == Spec => []CallsBounded
BY InvImplies, InvHolds, PTL

\* query_nameservers is never called without a server to ask, so that the
\* remainder by their number is defined (query_nameservers).
THEOREM AlwaysAServer == Spec => []ServersKnown
BY InvImplies, InvHolds, PTL

\* Every entry of the cache has records and they have its type, whatever
\* sections of whatever messages they were taken from (the inserts of
\* resolve_recursive).
THEOREM CacheAlwaysTyped == Spec => []CacheTyped
BY InvImplies, InvHolds, PTL
-----------------------------------------------------------------------------
(***************************************************************************)
(* An honest network.  Where the aliases lead.                             *)
(***************************************************************************)

\* The chain of a name is a set of names that has the name and that no alias
\* leads out of, and it is the least.
LEMMA ChainLeast ==
  ASSUME NetworkHonest, NEW n \in Name
  PROVE  /\ n \in Chain[n] /\ Chain[n] \subseteq Name
         /\ Closed(Chain[n])
         /\ \A S \in SUBSET Name : n \in S /\ Closed(S) => Chain[n] \subseteq S
<1>1. Chain[n] = {m \in Name : \A S \in SUBSET Name : n \in S /\ Closed(S) => m \in S}
  BY DEF Chain
<1>2. Closed(Chain[n])
  <2> SUFFICES ASSUME NEW r \in Truth, r.type = "CNAME", r.name \in Chain[n]
               PROVE  r.value \in Chain[n]
    BY DEF Closed
  <2>1. r.value \in Name
    BY RecordParts DEF NetworkHonest
  <2>2. ASSUME NEW S \in SUBSET Name, n \in S, Closed(S) PROVE r.value \in S
    <3>1. r.name \in S
      BY <1>1, <2>2
    <3> QED
      BY <2>2, <3>1 DEF Closed
  <2> QED
    BY <1>1, <2>1, <2>2
<1> QED
  BY <1>1, <1>2

\* What a name on the chain leads to is on the chain.
LEMMA ChainTransitive ==
  ASSUME NetworkHonest, NEW n \in Name, NEW m \in Chain[n]
  PROVE  m \in Name /\ Chain[m] \subseteq Chain[n]
<1>1. Chain[n] \in SUBSET Name /\ Closed(Chain[n])
  BY ChainLeast
<1>2. m \in Name
  BY <1>1
<1> QED
  BY <1>1, <1>2, ChainLeast

\* Going along the chain loses no end of it: a name has one alias at most, so
\* there is one way to go.
LEMMA EndsKept ==
  ASSUME NetworkHonest, NEW n \in Name, NEW m \in Chain[n],
         NEW type, type # "CNAME"
  PROVE  Ends(n, type) \subseteq Ends(m, type)
<1> DEFINE E(x) == {e \in Chain[x] : Of(e, "CNAME") = {}}
           S == {x \in Name : E(n) \subseteq E(x)}
<1>1. S \in SUBSET Name /\ n \in S
  OBVIOUS
<1>2. Closed(S)
  <2> SUFFICES ASSUME NEW r \in Truth, r.type = "CNAME", r.name \in S
               PROVE  r.value \in S
    BY DEF Closed
  <2> DEFINE x == r.name
             y == r.value
             T == {x} \cup Chain[y]
  <2>1. x \in Name /\ y \in Name
    BY RecordParts DEF NetworkHonest
  <2>2. y \in Chain[y] /\ Chain[y] \subseteq Name /\ Closed(Chain[y])
    BY <2>1, ChainLeast
  <2>3. Closed(T)
    <3> SUFFICES ASSUME NEW a \in Truth, a.type = "CNAME", a.name \in T
                 PROVE  a.value \in T
      BY DEF Closed
    <3>1. CASE a.name = x
      <4>1. a = r
        BY <3>1 DEF NetworkHonest
      <4> QED
        BY <2>2, <4>1
    <3>2. CASE a.name \in Chain[y]
      BY <2>2, <3>2 DEF Closed
    <3> QED
      BY <3>1, <3>2
  <2>4. Chain[x] \subseteq T
    <3>1. T \in SUBSET Name /\ x \in T
      BY <2>1, <2>2
    <3> HIDE DEF T
    <3> QED
      BY <2>1, <2>3, <3>1, ChainLeast
  <2>5. r \in Of(x, "CNAME")
    BY DEF Of
  <2>6. E(x) \subseteq E(y)
    BY <2>4, <2>5
  <2> QED
    BY <2>1, <2>6
<1>3. Chain[n] \subseteq S
  <2> HIDE DEF S
  <2> QED BY <1>1, <1>2, ChainLeast
<1> QED
  BY <1>3 DEF Ends

-----------------------------------------------------------------------------
(***************************************************************************)
(* The inductive invariant of the truth.  Every call of a stack asks for   *)
(* the sake of the one below it, the first for the sake of the client: it  *)
(* has got part of the answer to that, and what it returns will be one.    *)
(* What is in the cache is part of an answer for its key.                  *)
(***************************************************************************)

\* The question, as a key of the cache, whose answer a call waits for.
Wants(f) ==
  CASE f.pc = "ns" -> <<Head(f.todo), "A">>
    [] f.pc = "target" -> <<f.name, f.type>>
    [] OTHER -> <<f.name, "CNAME">>

\* The question the call at position i of the stack s is there to answer; past
\* the last call, the one the result is the answer to.
AskedAt(q, s, i) == IF i = 1 THEN <<q.name, q.type>> ELSE Wants(s[i - 1])

\* A chain has aliases of the name asked about, and has come to a name on it;
\* when it looks for an alias of that one, there was nothing else.
Serves(f, k) ==
  /\ f.type = k[2]
  /\ f.pc \in {"query", "ns"} => f.name = k[1]
  /\ f.pc \in {"target", "alias"} =>
       /\ f.type # "CNAME" /\ f.name \in Chain[k[1]]
       /\ \A r \in f.chain : TrueRecord(r, k[1], "CNAME")
  /\ f.pc = "alias" => \A e \in Ends(f.name, f.type) : Of(e, f.type) = {}

TrueStack(q, s) == \A i \in 1..Len(s) : Serves(s[i], AskedAt(q, s, i))

TrueResult(q, s, r) ==
  s = <<>> \/ r # Pending =>
    TrueFor(AskedAt(q, s, Len(s) + 1)[1], AskedAt(q, s, Len(s) + 1)[2], r)

TrueCache(c) ==
  \A k \in DOMAIN c : \A r \in c[k] : r \in Truth /\ r.name \in Chain[k[1]]

TrueStore(c, o) ==
  TrueCache(c) /\ \A t \in Task : \A e \in o[t] : e.record \in Truth

TruthInv ==
  /\ \A t \in Task : phase[t] = "calls" =>
       TrueStack(asked[t], stack[t]) /\ TrueResult(asked[t], stack[t], result[t])
  /\ TrueStore(cache, owed)

\* What a call is there to answer.
Purpose(t) == AskedAt(asked[t], stack[t], Len(stack[t]))

\* It is a question, and the call on top is on its way to the answer.
LEMMA TopServes ==
  ASSUME IInv, TruthInv, NEW t \in Task, Active(t)
  PROVE  Purpose(t) \in Name \X Type /\ Serves(Top(t), Purpose(t))
<1> DEFINE s == stack[t]
           n == Len(s)
<1>1. /\ n \in Nat \ {0} /\ GoodStack(s) /\ Waits(s, result[t])
      /\ TrueStack(asked[t], s)
  BY TopFrame DEF IInv, TruthInv, Active
<1>2. Serves(Top(t), Purpose(t))
  <2>1. n \in 1..n
    BY <1>1
  <2> QED
    BY <1>1, <2>1 DEF TrueStack, Purpose, Top
<1>3. CASE n = 1
  <2>1. asked[t].name \in Name /\ asked[t].type \in Type
    BY QuestionParts DEF IInv, TypeOK
  <2> QED
    BY <1>2, <1>3, <2>1 DEF Purpose, AskedAt
<1>4. CASE n # 1
  <2> DEFINE f == s[n - 1]
  <2>1. n - 1 \in 1..n /\ n - 1 < n
    <3> HIDE DEF n
    <3> QED BY <1>1, <1>4
  <2>2. f \in Frame /\ AtName(f)
    BY <1>1, <2>1 DEF GoodStack, Sound, Waits
  <2>3. Purpose(t) = Wants(f)
    BY <1>1, <1>4 DEF Purpose, AskedAt
  <2> HIDE DEF f
  <2>4. Wants(f) \in Name \X Type
    <3>1. f.name \in Name /\ f.type \in Type
      BY <2>2, FrameKinds
    <3>2. f.pc = "ns" => Head(f.todo) \in Name
      <4> SUFFICES ASSUME f.pc = "ns" PROVE Head(f.todo) \in Name
        OBVIOUS
      <4>1. f.todo \in Seq(Name) /\ f.todo # <<>>
        BY <2>2, FrameKinds DEF CallFrame, AtName
      <4> QED
        BY <4>1, HeadTailProperties
    <3>3. CASE f.pc = "ns"
      BY <3>2, <3>3, TypeAssumption DEF Wants
    <3>4. CASE f.pc = "target"
      BY <3>1, <3>4 DEF Wants
    <3>5. CASE f.pc # "ns" /\ f.pc # "target"
      BY <3>1, <3>5, TypeAssumption DEF Wants
    <3> QED
      BY <3>3, <3>4, <3>5
  <2> QED
    BY <1>2, <2>3, <2>4
<1> QED
  BY <1>3, <1>4

\* A result answers what the call on top waits for.
LEMMA ResultTrue ==
  ASSUME IInv, TruthInv, NEW t \in Task, Active(t), result[t] # Pending
  PROVE  TrueFor(Wants(Top(t))[1], Wants(Top(t))[2], result[t])
<1> DEFINE n == Len(stack[t])
<1>1. n \in Nat \ {0} /\ TrueResult(asked[t], stack[t], result[t])
  BY TopFrame DEF TruthInv, Active
<1>2. AskedAt(asked[t], stack[t], n + 1) = Wants(Top(t))
  <2>1. n + 1 # 1 /\ n + 1 - 1 = n
    BY <1>1
  <2> QED
    BY <2>1 DEF AskedAt, Top
<1> QED
  BY <1>1, <1>2 DEF TrueResult

\* What a return leaves.
LEMMA PoppedTruth ==
  ASSUME NEW q, NEW s, GoodStack(s), s # <<>>, TrueStack(q, s)
  PROVE  LET b == SubSeq(s, 1, Len(s) - 1)
         IN  TrueStack(q, b) /\ AskedAt(q, b, Len(b) + 1) = AskedAt(q, s, Len(s))
<1> DEFINE b == SubSeq(s, 1, Len(s) - 1)
<1>1. Len(s) \in Nat \ {0} /\ s \in Seq(Frame)
  BY FrameBelow DEF GoodStack
<1>2. Len(b) = Len(s) - 1 /\ \A i \in 1..(Len(s) - 1) : b[i] = s[i]
  <2>1. Len(b) = Len(s) - 1
    BY Popped
  <2>2. ASSUME NEW i \in 1..(Len(s) - 1) PROVE b[i] = s[i]
    BY <1>1
  <2> QED
    BY <2>1, <2>2
<1> HIDE DEF b
<1>3. \A i \in 1..Len(s) : AskedAt(q, b, i) = AskedAt(q, s, i)
  <2> SUFFICES ASSUME NEW i \in 1..Len(s), i # 1
               PROVE  b[i - 1] = s[i - 1]
    BY DEF AskedAt
  <2> QED
    BY <1>1, <1>2
<1>4. TrueStack(q, b)
  <2> SUFFICES ASSUME NEW i \in 1..Len(b) PROVE Serves(b[i], AskedAt(q, b, i))
    BY DEF TrueStack
  <2>1. i \in 1..Len(s) /\ b[i] = s[i]
    BY <1>1, <1>2
  <2> QED
    BY <1>3, <2>1 DEF TrueStack
<1>5. Len(b) + 1 = Len(s) /\ Len(s) \in 1..Len(s)
  BY <1>1, <1>2
<1> QED
  BY <1>3, <1>4, <1>5 DEF b

\* What a call adds.
LEMMA PushedTruth ==
  ASSUME NEW q, NEW s, GoodStack(s), TrueStack(q, s),
         NEW f \in Frame, Serves(f, AskedAt(q, s, Len(s) + 1))
  PROVE  LET p == s \o <<f>>
         IN  TrueStack(q, p) /\ TrueResult(q, p, Pending)
<1> DEFINE p == s \o <<f>>
<1>1. /\ p \in Seq(Frame) /\ Len(p) = Len(s) + 1 /\ Len(s) \in Nat
      /\ \A i \in 1..Len(s) : p[i] = s[i]
      /\ p[Len(s) + 1] = f
  <2>1. <<f>> \in Seq(Frame) /\ Len(<<f>>) = 1 /\ <<f>>[1] = f
    OBVIOUS
  <2> QED
    BY <2>1, ConcatProperties DEF GoodStack
<1> HIDE DEF p
<1>2. \A i \in 1..Len(p) : AskedAt(q, p, i) = AskedAt(q, s, i)
  <2> SUFFICES ASSUME NEW i \in 1..Len(p), i # 1
               PROVE  p[i - 1] = s[i - 1]
    BY DEF AskedAt
  <2> QED
    BY <1>1
<1>3. TrueStack(q, p)
  <2> SUFFICES ASSUME NEW i \in 1..Len(p) PROVE Serves(p[i], AskedAt(q, p, i))
    BY DEF TrueStack
  <2>1. CASE i \in 1..Len(s)
    BY <1>1, <1>2, <2>1 DEF TrueStack
  <2>2. CASE i = Len(s) + 1
    BY <1>1, <1>2, <2>2
  <2> QED
    BY <1>1, <2>1, <2>2
<1>4. TrueResult(q, p, Pending)
  BY <1>1, EmptySeq DEF TrueResult
<1> QED
  BY <1>3, <1>4 DEF p

\* A call that turns into another waits for a third.
LEMMA PushedTwoTruth ==
  ASSUME NEW q, NEW s, GoodStack(s), TrueStack(q, s),
         NEW f \in Frame, Sound(f, Len(s)), Serves(f, AskedAt(q, s, Len(s) + 1)),
         NEW g \in Frame, Serves(g, Wants(f))
  PROVE  LET p == s \o <<f, g>>
         IN  TrueStack(q, p) /\ TrueResult(q, p, Pending)
<1> DEFINE p1 == s \o <<f>>
           p  == s \o <<f, g>>
<1>1. GoodStack(p1) /\ TrueStack(q, p1) /\ Len(p1) = Len(s) + 1
  BY Pushed, PushedTruth
<1>2. p1[Len(s) + 1] = f /\ Len(s) \in Nat
  BY ConcatProperties DEF GoodStack
<1>3. p = p1 \o <<g>>
  <2>1. s \in Seq(Frame) /\ <<f>> \in Seq(Frame) /\ <<g>> \in Seq(Frame)
    BY DEF GoodStack
  <2>2. <<f>> \o <<g>> = <<f, g>>
    <3> DEFINE u == <<f>>
               v == <<g>>
               c == u \o v
               d == <<f, g>>
    <3>1. /\ u \in Seq(Frame) /\ Len(u) = 1 /\ u[1] = f
          /\ v \in Seq(Frame) /\ Len(v) = 1 /\ v[1] = g
          /\ d \in Seq(Frame) /\ Len(d) = 2 /\ d[1] = f /\ d[2] = g
      OBVIOUS
    <3> HIDE DEF u, v, d
    <3>2. c \in Seq(Frame) /\ Len(c) = 2 /\ c[1] = f /\ c[2] = g
      <4>1. /\ c \in Seq(Frame) /\ Len(c) = Len(u) + Len(v)
            /\ \A i \in 1..Len(u) + Len(v) :
                 c[i] = IF i <= Len(u) THEN u[i] ELSE v[i - Len(u)]
        BY <3>1, ConcatProperties
      <4> HIDE DEF c
      <4>2. 1 \in 1..Len(u) + Len(v) /\ 2 \in 1..Len(u) + Len(v)
        BY <3>1
      <4> QED
        BY <3>1, <4>1, <4>2
    <3> HIDE DEF c
    <3>3. \A i \in 1..Len(c) : c[i] = d[i]
      BY <3>1, <3>2
    <3>4. c = d
      BY <3>1, <3>2, <3>3, SeqEqual
    <3> QED
      BY <3>4 DEF c, d, u, v
  <2> QED
    BY <2>1, <2>2, ConcatAssociative
<1> HIDE DEF p1, p
<1>4. AskedAt(q, p1, Len(p1) + 1) = Wants(f)
  <2>1. Len(p1) + 1 # 1 /\ Len(p1) + 1 - 1 = Len(s) + 1
    BY <1>1, <1>2
  <2> QED
    BY <1>2, <2>1 DEF AskedAt
<1> QED
  BY <1>1, <1>3, <1>4, PushedTruth DEF p

(***************************************************************************)
(* The ways a step changes the calls of its task.                          *)
(***************************************************************************)
LEMMA TaskTruth ==
  ASSUME IInv, TruthInv, NEW t \in Task, NEW s, NEW r,
         stack' = [stack EXCEPT ![t] = s], result' = [result EXCEPT ![t] = r],
         \A u \in Task \ {t} : asked'[u] = asked[u] /\ phase'[u] = phase[u],
         phase'[t] = "calls" => TrueStack(asked'[t], s) /\ TrueResult(asked'[t], s, r),
         TrueStore(cache', owed')
  PROVE  TruthInv'
<1>1. ASSUME NEW u \in Task, phase'[u] = "calls"
      PROVE  TrueStack(asked'[u], stack'[u]) /\ TrueResult(asked'[u], stack'[u], result'[u])
  <2>1. /\ stack'[u] = IF u = t THEN s ELSE stack[u]
        /\ result'[u] = IF u = t THEN r ELSE result[u]
    BY DEF IInv, TypeOK
  <2>2. CASE u = t
    BY <1>1, <2>1, <2>2
  <2>3. CASE u # t
    <3>1. asked'[u] = asked[u] /\ phase[u] = "calls"
      BY <1>1, <2>3
    <3> QED
      BY <2>1, <2>3, <3>1 DEF TruthInv
  <2> QED
    BY <2>2, <2>3
<1> QED
  BY <1>1 DEF TruthInv

LEMMA ReturnTruth ==
  ASSUME IInv, TruthInv, NEW t \in Task, Active(t), NEW r, Return(t, r),
         TrueFor(Purpose(t)[1], Purpose(t)[2], r), TrueStore(cache', owed')
  PROVE  TruthInv'
<1> DEFINE b == Below(t)
<1>1. GoodStack(stack[t]) /\ stack[t] # <<>> /\ TrueStack(asked[t], stack[t])
  BY DEF IInv, TruthInv, Active
<1>2. TrueStack(asked[t], b) /\ AskedAt(asked[t], b, Len(b) + 1) = Purpose(t)
  BY <1>1, PoppedTruth DEF Below, Purpose
<1>3. TrueResult(asked[t], b, r)
  BY <1>2 DEF TrueResult
<1>4. asked' = asked /\ phase' = phase
  BY DEF Return
<1> HIDE DEF b
<1> QED
  BY <1>2, <1>3, <1>4, TaskTruth DEF Return, b

LEMMA OneFrameTruth ==
  ASSUME IInv, TruthInv, NEW t \in Task, Active(t), NEW f \in Frame,
         Serves(f, Purpose(t)), Continue(t, <<f>>), TrueStore(cache', owed')
  PROVE  TruthInv'
<1> DEFINE b == Below(t)
           p == b \o <<f>>
<1>1. GoodStack(stack[t]) /\ stack[t] # <<>> /\ TrueStack(asked[t], stack[t])
  BY DEF IInv, TruthInv, Active
<1>2. TrueStack(asked[t], b) /\ AskedAt(asked[t], b, Len(b) + 1) = Purpose(t)
  BY <1>1, PoppedTruth DEF Below, Purpose
<1>3. GoodStack(b)
  BY TopFrame
<1>4. TrueStack(asked[t], p) /\ TrueResult(asked[t], p, Pending)
  <2> HIDE DEF b
  <2> QED BY <1>2, <1>3, PushedTruth
<1>5. asked' = asked /\ phase' = phase
  BY DEF Continue
<1> HIDE DEF b, p
<1> QED
  BY <1>4, <1>5, TaskTruth DEF Continue, b, p

LEMMA TwoFramesTruth ==
  ASSUME IInv, TruthInv, NEW t \in Task, Active(t),
         NEW f, Sound(f, Top(t).depth), Serves(f, Purpose(t)),
         NEW g \in Frame, Serves(g, Wants(f)),
         Continue(t, <<f, g>>), TrueStore(cache', owed')
  PROVE  TruthInv'
<1> DEFINE b == Below(t)
           p == b \o <<f, g>>
<1>1. GoodStack(stack[t]) /\ stack[t] # <<>> /\ TrueStack(asked[t], stack[t])
  BY DEF IInv, TruthInv, Active
<1>2. TrueStack(asked[t], b) /\ AskedAt(asked[t], b, Len(b) + 1) = Purpose(t)
  BY <1>1, PoppedTruth DEF Below, Purpose
<1>3. GoodStack(b) /\ Len(b) = Top(t).depth
  BY TopFrame
<1>4. TrueStack(asked[t], p) /\ TrueResult(asked[t], p, Pending)
  <2> HIDE DEF b
  <2> QED BY <1>2, <1>3, PushedTwoTruth DEF Sound
<1>5. asked' = asked /\ phase' = phase
  BY DEF Continue
<1> HIDE DEF b, p
<1> QED
  BY <1>4, <1>5, TaskTruth DEF Continue, b, p

LEMMA BeginTruth ==
  ASSUME IInv, TruthInv, NEW t \in Task, NEW q, NEW s, NEW r, NEW ph,
         Begin(t, q, ph, s, r),
         ph = "calls" => TrueStack(q, s) /\ TrueResult(q, s, r)
  PROVE  TruthInv'
<1>1. /\ asked'[t] = q /\ phase'[t] = ph
      /\ \A u \in Task \ {t} : asked'[u] = asked[u] /\ phase'[u] = phase[u]
  BY DEF Begin, IInv, TypeOK
<1>2. TrueStore(cache', owed')
  BY DEF Begin, TruthInv
<1> QED
  BY <1>1, <1>2, TaskTruth DEF Begin

LEMMA CallsTruth ==
  ASSUME IInv, TruthInv, NEW t \in Task, NEW s, NEW r, Calls(t, s, r),
         TrueStack(asked[t], s), TrueResult(asked[t], s, r)
  PROVE  TruthInv'
<1>1. /\ asked'[t] = asked[t]
      /\ \A u \in Task \ {t} : asked'[u] = asked[u] /\ phase'[u] = phase[u]
  BY DEF Calls, IInv, TypeOK
<1>2. TrueStore(cache', owed')
  BY DEF Calls, TruthInv
<1> QED
  BY <1>1, <1>2, TaskTruth DEF Calls

\* The stacks resolve starts with.
LEMMA FirstTruth ==
  ASSUME NEW q
  PROVE  /\ TrueStack(q, <<>>)
         /\ \A r : TrueFor(q.name, q.type, r) => TrueResult(q, <<>>, r)
         /\ \A f : Serves(f, <<q.name, q.type>>) =>
              TrueStack(q, <<f>>) /\ TrueResult(q, <<f>>, Pending)
         /\ \A f, g : Serves(f, <<q.name, q.type>>) /\ Serves(g, Wants(f)) =>
              TrueStack(q, <<f, g>>) /\ TrueResult(q, <<f, g>>, Pending)
<1>1. TrueStack(q, <<>>)
  BY DEF TrueStack
<1>2. ASSUME NEW r, TrueFor(q.name, q.type, r) PROVE TrueResult(q, <<>>, r)
  <2>1. AskedAt(q, <<>>, Len(<<>>) + 1) = <<q.name, q.type>>
    BY DEF AskedAt
  <2> QED
    BY <1>2, <2>1 DEF TrueResult
<1>3. ASSUME NEW f, Serves(f, <<q.name, q.type>>)
      PROVE  TrueStack(q, <<f>>) /\ TrueResult(q, <<f>>, Pending)
  <2>1. Len(<<f>>) = 1 /\ <<f>>[1] = f /\ <<f>> # <<>>
    OBVIOUS
  <2>2. AskedAt(q, <<f>>, 1) = <<q.name, q.type>>
    BY DEF AskedAt
  <2> QED
    BY <1>3, <2>1, <2>2 DEF TrueStack, TrueResult
<1>4. ASSUME NEW f, NEW g, Serves(f, <<q.name, q.type>>), Serves(g, Wants(f))
      PROVE  TrueStack(q, <<f, g>>) /\ TrueResult(q, <<f, g>>, Pending)
  <2> DEFINE s == <<f, g>>
  <2>1. Len(s) = 2 /\ s[1] = f /\ s[2] = g /\ s # <<>>
    OBVIOUS
  <2> HIDE DEF s
  <2>2. AskedAt(q, s, 1) = <<q.name, q.type>> /\ AskedAt(q, s, 2) = Wants(f)
    BY <2>1 DEF AskedAt
  <2>3. \A i \in 1..Len(s) : i = 1 \/ i = 2
    BY <2>1
  <2>4. TrueStack(q, s) /\ TrueResult(q, s, Pending)
    BY <1>4, <2>1, <2>2, <2>3 DEF TrueStack, TrueResult
  <2> QED
    BY <2>4 DEF s
<1> QED
  BY <1>1, <1>2, <1>3, <1>4

\* resolve_recursive starts on what it is asked.
LEMMA RecFrameServes ==
  ASSUME NEW n, NEW type, NEW d
  PROVE  Serves(RecFrame(n, type, d), <<n, type>>)
BY DEF RecFrame, Serves

\* follow_cname_chain starts with aliases of the name asked about, at the
\* name they lead to.
LEMMA ChainCallsServe ==
  ASSUME NetworkHonest, NEW k \in Name \X Type, k[2] # "CNAME", NEW d,
         NEW recs, \A r \in recs : TrueRecord(r, k[1], "CNAME"),
         NEW alias \in recs,
         NEW f, NEW g, ChainCalls(alias, recs, k[2], d) = <<f, g>>
  PROVE  Serves(f, k) /\ Serves(g, Wants(f))
<1>1. /\ f = [pc |-> "target", name |-> alias.value, type |-> k[2],
              depth |-> d, chain |-> recs, iter |-> 0]
      /\ g = RecFrame(alias.value, k[2], d + 1)
  BY DEF ChainCalls
<1>2. alias.value \in Chain[k[1]]
  <2>1. k[1] \in Name /\ alias \in Truth /\ alias.type = "CNAME" /\ alias.name \in Chain[k[1]]
    BY DEF TrueRecord
  <2> QED
    BY <2>1, ChainLeast DEF Closed
<1>3. Serves(f, k)
  BY <1>1, <1>2 DEF Serves
<1>4. Wants(f) = <<alias.value, k[2]>>
  BY <1>1 DEF Wants
<1> QED
  BY <1>1, <1>3, <1>4, RecFrameServes

-----------------------------------------------------------------------------
(***************************************************************************)
(* The steps keep the truth.                                               *)
(***************************************************************************)

\* resolve, as far as the zones take it.
LEMMA AskTruth ==
  ASSUME NetworkHonest, IInv, TruthInv, NEW t \in Task, NEW q \in Question,
         Ask(t, q)
  PROVE  TruthInv'
<1> DEFINE n == q.name
           type == q.type
<1>1. /\ n \in Name /\ type \in Type
      /\ TrueZones(n, type) /\ TrueZones(n, "CNAME")
  BY QuestionParts DEF NetworkHonest
<1>2. n \in Chain[n]
  BY <1>1, ChainLeast
<1>3. /\ \A r \in ZoneData(n, type) : TrueRecord(r, n, type) /\ r.type = type
      /\ \A r \in ZoneData(n, "CNAME") : TrueRecord(r, n, "CNAME") /\ r.type = "CNAME"
  BY <1>1, <1>2 DEF TrueZones, Of, TrueRecord
<1> HIDE DEF n, type
<1>4. CASE AskFound(t, q)
  <2>1. /\ ZoneData(n, type) # {}
        /\ Begin(t, q, "calls", <<>>, Ok(ZoneData(n, type)))
    BY <1>4 DEF AskFound, n, type
  <2>2. TrueFor(n, type, Ok(ZoneData(n, type)))
    BY <1>3, <2>1 DEF TrueFor, Ok
  <2> QED
    BY <2>1, <2>2, FirstTruth, BeginTruth DEF n, type
<1>5. CASE AskAlias(t, q)
  <2> DEFINE recs == ZoneData(n, "CNAME")
  <2>1. PICK alias \in recs :
          Begin(t, q, "calls", ChainCalls(alias, recs, type, 0), Pending)
    BY <1>5 DEF AskAlias, n, type
  <2>2. type # "CNAME" /\ \A r \in recs : TrueRecord(r, n, "CNAME")
    BY <1>3, <1>5 DEF AskAlias, type
  <2> HIDE DEF recs
  <2> DEFINE k == <<n, type>>
  <2>3. PICK f, g : ChainCalls(alias, recs, type, 0) = <<f, g>>
    BY DEF ChainCalls
  <2>4. k \in Name \X Type /\ k[1] = n /\ k[2] = type
    BY <1>1
  <2> HIDE DEF k
  <2>5. Serves(f, k) /\ Serves(g, Wants(f))
    BY <2>2, <2>3, <2>4, ChainCallsServe
  <2> QED
    BY <2>1, <2>3, <2>5, FirstTruth, BeginTruth DEF k, n, type
<1>6. CASE AskNoData(t, q)
  <2>1. /\ NameInZone(n) /\ ZoneData(n, type) = {} /\ ZoneData(n, "CNAME") = {}
        /\ type # "CNAME" /\ Begin(t, q, "calls", <<>>, Ok({}))
    BY <1>6 DEF AskNoData, n, type
  <2>2. Of(n, type) = {} /\ Of(n, "CNAME") = {}
    BY <1>1, <2>1 DEF TrueZones
  <2>3. Ends(n, type) \subseteq {n}
    <3>1. Closed({n})
      BY <2>2 DEF Closed, Of
    <3>2. {n} \in SUBSET Name
      BY <1>1
    <3>3. Chain[n] \subseteq {n}
      BY <1>1, <3>1, <3>2, ChainLeast
    <3> QED
      BY <3>3 DEF Ends
  <2>4. TrueFor(n, type, Ok({}))
    BY <2>2, <2>3 DEF TrueFor, Ok
  <2> QED
    BY <2>1, <2>4, FirstTruth, BeginTruth DEF n, type
<1>7. CASE AskOutside(t, q)
  BY <1>7, BeginTruth DEF AskOutside
<1> QED
  BY <1>4, <1>5, <1>6, <1>7 DEF Ask

\* resolve, as far as the cache takes it.
LEMMA LookupTruth ==
  ASSUME NetworkHonest, IInv, TruthInv, NEW t \in Task,
         LookupHit(t) \/ LookupMiss(t) \/ LookupAlias(t) \/ Recurse(t)
  PROVE  TruthInv'
<1> DEFINE n == asked[t].name
           type == asked[t].type
           k == <<n, type>>
<1>1. n \in Name /\ type \in Type
  BY QuestionParts DEF IInv, TypeOK
<1>2. k \in Name \X Type /\ k[1] = n /\ k[2] = type
  BY <1>1
<1>3. \A ty \in {type, "CNAME"} : Cached(n, ty) =>
        /\ cache[<<n, ty>>] # {}
        /\ \A r \in cache[<<n, ty>>] : TrueRecord(r, n, ty) /\ r.type = ty
  <2> SUFFICES ASSUME NEW ty, <<n, ty>> \in DOMAIN cache
               PROVE  /\ cache[<<n, ty>>] # {}
                      /\ \A r \in cache[<<n, ty>>] : TrueRecord(r, n, ty) /\ r.type = ty
    BY DEF Cached
  <2> HIDE DEF n
  <2> QED
    BY DEF TruthInv, TrueStore, TrueCache, IInv, GoodCache, TrueRecord
<1> HIDE DEF n, type, k
<1>4. CASE LookupHit(t)
  <2> DEFINE recs == cache[<<n, type>>]
  <2>1. Cached(n, type) /\ Calls(t, <<>>, Ok(recs))
    BY <1>4 DEF LookupHit, n, type
  <2>2. recs # {} /\ \A r \in recs : TrueRecord(r, n, type) /\ r.type = type
    BY <1>3, <2>1
  <2> HIDE DEF recs
  <2>3. TrueFor(n, type, Ok(recs))
    BY <2>2 DEF TrueFor, Ok
  <2> QED
    BY <2>1, <2>3, FirstTruth, CallsTruth DEF n, type
<1>5. CASE LookupMiss(t)
  <2>1. /\ asked' = asked /\ stack' = stack /\ result' = result
        /\ cache' = cache /\ owed' = owed /\ phase' = [phase EXCEPT ![t] = "alias"]
    BY <1>5 DEF LookupMiss
  <2>2. \A u \in Task : phase'[u] = "calls" => phase[u] = "calls"
    BY <2>1 DEF IInv, TypeOK
  <2> QED
    BY <2>1, <2>2 DEF TruthInv
<1>6. CASE LookupAlias(t)
  <2> DEFINE recs == cache[<<n, "CNAME">>]
  <2>1. PICK alias \in recs :
          Calls(t, ChainCalls(alias, recs, type, 0), Pending)
    BY <1>6 DEF LookupAlias, n, type
  <2>2. type # "CNAME" /\ \A r \in recs : TrueRecord(r, n, "CNAME")
    BY <1>3, <1>6 DEF LookupAlias, n, type
  <2> HIDE DEF recs
  <2>3. PICK f, g : ChainCalls(alias, recs, type, 0) = <<f, g>>
    BY DEF ChainCalls
  <2>4. Serves(f, k) /\ Serves(g, Wants(f))
    BY <1>2, <2>2, <2>3, ChainCallsServe
  <2> QED
    BY <2>1, <2>3, <2>4, FirstTruth, CallsTruth DEF k, n, type
<1>7. CASE Recurse(t)
  BY <1>7, RecFrameServes, FirstTruth, CallsTruth DEF Recurse
<1> QED
  BY <1>4, <1>5, <1>6, <1>7

\* What is put into the cache under a key is part of an answer for it.
LEMMA InsertTrue ==
  ASSUME TrueCache(cache), NEW n, NEW type, NEW recs,
         \A r \in recs : r \in Truth /\ r.name \in Chain[n]
  PROVE  TrueCache(Insert(n, type, recs))
<1> DEFINE k0 == <<n, type>>
           c == [k \in DOMAIN cache \cup {k0} |->
                   IF k = k0 THEN recs ELSE cache[k]]
<1>1. CASE recs = {} \/ recs \cap Uncached # {}
  BY <1>1 DEF Insert
<1>2. CASE ~(recs = {} \/ recs \cap Uncached # {})
  <2>1. Insert(n, type, recs) = c
    BY <1>2 DEF Insert
  <2>2. k0[1] = n
    OBVIOUS
  <2>3. /\ DOMAIN c = DOMAIN cache \cup {k0}
        /\ \A k \in DOMAIN c : c[k] = IF k = k0 THEN recs ELSE cache[k]
    OBVIOUS
  <2> HIDE DEF c, k0
  <2>4. TrueCache(c)
    BY <2>2, <2>3 DEF TrueCache
  <2> QED
    BY <2>1, <2>4
<1> QED
  BY <1>1, <1>2

\* The call that finds the limit passed, and every other error of a server:
\* nothing is said.
LEMMA FailureTruth ==
  ASSUME NEW name, NEW type
  PROVE  TrueFor(name, type, Err("ServerFailure"))
BY DEF TrueFor, Err

\* Whatever an honest server answers, what becomes of it is so.
LEMMA QueryTruth ==
  ASSUME NetworkHonest, IInv, TruthInv, NEW t \in Task, Query(t)
  PROVE  TruthInv'
<1> DEFINE n == Top(t).name
           type == Top(t).type
<1>1. /\ Active(t) /\ Top(t).pc = "query"
      /\ TrueStore(cache, owed) /\ TrueCache(cache)
  BY DEF Query, Querying, TruthInv, TrueStore
<1>2. /\ Top(t) \in CallFrame /\ n \in Name /\ type \in Type
      /\ Top(t) \in Frame /\ Top(t).depth \in Nat
  BY <1>1, TopFrame, FrameKinds
<1>3. /\ Purpose(t) \in Name \X Type /\ Serves(Top(t), Purpose(t))
      /\ Purpose(t)[1] = n /\ Purpose(t)[2] = type
  BY <1>1, TopServes DEF Serves
<1>4. PICK a \in Top(t).servers : \E m \in Reply(a, n, type) : Receive(t, m)
  BY DEF Query
<1>5. PICK m \in Reply(a, n, type) : Receive(t, m)
  BY <1>4
<1>6. a \in Addr
  BY <1>2 DEF CallFrame
<1>7. /\ TrueMessage(m, n, type)
      /\ m.ns \in Seq(Record) /\ m.additional \in Seq(Record)
      /\ GlueAt(m) \subseteq 1..Len(m.additional)
      /\ NsNames(m) \in Seq(Name) /\ GlueAddrs(m) \subseteq Addr
  BY <1>2, <1>6, MessageParts DEF NetworkHonest
<1> HIDE DEF n, type
<1>8. CASE NoMessage(t, m) \/ Lame(t, m)
  BY <1>1, <1>8, FailureTruth, ReturnTruth DEF NoMessage, Lame
<1>9. CASE NoSuchName(t, m)
  <2>1. TrueFor(n, type, Err("NameError"))
    BY <1>7, <1>9 DEF NoSuchName, TrueMessage, TrueFor, Err
  <2> QED
    BY <1>1, <1>3, <1>9, <2>1, ReturnTruth DEF NoSuchName
<1>10. CASE Answer(t, m)
  <2> DEFINE recs == Wanted(t, m)
  <2>1. /\ recs # {} /\ Return(t, Ok(recs))
        /\ cache' = Insert(n, type, recs)
    BY <1>10 DEF Answer, n, type
  <2>2. \A r \in recs : TrueRecord(r, n, type) /\ r.type = type
    BY <1>7 DEF Wanted, TrueMessage, type
  <2> HIDE DEF recs
  <2>3. TrueFor(n, type, Ok(recs))
    BY <2>1, <2>2 DEF TrueFor, Ok
  <2>4. TrueStore(cache', owed')
    BY <1>1, <1>10, <2>1, <2>2, InsertTrue DEF TrueRecord, TrueStore, Answer
  <2> QED
    BY <1>1, <1>3, <2>1, <2>3, <2>4, ReturnTruth
<1>11. CASE AnswerAlias(t, m)
  <2> DEFINE recs == Aliases(t, m)
             d == Top(t).depth
  <2>1. cache' = Insert(n, "CNAME", recs)
    BY <1>11 DEF AnswerAlias, n
  <2>2. PICK alias \in recs : Continue(t, ChainCalls(alias, recs, type, d))
    BY <1>11 DEF AnswerAlias, type
  <2>3. /\ type # "CNAME" /\ recs \in SUBSET Record
        /\ \A r \in recs : TrueRecord(r, n, "CNAME")
    BY <1>7, <2>2 DEF Aliases, TrueMessage, TrueRecord, type, NetworkHonest
  <2>4. alias.value \in Name
    BY <2>3, RecordParts DEF TrueRecord
  <2>5. d <= MaxDepth
    BY DEF Query, Querying
  <2> HIDE DEF recs, d
  <2>6. d = Top(t).depth /\ d \in Nat
    BY <1>2 DEF d
  <2>7. PICK f, g : /\ ChainCalls(alias, recs, type, d) = <<f, g>>
                    /\ Sound(f, d) /\ Sound(g, d + 1)
    BY <1>2, <2>3, <2>4, <2>5, <2>6, ChainCallsSound DEF type
  <2>8. Serves(f, Purpose(t)) /\ Serves(g, Wants(f))
    BY <1>3, <2>3, <2>7, ChainCallsServe
  <2>9. TrueStore(cache', owed')
    BY <1>1, <1>11, <2>1, <2>3, InsertTrue DEF TrueRecord, TrueStore, AnswerAlias
  <2>10. Continue(t, <<f, g>>)
    BY <2>2, <2>7
  <2> QED
    BY <1>1, <2>6, <2>7, <2>8, <2>9, <2>10, TwoFramesTruth DEF Sound
<1>12. CASE AnswerOther(t, m)
  <2>1. \A r \in m.answers : r.type \in {type, "CNAME"}
    BY <1>7 DEF TrueMessage, TrueRecord
  <2> QED
    BY <1>12, <2>1 DEF AnswerOther, Wanted, Aliases, type
<1>13. CASE NoData(t, m)
  <2>1. TrueFor(n, type, Ok({}))
    BY <1>7, <1>13 DEF NoData, TrueMessage, TrueFor, Ok
  <2> QED
    BY <1>1, <1>3, <1>13, <2>1, ReturnTruth DEF NoData
<1>14. CASE SameReferral(t, m) \/ ReferralGlue(t, m) \/ ReferralNames(t, m)
  <2>1. TrueStore(cache', owed')
    <3>1. /\ \A i \in 1..Len(m.ns) : m.ns[i] \in Truth
          /\ \A i \in GlueAt(m) : m.additional[i] \in Truth
      BY <1>7 DEF TrueMessage
    <3>2. CacheReferral(t, m)
      BY <1>14 DEF SameReferral, ReferralGlue, ReferralNames
    <3>3. \A e \in Inserts(m) : e.record \in Truth
      BY <1>7, <3>1, InsertsOwed
    <3>4. \A u \in Task : owed'[u] = IF u = t THEN Inserts(m) ELSE owed[u]
      BY <3>2 DEF CacheReferral, IInv, TypeOK
    <3> QED
      BY <1>1, <3>2, <3>3, <3>4 DEF CacheReferral, TrueStore
  <2>2. CASE SameReferral(t, m)
    BY <1>1, <2>1, <2>2, FailureTruth, ReturnTruth DEF SameReferral
  <2>3. CASE ReferralGlue(t, m)
    <3> DEFINE g == [Top(t) EXCEPT !.last_ns = NsNames(m),
                                   !.servers = GlueAddrs(m)]
    <3>1. /\ g \in CallFrame /\ g.pc = "query"
          /\ g.name = Top(t).name /\ g.type = Top(t).type
      BY <1>1, <1>2, <1>7 DEF CallFrame
    <3>2. Continue(t, <<g>>)
      BY <2>3 DEF ReferralGlue
    <3> HIDE DEF g
    <3>3. g \in Frame /\ Serves(g, Purpose(t))
      BY <1>1, <1>3, <3>1 DEF Frame, CallFrame, Serves
    <3> QED
      BY <1>1, <2>1, <3>2, <3>3, OneFrameTruth
  <2>4. CASE ReferralNames(t, m)
    <3> DEFINE g == [Top(t) EXCEPT !.last_ns = NsNames(m),
                                   !.pc = "ns", !.todo = NsNames(m)]
    <3>1. /\ g \in CallFrame /\ g.pc = "ns"
          /\ g.name = Top(t).name /\ g.type = Top(t).type
      BY <1>2, <1>7 DEF CallFrame
    <3>2. Continue(t, <<g>>)
      BY <2>4 DEF ReferralNames
    <3> HIDE DEF g
    <3>3. g \in Frame /\ Serves(g, Purpose(t))
      BY <1>1, <1>3, <3>1 DEF Frame, CallFrame, Serves
    <3> QED
      BY <1>1, <2>1, <3>2, <3>3, OneFrameTruth
  <2> QED
    BY <1>14, <2>2, <2>3, <2>4
<1> QED
  BY <1>5, <1>8, <1>9, <1>10, <1>11, <1>12, <1>13, <1>14 DEF Receive

\* The loop over the NS names changes neither name nor type of its call.
LEMMA NextServerKeeps ==
  ASSUME NEW f \in CallFrame, f.pc = "ns", Sound(f, f.depth), f.todo # <<>>,
         NEW recs \in SUBSET Record, NEW k, Serves(f, k)
  PROVE  NextServer(f, recs) \in Frame /\ Serves(NextServer(f, recs), k)
<1>1. NextServer(f, recs) \in Frame
  BY NextServerSound DEF Sound
<1>2. f.name = k[1] /\ f.type = k[2]
  BY DEF Serves
<1> DEFINE g == NextServer(f, recs)
<1>3. g.pc \in {"query", "ns"} /\ g.name = f.name /\ g.type = f.type
  BY DEF NextServer, CallFrame
<1> HIDE DEF g
<1>4. Serves(g, k)
  BY <1>2, <1>3 DEF Serves
<1> QED
  BY <1>1, <1>4 DEF g

LEMMA NsTruth ==
  ASSUME IInv, TruthInv, NEW t \in Task,
         NsCached(t) \/ NsResolve(t) \/ NsReturned(t) \/ NsExhausted(t)
  PROVE  TruthInv'
<1>1. /\ Active(t) /\ Top(t).pc = "ns" /\ GoodCache(cache)
      /\ TrueStore(cache', owed')
  BY DEF NsCached, NsResolve, NsReturned, NsExhausted, Choosing, Returned, IInv,
         TruthInv
<1>2. /\ Top(t) \in Frame /\ Sound(Top(t), Top(t).depth)
      /\ Top(t).depth \in Nat /\ Top(t) \in CallFrame
  BY <1>1, TopFrame, FrameKinds
<1>3. Serves(Top(t), Purpose(t))
  BY <1>1, TopServes
<1>4. CASE NsCached(t)
  <2>1. /\ Top(t).todo # <<>>
        /\ Continue(t, << NextServer(Top(t), cache[<<Head(Top(t).todo), "A">>]) >>)
        /\ <<Head(Top(t).todo), "A">> \in DOMAIN cache
    BY <1>4 DEF NsCached, Cached
  <2>2. cache[<<Head(Top(t).todo), "A">>] \in SUBSET Record
    BY <1>1, <2>1 DEF GoodCache
  <2> QED
    BY <1>1, <1>2, <1>3, <2>1, <2>2, NextServerKeeps, OneFrameTruth
<1>5. CASE NsResolve(t)
  <2> DEFINE g == RecFrame(Head(Top(t).todo), "A", Top(t).depth + 1)
  <2>1. Head(Top(t).todo) \in Name
    BY <1>2, <1>5, HeadTailProperties DEF NsResolve, CallFrame
  <2>2. Sound(g, Top(t).depth + 1)
    BY <1>1, <1>2, <2>1, RecFrameSound, TypeAssumption, LimitAssumption DEF Sound
  <2>3. Serves(g, Wants(Top(t)))
    BY <1>1, RecFrameServes DEF Wants
  <2>4. Continue(t, <<Top(t), g>>)
    BY <1>5 DEF NsResolve
  <2> HIDE DEF g
  <2> QED
    BY <1>1, <1>2, <1>3, <2>2, <2>3, <2>4, TwoFramesTruth DEF Sound
<1>6. CASE NsReturned(t)
  <2>1. Top(t).todo # <<>>
    BY <1>1, <1>6, TopFrame DEF NsReturned, Returned, AtName
  <2>2. Continue(t, << NextServer(Top(t), result[t].records) >>)
    BY <1>6 DEF NsReturned
  <2> QED
    BY <1>1, <1>2, <1>3, <2>1, <2>2, ResultParts, NextServerKeeps, OneFrameTruth
<1>7. CASE NsExhausted(t)
  BY <1>1, <1>7, FailureTruth, ReturnTruth DEF NsExhausted
<1> QED
  BY <1>4, <1>5, <1>6, <1>7

\* What a call of follow_cname_chain knows: a record of the name it has come
\* to, or of what that is an alias of, is one for the name asked about, and an
\* end of the aliases of the one is an end of those of the other.
LEMMA ChainTop ==
  ASSUME NetworkHonest, IInv, TruthInv, NEW t \in Task, Active(t),
         Top(t).pc \in {"target", "alias"}
  PROVE  /\ Top(t) \in ChainFrame /\ Top(t).name \in Name
         /\ Top(t).type # "CNAME" /\ Purpose(t)[2] = Top(t).type
         /\ Purpose(t) \in Name \X Type
         /\ \A r \in Top(t).chain : TrueRecord(r, Purpose(t)[1], "CNAME")
         /\ Top(t).name \in Chain[Purpose(t)[1]]
         /\ \A r, type : TrueRecord(r, Top(t).name, type) =>
              TrueRecord(r, Purpose(t)[1], type)
         /\ Ends(Purpose(t)[1], Top(t).type) \subseteq Ends(Top(t).name, Top(t).type)
<1>1. Top(t) \in ChainFrame /\ Top(t).name \in Name
  BY TopFrame, FrameKinds
<1> DEFINE k == Purpose(t)
<1>2. k \in Name \X Type /\ Serves(Top(t), k)
  BY TopServes
<1> HIDE DEF k
<1>3. /\ Top(t).type # "CNAME" /\ k[2] = Top(t).type
      /\ \A r \in Top(t).chain : TrueRecord(r, k[1], "CNAME")
      /\ Top(t).name \in Chain[k[1]]
  BY <1>2 DEF Serves
<1>4. Chain[Top(t).name] \subseteq Chain[k[1]]
  BY <1>2, <1>3, ChainTransitive
<1>5. \A r, type : TrueRecord(r, Top(t).name, type) => TrueRecord(r, k[1], type)
  BY <1>4 DEF TrueRecord
<1>6. Ends(k[1], Top(t).type) \subseteq Ends(Top(t).name, Top(t).type)
  BY <1>2, <1>3, EndsKept
<1> QED
  BY <1>1, <1>2, <1>3, <1>5, <1>6 DEF k

\* follow_cname_chain after its call for the target.
LEMMA TargetTruth ==
  ASSUME NetworkHonest, IInv, TruthInv, NEW t \in Task,
         TargetFound(t) \/ TargetEmpty(t) \/ TargetFails(t)
  PROVE  TruthInv'
<1> DEFINE f == Top(t)
           k == Purpose(t)
           r == result[t]
<1>1. Active(t) /\ f.pc = "target" /\ r # Pending /\ TrueStore(cache', owed')
  BY DEF TargetFound, TargetEmpty, TargetFails, Returned, TruthInv
<1>2. TrueFor(f.name, f.type, r)
  BY <1>1, ResultTrue DEF Wants
<1>3. /\ f \in ChainFrame /\ f.name \in Name /\ f.type # "CNAME"
      /\ k \in Name \X Type /\ k[2] = f.type
      /\ \A x \in f.chain : TrueRecord(x, k[1], "CNAME")
      /\ f.name \in Chain[k[1]]
      /\ \A x, type : TrueRecord(x, f.name, type) => TrueRecord(x, k[1], type)
      /\ Ends(k[1], f.type) \subseteq Ends(f.name, f.type)
  BY <1>1, ChainTop
<1> HIDE DEF f, k, r
<1>4. \A x \in r.records : TrueRecord(x, k[1], k[2])
  BY <1>2, <1>3 DEF TrueFor
<1>5. CASE TargetFound(t)
  <2> DEFINE recs == f.chain \cup r.records
  <2>1. r.status = "Ok" /\ Return(t, Ok(recs))
    BY <1>5 DEF TargetFound, f, r
  <2>2. \A x \in recs : TrueRecord(x, k[1], k[2])
    BY <1>3, <1>4 DEF TrueRecord
  <2>3. (\E e \in Ends(k[1], k[2]) : Of(e, k[2]) # {}) => \E x \in recs : x.type = k[2]
    BY <1>2, <1>3, <2>1 DEF TrueFor
  <2> HIDE DEF recs
  <2>4. TrueFor(k[1], k[2], Ok(recs))
    BY <2>2, <2>3 DEF TrueFor, Ok
  <2> QED
    BY <1>1, <2>1, <2>4, ReturnTruth DEF k
<1>6. CASE TargetEmpty(t)
  <2> DEFINE h == [f EXCEPT !.pc = "alias"]
             g == RecFrame(f.name, "CNAME", f.depth + 1)
  <2>1. Continue(t, <<h, g>>) /\ r.status = "Ok" /\ r.records = {}
    BY <1>6 DEF TargetEmpty, f, r
  <2>2. /\ h \in ChainFrame /\ h.pc = "alias" /\ h.depth = f.depth
        /\ h.name = f.name /\ h.type = f.type /\ h.chain = f.chain
    BY <1>3 DEF ChainFrame
  <2>3. f.depth \in Nat /\ Sound(f, f.depth) /\ f.depth <= MaxDepth
    <3>1. f.depth \in Nat /\ Sound(f, f.depth)
      BY <1>1, <1>3, TopFrame DEF f, ChainFrame
    <3> QED
      BY <1>1, <3>1 DEF Sound
  <2>4. Sound(h, f.depth)
    <3> HIDE DEF h
    <3> QED BY <2>2, <2>3, LimitAssumption DEF Sound, Frame, ChainFrame
  <2>5. g \in Frame /\ Serves(g, <<f.name, "CNAME">>)
    <3>1. Sound(g, f.depth + 1)
      BY <1>3, <2>3, RecFrameSound, TypeAssumption, LimitAssumption
    <3> QED
      BY <3>1, RecFrameServes DEF Sound
  <2>6. \A e \in Ends(f.name, f.type) : Of(e, f.type) = {}
    BY <1>2, <2>1 DEF TrueFor
  <2> HIDE DEF h, g
  <2>7. Serves(h, k) /\ Wants(h) = <<f.name, "CNAME">>
    BY <1>3, <2>2, <2>6 DEF Serves, Wants
  <2> QED
    BY <1>1, <2>1, <2>4, <2>5, <2>7, TwoFramesTruth DEF f, k
<1>7. CASE TargetFails(t)
  <2>1. r.status # "Ok" /\ Return(t, r)
    BY <1>7 DEF TargetFails, r
  <2>2. TrueFor(k[1], k[2], r)
    BY <1>2, <1>3, <1>4, <2>1 DEF TrueFor
  <2> QED
    BY <1>1, <2>1, <2>2, ReturnTruth DEF k
<1> QED
  BY <1>5, <1>6, <1>7

\* follow_cname_chain after its call for the CNAME of the target.
LEMMA AliasTruth ==
  ASSUME NetworkHonest, IInv, TruthInv, NEW t \in Task,
         AliasAgain(t) \/ AliasLimit(t) \/ AliasFails(t)
  PROVE  TruthInv'
<1> DEFINE f == Top(t)
           k == Purpose(t)
           r == result[t]
           recs == f.chain \cup Cnames(r.records)
<1>1. Active(t) /\ f.pc = "alias" /\ r # Pending /\ TrueStore(cache', owed')
  BY DEF AliasAgain, AliasLimit, AliasFails, Returned, TruthInv
<1>2. TrueFor(f.name, "CNAME", r)
  BY <1>1, ResultTrue DEF Wants
<1>3. /\ f \in ChainFrame /\ f.name \in Name /\ f.type # "CNAME"
      /\ k \in Name \X Type /\ k[2] = f.type
      /\ \A x \in f.chain : TrueRecord(x, k[1], "CNAME")
      /\ f.name \in Chain[k[1]]
      /\ \A x, type : TrueRecord(x, f.name, type) => TrueRecord(x, k[1], type)
      /\ Ends(k[1], f.type) \subseteq Ends(f.name, f.type)
  BY <1>1, ChainTop
<1>4. \A e \in Ends(k[1], k[2]) : Of(e, k[2]) = {}
  BY <1>1, <1>3, TopServes DEF Serves, f
<1> HIDE DEF f, k, r
<1>5. \A x \in Cnames(r.records) :
        TrueRecord(x, k[1], "CNAME") /\ x.type = "CNAME" /\ x.value \in Chain[k[1]]
  <2> SUFFICES ASSUME NEW x \in r.records, x.type = "CNAME"
               PROVE  TrueRecord(x, k[1], "CNAME") /\ x.value \in Chain[k[1]]
    BY DEF Cnames
  <2>1. TrueRecord(x, k[1], "CNAME")
    BY <1>2, <1>3 DEF TrueFor
  <2> QED
    BY <1>3, <2>1, ChainLeast DEF TrueRecord, Closed
<1>6. \A x \in recs : TrueRecord(x, k[1], "CNAME")
  BY <1>3, <1>5
<1>7. CASE AliasAgain(t)
  <2>1. PICK n \in NextName(f, r.records) :
          Continue(t, << Followed(f, n, r.records), RecFrame(n, f.type, f.depth + 1) >>)
    BY <1>7 DEF AliasAgain, f, r
  <2>2. n \in Chain[k[1]] /\ n \in Name
    <3>1. n \in Chain[k[1]]
      BY <1>3, <1>5, <2>1 DEF NextName
    <3> QED
      BY <1>3, <3>1, ChainTransitive
  <2> DEFINE h == Followed(f, n, r.records)
             g == RecFrame(n, f.type, f.depth + 1)
  <2>3. /\ h \in ChainFrame /\ h.pc = "target" /\ h.depth = f.depth
        /\ h.name = n /\ h.type = f.type /\ h.chain = recs
    <3>1. recs \in SUBSET Record
      BY <1>6 DEF TrueRecord, NetworkHonest
    <3>2. h \in ChainFrame /\ h.pc = "target" /\ h.depth = f.depth
      BY <1>3, <2>2, <3>1, FollowedKind
    <3> QED
      BY <1>3, <3>2 DEF Followed, ChainFrame
  <2>4. f.depth \in Nat /\ Sound(f, f.depth) /\ f.depth <= MaxDepth /\ f.type \in Type
    <3>1. f.depth \in Nat /\ Sound(f, f.depth)
      BY <1>1, <1>3, TopFrame DEF f, ChainFrame
    <3> QED
      BY <1>1, <1>3, <3>1 DEF Sound
  <2>5. Sound(h, f.depth)
    <3> HIDE DEF h
    <3> QED BY <2>3, <2>4, LimitAssumption DEF Sound, Frame, ChainFrame
  <2>6. g \in Frame /\ Serves(g, <<n, f.type>>)
    <3>1. Sound(g, f.depth + 1)
      BY <2>2, <2>4, RecFrameSound, LimitAssumption
    <3> QED
      BY <3>1, RecFrameServes DEF Sound
  <2>7. Continue(t, <<h, g>>)
    BY <2>1
  <2> HIDE DEF h, g, recs
  <2>8. Serves(h, k) /\ Wants(h) = <<n, f.type>>
    BY <1>3, <1>6, <2>2, <2>3 DEF Serves, Wants
  <2> QED
    BY <1>1, <2>5, <2>6, <2>7, <2>8, TwoFramesTruth DEF f, k
<1>8. CASE AliasLimit(t)
  <2>1. Return(t, Ok(recs))
    BY <1>8 DEF AliasLimit, f, r
  <2> HIDE DEF recs
  <2>2. TrueFor(k[1], k[2], Ok(recs))
    BY <1>4, <1>6 DEF TrueFor, Ok, TrueRecord
  <2> QED
    BY <1>1, <2>1, <2>2, ReturnTruth DEF k
<1>9. CASE AliasFails(t)
  <2>1. Return(t, Ok(f.chain))
    BY <1>9 DEF AliasFails, f
  <2>2. TrueFor(k[1], k[2], Ok(f.chain))
    BY <1>3, <1>4 DEF TrueFor, Ok, TrueRecord
  <2> QED
    BY <1>1, <2>1, <2>2, ReturnTruth DEF k
<1> QED
  BY <1>7, <1>8, <1>9

\* A true record is on the chain of its own name.
LEMMA InsertNextTruth ==
  ASSUME NetworkHonest, IInv, TruthInv, NEW t \in Task, InsertNext(t)
  PROVE  TruthInv'
<1>1. PICK e \in owed[t] :
        /\ cache' = Insert(e.record.name, e.record.type, {e.record})
        /\ owed' = [owed EXCEPT ![t] = @ \ {e}]
        /\ UNCHANGED <<asked, phase, stack, result>>
  BY DEF InsertNext
<1>2. TrueCache(cache) /\ e.record \in Truth /\ e.record \in Record
  BY DEF TruthInv, TrueStore, NetworkHonest
<1>3. TrueCache(cache')
  <2> DEFINE r == e.record
  <2>1. r \in Truth /\ r.name \in Chain[r.name]
    BY <1>2, RecordParts, ChainLeast
  <2> HIDE DEF r
  <2>2. TrueCache(Insert(r.name, r.type, {r}))
    BY <1>2, <2>1, InsertTrue
  <2> QED
    BY <1>1, <2>2 DEF r
<1>4. \A u \in Task : owed'[u] \subseteq owed[u]
  BY <1>1 DEF IInv, TypeOK
<1>5. TrueStore(cache', owed')
  BY <1>3, <1>4 DEF TruthInv, TrueStore
<1> QED
  BY <1>1, <1>5 DEF TruthInv

LEMMA NextTruth ==
  ASSUME NetworkHonest, IInv, TruthInv, [Next]_vars
  PROVE  TruthInv'
<1>1. ASSUME NEW t \in Task, NEW q \in Question, Ask(t, q) PROVE TruthInv'
  BY <1>1, AskTruth
<1>2. ASSUME NEW t \in Task, Work(t) PROVE TruthInv'
  <2>1. CASE LookupHit(t) \/ LookupMiss(t) \/ LookupAlias(t) \/ Recurse(t)
    BY <2>1, LookupTruth
  <2>2. CASE GiveUpTooDeep(t)
    <3>1. Active(t) /\ Return(t, Err("ServerFailure")) /\ TrueStore(cache', owed')
      BY <2>2 DEF GiveUpTooDeep, TooDeep, TruthInv
    <3> QED
      BY <3>1, FailureTruth, ReturnTruth
  <2>7. CASE InsertNext(t)
    BY <2>7, InsertNextTruth
  <2>3. CASE Query(t)
    BY <2>3, QueryTruth
  <2>4. CASE NsCached(t) \/ NsResolve(t) \/ NsReturned(t) \/ NsExhausted(t)
    BY <2>4, NsTruth
  <2>5. CASE TargetFound(t) \/ TargetEmpty(t) \/ TargetFails(t)
    BY <2>5, TargetTruth
  <2>6. CASE AliasAgain(t) \/ AliasLimit(t) \/ AliasFails(t)
    BY <2>6, AliasTruth
  <2> QED
    BY <1>2, <2>1, <2>2, <2>3, <2>4, <2>5, <2>6, <2>7 DEF Work, Step
<1>3. ASSUME NEW k \in Name \X Type, Forget(k) PROVE TruthInv'
  <2>1. TrueStore(cache', owed')
    BY <1>3 DEF Forget, TruthInv, TrueStore, TrueCache
  <2> QED
    BY <1>3, <2>1 DEF Forget, TruthInv
<1>4. CASE UNCHANGED vars
  BY <1>4 DEF vars, TruthInv
<1> QED
  BY <1>1, <1>2, <1>3, <1>4 DEF Next

\* In an honest network every answer is truthful, however many tasks share the
\* cache, whichever servers fail and whatever the limits cut short: no record
\* of another name, no empty answer for a name that has the data, no denial of
\* a name that exists (resolve, resolve_recursive, follow_cname_chain).
THEOREM OnlyTheTruth ==
  ASSUME NetworkHonest
  PROVE  Spec => []AnswersTrue
<1>1. Init => TruthInv
  BY DEF Init, TruthInv, TrueStore, TrueCache
<1>2. TruthInv /\ IInv /\ [Next]_vars => TruthInv'
  BY NextTruth
<1>3. TruthInv => AnswersTrue
  <2> SUFFICES ASSUME TruthInv, NEW t \in Task, Done(t)
               PROVE  TrueFor(asked[t].name, asked[t].type, result[t])
    BY DEF AnswersTrue
  <2>1. TrueResult(asked[t], <<>>, result[t])
    BY DEF TruthInv, Done
  <2>2. AskedAt(asked[t], <<>>, Len(<<>>) + 1) = <<asked[t].name, asked[t].type>>
    BY DEF AskedAt
  <2> QED
    BY <2>1, <2>2 DEF TrueResult
<1> QED
  BY <1>1, <1>2, <1>3, InvHolds, PTL DEF Spec
=============================================================================
