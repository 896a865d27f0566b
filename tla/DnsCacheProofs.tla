--------------------------- MODULE DnsCacheProofs ---------------------------
(***************************************************************************)
(* Theorems about DnsCache, for every set of tasks and keys, every record  *)
(* list, every cache size and a clock of any length.                       *)
(***************************************************************************)
EXTENDS CacheHistory, WellFoundedInduction, SequenceTheorems, FiniteSetTheorems, TLAPS

-----------------------------------------------------------------------------
(***************************************************************************)
(* TTL arithmetic.                                                         *)
(***************************************************************************)

\* A nonempty set of naturals has a least element: what min() of insert finds.
LEMMA LeastNatural ==
  ASSUME NEW S, S \subseteq Nat, S # {}
  PROVE  \E m \in S : \A n \in S : m <= n
<1>1. PICK m \in S : \A n \in S : ~(<<n, m>> \in OpToRel(<, Nat))
  BY WFMin, NatLessThanWellFounded
<1>2. \A n \in S : ~(n < m)
  BY <1>1 DEF OpToRel
<1>3. \A n \in S : m <= n
  BY <1>2
<1> QED BY <1>3

\* MinTtl of a nonempty record list is the TTL of one of its records and a
\* lower bound of them all (the iterator's min() in DnsCache::insert).
LEMMA MinTtlIsLeast ==
  ASSUME NEW recs \in Seq(Record), recs # <<>>
  PROVE  /\ MinTtl(recs) \in Nat
         /\ \A i \in 1..Len(recs) : MinTtl(recs) <= recs[i].ttl
<1>1. /\ Len(recs) \in Nat /\ 1 \in 1..Len(recs)
      /\ \A i \in 1..Len(recs) : recs[i] \in Record
  BY ElementOfSeq, EmptySeq
<1>2. Ttls(recs) \subseteq Nat /\ Ttls(recs) # {}
  BY <1>1 DEF Ttls, Record
<1>3. \E m \in Ttls(recs) : \A n \in Ttls(recs) : m <= n
  BY <1>2, LeastNatural
<1>4. /\ MinTtl(recs) \in Ttls(recs)
      /\ \A n \in Ttls(recs) : MinTtl(recs) <= n
  BY <1>3 DEF MinTtl
<1> QED BY <1>2, <1>4 DEF Ttls

\* What the duration divided by its resolution, as as_secs does, is worth.
LEMMA WholeSeconds ==
  ASSUME NEW a \in Nat
  PROVE  /\ a \div TicksPerSec \in Nat
         /\ (a \div TicksPerSec) * TicksPerSec <= a
BY TicksAssumption

LEMMA TicksMonotone ==
  ASSUME NEW a \in Nat, NEW b \in Nat, a <= b
  PROVE  /\ a * TicksPerSec \in Nat /\ b * TicksPerSec \in Nat
         /\ a * TicksPerSec <= b * TicksPerSec
BY TicksAssumption

\* An entry as insert builds it: its TTL is within the cap, and no record of it
\* has one below.
Honest(e) ==
  e.ttl <= TtlCap /\ \A i \in 1..Len(e.records) : e.ttl <= e.records[i].ttl

LEMMA NewEntryHonest ==
  ASSUME NEW recs \in Rrset, Cacheable(recs), NEW now \in Nat
  PROVE  NewEntry(recs, now) \in Entry /\ Honest(NewEntry(recs, now))
<1>1. recs \in Seq(Record) /\ recs # <<>>
  BY RrsetAssumption DEF Cacheable
<1>2. /\ MinTtl(recs) \in Nat
      /\ \A i \in 1..Len(recs) : MinTtl(recs) <= recs[i].ttl
  BY <1>1, MinTtlIsLeast
<1>3. \A i \in 1..Len(recs) : recs[i].ttl \in Nat
  <2>1. \A i \in 1..Len(recs) : recs[i] \in Record
    BY <1>1, ElementOfSeq
  <2> QED BY <2>1 DEF Record
<1> DEFINE t == IF MinTtl(recs) <= TtlCap THEN MinTtl(recs) ELSE TtlCap
<1>4. t \in Nat /\ t <= MinTtl(recs) /\ t <= TtlCap
  BY <1>2, TtlCapAssumption
<1>5. \A i \in 1..Len(recs) : t <= recs[i].ttl
  BY <1>2, <1>3, <1>4
<1>6. NewEntry(recs, now) = [records |-> recs, inserted_at |-> now, ttl |-> t]
  BY DEF NewEntry
<1> HIDE DEF t
<1> QED BY <1>1, <1>4, <1>5, <1>6 DEF Entry, Honest

\* The TTL handed out is a natural and, while the entry lives, ends with it.
LEMMA RemainingTtlBound ==
  ASSUME NEW e \in Entry, NEW now \in Nat
  PROVE  /\ RemainingTtl(e, now) \in Nat
         /\ RemainingTtl(e, now) > 0 =>
              now + RemainingTtl(e, now) * TicksPerSec
                <= e.inserted_at + Lifetime(e)
<1>1. e.inserted_at \in Nat /\ Lifetime(e) \in Nat
  BY TicksAssumption DEF Entry, Lifetime
<1>2. CASE now - e.inserted_at >= Lifetime(e)
  BY <1>2 DEF RemainingTtl
<1>3. CASE ~(now - e.inserted_at >= Lifetime(e))
  <2> DEFINE left == Lifetime(e) - (now - e.inserted_at)
  <2>1. left \in Nat
    BY <1>1, <1>3
  <2>2. RemainingTtl(e, now) = left \div TicksPerSec
    BY <1>3 DEF RemainingTtl
  <2>3. /\ left \div TicksPerSec \in Nat
        /\ (left \div TicksPerSec) * TicksPerSec <= left
    <3> HIDE DEF left
    <3> QED BY <2>1, WholeSeconds
  <2>4. (left \div TicksPerSec) * TicksPerSec \in Nat
    <3> HIDE DEF left
    <3> QED BY <2>3, TicksAssumption
  <2> QED BY <1>1, <2>2, <2>3, <2>4
<1> QED BY <1>2, <1>3

LEMMA AgedType ==
  ASSUME NEW e \in Entry, NEW now \in Nat
  PROVE  /\ Aged(e, now) \in Seq(Record)
         /\ Len(Aged(e, now)) = Len(e.records)
         /\ DOMAIN Aged(e, now) = 1..Len(e.records)
         /\ \A i \in 1..Len(e.records) :
              /\ Aged(e, now)[i].data = e.records[i].data
              /\ Aged(e, now)[i].ttl = RemainingTtl(e, now)
<1>1. /\ Len(e.records) \in Nat
      /\ \A i \in 1..Len(e.records) : e.records[i] \in Record
  BY ElementOfSeq DEF Entry
<1>2. RemainingTtl(e, now) \in Nat
  BY RemainingTtlBound
<1>3. \A i \in 1..Len(e.records) :
        [data |-> e.records[i].data, ttl |-> RemainingTtl(e, now)] \in Record
  BY <1>1, <1>2 DEF Record
<1> QED BY <1>1, <1>3, IsASeq DEF Aged

-----------------------------------------------------------------------------
(***************************************************************************)
(* The recency list.                                                       *)
(***************************************************************************)
Unique(s) == \A i, j \in 1..Len(s) : s[i] = s[j] => i = j

Elements(s) == {s[i] : i \in 1..Len(s)}

\* Taking a key out of a list that names each key once leaves such a list,
\* without the key (LruCache::pop, and the first half of a promotion).
LEMMA WithoutProperties ==
  ASSUME NEW s \in Seq(Key), Unique(s), NEW k \in Key
  PROVE  /\ Without(s, k) \in Seq(Key)
         /\ Unique(Without(s, k))
         /\ Elements(Without(s, k)) = Elements(s) \ {k}
         /\ Len(Without(s, k)) =
              IF k \in Elements(s) THEN Len(s) - 1 ELSE Len(s)
<1>1. CASE ~ \E i \in 1..Len(s) : s[i] = k
  BY <1>1 DEF Without, Elements
<1>2. CASE \E i \in 1..Len(s) : s[i] = k
  <2> DEFINE p == CHOOSE i \in 1..Len(s) : s[i] = k
             w == [i \in 1..(Len(s) - 1) |-> IF i < p THEN s[i] ELSE s[i + 1]]
  <2>1. p \in 1..Len(s) /\ s[p] = k
    BY <1>2
  <2>2. Without(s, k) = w
    BY <1>2 DEF Without
  <2> HIDE DEF p
  <2>3. Len(s) - 1 \in Nat
    BY <2>1
  <2>4. \A i \in 1..(Len(s) - 1) : w[i] \in Key
    BY <2>1, <2>3, ElementOfSeq
  <2>5. w \in Seq(Key) /\ Len(w) = Len(s) - 1
    BY <2>3, <2>4, IsASeq
  <2>6. \A i \in 1..(Len(s) - 1) :
          w[i] = IF i < p THEN s[i] ELSE s[i + 1]
    OBVIOUS
  <2> HIDE DEF w
  <2> DEFINE at(i) == IF i < p THEN i ELSE i + 1
  <2>7. Unique(w)
    <3> SUFFICES ASSUME NEW i \in 1..Len(w), NEW j \in 1..Len(w), i # j
                 PROVE  w[i] # w[j]
      BY DEF Unique
    <3>1. at(i) \in 1..Len(s) /\ at(j) \in 1..Len(s) /\ at(i) # at(j)
      BY <2>1, <2>3, <2>5
    <3>2. w[i] = s[at(i)] /\ w[j] = s[at(j)]
      BY <2>5, <2>6
    <3> HIDE DEF at
    <3> QED
      BY <3>1, <3>2 DEF Unique
  <2>8. Elements(w) = Elements(s) \ {k}
    <3>1. ASSUME NEW x \in Elements(w) PROVE x \in Elements(s) \ {k}
      BY <2>1, <2>3, <2>5, <2>6 DEF Elements, Unique
    <3>2. ASSUME NEW x \in Elements(s) \ {k} PROVE x \in Elements(w)
      <4>1. PICK j \in 1..Len(s) : s[j] = x
        BY DEF Elements
      <4>2. j # p
        BY <2>1, <4>1
      <4>3. CASE j < p
        BY <2>1, <2>3, <2>5, <2>6, <4>1, <4>3 DEF Elements
      <4>4. CASE j > p
        <5>1. /\ j - 1 \in 1..(Len(s) - 1) /\ ~(j - 1 < p) /\ (j - 1) + 1 = j
          BY <2>1, <2>3, <4>4
        <5>2. w[j - 1] = x
          BY <2>6, <4>1, <5>1
        <5> QED BY <2>5, <5>1, <5>2 DEF Elements
      <4> QED BY <2>1, <4>2, <4>3, <4>4
    <3> QED BY <3>1, <3>2
  <2>9. k \in Elements(s)
    BY <2>1 DEF Elements
  <2> QED BY <2>2, <2>5, <2>7, <2>8, <2>9
<1> QED BY <1>1, <1>2

\* A promotion, or the entry of a new key, keeps the list unique and adds the
\* key to it (LruCache::get and put).
LEMMA MoveToFrontProperties ==
  ASSUME NEW s \in Seq(Key), Unique(s), NEW k \in Key
  PROVE  /\ MoveToFront(s, k) \in Seq(Key)
         /\ Unique(MoveToFront(s, k))
         /\ Elements(MoveToFront(s, k)) = Elements(s) \cup {k}
         /\ Len(MoveToFront(s, k)) =
              IF k \in Elements(s) THEN Len(s) ELSE Len(s) + 1
<1> DEFINE w == Without(s, k)
<1>1. /\ w \in Seq(Key) /\ Unique(w) /\ Elements(w) = Elements(s) \ {k}
      /\ Len(w) = IF k \in Elements(s) THEN Len(s) - 1 ELSE Len(s)
  BY WithoutProperties
<1>2. MoveToFront(s, k) = <<k>> \o w
  BY DEF MoveToFront
<1> HIDE DEF w
<1>3. /\ <<k>> \o w \in Seq(Key)
      /\ Len(<<k>> \o w) = Len(w) + 1
      /\ (<<k>> \o w)[1] = k
      /\ \A i \in 2..(Len(w) + 1) : (<<k>> \o w)[i] = w[i - 1]
  BY <1>1
<1> DEFINE m == <<k>> \o w
<1> HIDE DEF m
<1>4. /\ m \in Seq(Key) /\ Len(m) = Len(w) + 1 /\ m[1] = k
      /\ \A i \in 2..(Len(w) + 1) : m[i] = w[i - 1]
  BY <1>3 DEF m
<1>5. \A i \in 1..Len(w) : w[i] # k
  BY <1>1 DEF Elements
<1>6. Unique(m)
  <2> SUFFICES ASSUME NEW i \in 1..Len(m), NEW j \in 1..Len(m), m[i] = m[j]
               PROVE  i = j
    BY DEF Unique
  <2>1. Len(w) \in Nat
    BY <1>1
  <2>2. CASE i = 1
    BY <1>4, <1>5, <2>1, <2>2
  <2>3. CASE j = 1
    BY <1>4, <1>5, <2>1, <2>3
  <2>4. CASE i # 1 /\ j # 1
    <3>1. i - 1 \in 1..Len(w) /\ j - 1 \in 1..Len(w)
      BY <1>4, <2>1, <2>4
    <3>2. w[i - 1] = w[j - 1]
      BY <1>4, <2>1, <2>4
    <3>3. i - 1 = j - 1
      BY <1>1, <3>1, <3>2 DEF Unique
    <3> QED BY <3>3
  <2> QED BY <2>2, <2>3, <2>4
<1>7. Elements(m) = Elements(w) \cup {k}
  <2>1. ASSUME NEW x \in Elements(m) PROVE x \in Elements(w) \cup {k}
    <3>1. PICK i \in 1..Len(m) : m[i] = x
      BY DEF Elements
    <3>2. Len(w) \in Nat
      BY <1>1
    <3>3. CASE i = 1
      BY <1>4, <3>1, <3>3
    <3>4. CASE i # 1
      <4>1. i - 1 \in 1..Len(w) /\ w[i - 1] = x
        BY <1>4, <3>1, <3>2, <3>4
      <4> QED BY <4>1 DEF Elements
    <3> QED BY <3>3, <3>4
  <2>2. ASSUME NEW x \in Elements(w) PROVE x \in Elements(m)
    <3>1. PICK i \in 1..Len(w) : w[i] = x
      BY DEF Elements
    <3>2. Len(w) \in Nat
      BY <1>1
    <3>3. i + 1 \in 2..(Len(w) + 1) /\ (i + 1) - 1 = i /\ i + 1 \in 1..Len(m)
      BY <1>4, <3>2
    <3>4. m[i + 1] = x
      BY <1>4, <3>1, <3>3
    <3> QED BY <3>3, <3>4 DEF Elements
  <2>3. k \in Elements(m)
    <3>1. 1 \in 1..Len(m)
      BY <1>1, <1>4
    <3> QED BY <1>4, <3>1 DEF Elements
  <2> QED BY <2>1, <2>2, <2>3
<1>8. Len(s) \in Nat
  OBVIOUS
<1> QED BY <1>1, <1>2, <1>4, <1>6, <1>7, <1>8 DEF m
-----------------------------------------------------------------------------
(***************************************************************************)
(* The inductive invariant.  Past TypeOK and LruConsistent it says that    *)
(* every entry, cached or in a task's hands, is honest about its records,  *)
(* and that an entry being read was alive when it was found.               *)
(***************************************************************************)
EntriesHonest ==
  /\ \A k \in DOMAIN cache : Honest(cache[k])
  /\ \A t \in Task : op[t].kind \in {"put", "read", "hit"} => Honest(op[t].entry)

ReadAlive ==
  \A t \in Task : op[t].kind = "read" =>
    op[t].checked < op[t].entry.inserted_at + Lifetime(op[t].entry)

CacheInv ==
  TypeOK /\ LruConsistent /\ EntriesHonest /\ ReadAlive /\ ReaderExclusive

\* What TypeOK says of a task's record, by its kind.
LEMMA OpTypes ==
  ASSUME TypeOK, NEW t \in Task
  PROVE  /\ op[t].kind \in {"idle", "put", "read", "hit"}
         /\ op[t].kind \in {"put", "read", "hit"} =>
              op[t].key \in Key /\ op[t].entry \in Entry
         /\ op[t].kind \in {"read", "hit"} => op[t].checked \in Nat
BY DEF TypeOK, IdleOp, PutOp, ReadOp, HitOp

\* The list names what the map holds, in the words of the lemmas.
LEMMA LruElements ==
  ASSUME TypeOK, LruConsistent
  PROVE  /\ lru \in Seq(Key) /\ Unique(lru)
         /\ Elements(lru) = DOMAIN cache
         /\ Len(lru) \in Nat /\ Len(lru) <= Capacity
         /\ Capacity \in Nat /\ Capacity > 0
BY SizeAssumption DEF TypeOK, LruConsistent, Unique, Elements, Capacity

\* The recency list after a put that has to make room.
LEMMA PutListFull ==
  ASSUME TypeOK, LruConsistent, NEW k \in Key,
         k \notin DOMAIN cache, Len(lru) = Capacity
  PROVE  LET last == lru[Len(lru)]
             list == MoveToFront(Without(lru, last), k)
         IN  /\ last \in DOMAIN cache
             /\ list \in Seq(Key) /\ Unique(list)
             /\ Elements(list) = (DOMAIN cache \ {last}) \cup {k}
             /\ Len(list) <= Capacity
<1> DEFINE last == lru[Len(lru)]
           s == Without(lru, last)
<1>1. /\ lru \in Seq(Key) /\ Unique(lru) /\ Elements(lru) = DOMAIN cache
      /\ Len(lru) \in Nat /\ Capacity \in Nat /\ Capacity > 0
  BY LruElements
<1>2. Len(lru) \in 1..Len(lru)
  BY <1>1
<1>3. last \in Key /\ last \in Elements(lru)
  BY <1>1, <1>2, ElementOfSeq DEF Elements
<1>4. /\ s \in Seq(Key) /\ Unique(s) /\ Elements(s) = DOMAIN cache \ {last}
      /\ Len(s) = Len(lru) - 1
  BY <1>1, <1>3, WithoutProperties
<1> HIDE DEF s
<1>5. /\ MoveToFront(s, k) \in Seq(Key) /\ Unique(MoveToFront(s, k))
      /\ Elements(MoveToFront(s, k)) = Elements(s) \cup {k}
      /\ Len(MoveToFront(s, k)) = Len(s) + 1
  BY <1>4, MoveToFrontProperties
<1>6. Len(MoveToFront(s, k)) <= Capacity
  BY <1>1, <1>4, <1>5
<1> QED BY <1>1, <1>3, <1>4, <1>5, <1>6 DEF s

\* The recency list after a put that replaces a value or has room.
LEMMA PutListRoom ==
  ASSUME TypeOK, LruConsistent, NEW k \in Key,
         k \in DOMAIN cache \/ Len(lru) # Capacity
  PROVE  LET list == MoveToFront(lru, k)
         IN  /\ list \in Seq(Key) /\ Unique(list)
             /\ Elements(list) = DOMAIN cache \cup {k}
             /\ Len(list) <= Capacity
<1>1. /\ lru \in Seq(Key) /\ Unique(lru) /\ Elements(lru) = DOMAIN cache
      /\ Len(lru) \in Nat /\ Len(lru) <= Capacity /\ Capacity \in Nat
  BY LruElements
<1>2. /\ MoveToFront(lru, k) \in Seq(Key) /\ Unique(MoveToFront(lru, k))
      /\ Elements(MoveToFront(lru, k)) = DOMAIN cache \cup {k}
      /\ Len(MoveToFront(lru, k)) =
           IF k \in DOMAIN cache THEN Len(lru) ELSE Len(lru) + 1
  BY <1>1, MoveToFrontProperties
<1>3. Len(MoveToFront(lru, k)) <= Capacity
  <2> DEFINE n == Len(MoveToFront(lru, k))
             h == Len(lru)
  <2> HIDE DEF n, h
  <2>1. h \in Nat /\ h <= Capacity /\ Capacity \in Nat
    BY <1>1 DEF h
  <2>2. CASE k \in DOMAIN cache
    BY <1>2, <2>1, <2>2 DEF n, h
  <2>3. CASE k \notin DOMAIN cache
    <3>1. n = h + 1 /\ h # Capacity
      BY <1>2, <2>3 DEF n, h
    <3>2. n <= Capacity
      BY <2>1, <3>1
    <3> QED BY <3>2 DEF n
  <2> QED BY <2>2, <2>3
<1> QED BY <1>2, <1>3

LEMMA InitInv == Init => CacheInv
<1> SUFFICES ASSUME Init PROVE CacheInv
  OBVIOUS
<1>1. lru = <<>> /\ lru \in Seq(Key) /\ Len(lru) = 0 /\ DOMAIN cache = {}
  BY DEF Init
<1>2. \A t \in Task : op[t] = Idle /\ op[t].kind = "idle"
  BY DEF Init, Idle
<1>3. TypeOK
  BY <1>1 DEF Init, TypeOK, IdleOp, Idle
<1>4. LruConsistent
  BY <1>1, SizeAssumption DEF LruConsistent, Capacity
<1> QED BY <1>1, <1>2, <1>3, <1>4
  DEF CacheInv, EntriesHonest, ReadAlive, ReaderExclusive

AllOps == IdleOp \cup PutOp \cup ReadOp \cup HitOp

\* A step that leaves the map alone and gives one task the record r: a miss,
\* a find, a serve, a stamp.
LEMMA OpStep ==
  ASSUME CacheInv, NEW t \in Task, NEW r \in AllOps,
         op' = [op EXCEPT ![t] = r],
         clock' = clock, cache' = cache, lru' \in Seq(Key), LruConsistent',
         r.kind \in {"put", "read", "hit"} => Honest(r.entry),
         r.kind = "read" =>
           /\ Unlocked
           /\ r.key \in DOMAIN cache /\ r.entry = cache[r.key]
           /\ r.checked < r.entry.inserted_at + Lifetime(r.entry)
  PROVE  CacheInv'
<1>1. /\ op \in [Task -> AllOps] /\ op' \in [Task -> AllOps]
      /\ op'[t] = r
      /\ \A u \in Task \ {t} : op'[u] = op[u]
  BY DEF CacheInv, TypeOK, AllOps
<1>2. TypeOK'
  BY <1>1 DEF CacheInv, TypeOK, AllOps
<1>3. EntriesHonest'
  BY <1>1 DEF CacheInv, EntriesHonest
<1>4. ReadAlive'
  BY <1>1 DEF CacheInv, ReadAlive
<1>5. ReaderExclusive'
  <2>1. CASE r.kind = "read"
    BY <1>1, <2>1 DEF ReaderExclusive, Unlocked
  <2>2. CASE r.kind # "read"
    BY <1>1, <2>2 DEF CacheInv, ReaderExclusive
  <2> QED BY <2>1, <2>2
<1> QED BY <1>2, <1>3, <1>4, <1>5 DEF CacheInv

\* A step that changes the map under the lock and leaves its task idle: a pop,
\* a put, a clear.
LEMMA MapStep ==
  ASSUME CacheInv, NEW t \in Task, Unlocked,
         op' = [op EXCEPT ![t] = Idle], clock' = clock,
         DOMAIN cache' \subseteq Key,
         \A k \in DOMAIN cache' : cache'[k] \in Entry /\ Honest(cache'[k]),
         lru' \in Seq(Key), LruConsistent'
  PROVE  CacheInv'
<1>1. /\ op \in [Task -> AllOps] /\ op' \in [Task -> AllOps]
      /\ op'[t] = Idle /\ Idle.kind = "idle"
      /\ \A u \in Task \ {t} : op'[u] = op[u]
  BY DEF CacheInv, TypeOK, AllOps, IdleOp, Idle
<1>2. TypeOK'
  BY <1>1 DEF CacheInv, TypeOK, AllOps
<1>3. EntriesHonest'
  BY <1>1 DEF CacheInv, EntriesHonest
<1>4. \A u \in Task : op'[u].kind # "read"
  BY <1>1 DEF Unlocked
<1> QED BY <1>2, <1>3, <1>4 DEF CacheInv, ReadAlive, ReaderExclusive

LEMMA NextInv == CacheInv /\ [Next]_vars => CacheInv'
<1> SUFFICES ASSUME CacheInv, [Next]_vars PROVE CacheInv'
  OBVIOUS
<1>1. /\ TypeOK /\ LruConsistent /\ EntriesHonest
      /\ lru \in Seq(Key) /\ Unique(lru) /\ Elements(lru) = DOMAIN cache
      /\ Len(lru) \in Nat /\ Len(lru) <= Capacity /\ Capacity \in Nat
      /\ clock \in Nat /\ DOMAIN cache \subseteq Key
      /\ \A k \in DOMAIN cache : cache[k] \in Entry
  BY LruElements DEF CacheInv, TypeOK
<1>2. Idle \in AllOps /\ Idle.kind = "idle"
  BY DEF AllOps, IdleOp, Idle
<1>3. CASE Tick
  <2>1. clock' \in Nat
    BY <1>1, <1>3 DEF Tick
  <2> QED BY <1>3, <2>1 DEF Tick, CacheInv, TypeOK, LruConsistent,
                            EntriesHonest, ReadAlive, ReaderExclusive
<1>4. ASSUME NEW t \in Task, NEW k \in Key, LookupMiss(t, k)
      PROVE  CacheInv'
  <2>1. LruConsistent'
    BY <1>1, <1>4 DEF LookupMiss, LruConsistent
  <2> QED BY <1>1, <1>2, <1>4, <2>1, OpStep DEF LookupMiss
<1>5. ASSUME NEW t \in Task, NEW k \in Key, LookupExpired(t, k)
      PROVE  CacheInv'
  <2>1. DOMAIN cache' = DOMAIN cache \ {k}
        /\ \A x \in DOMAIN cache' : cache'[x] = cache[x]
    BY <1>5 DEF LookupExpired, Drop
  <2>2. /\ lru' \in Seq(Key) /\ Unique(lru')
        /\ Elements(lru') = DOMAIN cache \ {k} /\ Len(lru') <= Capacity
    <3>1. lru' = Without(lru, k) /\ k \in Elements(lru)
      BY <1>1, <1>5 DEF LookupExpired
    <3>2. /\ lru' \in Seq(Key) /\ Unique(lru')
          /\ Elements(lru') = Elements(lru) \ {k} /\ Len(lru') = Len(lru) - 1
      BY <1>1, <3>1, WithoutProperties
    <3>3. Len(lru') <= Capacity
      BY <1>1, <3>2
    <3> QED BY <1>1, <3>2, <3>3
  <2>3. LruConsistent'
    BY <2>1, <2>2 DEF LruConsistent, Unique, Elements, Capacity
  <2>4. \A x \in DOMAIN cache' : cache'[x] \in Entry /\ Honest(cache'[x])
    BY <1>1, <2>1 DEF EntriesHonest
  <2> QED BY <1>1, <1>5, <2>1, <2>2, <2>3, <2>4, MapStep DEF LookupExpired
<1>6. ASSUME NEW t \in Task, NEW k \in Key, LookupFound(t, k)
      PROVE  CacheInv'
  <2> DEFINE r == [kind |-> "read", key |-> k,
                   entry |-> cache[k], checked |-> clock]
  <2>1. r \in AllOps
    BY <1>1, <1>6 DEF LookupFound, AllOps, ReadOp
  <2>2. /\ lru' \in Seq(Key) /\ Unique(lru')
        /\ Elements(lru') = DOMAIN cache /\ Len(lru') = Len(lru)
    <3>1. lru' = MoveToFront(lru, k) /\ k \in Elements(lru)
      BY <1>1, <1>6 DEF LookupFound
    <3>2. /\ lru' \in Seq(Key) /\ Unique(lru')
          /\ Elements(lru') = Elements(lru) \cup {k} /\ Len(lru') = Len(lru)
      BY <1>1, <3>1, MoveToFrontProperties
    <3> QED BY <1>1, <3>1, <3>2
  <2>3. LruConsistent'
    BY <1>1, <1>6, <2>2 DEF LookupFound, LruConsistent, Unique, Elements, Capacity
  <2>4. r.checked < r.entry.inserted_at + Lifetime(r.entry)
    <3>1. cache[k].inserted_at \in Nat /\ Lifetime(cache[k]) \in Nat
      BY <1>1, <1>6, TicksAssumption DEF LookupFound, Entry, Lifetime
    <3> QED BY <1>1, <1>6, <3>1 DEF LookupFound, IsExpired
  <2>5. Honest(r.entry)
    BY <1>1, <1>6 DEF LookupFound, EntriesHonest
  <2>6. /\ Unlocked /\ op' = [op EXCEPT ![t] = r] /\ clock' = clock
        /\ cache' = cache /\ r.key \in DOMAIN cache /\ r.entry = cache[r.key]
    BY <1>6 DEF LookupFound
  <2> HIDE DEF r
  <2> QED BY <2>1, <2>2, <2>3, <2>4, <2>5, <2>6, OpStep
<1>7. ASSUME NEW t \in Task, LookupServe(t)
      PROVE  CacheInv'
  <2> DEFINE r == [kind |-> "hit", key |-> op[t].key, entry |-> op[t].entry,
                   checked |-> op[t].checked, served |-> clock,
                   records |-> Aged(op[t].entry, clock)]
  <2>1. /\ op[t].key \in Key /\ op[t].entry \in Entry /\ op[t].checked \in Nat
        /\ Honest(op[t].entry)
    BY <1>1, <1>7, OpTypes DEF LookupServe, EntriesHonest
  <2>2. Aged(op[t].entry, clock) \in Seq(Record)
    BY <1>1, <2>1, AgedType
  <2>3. r \in AllOps
    BY <1>1, <2>1, <2>2 DEF AllOps, HitOp
  <2>4. LruConsistent'
    BY <1>1, <1>7 DEF LookupServe, LruConsistent
  <2>5. /\ op' = [op EXCEPT ![t] = r] /\ clock' = clock /\ cache' = cache
        /\ lru' \in Seq(Key) /\ Honest(r.entry) /\ r.kind = "hit"
    BY <1>1, <1>7, <2>1 DEF LookupServe
  <2> HIDE DEF r
  <2> QED BY <2>3, <2>4, <2>5, OpStep
<1>8. ASSUME NEW t \in Task, NEW k \in Key, NEW recs \in Rrset,
             InsertStamp(t, k, recs)
      PROVE  CacheInv'
  <2> DEFINE r == [kind |-> "put", key |-> k, entry |-> NewEntry(recs, clock)]
  <2>1. NewEntry(recs, clock) \in Entry /\ Honest(NewEntry(recs, clock))
    BY <1>1, <1>8, NewEntryHonest DEF InsertStamp
  <2>2. r \in AllOps
    BY <2>1 DEF AllOps, PutOp
  <2>3. LruConsistent'
    BY <1>1, <1>8 DEF InsertStamp, LruConsistent
  <2>4. /\ op' = [op EXCEPT ![t] = r] /\ clock' = clock /\ cache' = cache
        /\ lru' \in Seq(Key) /\ Honest(r.entry) /\ r.kind = "put"
    BY <1>1, <1>8, <2>1 DEF InsertStamp
  <2> HIDE DEF r
  <2> QED BY <2>2, <2>3, <2>4, OpStep
<1>9. ASSUME NEW t \in Task, InsertPut(t)
      PROVE  CacheInv'
  <2> DEFINE k    == op[t].key
             last == lru[Len(lru)]
             old  == IF k \notin DOMAIN cache /\ Len(lru) = Capacity
                     THEN Drop(cache, last) ELSE cache
  <2>1. k \in Key /\ op[t].entry \in Entry /\ Honest(op[t].entry)
    BY <1>1, <1>9, OpTypes DEF InsertPut, EntriesHonest
  <2>2. /\ DOMAIN old = IF k \notin DOMAIN cache /\ Len(lru) = Capacity
                        THEN DOMAIN cache \ {last} ELSE DOMAIN cache
        /\ \A x \in DOMAIN old : old[x] = cache[x]
    BY DEF Drop
  <2>3. cache' = Store(old, k, op[t].entry)
    BY <1>9 DEF InsertPut
  <2> HIDE DEF old
  <2>4. /\ DOMAIN cache' = DOMAIN old \cup {k}
        /\ cache'[k] = op[t].entry
        /\ \A x \in DOMAIN old \ {k} : cache'[x] = cache[x]
    BY <2>2, <2>3 DEF Store
  <2>5. /\ lru' \in Seq(Key) /\ Unique(lru')
        /\ Elements(lru') = DOMAIN old \cup {k} /\ Len(lru') <= Capacity
    <3>1. CASE k \notin DOMAIN cache /\ Len(lru) = Capacity
      <4>1. lru' = MoveToFront(Without(lru, last), k)
        BY <1>9, <3>1 DEF InsertPut
      <4> QED BY <1>1, <2>1, <2>2, <3>1, <4>1, PutListFull
    <3>2. CASE ~(k \notin DOMAIN cache /\ Len(lru) = Capacity)
      <4>1. lru' = MoveToFront(lru, k)
        BY <1>9, <3>2 DEF InsertPut
      <4> QED BY <1>1, <2>1, <2>2, <3>2, <4>1, PutListRoom
    <3> QED BY <3>1, <3>2
  <2>6. LruConsistent'
    BY <2>4, <2>5 DEF LruConsistent, Unique, Elements, Capacity
  <2>7. /\ DOMAIN cache' \subseteq Key
        /\ \A x \in DOMAIN cache' : cache'[x] \in Entry /\ Honest(cache'[x])
    BY <1>1, <2>1, <2>2, <2>4 DEF EntriesHonest
  <2>8. Unlocked /\ op' = [op EXCEPT ![t] = Idle] /\ clock' = clock
    BY <1>9 DEF InsertPut
  <2> QED BY <2>5, <2>6, <2>7, <2>8, MapStep
<1>10. ASSUME NEW t \in Task, Clear(t)
       PROVE  CacheInv'
  <2>1. /\ lru' = <<>> /\ lru' \in Seq(Key) /\ Len(lru') = 0
        /\ DOMAIN cache' = {}
    BY <1>10 DEF Clear
  <2>2. LruConsistent'
    BY <2>1, SizeAssumption DEF LruConsistent, Capacity
  <2> QED BY <1>10, <2>1, <2>2, MapStep DEF Clear
<1>11. CASE UNCHANGED vars
  BY <1>11 DEF vars, CacheInv, TypeOK, LruConsistent, EntriesHonest,
               ReadAlive, ReaderExclusive
<1> QED BY <1>3, <1>4, <1>5, <1>6, <1>7, <1>8, <1>9, <1>10, <1>11
        DEF Next, TaskStep

-----------------------------------------------------------------------------
(***************************************************************************)
(* ServedWithinTtl rests on CacheInv: a serve reads an honest entry that   *)
(* was alive when it was found.                                            *)
(***************************************************************************)
LEMMA ServedStep ==
  CacheInv /\ ServedWithinTtl /\ [Next]_vars => ServedWithinTtl'
<1> SUFFICES ASSUME CacheInv, ServedWithinTtl, [Next]_vars,
                    NEW t \in Task, op'[t].kind = "hit"
             PROVE  LET e   == op'[t].entry
                        cap == e.inserted_at + TtlCap * TicksPerSec
                    IN  /\ op'[t].checked < e.inserted_at + Lifetime(e)
                        /\ op'[t].checked < cap
                        /\ \A i \in 1..Len(op'[t].records) :
                             LET end == op'[t].served
                                        + op'[t].records[i].ttl * TicksPerSec
                             IN  op'[t].records[i].ttl > 0 =>
                                   /\ end <= e.inserted_at
                                             + e.records[i].ttl * TicksPerSec
                                   /\ end <= cap
  BY DEF ServedWithinTtl
<1>1. TypeOK /\ clock \in Nat
  BY DEF CacheInv, TypeOK
<1>2. CASE op'[t] = op[t]
  BY <1>2 DEF ServedWithinTtl
<1>3. CASE LookupServe(t)
  <2> DEFINE e == op[t].entry
             recs == Aged(e, clock)
  <2>1. /\ op'[t].entry = e /\ op'[t].checked = op[t].checked
        /\ op'[t].served = clock /\ op'[t].records = recs
    BY <1>1, <1>3 DEF LookupServe, TypeOK
  <2>2. /\ e \in Entry /\ Honest(e) /\ op[t].checked \in Nat
        /\ op[t].checked < e.inserted_at + Lifetime(e)
    BY <1>1, <1>3, OpTypes DEF LookupServe, CacheInv, EntriesHonest, ReadAlive
  <2> HIDE DEF e
  <2> DEFINE cap == TtlCap * TicksPerSec
  <2>4. e.inserted_at \in Nat /\ Lifetime(e) \in Nat /\ cap \in Nat /\ Lifetime(e) <= cap
    BY <2>2, TicksMonotone, TtlCapAssumption DEF Entry, Lifetime, Honest
  <2> HIDE DEF cap
  <2>5. op[t].checked < e.inserted_at + cap
    BY <2>2, <2>4
  <2>0. /\ Len(recs) = Len(e.records)
        /\ \A j \in 1..Len(e.records) :
             recs[j].ttl = RemainingTtl(e, clock)
    BY <1>1, <2>2, AgedType
  <2> HIDE DEF recs
  <2>3. ASSUME NEW i \in 1..Len(recs), recs[i].ttl > 0
        PROVE  /\ clock + recs[i].ttl * TicksPerSec
                    <= e.inserted_at + e.records[i].ttl * TicksPerSec
               /\ clock + recs[i].ttl * TicksPerSec <= e.inserted_at + cap
    <3>1. i \in 1..Len(e.records) /\ recs[i].ttl = RemainingTtl(e, clock)
      BY <2>0
    <3>2. clock + recs[i].ttl * TicksPerSec <= e.inserted_at + Lifetime(e)
      BY <1>1, <2>2, <2>3, <3>1, RemainingTtlBound
    <3>3. e.records[i] \in Record
      BY <2>2, <3>1, ElementOfSeq DEF Entry
    <3>4. e.ttl \in Nat /\ e.records[i].ttl \in Nat /\ e.inserted_at \in Nat
      BY <2>2, <3>3 DEF Entry, Record
    <3>5. e.ttl <= e.records[i].ttl
      BY <2>2, <3>1 DEF Honest
    <3>6. /\ Lifetime(e) \in Nat /\ e.records[i].ttl * TicksPerSec \in Nat
          /\ Lifetime(e) <= e.records[i].ttl * TicksPerSec
      BY <3>4, <3>5, TicksMonotone DEF Lifetime
    <3>7. RemainingTtl(e, clock) * TicksPerSec \in Nat
      <4>1. RemainingTtl(e, clock) \in Nat
        BY <1>1, <2>2, RemainingTtlBound
      <4> QED BY <4>1, TicksMonotone
    <3> DEFINE served == recs[i].ttl * TicksPerSec
               had == e.records[i].ttl * TicksPerSec
    <3>8. served \in Nat /\ had \in Nat /\ clock \in Nat
      BY <1>1, <3>1, <3>6, <3>7
    <3>9. clock + served <= e.inserted_at + Lifetime(e) /\ Lifetime(e) <= had
      BY <3>2, <3>6
    <3> HIDE DEF recs, served, had
    <3>10. /\ clock + served <= e.inserted_at + had
           /\ clock + served <= e.inserted_at + cap
      BY <2>4, <3>4, <3>6, <3>8, <3>9
    <3> QED BY <3>10 DEF served, had
  <2> QED BY <2>1, <2>2, <2>3, <2>5 DEF cap
<1>4. op'[t] = op[t] \/ LookupServe(t)
  <2>1. op \in [Task -> AllOps]
    BY <1>1 DEF TypeOK, AllOps
  <2>2. CASE Tick
    BY <2>2 DEF Tick
  <2>3. CASE UNCHANGED vars
    BY <2>3 DEF vars
  <2>4. ASSUME NEW u \in Task, TaskStep(u)
        PROVE  op'[t] = op[t] \/ LookupServe(t)
    <3>1. CASE u # t
      BY <2>1, <2>4, <3>1 DEF TaskStep, LookupMiss, LookupExpired, LookupFound,
                              LookupServe, InsertStamp, InsertPut, Clear
    <3>2. CASE u = t
      BY <2>1, <2>4, <3>2 DEF TaskStep, LookupMiss, LookupExpired, LookupFound,
                              InsertStamp, InsertPut, Clear, Idle
    <3> QED BY <3>1, <3>2
  <2> QED BY <2>2, <2>3, <2>4 DEF Next
<1> QED BY <1>2, <1>3, <1>4

LEMMA InvHolds == Spec => [](CacheInv /\ ServedWithinTtl)
<1>1. Init => CacheInv /\ ServedWithinTtl
  <2>1. Init => \A t \in Task : op[t].kind = "idle"
    BY DEF Init, Idle
  <2> QED BY <2>1, InitInv DEF ServedWithinTtl
<1>2. (CacheInv /\ ServedWithinTtl) /\ [Next]_vars
        => (CacheInv /\ ServedWithinTtl)'
  BY NextInv, ServedStep
<1> QED BY <1>1, <1>2, PTL DEF Spec

\* The cache and the tasks' views of it are well typed in every state; above
\* all a TTL handed out is never negative (CacheEntry::remaining_ttl).
THEOREM TypeCorrect == Spec => []TypeOK
<1>1. CacheInv => TypeOK
  BY DEF CacheInv
<1> QED BY <1>1, InvHolds, PTL

\* The recency list and the map agree, whatever the tasks interleave, and the
\* map never outgrows its capacity (DnsCache::lookup, insert, clear).
THEOREM LruAlwaysConsistent == Spec => []LruConsistent
<1>1. CacheInv => LruConsistent
  BY DEF CacheInv
<1> QED BY <1>1, InvHolds, PTL

\* No record is served past the TTL it came with (DnsCache::lookup).
THEOREM NeverServedLate == Spec => []ServedWithinTtl
BY InvHolds, PTL

\* A lookup's two steps see one entry, and no other lookup runs between them
\* (the write guard of DnsCache::lookup).
THEOREM LookupsExclude == Spec => []ReaderExclusive
<1>1. CacheInv => ReaderExclusive
  BY DEF CacheInv
<1> QED BY <1>1, InvHolds, PTL

-----------------------------------------------------------------------------
(***************************************************************************)
(* Refinement: each action of the cache is an action of the lossy store.   *)
(***************************************************************************)
LEMMA SoftInit == Init => Soft!Init
BY DEF Init, Soft!Init, Idle

LEMMA SoftServe ==
  ASSUME CacheInv, NEW t \in Task, LookupServe(t)
  PROVE  Soft!Serve(t)
<1> DEFINE e == op[t].entry
           recs == Aged(e, clock)
<1>1. e \in Entry /\ clock \in Nat /\ op \in [Task -> AllOps]
  BY OpTypes DEF CacheInv, LookupServe, TypeOK, AllOps
<1>2. op'[t] = [kind |-> "hit", key |-> op[t].key, entry |-> e,
                checked |-> op[t].checked, served |-> clock, records |-> recs]
  BY <1>1 DEF LookupServe
<1>3. op'[t].kind = "hit" /\ op'[t].records = recs
  BY <1>2
<1> HIDE DEF e
<1>4. /\ DOMAIN recs = 1..Len(e.records)
      /\ \A i \in 1..Len(e.records) :
           /\ recs[i].data = e.records[i].data
           /\ recs[i].ttl > 0 =>
                clock + recs[i].ttl * TicksPerSec <= e.inserted_at + Lifetime(e)
  <2>1. /\ DOMAIN recs = 1..Len(e.records)
        /\ \A i \in 1..Len(e.records) :
             /\ recs[i].data = e.records[i].data
             /\ recs[i].ttl = RemainingTtl(e, clock)
    BY <1>1, AgedType
  <2>2. RemainingTtl(e, clock) > 0 =>
          clock + RemainingTtl(e, clock) * TicksPerSec <= e.inserted_at + Lifetime(e)
    BY <1>1, RemainingTtlBound
  <2> HIDE DEF recs
  <2> QED BY <2>1, <2>2
<1> HIDE DEF recs
<1>5. Soft!Honest(recs, e, clock)
  BY <1>4 DEF Soft!Honest, Soft!Lifetime, Lifetime
<1>6. op' = [op EXCEPT ![t] =
               [kind |-> "hit", key |-> op[t].key, entry |-> op[t].entry,
                checked |-> op[t].checked, served |-> clock,
                records |-> op'[t].records]]
  BY <1>3 DEF LookupServe, e, recs
<1>7. Soft!Honest(op'[t].records, op[t].entry, clock)
  BY <1>3, <1>5 DEF e
<1> QED BY <1>3, <1>6, <1>7 DEF LookupServe, Soft!Serve

LEMMA SoftNext == CacheInv /\ [Next]_vars => [Soft!Next]_Soft!vars
<1> SUFFICES ASSUME CacheInv, [Next]_vars PROVE [Soft!Next]_Soft!vars
  OBVIOUS
<1>1. CASE Tick
  BY <1>1 DEF Tick, Soft!Tick, Soft!Next
<1>2. ASSUME NEW t \in Task, NEW k \in Key, LookupMiss(t, k) PROVE Soft!Lose(t)
  BY <1>2 DEF LookupMiss, Soft!Lose, Soft!Resting, Soft!Within, Free, Idle
<1>3. ASSUME NEW t \in Task, NEW k \in Key, LookupExpired(t, k) PROVE Soft!Lose(t)
  BY <1>3 DEF LookupExpired, Drop, Soft!Lose, Soft!Resting, Soft!Within, Free, Idle
<1>4. ASSUME NEW t \in Task, NEW k \in Key, LookupFound(t, k) PROVE Soft!Find(t, k)
  <2>1. cache[k] \in Entry /\ clock \in Nat
    BY <1>4 DEF LookupFound, CacheInv, TypeOK
  <2>2. cache[k].inserted_at \in Nat /\ Lifetime(cache[k]) \in Nat
    BY <2>1, TicksAssumption DEF Entry, Lifetime
  <2>3. clock < cache[k].inserted_at + Lifetime(cache[k])
    BY <1>4, <2>1, <2>2 DEF LookupFound, IsExpired
  <2> QED BY <1>4, <2>3 DEF LookupFound, Soft!Find, Soft!Resting, Free,
                            Soft!Lifetime, Lifetime
<1>5. ASSUME NEW t \in Task, LookupServe(t) PROVE Soft!Serve(t)
  BY <1>5, SoftServe
<1>6. ASSUME NEW t \in Task, NEW k \in Key, NEW recs \in Rrset,
             InsertStamp(t, k, recs)
      PROVE  Soft!Offer(t, k, recs)
  BY <1>6 DEF InsertStamp, Soft!Offer, Soft!Resting, Free, Cacheable,
              Soft!Cacheable, NewEntry, Soft!NewEntry, MinTtl, Soft!MinTtl,
              Ttls, Soft!Ttls
<1>7. ASSUME NEW t \in Task, InsertPut(t) PROVE Soft!Publish(t)
  BY <1>7 DEF InsertPut, Store, Drop, Soft!Publish, Idle
<1>8. ASSUME NEW t \in Task, Clear(t) PROVE Soft!Lose(t)
  BY <1>8 DEF Clear, Soft!Lose, Soft!Resting, Soft!Within, Free, Idle
<1>9. CASE UNCHANGED vars
  BY <1>9 DEF vars, Soft!vars
<1> QED BY <1>1, <1>2, <1>3, <1>4, <1>5, <1>6, <1>7, <1>8, <1>9
        DEF Next, TaskStep, Soft!Next

\* The cache does nothing the lossy store may not do: the resolver can be
\* reasoned about against SoftCache alone.
THEOREM CacheImplementsSoftCache == Spec => ImplementsSoftCache
BY SoftInit, SoftNext, InvHolds, PTL DEF Spec, ImplementsSoftCache, Soft!Spec

-----------------------------------------------------------------------------
(***************************************************************************)
(* The order of the list is the order of use: the key at position j was    *)
(* used before the key at any position i ahead of it.                      *)
(***************************************************************************)
Ordered(s, o) == \A i, j \in 1..Len(s) : i < j => <<s[j], s[i]>> \in o

\* The history after a use of k.
Touched(o, k) == {p \in o : p[1] # k /\ p[2] # k} \cup ((Key \ {k}) \X {k})

\* A key that is taken out leaves the others in their order.
LEMMA WithoutOrdered ==
  ASSUME NEW s \in Seq(Key), Unique(s), NEW k \in Key, NEW o, Ordered(s, o)
  PROVE  Ordered(Without(s, k), o)
<1>1. CASE ~ \E i \in 1..Len(s) : s[i] = k
  BY <1>1 DEF Without
<1>2. CASE \E i \in 1..Len(s) : s[i] = k
  <2> DEFINE p == CHOOSE i \in 1..Len(s) : s[i] = k
             w == [i \in 1..(Len(s) - 1) |-> IF i < p THEN s[i] ELSE s[i + 1]]
             at(i) == IF i < p THEN i ELSE i + 1
  <2>1. p \in 1..Len(s) /\ Without(s, k) = w
    BY <1>2 DEF Without
  <2> HIDE DEF p
  <2>2. Len(s) \in Nat /\ Len(s) - 1 \in Nat
    BY <2>1
  <2>3. Len(w) = Len(s) - 1
    <3>1. \A i \in 1..(Len(s) - 1) : w[i] \in Key
      BY <2>1, <2>2, ElementOfSeq
    <3> QED
      BY <2>2, <3>1, IsASeq
  <2>4. ASSUME NEW i \in 1..Len(w), NEW j \in 1..Len(w), i < j PROVE <<w[j], w[i]>> \in o
    <3>1. /\ at(i) \in 1..Len(s) /\ at(j) \in 1..Len(s) /\ at(i) < at(j)
          /\ i \in 1..(Len(s) - 1) /\ j \in 1..(Len(s) - 1)
      BY <2>1, <2>2, <2>3, <2>4
    <3>2. w[i] = s[at(i)] /\ w[j] = s[at(j)]
      BY <3>1
    <3> HIDE DEF at, w
    <3> QED
      BY <3>1, <3>2 DEF Ordered
  <2> HIDE DEF w
  <2> QED
    BY <2>1, <2>4 DEF Ordered
<1> QED
  BY <1>1, <1>2

\* The key that is used goes ahead of all others, in the list and the history.
LEMMA MoveToFrontOrdered ==
  ASSUME NEW s \in Seq(Key), Unique(s), NEW k \in Key, NEW o, Ordered(s, o)
  PROVE  Ordered(MoveToFront(s, k), Touched(o, k))
<1> DEFINE w == Without(s, k)
           m == <<k>> \o w
<1>1. /\ w \in Seq(Key) /\ Elements(w) = Elements(s) \ {k} /\ Ordered(w, o)
  BY WithoutProperties, WithoutOrdered
<1> HIDE DEF w
<1>2. /\ Len(w) \in Nat /\ Len(m) = Len(w) + 1 /\ m[1] = k
      /\ \A i \in 2..(Len(w) + 1) : m[i] = w[i - 1]
  BY <1>1
<1> HIDE DEF m
<1>3. ASSUME NEW i \in 2..Len(m) PROVE i - 1 \in 1..Len(w) /\ m[i] = w[i - 1] /\ m[i] \in Key /\ m[i] # k
  <2>1. i - 1 \in 1..Len(w) /\ m[i] = w[i - 1]
    BY <1>2
  <2>2. w[i - 1] \in Key /\ w[i - 1] \in Elements(w)
    BY <1>1, <2>1, ElementOfSeq DEF Elements
  <2> QED
    BY <1>1, <2>1, <2>2
<1>4. ASSUME NEW i \in 1..Len(m), NEW j \in 1..Len(m), i < j
      PROVE  <<m[j], m[i]>> \in Touched(o, k)
  <2>1. j \in 2..Len(m)
    BY <1>2, <1>4
  <2>2. CASE i = 1
    BY <1>2, <1>3, <2>1, <2>2 DEF Touched
  <2>3. CASE i # 1
    <3>1. i \in 2..Len(m)
      BY <1>2, <2>3
    <3>2. i - 1 < j - 1
      BY <1>2, <1>4
    <3>3. <<w[j - 1], w[i - 1]>> \in o
      BY <1>1, <1>3, <2>1, <3>1, <3>2 DEF Ordered
    <3>4. <<m[j], m[i]>> \in o /\ m[j] # k /\ m[i] # k
      BY <1>3, <2>1, <3>1, <3>3
    <3> QED
      BY <3>4 DEF Touched
  <2> QED
    BY <2>2, <2>3
<1>5. MoveToFront(s, k) = m
  BY DEF MoveToFront, m, w
<1> QED
  BY <1>4, <1>5 DEF Ordered

\* The list of the keys is as long as there are keys.
LEMMA ListCounts ==
  ASSUME NEW s \in Seq(Key), Unique(s)
  PROVE  Cardinality(Elements(s)) = Len(s)
<1> DEFINE n == Len(s)
<1>1. n \in Nat /\ s \in [1..n -> Elements(s)]
  <2>1. Len(s) \in Nat /\ DOMAIN s = 1..Len(s) /\ s \in [1..Len(s) -> Key]
    BY LenProperties
  <2>2. \A i \in 1..Len(s) : s[i] \in Elements(s)
    BY DEF Elements
  <2> QED
    BY <2>1, <2>2
<1> HIDE DEF n
<1>2. s \in Bijection(1..n, Elements(s))
  <2>1. \A a, b \in 1..n : s[a] = s[b] => a = b
    BY DEF Unique, n
  <2>2. \A e \in Elements(s) : \E a \in 1..n : s[a] = e
    BY DEF Elements, n
  <2> QED
    BY <1>1, <2>1, <2>2 DEF Bijection, Injection, Surjection, IsInjective
<1>3. ExistsBijection(1..n, Elements(s))
  BY <1>2 DEF ExistsBijection
<1> QED
  BY <1>1, <1>3, FS_CountingElements DEF n

\* One task's operation uses the key it found or put, or none.
LEMMA UsedByTask ==
  ASSUME TypeOK, NEW t \in Task, NEW r, op' = [op EXCEPT ![t] = r]
  PROVE  /\ op[t].kind # "read" /\ r.kind = "read" => Used = {r.key}
         /\ op[t].kind = "put" /\ r.kind = "idle" => Used = {op[t].key}
         /\ ~(op[t].kind # "read" /\ r.kind = "read") /\ ~(op[t].kind = "put" /\ r.kind = "idle")
              => Used = {}
<1> DEFINE Found(u) == op[u].kind # "read" /\ op'[u].kind = "read"
           Stored(u) == op[u].kind = "put" /\ op'[u].kind = "idle"
<1>1. op'[t] = r /\ \A u \in Task \ {t} : op'[u] = op[u]
  BY DEF TypeOK
<1>2. \A u \in Task \ {t} : ~Found(u) /\ ~Stored(u)
  BY <1>1
<1>3. Found(t) = (op[t].kind # "read" /\ r.kind = "read")
      /\ Stored(t) = (op[t].kind = "put" /\ r.kind = "idle")
  BY <1>1
<1>4. Used = {op'[u].key : u \in {v \in Task : Found(v)}}
             \cup {op[u].key : u \in {v \in Task : Stored(v)}}
  BY DEF Used
<1>5. ~(Found(t) /\ Stored(t))
  BY <1>1
<1> HIDE DEF Found, Stored
<1>6. CASE Found(t)
  <2>1. {v \in Task : Found(v)} = {t} /\ {v \in Task : Stored(v)} = {}
    BY <1>2, <1>5, <1>6
  <2>2. Used = {op'[t].key}
    BY <1>4, <2>1
  <2> QED
    BY <1>1, <1>3, <1>5, <1>6, <2>2
<1>7. CASE Stored(t)
  <2>1. {v \in Task : Found(v)} = {} /\ {v \in Task : Stored(v)} = {t}
    BY <1>2, <1>5, <1>7
  <2> QED
    BY <1>3, <1>4, <1>5, <1>7, <2>1
<1>8. CASE ~Found(t) /\ ~Stored(t)
  <2>1. {v \in Task : Found(v)} = {} /\ {v \in Task : Stored(v)} = {}
    BY <1>2, <1>8
  <2> QED
    BY <1>3, <1>4, <1>8, <2>1
<1> QED
  BY <1>6, <1>7, <1>8

\* A task that is done is idle.
LEMMA IdleKind == Idle.kind = "idle"
BY DEF Idle

(***************************************************************************)
(* The inductive invariant of the history: the two orders are the same.    *)
(***************************************************************************)
HistoryInv == CacheInv /\ Ordered(lru, older)

LEMMA HistoryUnused ==
  ASSUME Used = {} PROVE NowOlder = older
BY DEF NowOlder

LEMMA HistoryTouched ==
  ASSUME NEW k, Used = {k} PROVE NowOlder = Touched(older, k)
BY DEF NowOlder, Touched

\* Every operation keeps the list in the order of use.
LEMMA OrderedStep ==
  ASSUME HistoryInv, Next
  PROVE  Ordered(lru', NowOlder)
<1>1. /\ TypeOK /\ lru \in Seq(Key) /\ Unique(lru) /\ Ordered(lru, older) /\ Next
  BY LruElements DEF HistoryInv, CacheInv
<1>2. ASSUME lru' = lru, Used = {} PROVE Ordered(lru', NowOlder)
  BY <1>1, <1>2, HistoryUnused DEF Ordered
<1>3. CASE Tick
  <2>1. op' = op /\ lru' = lru
    BY <1>3 DEF Tick
  <2>2. Used = {}
    BY <2>1 DEF Used
  <2> QED
    BY <1>2, <2>1, <2>2
<1>4. ASSUME NEW t \in Task, NEW k \in Key, LookupMiss(t, k) PROVE Ordered(lru', NowOlder)
  <2>1. op' = [op EXCEPT ![t] = Idle] /\ lru' = lru /\ op[t].kind # "put"
    BY <1>4 DEF LookupMiss, Free
  <2>2. Used = {}
    BY <1>1, <2>1, UsedByTask, IdleKind
  <2> QED
    BY <1>2, <2>1, <2>2
<1>5. ASSUME NEW t \in Task, NEW k \in Key, LookupExpired(t, k) PROVE Ordered(lru', NowOlder)
  <2>1. op' = [op EXCEPT ![t] = Idle] /\ lru' = Without(lru, k) /\ op[t].kind # "put"
    BY <1>5 DEF LookupExpired, Free
  <2>2. Used = {}
    BY <1>1, <2>1, UsedByTask, IdleKind
  <2>3. Ordered(Without(lru, k), older)
    BY <1>1, WithoutOrdered
  <2> QED
    BY <2>1, <2>2, <2>3, HistoryUnused DEF Ordered
<1>6. ASSUME NEW t \in Task, NEW k \in Key, LookupFound(t, k) PROVE Ordered(lru', NowOlder)
  <2> DEFINE r == [kind |-> "read", key |-> k, entry |-> cache[k], checked |-> clock]
  <2>1. op' = [op EXCEPT ![t] = r] /\ lru' = MoveToFront(lru, k) /\ op[t].kind # "read"
    BY <1>6 DEF LookupFound, Free
  <2>2. r.kind = "read" /\ r.key = k
    OBVIOUS
  <2> HIDE DEF r
  <2>3. Used = {k}
    BY <1>1, <2>1, <2>2, UsedByTask
  <2>4. Ordered(MoveToFront(lru, k), Touched(older, k))
    BY <1>1, MoveToFrontOrdered
  <2> QED
    BY <2>1, <2>3, <2>4, HistoryTouched DEF Ordered
<1>7. ASSUME NEW t \in Task, LookupServe(t) PROVE Ordered(lru', NowOlder)
  <2> DEFINE r == [kind |-> "hit", key |-> op[t].key, entry |-> op[t].entry,
                   checked |-> op[t].checked, served |-> clock,
                   records |-> Aged(op[t].entry, clock)]
  <2>1. op' = [op EXCEPT ![t] = r] /\ lru' = lru /\ r.kind = "hit"
    BY <1>7 DEF LookupServe
  <2> HIDE DEF r
  <2>2. Used = {}
    BY <1>1, <2>1, UsedByTask
  <2> QED
    BY <1>2, <2>1, <2>2
<1>8. ASSUME NEW t \in Task, NEW k \in Key, NEW recs \in Rrset, InsertStamp(t, k, recs)
      PROVE  Ordered(lru', NowOlder)
  <2> DEFINE r == [kind |-> "put", key |-> k, entry |-> NewEntry(recs, clock)]
  <2>1. op' = [op EXCEPT ![t] = r] /\ lru' = lru /\ r.kind = "put"
    BY <1>8 DEF InsertStamp
  <2> HIDE DEF r
  <2>2. Used = {}
    BY <1>1, <2>1, UsedByTask
  <2> QED
    BY <1>2, <2>1, <2>2
<1>9. ASSUME NEW t \in Task, InsertPut(t) PROVE Ordered(lru', NowOlder)
  <2> DEFINE k    == op[t].key
             full == k \notin DOMAIN cache /\ Len(lru) = Capacity
             last == lru[Len(lru)]
             list == IF full THEN Without(lru, last) ELSE lru
  <2>1. /\ op' = [op EXCEPT ![t] = Idle] /\ op[t].kind = "put"
        /\ lru' = MoveToFront(list, k)
    BY <1>9 DEF InsertPut
  <2>2. k \in Key
    BY <1>1, <2>1, OpTypes
  <2>3. Used = {k}
    BY <1>1, <2>1, UsedByTask, IdleKind
  <2>4. list \in Seq(Key) /\ Unique(list) /\ Ordered(list, older)
    <3>1. CASE full
      <4>1. last \in Key
        <5>1. Len(lru) \in 1..Len(lru)
          BY <1>1, <3>1, LruElements DEF HistoryInv, CacheInv
        <5> QED
          BY <1>1, <5>1, ElementOfSeq
      <4> HIDE DEF last
      <4> QED
        BY <1>1, <3>1, <4>1, WithoutProperties, WithoutOrdered
    <3>2. CASE ~full
      BY <1>1, <3>2
    <3> QED
      BY <3>1, <3>2
  <2> HIDE DEF list, k
  <2>5. Ordered(MoveToFront(list, k), Touched(older, k))
    BY <2>2, <2>4, MoveToFrontOrdered
  <2> QED
    BY <2>1, <2>3, <2>5, HistoryTouched DEF Ordered
<1>10. ASSUME NEW t \in Task, Clear(t) PROVE Ordered(lru', NowOlder)
  <2>1. lru' = <<>>
    BY <1>10 DEF Clear
  <2> QED
    BY <2>1 DEF Ordered
<1> QED
  BY <1>1, <1>3, <1>4, <1>5, <1>6, <1>7, <1>8, <1>9, <1>10 DEF Next, TaskStep

\* Only what is not cached is forgotten, and the list names nothing else.
LEMMA OrderedForgets ==
  ASSUME HistoryInv, HistoryNext, CacheInv'
  PROVE  Ordered(lru, older)'
<1>1. /\ Elements(lru') = DOMAIN cache'
      /\ older' = {p \in NowOlder : p[1] \in DOMAIN cache' /\ p[2] \in DOMAIN cache'}
  BY DEF HistoryNext, CacheInv, LruConsistent, Elements
<1>2. Ordered(lru', NowOlder)
  BY OrderedStep DEF HistoryNext
<1>3. \A i \in 1..Len(lru') : lru'[i] \in DOMAIN cache'
  BY <1>1 DEF Elements
<1> QED
  BY <1>1, <1>2, <1>3 DEF Ordered

\* What a put drops is the last of the list.
LEMMA EvictsLast ==
  ASSUME HistoryInv, Next, NEW t \in Task, op[t].kind = "put", op'[t].kind = "idle",
         NEW e \in DOMAIN cache \ DOMAIN cache'
  PROVE  /\ Cardinality(DOMAIN cache) = Capacity
         /\ \A x \in DOMAIN cache \ {e} : <<e, x>> \in older
<1>1. /\ TypeOK /\ LruConsistent /\ Ordered(lru, older)
      /\ lru \in Seq(Key) /\ Unique(lru) /\ Elements(lru) = DOMAIN cache /\ Len(lru) \in Nat
  BY LruElements DEF HistoryInv, CacheInv
<1>2. InsertPut(t)
  <2>1. ~Tick
    BY DEF Tick
  <2>2. PICK u \in Task : TaskStep(u)
    BY <2>1 DEF Next
  <2>3. u = t
    <3>1. \E r : op' = [op EXCEPT ![u] = r]
      BY <2>2, Zenon
         DEF TaskStep, LookupMiss, LookupExpired, LookupFound, LookupServe, InsertStamp,
             InsertPut, Clear
    <3>2. PICK r : op' = [op EXCEPT ![u] = r]
      BY <3>1
    <3>3. u # t => op'[t] = op[t]
      BY <1>1, <3>2 DEF TypeOK
    <3> QED
      BY <3>3
  <2>4. op'[t].kind = "idle" /\ op[t].kind = "put"
    OBVIOUS
  <2> QED
    BY <1>1, <2>2, <2>3, <2>4
       DEF TaskStep, LookupMiss, LookupExpired, LookupFound, LookupServe, InsertStamp,
           Clear, Free, TypeOK
<1> DEFINE k    == op[t].key
           full == k \notin DOMAIN cache /\ Len(lru) = Capacity
           last == lru[Len(lru)]
<1>3. cache' = Store(IF full THEN Drop(cache, last) ELSE cache, k, op[t].entry)
  BY <1>2 DEF InsertPut
<1>4. full /\ e = last
  <2>1. CASE full
    <3>1. DOMAIN cache' = (DOMAIN cache \ {last}) \cup {k}
      BY <1>3, <2>1 DEF Store, Drop
    <3> QED
      BY <2>1, <3>1
  <2>2. CASE ~full
    <3>1. DOMAIN cache' = DOMAIN cache \cup {k}
      BY <1>3, <2>2 DEF Store
    <3> QED
      BY <3>1
  <2> QED
    BY <2>1, <2>2
<1>5. Cardinality(DOMAIN cache) = Capacity
  BY <1>1, <1>4, ListCounts
<1>6. ASSUME NEW x \in DOMAIN cache \ {e} PROVE <<e, x>> \in older
  <2>1. PICK i \in 1..Len(lru) : lru[i] = x
    BY <1>1 DEF Elements
  <2>2. Len(lru) \in 1..Len(lru) /\ i < Len(lru)
    BY <1>1, <1>4, <2>1
  <2> QED
    BY <1>1, <1>4, <2>1, <2>2 DEF Ordered
<1> QED
  BY <1>5, <1>6

\* The entry that makes room is the one whose last use lies furthest back, for
\* any number of tasks, keys and entries (DnsCache::insert and lookup).
THEOREM EvictionIsLru == HistorySpec => EvictsLeastRecentlyUsed
<1>1. HistoryInit => HistoryInv
  BY InitInv DEF HistoryInit, HistoryInv, Init, Ordered
<1>2. HistoryInv /\ [HistoryNext]_<<vars, older>> => HistoryInv'
  <2>1. HistoryInv /\ [HistoryNext]_<<vars, older>> => CacheInv'
    BY NextInv DEF HistoryInv, HistoryNext
  <2>2. HistoryInv /\ [HistoryNext]_<<vars, older>> => Ordered(lru, older)'
    <3>1. HistoryInv /\ UNCHANGED <<vars, older>> => Ordered(lru, older)'
      BY DEF HistoryInv, Ordered, vars
    <3> QED
      BY <2>1, <3>1, OrderedForgets
  <2> QED
    BY <2>1, <2>2 DEF HistoryInv
<1> DEFINE Evicts ==
      \A e \in DOMAIN cache \ DOMAIN cache' :
        (\E t \in Task : op[t].kind = "put" /\ op'[t].kind = "idle") =>
          /\ Cardinality(DOMAIN cache) = Capacity
          /\ \A x \in DOMAIN cache \ {e} : <<e, x>> \in older
<1>3. HistoryInv /\ [HistoryNext]_<<vars, older>> => [Evicts]_<<vars, older>>
  <2>1. ASSUME HistoryInv, HistoryNext PROVE Evicts
    BY <2>1, EvictsLast DEF HistoryNext
  <2> QED
    BY <2>1
<1>4. HistorySpec => [][Evicts]_<<vars, older>>
  <2> HIDE DEF Evicts
  <2> QED
    BY <1>1, <1>2, <1>3, PTL DEF HistorySpec
<1> QED
  BY <1>4 DEF EvictsLeastRecentlyUsed
=============================================================================
