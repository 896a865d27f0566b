------------------------------ MODULE DnsCache ------------------------------
(***************************************************************************)
(* DnsCache of src/cache/mod.rs: an LRU map behind one lock, shared by all *)
(* the resolver's tasks.  Every operation takes the write lock, a lookup   *)
(* too, because get reorders the map.                                      *)
(*                                                                         *)
(* What a task does between two points where another thread can be seen is *)
(* one action.  Those points are:                                          *)
(*   - in insert, between reading Instant::now() and taking the lock;      *)
(*   - in lookup, under the lock, between is_expired and remaining_ttl,    *)
(*     which read the clock one after the other.                           *)
(* The LRU map is the lru crate's: lru lists the keys, last used first.    *)
(***************************************************************************)
EXTENDS CacheEntry

CONSTANTS
  Task,         \* the tasks that share the cache
  CacheSize,    \* cache_size of the configuration, 0 allowed
  DefaultSize,  \* 10000, the capacity when cache_size is 0
  MaxClock      \* bound: the clock stops here

ASSUME SizeAssumption ==
  CacheSize \in Nat /\ DefaultSize \in Nat \ {0} /\ MaxClock \in Nat

VARIABLES
  clock,  \* Instant::now()
  cache,  \* the entries, a function on the cached keys
  lru,    \* the cached keys, most recently used first
  op      \* what each task is doing to the cache, or what it last read

vars == <<clock, cache, lru, op>>

Capacity == IF CacheSize = 0 THEN DefaultSize ELSE CacheSize

(***************************************************************************)
(* The states of a task.  "hit" keeps, for the properties, the entry that  *)
(* was found and the two readings of the clock; a task that holds a hit is *)
(* as free to start an operation as an idle one.                           *)
(***************************************************************************)
IdleOp == [kind : {"idle"}]
PutOp  == [kind : {"put"},  key : Key, entry : Entry]
ReadOp == [kind : {"read"}, key : Key, entry : Entry, checked : Nat]
HitOp  == [kind : {"hit"},  key : Key, entry : Entry, checked : Nat,
           served : Nat, records : Seq(Record)]

Idle == [kind |-> "idle"]

Free(t)  == op[t].kind \in {"idle", "hit"}

\* Variant: a lookup that lets go of the lock between its two steps.
Unlocked_Always == TRUE

Unlocked == \A t \in Task : op[t].kind # "read"

Without(s, k) ==
  IF \E i \in 1..Len(s) : s[i] = k
  THEN LET p == CHOOSE i \in 1..Len(s) : s[i] = k
       IN  [i \in 1..(Len(s) - 1) |-> IF i < p THEN s[i] ELSE s[i + 1]]
  ELSE s

MoveToFront(s, k) == <<k>> \o Without(s, k)

Drop(f, k) == [x \in DOMAIN f \ {k} |-> f[x]]

Store(f, k, e) == [x \in DOMAIN f \cup {k} |-> IF x = k THEN e ELSE f[x]]

-----------------------------------------------------------------------------
Init ==
  /\ clock = 0
  /\ cache = [k \in {} |-> 0]
  /\ lru = <<>>
  /\ op = [t \in Task |-> Idle]

Tick ==
  /\ clock < MaxClock
  /\ clock' = clock + 1
  /\ UNCHANGED <<cache, lru, op>>

\* lookup of a key that is not cached
LookupMiss(t, k) ==
  /\ Free(t) /\ Unlocked
  /\ k \notin DOMAIN cache
  /\ op' = [op EXCEPT ![t] = Idle]
  /\ UNCHANGED <<clock, cache, lru>>

\* lookup of an entry past its lifetime: popped, and reported as a miss
LookupExpired(t, k) ==
  /\ Free(t) /\ Unlocked
  /\ k \in DOMAIN cache
  /\ IsExpired(cache[k], clock)
  /\ cache' = Drop(cache, k)
  /\ lru' = Without(lru, k)
  /\ op' = [op EXCEPT ![t] = Idle]
  /\ UNCHANGED clock

\* Variant: the entry read with peek, which does not reorder.
LookupFound_Peek(t, k) ==
  /\ Free(t) /\ Unlocked
  /\ k \in DOMAIN cache /\ ~IsExpired(cache[k], clock)
  /\ op' = [op EXCEPT ![t] = [kind |-> "read", key |-> k,
                              entry |-> cache[k], checked |-> clock]]
  /\ UNCHANGED <<clock, cache, lru>>

\* Variant: the expiry left to the remaining TTL alone.
LookupFound_Unchecked(t, k) ==
  /\ Free(t) /\ Unlocked
  /\ k \in DOMAIN cache
  /\ lru' = MoveToFront(lru, k)
  /\ op' = [op EXCEPT ![t] = [kind |-> "read", key |-> k,
                              entry |-> cache[k], checked |-> clock]]
  /\ UNCHANGED <<clock, cache>>

\* lookup of a live entry: get promotes it, and the lock stays held
LookupFound(t, k) ==
  /\ Free(t) /\ Unlocked
  /\ k \in DOMAIN cache
  /\ ~IsExpired(cache[k], clock)
  /\ lru' = MoveToFront(lru, k)
  /\ op' = [op EXCEPT ![t] = [kind |-> "read", key |-> k,
                              entry |-> cache[k], checked |-> clock]]
  /\ UNCHANGED <<clock, cache>>

\* the second reading of the clock, the copied records, the lock released
LookupServe(t) ==
  /\ op[t].kind = "read"
  /\ op' = [op EXCEPT ![t] =
              [kind |-> "hit", key |-> op[t].key, entry |-> op[t].entry,
               checked |-> op[t].checked, served |-> clock,
               records |-> Aged(op[t].entry, clock)]]
  /\ UNCHANGED <<clock, cache, lru>>

\* insert up to the stamped entry; a list it refuses changes nothing
InsertStamp(t, k, recs) ==
  /\ Free(t)
  /\ Cacheable(recs)
  /\ op' = [op EXCEPT ![t] = [kind |-> "put", key |-> k,
                              entry |-> NewEntry(recs, clock)]]
  /\ UNCHANGED <<clock, cache, lru>>

\* Variant: no eviction.
InsertPut_NoEviction(t) ==
  /\ op[t].kind = "put" /\ Unlocked
  /\ cache' = Store(cache, op[t].key, op[t].entry)
  /\ lru' = MoveToFront(lru, op[t].key)
  /\ op' = [op EXCEPT ![t] = Idle]
  /\ UNCHANGED clock

\* put replaces the value of a key it holds, and otherwise makes room for a
\* new key by dropping the last of the list when the map is full
InsertPut(t) ==
  LET k    == op[t].key
      full == k \notin DOMAIN cache /\ Len(lru) = Capacity
      last == lru[Len(lru)]
  IN  /\ op[t].kind = "put" /\ Unlocked
      /\ cache' = Store(IF full THEN Drop(cache, last) ELSE cache, k, op[t].entry)
      /\ lru' = MoveToFront(IF full THEN Without(lru, last) ELSE lru, k)
      /\ op' = [op EXCEPT ![t] = Idle]
      /\ UNCHANGED clock

Clear(t) ==
  /\ Free(t) /\ Unlocked
  /\ cache' = [k \in {} |-> 0]
  /\ lru' = <<>>
  /\ op' = [op EXCEPT ![t] = Idle]
  /\ UNCHANGED clock

TaskStep(t) ==
  \/ \E k \in Key : LookupMiss(t, k) \/ LookupExpired(t, k) \/ LookupFound(t, k)
  \/ LookupServe(t)
  \/ \E k \in Key, recs \in Rrset : InsertStamp(t, k, recs)
  \/ InsertPut(t)
  \/ Clear(t)

Next == Tick \/ \E t \in Task : TaskStep(t)

Spec == Init /\ [][Next]_vars

-----------------------------------------------------------------------------
\* Type invariant of the cache and of the tasks that use it.
TypeOK ==
  /\ clock \in Nat
  /\ DOMAIN cache \subseteq Key
  /\ \A k \in DOMAIN cache : cache[k] \in Entry
  /\ lru \in Seq(Key)
  /\ op \in [Task -> IdleOp \cup PutOp \cup ReadOp \cup HitOp]

\* The recency list and the map stay two views of one LRU map whatever the
\* tasks interleave (DnsCache::lookup, insert and clear): the list names each
\* cached key once and no other key, and never outgrows the capacity, the
\* default one when the configuration says 0.
LruConsistent ==
  /\ \A i, j \in 1..Len(lru) : lru[i] = lru[j] => i = j
  /\ {lru[i] : i \in 1..Len(lru)} = DOMAIN cache
  /\ Len(lru) <= Capacity

\* No reader is told to keep a record past the time its origin allowed, nor
\* past the cap of a day (DnsCache::lookup with is_expired and remaining_ttl,
\* DnsCache::insert): the entry was alive when it was found, and every record,
\* counted from the moment it is handed out, ends no later than the TTL it was
\* inserted with, its own and not only the smallest of its list.
ServedWithinTtl ==
  \A t \in Task : op[t].kind = "hit" =>
    LET e   == op[t].entry
        cap == e.inserted_at + TtlCap * TicksPerSec
    IN  /\ op[t].checked < e.inserted_at + Lifetime(e)
        /\ op[t].checked < cap
        /\ \A i \in 1..Len(op[t].records) :
             LET end == op[t].served + op[t].records[i].ttl * TicksPerSec
             IN  op[t].records[i].ttl > 0 =>
                   /\ end <= e.inserted_at + e.records[i].ttl * TicksPerSec
                   /\ end <= cap

\* One reader at a time, and what it reads is what the map still holds when it
\* computes the remaining TTL (the guard of DnsCache::lookup spans both).
ReaderExclusive ==
  \A t \in Task : op[t].kind = "read" =>
    /\ \A u \in Task \ {t} : op[u].kind # "read"
    /\ op[t].key \in DOMAIN cache
    /\ cache[op[t].key] = op[t].entry

-----------------------------------------------------------------------------
Soft == INSTANCE SoftCache WITH store <- cache

\* The cache is an implementation of the lossy store of SoftCache: the LRU
\* order, the eviction, the lock and the exact ageing are all within what
\* that module lets a store do.
ImplementsSoftCache == Soft!Spec
=============================================================================
