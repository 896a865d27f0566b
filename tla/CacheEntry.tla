----------------------------- MODULE CacheEntry -----------------------------
(***************************************************************************)
(* The data of the answer cache (src/cache/mod.rs): record lists, entries  *)
(* and the two readings of an entry's age.  Time is counted in ticks of    *)
(* Instant, TicksPerSec of them to the second a TTL is counted in, so that *)
(* the truncation of as_secs is visible.                                   *)
(*                                                                         *)
(* Here and in the other modules a definition D_Word, introduced by the    *)
(* comment "Variant", is D with a mistake a programmer could make; nothing *)
(* uses it but the mutation runs of PROJECT.json.                          *)
(***************************************************************************)
EXTENDS Integers, Sequences

CONSTANTS
  Key,          \* cache keys: one (name, record_type) pair each
  Data,         \* what a record says, apart from its TTL
  Rrset,        \* the record lists handed to insert
  TtlCap,       \* 86400: the cap on a cached TTL, in seconds
  TicksPerSec   \* resolution of Instant

Record == [data : Data, ttl : Nat]

ASSUME RrsetAssumption  == Rrset \subseteq Seq(Record)
ASSUME TtlCapAssumption == TtlCap \in Nat \ {0}
ASSUME TicksAssumption  == TicksPerSec \in Nat \ {0}

\* An entry: the records as inserted, the Instant of the insertion and the
\* lifetime in seconds.
Entry == [records : Seq(Record), inserted_at : Nat, ttl : Nat]

Lifetime(e) == e.ttl * TicksPerSec

IsExpired(e, now) == now - e.inserted_at >= Lifetime(e)

\* Variant: the age subtracted without the comparison.
RemainingTtl_NoFloor(e, now) ==
  (Lifetime(e) - (now - e.inserted_at)) \div TicksPerSec

RemainingTtl(e, now) ==
  IF now - e.inserted_at >= Lifetime(e)
  THEN 0
  ELSE (Lifetime(e) - (now - e.inserted_at)) \div TicksPerSec

\* What lookup hands out: every record under the entry's remaining TTL.
Aged(e, now) ==
  [i \in 1..Len(e.records) |->
     [data |-> e.records[i].data, ttl |-> RemainingTtl(e, now)]]

Ttls(recs) == {recs[i].ttl : i \in 1..Len(recs)}

MinTtl(recs) == CHOOSE m \in Ttls(recs) : \A n \in Ttls(recs) : m <= n

\* insert returns early for an empty list and for a list with a zero TTL.
Cacheable(recs) == recs # <<>> /\ MinTtl(recs) # 0

\* Variant: the TTL of the first record instead of the smallest.
NewEntry_FirstTtl(recs, now) ==
  [records |-> recs, inserted_at |-> now,
   ttl |-> IF recs[1].ttl <= TtlCap THEN recs[1].ttl ELSE TtlCap]

NewEntry(recs, now) ==
  [records     |-> recs,
   inserted_at |-> now,
   ttl         |-> IF MinTtl(recs) <= TtlCap THEN MinTtl(recs) ELSE TtlCap]
=============================================================================
