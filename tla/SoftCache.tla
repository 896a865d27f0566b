----------------------------- MODULE SoftCache ------------------------------
(***************************************************************************)
(* What the cache of src/cache/mod.rs promises to the resolver, without    *)
(* saying how: a store that may lose any entry at any of its operations,   *)
(* never invents or alters one, hands out only an entry that was alive     *)
(* while the lookup was in progress, and never with more time to live than *)
(* the entry has left.                                                     *)
(***************************************************************************)
EXTENDS CacheEntry

CONSTANT Task

VARIABLES clock, store, op

vars == <<clock, store, op>>

Resting(t) == op[t].kind \in {"idle", "hit"}

\* f holds nothing that g does not hold
Within(f, g) == DOMAIN f \subseteq DOMAIN g /\ \A k \in DOMAIN f : f[k] = g[k]

Init ==
  /\ clock = 0
  /\ DOMAIN store = {}
  /\ op = [t \in Task |-> [kind |-> "idle"]]

Tick == clock' = clock + 1 /\ UNCHANGED <<store, op>>

\* An operation that returns nothing: a miss, an expired entry, a clear.
Lose(t) ==
  /\ Resting(t)
  /\ Within(store', store)
  /\ op' = [op EXCEPT ![t] = [kind |-> "idle"]]
  /\ UNCHANGED clock

Find(t, k) ==
  /\ Resting(t)
  /\ k \in DOMAIN store
  /\ clock < store[k].inserted_at + Lifetime(store[k])
  /\ op' = [op EXCEPT ![t] = [kind |-> "read", key |-> k,
                              entry |-> store[k], checked |-> clock]]
  /\ UNCHANGED <<clock, store>>

\* recs is the entry's list under TTLs that end no later than the entry
Honest(recs, e, now) ==
  /\ DOMAIN recs = 1..Len(e.records)
  /\ \A i \in 1..Len(e.records) :
       /\ recs[i].data = e.records[i].data
       /\ recs[i].ttl > 0 =>
            now + recs[i].ttl * TicksPerSec <= e.inserted_at + Lifetime(e)

Serve(t) ==
  /\ op[t].kind = "read"
  /\ op'[t].kind = "hit"
  /\ op' = [op EXCEPT ![t] =
              [kind |-> "hit", key |-> op[t].key, entry |-> op[t].entry,
               checked |-> op[t].checked, served |-> clock,
               records |-> op'[t].records]]
  /\ Honest(op'[t].records, op[t].entry, clock)
  /\ UNCHANGED <<clock, store>>

Offer(t, k, recs) ==
  /\ Resting(t)
  /\ Cacheable(recs)
  /\ op' = [op EXCEPT ![t] = [kind |-> "put", key |-> k,
                              entry |-> NewEntry(recs, clock)]]
  /\ UNCHANGED <<clock, store>>

\* The offered entry replaces the one of its key; others may be lost.
Publish(t) ==
  LET k == op[t].key
  IN  /\ op[t].kind = "put"
      /\ k \in DOMAIN store' /\ store'[k] = op[t].entry
      /\ DOMAIN store' \subseteq DOMAIN store \cup {k}
      /\ \A x \in DOMAIN store' \ {k} : store'[x] = store[x]
      /\ op' = [op EXCEPT ![t] = [kind |-> "idle"]]
      /\ UNCHANGED clock

Next ==
  \/ Tick
  \/ \E t \in Task :
       \/ Lose(t)
       \/ \E k \in Key : Find(t, k)
       \/ Serve(t)
       \/ \E k \in Key, recs \in Rrset : Offer(t, k, recs)
       \/ Publish(t)

Spec == Init /\ [][Next]_vars
=============================================================================
