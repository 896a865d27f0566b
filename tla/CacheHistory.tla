---------------------------- MODULE CacheHistory ----------------------------
(***************************************************************************)
(* DnsCache with a history of the use of its keys that does not look at    *)
(* the recency list, to say what least recently used means.                *)
(***************************************************************************)
EXTENDS DnsCache, FiniteSets

VARIABLE older  \* the pairs <<a, b>> of cached keys where a was used before b

\* The key an operation of the step used: found by a lookup or put.
Used ==
  {op'[t].key : t \in {u \in Task : op[u].kind # "read" /\ op'[u].kind = "read"}}
  \cup {op[t].key : t \in {u \in Task : op[u].kind = "put" /\ op'[u].kind = "idle"}}

HistoryInit == Init /\ older = {}

\* The order of use after the step.
NowOlder == {p \in older : p[1] \notin Used /\ p[2] \notin Used}
            \cup ((Key \ Used) \X Used)

HistoryNext ==
  /\ Next
  /\ older' = {p \in NowOlder : p[1] \in DOMAIN cache' /\ p[2] \in DOMAIN cache'}

HistorySpec == HistoryInit /\ [][HistoryNext]_<<vars, older>>

\* A put drops an entry only for want of room, and then the one whose last use
\* lies furthest back, by what the tasks did and not by the list the cache
\* keeps (DnsCache::insert; DnsCache::lookup counts as a use).
EvictsLeastRecentlyUsed ==
  [][\A e \in DOMAIN cache \ DOMAIN cache' :
       (\E t \in Task : op[t].kind = "put" /\ op'[t].kind = "idle") =>
         /\ Cardinality(DOMAIN cache) = Capacity
         /\ \A x \in DOMAIN cache \ {e} : <<e, x>> \in older]_<<vars, older>>
=============================================================================
