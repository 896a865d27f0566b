----------------------------- MODULE MCDnsCache -----------------------------
(***************************************************************************)
(* The cache with the history of its use for TLC: the record lists, and    *)
(* the symmetry.  No definition tells one key from another, or one task;   *)
(* the data of the records are not exchanged.                              *)
(***************************************************************************)
EXTENDS DnsCache, CacheHistory, TLC

R(d, n) == [data |-> d, ttl |-> n]

\* nothing to cache, a zero TTL, a list with two TTLs, and a TTL over the cap
TtlRrsets ==
  { <<>>, <<R("a", 0)>>, <<R("a", 2), R("b", 1)>>, <<R("b", 3)>> }

Symmetric == Permutations(Key) \cup Permutations(Task)
=============================================================================
