------------------------------- MODULE Zones -------------------------------
(***************************************************************************)
(* The data of the authoritative zones (src/zone/mod.rs): names, records,  *)
(* a zone built from its definition in the configuration, and the lookups. *)
(*                                                                         *)
(* A name is the sequence of its labels, the most specific first, as in    *)
(* DnsName (src/dns/name.rs), and the root is <<>>.  The records under one *)
(* (name, type) are a set: nothing here depends on their order.  "None" of *)
(* a lookup is the empty set, since no stored list is empty.               *)
(***************************************************************************)
EXTENDS Naturals, Sequences

\* Parent and the label-wise suffix test of DnsName.
Parent(n) == Tail(n)

\* Variant: a comparison of the last label only.
IsSubdomainOf_LastLabel(n, other) ==
  /\ Len(n) >= Len(other)
  /\ other # <<>> => n[Len(n)] = other[Len(other)]

IsSubdomainOf(n, other) ==
  /\ Len(n) >= Len(other)
  /\ SubSeq(n, Len(n) - Len(other) + 1, Len(n)) = other

-----------------------------------------------------------------------------
(***************************************************************************)
(* A definition is [name, records]; a record of it is [host, type, value], *)
(* with <<>> as the host "@".  A type outside ZoneTypes stands for every   *)
(* reason from_config has to refuse a record: an unknown or unsupported    *)
(* type, an address that does not parse, a name that is too long.          *)
(***************************************************************************)
ZoneTypes == {"A", "AAAA", "CNAME", "NS", "MX", "TXT", "SRV", "PTR"}

Acceptable(def) == \A rec \in def.records : rec.type \in ZoneTypes

\* A host is written before the name of its zone, with a dot between them; with
\* the root's "." that makes two, and an empty label between them.
RecordName(rec, def) ==
  IF rec.host = <<>> THEN def.name
  ELSE rec.host \o IF def.name = <<>> THEN <<"">> ELSE def.name

Soa(name) == [name |-> name, type |-> "SOA", value |-> "soa"]

\* Zone::from_config of an acceptable definition.  ns_records takes every NS
\* record of the zone, whoever owns it.
FromConfig(def) ==
  LET records == { [name |-> RecordName(rec, def), type |-> rec.type,
                    value |-> rec.value] : rec \in def.records }
  IN  [name |-> def.name,
       soa |-> Soa(def.name),
       records |-> records,
       ns_records |-> {r \in records : r.type = "NS"}]

ZoneLookup(z, n, type) ==
  IF type = "SOA" /\ n = z.name THEN {z.soa}
  ELSE IF type = "NS" /\ n = z.name /\ z.ns_records # {} THEN z.ns_records
  ELSE {r \in z.records : r.name = n /\ r.type = type}

Contains(z, n) == IsSubdomainOf(n, z.name) \/ n = z.name

HasName(z, n) == n = z.name \/ \E r \in z.records : r.name = n

-----------------------------------------------------------------------------
\* The positions of the zones a name lies in, and the one find_zone returns:
\* max_by_key keeps the last of the zones with the most labels.
Enclosing(zones, n) == {i \in 1..Len(zones) : Contains(zones[i], n)}

\* Variant: the first zone that contains the name.
FindZone_First(zones, n) ==
  CHOOSE i \in Enclosing(zones, n) : \A j \in Enclosing(zones, n) : i <= j

FindZone(zones, n) ==
  CHOOSE i \in Enclosing(zones, n) :
    \A j \in Enclosing(zones, n) :
      \/ Len(zones[j].name) < Len(zones[i].name)
      \/ Len(zones[j].name) = Len(zones[i].name) /\ j <= i

StoreLookup(zones, n, type) ==
  IF Enclosing(zones, n) = {} THEN {}
  ELSE ZoneLookup(zones[FindZone(zones, n)], n, type)
=============================================================================
