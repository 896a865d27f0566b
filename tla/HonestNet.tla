------------------------------ MODULE HonestNet ------------------------------
(***************************************************************************)
(* What an honest network is to the Resolver, and what the resolver may    *)
(* tell its clients in one.  Truth is every record there is.  An honest    *)
(* server need not answer, or know, or say all; what it says is so.        *)
(***************************************************************************)
EXTENDS Resolver

CONSTANT Truth

Of(name, type) == {r \in Truth : r.name = name /\ r.type = type}
Exists(name) == \E r \in Truth : r.name = name

\* Where the aliases lead from a name, itself included: what is in every set
\* of names that has the name and that no alias leads out of.
Closed(S) == \A r \in Truth : r.type = "CNAME" /\ r.name \in S => r.value \in S

Chain == [n \in Name |->
            {m \in Name : \A S \in SUBSET Name : n \in S /\ Closed(S) => m \in S}]

\* Where a question about the name is answered: at the end of its aliases, and
\* at the name itself when the alias is what is asked about.  There is none
\* when the aliases go round in a circle.
Ends(name, type) ==
  IF type = "CNAME" THEN {name} ELSE {e \in Chain[name] : Of(e, "CNAME") = {}}

\* A true record for a question about (name, type): one of the type asked for
\* or an alias, of the name or of what it is an alias of.
TrueRecord(r, name, type) ==
  r \in Truth /\ r.name \in Chain[name] /\ r.type \in {type, "CNAME"}

\* What an honest server may send when it is asked about (name, type).
TrueMessage(m, name, type) ==
  /\ \A r \in m.answers : TrueRecord(r, name, type)
  /\ \A i \in 1..Len(m.ns) : m.ns[i] \in Truth
  /\ \A i \in 1..Len(m.additional) : m.additional[i] \in Truth
  /\ m.rcode = "NameError" => \A e \in Ends(name, type) : ~Exists(e)
  /\ Usable(m) /\ m.answers = {} /\ m.ns = <<>> /\ m.soa =>
       \A e \in Ends(name, type) : Of(e, type) = {}

\* What the zones say of a name is so, and all there is to say if it is theirs.
TrueZones(name, type) ==
  /\ ZoneData(name, type) \subseteq Of(name, type)
  /\ NameInZone(name) => ZoneData(name, type) = Of(name, type)

NetworkHonest ==
  /\ Truth \subseteq Record
  /\ \A r, s \in Truth : r.type = "CNAME" /\ s.type = "CNAME" /\ r.name = s.name => r = s
  /\ \A a \in Addr, n \in Name, type \in Type : \A m \in Reply(a, n, type) :
       TrueMessage(m, n, type)
  /\ \A q \in Question : TrueZones(q.name, q.type) /\ TrueZones(q.name, "CNAME")

-----------------------------------------------------------------------------
\* A truthful answer to a question about (name, type): true records; none of
\* the type asked for only if there is none; a name error only if there is no
\* such name.
TrueFor(name, type, r) ==
  /\ r.status # "pending"
  /\ \A rec \in r.records : TrueRecord(rec, name, type)
  /\ r.status = "Ok" /\ (\E e \in Ends(name, type) : Of(e, type) # {}) =>
       \E rec \in r.records : rec.type = type
  /\ r.status = "NameError" => \A e \in Ends(name, type) : ~Exists(e)

\* The resolver says nothing the network does not: whatever the tasks share
\* through the cache, and whichever servers fail, every answer is truthful (the
\* cache keys of resolve_recursive, the Ok arms of follow_cname_chain).
AnswersTrue ==
  \A t \in Task : Done(t) => TrueFor(asked[t].name, asked[t].type, result[t])
=============================================================================
