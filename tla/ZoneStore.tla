----------------------------- MODULE ZoneStore -----------------------------
(***************************************************************************)
(* The zones of a starting server (main of src/main.rs with                *)
(* ZoneStore::load_config of src/zone/mod.rs) and the lookups it then      *)
(* serves.  The definitions are turned into zones one by one; the first    *)
(* one that is refused ends the program.  A zones file that cannot be read *)
(* is logged, and the server starts without zones.                         *)
(***************************************************************************)
EXTENDS Zones

CONSTANTS
  Config,    \* the zones files considered: sequences of definitions
  Queried    \* the names asked about

\* ZoneDefinition, with the records of all hosts in one set.
Definition ==
  [name : Seq(STRING),
   records : SUBSET [host : Seq(STRING), type : STRING, value : STRING]]

ASSUME ConfigAssumption == Config \subseteq Seq(Definition)
ASSUME QueriedAssumption == Queried \subseteq Seq(STRING)

VARIABLES
  file,    \* the definitions of the zones file
  next,    \* the position of the next definition to load
  zones,   \* ZoneStore.zones
  phase,   \* "loading", "serving" or "exited"
  reply    \* the last lookup and what it returned

vars == <<file, next, zones, phase, reply>>

NoReply == [name |-> <<>>, type |-> "none", records |-> {}]

Init ==
  /\ file \in Config
  /\ next = 1
  /\ zones = <<>>
  /\ phase = "loading"
  /\ reply = NoReply

Unreadable ==
  /\ phase = "loading" /\ next = 1
  /\ phase' = "serving"
  /\ file' = <<>>
  /\ UNCHANGED <<next, zones, reply>>

LoadZone ==
  /\ phase = "loading" /\ next <= Len(file)
  /\ Acceptable(file[next])
  /\ zones' = Append(zones, FromConfig(file[next]))
  /\ next' = next + 1
  /\ UNCHANGED <<file, phase, reply>>

\* Variant: a refused definition skipped.
LoadFails_Skip ==
  /\ phase = "loading" /\ next <= Len(file)
  /\ ~Acceptable(file[next])
  /\ next' = next + 1
  /\ UNCHANGED <<file, zones, phase, reply>>

LoadFails ==
  /\ phase = "loading" /\ next <= Len(file)
  /\ ~Acceptable(file[next])
  /\ phase' = "exited"
  /\ UNCHANGED <<file, next, zones, reply>>

Serve ==
  /\ phase = "loading" /\ next > Len(file)
  /\ phase' = "serving"
  /\ UNCHANGED <<file, next, zones, reply>>

Lookup(n, type) ==
  /\ phase = "serving"
  /\ reply' = [name |-> n, type |-> type, records |-> StoreLookup(zones, n, type)]
  /\ UNCHANGED <<file, next, zones, phase>>

Next ==
  \/ Unreadable \/ LoadZone \/ LoadFails \/ Serve
  \/ \E n \in Queried, type \in ZoneTypes \cup {"SOA"} : Lookup(n, type)

Spec == Init /\ [][Next]_vars

-----------------------------------------------------------------------------
(***************************************************************************)
(* The zone a name belongs to, found the other way round: walk from the    *)
(* name to its parent until some definition of the file has that very      *)
(* name; of two definitions of one name the later one counts.              *)
(***************************************************************************)
Ancestors(n) ==
  LET up[k \in Nat] == IF k = 0 THEN n
                       ELSE IF up[k - 1] = <<>> THEN <<>> ELSE Parent(up[k - 1])
  IN  up

Defined(n) == {i \in 1..Len(file) : file[i].name = n}

HomeZones(n) ==
  LET up == {k \in 0..Len(n) : Defined(Ancestors(n)[k]) # {}}
  IN  IF up = {} THEN {}
      ELSE LET k == CHOOSE k \in up : \A j \in up : k <= j
               at == Defined(Ancestors(n)[k])
           IN  {CHOOSE i \in at : \A j \in at : j <= i}

\* A lookup is answered from the zone closest above the name and from no
\* other one, on label boundaries, the last definition winning when a zone is
\* defined twice (ZoneStore::find_zone with is_subdomain_of): what is returned
\* is what that definition says of the name.  Two types are left out, which the
\* code answers from elsewhere: SOA, and NS at the apex of a zone.
ClosestZoneAnswers ==
  LET n == reply.name IN
  reply.type \notin {"none", "SOA"} =>
    \/ reply.type = "NS" /\ \E i \in HomeZones(n) : file[i].name = n
    \/ reply.records =
         UNION { {[name |-> n, type |-> rec.type, value |-> rec.value] :
                    rec \in {x \in file[i].records :
                               x.type = reply.type /\ RecordName(x, file[i]) = n}}
                 : i \in HomeZones(n) }

\* A server that answers has every zone of the file it could read, in the
\* file's order: a definition refused halfway never leaves it serving the ones
\* before (load_config returns early, main passes the error on).
ServesWholeFile ==
  phase = "serving" =>
    /\ Len(zones) = Len(file)
    /\ \A i \in 1..Len(file) : zones[i].name = file[i].name
=============================================================================
