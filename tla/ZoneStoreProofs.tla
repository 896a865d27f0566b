--------------------------- MODULE ZoneStoreProofs ---------------------------
(***************************************************************************)
(* Theorems about ZoneStore, for all zones files and names asked about.    *)
(***************************************************************************)
EXTENDS ZoneStore, ZonesProofs

\* The ancestors of a name are its suffixes: what walking from parent to parent
\* reaches.
LEMMA AncestorIsSuffix ==
  ASSUME NEW n \in Seq(STRING), NEW k \in Nat
  PROVE  Ancestors(n)[k] = SubSeq(n, k + 1, Len(n))
<1> DEFINE Walk(f) == f = [j \in Nat |-> IF j = 0 THEN n
                                         ELSE IF f[j - 1] = <<>> THEN <<>>
                                         ELSE Parent(f[j - 1])]
           W == [j \in Nat |-> SubSeq(n, j + 1, Len(n))]
           up == Ancestors(n)
<1>1. Walk(W)
  <2>1. ASSUME NEW j \in Nat, j # 0
        PROVE  W[j] = IF W[j - 1] = <<>> THEN <<>> ELSE Parent(W[j - 1])
    <3>1. /\ j - 1 \in Nat /\ W[j - 1] = SubSeq(n, j, Len(n))
          /\ W[j] = SubSeq(n, j + 1, Len(n))
      BY <2>1
    <3>2. CASE j > Len(n)
      BY <3>1, <3>2
    <3>3. CASE j <= Len(n)
      <4> DEFINE v == SubSeq(n, j, Len(n))
      <4>1. v # <<>> /\ Tail(v) = SubSeq(n, j + 1, Len(n))
        BY <2>1, <3>3
      <4> HIDE DEF v
      <4> QED
        BY <3>1, <4>1 DEF v, Parent
    <3>4. Len(n) \in Nat
      BY LenProperties
    <3> HIDE DEF W
    <3> QED
      BY <2>1, <3>2, <3>3, <3>4
  <2>2. W[0] = n
    OBVIOUS
  <2> QED
    BY <2>1, <2>2
<1>2. up = CHOOSE f : Walk(f)
  BY DEF Ancestors
<1>3. Walk(up)
  <2> HIDE DEF Walk, W, up
  <2> QED BY <1>1, <1>2
<1> DEFINE Bad == {j \in Nat : up[j] # W[j]}
<1>4. Bad = {}
  <2> SUFFICES ASSUME Bad # {} PROVE FALSE
    OBVIOUS
  <2>1. PICK j \in Bad : \A i \in Bad : j <= i
    BY LeastNatural
  <2> HIDE DEF up, W
  <2>2. j # 0 => j - 1 \in Nat /\ up[j - 1] = W[j - 1]
    BY <2>1
  <2>3. up[j] = W[j]
    <3>1. CASE j = 0
      BY <1>1, <1>3, <3>1
    <3>2. CASE j # 0
      <4>1. j \in Nat /\ up[j - 1] = W[j - 1]
        BY <2>1, <2>2, <3>2
      <4>2. W[j] = IF W[j - 1] = <<>> THEN <<>> ELSE Parent(W[j - 1])
        BY <1>1, <3>2, <4>1
      <4>3. up[j] = IF up[j - 1] = <<>> THEN <<>> ELSE Parent(up[j - 1])
        BY <1>3, <3>2, <4>1
      <4> QED
        BY <4>1, <4>2, <4>3
    <3> QED
      BY <3>1, <3>2
  <2> QED
    BY <2>1, <2>3
<1>5. up[k] = W[k]
  <2> HIDE DEF up, W
  <2> QED BY <1>4
<1> QED
  BY <1>5


-----------------------------------------------------------------------------
\* A zone lies above a name where walking up from the name meets its own.
LEMMA EnclosingIsAbove ==
  ASSUME file \in Seq(Definition), Len(zones) = Len(file),
         \A i \in 1..Len(file) : zones[i].name = file[i].name,
         NEW n \in Seq(STRING), NEW i \in 1..Len(file), NEW k \in 0..Len(n)
  PROVE  i \in Defined(Ancestors(n)[k])
           <=> i \in Enclosing(zones, n) /\ k = Len(n) - Len(file[i].name)
<1> DEFINE name == file[i].name
<1>1. name \in Seq(STRING) /\ Len(name) \in Nat /\ Len(n) \in Nat
  <2>1. file[i] \in Definition
    BY ElementOfSeq
  <2> QED
    BY <2>1, LenProperties DEF Definition
<1>2. Ancestors(n)[k] = SubSeq(n, k + 1, Len(n))
  BY AncestorIsSuffix
<1>3. i \in Defined(Ancestors(n)[k]) <=> name = SubSeq(n, k + 1, Len(n))
  BY <1>2 DEF Defined
<1>4. Len(SubSeq(n, k + 1, Len(n))) = Len(n) - k
  BY <1>1
<1>5. SubSeq(n, 1, Len(n)) = n
  OBVIOUS
<1>6. i \in Enclosing(zones, n)
        <=> Len(name) <= Len(n) /\ SubSeq(n, Len(n) - Len(name) + 1, Len(n)) = name
  <2>1. i \in Enclosing(zones, n) <=> IsSubdomainOf(n, name) \/ n = name
    BY DEF Enclosing, Contains
  <2>2. IsSubdomainOf(n, name)
          <=> Len(name) <= Len(n) /\ SubSeq(n, Len(n) - Len(name) + 1, Len(n)) = name
    <3> HIDE DEF name
    <3> QED BY <1>1 DEF IsSubdomainOf
  <2>3. n = name => Len(name) <= Len(n) /\ SubSeq(n, Len(n) - Len(name) + 1, Len(n)) = name
    <3> SUFFICES ASSUME n = name
                 PROVE  Len(n) <= Len(n) /\ SubSeq(n, Len(n) - Len(n) + 1, Len(n)) = n
      OBVIOUS
    <3>1. Len(n) - Len(n) + 1 = 1
      BY <1>1
    <3> QED BY <1>1, <1>5, <3>1
  <2> QED
    BY <2>1, <2>2, <2>3
<1> HIDE DEF name
<1>7. ASSUME name = SubSeq(n, k + 1, Len(n))
      PROVE  k = Len(n) - Len(name) /\ Len(name) <= Len(n)
             /\ SubSeq(n, Len(n) - Len(name) + 1, Len(n)) = name
  <2>1. Len(name) = Len(n) - k
    BY <1>4, <1>7
  <2>2. k = Len(n) - Len(name) /\ Len(name) <= Len(n) /\ Len(n) - Len(name) + 1 = k + 1
    BY <1>1, <2>1
  <2> QED
    BY <1>7, <2>2
<1>8. i \in Defined(Ancestors(n)[k])
        <=> i \in Enclosing(zones, n) /\ k = Len(n) - Len(name)
  BY <1>1, <1>3, <1>6, <1>7
<1> QED
  BY <1>8 DEF name

\* find_zone is the walk from parent to parent, the last definition winning.
LEMMA FindZoneIsHome ==
  ASSUME file \in Seq(Definition), Len(zones) = Len(file),
         \A i \in 1..Len(file) : zones[i].name = file[i].name,
         NEW n \in Seq(STRING)
  PROVE  HomeZones(n) = IF Enclosing(zones, n) = {} THEN {} ELSE {FindZone(zones, n)}
<1> DEFINE E == Enclosing(zones, n)
           At(k) == Defined(Ancestors(n)[k])
           up == {k \in 0..Len(n) : At(k) # {}}
           size == [i \in 1..Len(file) |-> Len(file[i].name)]
<1>1. /\ Len(n) \in Nat /\ Len(file) \in Nat
      /\ \A i \in 1..Len(file) : size[i] \in Nat /\ Len(zones[i].name) = size[i]
  <2>1. ASSUME NEW i \in 1..Len(file) PROVE Len(file[i].name) \in Nat
    <3>1. file[i] \in Definition
      BY ElementOfSeq
    <3> QED
      BY <3>1, LenProperties DEF Definition
  <2> QED
    BY <2>1, LenProperties
<1>2. E \subseteq 1..Len(file) /\ \A k \in 0..Len(n) : At(k) \subseteq 1..Len(file)
  BY DEF Enclosing, Defined
<1>3. \A i \in 1..Len(file), k \in 0..Len(n) : i \in At(k) <=> i \in E /\ k = Len(n) - size[i]
  BY EnclosingIsAbove
<1>4. \A i \in E : size[i] <= Len(n)
  <2>1. ASSUME NEW i \in E PROVE Len(zones[i].name) <= Len(n)
    <3>1. IsSubdomainOf(n, zones[i].name) \/ n = zones[i].name
      BY DEF Enclosing, Contains
    <3>2. IsSubdomainOf(n, zones[i].name) => Len(n) >= Len(zones[i].name)
      BY DEF IsSubdomainOf
    <3>3. Len(zones[i].name) \in Nat
      BY <1>1, <1>2
    <3> QED
      BY <1>1, <3>1, <3>2, <3>3

  <2> QED
    BY <1>1, <1>2, <2>1
<1>5. HomeZones(n) =
        IF up = {} THEN {}
        ELSE {CHOOSE i \in At(CHOOSE k \in up : \A j \in up : k <= j) :
                \A j \in At(CHOOSE k \in up : \A j2 \in up : k <= j2) : j <= i}
  BY DEF HomeZones
<1> HIDE DEF At, size
<1>6. CASE E = {}
  <2>1. up = {}
    BY <1>2, <1>3, <1>6
  <2> QED
    BY <1>5, <1>6, <2>1
<1>7. CASE E # {}
  <2> DEFINE f == FindZone(zones, n)
             top == Len(n) - size[f]
  <2>1. f \in E /\ \A j \in E : size[j] < size[f] \/ (size[j] = size[f] /\ j <= f)
    BY <1>1, <1>2, <1>7, ClosestFound
  <2> HIDE DEF E, f
  <2>2. size[f] \in Nat /\ size[f] <= Len(n) /\ f \in 1..Len(file) /\ top \in 0..Len(n)
    BY <1>1, <1>2, <1>4, <2>1
  <2>3. f \in At(top)
    BY <1>3, <2>1, <2>2
  <2>4. top \in up
    BY <2>2, <2>3
  <2>5. ASSUME NEW j \in up PROVE top <= j
    <3>1. PICK i \in 1..Len(file) : i \in At(j)
      BY <1>2
    <3>2. i \in E /\ j = Len(n) - size[i]
      BY <1>3, <3>1
    <3> QED
      BY <1>1, <2>1, <2>2, <3>2
  <2> HIDE DEF top
  <2>6. (CHOOSE k \in up : \A j \in up : k <= j) = top
    <3>1. ASSUME NEW k \in up, \A j \in up : k <= j PROVE k = top
      BY <1>1, <2>2, <2>4, <2>5, <3>1
    <3> QED
      BY <2>4, <2>5, <3>1
  <2>7. \A j \in At(top) : j <= f
    <3>1. ASSUME NEW j \in At(top) PROVE j <= f
      <4>1. j \in 1..Len(file)
        BY <1>2, <2>2
      <4>2. j \in E /\ top = Len(n) - size[j]
        BY <1>3, <2>2, <4>1
      <4>3. size[j] = size[f]
        BY <1>1, <2>2, <4>1, <4>2 DEF top
      <4> QED
        BY <1>1, <2>1, <2>2, <4>1, <4>2, <4>3
    <3> QED
      BY <3>1
  <2>8. (CHOOSE i \in At(top) : \A j \in At(top) : j <= i) = f
    <3>1. \A i \in At(top) : i \in Nat
      BY <1>2, <2>2
    <3> QED
      BY <2>3, <2>7, <3>1
  <2>9. up # {}
    BY <2>4
  <2> HIDE DEF up
  <2>10. HomeZones(n) = {f}
    BY <1>5, <2>6, <2>8, <2>9
  <2> QED
    BY <1>7, <2>10 DEF f, E
<1> QED
  BY <1>6, <1>7

LEMMA ZoneName == ASSUME NEW def PROVE FromConfig(def).name = def.name
BY DEF FromConfig

\* A zone says of a name what its definition says, SOA and NS of the apex aside.
LEMMA ZoneSaysDefinition ==
  ASSUME NEW def, NEW n, NEW type, type # "SOA", ~(type = "NS" /\ n = def.name)
  PROVE  ZoneLookup(FromConfig(def), n, type) =
           {[name |-> n, type |-> rec.type, value |-> rec.value] :
              rec \in {x \in def.records : x.type = type /\ RecordName(x, def) = n}}
<1> DEFINE z == FromConfig(def)
           Made(rec) == [name |-> RecordName(rec, def), type |-> rec.type, value |-> rec.value]
           Said == {[name |-> n, type |-> rec.type, value |-> rec.value] :
                      rec \in {x \in def.records : x.type = type /\ RecordName(x, def) = n}}
<1>1. z.name = def.name /\ z.records = {Made(rec) : rec \in def.records}
  BY DEF FromConfig
<1>2. \A rec : Made(rec).name = RecordName(rec, def) /\ Made(rec).type = rec.type
  OBVIOUS
<1> HIDE DEF z
<1>3. ZoneLookup(z, n, type) = {r \in z.records : r.name = n /\ r.type = type}
  BY <1>1 DEF ZoneLookup
<1>4. ASSUME NEW rec \in def.records, rec.type = type, RecordName(rec, def) = n
      PROVE  Made(rec) = [name |-> n, type |-> rec.type, value |-> rec.value]
  BY <1>4
<1> HIDE DEF Made
<1>5. ASSUME NEW r \in ZoneLookup(z, n, type) PROVE r \in Said
  <2>1. PICK rec \in def.records : r = Made(rec)
    BY <1>1, <1>3
  <2>2. rec.type = type /\ RecordName(rec, def) = n
    BY <1>2, <1>3, <2>1
  <2> QED
    BY <1>4, <2>1, <2>2
<1>6. ASSUME NEW r \in Said PROVE r \in ZoneLookup(z, n, type)
  <2>1. PICK rec \in def.records :
           /\ rec.type = type /\ RecordName(rec, def) = n
           /\ r = [name |-> n, type |-> rec.type, value |-> rec.value]
    OBVIOUS
  <2>2. r = Made(rec)
    BY <1>4, <2>1
  <2> QED
    BY <1>1, <1>2, <1>3, <2>1, <2>2
<1>7. ZoneLookup(z, n, type) = Said
  <2> HIDE DEF Said
  <2> QED BY <1>5, <1>6
<1> QED
  BY <1>7 DEF z

-----------------------------------------------------------------------------
(***************************************************************************)
(* The inductive invariant: zones and definitions go together as far as     *)
(* they have been loaded (Loaded), and a reply is what the zones say now    *)
(* (Said), which they will go on to say, since nothing is loaded later.     *)
(***************************************************************************)
Zone == {FromConfig(d) : d \in Definition}

Loaded ==
  /\ file \in Seq(Definition)
  /\ next \in 1..Len(file) + 1
  /\ zones \in Seq(Zone) /\ Len(zones) = next - 1
  /\ \A i \in 1..Len(zones) : zones[i] = FromConfig(file[i])
  /\ phase \in {"loading", "serving", "exited"}
  /\ phase = "serving" => Len(zones) = Len(file)

Said ==
  reply.type # "none" =>
    /\ phase = "serving" /\ reply.name \in Seq(STRING)
    /\ reply.records = StoreLookup(zones, reply.name, reply.type)

IInv == Loaded /\ Said

LEMMA InitInv == Init => IInv
<1> SUFFICES ASSUME Init PROVE IInv
  OBVIOUS
<1>1. file \in Seq(Definition) /\ next = 1 /\ zones = <<>> /\ phase = "loading"
  BY ConfigAssumption DEF Init
<1>2. Len(file) \in Nat
  BY <1>1, LenProperties
<1>3. zones \in Seq(Zone) /\ Len(zones) = 0
  BY <1>1
<1>4. Loaded
  BY <1>1, <1>2, <1>3 DEF Loaded
<1>5. reply.type = "none"
  BY DEF Init, NoReply
<1> QED
  BY <1>4, <1>5 DEF IInv, Said

LEMMA LoadZoneInv ==
  ASSUME IInv, LoadZone
  PROVE  IInv'
<1> DEFINE z == FromConfig(file[next])
<1>1. /\ next \in 1..Len(file) /\ zones' = Append(zones, z) /\ next' = next + 1
      /\ phase = "loading" /\ UNCHANGED <<file, phase, reply>>
  BY LenProperties DEF LoadZone, IInv, Loaded
<1>2. /\ file \in Seq(Definition) /\ zones \in Seq(Zone)
      /\ Len(zones) = next - 1 /\ Len(file) \in Nat
  BY LenProperties DEF IInv, Loaded
<1>3. z \in Zone
  <2>1. file[next] \in Definition
    BY <1>1, <1>2, ElementOfSeq
  <2> QED
    BY <2>1 DEF Zone
<1> HIDE DEF z
<1>4. /\ zones' \in Seq(Zone) /\ Len(zones') = Len(zones) + 1
      /\ \A i \in 1..Len(zones) : zones'[i] = zones[i]
      /\ zones'[Len(zones) + 1] = z
  BY <1>1, <1>2, <1>3
<1>5. \A i \in 1..Len(zones') : zones'[i] = FromConfig(file'[i])
  <2>1. ASSUME NEW i \in 1..Len(zones') PROVE zones'[i] = FromConfig(file[i])
    <3>1. CASE i = next
      BY <1>2, <1>4, <3>1 DEF z
    <3>2. CASE i # next
      <4>1. i \in 1..Len(zones)
        BY <1>1, <1>2, <1>4, <3>2
      <4> QED
        BY <1>4, <4>1 DEF IInv, Loaded
    <3> QED
      BY <3>1, <3>2
  <2> QED
    BY <1>1, <2>1
<1>6. Loaded'
  BY <1>1, <1>2, <1>4, <1>5 DEF Loaded
<1>7. Said'
  BY <1>1 DEF IInv, Said
<1> QED
  BY <1>6, <1>7 DEF IInv

LEMMA NextInv ==
  ASSUME IInv, [Next]_vars
  PROVE  IInv'
<1>1. CASE Unreadable
  <2>1. /\ next = 1 /\ file' = <<>> /\ phase' = "serving"
        /\ UNCHANGED <<next, zones, reply>> /\ phase = "loading"
    BY <1>1 DEF Unreadable
  <2>2. file' \in Seq(Definition) /\ Len(file') = 0
    BY <2>1
  <2>3. Loaded'
    BY <2>1, <2>2 DEF IInv, Loaded
  <2>4. Said'
    BY <2>1 DEF IInv, Said
  <2> QED
    BY <2>3, <2>4 DEF IInv
<1>2. CASE LoadZone
  BY <1>2, LoadZoneInv
<1>3. CASE LoadFails
  BY <1>3 DEF LoadFails, IInv, Loaded, Said
<1>4. CASE Serve
  <2>1. Len(file) \in Nat
    BY LenProperties DEF IInv, Loaded
  <2>2. next = Len(file) + 1
    BY <1>4, <2>1 DEF Serve, IInv, Loaded
  <2> QED
    BY <1>4, <2>1, <2>2 DEF Serve, IInv, Loaded, Said
<1>5. ASSUME NEW n \in Queried, NEW type, Lookup(n, type) PROVE IInv'
  <2>1. /\ phase = "serving" /\ UNCHANGED <<file, next, zones, phase>>
        /\ reply'.name = n /\ reply'.type = type
        /\ reply'.records = StoreLookup(zones, n, type)
    BY <1>5 DEF Lookup
  <2>2. n \in Seq(STRING)
    BY QueriedAssumption
  <2>3. Said'
    BY <2>1, <2>2 DEF Said, StoreLookup, Enclosing, FindZone
  <2>4. Loaded'
    BY <2>1 DEF IInv, Loaded
  <2> QED
    BY <2>3, <2>4 DEF IInv
<1>6. CASE UNCHANGED vars
  BY <1>6 DEF vars, IInv, Loaded, Said, StoreLookup, Enclosing, FindZone
<1> QED
  BY <1>1, <1>2, <1>3, <1>4, <1>5, <1>6 DEF Next

\* What a lookup returns in a state of the invariant.
LEMMA ClosestAnswers == IInv => ClosestZoneAnswers
<1> SUFFICES ASSUME IInv, reply.type \notin {"none", "SOA"},
                    ~(reply.type = "NS" /\ \E i \in HomeZones(reply.name) : file[i].name = reply.name)
             PROVE  reply.records =
                      UNION {{[name |-> reply.name, type |-> rec.type, value |-> rec.value] :
                                rec \in {x \in file[i].records :
                                           x.type = reply.type /\ RecordName(x, file[i]) = reply.name}}
                             : i \in HomeZones(reply.name)}
  BY DEF ClosestZoneAnswers
<1> DEFINE n == reply.name
           type == reply.type
           OfZone(i) == {[name |-> n, type |-> rec.type, value |-> rec.value] :
                           rec \in {x \in file[i].records :
                                      x.type = type /\ RecordName(x, file[i]) = n}}
<1>1. /\ phase = "serving" /\ n \in Seq(STRING)
      /\ reply.records = StoreLookup(zones, n, type)
  BY DEF IInv, Said
<1>2. /\ file \in Seq(Definition) /\ Len(zones) = Len(file) /\ Len(file) \in Nat
      /\ \A i \in 1..Len(file) : zones[i] = FromConfig(file[i])
  BY <1>1, LenProperties DEF IInv, Loaded
<1>3. \A i \in 1..Len(file) : zones[i].name = file[i].name
  BY <1>2, ZoneName
<1>4. HomeZones(n) = IF Enclosing(zones, n) = {} THEN {} ELSE {FindZone(zones, n)}
  BY <1>1, <1>2, <1>3, FindZoneIsHome
<1>5. CASE Enclosing(zones, n) = {}
  BY <1>1, <1>4, <1>5 DEF StoreLookup
<1>6. CASE Enclosing(zones, n) # {}
  <2> DEFINE f == FindZone(zones, n)
  <2>1. HomeZones(n) = {f}
    BY <1>4, <1>6
  <2>2. f \in 1..Len(file)
    <3>1. \A i \in 1..Len(zones) : Len(zones[i].name) \in Nat
      <4>1. ASSUME NEW i \in 1..Len(zones) PROVE Len(zones[i].name) \in Nat
        <5>1. file[i] \in Definition
          BY <1>2, ElementOfSeq
        <5>2. zones[i].name \in Seq(STRING)
          BY <1>2, <1>3, <5>1 DEF Definition
        <5> QED
          BY <5>2, LenProperties
      <4> QED
        BY <4>1
    <3>2. f \in Enclosing(zones, n)
      BY <1>2, <1>6, <3>1, ClosestFound
    <3> QED
      BY <1>2, <3>2 DEF Enclosing
  <2> HIDE DEF f
  <2>3. reply.records = ZoneLookup(FromConfig(file[f]), n, type)
    BY <1>1, <1>2, <1>6, <2>2 DEF StoreLookup, f
  <2>4. ~(type = "NS" /\ n = file[f].name) /\ type # "SOA"
    BY <2>1
  <2>5. reply.records = OfZone(f)
    BY <2>3, <2>4, ZoneSaysDefinition
  <2> HIDE DEF OfZone
  <2>6. UNION {OfZone(i) : i \in HomeZones(n)} = OfZone(f)
    BY <2>1
  <2> QED
    BY <2>5, <2>6 DEF OfZone
<1> QED
  BY <1>5, <1>6

LEMMA Invariant == Spec => []IInv
<1> QED
  BY InitInv, NextInv, PTL DEF Spec

-----------------------------------------------------------------------------
\* For every zones file and name, a lookup is answered from the zone closest above
\* the name, the last definition winning (ZoneStore::find_zone and lookup).
THEOREM ClosestZoneAlwaysAnswers == Spec => []ClosestZoneAnswers
<1> QED
  BY Invariant, ClosestAnswers, PTL

\* A server that answers has all of its zones file, in order (load_config).
THEOREM WholeFileServed == Spec => []ServesWholeFile
<1>1. IInv => ServesWholeFile
  BY ZoneName DEF IInv, Loaded, ServesWholeFile

<1> QED
  BY Invariant, <1>1, PTL
=============================================================================
