----------------------------- MODULE ZonesProofs -----------------------------
(***************************************************************************)
(* What the proofs about the zones and the resolver need of module Zones:   *)
(* find_zone has something to find.                                        *)
(***************************************************************************)
EXTENDS Zones, WellFoundedInduction, SequenceTheorems, TLAPS

\* A nonempty set of naturals has a least element.
LEMMA LeastNatural ==
  ASSUME NEW S, S \subseteq Nat, S # {}
  PROVE  \E m \in S : \A n \in S : m <= n
<1>1. PICK m \in S : \A n \in S : ~(<<n, m>> \in OpToRel(<, Nat))
  BY WFMin, NatLessThanWellFounded
<1>2. \A n \in S : ~(n < m)
  BY <1>1 DEF OpToRel
<1> QED BY <1>2

\* Of the positions in a set the last of those with the greatest key exists:
\* what max_by_key returns in ZoneStore::find_zone.
LEMMA LastGreatest ==
  ASSUME NEW L \in Nat, NEW E, E \subseteq 1..L, E # {},
         NEW key, \A i \in E : key[i] \in Nat
  PROVE  \E i \in E : \A j \in E : \/ key[j] < key[i]
                                   \/ key[j] = key[i] /\ j <= i
<1> DEFINE Upto(k) == {i \in E : i <= k}
           Best(k) == \E i \in Upto(k) : \A j \in Upto(k) :
                        key[j] < key[i] \/ (key[j] = key[i] /\ j <= i)
           Bad == {k \in Nat : Upto(k) # {} /\ ~Best(k)}
<1>0. \A i \in E : i \in Nat /\ 1 <= i /\ i <= L
  OBVIOUS
<1>1. Bad = {}
  <2> SUFFICES ASSUME Bad # {} PROVE FALSE
    OBVIOUS
  <2>1. PICK k \in Bad : \A n \in Bad : k <= n
    BY LeastNatural
  <2>2. k \in Nat /\ Upto(k) # {} /\ ~Best(k)
    BY <2>1
  <2>3. k \in Nat /\ Upto(k) # {}
    BY <2>2
  <2>4. \A i \in E : i <= k <=> (i <= k - 1 \/ i = k)
    BY <1>0, <2>3
  <2>5. k # 0
    <3>1. PICK i \in E : i <= k
      BY <2>3
    <3> QED
      BY <1>0, <2>3, <3>1
  <2>6. k - 1 \in Nat /\ k - 1 \notin Bad
    BY <2>1, <2>2, <2>5
  <2>7. k \in E
    <3> SUFFICES ASSUME k \notin E PROVE FALSE
      OBVIOUS
    <3>1. Upto(k) = Upto(k - 1)
      BY <2>4
    <3> QED
      BY <2>2, <2>6, <3>1
  <2>8. Upto(k) = Upto(k - 1) \cup {k}
    BY <2>4, <2>3, <2>7
  <2>9. CASE Upto(k - 1) = {}
    <3>1. Upto(k) = {k}
      BY <2>8, <2>9
    <3> QED
      BY <2>2, <2>7, <3>1
  <2>10. CASE Upto(k - 1) # {}
    <3>1. PICK i \in Upto(k - 1) : \A j \in Upto(k - 1) :
                 key[j] < key[i] \/ (key[j] = key[i] /\ j <= i)
      BY <2>6, <2>10
    <3>2. key[i] \in Nat /\ key[k] \in Nat /\ \A j \in Upto(k - 1) : key[j] \in Nat
      BY <2>7
    <3>3. CASE key[k] < key[i]
      <4>1. i \in Upto(k)
        BY <2>8
      <4> QED
        BY <2>2, <2>8, <3>1, <3>3, <4>1
    <3>4. CASE ~(key[k] < key[i])
      <4>1. k \in Upto(k) /\ \A j \in Upto(k - 1) : j <= k
        BY <1>0, <2>2, <2>7
      <4>2. \A j \in Upto(k) : key[j] < key[k] \/ (key[j] = key[k] /\ j <= k)
        BY <2>2, <2>8, <3>1, <3>2, <3>4, <4>1
      <4> QED
        BY <2>2, <4>1, <4>2
    <3> QED
      BY <3>3, <3>4
  <2> QED
    BY <2>9, <2>10
<1>2. Upto(L) = E
  BY <1>0
<1>3. Best(L)
  BY <1>1, <1>2
<1> QED
  BY <1>2, <1>3

\* The zone find_zone returns contains the name and is the last of the longest
\* that do.
LEMMA ClosestFound ==
  ASSUME NEW zones, Len(zones) \in Nat,
         \A i \in 1..Len(zones) : Len(zones[i].name) \in Nat,
         NEW n, Enclosing(zones, n) # {}
  PROVE  /\ FindZone(zones, n) \in Enclosing(zones, n)
         /\ \A j \in Enclosing(zones, n) :
              \/ Len(zones[j].name) < Len(zones[FindZone(zones, n)].name)
              \/ /\ Len(zones[j].name) = Len(zones[FindZone(zones, n)].name)
                 /\ j <= FindZone(zones, n)
<1> DEFINE E == Enclosing(zones, n)
           key == [i \in E |-> Len(zones[i].name)]
           Closest(i) == \A j \in E :
                           \/ Len(zones[j].name) < Len(zones[i].name)
                           \/ Len(zones[j].name) = Len(zones[i].name) /\ j <= i
<1>1. E \subseteq 1..Len(zones) /\ E # {}
  BY DEF Enclosing
<1>2. \A i \in E : key[i] \in Nat /\ key[i] = Len(zones[i].name)
  BY <1>1
<1>3. \E i \in E : \A j \in E : \/ key[j] < key[i]
                                \/ key[j] = key[i] /\ j <= i
  <2> HIDE DEF E, key
  <2> QED BY <1>1, <1>2, LastGreatest
<1>4. \E i \in E : Closest(i)
  <2> HIDE DEF E, key
  <2> QED BY <1>2, <1>3
<1>5. FindZone(zones, n) = CHOOSE i \in E : Closest(i)
  BY DEF FindZone
<1>6. FindZone(zones, n) \in E /\ Closest(FindZone(zones, n))
  <2> HIDE DEF E, Closest
  <2> QED BY <1>4, <1>5
<1> QED
  BY <1>6
=============================================================================
