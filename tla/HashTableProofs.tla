---------------------------- MODULE HashTableProofs ----------------------------
(***************************************************************************)
(* Proofs about the two closed hash tables, the pages of the second, and   *)
(* the type pool.                                                          *)
(*                                                                         *)
(* HashMap: whatever the keys hash to, and through all removals, growths,  *)
(* saves and reloads, a search ends at the one slot of its key, there is   *)
(* room for every addition, an enumeration returns what it has to, and the *)
(* map is the dictionary that its clients take it for.                     *)
(*                                                                         *)
(* NameMap: whatever the names hash to under the versions of the hash      *)
(* function, and through growth, conversion, saves that fail half way and  *)
(* reloads, every search ends and finds an index of its name, what was     *)
(* committed can be loaded for any version, and an index that was          *)
(* committed stays its name's.                                             *)
(*                                                                         *)
(* NameMapPages: wherever names lie on the pages of a large map, a lookup  *)
(* reads the whole of its name.                                            *)
(*                                                                         *)
(* TypePool: each record keeps its one type index through loads and        *)
(* commits that fail, and names change by legal edits when types are only  *)
(* appended.                                                               *)
(***************************************************************************)
EXTENDS HashMap, NameMap, NameMapPages, TypePool, FiniteSetTheorems, SequenceTheorems, WellFoundedInduction, TLAPS

-----------------------------------------------------------------------------
(* The hash map.                                                           *)

Mapping(d, r) == [state |-> "present", d |-> d, r |-> r]
SlotOK == {NoSlot, Tombstone} \cup {Mapping(d, r) : d \in Keys, r \in Values}

Table(m) ==
  \E n \in Nat \ {0}, c \in Nat : \E s \in [0 .. n - 1 -> SlotOK] :
    m = [size |-> n, slot |-> s, cdr |-> c]

\* A search for d that looks at k other slots first finds it.
Reaches(m, d, k) ==
  /\ Holds(m, ProbeAt(m, d, k), d)
  /\ \A j \in 0 .. k - 1 : ~Ends(m, d, ProbeAt(m, d, j))

\* Every mapping is where a search for its key ends.
Found(m) ==
  \A i \in Slots(m) : Present(m, i) =>
    \E k \in Slots(m) : Reaches(m, m.slot[i].d, k) /\ ProbeAt(m, m.slot[i].d, k) = i

TableOK(m) == Table(m) /\ Found(m) /\ m.cdr = Cardinality(Full(m))
Roomy(m) == m.cdr < cdrLoadMax(m)

Has(m, d, r) == \E i \in Slots(m) : m.slot[i] = Mapping(d, r)

EnumOK ==
  /\ enum \in [on : BOOLEAN, i : Int] /\ -1 <= enum.i
  /\ EnumFaithful

IInv == TableOK(map) /\ Roomy(map) /\ EnumOK

-----------------------------------------------------------------------------
(* Numbers.                                                                *)

\* A set of natural numbers that is not empty has a least one.
LEMMA LeastIn ==
  ASSUME NEW T \in SUBSET Nat, T # {}
  PROVE  \E x \in T : \A y \in T : x <= y
<1> DEFINE R == OpToRel(<, Nat)
<1>1. IsWellFoundedOn(R, Nat)
  BY NatLessThanWellFounded
<1>2. \A x, y \in Nat : <<y, x>> \in R <=> y < x
  BY DEF OpToRel
<1> HIDE DEF R
<1>3. PICK x \in T : \A y \in T : <<y, x>> \notin R
  BY <1>1, WFMin
<1>4. ASSUME NEW y \in T
      PROVE  x <= y
  <2>1. x \in Nat /\ y \in Nat /\ <<y, x>> \notin R
    BY <1>3
  <2>2. ~(y < x)
    BY <1>2, <2>1, Zenon
  <2>3. QED
    BY <2>1, <2>2
<1>5. QED
  BY <1>3, <1>4

LEMMA MinIs ==
  ASSUME NEW T \in SUBSET Nat, T # {}
  PROVE  Min(T) \in T /\ \A y \in T : Min(T) <= y
BY LeastIn DEF Min

\* A product that is less than its factor is of nothing.
LEMMA NoMultiple ==
  ASSUME NEW n \in Nat \ {0}, NEW q \in Nat, NEW p \in Nat, NEW a \in 0 .. n - 1, NEW b \in 0 .. n - 1,
         n * q + a = n * p + b
  PROVE  a = b
<1>1. CASE q = p
  BY <1>1
<1>2. ASSUME NEW x \in Nat, NEW y \in Nat, x < y
      PROVE  n * x + n <= n * y
  <2>1. PICK z \in Nat : y = x + 1 + z
    <3>1. y - x - 1 \in Nat /\ y = x + 1 + (y - x - 1)
      BY <1>2
    <3>2. QED
      BY <3>1
  <2>2. n * y = n * x + n + n * z
    BY <2>1
  <2>3. n * z \in Nat
    OBVIOUS
  <2>4. QED
    BY <2>2, <2>3
<1>3. CASE q < p
  <2>1. n * q + n <= n * p
    BY <1>2, <1>3
  <2>2. n * q \in Nat /\ n * p \in Nat
    OBVIOUS
  <2>3. QED
    BY <2>1, <2>2
<1>4. CASE p < q
  <2>1. n * p + n <= n * q
    BY <1>2, <1>4
  <2>2. n * q \in Nat /\ n * p \in Nat
    OBVIOUS
  <2>3. QED
    BY <2>1, <2>2
<1>5. QED
  BY <1>1, <1>3, <1>4

LEMMA Division ==
  ASSUME NEW n \in Nat \ {0}, NEW a \in Nat
  PROVE  a \div n \in Nat /\ a % n \in 0 .. n - 1 /\ a = n * (a \div n) + (a % n)
OBVIOUS

\* Every slot is looked at once, wherever a search starts.
LEMMA AllProbed ==
  ASSUME NEW n \in Nat \ {0}, NEW a \in Nat, NEW i \in 0 .. n - 1
  PROVE  \E k \in 0 .. n - 1 : (a + k) % n = i
<1> DEFINE q == a \div n
           b == a % n
           k == IF b <= i THEN i - b ELSE i - b + n
           p == IF b <= i THEN q ELSE q + 1
<1>1. q \in Nat /\ b \in 0 .. n - 1 /\ a = n * q + b
  BY Division
<1> HIDE DEF q, b
<1>2. k \in 0 .. n - 1 /\ p \in Nat
  BY <1>1
<1>3. a + k = n * p + i
  <2>1. n * q \in Nat /\ n * (q + 1) = n * q + n
    BY <1>1
  <2>2. CASE b <= i
    BY <1>1, <2>1, <2>2
  <2>3. CASE ~(b <= i)
    BY <1>1, <2>1, <2>3
  <2>4. QED
    BY <2>2, <2>3
<1> HIDE DEF k, p
<1>4. \A x \in Nat : x \div n \in Nat /\ x % n \in 0 .. n - 1 /\ x = n * (x \div n) + (x % n)
  BY Division
<1> DEFINE x == a + k
<1>7. x \in Nat /\ x = n * p + i
  BY <1>2, <1>3
<1> HIDE DEF x
<1>8. x % n = i
  BY <1>2, <1>4, <1>7, NoMultiple
<1>5. (a + k) % n = i
  BY <1>8 DEF x
<1>6. QED
  BY <1>2, <1>5

LEMMA Limit ==
  ASSUME NEW n \in Nat \ {0}
  PROVE  (n * 2) \div 3 + 1 \in Nat \ {0} /\ (n * 2) \div 3 + 1 <= n
OBVIOUS

LEMMA RoomInNew ==
  ASSUME NEW x \in Nat \ {0}
  PROVE  x < ((2 * x) * 2) \div 3 + 1
OBVIOUS
-----------------------------------------------------------------------------
(* Tables.                                                                 *)

LEMMA Kinds ==
  ASSUME HashMapAssumption
  PROVE  /\ \A d \in Keys, r \in Values : Mapping(d, r) \in SlotOK
         /\ NoSlot \in SlotOK /\ NoSlot.state = "empty"
         /\ Tombstone \in SlotOK /\ Tombstone.state = "deleted"
         /\ \A s \in SlotOK :
              /\ s.state = "present" => s.d \in Keys /\ s.r \in Values /\ s = Mapping(s.d, s.r)
              /\ s.state = "empty" => s = NoSlot
              /\ s.state = "deleted" => s = Tombstone
              /\ s.state \in {"empty", "deleted", "present"}
<1>1. Tombstone = [state |-> "deleted", d |-> NoKey, r |-> NoKey]
  BY DEF Tombstone, NoSlot
<1>2. NoSlot = [state |-> "empty", d |-> NoKey, r |-> NoKey]
  BY DEF NoSlot
<1>3. \A d, r : Mapping(d, r) = [state |-> "present", d |-> d, r |-> r]
  BY DEF Mapping
<1>4. \A d \in Keys, r \in Values : Mapping(d, r) \in SlotOK
  BY DEF SlotOK
<1>5. NoSlot \in SlotOK /\ Tombstone \in SlotOK
  BY DEF SlotOK
<1>6. NoSlot.state = "empty" /\ Tombstone.state = "deleted"
  BY <1>1, <1>2
<1>7. ASSUME NEW s \in SlotOK
      PROVE  /\ s.state = "present" => s.d \in Keys /\ s.r \in Values /\ s = Mapping(s.d, s.r)
             /\ s.state = "empty" => s = NoSlot
             /\ s.state = "deleted" => s = Tombstone
             /\ s.state \in {"empty", "deleted", "present"}
  <2>1. CASE s = NoSlot
    BY <1>6, <2>1
  <2>2. CASE s = Tombstone
    BY <1>6, <2>2
  <2>3. CASE \E d \in Keys, r \in Values : s = Mapping(d, r)
    <3>1. PICK d \in Keys, r \in Values : s = Mapping(d, r)
      BY <2>3
    <3>2. s.state = "present" /\ s.d = d /\ s.r = r
      BY <1>3, <3>1
    <3>3. QED
      BY <3>1, <3>2
  <2>4. QED
    BY <2>1, <2>2, <2>3 DEF SlotOK
<1>8. QED
  BY <1>4, <1>5, <1>6, <1>7

LEMMA MappingFields ==
  ASSUME NEW d, NEW r
  PROVE  Mapping(d, r).state = "present" /\ Mapping(d, r).d = d /\ Mapping(d, r).r = r
BY DEF Mapping

LEMMA TableParts ==
  ASSUME NEW m, Table(m)
  PROVE  /\ m.size \in Nat \ {0} /\ m.cdr \in Nat /\ m.slot \in [Slots(m) -> SlotOK]
         /\ m = [size |-> m.size, slot |-> m.slot, cdr |-> m.cdr]
         /\ Slots(m) = 0 .. m.size - 1 /\ Slots(m) \subseteq Nat
         /\ m.size - 1 \in Slots(m)
<1>1. PICK n \in Nat \ {0}, c \in Nat : \E s \in [0 .. n - 1 -> SlotOK] :
        m = [size |-> n, slot |-> s, cdr |-> c]
  BY DEF Table
<1>2. PICK s \in [0 .. n - 1 -> SlotOK] : m = [size |-> n, slot |-> s, cdr |-> c]
  BY <1>1
<1>3. m.size = n /\ m.slot = s /\ m.cdr = c
  BY <1>2
<1>4. Slots(m) = 0 .. n - 1
  BY <1>3 DEF Slots
<1>5. QED
  BY <1>2, <1>3, <1>4

LEMMA SlotParts ==
  ASSUME HashMapAssumption, NEW m, Table(m), NEW i \in Slots(m)
  PROVE  /\ m.slot[i] \in SlotOK
         /\ Present(m, i) =>
              /\ m.slot[i].d \in Keys /\ m.slot[i].r \in Values
              /\ m.slot[i] = Mapping(m.slot[i].d, m.slot[i].r)
         /\ \A d, r : m.slot[i] = Mapping(d, r) => Holds(m, i, d) /\ m.slot[i].r = r
<1>1. m.slot[i] \in SlotOK
  BY TableParts
<1>2. QED
  BY <1>1, Kinds, MappingFields DEF Present, Holds

LEMMA Probe ==
  ASSUME HashMapAssumption, NEW m, Table(m), NEW d \in Keys, NEW k \in Nat
  PROVE  ProbeAt(m, d, k) \in Slots(m)
<1>1. m.size \in Nat \ {0} /\ Slots(m) = 0 .. m.size - 1
  BY TableParts
<1>2. Hash[d] \in Nat
  BY DEF HashMapAssumption
<1> DEFINE n == m.size
           h == Hash[d] + k
<1>3. n \in Nat \ {0} /\ h \in Nat
  BY <1>1, <1>2
<1> HIDE DEF n, h
<1>4. h % n \in 0 .. n - 1
  BY <1>3
<1>5. QED
  BY <1>1, <1>4 DEF n, h, ProbeAt

LEMMA ProbesAll ==
  ASSUME HashMapAssumption, NEW m, Table(m), NEW d \in Keys, NEW i \in Slots(m)
  PROVE  \E k \in Slots(m) : ProbeAt(m, d, k) = i
<1>1. m.size \in Nat \ {0} /\ Slots(m) = 0 .. m.size - 1
  BY TableParts
<1>2. Hash[d] \in Nat
  BY DEF HashMapAssumption
<1>3. \A n \in Nat \ {0}, a \in Nat : \A x \in 0 .. n - 1 : \E k \in 0 .. n - 1 : (a + k) % n = x
  BY AllProbed
<1>4. PICK k \in 0 .. m.size - 1 : (Hash[d] + k) % m.size = i
  BY <1>1, <1>2, <1>3
<1>5. QED
  BY <1>1, <1>4 DEF ProbeAt

\* Where a search ends.
LEMMA LastProbeIs ==
  ASSUME HashMapAssumption, NEW m, Table(m), NEW d \in Keys
  PROVE  /\ LastProbe(m, d) \in Slots(m)
         /\ \A j \in 0 .. LastProbe(m, d) - 1 : ~Ends(m, d, ProbeAt(m, d, j))
         /\ Ends(m, d, ProbeAt(m, d, LastProbe(m, d)))
            \/ (LastProbe(m, d) = m.size - 1 /\ \A j \in Slots(m) : ~Ends(m, d, ProbeAt(m, d, j)))
<1> DEFINE ks == {k \in Slots(m) : Ends(m, d, ProbeAt(m, d, k))}
<1>1. LastProbe(m, d) = IF ks = {} THEN m.size - 1 ELSE Min(ks)
  BY DEF LastProbe
<1>2. m.size \in Nat \ {0} /\ Slots(m) = 0 .. m.size - 1
  BY TableParts
<1>3. CASE ks = {}
  <2>1. LastProbe(m, d) = m.size - 1 /\ \A j \in Slots(m) : ~Ends(m, d, ProbeAt(m, d, j))
    BY <1>1, <1>3
  <2>2. QED
    BY <1>2, <2>1
<1>4. CASE ks # {}
  <2>1. ks \in SUBSET Nat
    BY <1>2
  <2>2. Min(ks) \in ks /\ \A y \in ks : Min(ks) <= y
    BY <1>4, <2>1, MinIs
  <2>3. LastProbe(m, d) = Min(ks)
    BY <1>1, <1>4
  <2>4. \A j \in 0 .. Min(ks) - 1 : j \in Slots(m) /\ j \notin ks
    <3>1. Min(ks) \in Slots(m)
      BY <2>2
    <3> DEFINE x == Min(ks)
    <3> HIDE DEF x
    <3>2. x \in 0 .. m.size - 1 /\ \A y \in ks : x <= y
      BY <1>2, <2>2, <3>1 DEF x
    <3>3. \A j \in 0 .. x - 1 : j \in 0 .. m.size - 1 /\ ~(x <= j)
      BY <1>2, <3>2
    <3>4. QED
      BY <1>2, <3>2, <3>3 DEF x
  <2>5. QED
    BY <2>2, <2>3, <2>4
<1>5. QED
  BY <1>3, <1>4

LEMMA ReachesIs ==
  ASSUME HashMapAssumption, NEW m, Table(m), NEW d \in Keys, NEW k \in Slots(m), Reaches(m, d, k)
  PROVE  LastProbe(m, d) = k /\ contains(m, d) /\ IndexOf(m, d) = ProbeAt(m, d, k)
<1> DEFINE l == LastProbe(m, d)
<1>1. Slots(m) = 0 .. m.size - 1 /\ m.size \in Nat \ {0}
  BY TableParts
<1>2. Holds(m, ProbeAt(m, d, k), d) /\ \A j \in 0 .. k - 1 : ~Ends(m, d, ProbeAt(m, d, j))
  BY DEF Reaches
<1>3. Ends(m, d, ProbeAt(m, d, k))
  BY <1>2 DEF Ends
<1>4. /\ l \in Slots(m)
      /\ \A j \in 0 .. l - 1 : ~Ends(m, d, ProbeAt(m, d, j))
      /\ Ends(m, d, ProbeAt(m, d, l)) \/ \A j \in Slots(m) : ~Ends(m, d, ProbeAt(m, d, j))
  BY LastProbeIs
<1> HIDE DEF l
<1>5. Ends(m, d, ProbeAt(m, d, l))
  BY <1>3, <1>4
<1>6. k \notin 0 .. l - 1 /\ l \notin 0 .. k - 1
  BY <1>2, <1>3, <1>4, <1>5
<1>7. l = k
  BY <1>1, <1>4, <1>6
<1>8. QED
  BY <1>2, <1>7 DEF l, contains, IndexOf

LEMMA ContainsReaches ==
  ASSUME HashMapAssumption, NEW m, Table(m), NEW d \in Keys, contains(m, d)
  PROVE  /\ LastProbe(m, d) \in Slots(m) /\ Reaches(m, d, LastProbe(m, d))
         /\ IndexOf(m, d) = ProbeAt(m, d, LastProbe(m, d))
         /\ IndexOf(m, d) \in Slots(m) /\ Holds(m, IndexOf(m, d), d)
<1>1. LastProbe(m, d) \in Slots(m) /\ \A j \in 0 .. LastProbe(m, d) - 1 : ~Ends(m, d, ProbeAt(m, d, j))
  BY LastProbeIs
<1>2. LastProbe(m, d) \in Nat
  BY <1>1, TableParts
<1>3. QED
  BY <1>1, <1>2, Probe DEF Reaches, contains, IndexOf

\* In a table where every mapping is found, a key that is in a slot is found there.
LEMMA HeldIsFound ==
  ASSUME HashMapAssumption, NEW m, Table(m), Found(m), NEW d \in Keys, NEW i \in Slots(m), Holds(m, i, d)
  PROVE  contains(m, d) /\ IndexOf(m, d) = i
<1>1. PICK k \in Slots(m) : Reaches(m, d, k) /\ ProbeAt(m, d, k) = i
  BY DEF Found, Holds
<1>2. QED
  BY <1>1, ReachesIs

-----------------------------------------------------------------------------
(* A slot that is set.                                                     *)

SetSlot(m, i, s, c) ==
  [size |-> m.size, slot |-> [j \in Slots(m) |-> IF j = i THEN s ELSE m.slot[j]], cdr |-> c]

LEMMA SetParts ==
  ASSUME NEW m, Table(m), NEW i \in Slots(m), NEW s \in SlotOK, NEW c \in Nat, NEW m2, m2 = SetSlot(m, i, s, c)
  PROVE  /\ Table(m2) /\ m2.size = m.size /\ m2.cdr = c /\ Slots(m2) = Slots(m)
         /\ m2.slot[i] = s /\ \A j \in Slots(m) : j # i => m2.slot[j] = m.slot[j]
         /\ \A d, k : ProbeAt(m2, d, k) = ProbeAt(m, d, k)
<1>1. m.size \in Nat \ {0} /\ m.slot \in [Slots(m) -> SlotOK] /\ Slots(m) = 0 .. m.size - 1
  BY TableParts
<1> DEFINE t == [j \in Slots(m) |-> IF j = i THEN s ELSE m.slot[j]]
<1>2. t \in [0 .. m.size - 1 -> SlotOK]
  BY <1>1
<1>3. m2 = [size |-> m.size, slot |-> t, cdr |-> c]
  BY DEF SetSlot
<1>4. t[i] = s /\ \A j \in Slots(m) : j # i => t[j] = m.slot[j]
  OBVIOUS
<1> HIDE DEF t
<1>5. Table(m2)
  BY <1>1, <1>2, <1>3 DEF Table
<1>6. m2.size = m.size /\ m2.slot = t /\ m2.cdr = c
  BY <1>3
<1>7. QED
  BY <1>4, <1>5, <1>6 DEF Slots, ProbeAt

\* A present slot counts for one.
LEMMA SetFull ==
  ASSUME HashMapAssumption, NEW m, Table(m), NEW i \in Slots(m), NEW s \in SlotOK, NEW c \in Nat,
         NEW m2, m2 = SetSlot(m, i, s, c)
  PROVE  /\ IsFiniteSet(Full(m)) /\ Cardinality(Full(m)) \in Nat
         /\ Full(m2) = IF s.state = "present" THEN Full(m) \cup {i} ELSE Full(m) \ {i}
         /\ Cardinality(Full(m2)) =
              IF s.state = "present"
              THEN IF Present(m, i) THEN Cardinality(Full(m)) ELSE Cardinality(Full(m)) + 1
              ELSE IF Present(m, i) THEN Cardinality(Full(m)) - 1 ELSE Cardinality(Full(m))
<1>1. Slots(m) = 0 .. m.size - 1 /\ m.size \in Nat
  BY TableParts
<1>2. IsFiniteSet(Slots(m))
  <2>1. 0 \in Int /\ m.size - 1 \in Int
    BY <1>1
  <2>2. IsFiniteSet(0 .. m.size - 1)
    BY <2>1, FS_Interval
  <2>3. QED
    BY <1>1, <2>2
<1>3. IsFiniteSet(Full(m)) /\ Cardinality(Full(m)) \in Nat
  BY <1>2, FS_Subset, FS_CardinalityType DEF Full
<1>4. i \in Full(m) <=> Present(m, i)
  BY DEF Full
<1>5. Full(m2) = IF s.state = "present" THEN Full(m) \cup {i} ELSE Full(m) \ {i}
  <2>1. Slots(m2) = Slots(m) /\ m2.slot[i] = s /\ \A j \in Slots(m) : j # i => m2.slot[j] = m.slot[j]
    BY SetParts
  <2>2. \A j \in Slots(m) : Present(m2, j) <=> IF j = i THEN s.state = "present" ELSE Present(m, j)
    BY <2>1 DEF Present
  <2>3. QED
    BY <2>1, <2>2 DEF Full
<1>6. /\ Cardinality(Full(m) \cup {i}) =
            IF i \in Full(m) THEN Cardinality(Full(m)) ELSE Cardinality(Full(m)) + 1
      /\ Cardinality(Full(m) \ {i}) =
            IF i \in Full(m) THEN Cardinality(Full(m)) - 1 ELSE Cardinality(Full(m))
  BY <1>3, FS_AddElement, FS_RemoveElement
<1>7. QED
  BY <1>3, <1>4, <1>5, <1>6

\* What the other slots hold is found as before: the slot doesn't end a search that went on.
LEMMA SetReaches ==
  ASSUME HashMapAssumption, NEW m, Table(m), NEW i \in Slots(m), NEW s \in SlotOK, NEW c \in Nat,
         s.state # "empty", NEW d \in Keys, ~(s.state = "present" /\ s.d = d),
         NEW k \in Slots(m), Reaches(m, d, k), ProbeAt(m, d, k) # i,
         NEW m2, m2 = SetSlot(m, i, s, c)
  PROVE  Reaches(m2, d, k)
<1>1. /\ Slots(m2) = Slots(m) /\ m2.slot[i] = s /\ \A j \in Slots(m) : j # i => m2.slot[j] = m.slot[j]
      /\ \A x : ProbeAt(m2, d, x) = ProbeAt(m, d, x)
  BY SetParts
<1>2. \A x \in Nat : ProbeAt(m, d, x) \in Slots(m)
  BY Probe
<1>3. Slots(m) \subseteq Nat
  BY TableParts
<1>4. k \in Nat
  BY <1>3
<1>5. Holds(m2, ProbeAt(m2, d, k), d)
  BY <1>1, <1>2, <1>4 DEF Reaches, Holds, Present
<1>6. ASSUME NEW j \in 0 .. k - 1
      PROVE  ~Ends(m2, d, ProbeAt(m2, d, j))
  <2>1. j \in Nat
    BY <1>4
  <2>2. ~Ends(m, d, ProbeAt(m, d, j))
    BY DEF Reaches
  <2>3. ProbeAt(m2, d, j) = ProbeAt(m, d, j) /\ ProbeAt(m, d, j) \in Slots(m)
    BY <1>1, <1>2, <2>1
  <2>4. QED
    BY <1>1, <2>2, <2>3 DEF Ends, Holds, Present
<1>7. QED
  BY <1>5, <1>6 DEF Reaches

LEMMA SetFound ==
  ASSUME HashMapAssumption, NEW m, Table(m), Found(m),
         NEW i \in Slots(m), NEW s \in SlotOK, NEW c \in Nat, s.state # "empty",
         s.state = "present" =>
           /\ \A j \in Slots(m) : j # i => ~Holds(m, j, s.d)
           /\ \E k \in Slots(m) :
                /\ ProbeAt(m, s.d, k) = i
                /\ \A j \in 0 .. k - 1 : ProbeAt(m, s.d, j) # i /\ ~Ends(m, s.d, ProbeAt(m, s.d, j)),
         NEW m2, m2 = SetSlot(m, i, s, c)
  PROVE  Found(m2)
<1>1. /\ Table(m2) /\ Slots(m2) = Slots(m)
      /\ m2.slot[i] = s /\ \A j \in Slots(m) : j # i => m2.slot[j] = m.slot[j]
      /\ \A d, x : ProbeAt(m2, d, x) = ProbeAt(m, d, x)
  BY SetParts
<1>2. SUFFICES ASSUME NEW j \in Slots(m), Present(m2, j)
               PROVE  \E k \in Slots(m) : Reaches(m2, m2.slot[j].d, k) /\ ProbeAt(m, m2.slot[j].d, k) = j
  BY <1>1 DEF Found
<1>3. CASE j = i
  <2>1. s.state = "present" /\ m2.slot[j] = s
    BY <1>1, <1>2, <1>3 DEF Present
  <2>2. PICK k \in Slots(m) :
          /\ ProbeAt(m, s.d, k) = i
          /\ \A x \in 0 .. k - 1 : ProbeAt(m, s.d, x) # i /\ ~Ends(m, s.d, ProbeAt(m, s.d, x))
    BY <2>1
  <2>3. s.d \in Keys
    BY <2>1, Kinds
  <2>4. Holds(m2, ProbeAt(m2, s.d, k), s.d)
    BY <1>1, <2>1, <2>2 DEF Holds, Present
  <2>5. ASSUME NEW x \in 0 .. k - 1
        PROVE  ~Ends(m2, s.d, ProbeAt(m2, s.d, x))
    <3>1. x \in Nat
      BY TableParts
    <3>2. ProbeAt(m2, s.d, x) = ProbeAt(m, s.d, x) /\ ProbeAt(m, s.d, x) \in Slots(m)
      BY <1>1, <2>3, <3>1, Probe
    <3>3. ProbeAt(m, s.d, x) # i /\ ~Ends(m, s.d, ProbeAt(m, s.d, x))
      BY <2>2
    <3>4. QED
      BY <1>1, <3>2, <3>3 DEF Ends, Holds, Present
  <2>6. QED
    BY <1>3, <2>1, <2>2, <2>4, <2>5 DEF Reaches
<1>4. CASE j # i
  <2>1. Present(m, j) /\ m2.slot[j] = m.slot[j]
    BY <1>1, <1>2, <1>4 DEF Present
  <2> DEFINE d == m.slot[j].d
  <2>2. PICK k \in Slots(m) : Reaches(m, d, k) /\ ProbeAt(m, d, k) = j
    BY <2>1 DEF Found
  <2>3. d \in Keys /\ Holds(m, j, d)
    BY <2>1, SlotParts DEF Holds
  <2> HIDE DEF d
  <2>4. ~(s.state = "present" /\ s.d = d)
    BY <1>4, <2>3
  <2>5. Reaches(m2, d, k)
    BY <1>4, <2>2, <2>3, <2>4, SetReaches
  <2>6. QED
    BY <2>1, <2>2, <2>5 DEF d
<1>5. QED
  BY <1>3, <1>4

-----------------------------------------------------------------------------
(* The operations.                                                         *)

LEMMA HasSet ==
  ASSUME HashMapAssumption, NEW m, Table(m), NEW i \in Slots(m), NEW s \in SlotOK, NEW c \in Nat,
         NEW m2, m2 = SetSlot(m, i, s, c), NEW e, NEW q
  PROVE  Has(m2, e, q) <=> s = Mapping(e, q) \/ \E j \in Slots(m) : j # i /\ m.slot[j] = Mapping(e, q)
BY SetParts DEF Has

LEMMA HasHeld ==
  ASSUME HashMapAssumption, NEW m, Table(m), NEW d \in Keys, NEW r
  PROVE  Has(m, d, r) => \E i \in Slots(m) : Holds(m, i, d) /\ m.slot[i].r = r
BY SlotParts DEF Has

LEMMA LimitOf ==
  ASSUME NEW m, Table(m)
  PROVE  cdrLoadMax(m) \in Nat \ {0} /\ cdrLoadMax(m) <= m.size
BY TableParts, Limit DEF cdrLoadMax

\* There is room for a new key, in the first slot of its search without a mapping.
LEMMA SlotIsFree ==
  ASSUME HashMapAssumption, NEW m, TableOK(m), Roomy(m), NEW d \in Keys, ~contains(m, d)
  PROVE  FreeProbes(m, d) # {}
<1> DEFINE l == LastProbe(m, d)
<1>1. Table(m) /\ m.size \in Nat \ {0} /\ Slots(m) = 0 .. m.size - 1
  BY TableParts DEF TableOK
<1>2. /\ l \in Slots(m)
      /\ Ends(m, d, ProbeAt(m, d, l)) \/ (l = m.size - 1 /\ \A j \in Slots(m) : ~Ends(m, d, ProbeAt(m, d, j)))
  BY <1>1, LastProbeIs
<1>3. ~Holds(m, ProbeAt(m, d, l), d)
  BY DEF contains
<1> HIDE DEF l
<1>4. CASE Ends(m, d, ProbeAt(m, d, l))
  <2>1. ~Present(m, ProbeAt(m, d, l))
    BY <1>3, <1>4 DEF Ends, Present
  <2>2. l \in 0 .. l
    BY <1>1, <1>2
  <2>3. QED
    BY <2>1, <2>2 DEF l, FreeProbes
<1>5. CASE l = m.size - 1
  <2>1. PICK i \in Slots(m) : ~Present(m, i)
    <3>1. SUFFICES ASSUME \A i \in Slots(m) : Present(m, i)
                   PROVE  FALSE
      OBVIOUS
    <3>2. Full(m) = 0 .. m.size - 1
      BY <1>1, <3>1 DEF Full
    <3>3. Cardinality(0 .. m.size - 1) = m.size
      <4>1. 0 \in Int /\ m.size - 1 \in Int /\ ~(0 > m.size - 1) /\ m.size - 1 - 0 + 1 = m.size
        BY <1>1
      <4>2. QED
        BY <4>1, FS_Interval
    <3>4. m.cdr = m.size /\ m.cdr < cdrLoadMax(m)
      BY <3>2, <3>3 DEF TableOK, Roomy
    <3>5. QED
      BY <1>1, <3>4, LimitOf
  <2>2. PICK k \in Slots(m) : ProbeAt(m, d, k) = i
    BY <1>1, ProbesAll
  <2>3. k \in 0 .. l
    BY <1>1, <1>5
  <2>4. QED
    BY <2>1, <2>2, <2>3 DEF l, FreeProbes
<1>6. QED
  BY <1>2, <1>4, <1>5

LEMMA FreeForIs ==
  ASSUME HashMapAssumption, NEW m, Table(m), NEW d \in Keys, ~contains(m, d), FreeProbes(m, d) # {}
  PROVE  /\ FreeFor(m, d) \in Slots(m) /\ ~Present(m, FreeFor(m, d))
         /\ \E k \in Slots(m) :
              /\ ProbeAt(m, d, k) = FreeFor(m, d)
              /\ \A j \in 0 .. k - 1 : ProbeAt(m, d, j) # FreeFor(m, d) /\ ~Ends(m, d, ProbeAt(m, d, j))
<1> DEFINE l == LastProbe(m, d)
           k == Min(FreeProbes(m, d))
<1>1. m.size \in Nat \ {0} /\ Slots(m) = 0 .. m.size - 1
  BY TableParts
<1>2. l \in Slots(m) /\ \A j \in 0 .. l - 1 : ~Ends(m, d, ProbeAt(m, d, j))
  BY LastProbeIs
<1>3. FreeProbes(m, d) = {x \in 0 .. l : ~Present(m, ProbeAt(m, d, x))}
  BY DEF FreeProbes
<1>4. FreeFor(m, d) = ProbeAt(m, d, k)
  BY DEF FreeFor
<1> HIDE DEF l
<1>5. FreeProbes(m, d) \in SUBSET Nat
  BY <1>1, <1>2, <1>3
<1>6. k \in FreeProbes(m, d) /\ \A x \in FreeProbes(m, d) : k <= x
  BY <1>5, MinIs
<1> HIDE DEF k
<1>7. k \in 0 .. l /\ ~Present(m, ProbeAt(m, d, k)) /\ k \in Slots(m)
  BY <1>1, <1>2, <1>3, <1>6
<1>8. ASSUME NEW j \in 0 .. k - 1
      PROVE  Present(m, ProbeAt(m, d, j)) /\ ~Ends(m, d, ProbeAt(m, d, j))
  <2>1. j \in 0 .. l /\ j \in 0 .. l - 1 /\ ~(k <= j)
    BY <1>1, <1>2, <1>7
  <2>2. QED
    BY <1>2, <1>3, <1>6, <2>1
<1>9. ProbeAt(m, d, k) \in Slots(m)
  <2>1. k \in Nat
    BY <1>5, <1>6
  <2>2. QED
    BY <2>1, Probe
<1>10. QED
  BY <1>4, <1>7, <1>8, <1>9

\* A new mapping.
LEMMA InsertedOK ==
  ASSUME HashMapAssumption, NEW m, TableOK(m), Roomy(m), NEW d \in Keys, NEW r \in Values, ~contains(m, d),
         NEW m2, m2 = Inserted(m, d, r)
  PROVE  /\ TableOK(m2) /\ m2.size = m.size /\ m2.cdr = m.cdr + 1
         /\ \A e \in Keys, q \in Values : Has(m2, e, q) <=> (e = d /\ q = r) \/ Has(m, e, q)
         /\ \A q \in Values : ~Has(m, d, q)
<1> DEFINE i == FreeFor(m, d)
           s == Mapping(d, r)
<1>1. Table(m) /\ Found(m) /\ m.cdr = Cardinality(Full(m))
  BY DEF TableOK
<1>2. FreeProbes(m, d) # {}
  BY SlotIsFree
<1>3. /\ i \in Slots(m) /\ ~Present(m, i)
      /\ \E k \in Slots(m) : /\ ProbeAt(m, d, k) = i
                             /\ \A j \in 0 .. k - 1 : ProbeAt(m, d, j) # i /\ ~Ends(m, d, ProbeAt(m, d, j))
  BY <1>1, <1>2, FreeForIs
<1>4. s \in SlotOK /\ s.state = "present" /\ s.d = d /\ s.r = r
  BY Kinds, MappingFields
<1>5. m2 = SetSlot(m, i, s, m.cdr + 1)
  <2>1. m = [size |-> m.size, slot |-> m.slot, cdr |-> m.cdr] /\ m.slot \in [Slots(m) -> SlotOK]
    BY <1>1, TableParts
  <2> DEFINE t == [m.slot EXCEPT ![i] = s]
  <2>2. Filled(m, i, d, r) = [m EXCEPT !.slot = t]
    BY DEF Filled, Mapping
  <2>3. m2 = [size |-> m.size, slot |-> t, cdr |-> m.cdr + 1]
    BY <2>1, <2>2 DEF Inserted
  <2>4. t = [j \in Slots(m) |-> IF j = i THEN s ELSE m.slot[j]]
    BY <2>1
  <2>5. QED
    BY <2>3, <2>4 DEF SetSlot
<1> HIDE DEF i, s
<1>6. m.cdr \in Nat /\ m.cdr + 1 \in Nat
  BY <1>1, TableParts
<1>7. \A j \in Slots(m) : ~Holds(m, j, d)
  BY <1>1, HeldIsFound
<1>8. Table(m2) /\ m2.size = m.size /\ m2.cdr = m.cdr + 1
  BY <1>1, <1>3, <1>4, <1>5, <1>6, SetParts
<1>9. Found(m2)
  BY <1>1, <1>3, <1>4, <1>5, <1>6, <1>7, SetFound
<1>10. Cardinality(Full(m2)) = Cardinality(Full(m)) + 1
  BY <1>1, <1>3, <1>4, <1>5, <1>6, SetFull
<1>11. \A q \in Values : ~Has(m, d, q)
  BY <1>1, <1>7, HasHeld
<1>12. ASSUME NEW e \in Keys, NEW q \in Values
       PROVE  Has(m2, e, q) <=> (e = d /\ q = r) \/ Has(m, e, q)
  <2>1. Has(m2, e, q) <=> s = Mapping(e, q) \/ \E j \in Slots(m) : j # i /\ m.slot[j] = Mapping(e, q)
    BY <1>1, <1>3, <1>4, <1>5, <1>6, HasSet
  <2>2. s = Mapping(e, q) <=> e = d /\ q = r
    BY <1>4, MappingFields DEF s
  <2>3. m.slot[i] # Mapping(e, q)
    BY <1>3, MappingFields DEF Present
  <2>4. QED
    BY <2>1, <2>2, <2>3 DEF Has
<1>13. QED
  BY <1>1, <1>8, <1>9, <1>10, <1>11, <1>12 DEF TableOK

\* A mapping's new value.
LEMMA FilledOK ==
  ASSUME HashMapAssumption, NEW m, TableOK(m), NEW d \in Keys, NEW r \in Values, contains(m, d),
         NEW m2, m2 = Filled(m, IndexOf(m, d), d, r)
  PROVE  /\ TableOK(m2) /\ m2.size = m.size /\ m2.cdr = m.cdr /\ Full(m2) = Full(m)
         /\ \A i \in Full(m) : m2.slot[i].d = m.slot[i].d
         /\ \A e \in Keys, q \in Values : Has(m2, e, q) <=> (e = d /\ q = r) \/ (e # d /\ Has(m, e, q))
<1> DEFINE i == IndexOf(m, d)
           s == Mapping(d, r)
           k == LastProbe(m, d)
<1>1. Table(m) /\ Found(m) /\ m.cdr = Cardinality(Full(m)) /\ m.cdr \in Nat
  BY TableParts DEF TableOK
<1>2. k \in Slots(m) /\ Reaches(m, d, k) /\ i = ProbeAt(m, d, k) /\ i \in Slots(m) /\ Holds(m, i, d)
  BY <1>1, ContainsReaches
<1>3. s \in SlotOK /\ s.state = "present" /\ s.d = d /\ s.r = r
  BY Kinds, MappingFields
<1>4. m2 = SetSlot(m, i, s, m.cdr)
  <2>1. m = [size |-> m.size, slot |-> m.slot, cdr |-> m.cdr] /\ m.slot \in [Slots(m) -> SlotOK]
    BY <1>1, TableParts
  <2> DEFINE t == [m.slot EXCEPT ![i] = s]
  <2>2. m2 = [m EXCEPT !.slot = t]
    BY DEF Filled, Mapping
  <2>3. m2 = [size |-> m.size, slot |-> t, cdr |-> m.cdr]
    BY <2>1, <2>2
  <2>4. t = [j \in Slots(m) |-> IF j = i THEN s ELSE m.slot[j]]
    BY <2>1
  <2>5. QED
    BY <2>3, <2>4 DEF SetSlot
<1> HIDE DEF i, s, k
<1>5. \A j \in Slots(m) : j # i => ~Holds(m, j, d)
  BY <1>1, HeldIsFound DEF i
<1>6. /\ Table(m2) /\ m2.size = m.size /\ m2.cdr = m.cdr /\ Slots(m2) = Slots(m) /\ m2.slot[i] = s
      /\ \A j \in Slots(m) : j # i => m2.slot[j] = m.slot[j]
  BY <1>1, <1>2, <1>3, <1>4, SetParts
<1>7. \A j \in 0 .. k - 1 : ProbeAt(m, d, j) # i /\ ~Ends(m, d, ProbeAt(m, d, j))
  BY <1>2 DEF Reaches, Ends
<1>8. Found(m2)
  <2>1. \E x \in Slots(m) : /\ ProbeAt(m, d, x) = i
                            /\ \A j \in 0 .. x - 1 : ProbeAt(m, d, j) # i /\ ~Ends(m, d, ProbeAt(m, d, j))
    BY <1>2, <1>7
  <2>2. QED
    BY <1>1, <1>2, <1>3, <1>4, <1>5, <2>1, SetFound
<1>9. Full(m2) = Full(m)
  <2>1. Full(m2) = Full(m) \cup {i}
    BY <1>1, <1>2, <1>3, <1>4, SetFull
  <2>2. i \in Full(m)
    BY <1>2 DEF Holds, Full
  <2>3. QED
    BY <2>1, <2>2
<1>10. \A j \in Full(m) : m2.slot[j].d = m.slot[j].d
  BY <1>2, <1>3, <1>6 DEF Full, Holds
<1>11. ASSUME NEW e \in Keys, NEW q \in Values
       PROVE  Has(m2, e, q) <=> (e = d /\ q = r) \/ (e # d /\ Has(m, e, q))
  <2>1. Has(m2, e, q) <=> s = Mapping(e, q) \/ \E j \in Slots(m) : j # i /\ m.slot[j] = Mapping(e, q)
    BY <1>1, <1>2, <1>3, <1>4, HasSet
  <2>2. s = Mapping(e, q) <=> e = d /\ q = r
    BY <1>3, MappingFields DEF s
  <2>3. \A j \in Slots(m) : m.slot[j] = Mapping(e, q) => Holds(m, j, e)
    BY <1>1, SlotParts
  <2>4. e # d => m.slot[i] # Mapping(e, q)
    BY <1>2, <2>3 DEF Holds
  <2>5. e = d => ~\E j \in Slots(m) : j # i /\ m.slot[j] = Mapping(e, q)
    BY <1>5, <2>3
  <2>6. QED
    BY <2>1, <2>2, <2>4, <2>5 DEF Has
<1>12. QED
  BY <1>1, <1>6, <1>8, <1>9, <1>10, <1>11 DEF TableOK

\* A mapping that goes leaves a tombstone.
LEMMA RemovedOK ==
  ASSUME HashMapAssumption, NEW m, TableOK(m), NEW d \in Keys, contains(m, d),
         NEW m2, m2 = Removed(m, d)
  PROVE  /\ TableOK(m2) /\ m2.size = m.size /\ m2.cdr < m.cdr
         /\ Full(m2) = Full(m) \ {IndexOf(m, d)} /\ Holds(m, IndexOf(m, d), d)
         /\ \A i \in Full(m2) : m2.slot[i] = m.slot[i]
         /\ \A e \in Keys, q \in Values : Has(m2, e, q) <=> e # d /\ Has(m, e, q)
<1> DEFINE i == IndexOf(m, d)
           s == Tombstone
<1>1. Table(m) /\ Found(m) /\ m.cdr = Cardinality(Full(m)) /\ m.cdr \in Nat
  BY TableParts DEF TableOK
<1>2. i \in Slots(m) /\ Holds(m, i, d) /\ Present(m, i)
  BY <1>1, ContainsReaches DEF Holds
<1>3. s \in SlotOK /\ s.state = "deleted"
  BY Kinds
<1>4. IsFiniteSet(Full(m)) /\ Cardinality(Full(m) \ {i}) = m.cdr - 1 /\ m.cdr - 1 \in Nat
  <2>1. i \in Full(m)
    BY <1>2 DEF Full
  <2>2. IsFiniteSet(Full(m))
    BY <1>1, <1>2, <1>3, SetFull
  <2>3. Cardinality(Full(m) \ {i}) = m.cdr - 1
    BY <1>1, <2>1, <2>2, FS_RemoveElement
  <2>4. IsFiniteSet(Full(m) \ {i}) /\ Cardinality(Full(m) \ {i}) \in Nat
    BY <2>2, FS_RemoveElement, FS_CardinalityType
  <2>5. QED
    BY <2>2, <2>3, <2>4
<1>5. m2 = SetSlot(m, i, s, m.cdr - 1)
  <2>1. m = [size |-> m.size, slot |-> m.slot, cdr |-> m.cdr] /\ m.slot \in [Slots(m) -> SlotOK]
    BY <1>1, TableParts
  <2> DEFINE t == [m.slot EXCEPT ![i] = s]
  <2>2. m2 = [m EXCEPT !.slot = t, !.cdr = m.cdr - 1]
    BY DEF Removed
  <2>3. m2 = [size |-> m.size, slot |-> t, cdr |-> m.cdr - 1]
    BY <2>1, <2>2
  <2>4. t = [j \in Slots(m) |-> IF j = i THEN s ELSE m.slot[j]]
    BY <2>1
  <2>5. QED
    BY <2>3, <2>4 DEF SetSlot
<1> HIDE DEF i, s
<1>6. /\ Table(m2) /\ m2.size = m.size /\ m2.cdr = m.cdr - 1 /\ Slots(m2) = Slots(m) /\ m2.slot[i] = s
      /\ \A j \in Slots(m) : j # i => m2.slot[j] = m.slot[j]
  BY <1>1, <1>2, <1>3, <1>4, <1>5, SetParts
<1>7. Found(m2)
  <2>1. s.state # "empty" /\ s.state # "present"
    BY <1>3
  <2>2. QED
    BY <1>1, <1>2, <1>3, <1>4, <1>5, <2>1, SetFound
<1>8. Full(m2) = Full(m) \ {i}
  BY <1>1, <1>2, <1>3, <1>4, <1>5, SetFull
<1>9. \A j \in Full(m2) : m2.slot[j] = m.slot[j]
  BY <1>6, <1>8 DEF Full
<1>10. ASSUME NEW e \in Keys, NEW q \in Values
       PROVE  Has(m2, e, q) <=> e # d /\ Has(m, e, q)
  <2>1. Has(m2, e, q) <=> s = Mapping(e, q) \/ \E j \in Slots(m) : j # i /\ m.slot[j] = Mapping(e, q)
    BY <1>1, <1>2, <1>3, <1>4, <1>5, HasSet
  <2>2. s # Mapping(e, q)
    BY <1>3, MappingFields
  <2>3. \A j \in Slots(m) : m.slot[j] = Mapping(e, q) => Holds(m, j, e)
    BY <1>1, SlotParts
  <2>4. e # d => m.slot[i] # Mapping(e, q)
    BY <1>2, <2>3 DEF Holds
  <2>5. e = d => ~\E j \in Slots(m) : j # i /\ m.slot[j] = Mapping(e, q)
    BY <1>1, <2>3, HeldIsFound DEF i
  <2>6. QED
    BY <2>1, <2>2, <2>4, <2>5 DEF Has
<1>11. QED
  BY <1>1, <1>2, <1>4, <1>6, <1>7, <1>8, <1>9, <1>10 DEF TableOK, i

LEMMA EmptyOK ==
  ASSUME HashMapAssumption, NEW n \in Nat \ {0}
  PROVE  /\ TableOK(EmptyMap(n)) /\ Roomy(EmptyMap(n))
         /\ EmptyMap(n).size = n /\ EmptyMap(n).cdr = 0 /\ Full(EmptyMap(n)) = {}
         /\ \A d, r : ~Has(EmptyMap(n), d, r)
<1> DEFINE m == EmptyMap(n)
<1>1. NoSlot \in SlotOK /\ NoSlot.state = "empty"
  BY Kinds
<1> DEFINE t == [i \in 0 .. n - 1 |-> NoSlot]
<1>2. t \in [0 .. n - 1 -> SlotOK] /\ \A i \in 0 .. n - 1 : t[i] = NoSlot
  BY <1>1
<1>3. m = [size |-> n, slot |-> t, cdr |-> 0]
  BY DEF EmptyMap
<1> HIDE DEF t, m
<1>4. Table(m)
  BY <1>2, <1>3 DEF Table
<1>5. m.size = n /\ m.cdr = 0 /\ Slots(m) = 0 .. n - 1 /\ \A i \in Slots(m) : m.slot[i] = NoSlot
  BY <1>2, <1>3 DEF Slots
<1>6. \A i \in Slots(m) : ~Present(m, i)
  BY <1>1, <1>5 DEF Present
<1>7. Full(m) = {} /\ Cardinality(Full(m)) = 0
  BY <1>6, FS_EmptySet DEF Full
<1>8. Found(m)
  BY <1>6 DEF Found
<1>9. \A d, r : ~Has(m, d, r)
  BY <1>6, MappingFields DEF Has, Present
<1>10. Roomy(m)
  BY <1>4, <1>5, LimitOf DEF Roomy
<1>11. QED
  BY <1>4, <1>5, <1>7, <1>8, <1>9, <1>10 DEF TableOK, m

-----------------------------------------------------------------------------
(* Growth.                                                                 *)

\* The second map has the mappings of the first n slots.
Below(m, n) == {i \in Full(m) : i < n}
Partial(m, n, t) ==
  /\ TableOK(t) /\ t.size = 2 * cdrLoadMax(m) /\ t.cdr = Cardinality(Below(m, n))
  /\ \A d \in Keys, r \in Values :
       Has(t, d, r) <=> \E j \in Slots(m) : j < n /\ m.slot[j] = Mapping(d, r)

LEMMA FiniteFull ==
  ASSUME NEW m, Table(m)
  PROVE  IsFiniteSet(Full(m)) /\ Full(m) \subseteq Slots(m)
<1>1. m.size \in Nat /\ Slots(m) = 0 .. m.size - 1
  BY TableParts
<1>2. 0 \in Int /\ m.size - 1 \in Int
  BY <1>1
<1>3. IsFiniteSet(Slots(m))
  BY <1>1, <1>2, FS_Interval
<1>4. QED
  BY <1>3, FS_Subset DEF Full

LEMMA NewIsRoomy ==
  ASSUME NEW m, TableOK(m), m.cdr <= cdrLoadMax(m), NEW n \in Nat, NEW t, Partial(m, n, t)
  PROVE  Roomy(t)
<1>1. Table(m) /\ m.cdr = Cardinality(Full(m)) /\ m.cdr \in Nat
  BY TableParts DEF TableOK
<1>2. t.cdr = Cardinality(Below(m, n)) /\ Table(t) /\ t.size = 2 * cdrLoadMax(m) /\ t.cdr \in Nat
  BY TableParts DEF Partial, TableOK
<1>3. t.cdr <= m.cdr
  BY <1>1, <1>2, FiniteFull, FS_Subset DEF Below
<1> DEFINE x == cdrLoadMax(m)
<1>4. x \in Nat \ {0} /\ m.cdr <= x
  BY <1>1, LimitOf
<1>5. cdrLoadMax(t) = ((2 * x) * 2) \div 3 + 1
  BY <1>2 DEF cdrLoadMax
<1> HIDE DEF x
<1>6. x < ((2 * x) * 2) \div 3 + 1
  BY <1>4, RoomInNew
<1>7. ((2 * x) * 2) \div 3 + 1 \in Nat
  BY <1>4
<1>8. QED
  BY <1>1, <1>2, <1>3, <1>4, <1>5, <1>6, <1>7 DEF Roomy

LEMMA MovedOK ==
  ASSUME HashMapAssumption, NEW m, TableOK(m), m.cdr <= cdrLoadMax(m), NEW n \in Nat, n < m.size,
         NEW t, Partial(m, n, t)
  PROVE  Partial(m, n + 1, Moved(m, n, t))
<1>1. Table(m) /\ Found(m) /\ Slots(m) = 0 .. m.size - 1 /\ m.size \in Nat
  BY TableParts DEF TableOK
<1>2. n \in Slots(m) /\ \A j \in Slots(m) : j < n + 1 <=> j < n \/ j = n
  BY <1>1
<1>3. /\ TableOK(t) /\ t.size = 2 * cdrLoadMax(m) /\ t.cdr = Cardinality(Below(m, n))
      /\ \A e \in Keys, q \in Values :
           Has(t, e, q) <=> \E j \in Slots(m) : j < n /\ m.slot[j] = Mapping(e, q)
  BY DEF Partial
<1>4. CASE ~Present(m, n)
  <2>1. Moved(m, n, t) = t
    BY <1>4 DEF Moved
  <2>2. Below(m, n + 1) = Below(m, n)
    BY <1>2, <1>4 DEF Below, Full
  <2>3. \A e, q : m.slot[n] # Mapping(e, q)
    BY <1>4, MappingFields DEF Present
  <2>4. \A e \in Keys, q \in Values :
          Has(t, e, q) <=> \E j \in Slots(m) : j < n + 1 /\ m.slot[j] = Mapping(e, q)
    BY <1>2, <1>3, <2>3
  <2>5. QED
    BY <1>3, <2>1, <2>2, <2>4 DEF Partial
<1>5. CASE Present(m, n)
  <2> DEFINE d == m.slot[n].d
             r == m.slot[n].r
             t2 == Inserted(t, d, r)
  <2>1. d \in Keys /\ r \in Values /\ m.slot[n] = Mapping(d, r) /\ Holds(m, n, d)
    BY <1>1, <1>2, <1>5, SlotParts DEF Holds
  <2>2. Moved(m, n, t) = t2
    BY <1>5 DEF Moved
  <2> HIDE DEF d, r, t2
  <2>3. ~contains(t, d)
    <3>1. SUFFICES ASSUME contains(t, d)
                   PROVE  FALSE
      OBVIOUS
    <3>2. Table(t)
      BY <1>3 DEF TableOK
    <3>3. PICK i \in Slots(t) : Holds(t, i, d)
      BY <2>1, <3>1, <3>2, ContainsReaches
    <3> DEFINE q == t.slot[i].r
    <3>4. q \in Values /\ t.slot[i] = Mapping(d, q)
      BY <3>2, <3>3, SlotParts DEF Holds
    <3>5. Has(t, d, q)
      BY <3>4 DEF Has
    <3>6. PICK j \in Slots(m) : j < n /\ m.slot[j] = Mapping(d, q)
      BY <1>3, <2>1, <3>4, <3>5
    <3>7. Holds(m, j, d)
      BY <1>1, <3>6, SlotParts
    <3>8. j = n
      BY <1>1, <1>2, <2>1, <3>7, HeldIsFound
    <3>9. QED
      BY <3>6, <3>8
  <2>4. Roomy(t)
    BY NewIsRoomy
  <2>5. /\ TableOK(t2) /\ t2.size = t.size /\ t2.cdr = t.cdr + 1
        /\ \A e \in Keys, q \in Values : Has(t2, e, q) <=> (e = d /\ q = r) \/ Has(t, e, q)
    BY <1>3, <2>1, <2>3, <2>4, InsertedOK DEF t2
  <2>6. t2.cdr = Cardinality(Below(m, n + 1))
    <3>1. Below(m, n + 1) = Below(m, n) \cup {n} /\ n \notin Below(m, n)
      <4>1. Full(m) \subseteq Slots(m) /\ n \in Full(m)
        BY <1>2, <1>5 DEF Full
      <4>2. \A j \in Full(m) : j < n + 1 <=> j < n \/ j = n
        BY <1>2, <4>1
      <4>3. n < n + 1 /\ ~(n < n)
        OBVIOUS
      <4>4. QED
        BY <4>1, <4>2, <4>3 DEF Below
    <3>2. IsFiniteSet(Below(m, n))
      BY <1>1, FiniteFull, FS_Subset DEF Below
    <3>3. QED
      BY <1>3, <2>5, <3>1, <3>2, FS_AddElement
  <2>7. ASSUME NEW e \in Keys, NEW q \in Values
        PROVE  Has(t2, e, q) <=> \E j \in Slots(m) : j < n + 1 /\ m.slot[j] = Mapping(e, q)
    <3>1. m.slot[n] = Mapping(e, q) <=> e = d /\ q = r
      BY <2>1, MappingFields
    <3>2. QED
      BY <1>2, <1>3, <2>5, <3>1
  <2>8. QED
    BY <1>3, <2>2, <2>5, <2>6, <2>7 DEF Partial
<1>6. QED
  BY <1>4, <1>5

\* The function that Rehashed names.
Moves(m, n, g) ==
  g = [k \in 0 .. n |-> IF k = 0 THEN EmptyMap(2 * cdrLoadMax(m)) ELSE Moved(m, k - 1, g[k - 1])]

LEMMA MovesExist ==
  ASSUME NEW m, NEW n \in Nat
  PROVE  \E g : Moves(m, n, g)
<1> DEFINE T == {k \in Nat : ~\E g : Moves(m, k, g)}
<1>1. SUFFICES ASSUME T # {}
               PROVE  FALSE
  OBVIOUS
<1>2. PICK x \in T : \A y \in T : x <= y
  BY <1>1, LeastIn
<1>3. x # 0
  <2> DEFINE g == [k \in 0 .. 0 |-> EmptyMap(2 * cdrLoadMax(m))]
  <2>1. g = [k \in 0 .. 0 |-> IF k = 0 THEN EmptyMap(2 * cdrLoadMax(m)) ELSE Moved(m, k - 1, g[k - 1])]
    BY \A k \in 0 .. 0 : k = 0
  <2>2. Moves(m, 0, g)
    BY <2>1 DEF Moves
  <2>3. QED
    BY <2>2
<1>4. x - 1 \in Nat /\ x - 1 \notin T
  BY <1>2, <1>3
<1>5. PICK g : Moves(m, x - 1, g)
  BY <1>4
<1> DEFINE h == [k \in 0 .. x |-> IF k = x THEN Moved(m, x - 1, g[x - 1]) ELSE g[k]]
<1>6. \A k \in 0 .. x : h[k] = IF k = 0 THEN EmptyMap(2 * cdrLoadMax(m)) ELSE Moved(m, k - 1, h[k - 1])
  <2>1. ASSUME NEW k \in 0 .. x, k # x
        PROVE  /\ k \in 0 .. x - 1 /\ h[k] = g[k]
               /\ k # 0 => k - 1 \in 0 .. x - 1 /\ k - 1 \in 0 .. x /\ h[k - 1] = g[k - 1]
    BY <1>4, <2>1
  <2>2. \A k \in 0 .. x - 1 :
          g[k] = IF k = 0 THEN EmptyMap(2 * cdrLoadMax(m)) ELSE Moved(m, k - 1, g[k - 1])
    BY <1>5 DEF Moves
  <2>3. x \in 0 .. x /\ x - 1 \in 0 .. x /\ x - 1 # x
    BY <1>3, <1>4
  <2>4. h[x] = Moved(m, x - 1, g[x - 1]) /\ h[x - 1] = g[x - 1]
    BY <2>3
  <2> HIDE DEF h
  <2>5. QED
    BY <1>3, <2>1, <2>2, <2>4
<1>7. Moves(m, x, h)
  <2>1. h = [k \in 0 .. x |-> h[k]]
    OBVIOUS
  <2> HIDE DEF h
  <2>2. QED
    BY <1>6, <2>1 DEF Moves
<1>8. QED
  BY <1>2, <1>7

LEMMA RehashedIs ==
  ASSUME NEW m
  PROVE  Rehashed(m) = (CHOOSE g : Moves(m, m.size, g))[m.size]
BY Zenon DEF Rehashed, Moves

LEMMA RehashedOK ==
  ASSUME HashMapAssumption, NEW m, TableOK(m), m.cdr <= cdrLoadMax(m),
         NEW m2, m2 = Rehashed(m)
  PROVE  /\ TableOK(m2) /\ Roomy(m2)
         /\ \A d \in Keys, r \in Values : Has(m2, d, r) <=> Has(m, d, r)
<1> DEFINE new == CHOOSE g : Moves(m, m.size, g)
           x == cdrLoadMax(m)
<1>1. m.size \in Nat /\ Slots(m) = 0 .. m.size - 1 /\ Table(m)
  BY TableParts DEF TableOK
<1>2. Moves(m, m.size, new)
  BY <1>1, MovesExist
<1>3. m2 = new[m.size]
  BY RehashedIs
<1> HIDE DEF new
<1>4. \A k \in 0 .. m.size : new[k] = IF k = 0 THEN EmptyMap(2 * x) ELSE Moved(m, k - 1, new[k - 1])
  BY <1>2 DEF Moves
<1>5. x \in Nat \ {0}
  BY <1>1, LimitOf
<1> HIDE DEF x
<1>6. Partial(m, 0, new[0])
  <2>1. 0 \in 0 .. m.size /\ 2 * x \in Nat \ {0}
    BY <1>1, <1>5
  <2>2. new[0] = EmptyMap(2 * x)
    BY <1>4, <2>1
  <2>3. Below(m, 0) = {} /\ \A j \in Slots(m) : ~(j < 0)
    BY <1>1 DEF Below, Full
  <2>4. Cardinality(Below(m, 0)) = 0
    BY <2>3, FS_EmptySet
  <2>5. TableOK(new[0]) /\ new[0].size = 2 * x /\ new[0].cdr = 0 /\ \A d, r : ~Has(new[0], d, r)
    BY <2>1, <2>2, EmptyOK
  <2>6. QED
    BY <2>3, <2>4, <2>5 DEF Partial, x
<1>7. Partial(m, m.size, new[m.size])
  <2> DEFINE T == {k \in 0 .. m.size : ~Partial(m, k, new[k])}
  <2>1. SUFFICES ASSUME T # {}
                 PROVE  FALSE
    BY <1>1
  <2>2. T \in SUBSET Nat
    BY <1>1
  <2>3. PICK k \in T : \A y \in T : k <= y
    BY <2>1, <2>2, LeastIn
  <2>4. k # 0 /\ k \in 0 .. m.size
    BY <1>6, <2>3
  <2>5. k - 1 \in Nat /\ k - 1 < m.size /\ k - 1 \in 0 .. m.size /\ ~(k <= k - 1) /\ (k - 1) + 1 = k
    BY <1>1, <2>4
  <2>6. Partial(m, k - 1, new[k - 1])
    BY <2>3, <2>5
  <2>7. Partial(m, (k - 1) + 1, Moved(m, k - 1, new[k - 1]))
    BY <2>5, <2>6, MovedOK
  <2>8. new[k] = Moved(m, k - 1, new[k - 1])
    BY <1>4, <2>4
  <2>9. QED
    BY <2>3, <2>5, <2>7, <2>8
<1>8. Roomy(m2)
  BY <1>1, <1>3, <1>7, NewIsRoomy
<1>9. \A j \in Slots(m) : j < m.size
  BY <1>1
<1>10. QED
  BY <1>3, <1>7, <1>8, <1>9 DEF Partial, Has

-----------------------------------------------------------------------------
(* The calls on a table.                                                   *)

LEMMA AddedOK ==
  ASSUME HashMapAssumption, NEW m, TableOK(m), Roomy(m), NEW d \in Keys, NEW r \in Values,
         NEW m2, m2 = Added(m, d, r)
  PROVE  /\ TableOK(m2) /\ Roomy(m2)
         /\ \A e \in Keys, q \in Values : Has(m2, e, q) <=> (e = d /\ q = r) \/ (e # d /\ Has(m, e, q))
         /\ contains(m, d) =>
              m2.size = m.size /\ Full(m2) = Full(m) /\ \A i \in Full(m) : m2.slot[i].d = m.slot[i].d
<1>1. CASE contains(m, d)
  <2>1. m2 = Filled(m, IndexOf(m, d), d, r)
    BY <1>1 DEF Added
  <2>2. /\ TableOK(m2) /\ m2.size = m.size /\ m2.cdr = m.cdr /\ Full(m2) = Full(m)
        /\ \A i \in Full(m) : m2.slot[i].d = m.slot[i].d
        /\ \A e \in Keys, q \in Values : Has(m2, e, q) <=> (e = d /\ q = r) \/ (e # d /\ Has(m, e, q))
    BY <1>1, <2>1, FilledOK
  <2>3. Roomy(m2)
    BY <2>2 DEF Roomy, cdrLoadMax
  <2>4. QED
    BY <2>2, <2>3
<1>2. CASE ~contains(m, d)
  <2> DEFINE t == Inserted(m, d, r)
  <2>1. /\ TableOK(t) /\ t.size = m.size /\ t.cdr = m.cdr + 1
        /\ \A e \in Keys, q \in Values : Has(t, e, q) <=> (e = d /\ q = r) \/ Has(m, e, q)
        /\ \A q \in Values : ~Has(m, d, q)
    BY <1>2, InsertedOK
  <2>2. m2 = IF t.cdr >= cdrLoadMax(t) THEN Rehashed(t) ELSE t
    BY <1>2 DEF Added, grow
  <2> HIDE DEF t
  <2>3. \A e \in Keys, q \in Values : Has(t, e, q) <=> (e = d /\ q = r) \/ (e # d /\ Has(m, e, q))
    BY <2>1
  <2>4. cdrLoadMax(t) = cdrLoadMax(m) /\ m.cdr < cdrLoadMax(m)
    BY <2>1 DEF Roomy, cdrLoadMax
  <2>5. m.cdr \in Nat /\ t.cdr \in Nat /\ cdrLoadMax(m) \in Nat
    BY <2>1, TableParts, LimitOf DEF TableOK
  <2>6. CASE t.cdr >= cdrLoadMax(t)
    <3>1. m2 = Rehashed(t) /\ t.cdr <= cdrLoadMax(t)
      BY <2>1, <2>2, <2>4, <2>5, <2>6
    <3>2. /\ TableOK(m2) /\ Roomy(m2)
          /\ \A e \in Keys, q \in Values : Has(m2, e, q) <=> Has(t, e, q)
      BY <2>1, <3>1, RehashedOK
    <3>3. QED
      BY <1>2, <2>3, <3>2
  <2>7. CASE ~(t.cdr >= cdrLoadMax(t))
    <3>1. m2 = t /\ t.cdr < cdrLoadMax(t)
      BY <2>2, <2>4, <2>5, <2>7
    <3>2. QED
      BY <1>2, <2>1, <2>3, <3>1 DEF Roomy
  <2>8. QED
    BY <2>6, <2>7
<1>3. QED
  BY <1>1, <1>2

\* Among the present slots no two have one rank.
LEMMA RankIsOf ==
  ASSUME NEW F \in SUBSET Nat, IsFiniteSet(F), NEW i \in F
  PROVE  /\ Rank(F, i) \in 1 .. Cardinality(F)
         /\ \A j \in F : Rank(F, j) = Rank(F, i) => j = i
<1>1. ASSUME NEW j \in F
      PROVE  /\ IsFiniteSet({k \in F : k <= j}) /\ Rank(F, j) \in Nat
             /\ Rank(F, j) <= Cardinality(F) /\ Rank(F, j) # 0
  <2>1. IsFiniteSet({k \in F : k <= j}) /\ Cardinality({k \in F : k <= j}) <= Cardinality(F)
    BY FS_Subset
  <2>2. j \in {k \in F : k <= j}
    OBVIOUS
  <2>3. QED
    BY <2>1, <2>2, FS_CardinalityType, FS_EmptySet DEF Rank
<1>2. ASSUME NEW j \in F, NEW k \in F, j < k
      PROVE  Rank(F, j) # Rank(F, k)
  <2> DEFINE J == {x \in F : x <= j}
             K == {x \in F : x <= k}
  <2>1. J \in SUBSET K /\ k \in K /\ k \notin J
    <3>1. j \in Nat /\ k \in Nat /\ \A x \in F : x \in Nat
      OBVIOUS
    <3>2. (\A x \in F : x <= j => x <= k) /\ k <= k /\ ~(k <= j)
      BY <1>2, <3>1
    <3>3. QED
      BY <3>2
  <2>2. IsFiniteSet(K)
    BY FS_Subset
  <2>4. Cardinality(J) = Rank(F, j) /\ Cardinality(K) = Rank(F, k)
    BY DEF Rank
  <2> HIDE DEF J, K
  <2>5. Cardinality(K) = Cardinality(J) => K = J
    BY <2>1, <2>2, FS_Subset
  <2>3. QED
    BY <2>1, <2>4, <2>5
<1>3. Cardinality(F) \in Nat
  BY FS_CardinalityType
<1>4. ASSUME NEW j \in F, Rank(F, j) = Rank(F, i)
      PROVE  j = i
  <2>1. j \in Nat /\ i \in Nat
    OBVIOUS
  <2>2. ~(j < i) /\ ~(i < j)
    BY <1>2, <1>4
  <2>3. QED
    BY <2>1, <2>2
<1>5. Rank(F, i) \in 1 .. Cardinality(F)
  <2>1. Rank(F, i) \in Nat /\ Rank(F, i) <= Cardinality(F) /\ Rank(F, i) # 0
    BY <1>1
  <2>2. QED
    BY <1>3, <2>1
<1>6. QED
  BY <1>4, <1>5

\* What is saved and reloaded is the map that was.
LEMMA ReloadedIs ==
  ASSUME HashMapAssumption, NEW m, Table(m)
  PROVE  Reloaded(Saved(m)) = m
<1> DEFINE F == Full(m)
           b == Saved(m)
           t == [i \in 0 .. b.size - 1 |->
                   IF i \in b.isetPresent THEN b.pairs[Rank(b.isetPresent, i)]
                   ELSE IF i \in b.isetDeleted THEN Tombstone ELSE NoSlot]
<1>1. /\ m = [size |-> m.size, slot |-> m.slot, cdr |-> m.cdr] /\ Slots(m) = 0 .. m.size - 1
      /\ m.slot \in [Slots(m) -> SlotOK] /\ Slots(m) \subseteq Nat
  BY TableParts
<1>2. /\ b.size = m.size /\ b.cdr = m.cdr /\ b.isetPresent = F
      /\ b.isetDeleted = {i \in Slots(m) : m.slot[i].state = "deleted"}
      /\ b.pairs = [k \in 1 .. Cardinality(F) |-> m.slot[CHOOSE i \in F : Rank(F, i) = k]]
  BY DEF Saved
<1>3. Reloaded(b) = [size |-> b.size, cdr |-> b.cdr, slot |-> t]
  BY DEF Reloaded, DeletedIn
<1>4. F \in SUBSET Nat /\ IsFiniteSet(F)
  BY <1>1, FiniteFull
<1>5. \A i \in Slots(m) : i \in F <=> m.slot[i].state = "present"
  BY DEF Full, Present
<1> HIDE DEF F, b
<1>6. ASSUME NEW i \in Slots(m)
      PROVE  t[i] = m.slot[i]
  <2>1. t[i] = IF i \in F THEN b.pairs[Rank(F, i)]
               ELSE IF m.slot[i].state = "deleted" THEN Tombstone ELSE NoSlot
    BY <1>1, <1>2
  <2> HIDE DEF t
  <2>2. m.slot[i] \in SlotOK
    BY <1>1
  <2>3. CASE i \in F
    <3>1. Rank(F, i) \in 1 .. Cardinality(F) /\ \A j \in F : Rank(F, j) = Rank(F, i) => j = i
      BY <1>4, <2>3, RankIsOf
    <3>2. (CHOOSE j \in F : Rank(F, j) = Rank(F, i)) = i
      BY <2>3, <3>1
    <3>3. b.pairs[Rank(F, i)] = m.slot[CHOOSE j \in F : Rank(F, j) = Rank(F, i)]
      BY <1>2, <3>1
    <3>4. QED
      BY <2>1, <2>3, <3>2, <3>3
  <2>4. CASE i \notin F
    BY <1>5, <2>1, <2>2, <2>4, Kinds
  <2>5. QED
    BY <2>3, <2>4
<1>7. t = m.slot
  <2>1. t = [i \in Slots(m) |-> t[i]]
    BY <1>1, <1>2
  <2> HIDE DEF t
  <2>2. m.slot = [i \in Slots(m) |-> m.slot[i]]
    BY <1>1
  <2>3. QED
    BY <1>6, <2>1, <2>2
<1>8. QED
  BY <1>1, <1>2, <1>3, <1>7 DEF b

-----------------------------------------------------------------------------
(* The dictionary that a table is.                                         *)

LEMMA DictIs ==
  ASSUME HashMapAssumption, NEW m, TableOK(m), NEW d \in Keys
  PROVE  /\ contains(m, d) <=> \E r \in Values : Has(m, d, r)
         /\ contains(m, d) => m.slot[IndexOf(m, d)].r \in Values /\ Has(m, d, m.slot[IndexOf(m, d)].r)
         /\ \A r \in Values : Has(m, d, r) => r = m.slot[IndexOf(m, d)].r
<1>1. Table(m) /\ Found(m)
  BY DEF TableOK
<1>2. ASSUME contains(m, d)
      PROVE  m.slot[IndexOf(m, d)].r \in Values /\ Has(m, d, m.slot[IndexOf(m, d)].r)
  <2>1. IndexOf(m, d) \in Slots(m) /\ Holds(m, IndexOf(m, d), d)
    BY <1>1, <1>2, ContainsReaches
  <2> DEFINE i == IndexOf(m, d)
  <2> HIDE DEF i
  <2>2. i \in Slots(m) /\ Present(m, i) /\ m.slot[i].d = d
    BY <2>1 DEF i, Holds
  <2>3. m.slot[i].r \in Values /\ m.slot[i] = Mapping(d, m.slot[i].r)
    BY <1>1, <2>2, SlotParts
  <2>4. QED
    BY <2>2, <2>3 DEF Has, i
<1>3. ASSUME NEW r \in Values, Has(m, d, r)
      PROVE  contains(m, d) /\ r = m.slot[IndexOf(m, d)].r
  BY <1>1, <1>3, HasHeld, HeldIsFound
<1>4. QED
  BY <1>2, <1>3

LEMMA DictOf ==
  ASSUME NEW m
  PROVE  /\ ToDict(m) = [d \in DOMAIN ToDict(m) |-> ToDict(m)[d]]
         /\ DOMAIN ToDict(m) = {d \in Keys : contains(m, d)}
         /\ \A d \in DOMAIN ToDict(m) : ToDict(m)[d] = m.slot[IndexOf(m, d)].r
BY DEF ToDict

\* A table with one mapping set or gone, and what the dictionary becomes.
Adds(m, m2, d, r) ==
  \A e \in Keys, q \in Values : Has(m2, e, q) <=> (e = d /\ q = r) \/ (e # d /\ Has(m, e, q))
Drops(m, m2, d) == \A e \in Keys, q \in Values : Has(m2, e, q) <=> e # d /\ Has(m, e, q)

WithKey(f, d, r) == [k \in DOMAIN f \cup {d} |-> IF k = d THEN r ELSE f[k]]
WithoutKey(f, d) == [k \in DOMAIN f \ {d} |-> f[k]]

LEMMA DictAdded ==
  ASSUME HashMapAssumption, NEW m, TableOK(m), NEW m2, TableOK(m2), NEW d \in Keys, NEW r \in Values,
         Adds(m, m2, d, r)
  PROVE  ToDict(m2) = WithKey(ToDict(m), d, r)
<1> DEFINE f == ToDict(m)
           g == ToDict(m2)
<1>1. /\ DOMAIN f = {e \in Keys : contains(m, e)} /\ \A e \in DOMAIN f : f[e] = m.slot[IndexOf(m, e)].r
      /\ DOMAIN g = {e \in Keys : contains(m2, e)} /\ \A e \in DOMAIN g : g[e] = m2.slot[IndexOf(m2, e)].r
      /\ g = [e \in DOMAIN g |-> g[e]]
  BY DictOf
<1> HIDE DEF f, g
<1>8. \A e \in Keys, q \in Values : Has(m2, e, q) <=> (e = d /\ q = r) \/ (e # d /\ Has(m, e, q))
  BY DEF Adds
<1>2. Has(m2, d, r)
  BY <1>8
<1>3. d \in DOMAIN g /\ g[d] = r
  BY <1>1, <1>2, DictIs
<1>4. ASSUME NEW e \in Keys, e # d
      PROVE  (e \in DOMAIN g <=> e \in DOMAIN f) /\ (e \in DOMAIN g => g[e] = f[e])
  <2>1. contains(m2, e) <=> contains(m, e)
    BY <1>4, <1>8, DictIs
  <2>2. ASSUME contains(m, e)
        PROVE  m2.slot[IndexOf(m2, e)].r = m.slot[IndexOf(m, e)].r
    <3>1. m.slot[IndexOf(m, e)].r \in Values /\ Has(m, e, m.slot[IndexOf(m, e)].r)
      BY <2>2, DictIs
    <3>2. Has(m2, e, m.slot[IndexOf(m, e)].r)
      BY <1>4, <1>8, <3>1
    <3>3. QED
      BY <3>1, <3>2, DictIs
  <2>3. QED
    BY <1>1, <2>1, <2>2
<1>5. DOMAIN g = DOMAIN f \cup {d}
  BY <1>1, <1>3, <1>4
<1>6. \A e \in DOMAIN g : g[e] = IF e = d THEN r ELSE f[e]
  BY <1>1, <1>3, <1>4
<1>7. QED
  BY <1>1, <1>5, <1>6 DEF f, g, WithKey

LEMMA DictRemoved ==
  ASSUME HashMapAssumption, NEW m, TableOK(m), NEW m2, TableOK(m2), NEW d \in Keys,
         Drops(m, m2, d)
  PROVE  ToDict(m2) = WithoutKey(ToDict(m), d)
<1> DEFINE f == ToDict(m)
           g == ToDict(m2)
<1>1. /\ DOMAIN f = {e \in Keys : contains(m, e)} /\ \A e \in DOMAIN f : f[e] = m.slot[IndexOf(m, e)].r
      /\ DOMAIN g = {e \in Keys : contains(m2, e)} /\ \A e \in DOMAIN g : g[e] = m2.slot[IndexOf(m2, e)].r
      /\ g = [e \in DOMAIN g |-> g[e]]
  BY DictOf
<1> HIDE DEF f, g
<1>7. \A e \in Keys, q \in Values : Has(m2, e, q) <=> e # d /\ Has(m, e, q)
  BY DEF Drops
<1>2. d \notin DOMAIN g
  BY <1>1, <1>7, DictIs
<1>3. ASSUME NEW e \in Keys, e # d
      PROVE  (e \in DOMAIN g <=> e \in DOMAIN f) /\ (e \in DOMAIN g => g[e] = f[e])
  <2>1. contains(m2, e) <=> contains(m, e)
    BY <1>3, <1>7, DictIs
  <2>2. ASSUME contains(m, e)
        PROVE  m2.slot[IndexOf(m2, e)].r = m.slot[IndexOf(m, e)].r
    <3>1. m.slot[IndexOf(m, e)].r \in Values /\ Has(m, e, m.slot[IndexOf(m, e)].r)
      BY <2>2, DictIs
    <3>2. Has(m2, e, m.slot[IndexOf(m, e)].r)
      BY <1>3, <1>7, <3>1
    <3>3. QED
      BY <3>1, <3>2, DictIs
  <2>3. QED
    BY <1>1, <2>1, <2>2
<1>4. DOMAIN g = DOMAIN f \ {d}
  BY <1>1, <1>2, <1>3
<1>5. \A e \in DOMAIN g : g[e] = f[e]
  BY <1>1, <1>2, <1>3
<1>6. QED
  BY <1>1, <1>4, <1>5 DEF f, g, WithoutKey

\* With no mapping there is no key.
LEMMA DictEmpty ==
  ASSUME HashMapAssumption, NEW n \in Nat \ {0}
  PROVE  ToDict(EmptyMap(n)) = <<>>
<1>1. TableOK(EmptyMap(n)) /\ \A d, r : ~Has(EmptyMap(n), d, r)
  BY EmptyOK
<1>2. {k \in Keys : contains(EmptyMap(n), k)} = {}
  BY <1>1, DictIs
<1>3. QED
  BY <1>2 DEF ToDict

-----------------------------------------------------------------------------
(* An enumeration.                                                         *)

KeysAhead(m, i) == {m.slot[j].d : j \in Ahead(m, i)}

LEMMA AheadIs ==
  ASSUME NEW m, NEW i
  PROVE  Ahead(m, i) = {j \in Full(m) : j > i}
BY DEF Ahead, Full

LEMMA OneSlot ==
  ASSUME HashMapAssumption, NEW m, TableOK(m), NEW i \in Full(m), NEW j \in Full(m), m.slot[i].d = m.slot[j].d
  PROVE  i = j
<1> DEFINE d == m.slot[i].d
<1>1. Table(m) /\ Found(m) /\ i \in Slots(m) /\ j \in Slots(m) /\ Present(m, i) /\ Present(m, j)
  BY DEF TableOK, Full
<1>2. d \in Keys /\ Holds(m, i, d) /\ Holds(m, j, d)
  BY <1>1, SlotParts DEF Holds
<1> HIDE DEF d
<1>3. IndexOf(m, d) = i /\ IndexOf(m, d) = j
  BY <1>1, <1>2, HeldIsFound
<1>4. QED
  BY <1>3

LEMMA SameAhead ==
  ASSUME NEW m, NEW m2, Full(m2) = Full(m), \A i \in Full(m) : m2.slot[i].d = m.slot[i].d, NEW k
  PROVE  KeysAhead(m2, k) = KeysAhead(m, k)
<1>1. Ahead(m2, k) = Ahead(m, k) /\ Ahead(m, k) \subseteq Full(m)
  BY AheadIs
<1>2. QED
  BY <1>1 DEF KeysAhead

LEMMA LessAhead ==
  ASSUME HashMapAssumption, NEW m, TableOK(m), NEW d \in Keys, contains(m, d), NEW m2, m2 = Removed(m, d), NEW k
  PROVE  KeysAhead(m2, k) = KeysAhead(m, k) \ {d}
<1> DEFINE i == IndexOf(m, d)
<1>1. Full(m2) = Full(m) \ {i} /\ Holds(m, i, d) /\ \A j \in Full(m2) : m2.slot[j] = m.slot[j]
  BY RemovedOK
<1>2. i \in Full(m) /\ m.slot[i].d = d
  <2>1. i \in Slots(m)
    BY ContainsReaches DEF TableOK
  <2>2. QED
    BY <1>1, <2>1 DEF Full, Holds
<1> HIDE DEF i
<1>3. \A j \in Full(m) : m.slot[j].d = d => j = i
  BY <1>2, OneSlot
<1>4. Ahead(m2, k) = {j \in Full(m2) : j > k} /\ Ahead(m, k) = {j \in Full(m) : j > k}
  BY AheadIs
<1>5. \A j \in Ahead(m2, k) : j \in Ahead(m, k) /\ m2.slot[j].d = m.slot[j].d /\ m.slot[j].d # d
  BY <1>1, <1>3, <1>4
<1>6. \A j \in Ahead(m, k) : m.slot[j].d # d => j \in Ahead(m2, k) /\ m2.slot[j].d = m.slot[j].d
  BY <1>1, <1>2, <1>4
<1>7. QED
  BY <1>5, <1>6 DEF KeysAhead

LEMMA NextAhead ==
  ASSUME HashMapAssumption, NEW m, TableOK(m), NEW k \in Int, Ahead(m, k) # {}, NEW i, i = Min(Ahead(m, k))
  PROVE  /\ i \in Nat /\ i \in Full(m)
         /\ KeysAhead(m, i) = KeysAhead(m, k) \ {m.slot[i].d}
<1>1. Slots(m) \subseteq Nat
  BY TableParts DEF TableOK
<1>2. Ahead(m, k) = {j \in Full(m) : j > k} /\ Ahead(m, i) = {j \in Full(m) : j > i} /\ Full(m) \subseteq Nat
  BY <1>1, AheadIs DEF Full
<1>3. i \in Ahead(m, k) /\ \A j \in Ahead(m, k) : i <= j
  BY <1>2, MinIs
<1>4. i \in Nat /\ i \in Full(m) /\ i > k
  BY <1>2, <1>3
<1>5. \A j \in Full(m) : j > i <=> j > k /\ j # i
  <2>1. ASSUME NEW j \in Full(m)
        PROVE  j > i <=> j > k /\ j # i
    <3>1. j \in Nat
      BY <1>2
    <3>2. j > k => i <= j
      BY <1>2, <1>3
    <3>3. QED
      BY <1>4, <3>1, <3>2
  <2>2. QED
    BY <2>1
<1>6. \A j \in Full(m) : m.slot[j].d = m.slot[i].d => j = i
  BY <1>4, OneSlot
<1>7. \A j \in Ahead(m, i) : j \in Ahead(m, k) /\ m.slot[j].d # m.slot[i].d
  BY <1>2, <1>5, <1>6
<1>8. \A j \in Ahead(m, k) : m.slot[j].d # m.slot[i].d => j \in Ahead(m, i)
  BY <1>2, <1>5
<1>9. QED
  BY <1>4, <1>7, <1>8 DEF KeysAhead

-----------------------------------------------------------------------------
(* The invariant.                                                          *)

LEMMA InitOK ==
  ASSUME HashMapAssumption, Init
  PROVE  IInv
<1>1. 1 \in Nat \ {0} /\ map = EmptyMap(1) /\ enum = NotRunning
  BY DEF Init
<1>2. TableOK(map) /\ Roomy(map)
  BY <1>1, EmptyOK
<1>3. EnumOK
  BY <1>1 DEF EnumOK, EnumFaithful, NotRunning
<1>4. QED
  BY <1>2, <1>3 DEF IInv

\* What a step does to the table, and to the dictionary.
DictStep(m, m2) ==
  \/ \E d \in Keys, r \in Values : ToDict(m2) = WithKey(ToDict(m), d, r)
  \/ \E d \in Keys : ToDict(m2) = WithoutKey(ToDict(m), d)
  \/ ToDict(m2) = <<>>
  \/ ToDict(m2) = ToDict(m)

FaithfulOf(m, e, rs) == e.on => rs = KeysAhead(m, e.i)

LEMMA FaithfulIs ==
  /\ EnumFaithful <=> FaithfulOf(map, enum, rest)
  /\ EnumFaithful' <=> FaithfulOf(map', enum', rest')
BY DEF EnumFaithful, FaithfulOf, KeysAhead, Ahead, Slots, Present

LEMMA InvIs ==
  /\ IInv <=> /\ TableOK(map) /\ Roomy(map) /\ enum \in [on : BOOLEAN, i : Int] /\ -1 <= enum.i
              /\ FaithfulOf(map, enum, rest)
  /\ IInv' <=> /\ TableOK(map') /\ Roomy(map') /\ enum' \in [on : BOOLEAN, i : Int] /\ -1 <= enum'.i
               /\ FaithfulOf(map', enum', rest')
<1>1. TableOK(map') = TableOK(map)' /\ Roomy(map') = Roomy(map)'
  BY DEF TableOK, Table, Found, Reaches, Full, Slots, Present, Holds, Ends, ProbeAt, Roomy, cdrLoadMax
<1>2. QED
  BY <1>1, FaithfulIs DEF IInv, EnumOK

LEMMA StepOK ==
  ASSUME HashMapAssumption, IInv, Next
  PROVE  IInv' /\ DictStep(map, map')
<1>1. /\ TableOK(map) /\ Roomy(map) /\ enum \in [on : BOOLEAN, i : Int] /\ -1 <= enum.i
      /\ FaithfulOf(map, enum, rest)
  BY InvIs
<1>2. SUFFICES /\ TableOK(map') /\ Roomy(map') /\ enum' \in [on : BOOLEAN, i : Int] /\ -1 <= enum'.i
               /\ FaithfulOf(map', enum', rest')
               /\ DictStep(map, map')
  BY InvIs
<1>3. NotRunning \in [on : BOOLEAN, i : Int] /\ -1 <= NotRunning.i /\ NotRunning.on = FALSE
  BY DEF NotRunning
<1>4. \A m, rs : FaithfulOf(m, NotRunning, rs)
  BY <1>3 DEF FaithfulOf
<1>5. ASSUME NEW d \in Keys, NEW r \in Values, add(d, r)
      PROVE  /\ TableOK(map') /\ Roomy(map') /\ enum' \in [on : BOOLEAN, i : Int] /\ -1 <= enum'.i
             /\ FaithfulOf(map', enum', rest')
             /\ DictStep(map, map')
  <2>1. map' = Added(map, d, r) /\ enum' = enum /\ rest' = rest /\ (enum.on => contains(map, d))
    BY <1>5 DEF add
  <2>2. PICK m2 : m2 = map'
    OBVIOUS
  <2>3. /\ TableOK(m2) /\ Roomy(m2)
        /\ Adds(map, m2, d, r)
        /\ contains(map, d) => Full(m2) = Full(map) /\ \A i \in Full(map) : m2.slot[i].d = map.slot[i].d
    BY <1>1, <2>1, <2>2, AddedOK DEF Adds
  <2>4. ToDict(m2) = WithKey(ToDict(map), d, r)
    BY <1>1, <2>3, DictAdded
  <2>5. enum.on => KeysAhead(m2, enum.i) = KeysAhead(map, enum.i)
    BY <2>1, <2>3, SameAhead
  <2>6. FaithfulOf(m2, enum, rest)
    BY <1>1, <2>5 DEF FaithfulOf
  <2>7. QED
    BY <1>1, <2>1, <2>2, <2>3, <2>4, <2>6 DEF DictStep
<1>6. ASSUME NEW d \in Keys, remove(d)
      PROVE  /\ TableOK(map') /\ Roomy(map') /\ enum' \in [on : BOOLEAN, i : Int] /\ -1 <= enum'.i
             /\ FaithfulOf(map', enum', rest')
             /\ DictStep(map, map')
  <2>1. map' = Removed(map, d) /\ enum' = enum /\ rest' = rest \ {d}
    BY <1>6 DEF remove
  <2>2. PICK m2 : m2 = map'
    OBVIOUS
  <2>3. CASE contains(map, d)
    <3>1. /\ TableOK(m2) /\ m2.size = map.size /\ m2.cdr < map.cdr
          /\ Drops(map, m2, d)
      BY <1>1, <2>1, <2>2, <2>3, RemovedOK DEF Drops
    <3>2. Roomy(m2)
      <4>1. cdrLoadMax(m2) = cdrLoadMax(map) /\ map.cdr < cdrLoadMax(map)
        BY <1>1, <3>1 DEF Roomy, cdrLoadMax
      <4>2. m2.cdr \in Nat /\ map.cdr \in Nat /\ cdrLoadMax(map) \in Nat
        BY <1>1, <3>1, TableParts, LimitOf DEF TableOK
      <4>3. QED
        BY <3>1, <4>1, <4>2 DEF Roomy
    <3>3. ToDict(m2) = WithoutKey(ToDict(map), d)
      BY <1>1, <3>1, DictRemoved
    <3>4. KeysAhead(m2, enum.i) = KeysAhead(map, enum.i) \ {d}
      BY <1>1, <2>1, <2>2, <2>3, LessAhead
    <3>5. FaithfulOf(m2, enum, rest \ {d})
      BY <1>1, <3>4 DEF FaithfulOf
    <3>6. QED
      BY <1>1, <2>1, <2>2, <3>1, <3>2, <3>3, <3>5 DEF DictStep
  <2>4. CASE ~contains(map, d)
    <3>1. map' = map
      BY <2>1, <2>4 DEF Removed
    <3>2. d \notin KeysAhead(map, enum.i)
      <4>1. SUFFICES ASSUME NEW j \in Ahead(map, enum.i), map.slot[j].d = d
                     PROVE  FALSE
        BY DEF KeysAhead
      <4>2. j \in Slots(map) /\ Holds(map, j, d)
        BY <4>1 DEF Ahead, Holds
      <4>3. QED
        BY <1>1, <2>4, <4>2, HeldIsFound DEF TableOK
    <3>3. FaithfulOf(map, enum, rest \ {d})
      BY <1>1, <3>2 DEF FaithfulOf
    <3>4. QED
      BY <1>1, <2>1, <3>1, <3>3 DEF DictStep
  <2>5. QED
    BY <2>3, <2>4
<1>7. CASE reset
  <2>1. map' = EmptyMap(1) /\ enum' = NotRunning
    BY <1>7 DEF reset
  <2>2. TableOK(EmptyMap(1)) /\ Roomy(EmptyMap(1)) /\ ToDict(EmptyMap(1)) = <<>>
    BY EmptyOK, DictEmpty
  <2>3. QED
    BY <1>3, <1>4, <2>1, <2>2 DEF DictStep
<1>8. CASE SaveAndReload
  <2>1. map' = map /\ enum' = NotRunning
    BY <1>1, <1>8, ReloadedIs DEF SaveAndReload, TableOK
  <2>2. QED
    BY <1>1, <1>3, <1>4, <2>1 DEF DictStep
<1>9. CASE EnumReset
  <2>1. /\ map' = map /\ enum' = [on |-> TRUE, i |-> -1]
        /\ rest' = {map.slot[j].d : j \in Full(map)}
    BY <1>9 DEF EnumReset
  <2>2. Ahead(map, -1) = Full(map)
    <3>1. \A j \in Full(map) : j \in Nat
      BY <1>1, TableParts DEF TableOK, Full
    <3>2. \A j \in Full(map) : j > -1
      BY <3>1
    <3>3. QED
      BY <3>2, AheadIs
  <2>3. FaithfulOf(map, enum', rest')
    BY <2>1, <2>2 DEF FaithfulOf, KeysAhead
  <2>4. enum' \in [on : BOOLEAN, i : Int] /\ -1 <= enum'.i
    BY <2>1
  <2>5. QED
    BY <1>1, <2>1, <2>3, <2>4 DEF DictStep
<1>10. CASE EnumNext
  <2>1. enum.on /\ map' = map
    BY <1>10 DEF EnumNext
  <2>2. CASE Ahead(map, enum.i) = {}
    <3>1. enum' = NotRunning
      BY <1>10, <2>2 DEF EnumNext
    <3>2. QED
      BY <1>1, <1>3, <1>4, <2>1, <3>1 DEF DictStep
  <2>3. CASE Ahead(map, enum.i) # {}
    <3>1. PICK i : i = Min(Ahead(map, enum.i))
      OBVIOUS
    <3>2. enum' = [enum EXCEPT !.i = i] /\ rest' = rest \ {map.slot[i].d}
      BY <1>10, <2>3, <3>1 DEF EnumNext
    <3>3. enum.i \in Int
      BY <1>1
    <3>4. i \in Nat /\ KeysAhead(map, i) = KeysAhead(map, enum.i) \ {map.slot[i].d}
      BY <1>1, <2>3, <3>1, <3>3, NextAhead
    <3>5. enum' \in [on : BOOLEAN, i : Int] /\ enum'.i = i
      BY <1>1, <3>2, <3>4
    <3>6. FaithfulOf(map, enum', rest')
      BY <1>1, <2>1, <3>2, <3>4, <3>5 DEF FaithfulOf
    <3>7. QED
      BY <1>1, <2>1, <3>4, <3>5, <3>6 DEF DictStep
  <2>4. QED
    BY <2>2, <2>3
<1>11. QED
  BY <1>5, <1>6, <1>7, <1>8, <1>9, <1>10 DEF Next

LEMMA StutterOK ==
  ASSUME IInv, UNCHANGED vars
  PROVE  IInv' /\ map' = map
BY InvIs DEF vars

LEMMA InvRight ==
  ASSUME HashMapAssumption, IInv
  PROVE  MapRight
<1>1. TableOK(map) /\ Roomy(map) /\ EnumFaithful
  BY DEF IInv, EnumOK
<1>2. FullInvariants
  BY <1>1, SlotIsFree DEF FullInvariants, TableOK, Roomy
<1>3. OneSlotPerKey
  BY <1>1, OneSlot DEF OneSlotPerKey, Full
<1>4. QED
  BY <1>1, <1>2, <1>3 DEF MapRight

-----------------------------------------------------------------------------
(* The theorems.                                                           *)

\* In every state the inductive invariant holds: every mapping is in the slot where the
\* search for its key ends, and cdr counts the mappings, fewer than the limit.
THEOREM Invariance ==
  ASSUME HashMapAssumption
  PROVE  Spec => []IInv
<1>1. Init => IInv
  BY InitOK
<1>2. IInv /\ [Next]_vars => IInv'
  BY StepOK, StutterOK
<1>3. QED
  BY <1>1, <1>2, PTL DEF Spec

\* Whatever the keys hash to and in whichever order they come and go: the full slots are
\* those that hold a key, an addition finds room, no key has two slots, and an enumeration
\* has ahead of it just what it has still to return (map.h:321-700).
THEOREM MapIsRight ==
  ASSUME HashMapAssumption
  PROVE  Spec => []MapRight
<1>1. IInv => MapRight
  BY InvRight
<1>2. QED
  BY <1>1, Invariance, PTL

\* The map implements the dictionary: each call changes what find finds as the dictionary's
\* operation says or not at all, over growth, tombstones, saving and reloading.
THEOREM MapIsDictionary ==
  ASSUME HashMapAssumption
  PROVE  Spec => Dict!DictSpec /\ ImplementsDictionary
<1>1. Init => Dict!DictInit
  BY DictEmpty DEF Init, Dict!DictInit
<1>2. ASSUME IInv, [Next]_vars
      PROVE  [Dict!DictNext]_(ToDict(map))
  <2>1. ToDict(map)' = ToDict(map')
    BY DEF ToDict, contains, IndexOf, Holds, Present, ProbeAt, LastProbe, Slots, Ends
  <2>2. CASE Next
    <3>1. DictStep(map, map')
      BY <1>2, <2>2, StepOK
    <3>2. QED
      BY <2>1, <3>1 DEF DictStep, WithKey, WithoutKey, Dict!DictNext, Dict!With, Dict!Without
  <2>3. CASE UNCHANGED vars
    BY <1>2, <2>1, <2>3 DEF vars
  <2>4. QED
    BY <1>2, <2>2, <2>3
<1>3. ASSUME IInv, [Next]_vars
      PROVE  [map' # map => [Dict!DictNext]_(ToDict(map))]_map
  BY <1>2, <1>3
<1>4. QED
  BY <1>1, <1>2, <1>3, Invariance, PTL DEF Spec, ImplementsDictionary, Dict!DictSpec

-----------------------------------------------------------------------------
(* The name map: its tables of indices, whatever the names.                *)

\* t has n slots, for indices up to w's, each of which is there at most once.
IsTable(t, n, N) ==
  /\ n \in Nat \ {0} /\ t \in [0 .. n - 1 -> 0 .. N]
  /\ \A i, j \in 0 .. n - 1 : t[i] = t[j] /\ t[i] # niNil => i = j

SlotAt(h, n, sz, k) == (h[sz] + k) % n

\* The k-th probe for a name finds an index of that name, and no slot before is free.
LeadsIn(h, n, t, w, sz, k) ==
  /\ t[SlotAt(h, n, sz, k)] # niNil /\ w[t[SlotAt(h, n, sz, k)]] = sz
  /\ \A j \in 0 .. k - 1 : t[SlotAt(h, n, sz, j)] # niNil

Leads(h, n, t, w, sz) == \E k \in 0 .. n - 1 : LeadsIn(h, n, t, w, sz, k)

LEMMA SlotAtIs ==
  ASSUME NEW S, NEW h \in [S -> Nat], NEW n \in Nat \ {0}, NEW sz \in S, NEW k \in Nat
  PROVE  SlotAt(h, n, sz, k) \in 0 .. n - 1
<1> DEFINE x == h[sz] + k
<1>1. x \in Nat
  OBVIOUS
<1> HIDE DEF x
<1>2. x % n \in 0 .. n - 1
  BY <1>1
<1>3. QED
  BY <1>2 DEF x, SlotAt

LEMMA SlotsAll ==
  ASSUME NEW S, NEW h \in [S -> Nat], NEW n \in Nat \ {0}, NEW sz \in S, NEW i \in 0 .. n - 1
  PROVE  \E k \in 0 .. n - 1 : SlotAt(h, n, sz, k) = i
<1>1. h[sz] \in Nat
  OBVIOUS
<1>2. \A a \in Nat : \E k \in 0 .. n - 1 : (a + k) % n = i
  BY AllProbed
<1>3. PICK k \in 0 .. n - 1 : (h[sz] + k) % n = i
  BY <1>1, <1>2
<1>4. QED
  BY <1>3 DEF SlotAt

LEMMA SizeIs ==
  ASSUME NEW n \in Nat \ {0}, NEW S, NEW t \in [0 .. n - 1 -> S]
  PROVE  SlotCount(t) = n
<1>1. 0 \in Int /\ n - 1 \in Int
  OBVIOUS
<1>2. Cardinality(0 .. n - 1) = n
  BY <1>1, FS_Interval
<1>3. QED
  BY <1>2 DEF SlotCount

\* A table with fewer indices than slots has a free slot.
LEMMA HasFree ==
  ASSUME NEW n, NEW t, NEW N \in Nat, IsTable(t, n, N), NEW M \in Nat, NIsIn(t) \subseteq 1 .. M, M < n
  PROVE  \E i \in 0 .. n - 1 : t[i] = niNil
<1>1. n \in Nat \ {0} /\ t \in [0 .. n - 1 -> 0 .. N]
      /\ \A i, j \in 0 .. n - 1 : t[i] = t[j] /\ t[i] # niNil => i = j
  BY DEF IsTable
<1>2. SUFFICES ASSUME \A i \in 0 .. n - 1 : t[i] # niNil
               PROVE  FALSE
  OBVIOUS
<1>3. \A i \in 0 .. n - 1 : t[i] \in 1 .. M
  <2>1. \A i \in 0 .. n - 1 : t[i] \in NIsIn(t)
    BY <1>1, <1>2 DEF NIsIn
  <2>2. QED
    BY <2>1
<1>4. t \in [0 .. n - 1 -> 1 .. M]
  BY <1>1, <1>3
<1>5. t \in Injection(0 .. n - 1, 1 .. M)
  BY <1>1, <1>2, <1>4 DEF Injection, IsInjective
<1>6. 0 \in Int /\ 1 \in Int /\ n - 1 \in Int /\ M \in Int
  BY <1>1
<1>7. IsFiniteSet(1 .. M) /\ Cardinality(1 .. M) = M /\ Cardinality(0 .. n - 1) = n
  <2>1. IsFiniteSet(1 .. M) /\ Cardinality(1 .. M) = IF 1 > M THEN 0 ELSE M - 1 + 1
    BY <1>6, FS_Interval
  <2>2. Cardinality(0 .. n - 1) = IF 0 > n - 1 THEN 0 ELSE n - 1 - 0 + 1
    BY <1>6, FS_Interval
  <2>3. QED
    BY <1>1, <2>1, <2>2
<1>8. Cardinality(0 .. n - 1) <= Cardinality(1 .. M)
  BY <1>5, <1>7, FS_Injection
<1>9. QED
  BY <1>1, <1>7, <1>8

\* The first free slot on the way of a name.
FreeAt(h, n, t, sz) == {k \in 0 .. n - 1 : t[SlotAt(h, n, sz, k)] = niNil}

LEMMA FirstFree ==
  ASSUME NEW n, NEW t, NEW N \in Nat, IsTable(t, n, N), \E i \in 0 .. n - 1 : t[i] = niNil,
         NEW S, NEW h \in [S -> Nat], NEW sz \in S
  PROVE  LET k == Min(FreeAt(h, n, t, sz)) IN
         /\ k \in 0 .. n - 1 /\ SlotAt(h, n, sz, k) \in 0 .. n - 1
         /\ t[SlotAt(h, n, sz, k)] = niNil
         /\ \A j \in 0 .. k - 1 : t[SlotAt(h, n, sz, j)] # niNil
<1> DEFINE K == FreeAt(h, n, t, sz)
           k == Min(K)
<1>1. n \in Nat \ {0}
  BY DEF IsTable
<1>2. PICK i \in 0 .. n - 1 : t[i] = niNil
  OBVIOUS
<1>3. PICK x \in 0 .. n - 1 : SlotAt(h, n, sz, x) = i
  BY <1>1, SlotsAll
<1>4. K \in SUBSET Nat /\ x \in K
  BY <1>1, <1>2, <1>3 DEF FreeAt
<1>5. k \in K /\ \A y \in K : k <= y
  BY <1>4, MinIs
<1> HIDE DEF k
<1>6. k \in 0 .. n - 1 /\ t[SlotAt(h, n, sz, k)] = niNil
  BY <1>5 DEF FreeAt
<1>7. \A j \in 0 .. k - 1 : j \in 0 .. n - 1 /\ ~(k <= j)
  BY <1>1, <1>6
<1>8. \A j \in 0 .. k - 1 : t[SlotAt(h, n, sz, j)] # niNil
  BY <1>5, <1>7 DEF FreeAt
<1>9. SlotAt(h, n, sz, k) \in 0 .. n - 1
  BY <1>1, <1>6, SlotAtIs
<1>10. QED
  BY <1>6, <1>8, <1>9 DEF k

\* An index that is put into the first free slot on its way is found there, and
\* what was found before still is.
LEMMA PutIn ==
  ASSUME NEW n, NEW t, NEW N \in Nat, IsTable(t, n, N),
         NEW S, NEW h \in [S -> Nat], NEW w \in [1 .. N -> S],
         NEW ni \in 1 .. N, ni \notin NIsIn(t),
         NEW k \in 0 .. n - 1, t[SlotAt(h, n, w[ni], k)] = niNil,
         \A j \in 0 .. k - 1 : t[SlotAt(h, n, w[ni], j)] # niNil
  PROVE  LET t2 == [t EXCEPT ![SlotAt(h, n, w[ni], k)] = ni] IN
         /\ IsTable(t2, n, N) /\ NIsIn(t2) = NIsIn(t) \cup {ni}
         /\ Leads(h, n, t2, w, w[ni])
         /\ \A sz \in S : Leads(h, n, t, w, sz) => Leads(h, n, t2, w, sz)
<1> DEFINE s == SlotAt(h, n, w[ni], k)
           t2 == [t EXCEPT ![s] = ni]
<1>1. n \in Nat \ {0} /\ t \in [0 .. n - 1 -> 0 .. N]
      /\ \A i, j \in 0 .. n - 1 : t[i] = t[j] /\ t[i] # niNil => i = j
  BY DEF IsTable
<1>2. s \in 0 .. n - 1 /\ k \in Nat /\ w[ni] \in S
  <2>1. k \in Nat /\ w[ni] \in S
    BY <1>1
  <2>2. QED
    BY <1>1, <2>1, SlotAtIs
<1>3. t[s] = niNil /\ ni # niNil /\ ni \in 0 .. N
  BY DEF niNil
<1>4. \A i \in 0 .. n - 1 : t[i] # ni
  BY <1>1, <1>3 DEF NIsIn
<1> HIDE DEF s
<1>5. /\ t2 \in [0 .. n - 1 -> 0 .. N] /\ t2[s] = ni
      /\ \A i \in 0 .. n - 1 : i # s => t2[i] = t[i]
      /\ \A i \in 0 .. n - 1 : t[i] # niNil => t2[i] = t[i]
  BY <1>1, <1>2, <1>3
<1> HIDE DEF t2
<1>6. \A i, j \in 0 .. n - 1 : t2[i] = t2[j] /\ t2[i] # niNil => i = j
  BY <1>1, <1>4, <1>5
<1>7. IsTable(t2, n, N)
  BY <1>1, <1>5, <1>6 DEF IsTable
<1>8. NIsIn(t2) = NIsIn(t) \cup {ni}
  <2>1. DOMAIN t = 0 .. n - 1 /\ DOMAIN t2 = 0 .. n - 1
    BY <1>1, <1>5
  <2>2. \A x : x \in NIsIn(t2) <=> x # niNil /\ \E i \in 0 .. n - 1 : t2[i] = x
    BY <2>1 DEF NIsIn
  <2>3. \A x : x \in NIsIn(t) <=> x # niNil /\ \E i \in 0 .. n - 1 : t[i] = x
    BY <2>1 DEF NIsIn
  <2>4. ASSUME NEW x
        PROVE  x \in NIsIn(t2) <=> x \in NIsIn(t) \cup {ni}
    <3>1. CASE x = ni
      BY <1>2, <1>3, <1>5, <2>2, <3>1
    <3>2. CASE x # ni
      <4>1. \A i \in 0 .. n - 1 : t2[i] = x => i # s /\ t[i] = x
        BY <1>5, <3>2
      <4>2. x # niNil => \A i \in 0 .. n - 1 : t[i] = x => t2[i] = x
        BY <1>5
      <4>3. QED
        BY <2>2, <2>3, <3>2, <4>1, <4>2
    <3>3. QED
      BY <3>1, <3>2
  <2>5. QED
    BY <2>4
<1>9. \A sz \in S, j \in Nat : SlotAt(h, n, sz, j) \in 0 .. n - 1
  BY <1>1, SlotAtIs
<1>10. \A j \in 0 .. k - 1 : j \in Nat
  BY <1>2
<1>11. LeadsIn(h, n, t2, w, w[ni], k)
  <2>1. t2[SlotAt(h, n, w[ni], k)] = ni
    BY <1>5 DEF s
  <2>2. \A j \in 0 .. k - 1 : t2[SlotAt(h, n, w[ni], j)] # niNil
    BY <1>2, <1>5, <1>9, <1>10
  <2>3. QED
    BY <1>3, <2>1, <2>2 DEF LeadsIn
<1>12. ASSUME NEW sz \in S, Leads(h, n, t, w, sz)
       PROVE  Leads(h, n, t2, w, sz)
  <2>1. PICK l \in 0 .. n - 1 : LeadsIn(h, n, t, w, sz, l)
    BY <1>12 DEF Leads
  <2>2. \A j \in 0 .. l : t[SlotAt(h, n, sz, j)] # niNil
    BY <1>1, <2>1 DEF LeadsIn
  <2>3. \A j \in 0 .. l : j \in Nat
    BY <1>1, <2>1
  <2>4. \A j \in 0 .. l : t2[SlotAt(h, n, sz, j)] = t[SlotAt(h, n, sz, j)]
    BY <1>5, <1>9, <2>2, <2>3
  <2>5. l \in 0 .. l /\ \A j \in 0 .. l - 1 : j \in 0 .. l
    BY <1>1, <2>1
  <2>6. LeadsIn(h, n, t2, w, sz, l)
    BY <2>1, <2>4, <2>5 DEF LeadsIn
  <2>7. QED
    BY <2>6 DEF Leads
<1>13. Leads(h, n, t2, w, w[ni])
  BY <1>11 DEF Leads
<1>14. QED
  BY <1>7, <1>8, <1>12, <1>13 DEF t2, s
-----------------------------------------------------------------------------
(* Name maps.                                                              *)

IsNMT(m) ==
  /\ m = [buf |-> m.buf, tab |-> m.tab, cni |-> m.cni, cbReloaded |-> m.cbReloaded,
          fConvert |-> m.fConvert, ver |-> m.ver, mpoldnew |-> m.mpoldnew]
  /\ m.buf \in Seq(Names) /\ m.cni \in Nat /\ m.cbReloaded \in Int
  /\ m.fConvert \in BOOLEAN /\ m.ver \in 0 .. 2

\* An index that was converted stands for the UTF8 form of its name.
Mapped(m) ==
  /\ DOMAIN m.mpoldnew \subseteq 1 .. Len(m.buf)
  /\ \A ni \in DOMAIN m.mpoldnew :
       /\ m.mpoldnew[ni] \in 1 .. Len(m.buf)
       /\ m.buf[ni] \in DOMAIN Utf8 /\ m.buf[m.mpoldnew[ni]] = Utf8[m.buf[ni]]

OnceEach(m) == \A i, j \in 1 .. Len(m.buf) : m.buf[i] = m.buf[j] => i = j

Tabled(m) == IsTable(m.tab, SlotCount(m.tab), Len(m.buf)) /\ NIsIn(m.tab) = 1 .. Len(m.buf)

Whole(m) == IsNMT(m) /\ Mapped(m) /\ OnceEach(m) /\ Tabled(m)

\* The names of the indices, and where they are searched.
NamesOf(m) == [ni \in 1 .. Len(m.buf) |-> szForNi(m, ni)]
HashIn(m) == NameHash[m.ver]
LeadsTo(m, t, sz) == Leads(HashIn(m), SlotCount(t), t, NamesOf(m), sz)
FoundAll(m) == \A ni \in 1 .. Len(m.buf) : LeadsTo(m, m.tab, NamesOf(m)[ni])

Good(m) == Whole(m) /\ FoundAll(m) /\ Len(m.buf) < SlotCount(m.tab) /\ m.cni = Len(m.buf)

LEMMA NmtIs ==
  ASSUME NameMapAssumption, NEW m, Whole(m)
  PROVE  /\ Len(m.buf) \in Nat /\ m.buf \in [1 .. Len(m.buf) -> Names] /\ HashIn(m) \in [Names -> Nat]
         /\ SlotCount(m.tab) \in Nat \ {0} /\ DOMAIN m.tab = 0 .. SlotCount(m.tab) - 1
         /\ m.tab \in [0 .. SlotCount(m.tab) - 1 -> 0 .. Len(m.buf)]
         /\ NamesOf(m) \in [1 .. Len(m.buf) -> Names]
         /\ \A ni \in 1 .. Len(m.buf) :
              /\ NamesOf(m)[ni] = szForNi(m, ni)
              /\ ni \in DOMAIN m.mpoldnew => NamesOf(m)[ni] = Utf8[m.buf[ni]]
              /\ ni \notin DOMAIN m.mpoldnew => NamesOf(m)[ni] = m.buf[ni]
<1>1. m.buf \in Seq(Names) /\ m.ver \in 0 .. 2
  BY DEF Whole, IsNMT
<1>2. Len(m.buf) \in Nat /\ m.buf \in [1 .. Len(m.buf) -> Names]
  BY <1>1, LenProperties
<1>3. HashIn(m) \in [Names -> Nat]
  BY <1>1 DEF HashIn, NameMapAssumption
<1>4. SlotCount(m.tab) \in Nat \ {0} /\ m.tab \in [0 .. SlotCount(m.tab) - 1 -> 0 .. Len(m.buf)]
  BY DEF Whole, Tabled, IsTable
<1>5. ASSUME NEW ni \in 1 .. Len(m.buf)
      PROVE  /\ szForNi(m, ni) \in Names /\ NamesOf(m)[ni] = szForNi(m, ni)
             /\ ni \in DOMAIN m.mpoldnew => NamesOf(m)[ni] = Utf8[m.buf[ni]]
             /\ ni \notin DOMAIN m.mpoldnew => NamesOf(m)[ni] = m.buf[ni]
  <2>1. NamesOf(m)[ni] = szForNi(m, ni)
    BY DEF NamesOf
  <2>2. CASE ni \in DOMAIN m.mpoldnew
    <3>1. m.mpoldnew[ni] \in 1 .. Len(m.buf) /\ m.buf[m.mpoldnew[ni]] = Utf8[m.buf[ni]]
      BY <2>2 DEF Whole, Mapped
    <3>2. szForNi(m, ni) = m.buf[m.mpoldnew[ni]]
      BY <2>2 DEF szForNi
    <3>3. QED
      BY <1>2, <2>1, <2>2, <3>1, <3>2
  <2>3. CASE ni \notin DOMAIN m.mpoldnew
    <3>1. szForNi(m, ni) = m.buf[ni]
      BY <2>3 DEF szForNi
    <3>2. QED
      BY <1>2, <2>1, <2>3, <3>1
  <2>4. QED
    BY <2>2, <2>3
<1>6. NamesOf(m) \in [1 .. Len(m.buf) -> Names]
  BY <1>5 DEF NamesOf
<1>7. QED
  BY <1>2, <1>3, <1>4, <1>5, <1>6

LEMMA NameProbeIs ==
  ASSUME NEW m, NEW t, NEW sz, NEW k
  PROVE  NameProbe(m, t, sz, k) = SlotAt(HashIn(m), SlotCount(t), sz, k)
BY DEF NameProbe, SlotAt, HashIn

LEMMA TableIs ==
  ASSUME NEW t, NEW n, NEW N, IsTable(t, n, N)
  PROVE  /\ n \in Nat \ {0} /\ t \in [0 .. n - 1 -> 0 .. N] /\ SlotCount(t) = n /\ DOMAIN t = 0 .. n - 1
         /\ NIsIn(t) = {t[i] : i \in 0 .. n - 1} \ {niNil}
<1>1. n \in Nat \ {0} /\ t \in [0 .. n - 1 -> 0 .. N]
  BY DEF IsTable
<1>2. SlotCount(t) = n
  BY <1>1, SizeIs
<1>3. QED
  BY <1>1, <1>2 DEF NIsIn

\* What rehash does with one slot.
LEMMA PlacedOK ==
  ASSUME NameMapAssumption, NEW m, Whole(m), NEW n, NEW t, IsTable(t, n, Len(m.buf)), Len(m.buf) < n,
         NEW ni \in 0 .. Len(m.buf), ni \notin NIsIn(t),
         NEW t2, t2 = Placed(m, t, ni)
  PROVE  /\ IsTable(t2, n, Len(m.buf))
         /\ NIsIn(t2) = NIsIn(t) \cup ({ni} \ {niNil})
         /\ ni # niNil => LeadsTo(m, t2, NamesOf(m)[ni])
         /\ \A sz \in Names : LeadsTo(m, t, sz) => LeadsTo(m, t2, sz)
<1>1. CASE ni = niNil
  BY <1>1 DEF Placed
<1>2. CASE ni # niNil
  <2> DEFINE N == Len(m.buf)
             h == HashIn(m)
             w == NamesOf(m)
             k == Min(FreeAt(h, n, t, w[ni]))
             s == SlotAt(h, n, w[ni], k)
             u == [t EXCEPT ![s] = ni]
  <2>1. N \in Nat /\ h \in [Names -> Nat] /\ w \in [1 .. N -> Names]
    BY NmtIs
  <2>2. ni \in 1 .. N /\ w[ni] \in Names /\ w[ni] = szForNi(m, ni)
    BY <1>2, <2>1, NmtIs DEF niNil
  <2>3. SlotCount(t) = n /\ DOMAIN t = 0 .. n - 1 /\ NIsIn(t) = {t[i] : i \in 0 .. n - 1} \ {niNil}
        /\ t \in [0 .. n - 1 -> 0 .. N]
    BY TableIs
  <2>4. NIsIn(t) \subseteq 1 .. N
    BY <2>1, <2>3 DEF niNil
  <2>5. \E i \in 0 .. n - 1 : t[i] = niNil
    BY <2>1, <2>4, HasFree
  <2>6. /\ k \in 0 .. n - 1 /\ t[s] = niNil
        /\ \A j \in 0 .. k - 1 : t[SlotAt(h, n, w[ni], j)] # niNil
    BY <2>1, <2>2, <2>5, FirstFree
  <2>7. SlotFor(m, t, ni) = s
    <3>1. \A j : NameProbe(m, t, szForNi(m, ni), j) = SlotAt(h, n, w[ni], j)
      BY <2>2, <2>3, NameProbeIs
    <3>2. {j \in DOMAIN t : t[NameProbe(m, t, szForNi(m, ni), j)] = niNil} = FreeAt(h, n, t, w[ni])
      BY <2>3, <3>1 DEF FreeAt
    <3>3. QED
      BY <3>1, <3>2 DEF SlotFor
  <2>8. t2 = u
    BY <1>2, <2>7 DEF Placed
  <2> HIDE DEF k, w, h, N
  <2>9. /\ IsTable(u, n, N) /\ NIsIn(u) = NIsIn(t) \cup {ni}
        /\ Leads(h, n, u, w, w[ni])
        /\ \A sz \in Names : Leads(h, n, t, w, sz) => Leads(h, n, u, w, sz)
    BY <2>1, <2>2, <2>6, PutIn DEF N
  <2>10. SlotCount(u) = n
    BY <2>9, TableIs
  <2> HIDE DEF u
  <2>11. QED
    BY <1>2, <2>3, <2>8, <2>9, <2>10 DEF LeadsTo, h, w, N
<1>3. QED
  BY <1>1, <1>2

\* The tables that rehash goes through.
Tables(m, n, s, g) ==
  g = [k \in 0 .. s |-> IF k = 0 THEN NoneIn(n) ELSE Placed(m, g[k - 1], m.tab[k - 1])]

LEMMA TablesExist ==
  ASSUME NEW m, NEW n, NEW s \in Nat
  PROVE  \E g : Tables(m, n, s, g)
<1> DEFINE T == {k \in Nat : ~\E g : Tables(m, n, k, g)}
<1>1. SUFFICES ASSUME T # {}
               PROVE  FALSE
  OBVIOUS
<1>2. PICK x \in T : \A y \in T : x <= y
  BY <1>1, LeastIn
<1>3. x # 0
  <2> DEFINE g == [k \in 0 .. 0 |-> NoneIn(n)]
  <2>1. g = [k \in 0 .. 0 |-> IF k = 0 THEN NoneIn(n) ELSE Placed(m, g[k - 1], m.tab[k - 1])]
    BY \A k \in 0 .. 0 : k = 0
  <2>2. Tables(m, n, 0, g)
    BY <2>1 DEF Tables
  <2>3. QED
    BY <2>2
<1>4. x - 1 \in Nat /\ x - 1 \notin T
  BY <1>2, <1>3
<1>5. PICK g : Tables(m, n, x - 1, g)
  BY <1>4
<1> DEFINE f == [k \in 0 .. x |-> IF k = x THEN Placed(m, g[x - 1], m.tab[x - 1]) ELSE g[k]]
<1>6. \A k \in 0 .. x : f[k] = IF k = 0 THEN NoneIn(n) ELSE Placed(m, f[k - 1], m.tab[k - 1])
  <2>1. ASSUME NEW k \in 0 .. x, k # x
        PROVE  /\ k \in 0 .. x - 1 /\ f[k] = g[k]
               /\ k # 0 => k - 1 \in 0 .. x - 1 /\ k - 1 \in 0 .. x /\ f[k - 1] = g[k - 1]
    BY <1>4, <2>1
  <2>2. \A k \in 0 .. x - 1 : g[k] = IF k = 0 THEN NoneIn(n) ELSE Placed(m, g[k - 1], m.tab[k - 1])
    BY <1>5 DEF Tables
  <2>3. x \in 0 .. x /\ x - 1 \in 0 .. x /\ x - 1 # x
    BY <1>3, <1>4
  <2>4. f[x] = Placed(m, g[x - 1], m.tab[x - 1]) /\ f[x - 1] = g[x - 1]
    BY <2>3
  <2> HIDE DEF f
  <2>5. QED
    BY <1>3, <2>1, <2>2, <2>4
<1>7. Tables(m, n, x, f)
  <2>1. f = [k \in 0 .. x |-> f[k]]
    OBVIOUS
  <2> HIDE DEF f
  <2>2. QED
    BY <1>6, <2>1 DEF Tables
<1>8. QED
  BY <1>2, <1>7

LEMMA RehashIs ==
  ASSUME NEW m, NEW n
  PROVE  rehash(m, n) = [m EXCEPT !.tab = (CHOOSE g : Tables(m, n, SlotCount(m.tab), g))[SlotCount(m.tab)]]
BY Zenon DEF rehash, Tables

LEMMA SameNames ==
  ASSUME NEW m, NEW r, r.buf = m.buf, r.mpoldnew = m.mpoldnew, r.ver = m.ver
  PROVE  /\ NamesOf(r) = NamesOf(m) /\ HashIn(r) = HashIn(m)
         /\ \A t, sz : LeadsTo(r, t, sz) <=> LeadsTo(m, t, sz)
<1>1. NamesOf(r) = NamesOf(m) /\ HashIn(r) = HashIn(m)
  BY DEF NamesOf, szForNi, HashIn
<1>2. QED
  BY <1>1 DEF LeadsTo

LEMMA NoEntry ==
  ASSUME NEW n \in Nat \ {0}, NEW N \in Nat
  PROVE  IsTable(NoneIn(n), n, N) /\ NIsIn(NoneIn(n)) = {}
<1>1. NoneIn(n) \in [0 .. n - 1 -> 0 .. N] /\ \A i \in 0 .. n - 1 : NoneIn(n)[i] = niNil
  BY DEF NoneIn, niNil
<1>2. IsTable(NoneIn(n), n, N)
  BY <1>1 DEF IsTable
<1>3. QED
  BY <1>1, <1>2, TableIs

\* The indices of the first k slots.
Entries(m, k) == {m.tab[i] : i \in 0 .. k - 1} \ {niNil}

Part(m, n, k, t) ==
  /\ IsTable(t, n, Len(m.buf)) /\ NIsIn(t) = Entries(m, k)
  /\ \A ni \in NIsIn(t) : LeadsTo(m, t, NamesOf(m)[ni])

LEMMA PartStep ==
  ASSUME NameMapAssumption, NEW m, Whole(m), NEW n, Len(m.buf) < n,
         NEW k \in 0 .. SlotCount(m.tab) - 1, NEW t, Part(m, n, k, t)
  PROVE  Part(m, n, k + 1, Placed(m, t, m.tab[k]))
<1> DEFINE N == Len(m.buf)
           ni == m.tab[k]
           t2 == Placed(m, t, ni)
<1>1. /\ N \in Nat /\ SlotCount(m.tab) \in Nat \ {0} /\ m.tab \in [0 .. SlotCount(m.tab) - 1 -> 0 .. N]
      /\ NamesOf(m) \in [1 .. N -> Names]
  BY NmtIs
<1>2. ni \in 0 .. N
  BY <1>1
<1>3. \A i, j \in 0 .. SlotCount(m.tab) - 1 : m.tab[i] = m.tab[j] /\ m.tab[i] # niNil => i = j
  BY DEF Whole, Tabled, IsTable
<1>4. IsTable(t, n, N) /\ NIsIn(t) = Entries(m, k) /\ \A x \in NIsIn(t) : LeadsTo(m, t, NamesOf(m)[x])
  BY DEF Part
<1>5. \A i \in 0 .. k - 1 : i \in 0 .. SlotCount(m.tab) - 1 /\ i # k
  BY <1>1
<1>6. ni \notin NIsIn(t)
  BY <1>3, <1>4, <1>5 DEF Entries
<1>7. /\ IsTable(t2, n, N) /\ NIsIn(t2) = NIsIn(t) \cup ({ni} \ {niNil})
      /\ ni # niNil => LeadsTo(m, t2, NamesOf(m)[ni])
      /\ \A sz \in Names : LeadsTo(m, t, sz) => LeadsTo(m, t2, sz)
  <2>1. t2 = Placed(m, t, ni)
    OBVIOUS
  <2> HIDE DEF t2, ni
  <2>2. QED
    BY <1>2, <1>4, <1>6, <2>1, PlacedOK
<1> HIDE DEF t2
<1>8. Entries(m, k + 1) = Entries(m, k) \cup ({ni} \ {niNil})
  <2>1. \A i : i \in 0 .. (k + 1) - 1 <=> i \in 0 .. k - 1 \/ i = k
    BY <1>1
  <2>2. QED
    BY <2>1 DEF Entries
<1>9. NIsIn(t) \subseteq 1 .. N
  <2>1. NIsIn(t) = {t[i] : i \in 0 .. n - 1} \ {niNil} /\ t \in [0 .. n - 1 -> 0 .. N]
    BY <1>4, TableIs
  <2>2. QED
    BY <1>1, <2>1 DEF niNil
<1>10. \A x \in NIsIn(t) : NamesOf(m)[x] \in Names
  BY <1>1, <1>9
<1>11. \A x \in NIsIn(t2) : LeadsTo(m, t2, NamesOf(m)[x])
  BY <1>4, <1>7, <1>10
<1>12. QED
  BY <1>4, <1>7, <1>8, <1>11 DEF Part, t2

\* A table made anew finds every name that the old one had, whatever its hash function.
LEMMA RehashOK ==
  ASSUME NameMapAssumption, NEW m, Whole(m), NEW n \in Nat \ {0}, Len(m.buf) < n,
         NEW r, r = rehash(m, n)
  PROVE  /\ Whole(r) /\ FoundAll(r) /\ SlotCount(r.tab) = n
         /\ r.buf = m.buf /\ r.cni = m.cni /\ r.cbReloaded = m.cbReloaded
         /\ r.fConvert = m.fConvert /\ r.ver = m.ver /\ r.mpoldnew = m.mpoldnew
<1> DEFINE s == SlotCount(m.tab)
           new == CHOOSE g : Tables(m, n, s, g)
           t == new[s]
<1>1. /\ Len(m.buf) \in Nat /\ s \in Nat \ {0} /\ m.tab \in [0 .. s - 1 -> 0 .. Len(m.buf)]
      /\ DOMAIN m.tab = 0 .. s - 1
  BY NmtIs
<1>2. Tables(m, n, s, new)
  BY <1>1, TablesExist
<1>3. r = [m EXCEPT !.tab = t]
  BY RehashIs
<1> HIDE DEF new, s
<1>4. \A k \in 0 .. s : new[k] = IF k = 0 THEN NoneIn(n) ELSE Placed(m, new[k - 1], m.tab[k - 1])
  BY <1>2 DEF Tables
<1>5. Part(m, n, 0, new[0])
  <2>1. new[0] = NoneIn(n) /\ Entries(m, 0) = {}
    BY <1>1, <1>4 DEF Entries
  <2>2. QED
    BY <1>1, <2>1, NoEntry DEF Part
<1>6. Part(m, n, s, new[s])
  <2> DEFINE T == {k \in 0 .. s : ~Part(m, n, k, new[k])}
  <2>1. SUFFICES ASSUME T # {}
                 PROVE  FALSE
    BY <1>1
  <2>2. T \in SUBSET Nat
    BY <1>1
  <2>3. PICK k \in T : \A y \in T : k <= y
    BY <2>1, <2>2, LeastIn
  <2>4. k # 0 /\ k \in 0 .. s
    BY <1>5, <2>3
  <2>5. k - 1 \in 0 .. s - 1 /\ k - 1 \in 0 .. s /\ ~(k <= k - 1) /\ (k - 1) + 1 = k
    BY <1>1, <2>4
  <2>6. Part(m, n, k - 1, new[k - 1])
    BY <2>3, <2>5
  <2>7. Part(m, n, (k - 1) + 1, Placed(m, new[k - 1], m.tab[k - 1]))
    BY <2>5, <2>6, PartStep DEF s
  <2>8. new[k] = Placed(m, new[k - 1], m.tab[k - 1])
    BY <1>4, <2>4
  <2>9. QED
    BY <2>3, <2>5, <2>7, <2>8
<1> HIDE DEF t
<1>7. Part(m, n, s, t)
  BY <1>6 DEF t
<1>8. IsNMT(m) /\ Mapped(m) /\ OnceEach(m) /\ NIsIn(m.tab) = 1 .. Len(m.buf)
  BY DEF Whole, Tabled
<1>9. /\ r.tab = t /\ r.buf = m.buf /\ r.cni = m.cni /\ r.cbReloaded = m.cbReloaded
      /\ r.fConvert = m.fConvert /\ r.ver = m.ver /\ r.mpoldnew = m.mpoldnew
      /\ IsNMT(r)
  BY <1>3, <1>8 DEF IsNMT
<1>10. Entries(m, s) = NIsIn(m.tab)
  BY <1>1 DEF Entries, NIsIn
<1>11. IsTable(t, n, Len(m.buf)) /\ NIsIn(t) = 1 .. Len(m.buf) /\ SlotCount(t) = n
  BY <1>7, <1>8, <1>10, TableIs DEF Part
<1>12. Whole(r)
  BY <1>8, <1>9, <1>11 DEF Whole, Mapped, OnceEach, Tabled
<1>13. FoundAll(r)
  <2>1. NamesOf(r) = NamesOf(m) /\ \A sz : LeadsTo(r, t, sz) <=> LeadsTo(m, t, sz)
    BY <1>9, SameNames
  <2>2. \A ni \in 1 .. Len(m.buf) : LeadsTo(m, t, NamesOf(m)[ni])
    BY <1>7, <1>11 DEF Part
  <2>3. QED
    BY <1>9, <2>1, <2>2 DEF FoundAll
<1>14. QED
  BY <1>9, <1>11, <1>12, <1>13

\* Every search ends, at a free slot or at an index of its name, and at no free
\* slot if there is such an index to be reached.
LEMMA FindIs ==
  ASSUME NameMapAssumption, NEW m, Whole(m), Len(m.buf) < SlotCount(m.tab), NEW sz \in Names
  PROVE  /\ Finds(m, sz) /\ niForSz(m, sz) \in 0 .. Len(m.buf)
         /\ niForSz(m, sz) # niNil =>
              niForSz(m, sz) \in 1 .. Len(m.buf) /\ NamesOf(m)[niForSz(m, sz)] = sz
         /\ LeadsTo(m, m.tab, sz) => niForSz(m, sz) # niNil
         /\ \E k \in 0 .. SlotCount(m.tab) - 1 :
              /\ find(m, sz) = SlotAt(HashIn(m), SlotCount(m.tab), sz, k)
              /\ \A j \in 0 .. k - 1 : m.tab[SlotAt(HashIn(m), SlotCount(m.tab), sz, j)] # niNil
<1> DEFINE N == Len(m.buf)
           n == SlotCount(m.tab)
           h == HashIn(m)
           w == NamesOf(m)
           K == ProbesEnding(m, sz)
           k == Min(K)
           At(j) == m.tab[SlotAt(h, n, sz, j)]
<1>1. /\ N \in Nat /\ h \in [Names -> Nat] /\ w \in [1 .. N -> Names] /\ n \in Nat \ {0}
      /\ DOMAIN m.tab = 0 .. n - 1 /\ m.tab \in [0 .. n - 1 -> 0 .. N]
      /\ \A ni \in 1 .. N : w[ni] = szForNi(m, ni)
  BY NmtIs
<1>2. IsTable(m.tab, n, N) /\ NIsIn(m.tab) = 1 .. N
  BY DEF Whole, Tabled
<1>3. \E i \in 0 .. n - 1 : m.tab[i] = niNil
  BY <1>1, <1>2, HasFree
<1> HIDE DEF N, n, h, w
<1>4. \A j : NameProbe(m, m.tab, sz, j) = SlotAt(h, n, sz, j)
  BY NameProbeIs DEF h, n
<1>5. \A j \in 0 .. n - 1 : At(j) \in 0 .. N
  <2>1. ASSUME NEW j \in 0 .. n - 1
        PROVE  SlotAt(h, n, sz, j) \in 0 .. n - 1
    <3>1. j \in Nat
      BY <1>1
    <3>2. QED
      BY <1>1, <3>1, SlotAtIs
  <2>2. QED
    BY <1>1, <2>1
<1>6. \A j \in 0 .. n - 1 : j \in K <=> At(j) = niNil \/ szForNi(m, At(j)) = sz
  BY <1>1, <1>4 DEF ProbesEnding
<1>7. K \subseteq 0 .. n - 1
  BY <1>1 DEF ProbesEnding
<1>8. K # {}
  <2>1. Min(FreeAt(h, n, m.tab, sz)) \in 0 .. n - 1
        /\ m.tab[SlotAt(h, n, sz, Min(FreeAt(h, n, m.tab, sz)))] = niNil
    <3>1. N \in Nat /\ h \in [Names -> Nat] /\ IsTable(m.tab, n, N)
      BY <1>1, <1>2
    <3> HIDE DEF K, k, At
    <3>2. QED
      BY <1>3, <3>1, FirstFree
  <2>2. QED
    BY <1>6, <2>1
<1>9. K \in SUBSET Nat
  BY <1>1, <1>7
<1>10. k \in K /\ \A y \in K : k <= y
  BY <1>8, <1>9, MinIs
<1>11. find(m, sz) = SlotAt(h, n, sz, k)
  BY <1>4 DEF find
<1>12. niForSz(m, sz) = At(k)
  BY <1>11 DEF niForSz
<1> HIDE DEF k, K
<1>13. k \in 0 .. n - 1 /\ k \in Nat
  BY <1>7, <1>9, <1>10
<1>14. \A j \in 0 .. k - 1 : j \in 0 .. n - 1 /\ j \notin K
  <2>1. \A j \in 0 .. k - 1 : j \in 0 .. n - 1 /\ ~(k <= j)
    BY <1>1, <1>13
  <2>2. QED
    BY <1>10, <2>1
<1>15. \A j \in 0 .. k - 1 : At(j) # niNil
  BY <1>6, <1>14
<1>16. At(k) \in 0 .. N /\ (At(k) = niNil \/ szForNi(m, At(k)) = sz)
  BY <1>5, <1>6, <1>10, <1>13
<1>17. ASSUME LeadsTo(m, m.tab, sz), At(k) = niNil
       PROVE  FALSE
  <2>1. PICK l \in 0 .. n - 1 : LeadsIn(h, n, m.tab, w, sz, l)
    BY <1>17 DEF LeadsTo, Leads, h, n, w
  <2>2. At(l) # niNil /\ w[At(l)] = sz /\ \A j \in 0 .. l - 1 : At(j) # niNil
    BY <2>1 DEF LeadsIn
  <2>3. At(l) \in 1 .. N
    BY <1>1, <1>5, <2>2 DEF niNil
  <2>4. l \in K
    BY <1>1, <1>6, <2>2, <2>3
  <2>5. k <= l /\ l # k
    BY <1>10, <1>17, <2>2, <2>4
  <2>6. k \in 0 .. l - 1
    BY <1>1, <1>13, <2>5
  <2>7. QED
    BY <1>17, <2>2, <2>6
<1>18. At(k) # niNil => At(k) \in 1 .. N /\ w[At(k)] = sz
  BY <1>1, <1>16 DEF niNil
<1>19. Finds(m, sz)
  BY <1>8 DEF Finds, K
<1>20. QED
  BY <1>11, <1>12, <1>13, <1>15, <1>16, <1>17, <1>18, <1>19 DEF N, n, h, w

LEMMA LeadsMore ==
  ASSUME NEW h, NEW n, NEW t, NEW w, NEW v, NEW sz, Leads(h, n, t, w, sz),
         \A i \in 0 .. n - 1 : t[i] # niNil => v[t[i]] = w[t[i]],
         \A k \in 0 .. n - 1 : SlotAt(h, n, sz, k) \in 0 .. n - 1
  PROVE  Leads(h, n, t, v, sz)
BY DEF Leads, LeadsIn

SameNew(m, r) ==
  r.mpoldnew = m.mpoldnew \/ (DOMAIN r.mpoldnew = {} /\ DOMAIN m.mpoldnew = {})

\* Only what a name map has in memory counts.
LEMMA GoodAlike ==
  ASSUME NEW m, Whole(m), FoundAll(m), NEW r, IsNMT(r),
         r.buf = m.buf, r.tab = m.tab, r.ver = m.ver, SameNew(m, r)
  PROVE  Whole(r) /\ FoundAll(r) /\ \A sz : LeadsTo(m, m.tab, sz) => LeadsTo(r, r.tab, sz)
<1>1. NamesOf(r) = NamesOf(m) /\ \A t, sz : LeadsTo(r, t, sz) <=> LeadsTo(m, t, sz)
  <2>1. \A ni : szForNi(r, ni) = szForNi(m, ni)
    BY DEF SameNew, szForNi
  <2>2. NamesOf(r) = NamesOf(m)
    BY <2>1 DEF NamesOf
  <2>3. QED
    BY <2>2 DEF LeadsTo, HashIn
<1>2. Whole(r)
  <2>1. Mapped(r)
    BY DEF SameNew, Whole, Mapped
  <2>2. QED
    BY <2>1 DEF Whole, OnceEach, Tabled
<1>3. FoundAll(r)
  BY <1>1 DEF FoundAll
<1>4. QED
  BY <1>1, <1>2, <1>3

LEMMA Grows ==
  ASSUME NEW s \in Nat \ {0}, NEW c \in Nat, c <= s
  PROVE  /\ (s * 3) \div 2 + 1 \in Nat \ {0} /\ c < (s * 3) \div 2 + 1
         /\ ~((s * 3) \div 4 < c) => c < s
OBVIOUS

LEMMA GrowNmtOK ==
  ASSUME NameMapAssumption, NEW m, Whole(m), FoundAll(m), Len(m.buf) <= SlotCount(m.tab),
         m.cni + 1 = Len(m.buf), NEW r, r = growNMT(m)
  PROVE  /\ Good(r) /\ r.buf = m.buf /\ r.cbReloaded = m.cbReloaded
         /\ r.fConvert = m.fConvert /\ r.ver = m.ver /\ r.mpoldnew = m.mpoldnew
<1> DEFINE c == [m EXCEPT !.cni = m.cni + 1]
           s == SlotCount(m.tab)
<1>1. Len(m.buf) \in Nat /\ s \in Nat \ {0}
  BY NmtIs
<1>2. /\ IsNMT(c) /\ c.buf = m.buf /\ c.tab = m.tab /\ c.ver = m.ver /\ c.mpoldnew = m.mpoldnew
      /\ c.cbReloaded = m.cbReloaded /\ c.fConvert = m.fConvert /\ c.cni = Len(m.buf)
  BY <1>1 DEF Whole, IsNMT
<1>3. r = IF (s * 3) \div 4 < m.cni + 1 THEN rehash(c, (s * 3) \div 2 + 1) ELSE c
  BY DEF growNMT
<1> HIDE DEF c
<1>4. Whole(c) /\ FoundAll(c)
  BY <1>2, GoodAlike DEF SameNew
<1> DEFINE n == (s * 3) \div 2 + 1
<1>5. /\ n \in Nat \ {0} /\ Len(m.buf) < n
      /\ ~((s * 3) \div 4 < Len(m.buf)) => Len(m.buf) < s
  BY <1>1, Grows
<1> HIDE DEF n, s
<1>6. CASE (s * 3) \div 4 < m.cni + 1
  <2>1. r = rehash(c, n)
    BY <1>3, <1>6 DEF n
  <2>2. /\ Whole(r) /\ FoundAll(r) /\ SlotCount(r.tab) = n
        /\ r.buf = c.buf /\ r.cni = c.cni /\ r.cbReloaded = c.cbReloaded
        /\ r.fConvert = c.fConvert /\ r.ver = c.ver /\ r.mpoldnew = c.mpoldnew
    BY <1>2, <1>4, <1>5, <2>1, RehashOK
  <2>3. QED
    BY <1>2, <1>5, <2>2 DEF Good
<1>7. CASE ~((s * 3) \div 4 < m.cni + 1)
  BY <1>2, <1>3, <1>4, <1>5, <1>7 DEF Good, s
<1>8. QED
  BY <1>6, <1>7

\* A name that is not found gets the next index and a slot, through which it is found.
\* The map with a name of its own slot, before it grows.
Appended(m, sz) == [m EXCEPT !.buf = Append(@, sz), !.tab[find(m, sz)] = Len(m.buf) + 1]

LEMMA AppendedOK ==
  ASSUME NameMapAssumption, NEW m, Good(m), NEW sz \in Names,
         sz \notin DOMAIN Utf8 \/ DOMAIN m.mpoldnew = {}, niForSz(m, sz) = niNil,
         NEW b, b = Appended(m, sz)
  PROVE  /\ Whole(b) /\ FoundAll(b) /\ b.buf = Append(m.buf, sz) /\ Len(b.buf) = Len(m.buf) + 1
         /\ Len(b.buf) <= SlotCount(b.tab) /\ b.cni = m.cni /\ b.cbReloaded = m.cbReloaded
         /\ b.fConvert = m.fConvert /\ b.ver = m.ver /\ b.mpoldnew = m.mpoldnew
         /\ NamesOf(b)[Len(b.buf)] = sz
<1> DEFINE N == Len(m.buf)
           M == N + 1
           n == SlotCount(m.tab)
           h == HashIn(m)
           w == NamesOf(m)
           v == NamesOf(b)
           s == find(m, sz)
           t == [m.tab EXCEPT ![s] = M]
<1>1. Whole(m) /\ FoundAll(m) /\ N < n /\ m.cni = N
  BY DEF Good
<1>2. /\ N \in Nat /\ h \in [Names -> Nat] /\ w \in [1 .. N -> Names] /\ n \in Nat \ {0}
      /\ DOMAIN m.tab = 0 .. n - 1 /\ m.tab \in [0 .. n - 1 -> 0 .. N]
      /\ m.buf \in [1 .. N -> Names]
  BY <1>1, NmtIs
<1>3. IsNMT(m) /\ Mapped(m) /\ OnceEach(m) /\ IsTable(m.tab, n, N) /\ NIsIn(m.tab) = 1 .. N
  BY <1>1 DEF Whole, Tabled
<1>4. /\ Append(m.buf, sz) \in Seq(Names) /\ Len(Append(m.buf, sz)) = M
      /\ \A i \in 1 .. N : Append(m.buf, sz)[i] = m.buf[i]
      /\ Append(m.buf, sz)[M] = sz
  <2>1. m.buf \in Seq(Names)
    BY <1>3 DEF IsNMT
  <2>2. QED
    BY <2>1, AppendProperties
<1>5. /\ b.buf = Append(m.buf, sz) /\ b.tab = t /\ b.cni = m.cni /\ b.cbReloaded = m.cbReloaded
      /\ b.fConvert = m.fConvert /\ b.ver = m.ver /\ b.mpoldnew = m.mpoldnew
      /\ IsNMT(b)
  BY <1>3, <1>4 DEF IsNMT, Appended
<1>6. Len(b.buf) = M /\ (\A i \in 1 .. N : b.buf[i] = m.buf[i]) /\ b.buf[M] = sz
  BY <1>4, <1>5
<1>7. Mapped(b)
  <2>1. M \in Nat /\ 1 .. N \subseteq 1 .. M
    BY <1>2
  <2>2. QED
    BY <1>3, <1>5, <1>6, <2>1 DEF Mapped
<1>8. \A i \in 1 .. N : m.buf[i] # sz
  <2>1. SUFFICES ASSUME NEW i \in 1 .. N, m.buf[i] = sz
                 PROVE  FALSE
    OBVIOUS
  <2>2. i \notin DOMAIN m.mpoldnew
    BY <1>3, <2>1 DEF Mapped
  <2>3. w[i] = sz
    BY <1>1, <2>1, <2>2, NmtIs
  <2>4. LeadsTo(m, m.tab, sz)
    BY <1>1, <2>3 DEF FoundAll
  <2>5. QED
    BY <1>1, <2>4, FindIs
<1>9. OnceEach(b)
  <2>1. \A i \in 1 .. M : i \in 1 .. N \/ i = M
    BY <1>2
  <2>2. QED
    BY <1>3, <1>6, <1>8, <2>1 DEF OnceEach
<1>10. \A i \in 1 .. N : v[i] = w[i]
  <2>1. ASSUME NEW i \in 1 .. N
        PROVE  szForNi(b, i) = szForNi(m, i)
    <3>1. (IF i \in DOMAIN m.mpoldnew THEN m.mpoldnew[i] ELSE i) \in 1 .. N
      BY <1>3 DEF Mapped
    <3>2. QED
      BY <1>5, <1>6, <3>1 DEF szForNi
  <2>2. \A i \in 1 .. N : i \in 1 .. M
    BY <1>2
  <2>3. QED
    BY <1>6, <2>1, <2>2 DEF NamesOf
<1>11. v[M] = sz
  <2>1. M \in 1 .. M /\ M \notin 1 .. N
    BY <1>2
  <2>2. M \notin DOMAIN m.mpoldnew
    BY <1>3, <2>1 DEF Mapped
  <2>3. QED
    BY <1>5, <1>6, <2>1, <2>2 DEF NamesOf, szForNi
<1>12. v \in [1 .. M -> Names]
  <2>1. \A i \in 1 .. M : i \in 1 .. N \/ i = M
    BY <1>2
  <2>2. v = [i \in 1 .. M |-> v[i]]
    BY <1>6 DEF NamesOf
  <2> HIDE DEF v
  <2>3. \A i \in 1 .. M : v[i] \in Names
    BY <1>2, <1>10, <1>11, <2>1
  <2>4. QED
    BY <2>2, <2>3
<1>13. PICK k \in 0 .. n - 1 :
         /\ s = SlotAt(h, n, sz, k)
         /\ \A j \in 0 .. k - 1 : m.tab[SlotAt(h, n, sz, j)] # niNil
  BY <1>1, FindIs
<1>14. m.tab[s] = niNil
  BY DEF niForSz
<1> HIDE DEF s, h, n, w, v, N
<1>15. IsTable(m.tab, n, M)
  BY <1>2, <1>3 DEF IsTable
<1>16. M \in Nat /\ M \in 1 .. M /\ M \notin NIsIn(m.tab)
  BY <1>2, <1>3
<1>17. /\ IsTable(t, n, M) /\ NIsIn(t) = NIsIn(m.tab) \cup {M}
       /\ Leads(h, n, t, v, sz)
       /\ \A x \in Names : Leads(h, n, m.tab, v, x) => Leads(h, n, t, v, x)
  <2>1. h \in [Names -> Nat] /\ v[M] = sz /\ t = [m.tab EXCEPT ![SlotAt(h, n, v[M], k)] = M]
    BY <1>2, <1>11, <1>13
  <2>2. /\ m.tab[SlotAt(h, n, v[M], k)] = niNil
        /\ \A j \in 0 .. k - 1 : m.tab[SlotAt(h, n, v[M], j)] # niNil
    BY <1>11, <1>13, <1>14
  <2> HIDE DEF M, t
  <2> DEFINE tt == m.tab
             u == [tt EXCEPT ![SlotAt(h, n, v[M], k)] = M]
  <2>5. IsTable(tt, n, M) /\ M \notin NIsIn(tt)
    BY <1>15, <1>16
  <2>6. tt[SlotAt(h, n, v[M], k)] = niNil /\ \A j \in 0 .. k - 1 : tt[SlotAt(h, n, v[M], j)] # niNil
    BY <2>2
  <2>7. M \in Nat /\ M \in 1 .. M
    BY <1>16
  <2> HIDE DEF tt
  <2>3. /\ IsTable(u, n, M) /\ NIsIn(u) = NIsIn(tt) \cup {M}
        /\ Leads(h, n, u, v, v[M])
        /\ \A x \in Names : Leads(h, n, tt, v, x) => Leads(h, n, u, v, x)
    BY <1>12, <2>1, <2>5, <2>6, <2>7, PutIn
  <2>4. QED
    BY <2>1, <2>3 DEF tt
<1> HIDE DEF t
<1>18. NIsIn(t) = 1 .. M /\ SlotCount(t) = n
  <2>1. 1 .. M = 1 .. N \cup {M}
    BY <1>2
  <2>2. QED
    BY <1>3, <1>17, <2>1, TableIs
<1>19. Whole(b)
  BY <1>5, <1>6, <1>7, <1>9, <1>17, <1>18 DEF Whole, Tabled
<1>20. HashIn(b) = h
  BY <1>5 DEF HashIn, h
<1>21. ASSUME NEW i \in 1 .. N
       PROVE  Leads(h, n, t, v, w[i])
  <2>1. Leads(h, n, m.tab, w, w[i]) /\ w[i] \in Names
    BY <1>1, <1>2 DEF FoundAll, LeadsTo, h, n, w, N
  <2>2. \A x \in 0 .. n - 1 : m.tab[x] # niNil => v[m.tab[x]] = w[m.tab[x]]
    BY <1>2, <1>10 DEF niNil
  <2>3. \A x \in 0 .. n - 1 : SlotAt(h, n, w[i], x) \in 0 .. n - 1
    <3>1. \A x \in 0 .. n - 1 : x \in Nat
      BY <1>2
    <3>2. QED
      BY <1>2, <2>1, <3>1, SlotAtIs
  <2>4. Leads(h, n, m.tab, v, w[i])
    BY <2>1, <2>2, <2>3, LeadsMore
  <2>5. QED
    BY <1>17, <2>1, <2>4
<1>22. FoundAll(b)
  <2>1. \A i \in 1 .. M : Leads(h, n, t, v, v[i])
    <3>1. \A i \in 1 .. M : i \in 1 .. N \/ i = M
      BY <1>2
    <3>2. QED
      BY <1>10, <1>11, <1>17, <1>21, <3>1
  <2>2. QED
    BY <1>5, <1>6, <1>18, <1>20, <2>1 DEF FoundAll, LeadsTo, v
<1>23. Len(b.buf) <= SlotCount(b.tab)
  <2>1. Len(b.buf) = N + 1 /\ SlotCount(b.tab) = n /\ N < n /\ N \in Nat /\ n \in Nat
    BY <1>1, <1>2, <1>5, <1>6, <1>18 DEF n, N
  <2>2. QED
    BY <2>1
<1>24. QED
  BY <1>5, <1>6, <1>11, <1>19, <1>22, <1>23 DEF v, N

LEMMA AddedNameOK ==
  ASSUME NameMapAssumption, NEW m, Good(m), NEW sz \in Names,
         sz \notin DOMAIN Utf8 \/ DOMAIN m.mpoldnew = {},
         NEW a, a = addNiForSz(m, sz)
  PROVE  /\ Good(a)
         /\ a = m \/ a.buf = Append(m.buf, sz)
         /\ a.cbReloaded = m.cbReloaded /\ a.fConvert = m.fConvert
         /\ a.ver = m.ver /\ a.mpoldnew = m.mpoldnew
         /\ \E ni \in 1 .. Len(a.buf) : NamesOf(a)[ni] = sz
<1>1. Whole(m) /\ FoundAll(m) /\ Len(m.buf) < SlotCount(m.tab) /\ m.cni = Len(m.buf)
  BY DEF Good
<1>2. CASE niForSz(m, sz) # niNil
  <2>1. a = m
    BY <1>2 DEF addNiForSz
  <2>2. niForSz(m, sz) \in 1 .. Len(m.buf) /\ NamesOf(m)[niForSz(m, sz)] = sz
    BY <1>1, <1>2, FindIs
  <2>3. QED
    BY <2>1, <2>2
<1>3. CASE niForSz(m, sz) = niNil
  <2> DEFINE b == Appended(m, sz)
  <2>1. a = growNMT(b)
    BY <1>3 DEF addNiForSz, Appended
  <2>2. /\ Whole(b) /\ FoundAll(b) /\ b.buf = Append(m.buf, sz) /\ Len(b.buf) = Len(m.buf) + 1
        /\ Len(b.buf) <= SlotCount(b.tab) /\ b.cni = m.cni /\ b.cbReloaded = m.cbReloaded
        /\ b.fConvert = m.fConvert /\ b.ver = m.ver /\ b.mpoldnew = m.mpoldnew
        /\ NamesOf(b)[Len(b.buf)] = sz
    BY <1>3, AppendedOK
  <2> HIDE DEF b
  <2>3. /\ Good(a) /\ a.buf = b.buf /\ a.cbReloaded = b.cbReloaded
        /\ a.fConvert = b.fConvert /\ a.ver = b.ver /\ a.mpoldnew = b.mpoldnew
    BY <1>1, <2>1, <2>2, GrowNmtOK
  <2>4. NamesOf(a) = NamesOf(b)
    BY <2>3, SameNames
  <2>5. Len(m.buf) \in Nat
    BY <1>1, NmtIs
  <2>6. Len(a.buf) \in 1 .. Len(a.buf)
    BY <2>2, <2>3, <2>5
  <2>7. QED
    BY <2>2, <2>3, <2>4, <2>6
<1>4. QED
  BY <1>2, <1>3

-----------------------------------------------------------------------------
(* Conversion.                                                             *)

\* The buffer of m goes on in r's.
Continues(m, r) ==
  Len(m.buf) <= Len(r.buf) /\ \A i \in 1 .. Len(m.buf) : r.buf[i] = m.buf[i]

LEMMA ContinuesOn ==
  ASSUME NEW a, NEW b, NEW c, Len(a.buf) \in Nat, Len(b.buf) \in Nat, Len(c.buf) \in Nat,
         Continues(a, b), Continues(b, c)
  PROVE  Continues(a, c)
<1>1. Len(a.buf) <= Len(b.buf) /\ \A i \in 1 .. Len(a.buf) : b.buf[i] = a.buf[i]
  BY DEF Continues
<1>2. Len(b.buf) <= Len(c.buf) /\ \A i \in 1 .. Len(b.buf) : c.buf[i] = b.buf[i]
  BY DEF Continues
<1>3. ASSUME NEW i \in 1 .. Len(a.buf)
      PROVE  c.buf[i] = a.buf[i]
  <2>1. i \in 1 .. Len(b.buf)
    BY <1>1
  <2>2. QED
    BY <1>1, <1>2, <2>1
<1>4. Len(a.buf) <= Len(c.buf)
  BY <1>1, <1>2
<1>5. QED
  BY <1>3, <1>4 DEF Continues

Rest(m, r) == r.cbReloaded = m.cbReloaded /\ r.fConvert = m.fConvert /\ r.ver = m.ver

LEMMA ReformedOK ==
  ASSUME NameMapAssumption, FormsApart, NEW m, Good(m), NEW k \in 1 .. Len(m.buf),
         m.buf[k] \in DOMAIN Utf8, k \notin DOMAIN m.mpoldnew, NEW r, r = Reformed(m, k)
  PROVE  Good(r) /\ Continues(m, r) /\ Rest(m, r) /\ DOMAIN r.mpoldnew = DOMAIN m.mpoldnew \cup {k}
<1> DEFINE u == Utf8[m.buf[k]]
           a == addNiForSz(m, u)
           nn == niForSz(a, u)
           f == [i \in DOMAIN a.mpoldnew \cup {k} |-> IF i = k THEN nn ELSE a.mpoldnew[i]]
<1>1. u \in Names /\ u \notin DOMAIN Utf8 /\ \A s \in DOMAIN Utf8 : Utf8[s] \notin DOMAIN Utf8
  BY DEF NameMapAssumption
<1>2. r = [a EXCEPT !.mpoldnew = f]
  BY DEF Reformed
<1>3. /\ Good(a)
      /\ a = m \/ a.buf = Append(m.buf, u)
      /\ a.cbReloaded = m.cbReloaded /\ a.fConvert = m.fConvert
      /\ a.ver = m.ver /\ a.mpoldnew = m.mpoldnew
      /\ \E ni \in 1 .. Len(a.buf) : NamesOf(a)[ni] = u
  BY <1>1, AddedNameOK
<1> HIDE DEF u, a
<1>4. Whole(m) /\ m.buf \in Seq(Names) /\ Len(m.buf) \in Nat
  <2>1. Whole(m)
    BY DEF Good
  <2>2. QED
    BY <2>1, NmtIs DEF Whole, IsNMT
<1>5. Continues(m, a)
  <2>1. CASE a = m
    BY <1>4, <2>1 DEF Continues
  <2>2. CASE a.buf = Append(m.buf, u)
    <3>1. /\ Len(Append(m.buf, u)) = Len(m.buf) + 1
          /\ \A i \in 1 .. Len(m.buf) : Append(m.buf, u)[i] = m.buf[i]
      BY <1>1, <1>4, AppendProperties
    <3>2. QED
      BY <1>4, <2>2, <3>1 DEF Continues
  <2>3. QED
    BY <1>3, <2>1, <2>2
<1> DEFINE M == Len(a.buf)
           n == SlotCount(a.tab)
           h == HashIn(a)
           w == NamesOf(a)
           v == NamesOf(r)
<1>6. Whole(a) /\ FoundAll(a) /\ M < n /\ a.cni = M
  BY <1>3 DEF Good
<1>7. /\ M \in Nat /\ h \in [Names -> Nat] /\ w \in [1 .. M -> Names] /\ n \in Nat \ {0}
      /\ a.tab \in [0 .. n - 1 -> 0 .. M] /\ a.buf \in [1 .. M -> Names]
      /\ \A i \in 1 .. M :
           /\ i \in DOMAIN a.mpoldnew => w[i] = Utf8[a.buf[i]]
           /\ i \notin DOMAIN a.mpoldnew => w[i] = a.buf[i]
  BY <1>6, NmtIs
<1>8. IsNMT(a) /\ Mapped(a) /\ OnceEach(a) /\ Tabled(a)
  BY <1>6 DEF Whole
<1>9. k \in 1 .. M /\ a.buf[k] = m.buf[k] /\ k \notin DOMAIN a.mpoldnew /\ u = Utf8[a.buf[k]]
  <2>1. k \in 1 .. M /\ a.buf[k] = m.buf[k]
    BY <1>4, <1>5, <1>7 DEF Continues
  <2>2. QED
    BY <1>3, <2>1 DEF u
<1>10. nn \in 1 .. M /\ w[nn] = u
  <2>1. PICK ni \in 1 .. M : w[ni] = u
    BY <1>3
  <2>2. LeadsTo(a, a.tab, u)
    BY <1>6, <2>1 DEF FoundAll
  <2>3. QED
    BY <1>1, <1>6, <2>2, FindIs
<1> HIDE DEF nn
<1>11. a.buf[nn] = u /\ nn # k
  <2>1. ASSUME nn \in DOMAIN a.mpoldnew
        PROVE  FALSE
    <3>1. w[nn] = Utf8[a.buf[nn]] /\ a.buf[nn] \in DOMAIN Utf8
      BY <1>7, <1>8, <1>10, <2>1 DEF Mapped
    <3>2. a.buf[nn] = a.buf[k]
      BY <1>9, <1>10, <3>1 DEF FormsApart
    <3>3. nn = k
      BY <1>8, <1>9, <1>10, <3>2 DEF OnceEach
    <3>4. QED
      BY <1>9, <2>1, <3>3
  <2>2. a.buf[nn] = u
    BY <1>7, <1>10, <2>1
  <2>3. a.buf[k] \in DOMAIN Utf8
    BY <1>9
  <2>4. QED
    BY <1>1, <2>2, <2>3
<1> HIDE DEF f
<1>12. /\ r.buf = a.buf /\ r.tab = a.tab /\ r.cni = a.cni /\ r.cbReloaded = a.cbReloaded
       /\ r.fConvert = a.fConvert /\ r.ver = a.ver /\ r.mpoldnew = f /\ IsNMT(r)
  BY <1>2, <1>8 DEF IsNMT
<1>13. /\ DOMAIN f = DOMAIN a.mpoldnew \cup {k} /\ f[k] = nn
       /\ \A i \in DOMAIN a.mpoldnew : i # k => f[i] = a.mpoldnew[i]
  BY DEF f
<1>14. Mapped(r)
  <2>1. DOMAIN r.mpoldnew \subseteq 1 .. Len(r.buf)
    BY <1>8, <1>9, <1>12, <1>13 DEF Mapped
  <2>2. ASSUME NEW i \in DOMAIN r.mpoldnew
        PROVE  /\ r.mpoldnew[i] \in 1 .. Len(r.buf)
               /\ r.buf[i] \in DOMAIN Utf8 /\ r.buf[r.mpoldnew[i]] = Utf8[r.buf[i]]
    <3>1. CASE i = k
      <4>1. r.mpoldnew[i] = nn
        BY <1>12, <1>13, <3>1
      <4>2. QED
        BY <1>9, <1>10, <1>11, <1>12, <3>1, <4>1
    <3>2. CASE i # k
      <4>1. i \in DOMAIN a.mpoldnew /\ r.mpoldnew[i] = a.mpoldnew[i]
        BY <1>12, <1>13, <2>2, <3>2
      <4>2. QED
        BY <1>8, <1>12, <4>1 DEF Mapped
    <3>3. QED
      BY <3>1, <3>2
  <2>3. QED
    BY <2>1, <2>2 DEF Mapped
<1>15. Whole(r)
  BY <1>8, <1>12, <1>14 DEF Whole, OnceEach, Tabled
<1>16. /\ \A i \in 1 .. M : i # k => v[i] = w[i]
       /\ v[k] = u
  <2>1. /\ \A i \in 1 .. M : i \in DOMAIN r.mpoldnew => v[i] = Utf8[r.buf[i]]
        /\ \A i \in 1 .. M : i \notin DOMAIN r.mpoldnew => v[i] = r.buf[i]
    <3>1. Len(r.buf) = M
      BY <1>12
    <3>2. /\ \A i \in 1 .. Len(r.buf) : i \in DOMAIN r.mpoldnew => v[i] = Utf8[r.buf[i]]
          /\ \A i \in 1 .. Len(r.buf) : i \notin DOMAIN r.mpoldnew => v[i] = r.buf[i]
      BY <1>15, NmtIs DEF v
    <3> HIDE DEF M, v
    <3>3. QED
      BY <3>1, <3>2
  <2>2. \A i \in 1 .. M : i # k => (i \in DOMAIN r.mpoldnew <=> i \in DOMAIN a.mpoldnew)
    BY <1>12, <1>13
  <2>3. v[k] = u
    BY <1>9, <1>12, <1>13, <2>1
  <2>4. \A i \in 1 .. M : i # k => v[i] = w[i]
    BY <1>7, <1>12, <2>1, <2>2
  <2>5. QED
    BY <2>3, <2>4
<1> HIDE DEF M, n, h, w, v
<1>17. HashIn(r) = h
  BY <1>12 DEF HashIn, h
\* Of the names that indices stand for, only k's has gone.
<1>18. ASSUME NEW i \in 1 .. M, i # k
       PROVE  w[i] # w[k]
  <2>1. w[k] = a.buf[k] /\ a.buf[k] \in DOMAIN Utf8
    BY <1>7, <1>9
  <2>2. CASE i \in DOMAIN a.mpoldnew
    <3>1. w[i] = Utf8[a.buf[i]] /\ a.buf[i] \in DOMAIN Utf8
      BY <1>7, <1>8, <2>2 DEF Mapped
    <3>2. QED
      BY <1>1, <2>1, <3>1
  <2>3. CASE i \notin DOMAIN a.mpoldnew
    <3>1. w[i] = a.buf[i]
      BY <1>7, <2>3
    <3>2. a.buf[i] # a.buf[k]
      BY <1>8, <1>9, <1>18 DEF OnceEach, M
    <3>3. QED
      BY <2>1, <3>1, <3>2
  <2>4. QED
    BY <2>2, <2>3
<1>19. ASSUME NEW i \in 1 .. M, i # k
       PROVE  Leads(h, n, a.tab, v, w[i])
  <2>1. PICK l \in 0 .. n - 1 : LeadsIn(h, n, a.tab, w, w[i], l)
    BY <1>6 DEF FoundAll, LeadsTo, Leads, M, h, n, w
  <2> DEFINE x == a.tab[SlotAt(h, n, w[i], l)]
  <2>2. x # niNil /\ w[x] = w[i] /\ \A j \in 0 .. l - 1 : a.tab[SlotAt(h, n, w[i], j)] # niNil
    BY <2>1 DEF LeadsIn
  <2>3. x \in 1 .. M
    <3>1. l \in Nat /\ w[i] \in Names
      BY <1>7, <2>1
    <3>2. SlotAt(h, n, w[i], l) \in 0 .. n - 1
      BY <1>7, <3>1, SlotAtIs
    <3>3. QED
      BY <1>7, <2>2, <3>2 DEF niNil
  <2>4. x # k
    BY <1>18, <1>19, <2>2
  <2>5. v[x] = w[i]
    BY <1>16, <2>2, <2>3, <2>4
  <2>6. LeadsIn(h, n, a.tab, v, w[i], l)
    BY <2>2, <2>5 DEF LeadsIn
  <2>7. QED
    BY <2>6 DEF Leads
<1>20. \A i \in 1 .. M : Leads(h, n, a.tab, v, v[i])
  <2>1. Leads(h, n, a.tab, v, u)
    BY <1>10, <1>11, <1>19
  <2>2. QED
    BY <1>16, <1>19, <2>1
<1>21. FoundAll(r)
  BY <1>12, <1>17, <1>20 DEF FoundAll, LeadsTo, M, n, v
<1>22. Good(r)
  BY <1>6, <1>12, <1>15, <1>21 DEF Good, M, n
<1>23. QED
  BY <1>3, <1>5, <1>12, <1>13, <1>22 DEF Continues, Rest

\* The maps that convert goes through.
Conversions(m, s, g) ==
  g = [k \in 0 .. s |->
         IF k = 0 THEN m
         ELSE IF m.buf[k] \in DOMAIN Utf8 THEN Reformed(g[k - 1], k) ELSE g[k - 1]]

LEMMA ConversionsExist ==
  ASSUME NEW m, NEW s \in Nat
  PROVE  \E g : Conversions(m, s, g)
<1> DEFINE T == {k \in Nat : ~\E g : Conversions(m, k, g)}
           Conversion(k, c) == IF m.buf[k] \in DOMAIN Utf8 THEN Reformed(c, k) ELSE c
<1>1. SUFFICES ASSUME T # {}
               PROVE  FALSE
  OBVIOUS
<1>2. PICK x \in T : \A y \in T : x <= y
  BY <1>1, LeastIn
<1>3. x # 0
  <2> DEFINE g == [k \in 0 .. 0 |-> m]
  <2>1. g = [k \in 0 .. 0 |-> IF k = 0 THEN m ELSE Conversion(k, g[k - 1])]
    BY \A k \in 0 .. 0 : k = 0
  <2>2. Conversions(m, 0, g)
    BY <2>1 DEF Conversions
  <2>3. QED
    BY <2>2
<1>4. x - 1 \in Nat /\ x - 1 \notin T
  BY <1>2, <1>3
<1>5. PICK g : Conversions(m, x - 1, g)
  BY <1>4
<1>9. g = [k \in 0 .. x - 1 |-> IF k = 0 THEN m ELSE Conversion(k, g[k - 1])]
  BY <1>5 DEF Conversions
<1> HIDE DEF Conversion
<1> DEFINE f == [k \in 0 .. x |-> IF k = x THEN Conversion(x, g[x - 1]) ELSE g[k]]
<1>6. \A k \in 0 .. x : f[k] = IF k = 0 THEN m ELSE Conversion(k, f[k - 1])
  <2>1. ASSUME NEW k \in 0 .. x, k # x
        PROVE  /\ k \in 0 .. x - 1 /\ f[k] = g[k]
               /\ k # 0 => k - 1 \in 0 .. x - 1 /\ k - 1 \in 0 .. x /\ f[k - 1] = g[k - 1]
    BY <1>4, <2>1
  <2>2. \A k \in 0 .. x - 1 : g[k] = IF k = 0 THEN m ELSE Conversion(k, g[k - 1])
    BY <1>9
  <2>3. x \in 0 .. x /\ x - 1 \in 0 .. x /\ x - 1 # x
    BY <1>3, <1>4
  <2>4. f[x] = Conversion(x, g[x - 1]) /\ f[x - 1] = g[x - 1]
    BY <2>3
  <2> HIDE DEF f
  <2>5. QED
    BY <1>3, <2>1, <2>2, <2>4
<1>7. f = [k \in 0 .. x |-> IF k = 0 THEN m ELSE Conversion(k, f[k - 1])]
  <2>1. f = [k \in 0 .. x |-> f[k]]
    OBVIOUS
  <2> HIDE DEF f
  <2>2. QED
    BY <1>6, <2>1
<1>8. Conversions(m, x, f)
  BY <1>7 DEF Conversions, Conversion
<1>10. QED
  BY <1>2, <1>8

LEMMA ConvertIs ==
  ASSUME NEW m
  PROVE  convert(m) = (CHOOSE g : Conversions(m, Len(m.buf), g))[Len(m.buf)]
BY Zenon DEF convert, Conversions

\* As far as the k-th index of m.
ConvertedTo(m, k, c) ==
  /\ Good(c) /\ Continues(m, c) /\ Rest(m, c)
  /\ \A i \in DOMAIN c.mpoldnew : i <= k
  /\ DOMAIN c.mpoldnew = {} => c = m

LEMMA ConvertOK ==
  ASSUME NameMapAssumption, FormsApart, NEW m, Good(m), DOMAIN m.mpoldnew = {}, NEW r, r = convert(m)
  PROVE  Good(r) /\ Continues(m, r) /\ Rest(m, r) /\ (DOMAIN r.mpoldnew = {} => r = m)
<1> DEFINE s == Len(m.buf)
           new == CHOOSE g : Conversions(m, s, g)
<1>1. s \in Nat
  <2>1. Whole(m)
    BY DEF Good
  <2>2. QED
    BY <2>1, NmtIs
<1>2. Conversions(m, s, new)
  BY <1>1, ConversionsExist
<1>3. r = new[s]
  BY ConvertIs
<1> HIDE DEF new
<1>4. \A k \in 0 .. s : new[k] =
        IF k = 0 THEN m ELSE IF m.buf[k] \in DOMAIN Utf8 THEN Reformed(new[k - 1], k) ELSE new[k - 1]
  BY <1>2 DEF Conversions
<1>5. ConvertedTo(m, 0, new[0])
  <2>1. new[0] = m
    BY <1>1, <1>4
  <2>2. QED
    BY <1>1, <2>1 DEF ConvertedTo, Continues, Rest
<1>6. ConvertedTo(m, s, new[s])
  <2> DEFINE T == {k \in 0 .. s : ~ConvertedTo(m, k, new[k])}
  <2>1. SUFFICES ASSUME T # {}
                 PROVE  FALSE
    BY <1>1
  <2>2. T \in SUBSET Nat
    BY <1>1
  <2>3. PICK k \in T : \A y \in T : k <= y
    BY <2>1, <2>2, LeastIn
  <2>4. k # 0 /\ k \in 0 .. s
    BY <1>5, <2>3
  <2>5. k - 1 \in 0 .. s /\ ~(k <= k - 1) /\ k \in 1 .. s
    BY <1>1, <2>4
  <2> DEFINE c == new[k - 1]
  <2>6. ConvertedTo(m, k - 1, c)
    BY <2>3, <2>5
  <2>7. new[k] = IF m.buf[k] \in DOMAIN Utf8 THEN Reformed(c, k) ELSE c
    BY <1>4, <2>4
  <2> HIDE DEF c
  <2>8. /\ Good(c) /\ Continues(m, c) /\ Rest(m, c)
        /\ (\A i \in DOMAIN c.mpoldnew : i <= k - 1)
        /\ DOMAIN c.mpoldnew = {} => c = m
    BY <2>6 DEF ConvertedTo
  <2>9. Whole(c) /\ Len(c.buf) \in Nat /\ DOMAIN c.mpoldnew \subseteq 1 .. Len(c.buf)
    <3>1. Whole(c)
      BY <2>8 DEF Good
    <3>2. QED
      BY <3>1, NmtIs DEF Whole, Mapped
  <2>10. \A i \in DOMAIN c.mpoldnew : i <= k
    <3>1. ASSUME NEW i \in DOMAIN c.mpoldnew
          PROVE  i <= k
      <4>1. i \in Nat /\ i <= k - 1
        BY <2>8, <2>9
      <4>2. QED
        BY <2>5, <4>1
    <3>2. QED
      BY <3>1
  <2>11. k \in 1 .. Len(c.buf) /\ c.buf[k] = m.buf[k] /\ k \notin DOMAIN c.mpoldnew
    <3>1. Len(m.buf) <= Len(c.buf) /\ \A i \in 1 .. Len(m.buf) : c.buf[i] = m.buf[i]
      BY <2>8 DEF Continues
    <3>2. k \in 1 .. Len(c.buf) /\ c.buf[k] = m.buf[k]
      BY <1>1, <2>5, <2>9, <3>1
    <3>3. QED
      BY <2>5, <2>8, <3>2
  <2>12. CASE m.buf[k] \in DOMAIN Utf8
    <3>1. new[k] = Reformed(c, k) /\ c.buf[k] \in DOMAIN Utf8
      BY <2>7, <2>11, <2>12
    <3>2. /\ Good(new[k]) /\ Continues(c, new[k]) /\ Rest(c, new[k])
          /\ DOMAIN new[k].mpoldnew = DOMAIN c.mpoldnew \cup {k}
      BY <2>8, <2>11, <3>1, ReformedOK
    <3>3. Len(new[k].buf) \in Nat
      <4>1. Whole(new[k])
        BY <3>2 DEF Good
      <4>2. QED
        BY <4>1, NmtIs
    <3>4. Continues(m, new[k])
      BY <1>1, <2>8, <2>9, <3>2, <3>3, ContinuesOn
    <3>5. Rest(m, new[k])
      BY <2>8, <3>2 DEF Rest
    <3>6. \A i \in DOMAIN new[k].mpoldnew : i <= k
      BY <2>5, <2>10, <3>2
    <3>7. DOMAIN new[k].mpoldnew # {}
      BY <3>2
    <3>8. QED
      BY <2>3, <3>2, <3>4, <3>5, <3>6, <3>7 DEF ConvertedTo
  <2>13. CASE m.buf[k] \notin DOMAIN Utf8
    <3>1. new[k] = c
      BY <2>7, <2>13
    <3>2. QED
      BY <2>3, <2>8, <2>10, <3>1 DEF ConvertedTo
  <2>14. QED
    BY <2>12, <2>13
<1>7. QED
  BY <1>3, <1>6 DEF ConvertedTo

-----------------------------------------------------------------------------
(* The stream.                                                             *)

IsStream(s) ==
  /\ s = [ver |-> s.ver, cb |-> s.cb, names |-> s.names, tab |-> s.tab, cni |-> s.cni]
  /\ s.names \in Seq(Names)

\* s is what a save of m leaves.
StreamHolds(s, m) ==
  s.ver = m.ver /\ s.cb = Len(m.buf) /\ s.names = m.buf /\ s.tab = m.tab /\ s.cni = m.cni

\* The map that is read from s if nothing has to be converted.
Raw(s) ==
  [buf |-> s.names, tab |-> s.tab, cni |-> s.cni, cbReloaded |-> s.cb,
   fConvert |-> FALSE, ver |-> s.ver, mpoldnew |-> NoneNew]

Readable(s) == s.cni >= 0 => s.cb = Len(s.names) /\ Good(Raw(s))

\* The first n names of two sequences are the same.
SameFirst(s, t, n) == n <= Len(s) /\ n <= Len(t) /\ \A i \in 1 .. n : s[i] = t[i]

KeptOK(m, s) == KeptSize(m) >= 0 => s.ver = m.ver /\ SameFirst(s.names, m.buf, KeptSize(m))

\* What holds of a map m, its stream s, what was committed, d, and the flag saved, v.
Coherent(m, s, d, v) ==
  /\ Good(m) /\ -1 <= m.cbReloaded /\ v \in BOOLEAN
  /\ IsStream(s) /\ IsStream(d) /\ Readable(d)
  /\ SameFirst(d.names, m.buf, Len(d.names))
  /\ KeptOK(m, s)
  /\ DOMAIN m.mpoldnew = {} /\ (v \/ Len(m.buf) = KeptSize(m)) => StreamHolds(s, m)

NmtInv == Coherent(nmt, stream, disk, saved)

LEMMA PrefixIs ==
  ASSUME NEW s \in Seq(Names), NEW t \in Seq(Names), NEW n \in Nat, SameFirst(s, t, n)
  PROVE  /\ SubSeq(s, 1, n) = SubSeq(t, 1, n) /\ SubSeq(s, 1, n) \in Seq(Names)
         /\ Len(SubSeq(s, 1, n)) = n /\ (\A i \in 1 .. n : SubSeq(s, 1, n)[i] = s[i])
         /\ IsPrefix(SubSeq(t, 1, n), s)
<1>1. /\ Len(s) \in Nat /\ s \in [1 .. Len(s) -> Names]
      /\ Len(t) \in Nat /\ t \in [1 .. Len(t) -> Names]
  BY LenProperties
<1>2. n <= Len(s) /\ n <= Len(t) /\ \A i \in 1 .. n : s[i] = t[i]
  BY DEF SameFirst
<1>3. \A i \in 1 .. n : i \in 1 .. Len(s) /\ i \in 1 .. Len(t)
  BY <1>1, <1>2
<1>4. \A i \in 1 .. n : s[i] \in Names /\ t[i] \in Names
  BY <1>1, <1>3
<1>5. 1 \in Int /\ n \in Int /\ (IF 1 <= n THEN n - 1 + 1 ELSE 0) = n /\ n - 1 + 1 = n
  OBVIOUS
<1>6. /\ SubSeq(s, 1, n) \in Seq(Names) /\ Len(SubSeq(s, 1, n)) = n
      /\ \A i \in 1 .. n : SubSeq(s, 1, n)[i] = s[1 + i - 1]
  BY <1>4, <1>5, SubSeqProperties
<1>7. /\ SubSeq(t, 1, n) \in Seq(Names) /\ Len(SubSeq(t, 1, n)) = n
      /\ \A i \in 1 .. n : SubSeq(t, 1, n)[i] = t[1 + i - 1]
  BY <1>4, <1>5, SubSeqProperties
<1>8. \A i \in 1 .. n : 1 + i - 1 = i
  OBVIOUS
<1>9. SubSeq(s, 1, n) = SubSeq(t, 1, n)
  BY <1>2, <1>6, <1>7, <1>8, SeqEqual
<1>10. SubSeq(SubSeq(t, 1, n), 1, n) = SubSeq(t, 1, n)
  BY <1>7, SubSeqFull
<1>11. IsPrefix(SubSeq(t, 1, n), s)
  BY <1>2, <1>7, <1>9, <1>10 DEF IsPrefix
<1>12. QED
  BY <1>6, <1>8, <1>9, <1>11

LEMMA MaxOf ==
  ASSUME NEW x \in Int, -1 <= x
  PROVE  Max({x, 0}) = IF x >= 0 THEN x ELSE 0
<1>1. \E y \in {x, 0} : \A z \in {x, 0} : y >= z
  OBVIOUS
<1>2. Max({x, 0}) \in {x, 0} /\ \A z \in {x, 0} : Max({x, 0}) >= z
  BY <1>1 DEF Max
<1>3. QED
  BY <1>2

LEMMA KeptIs ==
  ASSUME NEW m, IsNMT(m), -1 <= m.cbReloaded
  PROVE  /\ KeptSize(m) \in Int /\ -1 <= KeptSize(m)
         /\ KeptSize(m) >= 0 => ~m.fConvert /\ KeptSize(m) = m.cbReloaded
BY DEF IsNMT, KeptSize

\* What is after p of N: how many there are, and where they stand.
LEMMA RestIs ==
  ASSUME NEW N \in Nat, NEW p \in 0 .. N
  PROVE  /\ (IF p + 1 <= N THEN N - (p + 1) + 1 ELSE 0) = N - p
         /\ N - (p + 1) + 1 = N - p
         /\ \A i \in 1 .. N - p : (p + 1) + i - 1 = p + i
OBVIOUS

\* A save keeps what the stream has of the buffer, however far it comes, and at its
\* end the stream is the map.
LEMMA WrittenOK ==
  ASSUME NameMapAssumption, NEW m, IsNMT(m), -1 <= m.cbReloaded, NEW s, IsStream(s), KeptOK(m, s),
         NEW k \in 0 .. Pieces, NEW x, x = Written(m, s, k)
  PROVE  IsStream(x) /\ KeptOK(m, x) /\ (k = Pieces => StreamHolds(x, m))
<1> DEFINE keep == KeptSize(m)
           N == Len(m.buf)
           first == SubSeq(s.names, 1, keep)
           more == SubSeq(m.buf, Max({keep, 0}) + 1, N)
           start == IF k = 0 THEN s
                    ELSE IF keep >= 0
                         THEN IF k = 1 THEN [s EXCEPT !.cb = N]
                              ELSE [s EXCEPT !.cb = N, !.tab = <<>>, !.cni = -1, !.names = first]
                         ELSE [NoStream EXCEPT !.ver = IF k = 1 THEN 0 ELSE m.ver,
                                               !.cb = IF k = 1 THEN 0 ELSE N]
<1>1. keep \in Int /\ -1 <= keep
  BY KeptIs
<1>2. m.buf \in Seq(Names) /\ N \in Nat /\ m.buf \in [1 .. N -> Names]
  BY LenProperties DEF IsNMT
<1>3. s = [ver |-> s.ver, cb |-> s.cb, names |-> s.names, tab |-> s.tab, cni |-> s.cni]
      /\ s.names \in Seq(Names) /\ Len(s.names) \in Nat /\ s.names \in [1 .. Len(s.names) -> Names]
  BY LenProperties DEF IsStream
<1>4. keep >= 0 => s.ver = m.ver /\ SameFirst(s.names, m.buf, keep)
  BY DEF KeptOK
<1>5. keep >= 0 =>
        /\ keep \in Nat /\ keep <= N
        /\ first = SubSeq(m.buf, 1, keep) /\ first \in Seq(Names) /\ Len(first) = keep
        /\ \A i \in 1 .. keep : first[i] = s.names[i] /\ s.names[i] = m.buf[i]
  <2>1. SUFFICES ASSUME keep >= 0
                 PROVE  /\ keep \in Nat /\ keep <= N
                        /\ first = SubSeq(m.buf, 1, keep) /\ first \in Seq(Names) /\ Len(first) = keep
                        /\ \A i \in 1 .. keep : first[i] = s.names[i] /\ s.names[i] = m.buf[i]
    OBVIOUS
  <2>2. keep \in Nat /\ SameFirst(s.names, m.buf, keep)
    BY <1>1, <1>4, <2>1
  <2>3. QED
    BY <1>2, <1>3, <2>2, PrefixIs DEF SameFirst
<1>6. \A i \in 1 .. N : m.buf[i] \in Names
  BY <1>2
<1> DEFINE p == IF keep >= 0 THEN keep ELSE 0
<1>7. Max({keep, 0}) = p
  BY <1>1, MaxOf
<1>8. p \in 0 .. N
  BY <1>1, <1>2, <1>5
<1>9. /\ more \in Seq(Names) /\ Len(more) = N - p
      /\ \A i \in 1 .. N - p : more[i] = m.buf[p + i]
  <2>1. more = SubSeq(m.buf, p + 1, N)
    BY <1>7
  <2>2. p + 1 \in Int /\ N \in Int /\ \A i \in p + 1 .. N : i \in 1 .. N
    BY <1>2, <1>8
  <2>3. \A i \in p + 1 .. N : m.buf[i] \in Names
    BY <1>6, <2>2
  <2>4. /\ SubSeq(m.buf, p + 1, N) \in Seq(Names)
        /\ Len(SubSeq(m.buf, p + 1, N)) = IF p + 1 <= N THEN N - (p + 1) + 1 ELSE 0
        /\ \A i \in 1 .. N - (p + 1) + 1 : SubSeq(m.buf, p + 1, N)[i] = m.buf[(p + 1) + i - 1]
    BY <2>2, <2>3, SubSeqProperties
  <2>5. (IF p + 1 <= N THEN N - (p + 1) + 1 ELSE 0) = N - p /\ N - (p + 1) + 1 = N - p
        /\ \A i \in 1 .. N - p : (p + 1) + i - 1 = p + i
    <3>1. N \in Nat
      BY <1>2
    <3> HIDE DEF N, p
    <3>2. QED
      BY <3>1, <1>8, RestIs
  <2>6. QED
    BY <2>1, <2>4, <2>5
<1>10. k \in 0 .. 5
  BY DEF Pieces
<1>11. x = [start EXCEPT !.names = IF k < 3 THEN @ ELSE @ \o more,
                         !.tab = IF k < 4 THEN @ ELSE m.tab,
                         !.cni = IF k < 5 THEN @ ELSE m.cni]
  BY DEF Written
<1>12. /\ start = [ver |-> start.ver, cb |-> start.cb, names |-> start.names,
                   tab |-> start.tab, cni |-> start.cni]
       /\ k = 0 => start = s
       /\ k > 0 => start.cb = IF keep >= 0 THEN N ELSE IF k = 1 THEN 0 ELSE N
       /\ keep >= 0 => start.ver = s.ver
       /\ keep >= 0 => start.names = IF k < 2 THEN s.names ELSE first
       /\ ~(keep >= 0) /\ k > 0 => start.names = <<>> /\ (k > 1 => start.ver = m.ver)
  <2>1. NoStream = [ver |-> 0, cb |-> 0, names |-> <<>>, tab |-> <<>>, cni |-> -1]
    BY DEF NoStream
  <2> HIDE DEF keep, first, N
  <2>2. CASE k = 0
    BY <1>3, <1>10, <2>2
  <2>3. CASE k # 0 /\ keep >= 0
    <3>1. k > 0 /\ (k < 2 <=> k = 1)
      BY <1>10, <2>3
    <3>2. CASE k = 1
      <4>1. start = [s EXCEPT !.cb = N]
        BY <2>3, <3>2
      <4> HIDE DEF start
      <4>2. QED
        BY <1>3, <2>3, <3>1, <3>2, <4>1
    <3>3. CASE k # 1
      <4>1. start = [s EXCEPT !.cb = N, !.tab = <<>>, !.cni = -1, !.names = first]
        BY <2>3, <3>3
      <4> HIDE DEF start
      <4>2. QED
        BY <1>3, <2>3, <3>1, <3>3, <4>1
    <3>4. QED
      BY <3>2, <3>3
  <2>4. CASE k # 0 /\ ~(keep >= 0)
    <3> DEFINE v1 == IF k = 1 THEN 0 ELSE m.ver
               c1 == IF k = 1 THEN 0 ELSE N
    <3>1. start = [NoStream EXCEPT !.ver = v1, !.cb = c1]
      BY <2>4
    <3> HIDE DEF start, v1, c1
    <3>5. /\ NoStream = [ver |-> NoStream.ver, cb |-> NoStream.cb, names |-> NoStream.names,
                          tab |-> NoStream.tab, cni |-> NoStream.cni]
          /\ NoStream.names = <<>> /\ NoStream.tab = <<>> /\ NoStream.cni = -1
      BY <2>1
    <3>6. start = [ver |-> v1, cb |-> c1, names |-> <<>>, tab |-> <<>>, cni |-> -1]
      BY <3>1, <3>5
    <3>2. start = [ver |-> IF k = 1 THEN 0 ELSE m.ver, cb |-> IF k = 1 THEN 0 ELSE N, names |-> <<>>,
                   tab |-> <<>>, cni |-> -1]
      BY <3>6 DEF v1, c1
    <3>3. k > 1 => k # 1
      BY <1>10
    <3>4. QED
      BY <2>4, <3>2, <3>3
  <2>5. QED
    BY <2>2, <2>3, <2>4
<1> HIDE DEF start, first, more, N, p
<1>13. /\ x = [ver |-> x.ver, cb |-> x.cb, names |-> x.names, tab |-> x.tab, cni |-> x.cni]
       /\ x.ver = start.ver /\ x.cb = start.cb
       /\ x.names = (IF k < 3 THEN start.names ELSE start.names \o more)
       /\ k = 5 => x.tab = m.tab /\ x.cni = m.cni
  <2>1. k = 5 => ~(k < 4) /\ ~(k < 5)
    BY <1>10
  <2>2. x = [ver |-> start.ver, cb |-> start.cb,
             names |-> IF k < 3 THEN start.names ELSE start.names \o more,
             tab |-> IF k < 4 THEN start.tab ELSE m.tab, cni |-> IF k < 5 THEN start.cni ELSE m.cni]
    BY <1>11, <1>12
  <2>3. QED
    BY <2>1, <2>2
<1>14. start.names \in Seq(Names)
  <2>1. <<>> \in Seq(Names)
    BY EmptySeq
  <2>2. CASE k = 0
    BY <1>3, <1>12, <2>2
  <2>3. CASE k # 0
    <3>1. k > 0
      BY <1>10, <2>3
    <3>2. QED
      BY <1>3, <1>5, <1>12, <2>1, <3>1
  <2>4. QED
    BY <2>2, <2>3
<1>15. /\ start.names \o more \in Seq(Names)
       /\ Len(start.names \o more) = Len(start.names) + Len(more)
       /\ \A i \in 1 .. Len(start.names) + Len(more) :
            (start.names \o more)[i] =
              IF i <= Len(start.names) THEN start.names[i] ELSE more[i - Len(start.names)]
  BY <1>9, <1>14, ConcatProperties
<1>16. IsStream(x)
  BY <1>13, <1>14, <1>15 DEF IsStream
<1>17. ASSUME keep >= 0
       PROVE  x.ver = m.ver /\ SameFirst(x.names, m.buf, keep)
  <2>1. keep \in Nat /\ keep <= N /\ \A i \in 1 .. keep : s.names[i] = m.buf[i]
    BY <1>5, <1>17
  <2>2. keep <= Len(start.names) /\ Len(start.names) \in Nat
        /\ \A i \in 1 .. keep : start.names[i] = m.buf[i]
    <3>1. keep <= Len(s.names)
      BY <1>4, <1>17 DEF SameFirst
    <3>2. start.names = s.names \/ start.names = first
      BY <1>12, <1>17
    <3>3. QED
      BY <1>3, <1>5, <1>17, <3>1, <3>2
  <2>3. keep <= Len(x.names) /\ \A i \in 1 .. keep : x.names[i] = m.buf[i]
    <3>1. CASE k < 3
      BY <1>13, <2>2, <3>1
    <3>2. CASE ~(k < 3)
      <4>1. x.names = start.names \o more
        BY <1>13, <3>2
      <4>2. Len(more) \in Nat
        BY <1>2, <1>8, <1>9 DEF N
      <4>3. \A i \in 1 .. keep : i \in 1 .. Len(start.names) + Len(more) /\ i <= Len(start.names)
        BY <2>1, <2>2, <4>2
      <4>4. keep <= Len(x.names)
        BY <1>15, <2>1, <2>2, <4>1, <4>2
      <4>5. \A i \in 1 .. keep : x.names[i] = start.names[i]
        BY <1>15, <4>1, <4>3
      <4>6. QED
        BY <2>2, <4>4, <4>5
    <3>3. QED
      BY <3>1, <3>2
  <2>4. x.ver = m.ver
    BY <1>4, <1>12, <1>13, <1>17
  <2>5. QED
    BY <2>1, <2>3, <2>4 DEF SameFirst, N
<1>18. KeptOK(m, x)
  BY <1>17 DEF KeptOK
<1>19. ASSUME k = Pieces
       PROVE  StreamHolds(x, m)
  <2>1. k = 5 /\ k > 0 /\ k > 1 /\ ~(k < 3) /\ ~(k < 2) /\ k # 1
    BY <1>19 DEF Pieces
  <2>2. x.tab = m.tab /\ x.cni = m.cni /\ x.names = start.names \o more
    BY <1>13, <2>1
  <2>3. x.cb = N
    BY <1>12, <1>13, <2>1
  <2>4. x.ver = m.ver
    BY <1>4, <1>12, <1>13, <2>1
  <2>5. Len(start.names) = p /\ \A i \in 1 .. p : start.names[i] = m.buf[i]
    <3>1. CASE keep >= 0
      BY <1>5, <1>12, <2>1, <3>1 DEF p
    <3>2. CASE ~(keep >= 0)
      <4>1. start.names = <<>> /\ p = 0
        BY <1>12, <2>1, <3>2 DEF p
      <4>2. QED
        BY <4>1
    <3>3. QED
      BY <3>1, <3>2
  <2>6. Len(x.names) = N
    BY <1>2, <1>8, <1>9, <1>15, <2>2, <2>5 DEF N
  <2>7. ASSUME NEW i \in 1 .. N
        PROVE  x.names[i] = m.buf[i]
    <3>0. N \in Nat /\ p \in Nat /\ p <= N /\ i \in Nat
      BY <1>2, <1>8 DEF N
    <3>1. x.names[i] = IF i <= p THEN start.names[i] ELSE more[i - p]
      BY <1>9, <1>15, <2>2, <2>5, <2>6, <3>0
    <3>2. CASE i <= p
      <4>1. i \in 1 .. p
        BY <3>0, <3>2
      <4>2. QED
        BY <2>5, <3>1, <3>2, <4>1
    <3>3. CASE ~(i <= p)
      <4>1. i - p \in 1 .. N - p /\ p + (i - p) = i
        BY <3>0, <3>3
      <4>2. QED
        BY <1>9, <3>1, <3>3, <4>1
    <3>4. QED
      BY <3>2, <3>3
  <2>8. x.names \in Seq(Names)
    BY <1>16 DEF IsStream
  <2>9. x.names = m.buf
    BY <1>2, <2>6, <2>7, <2>8, SeqEqual DEF N
  <2>10. QED
    BY <2>2, <2>3, <2>4, <2>9 DEF StreamHolds, N
<1>20. QED
  BY <1>16, <1>18, <1>19

\* What is read from a stream is in order, for whatever version it is asked.
LEMMA LoadedOK ==
  ASSUME NameMapAssumption, NEW s, IsStream(s), s.cni >= 0, Readable(s), NEW ver \in Versions,
         NEW r, r = Loaded(s, ver)
  PROVE  /\ Good(r) /\ r.buf = s.names /\ r.cbReloaded = s.cb /\ s.cb = Len(s.names)
         /\ r.fConvert = (s.ver < ver) /\ DOMAIN r.mpoldnew = {}
         /\ ~r.fConvert => StreamHolds(s, r)
<1> DEFINE m == Raw(s)
           q == [buf |-> s.names, tab |-> s.tab, cni |-> s.cni, cbReloaded |-> s.cb,
                 fConvert |-> s.ver < ver, ver |-> HashFor(s, ver), mpoldnew |-> NoneNew]
<1>1. Good(m) /\ s.cb = Len(s.names)
  BY DEF Readable
<1>2. /\ m.buf = s.names /\ m.tab = s.tab /\ m.cni = s.cni /\ m.cbReloaded = s.cb
      /\ m.fConvert = FALSE /\ m.ver = s.ver /\ m.mpoldnew = NoneNew /\ DOMAIN m.mpoldnew = {}
  BY DEF Raw, NoneNew
<1>3. /\ q.buf = s.names /\ q.tab = s.tab /\ q.cni = s.cni /\ q.cbReloaded = s.cb
      /\ q.fConvert = (s.ver < ver) /\ q.ver = HashFor(s, ver) /\ q.mpoldnew = NoneNew
      /\ q = [buf |-> q.buf, tab |-> q.tab, cni |-> q.cni, cbReloaded |-> q.cbReloaded,
              fConvert |-> q.fConvert, ver |-> q.ver, mpoldnew |-> q.mpoldnew]
  OBVIOUS
<1>4. r = IF q.fConvert THEN rehash(q, SlotCount(q.tab)) ELSE q
  BY DEF Loaded
<1> HIDE DEF m, q
<1>5. Whole(m) /\ FoundAll(m) /\ Len(m.buf) < SlotCount(m.tab) /\ m.cni = Len(m.buf) /\ IsNMT(m)
  BY <1>1 DEF Good, Whole
<1>6. m.buf \in Seq(Names) /\ m.cni \in Nat /\ m.cbReloaded \in Int /\ m.ver \in 0 .. 2
  BY <1>5 DEF IsNMT
<1>7. ver \in 1 .. 2 /\ q.ver = IF s.ver < ver THEN ver ELSE s.ver
  BY <1>3 DEF Versions, HashFor
<1>8. q.ver \in 0 .. 2 /\ q.fConvert \in BOOLEAN
  BY <1>2, <1>3, <1>6, <1>7
<1>9. IsNMT(q)
  BY <1>2, <1>3, <1>6, <1>8 DEF IsNMT
<1>10. q.buf = m.buf /\ q.tab = m.tab /\ q.mpoldnew = m.mpoldnew
  BY <1>2, <1>3
<1>11. Whole(q)
  BY <1>5, <1>9, <1>10 DEF Whole, Mapped, OnceEach, Tabled
<1>12. CASE q.fConvert
  <2>1. r = rehash(q, SlotCount(q.tab))
    BY <1>4, <1>12
  <2>2. SlotCount(q.tab) \in Nat \ {0} /\ Len(q.buf) < SlotCount(q.tab)
    BY <1>5, <1>10, NmtIs
  <2>3. /\ Whole(r) /\ FoundAll(r) /\ SlotCount(r.tab) = SlotCount(q.tab)
        /\ r.buf = q.buf /\ r.cni = q.cni /\ r.cbReloaded = q.cbReloaded
        /\ r.fConvert = q.fConvert /\ r.ver = q.ver /\ r.mpoldnew = q.mpoldnew
    BY <1>11, <2>1, <2>2, RehashOK
  <2>4. Good(r)
    BY <1>2, <1>3, <1>5, <2>2, <2>3 DEF Good
  <2>5. QED
    BY <1>1, <1>2, <1>3, <1>12, <2>3, <2>4
<1>13. CASE ~q.fConvert
  <2>1. r = q /\ q.ver = m.ver
    BY <1>2, <1>3, <1>4, <1>7, <1>13
  <2>2. Whole(q) /\ FoundAll(q)
    BY <1>5, <1>9, <1>10, <2>1, GoodAlike DEF SameNew
  <2>3. Good(q)
    BY <1>2, <1>3, <1>5, <2>2 DEF Good
  <2>4. StreamHolds(s, q)
    BY <1>1, <1>2, <1>3, <2>1 DEF StreamHolds
  <2>5. QED
    BY <1>1, <1>2, <1>3, <2>1, <2>3, <2>4
<1>14. QED
  BY <1>12, <1>13

LEMMA AllFoundIs ==
  ASSUME NameMapAssumption, NEW m, Good(m)
  PROVE  AllFound(m)
<1>1. Whole(m) /\ FoundAll(m) /\ Len(m.buf) < SlotCount(m.tab) /\ m.cni = Len(m.buf)
  BY DEF Good
<1>2. /\ Len(m.buf) \in Nat /\ DOMAIN m.buf = 1 .. Len(m.buf) /\ NamesOf(m) \in [1 .. Len(m.buf) -> Names]
      /\ \A ni \in 1 .. Len(m.buf) : NamesOf(m)[ni] = szForNi(m, ni)
  BY <1>1, NmtIs
<1>3. \A sz \in Names : Finds(m, sz)
  BY <1>1, FindIs
<1>4. ASSUME NEW ni \in DOMAIN m.buf, NEW sz, sz = szForNi(m, ni)
      PROVE  niForSz(m, sz) # niNil /\ szForNi(m, niForSz(m, sz)) = sz
  <2>1. sz = NamesOf(m)[ni] /\ sz \in Names
    BY <1>2, <1>4
  <2>2. LeadsTo(m, m.tab, sz)
    BY <1>1, <1>2, <2>1 DEF FoundAll
  <2>3. niForSz(m, sz) # niNil
    BY <1>1, <2>1, <2>2, FindIs
  <2>4. niForSz(m, sz) \in 1 .. Len(m.buf) /\ NamesOf(m)[niForSz(m, sz)] = sz
    BY <1>1, <2>1, <2>3, FindIs
  <2>5. QED
    BY <1>2, <2>3, <2>4
<1>5. Cardinality(NIsIn(m.tab)) = Len(m.buf)
  <2>1. NIsIn(m.tab) = 1 .. Len(m.buf)
    BY <1>1 DEF Whole, Tabled
  <2>2. 1 \in Int /\ Len(m.buf) \in Int
    BY <1>2
  <2>3. Cardinality(1 .. Len(m.buf)) = IF 1 > Len(m.buf) THEN 0 ELSE Len(m.buf) - 1 + 1
    BY <2>2, FS_Interval
  <2>4. QED
    BY <1>2, <2>1, <2>3
<1>6. \A ni \in DOMAIN m.buf :
        niForSz(m, szForNi(m, ni)) # niNil
        /\ szForNi(m, niForSz(m, szForNi(m, ni))) = szForNi(m, ni)
  BY <1>4
<1>7. QED
  BY <1>1, <1>3, <1>5, <1>6 DEF AllFound
-----------------------------------------------------------------------------
(* The calls keep the map, its stream and the disk coherent.               *)

LEMMA NewOK ==
  ASSUME NameMapAssumption, NEW ver \in Versions, NEW m, m = NewNMT(ver)
  PROVE  Coherent(m, NoStream, NoStream, FALSE)
<1>1. /\ m.buf = <<>> /\ m.tab = NoneIn(1) /\ m.cni = 0 /\ m.cbReloaded = -1
      /\ m.fConvert = FALSE /\ m.ver = ver /\ m.mpoldnew = NoneNew /\ DOMAIN m.mpoldnew = {}
      /\ m = [buf |-> m.buf, tab |-> m.tab, cni |-> m.cni, cbReloaded |-> m.cbReloaded,
              fConvert |-> m.fConvert, ver |-> m.ver, mpoldnew |-> m.mpoldnew]
  BY DEF NewNMT, NoneNew
<1>2. <<>> \in Seq(Names) /\ Len(<<>>) = 0
  BY EmptySeq
<1>3. ver \in 0 .. 2
  BY DEF Versions
<1>4. IsNMT(m)
  <2>1. m.fConvert \in BOOLEAN
    BY <1>1
  <2>2. m.buf \in Seq(Names) /\ m.cni \in Nat /\ m.cbReloaded \in Int /\ m.ver \in 0 .. 2
    BY <1>1, <1>2, <1>3
  <2>3. QED
    BY <1>1, <2>1, <2>2 DEF IsNMT
<1>5. Len(m.buf) = 0 /\ 1 .. 0 = {}
  BY <1>1, <1>2
<1>6. SlotCount(m.tab) = 1 /\ IsTable(m.tab, 1, 0) /\ NIsIn(m.tab) = {}
  BY <1>1, NoEntry, TableIs
<1>7. Mapped(m) /\ OnceEach(m)
  BY <1>1, <1>5 DEF Mapped, OnceEach
<1>8. Tabled(m)
  BY <1>5, <1>6 DEF Tabled
<1>9. FoundAll(m)
  BY <1>5 DEF FoundAll
<1>10. Good(m)
  BY <1>1, <1>4, <1>5, <1>6, <1>7, <1>8, <1>9 DEF Good, Whole
<1>11. NoStream.cni = -1 /\ NoStream.names = <<>>
       /\ NoStream = [ver |-> NoStream.ver, cb |-> NoStream.cb, names |-> NoStream.names,
                      tab |-> NoStream.tab, cni |-> NoStream.cni]
  BY DEF NoStream
<1>12. IsStream(NoStream) /\ Readable(NoStream)
  BY <1>2, <1>11 DEF IsStream, Readable
<1>13. SameFirst(NoStream.names, m.buf, Len(NoStream.names))
  BY <1>1, <1>2, <1>11 DEF SameFirst
<1>14. KeptSize(m) = -1
  BY <1>1 DEF KeptSize
<1>15. KeptOK(m, NoStream) /\ Len(m.buf) # KeptSize(m)
  BY <1>5, <1>14 DEF KeptOK
<1>16. -1 <= m.cbReloaded
  BY <1>1
<1>17. QED
  BY <1>10, <1>12, <1>13, <1>15, <1>16 DEF Coherent

\* A map that was just read goes with the stream it was read from.
LEMMA ReadOK ==
  ASSUME NameMapAssumption, NEW s, IsStream(s), s.cni >= 0, Readable(s), NEW ver \in Versions,
         NEW r, r = Loaded(s, ver), NEW v \in BOOLEAN, v => ~r.fConvert
  PROVE  Coherent(r, s, s, v)
<1>1. /\ Good(r) /\ r.buf = s.names /\ r.cbReloaded = s.cb /\ s.cb = Len(s.names)
      /\ DOMAIN r.mpoldnew = {} /\ (~r.fConvert => StreamHolds(s, r))
  BY LoadedOK
<1>2. s.names \in Seq(Names) /\ Len(s.names) \in Nat
  BY DEF IsStream
<1>3. SameFirst(s.names, r.buf, Len(s.names))
  BY <1>1, <1>2 DEF SameFirst
<1>4. r.fConvert \in BOOLEAN
  BY <1>1 DEF Good, Whole, IsNMT
<1>5. KeptSize(r) = IF r.fConvert THEN -1 ELSE Len(s.names)
  BY <1>1 DEF KeptSize
<1>6. r.fConvert => ~(KeptSize(r) >= 0) /\ Len(r.buf) # KeptSize(r)
  BY <1>1, <1>2, <1>5
<1>7. ~r.fConvert => s.ver = r.ver /\ KeptSize(r) = Len(s.names)
  BY <1>1, <1>5 DEF StreamHolds
<1>8. KeptOK(r, s)
  BY <1>3, <1>6, <1>7, <1>1 DEF KeptOK
<1>9. -1 <= r.cbReloaded
  BY <1>1, <1>2
<1>10. v \/ Len(r.buf) = KeptSize(r) => StreamHolds(s, r)
  BY <1>1, <1>6
<1>11. QED
  BY <1>1, <1>3, <1>8, <1>9, <1>10 DEF Coherent

\* The stream of the old format, with one name, is read without loss.
LEMMA OldOK ==
  ASSUME NameMapAssumption, NEW sz \in Names, NEW s, s = OldStream(sz)
  PROVE  IsStream(s) /\ s.cni >= 0 /\ Readable(s)
<1> DEFINE h == NameHash[0]
           a == h[sz]
           t == [i \in 0 .. 1 |-> IF i = a % 2 THEN 1 ELSE niNil]
           m == Raw(s)
<1>1. /\ s.ver = 0 /\ s.cb = 1 /\ s.names = <<sz>> /\ s.cni = 1 /\ s.tab = t
      /\ s = [ver |-> s.ver, cb |-> s.cb, names |-> s.names, tab |-> s.tab, cni |-> s.cni]
  BY DEF OldStream
<1>2. <<sz>> \in Seq(Names) /\ Len(<<sz>>) = 1 /\ <<sz>>[1] = sz
  OBVIOUS
<1>3. h \in [Names -> Nat] /\ a \in Nat
  BY DEF NameMapAssumption
<1> HIDE DEF h
<1> DEFINE e == a % 2
<1>4. e \in 0 .. 1
  <2> HIDE DEF a
  <2>1. QED
    BY <1>3
<1>5. t \in [0 .. 1 -> 0 .. 1] /\ t[e] = 1 /\ \A i \in 0 .. 1 : i # e => t[i] = niNil
  <2> HIDE DEF e
  <2>1. t = [i \in 0 .. 1 |-> IF i = e THEN 1 ELSE niNil]
    BY DEF e
  <2> HIDE DEF t
  <2>2. QED
    BY <1>4, <2>1 DEF niNil
<1> HIDE DEF e, t, a
<1>6. IsTable(t, 2, 1)
  <2>1. 2 \in Nat \ {0} /\ 2 - 1 = 1
    OBVIOUS
  <2>2. \A i, j \in 0 .. 1 : t[i] = t[j] /\ t[i] # niNil => i = j
    BY <1>5
  <2>3. QED
    BY <1>5, <2>1, <2>2 DEF IsTable
<1>7. SlotCount(t) = 2 /\ NIsIn(t) = 1 .. 1
  <2>1. SlotCount(t) = 2 /\ NIsIn(t) = {t[i] : i \in 0 .. 2 - 1} \ {niNil}
    BY <1>6, TableIs
  <2>2. 2 - 1 = 1 /\ 1 # niNil /\ 1 .. 1 = {1}
    BY DEF niNil
  <2>3. {t[i] : i \in 0 .. 1} \ {niNil} = {1}
    BY <1>4, <1>5, <2>2
  <2>4. QED
    BY <2>1, <2>2, <2>3
<1>8. /\ m.buf = <<sz>> /\ m.tab = t /\ m.cni = 1 /\ m.cbReloaded = 1 /\ m.fConvert = FALSE
      /\ m.ver = 0 /\ m.mpoldnew = NoneNew /\ DOMAIN m.mpoldnew = {}
      /\ m = [buf |-> m.buf, tab |-> m.tab, cni |-> m.cni, cbReloaded |-> m.cbReloaded,
              fConvert |-> m.fConvert, ver |-> m.ver, mpoldnew |-> m.mpoldnew]
  BY <1>1 DEF Raw, NoneNew
<1> HIDE DEF m
<1>9. IsNMT(m)
  <2>1. m.fConvert \in BOOLEAN
    BY <1>8
  <2>2. m.buf \in Seq(Names) /\ m.cni \in Nat /\ m.cbReloaded \in Int /\ m.ver \in 0 .. 2
    BY <1>2, <1>8
  <2>3. QED
    BY <1>8, <2>1, <2>2 DEF IsNMT
<1>10. Len(m.buf) = 1 /\ m.buf[1] = sz /\ \A i \in 1 .. 1 : i = 1
  BY <1>2, <1>8
<1>11. Mapped(m) /\ OnceEach(m)
  BY <1>8, <1>10 DEF Mapped, OnceEach
<1>12. Tabled(m)
  BY <1>6, <1>7, <1>8, <1>10 DEF Tabled
<1>13. Whole(m)
  BY <1>9, <1>11, <1>12 DEF Whole
<1>14. FoundAll(m)
  <2>1. NamesOf(m)[1] = sz
    BY <1>8, <1>10 DEF NamesOf, szForNi
  <2>2. HashIn(m) = h
    BY <1>8 DEF HashIn, h
  <2>3. SlotAt(h, 2, sz, 0) = e
    <3>1. h[sz] = a /\ a \in Nat
      BY <1>3 DEF a
    <3>2. a + 0 = a
      BY <3>1
    <3>3. QED
      BY <3>1, <3>2 DEF SlotAt, e
  <2>4. LeadsIn(h, 2, t, NamesOf(m), sz, 0)
    BY <1>5, <2>1, <2>3 DEF LeadsIn, niNil
  <2>5. 0 \in 0 .. 2 - 1
    OBVIOUS
  <2>6. LeadsTo(m, t, sz)
    BY <1>7, <2>2, <2>4, <2>5 DEF LeadsTo, Leads
  <2>7. QED
    BY <1>8, <1>10, <2>1, <2>6 DEF FoundAll
<1>15. Good(m)
  BY <1>7, <1>8, <1>10, <1>13, <1>14 DEF Good
<1>16. IsStream(s) /\ s.cni >= 0 /\ s.cb = Len(s.names)
  BY <1>1, <1>2 DEF IsStream
<1>17. QED
  BY <1>15, <1>16 DEF Readable, m

LEMMA AddNameOK ==
  ASSUME NameMapAssumption, NEW m, NEW s, NEW d, NEW v, Coherent(m, s, d, v),
         NEW sz \in Names, DOMAIN m.mpoldnew = {}, NEW a, a = addNiForSz(m, sz)
  PROVE  Coherent(a, s, d, v /\ a.buf = m.buf)
<1>1. /\ Good(m) /\ -1 <= m.cbReloaded /\ v \in BOOLEAN
      /\ IsStream(s) /\ IsStream(d) /\ Readable(d)
      /\ SameFirst(d.names, m.buf, Len(d.names)) /\ KeptOK(m, s)
      /\ v \/ Len(m.buf) = KeptSize(m) => StreamHolds(s, m)
  BY DEF Coherent
<1>2. /\ Good(a) /\ (a = m \/ a.buf = Append(m.buf, sz)) /\ a.cbReloaded = m.cbReloaded
      /\ a.fConvert = m.fConvert /\ a.ver = m.ver /\ a.mpoldnew = m.mpoldnew
  BY <1>1, AddedNameOK
<1>3. CASE a = m
  BY <1>1, <1>3 DEF Coherent
<1>4. CASE a # m
  <2>1. a.buf = Append(m.buf, sz)
    BY <1>2, <1>4
  <2>2. IsNMT(m) /\ m.buf \in Seq(Names) /\ Len(m.buf) \in Nat
    BY <1>1 DEF Good, Whole, IsNMT
  <2>3. /\ Len(a.buf) = Len(m.buf) + 1 /\ \A i \in 1 .. Len(m.buf) : a.buf[i] = m.buf[i]
    BY <2>1, <2>2, AppendProperties
  <2>4. a.buf # m.buf /\ Len(m.buf) <= Len(a.buf)
    BY <2>2, <2>3
  <2>5. KeptSize(a) = KeptSize(m) /\ KeptSize(m) \in Int /\ -1 <= KeptSize(m)
    BY <1>1, <1>2, <2>2, KeptIs DEF KeptSize
  <2>6. \A t, n : n \in Nat /\ SameFirst(t, m.buf, n) /\ Len(t) \in Nat => SameFirst(t, a.buf, n)
    BY <2>2, <2>3 DEF SameFirst
  <2>7. Len(d.names) \in Nat /\ Len(s.names) \in Nat
    BY <1>1 DEF IsStream
  <2>8. SameFirst(d.names, a.buf, Len(d.names))
    BY <1>1, <2>6, <2>7
  <2>9. KeptOK(a, s)
    BY <1>1, <1>2, <2>5, <2>6, <2>7 DEF KeptOK
  <2>10. KeptSize(m) <= Len(m.buf)
    <3>1. CASE KeptSize(m) >= 0
      BY <1>1, <3>1 DEF KeptOK, SameFirst
    <3>2. CASE ~(KeptSize(m) >= 0)
      BY <2>2, <2>5, <3>2
    <3>3. QED
      BY <3>1, <3>2
  <2>11. Len(a.buf) # KeptSize(a)
    BY <2>2, <2>3, <2>5, <2>10
  <2>12. (v /\ a.buf = m.buf) = FALSE
    BY <2>4
  <2>13. QED
    BY <1>1, <1>2, <2>8, <2>9, <2>11, <2>12 DEF Coherent
<1>5. QED
  BY <1>3, <1>4

LEMMA ConvertStep ==
  ASSUME NameMapAssumption, FormsApart, NEW m, NEW s, NEW d, NEW v, Coherent(m, s, d, v),
         DOMAIN m.mpoldnew = {}, NEW c, c = convert(m)
  PROVE  Coherent(c, s, d, v)
<1>1. /\ Good(m) /\ -1 <= m.cbReloaded /\ v \in BOOLEAN
      /\ IsStream(s) /\ IsStream(d) /\ Readable(d)
      /\ SameFirst(d.names, m.buf, Len(d.names)) /\ KeptOK(m, s)
  BY DEF Coherent
<1>2. Good(c) /\ Continues(m, c) /\ Rest(m, c) /\ (DOMAIN c.mpoldnew = {} => c = m)
  BY <1>1, ConvertOK
<1>3. CASE c = m
  BY <1>3
<1>4. CASE c # m
  <2>1. DOMAIN c.mpoldnew # {}
    BY <1>2, <1>4
  <2>2. IsNMT(m) /\ IsNMT(c) /\ Len(m.buf) \in Nat /\ Len(c.buf) \in Nat
    BY <1>1, <1>2 DEF Good, Whole, IsNMT
  <2>3. Len(m.buf) <= Len(c.buf) /\ \A i \in 1 .. Len(m.buf) : c.buf[i] = m.buf[i]
    BY <1>2 DEF Continues
  <2>4. \A t, n : n \in Nat /\ SameFirst(t, m.buf, n) /\ Len(t) \in Nat => SameFirst(t, c.buf, n)
    BY <2>2, <2>3 DEF SameFirst
  <2>5. Len(d.names) \in Nat /\ Len(s.names) \in Nat
    BY <1>1 DEF IsStream
  <2>6. KeptSize(c) = KeptSize(m) /\ KeptSize(m) \in Int
    BY <1>1, <1>2, <2>2, KeptIs DEF KeptSize, Rest
  <2>7. KeptOK(c, s)
    BY <1>1, <1>2, <2>4, <2>5, <2>6 DEF KeptOK, Rest
  <2>8. SameFirst(d.names, c.buf, Len(d.names))
    BY <1>1, <2>4, <2>5
  <2>9. -1 <= c.cbReloaded
    BY <1>1, <1>2 DEF Rest
  <2>10. QED
    BY <1>1, <1>2, <2>1, <2>7, <2>8, <2>9 DEF Coherent
<1>5. QED
  BY <1>3, <1>4

\* A change of what was reloaded leaves the map as it is.
LEMMA SizeNoted ==
  ASSUME NEW m, Good(m), NEW r, IsNMT(r), r.buf = m.buf, r.tab = m.tab, r.cni = m.cni,
         r.ver = m.ver, r.mpoldnew = m.mpoldnew
  PROVE  Good(r)
<1>1. Whole(m) /\ FoundAll(m) /\ Len(m.buf) < SlotCount(m.tab) /\ m.cni = Len(m.buf)
  BY DEF Good
<1>2. Whole(r) /\ FoundAll(r)
  BY <1>1, GoodAlike DEF SameNew
<1>3. QED
  BY <1>1, <1>2 DEF Good

LEMMA SaveOK ==
  ASSUME NameMapAssumption, NEW m, NEW s, NEW d, NEW v, Coherent(m, s, d, v),
         NEW x, x = Written(m, s, Pieces),
         NEW r, r = [m EXCEPT !.cbReloaded = Len(m.buf), !.fConvert = FALSE]
  PROVE  Coherent(r, x, d, TRUE)
<1>1. /\ Good(m) /\ -1 <= m.cbReloaded
      /\ IsStream(s) /\ IsStream(d) /\ Readable(d)
      /\ SameFirst(d.names, m.buf, Len(d.names)) /\ KeptOK(m, s)
  BY DEF Coherent
<1>2. IsNMT(m) /\ m.buf \in Seq(Names) /\ Len(m.buf) \in Nat
  BY <1>1 DEF Good, Whole, IsNMT
<1>3. Pieces \in 0 .. Pieces
  BY DEF Pieces
<1>4. IsStream(x) /\ StreamHolds(x, m)
  BY <1>1, <1>2, <1>3, WrittenOK
<1>5. Len(m.buf) \in Int /\ FALSE \in BOOLEAN
  BY <1>2
<1>6. /\ Good(r) /\ r.buf = m.buf /\ r.tab = m.tab /\ r.cni = m.cni /\ r.ver = m.ver
      /\ r.cbReloaded = Len(m.buf) /\ r.fConvert = FALSE
  <2>1. /\ r.buf = m.buf /\ r.tab = m.tab /\ r.cni = m.cni /\ r.ver = m.ver /\ r.mpoldnew = m.mpoldnew
        /\ r.cbReloaded = Len(m.buf) /\ r.fConvert = FALSE
        /\ r = [buf |-> r.buf, tab |-> r.tab, cni |-> r.cni, cbReloaded |-> r.cbReloaded,
                fConvert |-> r.fConvert, ver |-> r.ver, mpoldnew |-> r.mpoldnew]
    BY <1>2 DEF IsNMT
  <2>2. m.cni \in Nat /\ m.ver \in 0 .. 2
    BY <1>2 DEF IsNMT
  <2>3. r.fConvert \in BOOLEAN
    BY <1>5, <2>1
  <2>4. IsNMT(r)
    BY <1>2, <1>5, <2>1, <2>2, <2>3 DEF IsNMT
  <2>5. QED
    BY <1>1, <2>1, <2>4, SizeNoted
<1>7. StreamHolds(x, r)
  BY <1>4, <1>6 DEF StreamHolds
<1>8. KeptSize(r) = Len(r.buf)
  BY <1>6 DEF KeptSize
<1>9. KeptOK(r, x)
  BY <1>2, <1>6, <1>7, <1>8 DEF KeptOK, StreamHolds, SameFirst
<1>10. -1 <= r.cbReloaded
  BY <1>2, <1>6
<1>11. QED
  BY <1>1, <1>4, <1>6, <1>7, <1>9, <1>10 DEF Coherent

LEMMA SaveFailsOK ==
  ASSUME NameMapAssumption, NEW m, NEW s, NEW d, NEW v, Coherent(m, s, d, v),
         Len(m.buf) # KeptSize(m), NEW k \in 0 .. Pieces - 1, NEW x, x = Written(m, s, k),
         NEW r, r = [m EXCEPT !.cbReloaded = KeptSize(m)]
  PROVE  Coherent(r, x, d, FALSE)
<1>1. /\ Good(m) /\ -1 <= m.cbReloaded
      /\ IsStream(s) /\ IsStream(d) /\ Readable(d)
      /\ SameFirst(d.names, m.buf, Len(d.names)) /\ KeptOK(m, s)
  BY DEF Coherent
<1>2. IsNMT(m) /\ m.fConvert \in BOOLEAN
  BY <1>1 DEF Good, Whole, IsNMT
<1>3. k \in 0 .. Pieces
  BY DEF Pieces
<1>4. IsStream(x) /\ KeptOK(m, x)
  BY <1>1, <1>2, <1>3, WrittenOK
<1>5. KeptSize(m) \in Int /\ -1 <= KeptSize(m)
  BY <1>1, <1>2, KeptIs
<1>6. /\ r.buf = m.buf /\ r.tab = m.tab /\ r.cni = m.cni /\ r.ver = m.ver /\ r.mpoldnew = m.mpoldnew
      /\ r.cbReloaded = KeptSize(m) /\ r.fConvert = m.fConvert /\ IsNMT(r)
  BY <1>2, <1>5 DEF IsNMT
<1>7. Good(r)
  BY <1>1, <1>6, SizeNoted
<1>8. KeptSize(r) = KeptSize(m)
  BY <1>6 DEF KeptSize
<1>9. KeptOK(r, x)
  BY <1>4, <1>6, <1>8 DEF KeptOK
<1>10. QED
  BY <1>1, <1>4, <1>5, <1>6, <1>7, <1>8, <1>9 DEF Coherent

\* What is committed is what the names are read from by every later program.
LEMMA CommitOK ==
  ASSUME NameMapAssumption, NEW m, NEW s, NEW d, Coherent(m, s, d, TRUE), DOMAIN m.mpoldnew = {}
  PROVE  Coherent(m, s, s, TRUE) /\ IsPrefix(d.names, s.names)
<1>1. /\ Good(m) /\ IsStream(s) /\ IsStream(d) /\ SameFirst(d.names, m.buf, Len(d.names))
      /\ StreamHolds(s, m)
  BY DEF Coherent
<1>2. Whole(m) /\ FoundAll(m) /\ Len(m.buf) < SlotCount(m.tab) /\ m.cni = Len(m.buf) /\ IsNMT(m)
  BY <1>1 DEF Good, Whole
<1>3. m.buf \in Seq(Names) /\ Len(m.buf) \in Nat /\ m.cni \in Nat /\ m.ver \in 0 .. 2
  BY <1>2 DEF IsNMT
<1>4. s.ver = m.ver /\ s.cb = Len(m.buf) /\ s.names = m.buf /\ s.tab = m.tab /\ s.cni = m.cni
  BY <1>1 DEF StreamHolds
<1> DEFINE r == Raw(s)
<1>5. /\ r.buf = m.buf /\ r.tab = m.tab /\ r.cni = m.cni /\ r.cbReloaded = Len(m.buf)
      /\ r.fConvert = FALSE /\ r.ver = m.ver /\ DOMAIN r.mpoldnew = {}
      /\ r = [buf |-> r.buf, tab |-> r.tab, cni |-> r.cni, cbReloaded |-> r.cbReloaded,
              fConvert |-> r.fConvert, ver |-> r.ver, mpoldnew |-> r.mpoldnew]
  BY <1>4 DEF Raw, NoneNew
<1> HIDE DEF r
<1>6. IsNMT(r)
  <2>1. r.fConvert \in BOOLEAN
    BY <1>5
  <2>2. QED
    BY <1>3, <1>5, <2>1 DEF IsNMT
<1>7. Whole(r) /\ FoundAll(r)
  BY <1>2, <1>5, <1>6, GoodAlike DEF SameNew
<1>8. Good(r)
  BY <1>2, <1>5, <1>7 DEF Good
<1>9. Readable(s)
  BY <1>4, <1>8 DEF Readable, r
<1>10. SameFirst(s.names, m.buf, Len(s.names))
  BY <1>3, <1>4 DEF SameFirst
<1>11. IsPrefix(d.names, s.names)
  <2>1. d.names \in Seq(Names) /\ s.names \in Seq(Names) /\ Len(d.names) \in Nat
    BY <1>1 DEF IsStream
  <2>2. SameFirst(s.names, d.names, Len(d.names))
    BY <1>1, <1>4, <2>1 DEF SameFirst
  <2>3. IsPrefix(SubSeq(d.names, 1, Len(d.names)), s.names)
    BY <2>1, <2>2, PrefixIs
  <2>4. QED
    BY <2>1, <2>3, SubSeqFull
<1>12. QED
  BY <1>9, <1>10, <1>11 DEF Coherent

\* NmtInv is inductive.
LEMMA NmtInvStep ==
  ASSUME NameMapAssumption, FormsApart, NmtInv, [NmtNext]_nmtVars
  PROVE  NmtInv' /\ IsPrefix(disk.names, disk'.names)
<1>1. Coherent(nmt, stream, disk, saved) /\ saved \in BOOLEAN
  BY DEF NmtInv, Coherent
<1>2. IsPrefix(disk.names, disk.names)
  <2>1. disk.names \in Seq(Names)
    BY <1>1 DEF Coherent, IsStream
  <2>2. Len(disk.names) \in Nat /\ SameFirst(disk.names, disk.names, Len(disk.names))
    BY <2>1 DEF SameFirst
  <2>3. IsPrefix(SubSeq(disk.names, 1, Len(disk.names)), disk.names)
    BY <2>1, <2>2, PrefixIs
  <2>4. QED
    BY <2>1, <2>3, SubSeqFull
<1>3. SUFFICES ASSUME NmtNext
               PROVE  Coherent(nmt', stream', disk', saved') /\ IsPrefix(disk.names, disk'.names)
  <2>1. CASE UNCHANGED nmtVars
    BY <1>1, <1>2, <2>1 DEF nmtVars, NmtInv
  <2>2. QED
    BY <2>1 DEF NmtInv
<1>4. ASSUME NEW sz \in Names, AddName(sz)
      PROVE  Coherent(nmt', stream', disk', saved') /\ IsPrefix(disk.names, disk'.names)
  <2>1. /\ DOMAIN nmt.mpoldnew = {} /\ nmt' = addNiForSz(nmt, sz)
        /\ saved' = (saved /\ nmt'.buf = nmt.buf) /\ stream' = stream /\ disk' = disk
    BY <1>4 DEF AddName, Converted
  <2>2. Coherent(nmt', stream, disk, saved /\ nmt'.buf = nmt.buf)
    BY <1>1, <2>1, AddNameOK
  <2>3. QED
    BY <1>2, <2>1, <2>2
<1>5. CASE Convert
  <2>1. /\ DOMAIN nmt.mpoldnew = {} /\ nmt' = convert(nmt)
        /\ saved' = saved /\ stream' = stream /\ disk' = disk
    BY <1>5 DEF Convert, Converted
  <2>2. Coherent(nmt', stream, disk, saved)
    BY <1>1, <2>1, ConvertStep
  <2>3. QED
    BY <1>2, <2>1, <2>2
<1>6. CASE Save
  <2>1. /\ stream' = Written(nmt, stream, Pieces) /\ saved' = TRUE /\ disk' = disk
        /\ nmt' = [nmt EXCEPT !.cbReloaded = Len(nmt.buf), !.fConvert = FALSE]
    BY <1>6 DEF Save
  <2>2. Coherent(nmt', stream', disk, TRUE)
    BY <1>1, <2>1, SaveOK
  <2>3. QED
    BY <1>2, <2>1, <2>2
<1>7. CASE SaveNothing
  <2>1. /\ DOMAIN nmt.mpoldnew = {} /\ Len(nmt.buf) = KeptSize(nmt)
        /\ nmt' = nmt /\ saved' = TRUE /\ stream' = stream /\ disk' = disk
    BY <1>7 DEF SaveNothing, Converted
  <2>2. Coherent(nmt, stream, disk, TRUE)
    BY <1>1, <2>1 DEF Coherent
  <2>3. QED
    BY <1>2, <2>1, <2>2
<1>8. ASSUME NEW k \in 0 .. Pieces - 1, SaveFails(k)
      PROVE  Coherent(nmt', stream', disk', saved') /\ IsPrefix(disk.names, disk'.names)
  <2>1. /\ Len(nmt.buf) # KeptSize(nmt) /\ stream' = Written(nmt, stream, k)
        /\ nmt' = [nmt EXCEPT !.cbReloaded = KeptSize(nmt)] /\ saved' = FALSE /\ disk' = disk
    BY <1>8 DEF SaveFails
  <2>2. Coherent(nmt', stream', disk, FALSE)
    BY <1>1, <2>1, SaveFailsOK
  <2>3. QED
    BY <1>2, <2>1, <2>2
<1>9. CASE Commit
  <2>1. /\ saved = TRUE /\ DOMAIN nmt.mpoldnew = {}
        /\ disk' = stream /\ nmt' = nmt /\ stream' = stream /\ saved' = saved
    BY <1>1, <1>9 DEF Commit, Converted
  <2>2. Coherent(nmt, stream, stream, TRUE) /\ IsPrefix(disk.names, stream.names)
    BY <1>1, <2>1, CommitOK
  <2>3. QED
    BY <2>1, <2>2
<1>10. ASSUME NEW ver \in Versions, Reopen(ver)
       PROVE  Coherent(nmt', stream', disk', saved') /\ IsPrefix(disk.names, disk'.names)
  <2>1. /\ disk.cni >= 0 /\ stream' = disk /\ nmt' = Loaded(disk, ver)
        /\ saved' = ~nmt'.fConvert /\ disk' = disk
    BY <1>10 DEF Reopen
  <2>2. IsStream(disk) /\ Readable(disk)
    BY <1>1 DEF Coherent
  <2>3. saved' \in BOOLEAN /\ (saved' => ~nmt'.fConvert)
    BY <2>1
  <2>4. Coherent(nmt', disk, disk, saved')
    BY <2>1, <2>2, <2>3, ReadOK
  <2>5. QED
    BY <1>2, <2>1, <2>4
<1>11. QED
  BY <1>3, <1>4, <1>5, <1>6, <1>7, <1>8, <1>9, <1>10 DEF NmtNext

LEMMA NmtInvInit ==
  ASSUME NameMapAssumption, NmtInit
  PROVE  NmtInv
<1>1. PICK ver \in Versions :
        \/ nmt = NewNMT(ver) /\ disk = NoStream
        \/ \E sz \in Names : disk = OldStream(sz) /\ nmt = Loaded(disk, ver)
  BY DEF NmtInit
<1>2. stream = disk /\ saved = FALSE
  BY DEF NmtInit
<1>3. CASE nmt = NewNMT(ver) /\ disk = NoStream
  BY <1>2, <1>3, NewOK DEF NmtInv
<1>4. ASSUME NEW sz \in Names, disk = OldStream(sz), nmt = Loaded(disk, ver)
      PROVE  NmtInv
  <2>1. IsStream(disk) /\ disk.cni >= 0 /\ Readable(disk)
    BY <1>4, OldOK
  <2>2. FALSE \in BOOLEAN /\ (FALSE => ~nmt.fConvert)
    OBVIOUS
  <2>3. Coherent(nmt, disk, disk, FALSE)
    BY <1>4, <2>1, <2>2, ReadOK
  <2>4. QED
    BY <1>2, <2>3 DEF NmtInv
<1>5. QED
  BY <1>1, <1>3, <1>4

LEMMA NmtInvMeans ==
  ASSUME NameMapAssumption, NmtInv
  PROVE  NamesRight
<1>1. /\ Good(nmt) /\ -1 <= nmt.cbReloaded /\ IsStream(stream) /\ IsStream(disk) /\ Readable(disk)
      /\ KeptOK(nmt, stream)
  BY DEF NmtInv, Coherent
<1>2. NamesFound
  BY <1>1, AllFoundIs DEF NamesFound
<1>3. DiskLoadable
  <2>1. SUFFICES ASSUME disk.cni >= 0
                 PROVE  disk.cb = Len(disk.names) /\ \A ver \in Versions : AllFound(Loaded(disk, ver))
    BY DEF DiskLoadable
  <2>2. disk.cb = Len(disk.names)
    BY <1>1, <2>1 DEF Readable
  <2>3. ASSUME NEW ver \in Versions
        PROVE  AllFound(Loaded(disk, ver))
    <3>1. Good(Loaded(disk, ver))
      BY <1>1, <2>1, LoadedOK
    <3>2. QED
      BY <3>1, AllFoundIs
  <2>4. QED
    BY <2>2, <2>3
<1>4. PrefixSaved
  <2>1. SUFFICES ASSUME KeptSize(nmt) >= 0
                 PROVE  IsPrefix(SubSeq(nmt.buf, 1, KeptSize(nmt)), stream.names)
    BY DEF PrefixSaved
  <2>2. IsNMT(nmt) /\ nmt.buf \in Seq(Names)
    BY <1>1 DEF Good, Whole, IsNMT
  <2>3. KeptSize(nmt) \in Nat
    BY <1>1, <2>1, <2>2, KeptIs
  <2>4. SameFirst(stream.names, nmt.buf, KeptSize(nmt)) /\ stream.names \in Seq(Names)
    BY <1>1, <2>1 DEF KeptOK, IsStream
  <2>5. QED
    BY <2>2, <2>3, <2>4, PrefixIs
<1>5. QED
  BY <1>2, <1>3, <1>4 DEF NamesRight

\* For every set of names, every hash functions, however many writes fail: all names of
\* the map are found under an index that stands for them, what a commit made durable
\* can be opened for any version, and the stream begins with what is not written again.
THEOREM NamesAreRight ==
  ASSUME NameMapAssumption, FormsApart
  PROVE  NmtSpec => []NamesRight
<1>1. NmtInit => NmtInv
  BY NmtInvInit
<1>2. NmtInv /\ [NmtNext]_nmtVars => NmtInv'
  BY NmtInvStep
<1>3. NmtInv => NamesRight
  BY NmtInvMeans
<1>4. QED
  BY <1>1, <1>2, <1>3, PTL DEF NmtSpec

\* ... and an index that was committed stands for its name for ever.
THEOREM IndicesStay ==
  ASSUME NameMapAssumption, FormsApart
  PROVE  NmtSpec => IndicesKept
<1>1. NmtInit => NmtInv
  BY NmtInvInit
<1>2. NmtInv /\ [NmtNext]_nmtVars => NmtInv'
  BY NmtInvStep
<1>3. NmtInv /\ [NmtNext]_nmtVars => [IsPrefix(disk.names, disk'.names)]_nmtVars
  BY NmtInvStep
<1>4. QED
  BY <1>1, <1>2, <1>3, PTL DEF NmtSpec, IndicesKept

-----------------------------------------------------------------------------
(* The pages of a name map: where the names are.                           *)

LEMMA GreatestIn ==
  ASSUME NEW n \in Nat, NEW T \in SUBSET (0 .. n), T # {}
  PROVE  Max(T) \in T /\ \A y \in T : y <= Max(T)
<1> DEFINE D == {d \in 0 .. n : n - d \in T}
<1>1. \A x \in T : x \in 0 .. n /\ n - x \in 0 .. n /\ n - (n - x) = x
  OBVIOUS
<1>2. D \in SUBSET Nat /\ D # {}
  <2>1. PICK x : x \in T
    OBVIOUS
  <2>2. n - x \in D
    BY <1>1, <2>1
  <2>3. QED
    BY <2>2
<1>3. PICK d \in D : \A y \in D : d <= y
  BY <1>2, LeastIn
<1> DEFINE x == n - d
<1>4. x \in T /\ d = n - x /\ x \in Int
  BY <1>3
<1> HIDE DEF x
<1>5. \A y \in T : x >= y
  <2>1. ASSUME NEW y \in T
        PROVE  x >= y
    <3>1. n - y \in D
      BY <1>1, <2>1
    <3>2. n - x <= n - y /\ y \in Int
      BY <1>1, <1>3, <1>4, <3>1
    <3>3. QED
      BY <1>4, <3>2
  <2>2. QED
    BY <2>1
<1>6. Max(T) \in T /\ \A y \in T : Max(T) >= y
  <2> HIDE DEF D
  <2>1. QED
    BY <1>4, <1>5, Zenon DEF Max
<1>7. QED
  BY <1>6

\* The first k names, each behind the one before it.
StartsTo(k, g) ==
  g = [n \in 1 .. k |-> IF n = 1 THEN 1 ELSE g[n - 1] + Lens[n - 1]]

LEMMA StartsExist ==
  ASSUME NEW k \in Nat
  PROVE  \E g : StartsTo(k, g)
<1> DEFINE T == {j \in Nat : ~\E g : StartsTo(j, g)}
<1>1. SUFFICES ASSUME T # {}
               PROVE  FALSE
  OBVIOUS
<1>2. PICK x \in T : \A y \in T : x <= y
  BY <1>1, LeastIn
<1>3. x # 0
  <2> DEFINE g == [n \in 1 .. 0 |-> 1]
  <2>1. g = [n \in 1 .. 0 |-> IF n = 1 THEN 1 ELSE g[n - 1] + Lens[n - 1]]
    OBVIOUS
  <2>2. StartsTo(0, g)
    BY <2>1 DEF StartsTo
  <2>3. QED
    BY <2>2
<1>4. x - 1 \in Nat /\ x - 1 \notin T
  BY <1>2, <1>3
<1>5. PICK g : StartsTo(x - 1, g)
  BY <1>4
<1> DEFINE f == [n \in 1 .. x |-> IF n = 1 THEN 1 ELSE g[n - 1] + Lens[n - 1]]
<1>6. \A n \in 1 .. x - 1 : f[n] = g[n]
  <2>1. \A n \in 1 .. x - 1 : g[n] = IF n = 1 THEN 1 ELSE g[n - 1] + Lens[n - 1]
    BY <1>5 DEF StartsTo
  <2>2. QED
    BY <1>4, <2>1
<1>7. \A n \in 1 .. x : f[n] = IF n = 1 THEN 1 ELSE f[n - 1] + Lens[n - 1]
  <2>1. ASSUME NEW n \in 1 .. x, n # 1
        PROVE  f[n - 1] = g[n - 1]
    <3>1. n - 1 \in 1 .. x - 1
      BY <1>4, <2>1
    <3> HIDE DEF f
    <3>2. QED
      BY <1>6, <3>1
  <2>2. \A n \in 1 .. x : f[n] = IF n = 1 THEN 1 ELSE g[n - 1] + Lens[n - 1]
    OBVIOUS
  <2> HIDE DEF f
  <2>3. QED
    BY <2>1, <2>2
<1>8. StartsTo(x, f)
  <2>1. f = [n \in 1 .. x |-> f[n]]
    OBVIOUS
  <2> HIDE DEF f
  <2>2. QED
    BY <1>7, <2>1 DEF StartsTo
<1>9. QED
  BY <1>2, <1>8

LEMMA StartIs ==
  ASSUME PagesAssumption
  PROVE  /\ Len(Lens) \in Nat \ {0} /\ DOMAIN Lens = 1 .. Len(Lens)
         /\ \A n \in DOMAIN Lens : Lens[n] \in Nat \ {0}
         /\ \A n \in DOMAIN Lens : Start[n] = IF n = 1 THEN 1 ELSE Start[n - 1] + Lens[n - 1]
<1>1. /\ Len(Lens) \in Nat \ {0} /\ DOMAIN Lens = 1 .. Len(Lens)
      /\ \A n \in DOMAIN Lens : Lens[n] \in Nat \ {0}
  <2>1. Lens \in Seq(Nat \ {0}) /\ Lens # <<>>
    BY DEF PagesAssumption
  <2>2. QED
    BY <2>1, LenProperties, EmptySeq
<1>2. \E g : StartsTo(Len(Lens), g)
  BY <1>1, StartsExist
<1>3. Start = CHOOSE g : StartsTo(Len(Lens), g)
  <2>1. Start = CHOOSE g : g = [n \in DOMAIN Lens |-> IF n = 1 THEN 1 ELSE g[n - 1] + Lens[n - 1]]
    BY Zenon DEF Start
  <2>2. QED
    BY <1>1, <2>1, Zenon DEF StartsTo
<1>4. StartsTo(Len(Lens), Start)
  BY <1>2, <1>3, Zenon
<1>5. QED
  BY <1>1, <1>4 DEF StartsTo

LEMMA NamesFollow ==
  ASSUME PagesAssumption
  PROVE  \A n \in DOMAIN Lens :
           /\ Start[n] \in Nat \ {0} /\ Nul(n) \in Nat /\ Start[n] <= Nul(n)
           /\ Nul(n) < cbStrings
<1> DEFINE N == Len(Lens)
<1>1. /\ N \in Nat \ {0} /\ DOMAIN Lens = 1 .. N /\ \A n \in 1 .. N : Lens[n] \in Nat \ {0}
      /\ \A n \in 1 .. N : Start[n] = IF n = 1 THEN 1 ELSE Start[n - 1] + Lens[n - 1]
  BY StartIs
<1> HIDE DEF N
<1>2. \A n \in 1 .. N : Start[n] \in Nat \ {0}
  <2> DEFINE T == {n \in 1 .. N : Start[n] \notin Nat \ {0}}
  <2>1. SUFFICES ASSUME T # {}
                 PROVE  FALSE
    OBVIOUS
  <2>2. T \in SUBSET Nat
    BY <1>1
  <2>3. PICK x \in T : \A y \in T : x <= y
    BY <2>1, <2>2, LeastIn
  <2>4. x # 1 /\ x \in 1 .. N
    BY <1>1, <2>3
  <2>5. x - 1 \in 1 .. N /\ ~(x <= x - 1)
    BY <1>1, <2>4
  <2>6. Start[x - 1] \in Nat \ {0}
    BY <2>3, <2>5
  <2>7. Start[x] = Start[x - 1] + Lens[x - 1]
    BY <1>1, <2>4
  <2>8. Start[x] \in Nat \ {0}
    BY <1>1, <2>5, <2>6, <2>7
  <2>9. QED
    BY <2>3, <2>8
<1>3. \A n \in 1 .. N : Nul(n) \in Nat /\ Start[n] <= Nul(n)
  BY <1>1, <1>2 DEF Nul
<1>4. \A n \in 1 .. N : Nul(n) <= Nul(N)
  <2> DEFINE T == {d \in 0 .. N - 1 : ~(Nul(N - d) <= Nul(N))}
  <2>1. SUFFICES ASSUME T # {}
                 PROVE  FALSE
    <3>1. ASSUME NEW n \in 1 .. N
          PROVE  Nul(n) <= Nul(N)
      <4>1. N - n \in 0 .. N - 1 /\ N - (N - n) = n
        BY <1>1
      <4>2. QED
        BY <2>1, <4>1
    <3>2. QED
      BY <3>1
  <2>2. T \in SUBSET Nat
    BY <1>1
  <2>3. PICK d \in T : \A y \in T : d <= y
    BY <2>1, <2>2, LeastIn
  <2>4. d # 0
    <3>1. N - 0 = N /\ N \in 1 .. N
      BY <1>1
    <3>2. Nul(N) <= Nul(N)
      BY <1>3, <3>1
    <3>3. QED
      BY <2>3, <3>1, <3>2
  <2>5. d \in 0 .. N - 1 /\ d - 1 \in 0 .. N - 1 /\ ~(d <= d - 1)
    BY <1>1, <2>3, <2>4
  <2>6. Nul(N - (d - 1)) <= Nul(N)
    BY <2>3, <2>5
  <2> DEFINE m == N - d
  <2>7. m \in 1 .. N /\ m + 1 \in 1 .. N /\ m + 1 # 1 /\ N - (d - 1) = m + 1 /\ m + 1 - 1 = m
    BY <1>1, <2>5
  <2> HIDE DEF m
  <2>8. Start[m + 1] = Start[m] + Lens[m]
    BY <1>1, <2>7
  <2>9. Nul(m) <= Nul(m + 1)
    <3>1. /\ Start[m + 1] \in Nat /\ Lens[m + 1] \in Nat \ {0}
          /\ Start[m] \in Nat /\ Lens[m] \in Nat
      BY <1>1, <1>2, <2>7
    <3>2. Nul(m) = Start[m] + (Lens[m] - 1)
      BY Zenon DEF Nul
    <3>3. Nul(m + 1) = Start[m + 1] + (Lens[m + 1] - 1)
      BY Zenon DEF Nul
    <3>4. QED
      BY <2>8, <3>1, <3>2, <3>3
  <2>10. Nul(m) <= Nul(N)
    <3>1. Nul(m) \in Nat /\ Nul(m + 1) \in Nat /\ Nul(N) \in Nat
      BY <1>1, <1>3, <2>7
    <3>2. QED
      BY <2>6, <2>7, <2>9, <3>1
  <2>11. QED
    BY <2>3, <2>10 DEF m
<1>5. N \in 1 .. N /\ Nul(N) \in Nat
  BY <1>1, <1>3
<1>6. cbStrings = Nul(N) + 1
  BY DEF cbStrings, N
<1>7. QED
  BY <1>1, <1>2, <1>3, <1>4, <1>5, <1>6

LEMMA QuotientsGrow ==
  ASSUME NEW d \in Nat \ {0}, NEW a \in Nat, NEW b \in Nat, a <= b
  PROVE  a \div d <= b \div d
<1> DEFINE p == a \div d
           q == b \div d
           r == a % d
           s == b % d
<1>1. p \in Nat /\ q \in Nat /\ r \in 0 .. d - 1 /\ s \in 0 .. d - 1 /\ a = d * p + r /\ b = d * q + s
  BY Division
<1> HIDE DEF p, q, r, s
<1>2. SUFFICES ASSUME q < p
               PROVE  FALSE
  BY <1>1 DEF p, q
<1>3. PICK z \in Nat : p = q + 1 + z
  <2>1. p - q - 1 \in Nat /\ p = q + 1 + (p - q - 1)
    BY <1>1, <1>2
  <2>2. QED
    BY <2>1
<1>4. d * p = d * q + d + d * z
  BY <1>1, <1>3
<1>5. d * z \in Nat /\ d * q \in Nat
  BY <1>1
<1>6. QED
  BY <1>1, <1>4, <1>5

LEMMA NextQuotient ==
  ASSUME NEW d \in Nat \ {0}, NEW a \in Nat
  PROVE  (a + d) \div d = a \div d + 1
<1> DEFINE q == a \div d
           r == a % d
           u == (a + d) \div d
           v == (a + d) % d
<1>1. q \in Nat /\ r \in 0 .. d - 1 /\ a = d * q + r
  BY Division
<1>2. u \in Nat /\ v \in 0 .. d - 1 /\ a + d = d * u + v
  <2>1. a + d \in Nat
    OBVIOUS
  <2>2. QED
    BY <2>1, Division
<1> HIDE DEF q, r, u, v
<1>3. u <= q \/ u = q + 1 \/ u >= q + 2
  BY <1>1, <1>2
<1>4. ~(u <= q)
  <2>1. SUFFICES ASSUME u <= q
                 PROVE  FALSE
    OBVIOUS
  <2>2. PICK z \in Nat : q = u + z
    <3>1. q - u \in Nat /\ q = u + (q - u)
      BY <1>1, <1>2, <2>1
    <3>2. QED
      BY <3>1
  <2>3. d * q = d * u + d * z
    BY <1>2, <2>2
  <2>4. d * z \in Nat /\ d * u \in Nat
    BY <1>2
  <2>5. QED
    BY <1>1, <1>2, <2>3, <2>4
<1>5. ~(u >= q + 2)
  <2>1. SUFFICES ASSUME u >= q + 2
                 PROVE  FALSE
    OBVIOUS
  <2>2. PICK z \in Nat : u = q + 2 + z
    <3>1. u - q - 2 \in Nat /\ u = q + 2 + (u - q - 2)
      BY <1>1, <1>2, <2>1
    <3>2. QED
      BY <3>1
  <2>3. d * u = d * q + d + d + d * z
    BY <1>1, <2>2
  <2>4. d * z \in Nat /\ d * q \in Nat
    BY <1>1
  <2>5. QED
    BY <1>1, <1>2, <2>3, <2>4
<1>6. QED
  BY <1>3, <1>4, <1>5 DEF q, u

LEMMA OnPages ==
  ASSUME PagesAssumption
  PROVE  /\ iPageLast \in Nat
         /\ \A n \in DOMAIN Lens :
              /\ PageOf(Start[n]) \in Pages /\ PageOf(Nul(n)) \in Pages
              /\ PageOf(Start[n]) <= PageOf(Nul(n))
<1> DEFINE c == cbStrings - 1
<1>1. PageSize \in Nat \ {0} /\ Len(Lens) \in DOMAIN Lens
  BY StartIs DEF PagesAssumption
<1>2. c \in Nat /\ cbStrings = c + 1
  BY <1>1, NamesFollow DEF cbStrings
<1>3. \A n \in DOMAIN Lens : Start[n] \in Nat /\ Nul(n) \in Nat /\ Start[n] <= Nul(n) /\ Nul(n) <= c
  BY <1>2, NamesFollow
<1> HIDE DEF c
<1>4. iPageLast = c \div PageSize /\ c \div PageSize \in Nat
  <2>1. cbStrings + PageSize - 1 = c + PageSize
    BY <1>1, <1>2
  <2>2. (c + PageSize) \div PageSize = c \div PageSize + 1 /\ c \div PageSize \in Nat
    BY <1>1, <1>2, NextQuotient, Division
  <2>3. iPageLast = (c \div PageSize + 1) - 1
    BY <2>1, <2>2 DEF iPageLast
  <2>4. QED
    BY <2>2, <2>3
<1>5. ASSUME NEW n \in DOMAIN Lens
      PROVE  /\ PageOf(Start[n]) \in Pages /\ PageOf(Nul(n)) \in Pages
             /\ PageOf(Start[n]) <= PageOf(Nul(n))
  <2> DEFINE a == Start[n]
             b == Nul(n)
  <2>1. a \in Nat /\ b \in Nat /\ a <= b /\ b <= c
    BY <1>3
  <2> HIDE DEF a, b
  <2>2. a \div PageSize \in Nat /\ b \div PageSize \in Nat
    BY <1>1, <2>1, Division
  <2>3. a \div PageSize <= b \div PageSize
    BY <1>1, <2>1, QuotientsGrow
  <2>4. b \div PageSize <= c \div PageSize
    BY <1>1, <1>2, <2>1, QuotientsGrow
  <2>5. PageOf(Start[n]) = a \div PageSize /\ PageOf(Nul(n)) = b \div PageSize
    BY DEF PageOf, a, b
  <2>6. QED
    BY <1>4, <2>2, <2>3, <2>4, <2>5 DEF Pages
<1>6. QED
  BY <1>4, <1>5

-----------------------------------------------------------------------------
(* The pages of a name map: what a lookup reads.                           *)

\* The last page up to which all are read from i on.
BlockFrom(i, read) == Max({j \in i .. iPageLast : i .. j \subseteq read})

\* fLoadString at page i when S are read; g is the same from the pages behind it.
LoadAt(n, bad, i, S, g) ==
  IF i \notin S /\ i \in bad THEN [ok |-> FALSE, pages |-> S]
  ELSE IF BlockFrom(i, S \cup {i}) = iPageLast \/ PageOf(Nul(n)) <= BlockFrom(i, S \cup {i})
  THEN [ok |-> TRUE, pages |-> S \cup {i}]
  ELSE g[<<BlockFrom(i, S \cup {i}) + 1, S \cup {i}>>]

From(k) == (k .. iPageLast) \X SUBSET Pages
Loads(n, bad, k, g) == g = [p \in From(k) |-> LoadAt(n, bad, p[1], p[2], g)]

LEMMA LoadUnfolded ==
  ASSUME NEW n, NEW bad
  PROVE  fLoadString(n, bad) = (CHOOSE g : Loads(n, bad, 0, g))[<<PageOf(Start[n]), bvPages>>]
BY Zenon DEF fLoadString, Loads, LoadAt, BlockFrom, From, Pages

LEMMA BlockIs ==
  ASSUME PagesAssumption, NEW i \in Pages, NEW S \in SUBSET Pages, i \in S
  PROVE  /\ BlockFrom(i, S) \in i .. iPageLast
         /\ i .. BlockFrom(i, S) \subseteq S
<1> DEFINE T == {j \in i .. iPageLast : i .. j \subseteq S}
<1>1. iPageLast \in Nat /\ i \in 0 .. iPageLast
  BY OnPages DEF Pages
<1>2. T \in SUBSET (0 .. iPageLast)
  BY <1>1
<1>3. i \in T
  BY <1>1
<1>4. Max(T) \in T
  <2> HIDE DEF T
  <2>1. QED
    BY <1>1, <1>2, <1>3, GreatestIn
<1>5. QED
  BY <1>4 DEF BlockFrom

LEMMA LoadsAgree ==
  ASSUME PagesAssumption, NEW n, NEW bad, NEW i \in Pages, NEW S \in SUBSET Pages, NEW f, NEW g,
         \A j \in i + 1 .. iPageLast : \A T \in SUBSET Pages : f[<<j, T>>] = g[<<j, T>>]
  PROVE  LoadAt(n, bad, i, S, f) = LoadAt(n, bad, i, S, g)
<1> DEFINE R == S \cup {i}
           b == BlockFrom(i, R)
<1>1. iPageLast \in Nat /\ i \in 0 .. iPageLast /\ R \in SUBSET Pages /\ i \in R
  BY OnPages DEF Pages
<1>2. b \in i .. iPageLast
  <2> HIDE DEF R
  <2>1. QED
    BY <1>1, BlockIs
<1> HIDE DEF R, b
<1>3. b # iPageLast => f[<<b + 1, R>>] = g[<<b + 1, R>>]
  <2>1. ASSUME b # iPageLast
        PROVE  b + 1 \in i + 1 .. iPageLast
    BY <1>1, <1>2, <2>1
  <2>2. QED
    BY <1>1, <2>1
<1>4. QED
  BY <1>3, Zenon DEF LoadAt, R, b

LEMMA FromIs ==
  ASSUME NEW k, NEW p
  PROVE  p \in From(k) <=> \E i \in k .. iPageLast : \E S \in SUBSET Pages : p = <<i, S>>
BY DEF From

LEMMA LoadsAt ==
  ASSUME NEW n, NEW bad, NEW k, NEW g, Loads(n, bad, k, g),
         NEW i \in k .. iPageLast, NEW S \in SUBSET Pages
  PROVE  g[<<i, S>>] = LoadAt(n, bad, i, S, g)
<1> DEFINE p == <<i, S>>
<1>1. p \in From(k) /\ p[1] = i /\ p[2] = S
  BY DEF From
<1> HIDE DEF p
<1>2. g[p] = LoadAt(n, bad, p[1], p[2], g)
  BY <1>1 DEF Loads
<1>3. QED
  BY <1>1, <1>2, Zenon DEF p

LEMMA LoadsExist ==
  ASSUME PagesAssumption, NEW n, NEW bad
  PROVE  \E g : Loads(n, bad, 0, g)
<1> DEFINE K == iPageLast
           T == {x \in 0 .. K + 1 : ~\E g : Loads(n, bad, K + 1 - x, g)}
<1>1. K \in Nat /\ Pages = 0 .. K
  BY OnPages DEF Pages
<1>2. SUFFICES ASSUME T # {}
               PROVE  FALSE
  <2>1. K + 1 \in 0 .. K + 1 /\ K + 1 - (K + 1) = 0
    BY <1>1
  <2>2. QED
    BY <2>1
<1>3. T \in SUBSET Nat
  BY <1>1
<1>4. PICK x \in T : \A y \in T : x <= y
  BY <1>2, <1>3, LeastIn
<1>5. x # 0
  <2> DEFINE g == [p \in From(K + 1) |-> 0]
  <2>1. K + 1 .. K = {} /\ K + 1 - 0 = K + 1
    BY <1>1
  <2>2. From(K + 1) = {}
    BY <2>1 DEF From
  <2>3. g = [p \in From(K + 1) |-> LoadAt(n, bad, p[1], p[2], g)]
    BY <2>2
  <2>4. Loads(n, bad, K + 1, g)
    <3> HIDE DEF g
    <3>1. QED
      BY <2>3 DEF Loads
  <2>5. QED
    BY <1>4, <2>1, <2>4
<1> DEFINE k == K + 1 - x
<1>6. /\ x \in 1 .. K + 1 /\ x - 1 \in 0 .. K + 1 /\ ~(x <= x - 1)
      /\ k \in 0 .. K /\ K + 1 - (x - 1) = k + 1
  BY <1>1, <1>4, <1>5
<1>7. x - 1 \notin T
  BY <1>4, <1>6
<1> HIDE DEF K, k
<1>8. PICK g : Loads(n, bad, k + 1, g)
  BY <1>6, <1>7
<1> DEFINE f == [p \in From(k) |-> IF p[1] = k THEN LoadAt(n, bad, p[1], p[2], g) ELSE g[p]]
<1>9. \A i \in k .. K : \A S \in SUBSET Pages :
        f[<<i, S>>] = IF i = k THEN LoadAt(n, bad, i, S, g) ELSE g[<<i, S>>]
  <2>1. ASSUME NEW i \in k .. K, NEW S \in SUBSET Pages
        PROVE  <<i, S>> \in From(k) /\ <<i, S>>[1] = i /\ <<i, S>>[2] = S
    BY DEF From, K
  <2>2. QED
    BY <2>1
<1>10. \A i \in k + 1 .. K : \A S \in SUBSET Pages : g[<<i, S>>] = LoadAt(n, bad, i, S, g)
  BY <1>8, LoadsAt DEF K
<1> HIDE DEF f
<1>11. \A i \in k .. K : \A S \in SUBSET Pages : f[<<i, S>>] = LoadAt(n, bad, i, S, f)
  <2>1. ASSUME NEW i \in k .. K, NEW S \in SUBSET Pages
        PROVE  f[<<i, S>>] = LoadAt(n, bad, i, S, f)
    <3>1. i \in Pages /\ (i # k => i \in k + 1 .. K)
      BY <1>1, <1>6
    <3>2. \A j \in i + 1 .. K : \A U \in SUBSET Pages : f[<<j, U>>] = g[<<j, U>>]
      <4>1. ASSUME NEW j \in i + 1 .. K
            PROVE  j \in k .. K /\ j # k
        BY <1>1, <1>6
      <4>2. QED
        BY <1>9, <4>1
    <3>3. LoadAt(n, bad, i, S, f) = LoadAt(n, bad, i, S, g)
      BY <3>1, <3>2, LoadsAgree DEF K
    <3>4. f[<<i, S>>] = LoadAt(n, bad, i, S, g)
      BY <1>9, <1>10, <3>1
    <3>5. QED
      BY <3>3, <3>4
  <2>2. QED
    BY <2>1
<1>12. \A p \in From(k) : f[p] = LoadAt(n, bad, p[1], p[2], f)
  <2>1. ASSUME NEW p \in From(k)
        PROVE  f[p] = LoadAt(n, bad, p[1], p[2], f)
    <3>1. PICK i \in k .. K : \E S \in SUBSET Pages : p = <<i, S>>
      BY FromIs DEF K
    <3>2. PICK S \in SUBSET Pages : p = <<i, S>>
      BY <3>1
    <3>3. p[1] = i /\ p[2] = S
      BY <3>2
    <3>4. QED
      BY <1>11, <3>2, <3>3
  <2>2. QED
    BY <2>1
<1>13. Loads(n, bad, k, f)
  <2>1. f = [p \in From(k) |-> f[p]]
    BY DEF f
  <2>2. QED
    BY <1>12, <2>1 DEF Loads
<1>14. QED
  BY <1>4, <1>13 DEF k

\* What a lookup may answer that starts with the pages of S.
Read(r, n, S) ==
  /\ r.ok \in BOOLEAN /\ r.pages \in SUBSET Pages /\ S \subseteq r.pages
  /\ r.ok => TextThere(n, r.pages)

LEMMA LoadRight ==
  ASSUME PagesAssumption, NEW n \in DOMAIN Lens, NEW bad, bvPages \in SUBSET Pages
  PROVE  Read(fLoadString(n, bad), n, bvPages)
<1> DEFINE K == iPageLast
           s == PageOf(Start[n])
           e == PageOf(Nul(n))
           g == CHOOSE h : Loads(n, bad, 0, h)
           Bad(d) == \E S \in SUBSET Pages : s .. (K - d) - 1 \subseteq S /\ ~Read(g[<<K - d, S>>], n, S)
           T == {d \in 0 .. K - s : Bad(d)}
<1>1. K \in Nat /\ Pages = 0 .. K /\ s \in 0 .. K /\ e \in 0 .. K /\ s <= e
  BY OnPages DEF Pages
<1>2. Loads(n, bad, 0, g)
  BY LoadsExist, Zenon
<1>3. fLoadString(n, bad) = g[<<s, bvPages>>]
  BY LoadUnfolded
<1> HIDE DEF g
<1>4. \A i \in 0 .. K : \A S \in SUBSET Pages : g[<<i, S>>] = LoadAt(n, bad, i, S, g)
  BY <1>2, LoadsAt
<1> HIDE DEF K, s, e
<1>5. T = {}
  <2>1. SUFFICES ASSUME T # {}
                 PROVE  FALSE
    OBVIOUS
  <2>2. T \in SUBSET Nat
    BY <1>1
  <2>3. PICK d \in T : \A y \in T : d <= y
    BY <2>1, <2>2, LeastIn
  <2>4. PICK S \in SUBSET Pages : s .. (K - d) - 1 \subseteq S /\ ~Read(g[<<K - d, S>>], n, S)
    BY <2>3
  <2> DEFINE i == K - d
             R == S \cup {i}
             b == BlockFrom(i, R)
  <2>5. d \in 0 .. K - s /\ i \in s .. K /\ i \in 0 .. K /\ R \in SUBSET Pages /\ i \in R
    BY <1>1, <2>3
  <2>6. b \in i .. K /\ i .. b \subseteq R
    <3> HIDE DEF R, i
    <3>1. QED
      BY <1>1, <2>5, BlockIs DEF K
  <2>7. s .. b \subseteq R
    <3>1. ASSUME NEW j \in s .. b
          PROVE  j \in s .. i - 1 \/ j \in i .. b
      <4> HIDE DEF R, b, i
      <4>1. QED
        BY <1>1, <2>5, <2>6
    <3>2. QED
      BY <2>4, <2>6, <3>1
  <2>8. \A r : Read(r, n, R) => Read(r, n, S)
    BY DEF Read
  <2>9. g[<<i, S>>] = LoadAt(n, bad, i, S, g) /\ ~Read(g[<<i, S>>], n, S)
    BY <1>4, <2>4, <2>5
  <2> HIDE DEF i, R, b
  <2>10. b # K /\ ~(e <= b) => Read(g[<<b + 1, R>>], n, R)
    <3>1. ASSUME b # K
          PROVE  Read(g[<<b + 1, R>>], n, R)
      <4> DEFINE c == K - (b + 1)
      <4>1. c \in 0 .. K - s /\ ~(d <= c) /\ K - c = b + 1 /\ (b + 1) - 1 = b
        BY <1>1, <2>5, <2>6, <3>1 DEF i
      <4>2. ~Bad(c)
        BY <2>3, <4>1
      <4> HIDE DEF c
      <4>3. QED
        BY <2>5, <2>7, <4>1, <4>2
    <3>2. QED
      BY <3>1
  <2>11. b = K \/ e <= b => Read([ok |-> TRUE, pages |-> R], n, R)
    <3>1. ASSUME b = K \/ e <= b
          PROVE  s .. e \subseteq R
      <4>1. \A j \in s .. e : j \in s .. b
        BY <1>1, <2>5, <2>6, <3>1
      <4>2. QED
        BY <2>7, <4>1
    <3>2. QED
      BY <2>5, <3>1 DEF Read, TextThere, s, e
  <2>12. Read([ok |-> FALSE, pages |-> S], n, S)
    BY DEF Read
  <2>13. LoadAt(n, bad, i, S, g) =
           IF i \notin S /\ i \in bad THEN [ok |-> FALSE, pages |-> S]
           ELSE IF b = K \/ e <= b THEN [ok |-> TRUE, pages |-> R]
           ELSE g[<<b + 1, R>>]
    BY Zenon DEF LoadAt, R, b, K, e
  <2>14. QED
    BY <2>8, <2>9, <2>10, <2>11, <2>12, <2>13, Zenon
<1>6. Read(g[<<s, bvPages>>], n, bvPages)
  <2>1. K - s \in 0 .. K - s /\ K - (K - s) = s /\ s .. s - 1 = {}
    BY <1>1
  <2>2. ~Bad(K - s)
    BY <1>5, <2>1
  <2>3. QED
    BY <2>1, <2>2
<1>7. QED
  BY <1>3, <1>6

-----------------------------------------------------------------------------
(* The pages of a name map: the invariant.                                 *)

PagesInv ==
  /\ fVirtMode \in BOOLEAN /\ fAllVirtPagesLoaded \in BOOLEAN /\ bvPages \in SUBSET Pages
  /\ ~fVirtMode => buf = <<"text">>
  /\ PagesRight

LEMMA AllIsAll ==
  ASSUME PagesAssumption, NEW S \in SUBSET Pages, AllLoaded(S)
  PROVE  S = Pages
<1>1. iPageLast \in Nat
  BY OnPages
<1>2. IsFiniteSet(Pages) /\ Cardinality(Pages) = iPageLast + 1
  BY <1>1, FS_Interval DEF Pages
<1>3. Cardinality(S) = Cardinality(Pages)
  BY <1>2 DEF AllLoaded
<1>4. QED
  BY <1>2, <1>3, FS_Subset

LEMMA AllText ==
  ASSUME PagesAssumption, NEW n \in DOMAIN Lens
  PROVE  TextThere(n, Pages)
BY OnPages DEF TextThere, Pages

LEMMA PagesStep ==
  ASSUME PagesAssumption, PagesInv, [PagesNext]_pagesVars
  PROVE  PagesInv'
<1>1. CASE UNCHANGED pagesVars
  BY <1>1 DEF PagesInv, PagesRight, LookupRight, AllMeansAll, pagesVars
<1>2. ASSUME NEW n \in DOMAIN Lens, NEW bad, LookupPages(n, bad)
      PROVE  PagesInv'
  <2> DEFINE r == fLoadString(n, bad)
  <2>1. Read(r, n, bvPages)
    BY LoadRight DEF PagesInv
  <2>2. /\ bvPages' = r.pages
        /\ fAllVirtPagesLoaded' = IF r.ok THEN AllLoaded(r.pages) ELSE fAllVirtPagesLoaded
        /\ last' = [got |-> r.ok, right |-> r.ok /\ TextThere(n, r.pages)]
        /\ fVirtMode /\ ~fAllVirtPagesLoaded /\ UNCHANGED <<fVirtMode, buf>>
    BY <1>2 DEF LookupPages
  <2> HIDE DEF r
  <2>3. LookupRight'
    BY <2>1, <2>2 DEF LookupRight, Read
  <2>4. fAllVirtPagesLoaded' \in BOOLEAN
    <3>1. AllLoaded(r.pages) \in BOOLEAN
      BY Zenon DEF AllLoaded
    <3>2. CASE r.ok
      <4>1. fAllVirtPagesLoaded' = AllLoaded(r.pages)
        BY <2>2, <3>2, Zenon
      <4>2. QED
        BY <3>1, <4>1, Zenon
    <3>3. CASE ~r.ok
      <4>1. fAllVirtPagesLoaded' = fAllVirtPagesLoaded
        BY <2>2, <3>3, Zenon
      <4>2. QED
        BY <4>1, Zenon DEF PagesInv
    <3>4. QED
      BY <3>2, <3>3
  <2>5. AllMeansAll'
    BY <2>1, <2>2, AllIsAll DEF AllMeansAll, Read
  <2>6. QED
    BY <2>1, <2>2, <2>3, <2>4, <2>5 DEF PagesInv, PagesRight, Read
<1>3. ASSUME NEW n \in DOMAIN Lens, LookupLoaded(n)
      PROVE  PagesInv'
  <2>1. fVirtMode => TextThere(n, bvPages)
    BY <1>3, AllText DEF PagesInv, LookupLoaded, PagesRight, AllMeansAll
  <2>2. ~fVirtMode => buf[1] = "text"
    BY DEF PagesInv
  <2>3. last'.right
    BY <1>3, <2>1, <2>2 DEF LookupLoaded
  <2>4. QED
    BY <1>3, <2>3 DEF LookupLoaded, PagesInv, PagesRight, LookupRight, AllMeansAll
<1>4. ASSUME buf = <<>>, SwitchToWriteMode
      PROVE  PagesInv'
  <2>1. buf' = <<"text">>
    BY <1>4 DEF SwitchToWriteMode
  <2>2. QED
    BY <1>4, <2>1 DEF SwitchToWriteMode, PagesInv, PagesRight, LookupRight, AllMeansAll
<1>5. ASSUME SwitchFails
      PROVE  PagesInv'
  BY <1>5 DEF SwitchFails, PagesInv, PagesRight, LookupRight, AllMeansAll
<1>6. QED
  BY <1>1, <1>2, <1>3, <1>4, <1>5 DEF PagesNext, Lookups

\* However long the names are and whatever pages they are on, as long as a switch to the
\* buffer that failed is not tried again: a lookup that succeeds returns the whole name,
\* whichever pages earlier lookups read or failed to read, and all pages count as read
\* only when they are (fLoadString, fSwitchToWriteMode).
THEOREM TextIsRead ==
  ASSUME PagesAssumption
  PROVE  PagesSpec => []PagesRight
<1>1. ASSUME PagesInit
      PROVE  PagesInv
  <2>1. fVirtMode = TRUE /\ bvPages = {} /\ fAllVirtPagesLoaded = FALSE /\ last.got = FALSE
    BY <1>1 DEF PagesInit
  <2>2. QED
    BY <2>1 DEF PagesInv, PagesRight, LookupRight, AllMeansAll
<1>2. PagesInv /\ [PagesNext]_pagesVars => PagesInv'
  BY PagesStep
<1>3. PagesInv => PagesRight
  BY DEF PagesInv
<1>4. QED
  BY <1>1, <1>2, <1>3, PTL DEF PagesSpec

-----------------------------------------------------------------------------
(* The type pool: where records begin, and sequences.                      *)

\* What Offsets describes.
OffsetsTo(rs, k, off) ==
  off = [j \in 1 .. k |-> IF j = 1 THEN 0 ELSE off[j - 1] + RecSize[rs[j - 1]]]

LEMMA OffsetsExist ==
  ASSUME NEW rs, NEW k \in Nat
  PROVE  \E off : OffsetsTo(rs, k, off)
<1> DEFINE T == {j \in Nat : ~\E off : OffsetsTo(rs, j, off)}
<1>1. SUFFICES ASSUME T # {}
               PROVE  FALSE
  OBVIOUS
<1>2. PICK x \in T : \A y \in T : x <= y
  BY <1>1, LeastIn
<1>3. x # 0
  <2> DEFINE g == [j \in 1 .. 0 |-> 0]
  <2>1. g = [j \in 1 .. 0 |-> IF j = 1 THEN 0 ELSE g[j - 1] + RecSize[rs[j - 1]]]
    OBVIOUS
  <2>2. OffsetsTo(rs, 0, g)
    BY <2>1 DEF OffsetsTo
  <2>3. QED
    BY <2>2
<1>4. x - 1 \in Nat /\ x - 1 \notin T
  BY <1>2, <1>3
<1>5. PICK g : OffsetsTo(rs, x - 1, g)
  BY <1>4
<1> DEFINE f == [j \in 1 .. x |-> IF j = 1 THEN 0 ELSE g[j - 1] + RecSize[rs[j - 1]]]
<1>6. \A j \in 1 .. x - 1 : f[j] = g[j]
  <2>1. \A j \in 1 .. x - 1 : g[j] = IF j = 1 THEN 0 ELSE g[j - 1] + RecSize[rs[j - 1]]
    BY <1>5 DEF OffsetsTo
  <2>2. QED
    BY <1>4, <2>1
<1>7. \A j \in 1 .. x : f[j] = IF j = 1 THEN 0 ELSE f[j - 1] + RecSize[rs[j - 1]]
  <2>1. ASSUME NEW j \in 1 .. x, j # 1
        PROVE  f[j - 1] = g[j - 1]
    <3>1. j - 1 \in 1 .. x - 1
      BY <1>4, <2>1
    <3> HIDE DEF f
    <3>2. QED
      BY <1>6, <3>1
  <2>2. \A j \in 1 .. x : f[j] = IF j = 1 THEN 0 ELSE g[j - 1] + RecSize[rs[j - 1]]
    OBVIOUS
  <2> HIDE DEF f
  <2>3. QED
    BY <2>1, <2>2
<1>8. OffsetsTo(rs, x, f)
  <2>1. f = [j \in 1 .. x |-> f[j]]
    OBVIOUS
  <2> HIDE DEF f
  <2>2. QED
    BY <1>7, <2>1 DEF OffsetsTo
<1>9. QED
  BY <1>2, <1>8

\* Each record begins where the one before it ends.
LEMMA OffsetsAre ==
  ASSUME TypePoolAssumption, NEW rs \in Seq(TypeRecs)
  PROVE  /\ Len(rs) \in Nat /\ DOMAIN rs = 1 .. Len(rs)
         /\ \A j \in 1 .. Len(rs) + 1 : Offsets(rs)[j] \in Nat
         /\ Offsets(rs)[1] = 0
         /\ \A j \in 1 .. Len(rs) :
              /\ RecSize[rs[j]] \in Nat \ {0}
              /\ Offsets(rs)[j + 1] = Offsets(rs)[j] + RecSize[rs[j]]
<1> DEFINE off == Offsets(rs)
           k == Len(rs) + 1
<1>1. Len(rs) \in Nat /\ DOMAIN rs = 1 .. Len(rs) /\ k \in Nat
  BY LenProperties
<1>2. \A j \in 1 .. Len(rs) : RecSize[rs[j]] \in Nat \ {0}
  <2>1. \A j \in 1 .. Len(rs) : rs[j] \in TypeRecs
    BY ElementOfSeq
  <2>2. QED
    BY <2>1 DEF TypePoolAssumption
<1>3. OffsetsTo(rs, k, off)
  <2>1. off = CHOOSE f : OffsetsTo(rs, k, f)
    BY Zenon DEF Offsets, OffsetsTo
  <2>2. \E f : OffsetsTo(rs, k, f)
    BY <1>1, OffsetsExist
  <2> HIDE DEF off, k
  <2>3. QED
    BY <2>1, <2>2, Zenon
<1> HIDE DEF off
<1>4. \A j \in 1 .. k : off[j] = IF j = 1 THEN 0 ELSE off[j - 1] + RecSize[rs[j - 1]]
  BY <1>3 DEF OffsetsTo
<1>5. off[1] = 0 /\ \A j \in 1 .. Len(rs) : off[j + 1] = off[j] + RecSize[rs[j]]
  <2>1. 1 \in 1 .. k /\ \A j \in 1 .. Len(rs) : j + 1 \in 1 .. k /\ j + 1 # 1 /\ (j + 1) - 1 = j
    BY <1>1
  <2>2. QED
    BY <1>4, <2>1
<1> DEFINE T == {j \in 1 .. k : off[j] \notin Nat}
<1>6. T = {}
  <2>1. SUFFICES ASSUME T # {}
                 PROVE  FALSE
    OBVIOUS
  <2>2. T \in SUBSET Nat
    BY <1>1
  <2>3. PICK x \in T : \A y \in T : x <= y
    BY <2>1, <2>2, LeastIn
  <2>4. x \in 1 .. k /\ x # 1 /\ x - 1 \notin T
    BY <1>1, <1>5, <2>3
  <2>5. x - 1 \in 1 .. Len(rs) /\ (x - 1) + 1 = x /\ off[x - 1] \in Nat
    BY <1>1, <2>4
  <2>6. off[x] = off[x - 1] + RecSize[rs[x - 1]] /\ RecSize[rs[x - 1]] \in Nat
    BY <1>2, <1>5, <2>5
  <2>7. QED
    BY <2>3, <2>5, <2>6
<1>7. QED
  BY <1>1, <1>2, <1>5, <1>6 DEF off

\* No two records begin at one place.
LEMMA OffsetsGrow ==
  ASSUME TypePoolAssumption, NEW rs \in Seq(TypeRecs), NEW i \in 1 .. Len(rs), NEW j \in i + 1 .. Len(rs) + 1
  PROVE  Offsets(rs)[i] < Offsets(rs)[j]
<1> DEFINE off == Offsets(rs)
           T == {y \in i + 1 .. Len(rs) + 1 : ~(off[i] < off[y])}
<1>1. /\ Len(rs) \in Nat
      /\ \A y \in 1 .. Len(rs) + 1 : off[y] \in Nat
      /\ \A y \in 1 .. Len(rs) : RecSize[rs[y]] \in Nat \ {0} /\ off[y + 1] = off[y] + RecSize[rs[y]]
  BY OffsetsAre
<1> HIDE DEF off
<1>2. SUFFICES ASSUME T # {}
               PROVE  FALSE
  BY DEF off
<1>3. T \in SUBSET Nat
  BY <1>1
<1>4. PICK x \in T : \A y \in T : x <= y
  BY <1>2, <1>3, LeastIn
<1>5. /\ x \in i + 1 .. Len(rs) + 1 /\ x - 1 \in 1 .. Len(rs) /\ (x - 1) + 1 = x /\ ~(off[i] < off[x])
      /\ i \in 1 .. Len(rs) + 1 /\ x - 1 \in 1 .. Len(rs) + 1
  BY <1>1, <1>4
<1>6. off[x] = off[x - 1] + RecSize[rs[x - 1]] /\ RecSize[rs[x - 1]] \in Nat \ {0}
  BY <1>1, <1>5
<1>7. off[i] \in Nat /\ off[x - 1] \in Nat
  BY <1>1, <1>5
<1>8. x - 1 = i \/ off[i] < off[x - 1]
  <2>1. ASSUME x - 1 # i
        PROVE  off[i] < off[x - 1]
    <3>1. x - 1 \in i + 1 .. Len(rs) + 1 /\ x - 1 \notin T
      BY <1>1, <1>4, <1>5, <2>1
    <3>2. QED
      BY <3>1
  <2>2. QED
    BY <2>1
<1>9. QED
  BY <1>5, <1>6, <1>7, <1>8

\* A record that is added begins where the others end.
LEMMA OffsetsStay ==
  ASSUME TypePoolAssumption, NEW rs \in Seq(TypeRecs), NEW r \in TypeRecs, NEW j \in 1 .. Len(rs) + 1
  PROVE  Offsets(Append(rs, r))[j] = Offsets(rs)[j]
<1> DEFINE off == Offsets(rs)
           new == Offsets(Append(rs, r))
           T == {y \in 1 .. Len(rs) + 1 : new[y] # off[y]}
<1>1. /\ Append(rs, r) \in Seq(TypeRecs) /\ Len(Append(rs, r)) = Len(rs) + 1
      /\ \A y \in 1 .. Len(rs) : Append(rs, r)[y] = rs[y]
  BY AppendProperties
<1>2. Len(rs) \in Nat /\ off[1] = 0 /\ \A y \in 1 .. Len(rs) : off[y + 1] = off[y] + RecSize[rs[y]]
  BY OffsetsAre
<1>3. new[1] = 0 /\ \A y \in 1 .. Len(rs) : new[y + 1] = new[y] + RecSize[rs[y]]
  <2>1. /\ new[1] = 0
        /\ \A y \in 1 .. Len(rs) + 1 : new[y + 1] = new[y] + RecSize[Append(rs, r)[y]]
    <3> DEFINE q == Append(rs, r)
    <3>1. q \in Seq(TypeRecs) /\ Len(q) = Len(rs) + 1
      BY <1>1
    <3> HIDE DEF q
    <3>2. Offsets(q)[1] = 0 /\ \A y \in 1 .. Len(q) : Offsets(q)[y + 1] = Offsets(q)[y] + RecSize[q[y]]
      BY <3>1, OffsetsAre
    <3>3. QED
      BY <3>1, <3>2 DEF q
  <2>2. \A y \in 1 .. Len(rs) : y \in 1 .. Len(rs) + 1
    BY <1>2
  <2> HIDE DEF new
  <2>3. QED
    BY <1>1, <2>1, <2>2
<1> HIDE DEF off, new
<1>4. SUFFICES ASSUME T # {}
               PROVE  FALSE
  BY DEF off, new
<1>5. T \in SUBSET Nat
  BY <1>2
<1>6. PICK x \in T : \A y \in T : x <= y
  BY <1>4, <1>5, LeastIn
<1>7. x # 1
  BY <1>2, <1>3, <1>6
<1>8. x - 1 \in 1 .. Len(rs) /\ (x - 1) + 1 = x /\ x - 1 \in 1 .. Len(rs) + 1 /\ x - 1 \notin T
  BY <1>2, <1>6, <1>7
<1>9. new[x - 1] = off[x - 1]
  BY <1>8
<1>10. new[x] = off[x]
  BY <1>2, <1>3, <1>8, <1>9
<1>11. QED
  BY <1>6, <1>10

\* A finite set as a sequence.
LEMMA ListIs ==
  ASSUME NEW S, IsFiniteSet(S)
  PROVE  SetToSeq(S) \in Seq(S)
<1> DEFINE n == Cardinality(S)
<1>1. n \in Nat /\ ExistsBijection(1 .. n, S)
  BY FS_CardinalityType
<1> HIDE DEF n
<1>2. PICK f \in Bijection(1 .. n, S) : TRUE
  BY <1>1 DEF ExistsBijection
<1>3. f \in [1 .. n -> S] /\ IsInjective(f)
  BY <1>2 DEF Bijection, Injection
<1>4. SetToSeq(S) = CHOOSE g \in [1 .. n -> S] : IsInjective(g)
  BY DEF SetToSeq, n
<1>5. SetToSeq(S) \in [1 .. n -> S]
  BY <1>3, <1>4, Zenon
<1>6. QED
  BY <1>1, <1>5, SeqDef

\* Three sequences one after the other.
LEMMA ThreeParts ==
  ASSUME NEW S, NEW x \in Seq(S), NEW y \in Seq(S), NEW z \in Seq(S),
         NEW s, s = x \o y \o z
  PROVE  /\ Len(x) \in Nat /\ Len(y) \in Nat /\ Len(z) \in Nat
         /\ s \in Seq(S) /\ DOMAIN s = 1 .. Len(x) + Len(y) + Len(z)
         /\ \A i \in 1 .. Len(x) : s[i] = x[i]
         /\ \A i \in 1 .. Len(y) : s[Len(x) + i] = y[i]
         /\ \A i \in 1 .. Len(z) : s[Len(x) + Len(y) + i] = z[i]
<1> DEFINE w == x \o y
<1>1. Len(x) \in Nat /\ Len(y) \in Nat /\ Len(z) \in Nat
  BY LenProperties
<1>2. /\ w \in Seq(S) /\ Len(w) = Len(x) + Len(y)
      /\ \A i \in 1 .. Len(x) + Len(y) : w[i] = IF i <= Len(x) THEN x[i] ELSE y[i - Len(x)]
  BY ConcatProperties
<1> HIDE DEF w
<1>3. /\ s \in Seq(S) /\ Len(s) = Len(w) + Len(z)
      /\ \A i \in 1 .. Len(w) + Len(z) : s[i] = IF i <= Len(w) THEN w[i] ELSE z[i - Len(w)]
  <2>1. w \in Seq(S) /\ s = w \o z
    BY <1>2 DEF w
  <2>2. /\ w \o z \in Seq(S) /\ Len(w \o z) = Len(w) + Len(z)
        /\ \A i \in 1 .. Len(w) + Len(z) : (w \o z)[i] = IF i <= Len(w) THEN w[i] ELSE z[i - Len(w)]
    BY <2>1, ConcatProperties, Zenon
  <2>3. QED
    BY <2>1, <2>2, Zenon
<1>4. DOMAIN s = 1 .. Len(x) + Len(y) + Len(z)
  BY <1>1, <1>2, <1>3, LenProperties
<1>5. ASSUME NEW i \in 1 .. Len(x)
      PROVE  s[i] = x[i]
  <2>1. i \in 1 .. Len(w) + Len(z) /\ i <= Len(w) /\ i \in 1 .. Len(x) + Len(y) /\ i <= Len(x)
    BY <1>1, <1>2
  <2>2. QED
    BY <1>2, <1>3, <2>1
<1>6. ASSUME NEW i \in 1 .. Len(y)
      PROVE  s[Len(x) + i] = y[i]
  <2> DEFINE j == Len(x) + i
  <2>1. /\ j \in 1 .. Len(w) + Len(z) /\ j <= Len(w) /\ j \in 1 .. Len(x) + Len(y)
        /\ ~(j <= Len(x)) /\ j - Len(x) = i
    BY <1>1, <1>2
  <2> HIDE DEF j
  <2>2. s[j] = w[j]
    BY <1>3, <2>1
  <2>3. w[j] = y[i]
    BY <1>2, <2>1
  <2>4. QED
    BY <2>2, <2>3 DEF j
<1>7. ASSUME NEW i \in 1 .. Len(z)
      PROVE  s[Len(x) + Len(y) + i] = z[i]
  <2> DEFINE j == Len(x) + Len(y) + i
  <2>1. j \in 1 .. Len(w) + Len(z) /\ ~(j <= Len(w)) /\ j - Len(w) = i
    BY <1>1, <1>2
  <2> HIDE DEF j
  <2>2. s[j] = z[i]
    BY <1>3, <2>1
  <2>3. QED
    BY <2>2 DEF j
<1>8. QED
  BY <1>1, <1>3, <1>4, <1>5, <1>6, <1>7
\* The least element of a set is the only one.
LEMMA MinOnly ==
  ASSUME NEW T \in SUBSET Nat, NEW x \in T, \A y \in T : x <= y
  PROVE  Min(T) = x
<1>1. Min(T) \in T /\ Min(T) <= x
  BY MinIs
<1>2. x <= Min(T) /\ Min(T) \in Nat /\ x \in Nat
  BY <1>1
<1>3. QED
  BY <1>1, <1>2

LEMMA SameUDTIn ==
  ASSUME NEW S, NEW chain \in Seq(S), NEW p, NEW n
  PROVE  /\ DOMAIN chain = 1 .. Len(chain) /\ Len(chain) \in Nat
         /\ SameUDT(p, chain, n) \in SUBSET (1 .. Len(chain))
         /\ SameUDT(p, chain, n) \in SUBSET Nat
         /\ FirstUDT(p, chain, n) # 0 =>
              \E k \in 1 .. Len(chain) : k \in SameUDT(p, chain, n) /\ FirstUDT(p, chain, n) = chain[k]
<1>1. DOMAIN chain = 1 .. Len(chain) /\ Len(chain) \in Nat
  BY LenProperties
<1>2. SameUDT(p, chain, n) \in SUBSET (1 .. Len(chain))
  BY <1>1 DEF SameUDT
<1>3. SameUDT(p, chain, n) \in SUBSET Nat
  BY <1>1, <1>2
<1>4. ASSUME SameUDT(p, chain, n) # {}
      PROVE  Min(SameUDT(p, chain, n)) \in SameUDT(p, chain, n)
  BY <1>3, <1>4, MinIs
<1>5. QED
  BY <1>1, <1>2, <1>3, <1>4 DEF FirstUDT

LEMMA AtHeadIs ==
  ASSUME NEW S, NEW chain \in Seq(S), NEW k \in DOMAIN chain
  PROVE  /\ AtHead(chain, k) \in Seq(S) /\ DOMAIN AtHead(chain, k) = DOMAIN chain
         /\ AtHead(chain, k)[1] = chain[k]
         /\ \A j \in 1 .. k - 1 : AtHead(chain, k)[j + 1] = chain[j]
         /\ \A j \in k + 1 .. Len(chain) : AtHead(chain, k)[j] = chain[j]
<1>1. DOMAIN chain = 1 .. Len(chain) /\ Len(chain) \in Nat /\ \A j \in DOMAIN chain : chain[j] \in S
  BY LenProperties, ElementOfSeq
<1>2. k \in 1 .. Len(chain) /\ k \in Nat
  BY <1>1
<1>3. AtHead(chain, k) = [j \in 1 .. Len(chain) |->
                            IF j = 1 THEN chain[k] ELSE IF j <= k THEN chain[j - 1] ELSE chain[j]]
  BY <1>1 DEF AtHead
<1>4. \A j \in 1 .. Len(chain) : AtHead(chain, k)[j] \in S
  <2>1. ASSUME NEW j \in 1 .. Len(chain), j # 1, j <= k
        PROVE  chain[j - 1] \in S
    <3>1. j - 1 \in 1 .. Len(chain)
      BY <1>1, <2>1
    <3>2. QED
      BY <1>1, <3>1
  <2>2. QED
    BY <1>1, <1>2, <1>3, <2>1
<1>5. AtHead(chain, k) \in Seq(S)
  <2>1. AtHead(chain, k) \in [1 .. Len(chain) -> S]
    <3>1. AtHead(chain, k) = [j \in 1 .. Len(chain) |-> AtHead(chain, k)[j]]
      BY <1>3
    <3> HIDE DEF AtHead
    <3>2. QED
      BY <1>4, <3>1, Zenon
  <2>2. QED
    BY <1>1, <2>1, SeqDef
<1>6. QED
  BY <1>1, <1>2, <1>3, <1>5

\* A promotion changes what one name stands for.
LEMMA FirstPromoted ==
  ASSUME NEW S, NEW chain \in Seq(S), NEW p, NEW n, NEW m, NEW k \in SameUDT(p, chain, n)
  PROVE  FirstUDT(p, AtHead(chain, k), m)
         = IF m = n THEN chain[k] ELSE FirstUDT(p, chain, m)
<1> DEFINE N == Len(chain)
           new == AtHead(chain, k)
           T == SameUDT(p, chain, m)
           U == SameUDT(p, new, m)
           Is(ti) == p[ti] \in DOMAIN UdtName /\ UdtName[p[ti]] = m
<1>1. /\ DOMAIN chain = 1 .. N /\ N \in Nat /\ T \in SUBSET (1 .. N) /\ T \in SUBSET Nat
      /\ k \in 1 .. N
  BY SameUDTIn
<1>2. /\ new \in Seq(S) /\ DOMAIN new = 1 .. N /\ new[1] = chain[k]
      /\ \A j \in 1 .. k - 1 : new[j + 1] = chain[j]
      /\ \A j \in k + 1 .. N : new[j] = chain[j]
  <2>1. k \in DOMAIN chain
    BY <1>1
  <2>2. QED
    BY <1>1, <2>1, AtHeadIs
<1> HIDE DEF new
<1>3. T = {j \in 1 .. N : Is(chain[j])} /\ U = {j \in 1 .. N : Is(new[j])}
  BY <1>1, <1>2 DEF SameUDT
<1>4. Is(chain[k]) <=> m = n
  BY DEF SameUDT
<1> HIDE DEF T, U, Is
<1>5. /\ FirstUDT(p, chain, m) = IF T = {} THEN 0 ELSE chain[Min(T)]
      /\ FirstUDT(p, new, m) = IF U = {} THEN 0 ELSE new[Min(U)]
  BY DEF FirstUDT, T, U
<1>6. U \in SUBSET Nat
  BY <1>1, <1>3
<1>7. CASE m = n
  <2>1. 1 \in U /\ \A y \in U : 1 <= y
    BY <1>1, <1>2, <1>3, <1>4, <1>7
  <2>2. Min(U) = 1
    BY <1>6, <2>1, MinOnly
  <2>3. QED
    BY <1>2, <1>5, <1>7, <2>1, <2>2 DEF new
<1>8. CASE m # n
  <2>1. k \notin T /\ 1 \notin U
    BY <1>1, <1>2, <1>3, <1>4, <1>8
  <2>2. \A j \in U : IF j <= k THEN j - 1 \in T ELSE j \in T
    <3>1. ASSUME NEW j \in U, j <= k
          PROVE  j - 1 \in T
      <4>1. j \in 1 .. N /\ j # 1 /\ j - 1 \in 1 .. k - 1 /\ (j - 1) + 1 = j
        BY <1>1, <1>3, <2>1, <3>1
      <4>2. new[j] = chain[j - 1] /\ j - 1 \in 1 .. N
        BY <1>1, <1>2, <4>1
      <4>3. QED
        BY <1>3, <4>2, <3>1
    <3>2. ASSUME NEW j \in U, ~(j <= k)
          PROVE  j \in T
      <4>1. j \in k + 1 .. N
        BY <1>1, <1>3, <3>2
      <4>2. QED
        BY <1>1, <1>2, <1>3, <4>1
    <3>3. QED
      BY <3>1, <3>2
  <2>3. \A j \in T : IF j < k THEN j + 1 \in U /\ new[j + 1] = chain[j]
                     ELSE j > k /\ j \in U /\ new[j] = chain[j]
    <3>1. ASSUME NEW j \in T, j < k
          PROVE  j + 1 \in U /\ new[j + 1] = chain[j]
      <4>1. j \in 1 .. k - 1 /\ j + 1 \in 1 .. N
        BY <1>1, <3>1
      <4>2. QED
        BY <1>2, <1>3, <4>1
    <3>2. ASSUME NEW j \in T, ~(j < k)
          PROVE  j > k /\ j \in U /\ new[j] = chain[j]
      <4>1. j \in k + 1 .. N
        BY <1>1, <2>1, <3>2
      <4>2. j \in 1 .. N /\ j > k
        BY <1>1, <4>1
      <4>3. QED
        BY <1>2, <1>3, <4>1, <4>2
    <3>3. QED
      BY <3>1, <3>2
  <2>4. CASE T = {}
    <3>1. U = {}
      BY <2>2, <2>4
    <3>2. QED
      BY <1>5, <1>8, <2>4, <3>1 DEF new
  <2>5. CASE T # {}
    <3> DEFINE x == Min(T)
               z == IF x < k THEN x + 1 ELSE x
    <3>1. x \in T /\ \A y \in T : x <= y
      BY <1>1, <2>5, MinIs
    <3> HIDE DEF x
    <3>2. z \in U /\ new[z] = chain[x] /\ x \in Nat /\ k \in Nat
      BY <1>1, <2>3, <3>1
    <3>3. \A y \in U : z <= y
      <4>1. ASSUME NEW y \in U
            PROVE  z <= y
        <5>1. y \in Nat
          BY <1>6
        <5>2. IF y <= k THEN x <= y - 1 ELSE x <= y
          BY <2>2, <3>1
        <5>3. QED
          BY <3>2, <5>1, <5>2
      <4>2. QED
        BY <4>1
    <3> HIDE DEF z
    <3>4. Min(U) = z
      BY <1>6, <3>2, <3>3, MinOnly
    <3>5. QED
      BY <1>5, <1>8, <2>5, <3>2, <3>4 DEF new, x
  <2>6. QED
    BY <2>4, <2>5
<1>9. QED
  BY <1>7, <1>8

LEMMA AppendedIs ==
  ASSUME NEW p, p \in Seq(Range(p)), NEW r
  PROVE  /\ DOMAIN p = 1 .. Len(p) /\ Len(p) \in Nat
         /\ Append(p, r) \in Seq(Range(Append(p, r)))
         /\ DOMAIN Append(p, r) = 1 .. Len(p) + 1
         /\ \A i \in DOMAIN p : Append(p, r)[i] = p[i]
         /\ Append(p, r)[Len(p) + 1] = r
<1> DEFINE S == Range(p) \cup {r}
           q == Append(p, r)
<1>1. DOMAIN p = 1 .. Len(p) /\ Len(p) \in Nat
  BY LenProperties
<1>2. p \in Seq(S)
  <2>1. Range(p) \subseteq S
    OBVIOUS
  <2> HIDE DEF S
  <2>2. QED
    BY <1>1, <2>1, SeqDef, ElementOfSeq
<1>3. /\ q \in Seq(S) /\ Len(q) = Len(p) + 1
      /\ \A i \in 1 .. Len(p) : q[i] = p[i]
      /\ q[Len(p) + 1] = r
  BY <1>2, AppendProperties
<1> HIDE DEF q
<1>4. DOMAIN q = 1 .. Len(p) + 1
  BY <1>1, <1>3, LenProperties
<1>5. q \in Seq(Range(q))
  <2>1. q = [i \in 1 .. Len(p) + 1 |-> q[i]]
    BY <1>3, <1>4, LenProperties
  <2>2. \A i \in 1 .. Len(p) + 1 : q[i] \in Range(q)
    BY <1>4 DEF Range
  <2>3. q \in [1 .. Len(p) + 1 -> Range(q)]
    BY <2>1, <2>2, Zenon
  <2>4. QED
    BY <1>1, <2>3, SeqDef
<1>6. QED
  BY <1>1, <1>3, <1>4, <1>5 DEF q

\* A new record is what its own name stands for, and no other name.
LEMMA FirstAdded ==
  ASSUME NEW p, p \in Seq(Range(p)), NEW r, NEW chain \in Seq(DOMAIN p), NEW n
  PROVE  /\ FirstUDT(Append(p, r), chain, n) = FirstUDT(p, chain, n)
         /\ FirstUDT(Append(p, r), <<Len(p) + 1>> \o chain, n)
            = IF r \in DOMAIN UdtName /\ UdtName[r] = n THEN Len(p) + 1
              ELSE FirstUDT(p, chain, n)
<1> DEFINE N == Len(chain)
           q == Append(p, r)
           ti == Len(p) + 1
           new == <<ti>> \o chain
           T == SameUDT(p, chain, n)
           U == SameUDT(q, new, n)
<1>1. /\ DOMAIN p = 1 .. Len(p) /\ Len(p) \in Nat
      /\ \A i \in DOMAIN p : q[i] = p[i]
      /\ q[ti] = r
  BY AppendedIs
<1>2. /\ DOMAIN chain = 1 .. N /\ N \in Nat /\ T \in SUBSET (1 .. N) /\ T \in SUBSET Nat
      /\ \A j \in 1 .. N : chain[j] \in DOMAIN p
  <2>1. \A j \in 1 .. N : chain[j] \in DOMAIN p
    BY ElementOfSeq
  <2>2. QED
    BY <2>1, SameUDTIn
<1>3. /\ DOMAIN new = 1 .. N + 1 /\ new[1] = ti
      /\ \A j \in 1 .. N : new[j + 1] = chain[j]
  <2> DEFINE A == DOMAIN p \cup {ti}
  <2>1. chain \in Seq(A) /\ <<ti>> \in Seq(A) /\ Len(<<ti>>) = 1 /\ <<ti>>[1] = ti
    <3>1. chain \in Seq(A)
      <4>1. DOMAIN p \subseteq A
        OBVIOUS
      <4> HIDE DEF A
      <4>2. QED
        BY <1>2, <4>1, SeqDef, ElementOfSeq
    <3>2. ti \in A
      OBVIOUS
    <3> HIDE DEF A
    <3>3. QED
      BY <3>1, <3>2
  <2> HIDE DEF A, ti
  <2>2. /\ Len(new) = 1 + N /\ new \in Seq(A)
        /\ \A i \in 1 .. 1 + N : new[i] = IF i <= 1 THEN <<ti>>[i] ELSE chain[i - 1]
    BY <1>2, <2>1, ConcatProperties
  <2> HIDE DEF new
  <2>3. DOMAIN new = 1 .. 1 + N
    BY <2>2, LenProperties
  <2>4. QED
    BY <1>2, <2>1, <2>2, <2>3
<1> HIDE DEF new, q
<1>4. SameUDT(q, chain, n) = T
  BY <1>1, <1>2 DEF SameUDT
<1>5. FirstUDT(q, chain, n) = FirstUDT(p, chain, n)
  BY <1>4 DEF FirstUDT
<1>6. \A j \in 1 .. N : j + 1 \in U <=> j \in T
  <2>1. ASSUME NEW j \in 1 .. N
        PROVE  j + 1 \in U <=> j \in T
    <3>1. j + 1 \in DOMAIN new /\ j \in DOMAIN chain /\ q[new[j + 1]] = p[chain[j]]
      BY <1>1, <1>2, <1>3
    <3>2. QED
      BY <3>1 DEF SameUDT
  <2>2. QED
    BY <2>1
<1>7. U \in SUBSET (1 .. N + 1)
  BY <1>3 DEF SameUDT
<1>8. U \in SUBSET Nat
  BY <1>2, <1>7
<1>9. 1 \in U <=> r \in DOMAIN UdtName /\ UdtName[r] = n
  BY <1>1, <1>2, <1>3 DEF SameUDT
<1>10. /\ FirstUDT(p, chain, n) = IF T = {} THEN 0 ELSE chain[Min(T)]
       /\ FirstUDT(q, new, n) = IF U = {} THEN 0 ELSE new[Min(U)]
  BY DEF FirstUDT
<1> HIDE DEF T, U
<1>11. CASE 1 \in U
  <2>1. Min(U) = 1
    BY <1>7, <1>8, <1>11, <1>2, MinOnly
  <2>2. QED
    BY <1>3, <1>5, <1>9, <1>10, <1>11, <2>1 DEF q, new
<1>12. CASE 1 \notin U
  <2>1. CASE T = {}
    <3>1. U = {}
      <4>1. ASSUME NEW j \in U
            PROVE  FALSE
        <5>1. j - 1 \in 1 .. N /\ (j - 1) + 1 = j
          BY <1>2, <1>7, <1>12
        <5>2. QED
          BY <1>6, <2>1, <5>1
      <4>2. QED
        BY <4>1
    <3>2. QED
      BY <1>5, <1>9, <1>10, <1>12, <2>1, <3>1 DEF q, new
  <2>2. CASE T # {}
    <3> DEFINE x == Min(T)
    <3>1. x \in T /\ \A y \in T : x <= y
      BY <1>2, <2>2, MinIs
    <3> HIDE DEF x
    <3>2. x \in 1 .. N /\ x + 1 \in U
      BY <1>2, <1>6, <3>1
    <3>3. \A y \in U : x + 1 <= y
      <4>1. ASSUME NEW y \in U
            PROVE  x + 1 <= y
        <5>1. y - 1 \in 1 .. N /\ (y - 1) + 1 = y
          BY <1>2, <1>7, <1>12
        <5>2. x <= y - 1
          BY <1>6, <3>1, <5>1
        <5>3. QED
          BY <3>2, <5>1, <5>2
      <4>2. QED
        BY <4>1
    <3>4. Min(U) = x + 1
      BY <1>8, <3>2, <3>3, MinOnly
    <3>5. new[x + 1] = chain[x]
      BY <1>3, <3>2
    <3>6. QED
      BY <1>5, <1>9, <1>10, <1>12, <2>2, <3>2, <3>4, <3>5 DEF q, new, x
  <2>3. QED
    BY <2>1, <2>2
<1>13. QED
  BY <1>11, <1>12

\* What fInitHashToPchnMap links after k steps.
LinkedTo(d, k, c) ==
  c = [i \in 0 .. k |-> IF i = 0 THEN [b \in Buckets |-> <<>>] ELSE LinkNext(d, i, c[i - 1])]

LEMMA LinksExist ==
  ASSUME NEW d, NEW k \in Nat
  PROVE  \E c : LinkedTo(d, k, c)
<1> DEFINE T == {j \in Nat : ~\E c : LinkedTo(d, j, c)}
<1>1. SUFFICES ASSUME T # {}
               PROVE  FALSE
  OBVIOUS
<1>2. PICK x \in T : \A y \in T : x <= y
  BY <1>1, LeastIn
<1>3. x # 0
  <2> DEFINE c == [i \in 0 .. 0 |-> [b \in Buckets |-> <<>>]]
  <2>1. c = [i \in 0 .. 0 |->
               IF i = 0 THEN [b \in Buckets |-> <<>>] ELSE LinkNext(d, i, c[i - 1])]
    OBVIOUS
  <2>2. LinkedTo(d, 0, c)
    BY <2>1 DEF LinkedTo
  <2>3. QED
    BY <2>2
<1>4. x - 1 \in Nat /\ x - 1 \notin T
  BY <1>2, <1>3
<1>5. PICK c : LinkedTo(d, x - 1, c)
  BY <1>4
<1> DEFINE f == [i \in 0 .. x |-> IF i = 0 THEN [b \in Buckets |-> <<>>] ELSE LinkNext(d, i, c[i - 1])]
<1>6. \A i \in 0 .. x - 1 : f[i] = c[i]
  <2>1. \A i \in 0 .. x - 1 :
          c[i] = IF i = 0 THEN [b \in Buckets |-> <<>>] ELSE LinkNext(d, i, c[i - 1])
    BY <1>5 DEF LinkedTo
  <2>2. QED
    BY <1>4, <2>1
<1>7. \A i \in 0 .. x : f[i] = IF i = 0 THEN [b \in Buckets |-> <<>>] ELSE LinkNext(d, i, f[i - 1])
  <2>1. ASSUME NEW i \in 0 .. x, i # 0
        PROVE  f[i - 1] = c[i - 1]
    <3>1. i - 1 \in 0 .. x - 1
      BY <1>4, <2>1
    <3> HIDE DEF f
    <3>2. QED
      BY <1>6, <3>1
  <2>2. \A i \in 0 .. x : f[i] = IF i = 0 THEN [b \in Buckets |-> <<>>] ELSE LinkNext(d, i, c[i - 1])
    OBVIOUS
  <2> HIDE DEF f
  <2>3. QED
    BY <2>1, <2>2
<1>8. LinkedTo(d, x, f)
  <2>1. f = [i \in 0 .. x |-> f[i]]
    OBVIOUS
  <2> HIDE DEF f
  <2>2. QED
    BY <1>7, <2>1 DEF LinkedTo
<1>9. QED
  BY <1>2, <1>8

-----------------------------------------------------------------------------
(* The type pool: chains.                                                  *)

\* c has each type of p once, in the chain that its record hashes to, if it is
\* one of the first k.
ChainsOf(p, k, c) ==
  /\ c \in [Buckets -> Seq(DOMAIN p)]
  /\ \A b \in Buckets :
       /\ IsInjective(c[b])
       /\ Range(c[b]) = {ti \in DOMAIN p : ti <= k /\ hashPrec(p[ti]) = b}

\* A record is hashed into a chain that there is.
LEMMA HashesToChain ==
  ASSUME TypePoolAssumption, NEW r \in TypeRecs
  PROVE  /\ hashPrec(r) \in Buckets
         /\ r \in DOMAIN UdtName => hashPrec(r) = ChainOf[UdtName[r]]
BY DEF TypePoolAssumption, hashPrec, Buckets, UdtNames

LEMMA NameHashes ==
  ASSUME TypePoolAssumption, NEW n \in UdtNames
  PROVE  ChainOf[n] \in Buckets
BY DEF TypePoolAssumption, Buckets

LEMMA PrefixedIs ==
  ASSUME NEW S, NEW s \in Seq(S), NEW x \in S
  PROVE  /\ <<x>> \o s \in Seq(S) /\ DOMAIN (<<x>> \o s) = 1 .. Len(s) + 1
         /\ (<<x>> \o s)[1] = x
         /\ \A j \in 1 .. Len(s) : (<<x>> \o s)[j + 1] = s[j]
<1> DEFINE w == <<x>>
           new == w \o s
<1>1. w \in Seq(S) /\ Len(w) = 1 /\ w[1] = x /\ Len(s) \in Nat
  BY LenProperties
<1> HIDE DEF w
<1>2. /\ new \in Seq(S) /\ Len(new) = Len(w) + Len(s)
      /\ \A i \in 1 .. Len(w) + Len(s) : new[i] = IF i <= Len(w) THEN w[i] ELSE s[i - Len(w)]
  <2>1. w \in Seq(S)
    BY <1>1
  <2>2. QED
    BY <2>1, ConcatProperties, Zenon
<1> HIDE DEF new
<1>3. DOMAIN new = 1 .. Len(s) + 1
  BY <1>1, <1>2, LenProperties
<1>4. new[1] = x
  BY <1>1, <1>2
<1>5. ASSUME NEW j \in 1 .. Len(s)
      PROVE  new[j + 1] = s[j]
  <2> DEFINE i == j + 1
  <2>1. i \in 1 .. Len(w) + Len(s) /\ ~(i <= Len(w)) /\ i - Len(w) = j
    BY <1>1
  <2> HIDE DEF i
  <2>2. new[i] = s[j]
    BY <1>2, <2>1
  <2>3. QED
    BY <2>2 DEF i
<1>6. QED
  BY <1>2, <1>3, <1>4, <1>5 DEF new, w

\* A new type at the head of its chain.
LEMMA PrefixedChain ==
  ASSUME NEW S, NEW s \in Seq(S), IsInjective(s), NEW x \in S, x \notin Range(s)
  PROVE  IsInjective(<<x>> \o s) /\ Range(<<x>> \o s) = Range(s) \cup {x}
<1> DEFINE new == <<x>> \o s
<1>1. /\ DOMAIN new = 1 .. Len(s) + 1 /\ new[1] = x
      /\ \A j \in 1 .. Len(s) : new[j + 1] = s[j]
  BY PrefixedIs
<1>2. DOMAIN s = 1 .. Len(s) /\ Len(s) \in Nat
  BY LenProperties
<1> HIDE DEF new
<1>3. \A i \in DOMAIN new : i = 1 \/ (i - 1 \in DOMAIN s /\ new[i] = s[i - 1])
  <2>1. ASSUME NEW i \in DOMAIN new, i # 1
        PROVE  i - 1 \in DOMAIN s /\ new[i] = s[i - 1]
    <3>1. i - 1 \in 1 .. Len(s) /\ (i - 1) + 1 = i
      BY <1>1, <1>2, <2>1
    <3>2. new[(i - 1) + 1] = s[i - 1]
      BY <1>1, <3>1
    <3>3. QED
      BY <1>2, <3>1, <3>2
  <2>2. QED
    BY <2>1
<1>4. \A j \in DOMAIN s : s[j] # x
  BY DEF Range
<1>5. IsInjective(new)
  <2>1. ASSUME NEW i \in DOMAIN new, NEW j \in DOMAIN new, new[i] = new[j]
        PROVE  i = j
    <3>1. CASE i = 1
      BY <1>1, <1>3, <1>4, <2>1, <3>1
    <3>2. CASE j = 1
      BY <1>1, <1>3, <1>4, <2>1, <3>2
    <3>3. CASE i # 1 /\ j # 1
      <4>1. i - 1 = j - 1
        BY <1>3, <2>1, <3>3 DEF IsInjective
      <4>2. QED
        BY <1>1, <1>2, <4>1
    <3>4. QED
      BY <3>1, <3>2, <3>3
  <2>2. QED
    BY <2>1 DEF IsInjective
<1>6. Range(new) = Range(s) \cup {x}
  <2>1. ASSUME NEW y \in Range(new)
        PROVE  y \in Range(s) \cup {x}
    BY <1>1, <1>3 DEF Range
  <2>2. x \in Range(new)
    <3>1. 1 \in DOMAIN new
      BY <1>1, <1>2
    <3>2. QED
      BY <1>1, <3>1 DEF Range
  <2>3. ASSUME NEW y \in Range(s)
        PROVE  y \in Range(new)
    <3>1. PICK j \in DOMAIN s : y = s[j]
      BY DEF Range
    <3>2. j + 1 \in DOMAIN new /\ new[j + 1] = y
      BY <1>1, <1>2, <3>1
    <3>3. QED
      BY <3>2 DEF Range
  <2>4. QED
    BY <2>1, <2>2, <2>3
<1>7. QED
  BY <1>5, <1>6 DEF new

\* A chain whose k-th went to its head has the same types, each once.
LEMMA AtHeadChain ==
  ASSUME NEW S, NEW chain \in Seq(S), IsInjective(chain), NEW k \in DOMAIN chain
  PROVE  IsInjective(AtHead(chain, k)) /\ Range(AtHead(chain, k)) = Range(chain)
<1> DEFINE new == AtHead(chain, k)
           N == Len(chain)
           from(j) == IF j = 1 THEN k ELSE IF j <= k THEN j - 1 ELSE j
<1>1. DOMAIN chain = 1 .. N /\ N \in Nat /\ k \in 1 .. N
  BY LenProperties
<1>2. /\ DOMAIN new = 1 .. N
      /\ \A j \in 1 .. N : from(j) \in 1 .. N /\ new[j] = chain[from(j)]
  BY <1>1 DEF AtHead
<1>3. \A i, j \in 1 .. N : from(i) = from(j) => i = j
  BY <1>1
<1>4. \A j \in 1 .. N : \E i \in 1 .. N : from(i) = j
  <2>1. ASSUME NEW j \in 1 .. N
        PROVE  \E i \in 1 .. N : from(i) = j
    <3>1. CASE j = k
      <4>1. 1 \in 1 .. N /\ from(1) = j
        BY <1>1, <3>1
      <4> HIDE DEF from
      <4>2. QED
        BY <4>1
    <3>2. CASE j < k
      <4>1. j + 1 \in 1 .. N /\ from(j + 1) = j
        BY <1>1, <3>2
      <4> HIDE DEF from
      <4>2. QED
        BY <4>1
    <3>3. CASE j > k
      <4>1. from(j) = j
        BY <1>1, <3>3
      <4> HIDE DEF from
      <4>2. QED
        BY <4>1
    <3>4. QED
      BY <1>1, <3>1, <3>2, <3>3
  <2>2. QED
    BY <2>1
<1> HIDE DEF new, from
<1>5. IsInjective(new)
  BY <1>1, <1>2, <1>3 DEF IsInjective
<1>6. Range(new) = Range(chain)
  <2>1. \A i \in DOMAIN new : \E j \in DOMAIN chain : new[i] = chain[j]
    BY <1>1, <1>2
  <2>2. \A j \in DOMAIN chain : \E i \in DOMAIN new : new[i] = chain[j]
    BY <1>1, <1>2, <1>4
  <2>3. QED
    BY <2>1, <2>2 DEF Range
<1>7. QED
  BY <1>5, <1>6 DEF new

LEMMA PromotedChain ==
  ASSUME NEW S, NEW chain \in Seq(S), IsInjective(chain), NEW ti
  PROVE  /\ Promoted(chain, ti) \in Seq(S)
         /\ IsInjective(Promoted(chain, ti)) /\ Range(Promoted(chain, ti)) = Range(chain)
<1> DEFINE at == {k \in DOMAIN chain : chain[k] = ti}
<1>1. CASE at = {}
  BY <1>1 DEF Promoted
<1>2. CASE at # {}
  <2>1. at \in SUBSET Nat
    BY LenProperties
  <2>2. Min(at) \in DOMAIN chain
    BY <1>2, <2>1, MinIs
  <2>3. Promoted(chain, ti) = AtHead(chain, Min(at))
    BY <1>2 DEF Promoted
  <2>4. QED
    BY <2>2, <2>3, AtHeadIs, AtHeadChain
<1>3. QED
  BY <1>1, <1>2

\* The next type goes before the others of its chain.
LEMMA ChainsLinked ==
  ASSUME TypePoolAssumption, NEW p \in Seq(TypeRecs), NEW ti \in DOMAIN p, NEW c, ChainsOf(p, ti - 1, c)
  PROVE  ChainsOf(p, ti, [c EXCEPT ![hashPrec(p[ti])] = <<ti>> \o @])
<1> DEFINE D == DOMAIN p
           h == hashPrec(p[ti])
           new == [c EXCEPT ![h] = <<ti>> \o @]
<1>1. D = 1 .. Len(p) /\ Len(p) \in Nat /\ p[ti] \in TypeRecs
  BY LenProperties, ElementOfSeq
<1>2. h \in Buckets
  BY <1>1, HashesToChain
<1> HIDE DEF h
<1>3. c \in [Buckets -> Seq(D)]
  BY DEF ChainsOf
<1>4. ASSUME NEW b \in Buckets
      PROVE  /\ c[b] \in Seq(D) /\ IsInjective(c[b])
             /\ Range(c[b]) = {i \in D : i <= ti - 1 /\ hashPrec(p[i]) = b}
             /\ ti \notin Range(c[b])
  <2>1. c[b] \in Seq(D) /\ IsInjective(c[b]) /\ Range(c[b]) = {i \in D : i <= ti - 1 /\ hashPrec(p[i]) = b}
    BY <1>3 DEF ChainsOf
  <2>2. ~(ti <= ti - 1)
    BY <1>1
  <2>3. QED
    BY <2>1, <2>2
<1> HIDE DEF D
<1>5. ti \in D
  BY DEF D
<1>6. \A b \in Buckets : /\ <<ti>> \o c[b] \in Seq(D)
                         /\ IsInjective(<<ti>> \o c[b])
                         /\ Range(<<ti>> \o c[b]) = Range(c[b]) \cup {ti}
  BY <1>4, <1>5, PrefixedIs, PrefixedChain
<1>7. new = [b \in Buckets |-> IF b = h THEN <<ti>> \o c[b] ELSE c[b]]
  BY <1>3
<1>8. new \in [Buckets -> Seq(D)]
  BY <1>4, <1>6, <1>7
<1>9. ASSUME NEW b \in Buckets
      PROVE  /\ IsInjective(new[b])
             /\ Range(new[b]) = {i \in D : i <= ti /\ hashPrec(p[i]) = b}
  <2>1. new[b] = IF b = h THEN <<ti>> \o c[b] ELSE c[b]
    BY <1>7
  <2> HIDE DEF new
  <2>2. {i \in D : i <= ti /\ hashPrec(p[i]) = b}
        = Range(c[b]) \cup {i \in {ti} : b = h}
    <3>1. \A i \in D : i <= ti <=> i <= ti - 1 \/ i = ti
      BY <1>1 DEF D
    <3>2. hashPrec(p[ti]) = h /\ Range(c[b]) = {i \in D : i <= ti - 1 /\ hashPrec(p[i]) = b}
      BY <1>4 DEF h
    <3>3. QED
      BY <1>5, <3>1, <3>2
  <2>3. CASE b = h
    BY <1>6, <2>1, <2>2, <2>3
  <2>4. CASE b # h
    BY <1>4, <2>1, <2>2, <2>4
  <2>5. QED
    BY <2>3, <2>4
<1>10. ChainsOf(p, ti, new)
  BY <1>8, <1>9 DEF ChainsOf, D
<1>11. QED
  BY <1>10 DEF h

\* A record that is added to the pool is linked in the same way.
LEMMA ChainsAdded ==
  ASSUME TypePoolAssumption, NEW p \in Seq(TypeRecs), NEW r \in TypeRecs, NEW c, ChainsOf(p, Len(p), c)
  PROVE  ChainsOf(Append(p, r), Len(p) + 1, [c EXCEPT ![hashPrec(r)] = <<Len(p) + 1>> \o @])
<1> DEFINE q == Append(p, r)
<1>1. /\ DOMAIN p = 1 .. Len(p) /\ Len(p) \in Nat
      /\ DOMAIN q = 1 .. Len(p) + 1 /\ q \in Seq(TypeRecs)
      /\ \A i \in 1 .. Len(p) : q[i] = p[i]
      /\ q[Len(p) + 1] = r
  BY LenProperties, AppendProperties
<1> HIDE DEF q
<1>2. ChainsOf(q, Len(p), c)
  <2>1. DOMAIN p \subseteq DOMAIN q
    BY <1>1
  <2>2. Seq(DOMAIN p) \subseteq Seq(DOMAIN q)
    BY <2>1, SeqMonotonic
  <2>3. c \in [Buckets -> Seq(DOMAIN q)]
    BY <2>2 DEF ChainsOf
  <2>4. ASSUME NEW b \in Buckets
        PROVE  {ti \in DOMAIN p : ti <= Len(p) /\ hashPrec(p[ti]) = b}
               = {ti \in DOMAIN q : ti <= Len(p) /\ hashPrec(q[ti]) = b}
    BY <1>1
  <2>5. QED
    BY <2>3, <2>4 DEF ChainsOf
<1>3. Len(p) + 1 \in DOMAIN q /\ (Len(p) + 1) - 1 = Len(p)
  BY <1>1
<1>4. ChainsOf(q, Len(p) + 1, [c EXCEPT ![hashPrec(q[Len(p) + 1])] = <<Len(p) + 1>> \o @])
  BY <1>1, <1>2, <1>3, ChainsLinked
<1>5. QED
  BY <1>1, <1>4 DEF q

\* A type that goes to the head of its chain.
LEMMA ChainsPromoted ==
  ASSUME NEW p, NEW k, NEW c, ChainsOf(p, k, c), NEW b \in Buckets, NEW chain \in Seq(DOMAIN p),
         IsInjective(chain), Range(chain) = Range(c[b])
  PROVE  ChainsOf(p, k, [c EXCEPT ![b] = chain])
<1> DEFINE new == [c EXCEPT ![b] = chain]
           S == Seq(DOMAIN p)
<1>1. c \in [Buckets -> S]
  BY DEF ChainsOf
<1>2. chain \in S
  OBVIOUS
<1> HIDE DEF S
<1>3. new \in [Buckets -> S] /\ \A x \in Buckets : new[x] = IF x = b THEN chain ELSE c[x]
  BY <1>1, <1>2
<1> HIDE DEF new
<1>4. \A x \in Buckets : IsInjective(new[x]) /\ Range(new[x]) = {ti \in DOMAIN p : ti <= k /\ hashPrec(p[ti]) = x}
  BY <1>3 DEF ChainsOf
<1>5. ChainsOf(p, k, new)
  BY <1>3, <1>4 DEF ChainsOf, S
<1>6. QED
  BY <1>5 DEF new
-----------------------------------------------------------------------------
(* The type pool: what is on the disk, and what is loaded of it.           *)

HashItem(r) == [kind |-> "hash", v |-> hashPrec(r)]
HashItems(p) == [i \in DOMAIN p |-> HashItem(p[i])]
PairItems(t) == [i \in DOMAIN t |-> [kind |-> "tioff", ti |-> t[i][1], off |-> t[i][2]]]
AdjItems(a) == a \in Seq(Range(a)) /\ \A i \in DOMAIN a : a[i].kind = "adj"

Hdrs == [sn : BOOLEAN, nhash : Int, ntioff : Int, nadj : Int, tiMac : Int, nrec : Int]

\* Each pair of t has the place of a record of p, and there is one for the first.
PairsOf(p, t) ==
  /\ t \in Seq(Int \X Int)
  /\ p # <<>> => t # <<>> /\ t[1][1] = 1
  /\ \A i \in DOMAIN t : t[i][1] \in DOMAIN p /\ t[i][2] = Offsets(p)[t[i][1]]

\* The streams have the records p, their hash values, pairs and adjusters.
SavedAs(d, p, t, a) ==
  /\ d.hdr \in Hdrs /\ d.hdr.sn
  /\ d.hdr.tiMac = Len(p) /\ d.hdr.nrec = Len(p) /\ d.hdr.nhash = Len(p)
  /\ d.hdr.ntioff = Len(t) /\ d.hdr.nadj = Len(a)
  /\ d.recs = p
  /\ PairsOf(p, t) /\ AdjItems(a)
  /\ d.hash = HashItems(p) \o PairItems(t) \o a

LEMMA SeqFrom ==
  ASSUME NEW S, NEW n \in Nat, NEW s, s = [i \in 1 .. n |-> s[i]], \A i \in 1 .. n : s[i] \in S
  PROVE  s \in Seq(S) /\ Len(s) = n /\ DOMAIN s = 1 .. n
<1>1. s \in [1 .. n -> S]
  BY Zenon
<1>2. s \in Seq(S) /\ DOMAIN s = 1 .. n
  BY <1>1, SeqDef
<1>3. QED
  BY <1>2, LenProperties

\* s has the hash values of p, then the pairs t, then the adjusters a.
LaidOut(s, p, t, a) ==
  /\ Len(p) \in Nat /\ Len(t) \in Nat /\ Len(a) \in Nat
  /\ DOMAIN p = 1 .. Len(p) /\ DOMAIN t = 1 .. Len(t) /\ DOMAIN a = 1 .. Len(a)
  /\ s \in Seq(Range(s)) /\ Len(s) = Len(p) + Len(t) + Len(a)
  /\ DOMAIN s = 1 .. Len(p) + Len(t) + Len(a)
  /\ \A i \in 1 .. Len(p) : s[i] = HashItem(p[i])
  /\ \A i \in 1 .. Len(t) : s[Len(p) + i] = [kind |-> "tioff", ti |-> t[i][1], off |-> t[i][2]]
  /\ \A i \in 1 .. Len(a) : s[Len(p) + Len(t) + i] = a[i]

LEMMA ItemsAre ==
  ASSUME NEW p \in Seq(TypeRecs), NEW t \in Seq(Int \X Int), NEW a, AdjItems(a),
         NEW s, s = HashItems(p) \o PairItems(t) \o a
  PROVE  LaidOut(s, p, t, a)
<1> DEFINE x == HashItems(p)
           y == PairItems(t)
           S == Range(x) \cup Range(y) \cup Range(a)
<1>0. s = x \o y \o a
  OBVIOUS
<1>1. /\ Len(p) \in Nat /\ Len(t) \in Nat /\ Len(a) \in Nat
      /\ DOMAIN p = 1 .. Len(p) /\ DOMAIN t = 1 .. Len(t) /\ DOMAIN a = 1 .. Len(a)
  BY LenProperties DEF AdjItems
<1>2. x = [i \in 1 .. Len(p) |-> HashItem(p[i])]
  BY <1>1 DEF HashItems
<1>3. y = [i \in 1 .. Len(t) |-> [kind |-> "tioff", ti |-> t[i][1], off |-> t[i][2]]]
  BY <1>1 DEF PairItems
<1> HIDE DEF x, y
<1>4. x \in Seq(S) /\ Len(x) = Len(p)
  <2>1. DOMAIN x = 1 .. Len(p) /\ x = [i \in 1 .. Len(p) |-> x[i]]
    BY <1>2
  <2>2. \A i \in 1 .. Len(p) : x[i] \in S
    BY <2>1 DEF Range
  <2> HIDE DEF S
  <2>3. QED
    BY <1>1, <2>1, <2>2, SeqFrom, Zenon
<1>5. y \in Seq(S) /\ Len(y) = Len(t)
  <2>1. DOMAIN y = 1 .. Len(t) /\ y = [i \in 1 .. Len(t) |-> y[i]]
    BY <1>3
  <2>2. \A i \in 1 .. Len(t) : y[i] \in S
    BY <2>1 DEF Range
  <2> HIDE DEF S
  <2>3. QED
    BY <1>1, <2>1, <2>2, SeqFrom, Zenon
<1>6. a \in Seq(S)
  <2>1. a \in Seq(Range(a)) /\ Range(a) \subseteq S
    BY DEF AdjItems
  <2> HIDE DEF S
  <2>2. QED
    BY <2>1, SeqMonotonic
<1> HIDE DEF S
<1>7. /\ s \in Seq(S) /\ DOMAIN s = 1 .. Len(x) + Len(y) + Len(a)
      /\ \A i \in 1 .. Len(x) : s[i] = x[i]
      /\ \A i \in 1 .. Len(y) : s[Len(x) + i] = y[i]
      /\ \A i \in 1 .. Len(a) : s[Len(x) + Len(y) + i] = a[i]
  <2>1. x \in Seq(S) /\ y \in Seq(S) /\ a \in Seq(S) /\ s = x \o y \o a
    BY <1>0, <1>4, <1>5, <1>6
  <2>2. QED
    BY <2>1, ThreeParts
<1>8. Len(s) = Len(p) + Len(t) + Len(a)
  BY <1>1, <1>4, <1>5, <1>7, LenProperties
<1>9. s \in Seq(Range(s))
  BY <1>7, SeqOfRange
<1>10. \A i \in 1 .. Len(p) : s[i] = HashItem(p[i])
  BY <1>2, <1>4, <1>7
<1>11. \A i \in 1 .. Len(t) : s[Len(p) + i] = [kind |-> "tioff", ti |-> t[i][1], off |-> t[i][2]]
  BY <1>3, <1>4, <1>5, <1>7
<1>12. \A i \in 1 .. Len(a) : s[Len(p) + Len(t) + i] = a[i]
  BY <1>4, <1>5, <1>7
<1>13. QED
  BY <1>1, <1>4, <1>5, <1>7, <1>8, <1>9, <1>10, <1>11, <1>12 DEF LaidOut

\* A loader finds the parts where they were written.
LEMMA LayoutIs ==
  ASSUME NEW d, NEW p \in Seq(TypeRecs), NEW t, NEW a, SavedAs(d, p, t, a)
  PROVE  Hashes(d) = HashItems(p) /\ TiOffs(d) = PairItems(t) /\ Adjusts(d) = a
<1> DEFINE s == d.hash
           P == Len(p)
           T == Len(t)
           A == Len(a)
<1>1. t \in Seq(Int \X Int) /\ AdjItems(a) /\ s = HashItems(p) \o PairItems(t) \o a
  BY DEF SavedAs, PairsOf
<1> HIDE DEF s
<1>2. /\ P \in Nat /\ T \in Nat /\ A \in Nat
      /\ DOMAIN p = 1 .. P /\ DOMAIN t = 1 .. T /\ DOMAIN a = 1 .. A
      /\ DOMAIN s = 1 .. P + T + A
      /\ \A i \in 1 .. P : s[i] = HashItem(p[i])
      /\ \A i \in 1 .. T : s[P + i] = [kind |-> "tioff", ti |-> t[i][1], off |-> t[i][2]]
      /\ \A i \in 1 .. A : s[P + T + i] = a[i]
  <2>1. LaidOut(s, p, t, a)
    BY <1>1, ItemsAre
  <2>2. QED
    BY <2>1 DEF LaidOut
<1>3. d.hdr.nhash = P /\ d.hdr.ntioff = T /\ d.hdr.nadj = A
  BY DEF SavedAs
<1> HIDE DEF P, T, A
<1>4. ASSUME NEW first \in Nat \ {0}, NEW n \in Nat, first + n - 1 <= P + T + A
      PROVE  ItemsOf(d, first, n) = [i \in 1 .. n |-> s[first + i - 1]]
  <2>1. {j \in 1 .. n : first + j - 1 \in DOMAIN s} = 1 .. n
    BY <1>2, <1>4
  <2>2. QED
    BY <2>1 DEF ItemsOf, s
<1>5. Hashes(d) = HashItems(p)
  <2>1. Hashes(d) = [i \in 1 .. P |-> s[1 + i - 1]]
    BY <1>2, <1>3, <1>4 DEF Hashes
  <2>2. \A i \in 1 .. P : s[1 + i - 1] = HashItem(p[i])
    <3>1. \A i \in 1 .. P : 1 + i - 1 = i
      BY <1>2
    <3>2. QED
      BY <1>2, <3>1
  <2>3. QED
    BY <1>2, <2>1, <2>2 DEF HashItems
<1>6. TiOffs(d) = PairItems(t)
  <2>1. TiOffs(d) = [i \in 1 .. T |-> s[P + 1 + i - 1]]
    BY <1>2, <1>3, <1>4 DEF TiOffs
  <2>2. \A i \in 1 .. T : s[P + 1 + i - 1] = [kind |-> "tioff", ti |-> t[i][1], off |-> t[i][2]]
    <3>1. \A i \in 1 .. T : P + 1 + i - 1 = P + i
      BY <1>2
    <3>2. QED
      BY <1>2, <3>1
  <2>3. QED
    BY <1>2, <2>1, <2>2 DEF PairItems
<1>7. Adjusts(d) = a
  <2>1. Adjusts(d) = [i \in 1 .. A |-> s[P + T + 1 + i - 1]]
    BY <1>2, <1>3, <1>4 DEF Adjusts
  <2>2. \A i \in 1 .. A : s[P + T + 1 + i - 1] = a[i]
    <3>1. \A i \in 1 .. A : P + T + 1 + i - 1 = P + T + i
      BY <1>2
    <3>2. QED
      BY <1>2, <3>1
  <2>3. a = [i \in 1 .. A |-> a[i]]
    <3>1. a \in Seq(Range(a))
      BY <1>1 DEF AdjItems
    <3>2. QED
      BY <3>1, LenProperties DEF A
  <2>4. QED
    BY <2>1, <2>2, <2>3
<1>8. QED
  BY <1>5, <1>6, <1>7

LEMMA LoadsSound ==
  ASSUME NEW d, NEW p \in Seq(TypeRecs), NEW t, NEW a, SavedAs(d, p, t, a)
  PROVE  Sound(d)
<1>1. Hashes(d) = HashItems(p) /\ TiOffs(d) = PairItems(t) /\ Adjusts(d) = a
  BY LayoutIs
<1>2. DOMAIN p = 1 .. Len(p) /\ Len(p) \in Nat
  BY LenProperties
<1>3. Len(HashItems(p)) = Len(p)
  <2> DEFINE x == HashItems(p)
  <2>1. DOMAIN x = 1 .. Len(p) /\ x = [i \in 1 .. Len(p) |-> x[i]]
    BY <1>2 DEF HashItems
  <2>2. \A i \in 1 .. Len(p) : x[i] \in Range(x)
    BY <2>1 DEF Range
  <2> HIDE DEF x
  <2>3. Len(x) = Len(p)
    BY <1>2, <2>1, <2>2, SeqFrom, Zenon
  <2>4. QED
    BY <2>3 DEF x
<1>4. \A x \in Range(Hashes(d)) : x.kind = "hash"
  BY <1>1 DEF HashItems, HashItem, Range
<1>5. \A x \in Range(TiOffs(d)) : x.kind = "tioff"
  BY <1>1 DEF PairItems, Range
<1>6. \A x \in Range(Adjusts(d)) : x.kind = "adj"
  BY <1>1 DEF AdjItems, SavedAs, Range
<1>7. Len(Hashes(d)) = d.hdr.tiMac
  BY <1>1, <1>3 DEF SavedAs
<1>8. QED
  BY <1>4, <1>5, <1>6, <1>7 DEF Sound

\* Whatever the pairs, a type index is looked up at a pair that is not behind it, and
\* the record that begins where the pair says is the pair's.
LEMMA LoadsRecs ==
  ASSUME TypePoolAssumption, NEW d, NEW p \in Seq(TypeRecs), NEW t, NEW a, SavedAs(d, p, t, a)
  PROVE  LoadedPool(d) = p
<1> DEFINE N == Len(p)
           T == Len(t)
           s == TiOffs(d)
<1>1. N \in Nat /\ DOMAIN p = 1 .. N
  BY LenProperties
<1>2. T \in Nat /\ DOMAIN t = 1 .. T /\ t \in Seq(Int \X Int)
  BY LenProperties DEF SavedAs, PairsOf
<1>3. s = [i \in 1 .. T |-> [kind |-> "tioff", ti |-> t[i][1], off |-> t[i][2]]]
  <2>1. s = PairItems(t)
    BY LayoutIs
  <2>2. QED
    BY <1>2, <2>1 DEF PairItems
<1> HIDE DEF s
<1>4. Len(s) = T
  <2>1. DOMAIN s = 1 .. T /\ s = [i \in 1 .. T |-> s[i]]
    BY <1>3
  <2>2. \A i \in 1 .. T : s[i] \in Range(s)
    BY <2>1 DEF Range
  <2>3. QED
    BY <1>2, <2>1, <2>2, SeqFrom, Zenon
<1>5. /\ d.hdr.tiMac = N /\ d.hdr.nrec = N /\ d.recs = p
      /\ \A i \in 1 .. T : s[i].ti \in 1 .. N /\ s[i].off = Offsets(p)[s[i].ti]
      /\ N # 0 => T # 0 /\ s[1].ti = 1
  <2>1. d.hdr.tiMac = N /\ d.hdr.nrec = N /\ d.recs = p
    BY DEF SavedAs
  <2>2. \A i \in 1 .. T : t[i][1] \in 1 .. N /\ t[i][2] = Offsets(p)[t[i][1]]
    BY <1>1, <1>2 DEF SavedAs, PairsOf
  <2>3. N # 0 => T # 0 /\ t[1][1] = 1
    <3>1. N # 0 => p # <<>>
      OBVIOUS
    <3>2. t # <<>> => T # 0
      BY <1>2, EmptySeq
    <3>3. QED
      BY <3>1, <3>2 DEF SavedAs, PairsOf
  <2>4. T # 0 => 1 \in 1 .. T
    BY <1>2
  <2>5. QED
    BY <1>3, <2>1, <2>2, <2>3, <2>4
<1> HIDE DEF N, T
<1>6. ASSUME NEW ti \in 1 .. N
      PROVE  RecLoaded(d, ti) = p[ti]
  <2> DEFINE within == {k \in 1 .. T - 1 : s[k].ti <= ti /\ ti < s[k + 1].ti}
             i == IF within # {} THEN Min(within) ELSE T
             starts == {j \in DOMAIN p : Offsets(p)[j] = s[i].off}
             at == Min(starts) + ti - s[i].ti
  <2>1. T # 0 /\ s[1].ti = 1
    BY <1>1, <1>5, <1>6
  <2>2. RecLoaded(d, ti) = IF T = 0 \/ starts = {} THEN "none"
                           ELSE IF s[i].ti <= ti /\ at \in 1 .. N THEN p[at] ELSE "none"
    BY <1>4, <1>5, Zenon DEF RecLoaded, s
  <2>3. i \in 1 .. T /\ s[i].ti <= ti
    <3>1. CASE within # {}
      <4>1. within \in SUBSET Nat
        BY <1>2
      <4> DEFINE x == Min(within)
      <4>2. x \in within
        BY <3>1, <4>1, MinIs
      <4> HIDE DEF x
      <4>3. x \in 1 .. T /\ s[x].ti <= ti
        BY <1>2, <4>2
      <4> HIDE DEF within
      <4>4. i = x
        BY <3>1 DEF x
      <4>5. QED
        BY <4>3, <4>4
    <3>2. CASE within = {}
      <4> DEFINE B == {k \in 1 .. T : s[k].ti > ti}
      <4>1. i = T /\ T \in 1 .. T
        BY <1>2, <2>1, <3>2
      <4>2. ASSUME B # {}
            PROVE  FALSE
        <5>1. B \in SUBSET Nat
          BY <1>2
        <5>2. PICK k \in B : \A y \in B : k <= y
          BY <4>2, <5>1, LeastIn
        <5>3. k \in 1 .. T /\ k # 1 /\ s[k].ti > ti
          BY <1>1, <2>1, <5>2
        <5>4. k - 1 \in 1 .. T /\ k - 1 \in 1 .. T - 1 /\ (k - 1) + 1 = k /\ k - 1 \notin B
          <6>1. k - 1 \in 1 .. T /\ k - 1 \in 1 .. T - 1 /\ (k - 1) + 1 = k /\ ~(k <= k - 1)
            BY <1>2, <5>3
          <6> HIDE DEF B
          <6>2. k - 1 \notin B
            BY <5>2, <6>1
          <6>3. QED
            BY <6>1, <6>2
        <5>5. s[k - 1].ti <= ti
          BY <1>1, <1>5, <5>4
        <5>6. k - 1 \in within
          BY <1>1, <1>5, <5>3, <5>4, <5>5
        <5>7. QED
          BY <3>2, <5>6
      <4>3. s[T].ti <= ti
        BY <1>1, <1>5, <4>1, <4>2
      <4> HIDE DEF within
      <4>4. QED
        BY <3>2, <4>1, <4>3
    <3>3. QED
      BY <3>1, <3>2
  <2> HIDE DEF i
  <2>4. s[i].ti \in 1 .. N /\ s[i].off = Offsets(p)[s[i].ti]
    BY <1>5, <2>3
  <2>5. starts = {s[i].ti}
    <3>1. ASSUME NEW j \in starts
          PROVE  j = s[i].ti
      <4>1. j \in 1 .. N /\ Offsets(p)[j] = Offsets(p)[s[i].ti]
        BY <1>1, <2>4, <3>1
      <4>2. \A x, y \in 1 .. N : x < y => Offsets(p)[x] < Offsets(p)[y]
        <5>1. ASSUME NEW x \in 1 .. N, NEW y \in 1 .. N, x < y
              PROVE  Offsets(p)[x] < Offsets(p)[y]
          <6>1. x \in 1 .. Len(p) /\ y \in x + 1 .. Len(p) + 1
            BY <1>1, <5>1 DEF N
          <6>2. QED
            BY <6>1, OffsetsGrow
        <5>2. QED
          BY <5>1
      <4>3. \A x \in 1 .. N : Offsets(p)[x] \in Nat
        <5>1. \A x \in 1 .. N : x \in 1 .. Len(p) + 1
          BY <1>1 DEF N
        <5>2. QED
          BY <5>1, OffsetsAre
      <4>4. QED
        BY <2>4, <4>1, <4>2, <4>3
    <3>2. s[i].ti \in starts
      BY <1>1, <2>4
    <3>3. QED
      BY <3>1, <3>2
  <2> HIDE DEF starts
  <2>6. Min(starts) = s[i].ti
    <3>1. starts \in SUBSET Nat /\ s[i].ti \in starts /\ \A y \in starts : s[i].ti <= y
      BY <1>1, <2>4, <2>5
    <3>2. QED
      BY <3>1, MinOnly
  <2>7. at = ti
    BY <1>1, <2>4, <2>6
  <2> HIDE DEF at
  <2>8. QED
    BY <2>1, <2>2, <2>3, <2>5, <2>7
<1>7. LoadedPool(d) = [ti \in 1 .. N |-> p[ti]]
  BY <1>5, <1>6 DEF LoadedPool
<1>8. p = [ti \in 1 .. N |-> p[ti]]
  BY <1>1, LenProperties DEF N
<1>9. QED
  BY <1>7, <1>8

\* A step of fInitHashToPchnMap, when the streams have the records p.
LEMMA LinkNextOK ==
  ASSUME TypePoolAssumption, NEW d, NEW p \in Seq(TypeRecs), NEW t, NEW a, SavedAs(d, p, t, a),
         NEW i \in Nat \ {0}, NEW c, ChainsOf(p, i - 1, c)
  PROVE  ChainsOf(p, i, LinkNext(d, i, c))
<1>1. DOMAIN p = 1 .. Len(p) /\ Len(p) \in Nat /\ d.hdr.tiMac = Len(p)
  BY LenProperties DEF SavedAs
<1>2. CASE i <= Len(p)
  <2>1. i \in DOMAIN p
    BY <1>1, <1>2
  <2>2. Hashes(d)[i].v = hashPrec(p[i])
    <3>1. Hashes(d)[i] = HashItem(p[i])
      BY <2>1, LayoutIs DEF HashItems
    <3>2. QED
      BY <3>1 DEF HashItem
  <2>3. LinkNext(d, i, c) = [c EXCEPT ![hashPrec(p[i])] = <<i>> \o @]
    BY <1>1, <1>2, <2>2 DEF LinkNext
  <2>4. ChainsOf(p, i, [c EXCEPT ![hashPrec(p[i])] = <<i>> \o @])
    BY <2>1, ChainsLinked
  <2>5. QED
    BY <2>3, <2>4
<1>3. CASE ~(i <= Len(p))
  <2> DEFINE adj == Adjusts(d)[i - d.hdr.tiMac]
             b == ChainOf[adj.name]
             chain == Promoted(c[b], adj.ti)
  <2>1. LinkNext(d, i, c) = [c EXCEPT ![b] = Promoted(@, adj.ti)]
    BY <1>1, <1>3 DEF LinkNext
  <2>2. \A x \in DOMAIN p : x <= i - 1 /\ x <= i
    BY <1>1, <1>3
  <2>3. c \in [Buckets -> Seq(DOMAIN p)]
    BY DEF ChainsOf
  <2>4. ChainsOf(p, i, c)
    BY <2>2 DEF ChainsOf
  <2>5. CASE b \in Buckets
    <3>1. c[b] \in Seq(DOMAIN p) /\ IsInjective(c[b])
      BY <2>3, <2>5 DEF ChainsOf
    <3>2. chain \in Seq(DOMAIN p) /\ IsInjective(chain) /\ Range(chain) = Range(c[b])
      BY <3>1, PromotedChain
    <3>3. LinkNext(d, i, c) = [c EXCEPT ![b] = chain]
      BY <2>1, <2>3, <2>5
    <3> HIDE DEF chain, b
    <3>4. ChainsOf(p, i, [c EXCEPT ![b] = chain])
      BY <2>4, <2>5, <3>2, ChainsPromoted
    <3>5. QED
      BY <3>3, <3>4
  <2>6. CASE b \notin Buckets
    <3>1. LinkNext(d, i, c) = c
      <4> HIDE DEF b
      <4>1. QED
        BY <2>1, <2>3, <2>6
    <3>2. QED
      BY <2>4, <3>1
  <2>7. QED
    BY <2>5, <2>6
<1>4. QED
  BY <1>2, <1>3

\* The chains that are built anew have each type once.
LEMMA LoadsChains ==
  ASSUME TypePoolAssumption, NEW d, NEW p \in Seq(TypeRecs), NEW t, NEW a, SavedAs(d, p, t, a)
  PROVE  /\ ChainsOf(p, Len(p), LoadedChains(d))
         /\ IsFiniteSet(DOMAIN Adjusts(d))
<1> DEFINE steps == d.hdr.tiMac + Cardinality(DOMAIN Adjusts(d))
<1>1. DOMAIN p = 1 .. Len(p) /\ Len(p) \in Nat /\ d.hdr.tiMac = Len(p)
  BY LenProperties DEF SavedAs
<1>2. IsFiniteSet(DOMAIN Adjusts(d))
  <2>1. Adjusts(d) = a /\ a \in Seq(Range(a))
    BY LayoutIs DEF SavedAs, AdjItems
  <2>2. DOMAIN a = 1 .. Len(a) /\ Len(a) \in Nat
    BY <2>1, LenProperties
  <2>3. QED
    BY <2>1, <2>2, FS_Interval
<1>3. steps \in Nat /\ Len(p) <= steps
  BY <1>1, <1>2, FS_CardinalityType
<1> HIDE DEF steps
<1>4. PICK c : LinkedTo(d, steps, c)
  BY <1>3, LinksExist
<1> DEFINE g == CHOOSE f : LinkedTo(d, steps, f)
<1>5. LoadedChains(d) = g[steps]
  BY Zenon DEF LoadedChains, LinkedTo, steps
<1>6. LinkedTo(d, steps, g)
  BY <1>4, Zenon
<1> HIDE DEF g
<1>7. \A i \in 0 .. steps :
        g[i] = IF i = 0 THEN [b \in Buckets |-> <<>>] ELSE LinkNext(d, i, g[i - 1])
  BY <1>6 DEF LinkedTo
<1> DEFINE T == {i \in 0 .. steps : ~ChainsOf(p, i, g[i])}
<1>8. T = {}
  <2>1. SUFFICES ASSUME T # {}
                 PROVE  FALSE
    OBVIOUS
  <2>2. T \in SUBSET Nat
    BY <1>3
  <2>3. PICK x \in T : \A y \in T : x <= y
    BY <2>1, <2>2, LeastIn
  <2>4. x \in 0 .. steps /\ x \in Nat /\ ~ChainsOf(p, x, g[x])
    BY <1>3, <2>3
  <2>5. x # 0
    <3>1. ASSUME x = 0
          PROVE  ChainsOf(p, x, g[x])
      <4>1. g[x] = [b \in Buckets |-> <<>>]
        BY <1>7, <2>4, <3>1
      <4>2. <<>> \in Seq(DOMAIN p) /\ IsInjective(<<>>) /\ Range(<<>>) = {}
        <5>1. DOMAIN <<>> = {}
          OBVIOUS
        <5>2. QED
          BY <5>1, EmptySeq DEF IsInjective, Range
      <4>3. \A b \in Buckets : {ti \in DOMAIN p : ti <= 0 /\ hashPrec(p[ti]) = b} = {}
        BY <1>1
      <4>4. QED
        BY <3>1, <4>1, <4>2, <4>3 DEF ChainsOf
    <3>2. QED
      BY <2>4, <3>1
  <2>6. x - 1 \in 0 .. steps /\ x - 1 \notin T /\ x \in Nat \ {0}
    BY <1>3, <2>3, <2>4, <2>5
  <2>7. ChainsOf(p, x - 1, g[x - 1])
    BY <2>6
  <2>8. g[x] = LinkNext(d, x, g[x - 1])
    BY <1>7, <2>4, <2>5
  <2>9. ChainsOf(p, x, LinkNext(d, x, g[x - 1]))
    BY <2>6, <2>7, LinkNextOK
  <2>10. QED
    BY <2>4, <2>8, <2>9
<1>9. ChainsOf(p, steps, g[steps])
  BY <1>3, <1>8
<1>10. \A ti \in DOMAIN p : ti <= steps /\ ti <= Len(p)
  BY <1>1, <1>3
<1>11. ChainsOf(p, Len(p), g[steps])
  BY <1>9, <1>10 DEF ChainsOf
<1>12. QED
  BY <1>2, <1>5, <1>11

-----------------------------------------------------------------------------
(* The type pool: its invariant and its steps.                             *)

TablesOK ==
  /\ pool \in Seq(TypeRecs) /\ IsInjective(pool)
  /\ ChainsOf(pool, Len(pool), hashChains)
  /\ IsFiniteSet(DOMAIN heads)

\* Until a commit fails, the streams have the first records, and what is to be
\* written is all that they lack.
RecsOK ==
  /\ hdr.nrec \in 0 .. Len(pool)
  /\ streams.recs \in Seq(TypeRecs) /\ Len(streams.recs) = hdr.nrec
  /\ \A i \in 1 .. hdr.nrec : streams.recs[i] = pool[i]
  /\ blocks \in Seq(Int \X Int)
  /\ IF blocks = <<>> THEN hdr.nrec = Len(pool)
     ELSE blocks[1][1] = hdr.nrec + 1 /\ blocks[Len(blocks)][2] = Len(pool)
HashOK ==
  /\ newHash \in Seq(Range(newHash)) /\ Len(newHash) = Len(pool) - hdr.nrec
  /\ \A i \in 1 .. Len(pool) - hdr.nrec : newHash[i] = HashItem(pool[hdr.nrec + i])
  /\ ~hdr.sn => hdr.nrec = 0
  /\ hdr.sn => /\ hdr.nhash = hdr.nrec
               /\ streams.hash \in Seq(Range(streams.hash)) /\ hdr.nrec <= Len(streams.hash)
               /\ \A i \in 1 .. hdr.nrec : streams.hash[i] = HashItem(pool[i])
SessionOK ==
  /\ hdr \in Hdrs /\ hdr.tiMac = Len(pool)
  /\ RecsOK /\ HashOK
  /\ PairsOf(pool, tioff)

DiskOK ==
  typeDisk.hdr.sn =>
    /\ kept.pool \in Seq(TypeRecs) /\ IsInjective(kept.pool)
    /\ \E t, a : SavedAs(typeDisk, kept.pool, t, a)

PoolInv == TablesOK /\ (~failed => SessionOK) /\ DiskOK

LEMMA TablesAre ==
  ASSUME TypePoolAssumption, TablesOK
  PROVE  /\ DOMAIN pool = 1 .. Len(pool) /\ Len(pool) \in Nat /\ pool \in Seq(Range(pool))
         /\ hashChains \in [Buckets -> Seq(DOMAIN pool)]
         /\ \A b \in Buckets : /\ hashChains[b] \in Seq(DOMAIN pool) /\ IsInjective(hashChains[b])
                               /\ Range(hashChains[b]) = {ti \in DOMAIN pool : hashPrec(pool[ti]) = b}
<1>1. DOMAIN pool = 1 .. Len(pool) /\ Len(pool) \in Nat /\ pool \in Seq(Range(pool))
  BY LenProperties, SeqOfRange DEF TablesOK
<1>2. hashChains \in [Buckets -> Seq(DOMAIN pool)]
  BY DEF TablesOK, ChainsOf
<1>3. \A ti \in DOMAIN pool : ti <= Len(pool)
  BY <1>1
<1>4. \A b \in Buckets : /\ IsInjective(hashChains[b])
                         /\ Range(hashChains[b]) = {ti \in DOMAIN pool : hashPrec(pool[ti]) = b}
  BY <1>3 DEF TablesOK, ChainsOf
<1>5. QED
  BY <1>1, <1>2, <1>4

\* The records in the blocks are those that the stream lacks.
LEMMA RecsOfIs ==
  ASSUME pool \in Seq(TypeRecs), RecsOK
  PROVE  streams.recs \o RecsOf(blocks) = pool /\ hdr.nrec + Len(RecsOf(blocks)) = Len(pool)
<1> DEFINE N == Len(pool)
           n == hdr.nrec
           x == streams.recs
           y == RecsOf(blocks)
<1>1. N \in Nat /\ n \in 0 .. N /\ \A i \in 1 .. N : pool[i] \in TypeRecs
  BY LenProperties, ElementOfSeq DEF RecsOK
<1>2. y \in Seq(TypeRecs) /\ Len(y) = N - n /\ \A i \in 1 .. N - n : y[i] = pool[n + i]
  <2>1. CASE blocks = <<>>
    <3>1. y = <<>> /\ n = N
      BY <2>1 DEF RecsOf, RecsOK
    <3>2. QED
      BY <1>1, <3>1, EmptySeq
  <2>2. CASE blocks # <<>>
    <3>1. y = SubSeq(pool, n + 1, N)
      BY <2>2 DEF RecsOf, RecsOK, Last
    <3> DEFINE m == n + 1
    <3>2. m \in Int /\ N \in Int /\ \A i \in m .. N : pool[i] \in TypeRecs
      BY <1>1
    <3> HIDE DEF m, N, n, y
    <3>3. /\ SubSeq(pool, m, N) \in Seq(TypeRecs)
          /\ Len(SubSeq(pool, m, N)) = IF m <= N THEN N - m + 1 ELSE 0
          /\ \A i \in 1 .. N - m + 1 : SubSeq(pool, m, N)[i] = pool[m + i - 1]
      BY <3>2, SubSeqProperties
    <3>4. \A i \in 1 .. N - n : i \in 1 .. N - m + 1 /\ m + i - 1 = n + i
      BY <1>1 DEF m
    <3>5. (IF m <= N THEN N - m + 1 ELSE 0) = N - n
      BY <1>1 DEF m
    <3>6. y = SubSeq(pool, m, N)
      BY <3>1 DEF m
    <3>7. QED
      BY <3>3, <3>4, <3>5, <3>6
  <2>3. QED
    BY <2>1, <2>2
<1>3. x \in Seq(TypeRecs) /\ Len(x) = n /\ \A i \in 1 .. n : x[i] = pool[i]
  BY DEF RecsOK
<1> HIDE DEF N, n, x, y
<1>4. /\ x \o y \in Seq(TypeRecs) /\ Len(x \o y) = Len(x) + Len(y)
      /\ \A i \in 1 .. Len(x) + Len(y) : (x \o y)[i] = IF i <= Len(x) THEN x[i] ELSE y[i - Len(x)]
  BY <1>2, <1>3, ConcatProperties, Zenon
<1>5. Len(x \o y) = N
  BY <1>1, <1>2, <1>3, <1>4
<1>6. ASSUME NEW i \in 1 .. N
      PROVE  (x \o y)[i] = pool[i]
  <2>1. CASE i <= n
    BY <1>1, <1>2, <1>3, <1>4, <2>1
  <2>2. CASE ~(i <= n)
    <3>1. i - n \in 1 .. N - n /\ n + (i - n) = i
      BY <1>1, <2>2
    <3>2. QED
      BY <1>1, <1>2, <1>3, <1>4, <2>2, <3>1
  <2>3. QED
    BY <2>1, <2>2
<1>7. x \o y = pool
  BY <1>4, <1>5, <1>6, SeqEqual DEF N
<1>8. QED
  BY <1>1, <1>2, <1>7 DEF N, n, x, y

\* What is written of the hash values is those of all records.
LEMMA HashIs ==
  ASSUME pool \in Seq(TypeRecs), hdr \in Hdrs, RecsOK, HashOK
  PROVE  HashWritten = HashItems(pool)
<1> DEFINE N == Len(pool)
           n == hdr.nrec
           h == HashItems(pool)
<1>1. N \in Nat /\ n \in 0 .. N /\ DOMAIN pool = 1 .. N
  BY LenProperties DEF RecsOK
<1>2. h = [i \in 1 .. N |-> HashItem(pool[i])]
  BY <1>1 DEF HashItems
<1>3. h \in Seq(Range(h)) /\ Len(h) = N
  <2>1. DOMAIN h = 1 .. N /\ h = [i \in 1 .. N |-> h[i]]
    BY <1>2
  <2>2. \A i \in 1 .. N : h[i] \in Range(h)
    BY <2>1 DEF Range
  <2> HIDE DEF h, N
  <2>3. QED
    BY <1>1, <2>1, <2>2, SeqFrom, Zenon
<1> HIDE DEF h
<1>4. newHash \in Seq(Range(newHash)) /\ Len(newHash) = N - n /\ \A i \in 1 .. N - n : newHash[i] = h[n + i]
  <2>1. \A i \in 1 .. N - n : n + i \in 1 .. N
    BY <1>1
  <2>2. QED
    BY <1>2, <2>1 DEF HashOK
<1>5. CASE ~hdr.sn
  <2>1. HashWritten = newHash /\ n = 0
    BY <1>5 DEF HashWritten, HashOK
  <2>2. Len(newHash) = N /\ \A i \in 1 .. N : newHash[i] = h[i]
    BY <1>1, <1>4, <2>1
  <2>3. newHash = h
    BY <1>3, <1>4, <2>2, SeqEqual
  <2>4. QED
    BY <2>1, <2>3 DEF h
<1>6. CASE hdr.sn
  <2> DEFINE s == streams.hash
             w == SubSeq(s, 1, n)
             S == Range(s) \cup Range(newHash)
  <2>1. /\ s \in Seq(Range(s)) /\ n <= Len(s) /\ hdr.nhash = n
        /\ \A i \in 1 .. n : s[i] = h[i]
    BY <1>1, <1>2, <1>6 DEF HashOK
  <2>2. Len(s) \in Nat /\ \A i \in 1 .. Len(s) : s[i] \in Range(s)
    BY <2>1, LenProperties, ElementOfSeq
  <2>3. Min({hdr.nhash, Len(streams.hash)}) = n
    <3>1. {hdr.nhash, Len(streams.hash)} \in SUBSET Nat /\ n \in {hdr.nhash, Len(streams.hash)}
          /\ \A y \in {hdr.nhash, Len(streams.hash)} : n <= y
      BY <1>1, <2>1, <2>2
    <3>2. QED
      BY <3>1, MinOnly
  <2>4. HashWritten = w \o newHash
    BY <1>6, <2>3 DEF HashWritten, Truncated
  <2> HIDE DEF s, n, N
  <2>5. w \in Seq(Range(s)) /\ Len(w) = n /\ \A i \in 1 .. n : w[i] = h[i]
    <3>1. n \in Int /\ 1 \in Int /\ \A i \in 1 .. n : s[i] \in Range(s)
      BY <1>1, <2>1, <2>2
    <3>2. /\ w \in Seq(Range(s)) /\ Len(w) = IF 1 <= n THEN n - 1 + 1 ELSE 0
          /\ \A i \in 1 .. n - 1 + 1 : w[i] = s[1 + i - 1]
      BY <3>1, SubSeqProperties
    <3>3. \A i \in 1 .. n : i \in 1 .. n - 1 + 1 /\ 1 + i - 1 = i
      BY <3>1
    <3>4. (IF 1 <= n THEN n - 1 + 1 ELSE 0) = n
      BY <1>1
    <3> HIDE DEF w
    <3>5. QED
      BY <2>1, <3>2, <3>3, <3>4
  <2> HIDE DEF w
  <2>6. w \in Seq(S) /\ newHash \in Seq(S)
    <3>1. Range(s) \subseteq S /\ Range(newHash) \subseteq S
      OBVIOUS
    <3> HIDE DEF S
    <3>2. QED
      BY <1>4, <2>5, <3>1, SeqMonotonic
  <2> HIDE DEF S
  <2>7. /\ w \o newHash \in Seq(S) /\ Len(w \o newHash) = Len(w) + Len(newHash)
        /\ \A i \in 1 .. Len(w) + Len(newHash) :
             (w \o newHash)[i] = IF i <= Len(w) THEN w[i] ELSE newHash[i - Len(w)]
    BY <2>6, ConcatProperties, Zenon
  <2>8. Len(w \o newHash) = N
    BY <1>1, <1>4, <2>5, <2>7
  <2>9. ASSUME NEW i \in 1 .. N
        PROVE  (w \o newHash)[i] = h[i]
    <3>1. CASE i <= n
      BY <1>1, <1>4, <2>5, <2>7, <3>1
    <3>2. CASE ~(i <= n)
      <4>1. i - n \in 1 .. N - n /\ n + (i - n) = i
        BY <1>1, <3>2
      <4>2. QED
        BY <1>1, <1>4, <2>5, <2>7, <3>2, <4>1
    <3>3. QED
      BY <3>1, <3>2
  <2>10. w \o newHash = h
    BY <1>3, <2>7, <2>8, <2>9, SeqEqual
  <2>11. QED
    BY <2>4, <2>10 DEF h
<1>7. QED
  BY <1>5, <1>6

\* The pairs of the hash stream, when a record is added.
LEMMA PairsAdded ==
  ASSUME TypePoolAssumption, NEW p \in Seq(TypeRecs), NEW r \in TypeRecs, NEW t, PairsOf(p, t),
         NEW u, u \in {t, Append(t, <<Len(p) + 1, Offsets(p)[Len(p) + 1]>>)}, t = <<>> => u # t
  PROVE  PairsOf(Append(p, r), u)
<1> DEFINE q == Append(p, r)
           N == Len(p)
           new == <<N + 1, Offsets(p)[N + 1]>>
<1>1. /\ N \in Nat /\ DOMAIN p = 1 .. N /\ DOMAIN q = 1 .. N + 1 /\ q # <<>>
  BY LenProperties, AppendProperties
<1>2. \A j \in 1 .. N + 1 : Offsets(q)[j] = Offsets(p)[j] /\ Offsets(p)[j] \in Nat
  BY OffsetsStay, OffsetsAre
<1>3. /\ t \in Seq(Int \X Int) /\ DOMAIN t = 1 .. Len(t) /\ Len(t) \in Nat
      /\ (p # <<>> => t # <<>> /\ t[1][1] = 1)
      /\ \A i \in 1 .. Len(t) : t[i][1] \in 1 .. N /\ t[i][2] = Offsets(p)[t[i][1]]
  BY <1>1, LenProperties DEF PairsOf
<1> HIDE DEF q, N
<1>4. N = 0 => t = <<>>
  <2>1. ASSUME N = 0, t # <<>>
        PROVE  FALSE
    <3>1. 1 \in 1 .. Len(t)
      BY <1>3, <2>1, EmptySeq
    <3>2. t[1][1] \in 1 .. N
      BY <1>3, <3>1
    <3>3. QED
      BY <2>1, <3>2
  <2>2. QED
    BY <2>1
<1>5. N # 0 => p # <<>>
  BY DEF N
<1>6. CASE u = t
  <2>1. t # <<>> /\ t[1][1] = 1
    BY <1>3, <1>4, <1>5, <1>6
  <2>2. \A i \in 1 .. Len(t) : t[i][1] \in 1 .. N + 1 /\ t[i][2] = Offsets(q)[t[i][1]]
    <3>1. \A j \in 1 .. N : j \in 1 .. N + 1
      BY <1>1
    <3>2. QED
      BY <1>2, <1>3, <3>1
  <2>3. PairsOf(q, t)
    BY <1>1, <1>3, <2>1, <2>2 DEF PairsOf
  <2>4. QED
    BY <1>6, <2>3 DEF q
<1>7. CASE u = Append(t, new)
  <2>1. new \in Int \X Int /\ N + 1 \in 1 .. N + 1 /\ new[1] = N + 1 /\ new[2] = Offsets(q)[N + 1]
    BY <1>1, <1>2
  <2>2. u = Append(t, new)
    BY <1>7
  <2> HIDE DEF new
  <2>3. /\ u \in Seq(Int \X Int) /\ u # <<>> /\ Len(u) = Len(t) + 1
        /\ \A i \in 1 .. Len(t) : u[i] = t[i]
        /\ u[Len(t) + 1] = new
    <3> DEFINE S == Int \X Int
    <3>1. t \in Seq(S) /\ new \in S
      BY <1>3, <2>1
    <3> HIDE DEF S
    <3>2. /\ u \in Seq(S) /\ u # <<>> /\ Len(u) = Len(t) + 1
          /\ \A i \in 1 .. Len(t) : u[i] = t[i]
          /\ u[Len(t) + 1] = new
      BY <2>2, <3>1, AppendProperties
    <3>3. QED
      BY <3>2 DEF S
  <2>4. DOMAIN u = 1 .. Len(t) + 1
    BY <2>3, LenProperties
  <2>5. \A i \in 1 .. Len(t) + 1 : u[i][1] \in 1 .. N + 1 /\ u[i][2] = Offsets(q)[u[i][1]]
    <3>1. ASSUME NEW i \in 1 .. Len(t) + 1
          PROVE  u[i][1] \in 1 .. N + 1 /\ u[i][2] = Offsets(q)[u[i][1]]
      <4>1. CASE i = Len(t) + 1
        BY <2>1, <2>3, <4>1
      <4>2. CASE i # Len(t) + 1
        <5>1. i \in 1 .. Len(t)
          BY <1>3, <4>2
        <5>2. u[i] = t[i] /\ t[i][1] \in 1 .. N /\ t[i][2] = Offsets(p)[t[i][1]]
          BY <1>3, <2>3, <5>1
        <5>3. t[i][1] \in 1 .. N + 1
          BY <1>1, <5>2
        <5>4. QED
          BY <1>2, <5>2, <5>3
      <4>3. QED
        BY <4>1, <4>2
    <3>2. QED
      BY <3>1
  <2>6. u[1][1] = 1
    <3>1. CASE N = 0
      <4>1. Len(t) = 0
        BY <1>4, <3>1, EmptySeq
      <4>2. u[1] = new
        BY <2>3, <4>1
      <4>3. QED
        BY <2>1, <3>1, <4>2
    <3>2. CASE N # 0
      <4>1. 1 \in 1 .. Len(t) /\ t[1][1] = 1
        BY <1>3, <1>5, <3>2, EmptySeq
      <4>2. QED
        BY <2>3, <4>1
    <3>3. QED
      BY <3>1, <3>2
  <2>7. PairsOf(q, u)
    BY <1>1, <2>3, <2>4, <2>5, <2>6 DEF PairsOf
  <2>8. QED
    BY <2>7 DEF q
<1>8. QED
  BY <1>6, <1>7 DEF new, N

\* A record that the pool does not have is added.
LEMMA TablesAdded ==
  ASSUME TypePoolAssumption, TablesOK, NEW r \in TypeRecs, r \notin Range(pool), AddNewTypeRecord(r),
         IsFiniteSet(DOMAIN heads')
  PROVE  TablesOK'
<1> DEFINE ti == Len(pool) + 1
<1>1. /\ pool \in Seq(TypeRecs) /\ IsInjective(pool) /\ ChainsOf(pool, Len(pool), hashChains)
      /\ DOMAIN pool = 1 .. Len(pool) /\ Len(pool) \in Nat
  BY LenProperties DEF TablesOK
<1>2. /\ pool' = Append(pool, r)
      /\ hashChains' = [hashChains EXCEPT ![hashPrec(r)] = <<ti>> \o @]
  BY DEF AddNewTypeRecord
<1>3. /\ pool' \in Seq(TypeRecs) /\ Len(pool') = Len(pool) + 1 /\ DOMAIN pool' = 1 .. Len(pool) + 1
      /\ \A i \in 1 .. Len(pool) : pool'[i] = pool[i]
      /\ pool'[ti] = r
  BY <1>1, <1>2, AppendProperties, LenProperties
<1>4. IsInjective(pool')
  <2>1. \A i \in 1 .. Len(pool) : pool[i] # r
    BY <1>1 DEF Range
  <2>2. \A i \in DOMAIN pool' : i \in 1 .. Len(pool) \/ i = ti
    BY <1>1, <1>3
  <2>3. \A i, j \in 1 .. Len(pool) : pool[i] = pool[j] => i = j
    BY <1>1 DEF IsInjective
  <2> HIDE DEF ti
  <2>4. QED
    BY <1>3, <2>1, <2>2, <2>3 DEF IsInjective
<1>5. ChainsOf(pool', Len(pool'), hashChains')
  <2>1. ChainsOf(Append(pool, r), ti, [hashChains EXCEPT ![hashPrec(r)] = <<ti>> \o @])
    BY <1>1, ChainsAdded
  <2>2. QED
    BY <1>2, <1>3, <2>1
<1>6. QED
  BY <1>3, <1>4, <1>5 DEF TablesOK

LEMMA HashIsNow ==
  HashOK' <=>
    /\ newHash' \in Seq(Range(newHash')) /\ Len(newHash') = Len(pool') - hdr'.nrec
    /\ \A i \in 1 .. Len(pool') - hdr'.nrec : newHash'[i] = HashItem(pool'[hdr'.nrec + i])
    /\ ~hdr'.sn => hdr'.nrec = 0
    /\ hdr'.sn => /\ hdr'.nhash = hdr'.nrec
                  /\ streams'.hash \in Seq(Range(streams'.hash)) /\ hdr'.nrec <= Len(streams'.hash)
                  /\ \A i \in 1 .. hdr'.nrec : streams'.hash[i] = HashItem(pool'[i])
BY DEF HashOK, HashItem, hashPrec, Range

LEMMA SessionAdded ==
  ASSUME TypePoolAssumption, TablesOK, SessionOK, NEW r \in TypeRecs, AddNewTypeRecord(r), streams' = streams
  PROVE  SessionOK'
<1> DEFINE N == Len(pool)
           n == hdr.nrec
<1>1. /\ pool \in Seq(TypeRecs) /\ DOMAIN pool = 1 .. N /\ N \in Nat
      /\ hdr \in Hdrs /\ n \in 0 .. N
  BY LenProperties DEF TablesOK, SessionOK, RecsOK
<1>2. /\ pool' = Append(pool, r)
      /\ newHash' = Append(newHash, HashItem(r))
      /\ tioff' = RecordTiOff(N + 1, Offsets(pool)[N + 1])
      /\ hdr' = [hdr EXCEPT !.tiMac = N + 1]
  BY DEF AddNewTypeRecord, HashItem
<1>3. /\ pool' \in Seq(TypeRecs) /\ Len(pool') = N + 1
      /\ \A i \in 1 .. N : pool'[i] = pool[i]
      /\ pool'[N + 1] = r
  BY <1>1, <1>2, AppendProperties
<1>4. hdr' \in Hdrs /\ hdr'.tiMac = N + 1 /\ hdr'.nrec = n /\ hdr'.sn = hdr.sn /\ hdr'.nhash = hdr.nhash
  BY <1>1, <1>2 DEF Hdrs
<1>5. RecsOK'
  <2> DEFINE full == blocks = <<>> \/ Last(blocks)[2] - Last(blocks)[1] + 1 = BlkRecs
             k == Len(blocks)
             new == <<N + 1, N + 1>>
  <2>1. blocks \in Seq(Int \X Int) /\ k \in Nat
    BY LenProperties DEF SessionOK, RecsOK
  <2>2. blocks' = IF full THEN Append(blocks, new) ELSE [blocks EXCEPT ![k][2] = N + 1]
    BY DEF AddNewTypeRecord
  <2>3. /\ blocks' \in Seq(Int \X Int) /\ blocks' # <<>>
        /\ blocks'[1][1] = n + 1 /\ blocks'[Len(blocks')][2] = N + 1
    <3>1. CASE full
      <4>1. blocks' = Append(blocks, new) /\ new \in Int \X Int /\ new[1] = N + 1 /\ new[2] = N + 1
        BY <1>1, <2>2, <3>1
      <4> HIDE DEF new, N, n
      <4>2. /\ blocks' \in Seq(Int \X Int) /\ blocks' # <<>> /\ Len(blocks') = k + 1
            /\ \A i \in 1 .. k : blocks'[i] = blocks[i]
            /\ blocks'[k + 1] = new
        <5> DEFINE S == Int \X Int
        <5>1. blocks \in Seq(S) /\ new \in S
          BY <2>1, <4>1
        <5> HIDE DEF S
        <5>2. /\ blocks' \in Seq(S) /\ blocks' # <<>> /\ Len(blocks') = k + 1
              /\ \A i \in 1 .. k : blocks'[i] = blocks[i]
              /\ blocks'[k + 1] = new
          BY <4>1, <5>1, AppendProperties
        <5>3. QED
          BY <5>2 DEF S
      <4>3. blocks'[1][1] = n + 1
        <5>1. CASE blocks = <<>>
          <6>1. k = 0 /\ n = N
            BY <5>1 DEF SessionOK, RecsOK, n, N
          <6>2. QED
            BY <4>1, <4>2, <6>1
        <5>2. CASE blocks # <<>>
          <6>1. 1 \in 1 .. k /\ blocks[1][1] = n + 1
            BY <2>1, <5>2, EmptySeq DEF SessionOK, RecsOK, n
          <6>2. QED
            BY <4>2, <6>1
        <5>3. QED
          BY <5>1, <5>2
      <4>4. QED
        BY <4>1, <4>2, <4>3
    <3>2. CASE ~full
      <4>1. blocks # <<>> /\ k \in 1 .. k /\ 1 \in 1 .. k /\ blocks[1][1] = n + 1
        BY <2>1, <3>2, EmptySeq DEF SessionOK, RecsOK
      <4>2. DOMAIN blocks = 1 .. k /\ \A i \in 1 .. k : blocks[i] \in Int \X Int
        BY <2>1, LenProperties, ElementOfSeq
      <4> DEFINE x == [blocks[k] EXCEPT ![2] = N + 1]
      <4>3. blocks' = [blocks EXCEPT ![k] = x]
        BY <2>2, <3>2
      <4>4. x \in Int \X Int /\ x[1] = blocks[k][1] /\ x[2] = N + 1
        BY <1>1, <4>1, <4>2
      <4> HIDE DEF x, full, N, n
      <4>5. blocks' \in Seq(Int \X Int) /\ Len(blocks') = k /\ DOMAIN blocks' = 1 .. k
        BY <2>1, <4>1, <4>2, <4>3, <4>4, ExceptSeq
      <4>6. blocks'[k] = x /\ (1 # k => blocks'[1] = blocks[1])
        BY <4>1, <4>2, <4>3
      <4>7. blocks' # <<>>
        BY <2>1, <4>1, <4>5, EmptySeq
      <4>8. QED
        BY <4>1, <4>4, <4>5, <4>6, <4>7
    <3>3. QED
      BY <3>1, <3>2
  <2>4. /\ streams.recs \in Seq(TypeRecs) /\ Len(streams.recs) = n
        /\ \A i \in 1 .. n : streams.recs[i] = pool[i]
    BY DEF SessionOK, RecsOK
  <2>5. n \in 0 .. N + 1 /\ \A i \in 1 .. n : i \in 1 .. N
    BY <1>1
  <2> HIDE DEF N, n
  <2>6. QED
    BY <1>3, <1>4, <2>3, <2>4, <2>5 DEF RecsOK
<1>6. HashOK'
  <2>1. /\ newHash \in Seq(Range(newHash)) /\ Len(newHash) = N - n
        /\ \A i \in 1 .. N - n : newHash[i] = HashItem(pool[n + i])
    BY DEF SessionOK, HashOK
  <2>2. /\ DOMAIN newHash = 1 .. N - n
        /\ newHash' \in Seq(Range(newHash'))
        /\ DOMAIN newHash' = 1 .. N - n + 1
        /\ \A i \in 1 .. N - n : newHash'[i] = newHash[i]
        /\ newHash'[N - n + 1] = HashItem(r)
    <3> DEFINE x == HashItem(r)
    <3>1. newHash' = Append(newHash, x) /\ newHash \in Seq(Range(newHash))
      BY <1>2, <2>1
    <3> HIDE DEF x
    <3>2. /\ DOMAIN newHash = 1 .. Len(newHash)
          /\ newHash' \in Seq(Range(newHash'))
          /\ DOMAIN newHash' = 1 .. Len(newHash) + 1
          /\ \A i \in DOMAIN newHash : newHash'[i] = newHash[i]
          /\ newHash'[Len(newHash) + 1] = x
      BY <3>1, AppendedIs
    <3>3. QED
      BY <2>1, <3>2 DEF x
  <2>3. Len(newHash') = N + 1 - n
    <3>1. N - n + 1 \in Nat /\ N - n + 1 = N + 1 - n
      BY <1>1
    <3>2. QED
      BY <2>2, <3>1, LenProperties
  <2>4. ASSUME NEW i \in 1 .. N + 1 - n
        PROVE  newHash'[i] = HashItem(pool'[n + i])
    <3>1. CASE i = N - n + 1
      <4>1. n + i = N + 1
        BY <1>1, <3>1
      <4>2. QED
        BY <1>3, <2>2, <3>1, <4>1
    <3>2. CASE i # N - n + 1
      <4>1. i \in 1 .. N - n /\ n + i \in 1 .. N
        BY <1>1, <3>2
      <4>2. QED
        BY <1>3, <2>1, <2>2, <4>1
    <3>3. QED
      BY <3>1, <3>2
  <2>5. \A i \in 1 .. n : i \in 1 .. N
    BY <1>1
  <2>6. /\ ~hdr.sn => n = 0
        /\ hdr.sn => /\ hdr.nhash = n
                     /\ streams.hash \in Seq(Range(streams.hash)) /\ n <= Len(streams.hash)
                     /\ \A i \in 1 .. n : streams.hash[i] = HashItem(pool'[i])
    BY <1>3, <2>5 DEF SessionOK, HashOK
  <2> HIDE DEF N, n
  <2>7. QED
    <3>1. newHash' \in Seq(Range(newHash')) /\ Len(newHash') = Len(pool') - hdr'.nrec
      BY <1>1, <1>3, <1>4, <2>2, <2>3
    <3>2. \A i \in 1 .. Len(pool') - hdr'.nrec : newHash'[i] = HashItem(pool'[hdr'.nrec + i])
      BY <1>1, <1>3, <1>4, <2>4
    <3>3. /\ ~hdr'.sn => hdr'.nrec = 0
          /\ hdr'.sn => /\ hdr'.nhash = hdr'.nrec
                        /\ streams'.hash \in Seq(Range(streams'.hash)) /\ hdr'.nrec <= Len(streams'.hash)
                        /\ \A i \in 1 .. hdr'.nrec : streams'.hash[i] = HashItem(pool'[i])
      BY <1>4, <2>6
    <3>4. QED
      BY <3>1, <3>2, <3>3, HashIsNow
<1>7. PairsOf(pool, tioff)'
  <2> DEFINE new == <<N + 1, Offsets(pool)[N + 1]>>
  <2>1. tioff' \in {tioff, Append(tioff, new)} /\ (tioff = <<>> => tioff' = Append(tioff, new))
    BY <1>2 DEF RecordTiOff
  <2>2. PairsOf(pool, tioff) /\ tioff \in Seq(Int \X Int)
    BY DEF SessionOK, PairsOf
  <2>3. tioff = <<>> => tioff' # tioff
    <3>1. Append(tioff, new) # <<>>
      <4>1. new \in {new} /\ tioff \in Seq(Int \X Int \cup {new})
        <5>1. Int \X Int \subseteq Int \X Int \cup {new}
          OBVIOUS
        <5> HIDE DEF new
        <5>2. QED
          BY <2>2, <5>1, SeqMonotonic
      <4> HIDE DEF new
      <4>2. QED
        BY <4>1, AppendProperties
    <3>2. QED
      BY <2>1, <3>1
  <2>4. PairsOf(Append(pool, r), tioff')
    BY <1>1, <2>1, <2>2, <2>3, PairsAdded
  <2>5. PairsOf(pool', tioff')
    BY <1>2, <2>4
  <2>6. QED
    BY <2>5 DEF PairsOf, Offsets
<1>8. QED
  BY <1>3, <1>4, <1>5, <1>6, <1>7 DEF SessionOK, Hdrs

\* What each name stands for, when a record is added ...
LEMMA NamesAdded ==
  ASSUME TypePoolAssumption, TablesOK, NEW r \in TypeRecs, AddNewTypeRecord(r)
  PROVE  /\ \A ti \in DOMAIN pool : pool'[ti] = pool[ti]
         /\ pool'[Len(pool) + 1] = r
         /\ \A n \in UdtNames :
              TiForUDT(pool', hashChains', n)
              = IF r \in DOMAIN UdtName /\ UdtName[r] = n THEN Len(pool) + 1
                ELSE TiForUDT(pool, hashChains, n)
<1> DEFINE ti == Len(pool) + 1
           h == hashPrec(r)
<1>1. /\ pool \in Seq(Range(pool)) /\ hashChains \in [Buckets -> Seq(DOMAIN pool)]
      /\ \A b \in Buckets : hashChains[b] \in Seq(DOMAIN pool)
  BY TablesAre
<1>2. /\ pool' = Append(pool, r)
      /\ hashChains' = [hashChains EXCEPT ![h] = <<ti>> \o @]
  BY DEF AddNewTypeRecord
<1>3. /\ \A i \in DOMAIN pool : pool'[i] = pool[i]
      /\ pool'[ti] = r
  BY <1>1, <1>2, AppendedIs
<1>4. h \in Buckets /\ (r \in DOMAIN UdtName => h = ChainOf[UdtName[r]])
  BY HashesToChain
<1> HIDE DEF h
<1>5. ASSUME NEW n \in UdtNames
      PROVE  TiForUDT(pool', hashChains', n)
             = IF r \in DOMAIN UdtName /\ UdtName[r] = n THEN ti
               ELSE TiForUDT(pool, hashChains, n)
  <2> DEFINE b == ChainOf[n]
             chain == hashChains[b]
  <2>1. b \in Buckets /\ chain \in Seq(DOMAIN pool)
    BY <1>1, NameHashes
  <2>2. hashChains'[b] = IF b = h THEN <<ti>> \o chain ELSE chain
    BY <1>1, <1>2, <1>4, <2>1
  <2>3. /\ FirstUDT(Append(pool, r), chain, n) = FirstUDT(pool, chain, n)
        /\ FirstUDT(Append(pool, r), <<ti>> \o chain, n)
           = IF r \in DOMAIN UdtName /\ UdtName[r] = n THEN ti ELSE FirstUDT(pool, chain, n)
    BY <1>1, <2>1, FirstAdded
  <2>4. /\ TiForUDT(pool', hashChains', n) = FirstUDT(pool', hashChains'[b], n)
        /\ TiForUDT(pool, hashChains, n) = FirstUDT(pool, chain, n)
    BY DEF TiForUDT
  <2>5. r \in DOMAIN UdtName /\ UdtName[r] = n => b = h
    BY <1>4
  <2>6. pool' = Append(pool, r)
    BY <1>2
  <2> HIDE DEF b, chain, ti
  <2>7. QED
    BY <2>2, <2>3, <2>4, <2>5, <2>6
<1>6. QED
  BY <1>3, <1>5

\* ... and when a definition of it is promoted.
LEMMA PromoteTypeOK ==
  ASSUME TypePoolAssumption, TablesOK, NEW n \in UdtNames,
         NEW k \in SameUDT(pool, hashChains[ChainOf[n]], n), NEW r, PromoteTIForUDT(r, n, k)
  PROVE  /\ TablesOK'
         /\ UNCHANGED <<pool, tioff, blocks, newHash, hdr>>
         /\ \A m \in UdtNames :
              TiForUDT(pool', hashChains', m)
              = IF m = n THEN hashChains[ChainOf[n]][k] ELSE TiForUDT(pool, hashChains, m)
         /\ answer' = IF pool[hashChains[ChainOf[n]][k]] = r THEN "right" ELSE "wrong"
<1> DEFINE b == ChainOf[n]
           chain == hashChains[b]
           new == AtHead(chain, k)
<1>1. hashChains \in [Buckets -> Seq(DOMAIN pool)]
  BY TablesAre
<1>2. b \in Buckets /\ chain \in Seq(DOMAIN pool) /\ IsInjective(chain) /\ k \in DOMAIN chain
  BY TablesAre, NameHashes DEF SameUDT
<1>3. /\ hashChains' = [hashChains EXCEPT ![b] = new]
      /\ UNCHANGED <<pool, tioff, blocks, newHash, hdr>>
      /\ heads' \in {With(n, chain[k]), Without(n)}
      /\ answer' = IF pool[chain[k]] = r THEN "right" ELSE "wrong"
  BY <1>1, <1>2 DEF PromoteTIForUDT, Adjusted
<1>4. IsFiniteSet(DOMAIN heads')
  <2>1. IsFiniteSet(DOMAIN heads \cup {n}) /\ IsFiniteSet(DOMAIN heads \ {n})
    <3>1. DOMAIN heads \ {n} \subseteq DOMAIN heads /\ IsFiniteSet(DOMAIN heads)
      BY DEF TablesOK
    <3>2. QED
      BY <3>1, FS_Subset, FS_AddElement
  <2>2. DOMAIN heads' \in {DOMAIN heads \cup {n}, DOMAIN heads \ {n}}
    <3> HIDE DEF chain, b
    <3>1. CASE heads' = With(n, chain[k])
      BY <3>1 DEF With
    <3>2. CASE heads' = Without(n)
      BY <3>2 DEF Without
    <3>3. QED
      BY <1>3, <3>1, <3>2
  <2>3. QED
    BY <2>1, <2>2
<1>5. TablesOK'
  <2>1. new \in Seq(DOMAIN pool) /\ IsInjective(new) /\ Range(new) = Range(chain)
    BY <1>2, AtHeadIs, AtHeadChain
  <2>2. ChainsOf(pool, Len(pool), hashChains)
    BY DEF TablesOK
  <2> HIDE DEF b, chain, new
  <2>3. ChainsOf(pool, Len(pool), [hashChains EXCEPT ![b] = new])
    BY <1>2, <2>1, <2>2, ChainsPromoted DEF chain
  <2>4. pool' = pool /\ ChainsOf(pool', Len(pool'), hashChains')
    BY <1>3, <2>3
  <2>5. pool' \in Seq(TypeRecs) /\ IsInjective(pool')
    BY <2>4 DEF TablesOK
  <2>6. QED
    BY <1>4, <2>4, <2>5 DEF TablesOK
<1>6. ASSUME NEW m \in UdtNames
      PROVE  TiForUDT(pool', hashChains', m)
             = IF m = n THEN chain[k] ELSE TiForUDT(pool, hashChains, m)
  <2> DEFINE c == ChainOf[m]
  <2>1. /\ TiForUDT(pool', hashChains', m) = FirstUDT(pool', hashChains'[c], m)
        /\ TiForUDT(pool, hashChains, m) = FirstUDT(pool, hashChains[c], m)
    BY DEF TiForUDT
  <2>2. c \in Buckets /\ hashChains'[c] = IF c = b THEN new ELSE hashChains[c]
    BY <1>1, <1>3, NameHashes
  <2>3. FirstUDT(pool, new, m) = IF m = n THEN chain[k] ELSE FirstUDT(pool, chain, m)
    BY <1>2, FirstPromoted
  <2>4. m = n => c = b
    OBVIOUS
  <2>5. pool' = pool
    BY <1>3
  <2> HIDE DEF c, b, chain, new
  <2>6. CASE c = b
    BY <2>1, <2>2, <2>3, <2>5, <2>6 DEF chain
  <2>7. CASE c # b
    BY <2>1, <2>2, <2>4, <2>5, <2>7
  <2>8. QED
    BY <2>6, <2>7
<1>7. QED
  BY <1>3, <1>5, <1>6

\* While types are only appended, names change by legal edits only.
NamesLegal ==
  fAppend /\ answer' # "none" =>
    \A n \in UdtNames :
      LET old == TiForUDT(pool, hashChains, n)
          new == TiForUDT(pool', hashChains', n) IN
      old # 0 /\ new # old /\ pool'[new] # pool[old] => <<pool'[new], pool[old]>> \in LegalEdits

\* What a name stands for is a type of the pool.
LEMMA TiInPool ==
  ASSUME TypePoolAssumption, TablesOK, NEW n \in UdtNames, TiForUDT(pool, hashChains, n) # 0
  PROVE  TiForUDT(pool, hashChains, n) \in DOMAIN pool
<1> DEFINE chain == hashChains[ChainOf[n]]
<1>1. chain \in Seq(DOMAIN pool)
  BY TablesAre, NameHashes
<1>2. TiForUDT(pool, hashChains, n) = FirstUDT(pool, chain, n)
  BY DEF TiForUDT
<1>3. PICK k \in 1 .. Len(chain) : FirstUDT(pool, chain, n) = chain[k]
  BY <1>1, <1>2, SameUDTIn
<1>4. QED
  BY <1>1, <1>2, <1>3, ElementOfSeq

\* The session when nothing that it is about changed.
LEMMA SessionStays ==
  ASSUME SessionOK, UNCHANGED <<pool, tioff, blocks, newHash, hdr, streams>>
  PROVE  SessionOK'
<1>1. RecsOK'
  BY DEF SessionOK, RecsOK
<1>2. HashOK'
  <2>1. HashOK
    BY DEF SessionOK
  <2>2. QED
    BY <2>1, HashIsNow DEF HashOK
<1>3. PairsOf(pool, tioff)'
  <2>1. pool' = pool /\ tioff' = tioff /\ PairsOf(pool, tioff)
    BY DEF SessionOK
  <2>2. PairsOf(pool', tioff')
    BY <2>1
  <2>3. QED
    BY <2>2 DEF PairsOf, Offsets
<1>4. QED
  BY <1>1, <1>2, <1>3 DEF SessionOK, Hdrs

LEMMA DiskStays ==
  ASSUME DiskOK, UNCHANGED <<typeDisk, kept>>
  PROVE  DiskOK'
<1>1. CASE ~typeDisk.hdr.sn
  BY <1>1 DEF DiskOK
<1>2. CASE typeDisk.hdr.sn
  <2>1. PICK t, a : SavedAs(typeDisk, kept.pool, t, a)
    BY <1>2 DEF DiskOK
  <2>2. SavedAs(typeDisk', kept'.pool, t, a)
    BY <2>1
  <2>3. SavedAs(typeDisk, kept.pool, t, a)'
    BY <2>2 DEF SavedAs, Hdrs, PairsOf, Offsets, AdjItems, HashItems, HashItem, hashPrec, PairItems, Range
  <2>4. kept'.pool \in Seq(TypeRecs) /\ IsInjective(kept'.pool)
    BY <1>2 DEF DiskOK
  <2>5. QED
    BY <2>3, <2>4 DEF DiskOK
<1>3. QED
  BY <1>1, <1>2

LEMMA NothingQueried ==
  ASSUME PoolInv, UNCHANGED <<tables, hdr, streams, typeDisk, kept, failed>>
  PROVE  PoolInv' /\ NamesLegal
<1>1. UNCHANGED <<pool, hashChains, heads, tioff, blocks, newHash>>
  BY DEF tables
<1>2. TablesOK'
  <2>1. ChainsOf(pool', Len(pool'), hashChains')
    BY <1>1 DEF PoolInv, TablesOK
  <2>2. QED
    BY <1>1, <2>1 DEF PoolInv, TablesOK
<1>3. DiskOK'
  BY DiskStays DEF PoolInv
<1>4. ~failed' => SessionOK'
  BY <1>1, SessionStays DEF PoolInv
<1>5. NamesLegal
  BY <1>1 DEF NamesLegal
<1>6. QED
  BY <1>2, <1>3, <1>4, <1>5 DEF PoolInv

\* A record that the pool does not have, and that is a legal edit of what its name stood
\* for, if it is a definition and the name stood for one.
LEMMA RecordAdded ==
  ASSUME TypePoolAssumption, PoolInv, NEW r \in TypeRecs, r \notin Range(pool), AddNewTypeRecord(r),
         DOMAIN heads' \subseteq DOMAIN heads, UNCHANGED <<streams, typeDisk, kept, failed>>,
         r \in DOMAIN UdtName => LegalEdit(r, TiForUDT(pool, hashChains, UdtName[r]))
  PROVE  PoolInv' /\ NamesLegal
<1>1. TablesOK'
  <2>1. IsFiniteSet(DOMAIN heads')
    BY FS_Subset DEF PoolInv, TablesOK
  <2>2. QED
    BY <2>1, TablesAdded DEF PoolInv
<1>2. ~failed' => SessionOK'
  BY SessionAdded DEF PoolInv
<1>3. DiskOK'
  BY DiskStays DEF PoolInv
<1>4. NamesLegal
  <2>1. TablesOK
    BY DEF PoolInv
  <2>2. /\ \A ti \in DOMAIN pool : pool'[ti] = pool[ti]
        /\ pool'[Len(pool) + 1] = r
        /\ \A n \in UdtNames :
             TiForUDT(pool', hashChains', n)
             = IF r \in DOMAIN UdtName /\ UdtName[r] = n THEN Len(pool) + 1
               ELSE TiForUDT(pool, hashChains, n)
    BY <2>1, NamesAdded, Zenon
  <2>3. ASSUME fAppend, NEW n \in UdtNames, TiForUDT(pool, hashChains, n) # 0,
               TiForUDT(pool', hashChains', n) # TiForUDT(pool, hashChains, n)
        PROVE  <<pool'[TiForUDT(pool', hashChains', n)], pool[TiForUDT(pool, hashChains, n)]>> \in LegalEdits
    <3>1. r \in DOMAIN UdtName /\ UdtName[r] = n /\ TiForUDT(pool', hashChains', n) = Len(pool) + 1
      BY <2>2, <2>3
    <3>2. <<r, pool[TiForUDT(pool, hashChains, n)]>> \in LegalEdits
      BY <2>3, <3>1 DEF LegalEdit
    <3>3. QED
      BY <2>2, <3>1, <3>2
  <2>4. QED
    BY <2>3 DEF NamesLegal
<1>5. QED
  BY <1>1, <1>2, <1>3, <1>4 DEF PoolInv

LEMMA QueryUDTOK ==
  ASSUME TypePoolAssumption, PoolInv, NEW r \in DOMAIN UdtName, QueryUDT(r)
  PROVE  PoolInv' /\ NamesLegal
<1> DEFINE n == UdtName[r]
           chain == hashChains[ChainOf[n]]
           same == SameUDT(pool, chain, n)
           at == {k \in same : pool[chain[k]] = r}
           stood == FirstUDT(pool, chain, n)
<1>1. r \in TypeRecs /\ n \in UdtNames /\ TablesOK
  BY DEF TypePoolAssumption, UdtNames, PoolInv
<1>2. stood = TiForUDT(pool, hashChains, n) /\ UNCHANGED <<streams, typeDisk, kept, failed>>
  BY DEF TiForUDT, QueryUDT
<1>3. chain \in Seq(DOMAIN pool) /\ Range(chain) = {ti \in DOMAIN pool : hashPrec(pool[ti]) = ChainOf[n]}
  BY <1>1, TablesAre, NameHashes
<1>4. at \in SUBSET Nat
  BY <1>3, SameUDTIn
<1>5. CASE \/ at # {} /\ (Min(at) = Min(same) \/ mode = "a")
           \/ at # {} /\ (~fWrite \/ ~LegalEdit(r, stood))
           \/ at = {} /\ (mode = "r" \/ ~LegalEdit(r, stood))
  <2>1. UNCHANGED <<tables, hdr>>
    BY <1>5 DEF QueryUDT, FoundRec, Refuse
  <2>2. QED
    BY <1>2, <2>1, NothingQueried
<1>6. CASE /\ at # {} /\ ~(Min(at) = Min(same) \/ mode = "a")
           /\ ~(~fWrite \/ ~LegalEdit(r, stood))
  <2> DEFINE k == Min(at)
  <2>1. PromoteTIForUDT(r, n, k)
    BY <1>6 DEF QueryUDT
  <2>2. k \in same /\ pool[chain[k]] = r
    BY <1>4, <1>6, MinIs
  <2> HIDE DEF k
  <2>3. /\ TablesOK' /\ UNCHANGED <<pool, tioff, blocks, newHash, hdr>>
        /\ \A m \in UdtNames :
             TiForUDT(pool', hashChains', m)
             = IF m = n THEN chain[k] ELSE TiForUDT(pool, hashChains, m)
    BY <1>1, <2>1, <2>2, PromoteTypeOK
  <2>4. PoolInv'
    <3>1. ~failed' => SessionOK'
      BY <1>2, <2>3, SessionStays DEF PoolInv
    <3>2. DiskOK'
      BY <1>2, DiskStays DEF PoolInv
    <3>3. QED
      BY <2>3, <3>1, <3>2 DEF PoolInv
  <2>5. fAppend /\ stood # 0 => <<r, pool[stood]>> \in LegalEdits
    BY <1>6 DEF LegalEdit
  <2> HIDE DEF n, chain, stood, at, same
  <2>6. NamesLegal
    BY <1>2, <2>2, <2>3, <2>5 DEF NamesLegal
  <2>7. QED
    BY <2>4, <2>6
<1>7. CASE at = {} /\ ~(mode = "r" \/ ~LegalEdit(r, stood))
  <2>1. AddNewTypeRecord(r) /\ heads' \in {heads, Without(n)}
    BY <1>7 DEF QueryUDT
  <2>2. r \notin Range(pool)
    <3>1. ASSUME NEW ti \in DOMAIN pool, pool[ti] = r
          PROVE  FALSE
      <4>1. ti \in Range(chain)
        BY <1>1, <1>3, <3>1, HashesToChain
      <4>2. PICK k \in DOMAIN chain : chain[k] = ti
        BY <4>1 DEF Range
      <4>3. k \in same
        BY <3>1, <4>2 DEF SameUDT
      <4>4. k \in at
        BY <3>1, <4>2, <4>3
      <4>5. QED
        BY <1>7, <4>4
    <3>2. QED
      BY <3>1 DEF Range
  <2>3. DOMAIN heads' \subseteq DOMAIN heads
    <3> HIDE DEF n
    <3>1. QED
      BY <2>1 DEF Without
  <2>4. LegalEdit(r, TiForUDT(pool, hashChains, UdtName[r]))
    BY <1>2, <1>7
  <2>5. QED
    BY <1>1, <1>2, <2>1, <2>2, <2>3, <2>4, RecordAdded
<1>8. QED
  BY <1>5, <1>6, <1>7

LEMMA QueryStep ==
  ASSUME TypePoolAssumption, PoolInv, NEW r \in TypeRecs, QueryTiForCVRecord(r)
  PROVE  PoolInv' /\ NamesLegal
<1>1. CASE r \in DOMAIN UdtName /\ QueryUDT(r)
  BY <1>1, QueryUDTOK
<1>2. CASE r \in SrcLines /\ QuerySrcLine(r)
  <2>1. r \notin DOMAIN UdtName /\ UNCHANGED <<streams, typeDisk, kept, failed>>
    BY <1>2 DEF TypePoolAssumption, QuerySrcLine
  <2>2. CASE UNCHANGED <<tables, hdr>>
    BY <2>1, <2>2, NothingQueried
  <2>3. CASE TiOf(r) = {} /\ AddNewTypeRecord(r) /\ heads' = heads
    <3>1. r \notin Range(pool)
      BY <2>3 DEF TiOf, Range
    <3>2. QED
      BY <2>1, <2>3, <3>1, RecordAdded
  <2>4. QED
    BY <1>2, <2>2, <2>3 DEF QuerySrcLine, FoundRec, Refuse
<1>3. CASE r \notin DOMAIN UdtName \cup SrcLines /\ QueryOther(r)
  <2>1. r \notin DOMAIN UdtName /\ UNCHANGED <<streams, typeDisk, kept, failed>>
    BY <1>3 DEF QueryOther
  <2>2. CASE UNCHANGED <<tables, hdr>>
    BY <2>1, <2>2, NothingQueried
  <2>3. CASE LookupNonUDTCVRecord(r) = {} /\ AddNewTypeRecord(r) /\ heads' = heads
    <3>1. Range(hashChains[hashPrec(r)]) = {ti \in DOMAIN pool : hashPrec(pool[ti]) = hashPrec(r)}
      BY HashesToChain, TablesAre DEF PoolInv
    <3>2. r \notin Range(pool)
      BY <2>3, <3>1 DEF LookupNonUDTCVRecord, Range
    <3>3. QED
      BY <2>1, <2>3, <3>2, RecordAdded
  <2>4. QED
    BY <1>3, <2>2, <2>3 DEF QueryOther, FoundRec, Refuse
<1>4. QED
  BY <1>1, <1>2, <1>3 DEF QueryTiForCVRecord

\* A session that is as it is written, or as it was read.
LEMMA SessionFrom ==
  ASSUME NEW d, NEW p \in Seq(TypeRecs), NEW t, NEW a, SavedAs(d, p, t, a),
         pool' = p, tioff' = t, streams' = d, hdr' = d.hdr, blocks' = <<>>, newHash' = <<>>
  PROVE  SessionOK'
<1> DEFINE N == Len(p)
<1>1. N \in Nat /\ DOMAIN p = 1 .. N
  BY LenProperties
<1>2. /\ d.hdr \in Hdrs /\ d.hdr.sn /\ d.hdr.tiMac = N /\ d.hdr.nrec = N /\ d.hdr.nhash = N
      /\ d.recs = p /\ PairsOf(p, t) /\ t \in Seq(Int \X Int) /\ AdjItems(a)
      /\ d.hash = HashItems(p) \o PairItems(t) \o a
  BY DEF SavedAs, PairsOf
<1>3. LaidOut(d.hash, p, t, a)
  BY <1>2, ItemsAre
<1>4. RecsOK'
  <2>1. streams'.recs = p /\ hdr'.nrec = N /\ pool' = p /\ blocks' = <<>>
    BY <1>2
  <2>2. <<>> \in Seq(Int \X Int) /\ N \in 0 .. N
    BY <1>1, EmptySeq
  <2>3. QED
    BY <2>1, <2>2 DEF RecsOK
<1>5. HashOK'
  <2>1. d.hash \in Seq(Range(d.hash)) /\ N <= Len(d.hash) /\ \A i \in 1 .. N : d.hash[i] = HashItem(p[i])
    BY <1>1, <1>3 DEF LaidOut
  <2>2. newHash' \in Seq(Range(newHash')) /\ Len(newHash') = 0
    BY EmptySeq
  <2>3. hdr'.sn /\ hdr'.nhash = N /\ hdr'.nrec = N /\ Len(pool') = N /\ N - N = 0
    BY <1>1, <1>2
  <2>4. \A i \in 1 .. 0 : newHash'[i] = HashItem(pool'[N + i])
    OBVIOUS
  <2> HIDE DEF N
  <2>5. QED
    BY <2>1, <2>2, <2>3, <2>4, HashIsNow
<1>6. PairsOf(pool, tioff)'
  <2>1. PairsOf(pool', tioff')
    BY <1>2
  <2>2. QED
    BY <2>1 DEF PairsOf, Offsets
<1>7. hdr' \in Hdrs /\ hdr'.tiMac = Len(pool')
  BY <1>2
<1>8. QED
  BY <1>4, <1>5, <1>6, <1>7 DEF SessionOK, Hdrs

LEMMA DiskFrom ==
  ASSUME NEW d, NEW p \in Seq(TypeRecs), IsInjective(p), NEW t, NEW a, SavedAs(d, p, t, a),
         typeDisk' = d, kept'.pool = p
  PROVE  DiskOK'
<1>1. SavedAs(typeDisk', kept'.pool, t, a)
  OBVIOUS
<1>2. SavedAs(typeDisk, kept.pool, t, a)'
  BY <1>1 DEF SavedAs, Hdrs, PairsOf, Offsets, AdjItems, HashItems, HashItem, hashPrec, PairItems, Range
<1>3. QED
  BY <1>2 DEF DiskOK

LEMMA AdjustsAre ==
  ASSUME IsFiniteSet(DOMAIN heads)
  PROVE  AdjItems(AdjustItems) /\ Len(AdjustItems) \in Nat
<1> DEFINE f == [n \in DOMAIN heads |-> [kind |-> "adj", name |-> n, ti |-> heads[n]]]
           S == {[kind |-> "adj", name |-> n, ti |-> heads[n]] : n \in DOMAIN heads}
<1>1. f \in Surjection(DOMAIN heads, S)
  BY DEF Surjection
<1>2. \A x \in S : x.kind = "adj"
  OBVIOUS
<1>3. AdjustItems = SetToSeq(S)
  BY DEF AdjustItems
<1> HIDE DEF f, S
<1>4. IsFiniteSet(S)
  BY <1>1, FS_Surjection
<1>5. AdjustItems \in Seq(S)
  BY <1>3, <1>4, ListIs
<1>6. \A i \in DOMAIN AdjustItems : AdjustItems[i] \in S
  BY <1>5, LenProperties, ElementOfSeq
<1>7. AdjustItems \in Seq(Range(AdjustItems)) /\ Len(AdjustItems) \in Nat
  BY <1>5, SeqOfRange, LenProperties
<1>8. QED
  BY <1>2, <1>6, <1>7 DEF AdjItems

LEMMA CommitStep ==
  ASSUME TypePoolAssumption, PoolInv, ~failed, CommitTypes
  PROVE  PoolInv' /\ NamesLegal
<1> DEFINE N == Len(pool)
           recs == streams.recs \o RecsOf(blocks)
           hash == HashWritten \o TiOffItems \o AdjustItems
           nrec == hdr.nrec + Len(RecsOf(blocks))
<1>1. /\ TablesOK /\ SessionOK /\ pool \in Seq(TypeRecs) /\ IsInjective(pool) /\ N \in Nat
      /\ IsFiniteSet(DOMAIN heads)
  BY LenProperties DEF PoolInv, TablesOK
<1>2. recs = pool /\ nrec = N
  BY <1>1, RecsOfIs DEF SessionOK
<1>3. hash = HashItems(pool) \o PairItems(tioff) \o AdjustItems
  <2>1. TiOffItems = PairItems(tioff)
    BY DEF TiOffItems, PairItems
  <2>2. HashWritten = HashItems(pool)
    BY <1>1, HashIs DEF SessionOK
  <2>3. QED
    BY <2>1, <2>2
<1>4. /\ hdr' = NewHdr([hdr EXCEPT !.nrec = nrec])
      /\ streams' = [recs |-> recs, hash |-> hash, hdr |-> hdr', names |-> names]
      /\ typeDisk' = streams'
      /\ kept' = [pool |-> pool, type |-> TypeOfName]
      /\ blocks' = <<>> /\ newHash' = <<>>
      /\ UNCHANGED <<mode, pool, hashChains, heads, names, tioff, answer, failed>>
  BY DEF CommitTypes
<1>5. AdjItems(AdjustItems) /\ Len(AdjustItems) \in Nat
  BY <1>1, AdjustsAre
<1>6. Len(tioff) \in Nat /\ PairsOf(pool, tioff)
  BY <1>1, LenProperties DEF SessionOK, PairsOf
<1> HIDE DEF recs, hash, nrec
<1>7. /\ hdr' \in Hdrs /\ hdr'.sn /\ hdr'.tiMac = N /\ hdr'.nrec = N /\ hdr'.nhash = N
      /\ hdr'.ntioff = Len(tioff) /\ hdr'.nadj = Len(AdjustItems)
  <2> DEFINE g == [hdr EXCEPT !.nrec = nrec]
             x == Len(tioff)
             y == Len(AdjustItems)
  <2>1. hdr \in Hdrs /\ hdr.tiMac = N
    BY <1>1 DEF SessionOK
  <2>2. g \in Hdrs /\ g.tiMac = N /\ g.nrec = N
    BY <1>1, <1>2, <2>1 DEF Hdrs
  <2>3. hdr' = [g EXCEPT !.sn = TRUE, !.nhash = g.tiMac, !.ntioff = x, !.nadj = y]
    BY <1>4 DEF NewHdr
  <2>4. x \in Int /\ y \in Int
    BY <1>5, <1>6
  <2> HIDE DEF g, x, y, N
  <2>5. /\ hdr' \in Hdrs /\ hdr'.sn /\ hdr'.tiMac = N /\ hdr'.nrec = N /\ hdr'.nhash = N
        /\ hdr'.ntioff = x /\ hdr'.nadj = y
    BY <2>2, <2>3, <2>4 DEF Hdrs
  <2>6. QED
    BY <2>5 DEF x, y
<1>8. SavedAs(streams', pool, tioff, AdjustItems)
  <2>1. streams'.recs = pool /\ streams'.hdr = hdr'
        /\ streams'.hash = HashItems(pool) \o PairItems(tioff) \o AdjustItems
    BY <1>2, <1>3, <1>4
  <2>2. QED
    BY <1>5, <1>6, <1>7, <2>1 DEF SavedAs
<1>9. SessionOK'
  <2>1. hdr' = streams'.hdr
    BY <1>4
  <2>2. QED
    BY <1>1, <1>4, <1>8, <2>1, SessionFrom
<1>10. DiskOK'
  <2>1. kept'.pool = pool
    BY <1>4
  <2>2. QED
    BY <1>1, <1>4, <1>8, <2>1, DiskFrom
<1>11. TablesOK'
  <2>1. ChainsOf(pool', Len(pool'), hashChains')
    BY <1>1, <1>4 DEF TablesOK
  <2>2. QED
    BY <1>1, <1>4, <2>1 DEF TablesOK
<1>12. NamesLegal
  BY <1>4 DEF NamesLegal
<1>13. QED
  BY <1>9, <1>10, <1>11, <1>12 DEF PoolInv

\* A commit that fails leaves the tables and what was committed.
LEMMA FailStep ==
  ASSUME PoolInv, CommitFails
  PROVE  PoolInv' /\ NamesLegal
<1>1. failed' = TRUE /\ UNCHANGED <<pool, hashChains, heads, typeDisk, kept>>
  BY DEF CommitFails, CommitFailsAtHdr, CommitFailsAtBlock, tables
<1>2. TablesOK'
  <2>1. ChainsOf(pool', Len(pool'), hashChains')
    BY <1>1 DEF PoolInv, TablesOK
  <2>2. QED
    BY <1>1, <2>1 DEF PoolInv, TablesOK
<1>3. DiskOK'
  BY <1>1, DiskStays DEF PoolInv
<1>4. NamesLegal
  BY <1>1 DEF NamesLegal
<1>5. QED
  BY <1>1, <1>2, <1>3, <1>4 DEF PoolInv

LEMMA OpenStep ==
  ASSUME TypePoolAssumption, PoolInv, NEW m, typeDisk.hdr.sn, OpenTypes(m)
  PROVE  PoolInv' /\ NamesLegal
<1> DEFINE d == typeDisk
           p == kept.pool
<1>1. p \in Seq(TypeRecs) /\ IsInjective(p)
  BY DEF PoolInv, DiskOK
<1>2. PICK t, a : SavedAs(d, p, t, a)
  BY DEF PoolInv, DiskOK
<1>3. /\ pool' = LoadedPool(d) /\ hashChains' = LoadedChains(d) /\ heads' = LoadedHeads(d)
      /\ tioff' = [i \in DOMAIN TiOffs(d) |-> <<TiOffs(d)[i].ti, TiOffs(d)[i].off>>]
      /\ hdr' = d.hdr /\ streams' = d /\ blocks' = <<>> /\ newHash' = <<>>
      /\ answer' = "none" /\ typeDisk' = d /\ kept' = kept
  BY DEF OpenTypes
<1> HIDE DEF d, p
<1>4. pool' = p
  BY <1>1, <1>2, <1>3, LoadsRecs
<1>5. ChainsOf(p, Len(p), hashChains') /\ IsFiniteSet(DOMAIN Adjusts(d))
  BY <1>1, <1>2, <1>3, LoadsChains
<1>6. IsFiniteSet(DOMAIN heads')
  <2> DEFINE A == Adjusts(d)
             M == {x.name : x \in Range(A)}
             f == [i \in DOMAIN A |-> A[i].name]
  <2>1. f \in Surjection(DOMAIN A, M)
    BY DEF Surjection, Range
  <2>2. DOMAIN heads' = M
    BY <1>3 DEF LoadedHeads
  <2> HIDE DEF f, M
  <2>3. QED
    BY <1>5, <2>1, <2>2, FS_Surjection
<1>7. tioff' = t
  <2>1. TiOffs(d) = PairItems(t)
    BY <1>1, <1>2, LayoutIs
  <2>2. t \in Seq(Int \X Int) /\ DOMAIN t = 1 .. Len(t)
    BY <1>2, LenProperties DEF SavedAs, PairsOf
  <2>3. tioff' = [i \in 1 .. Len(t) |-> <<t[i][1], t[i][2]>>]
    BY <1>3, <2>1, <2>2 DEF PairItems
  <2>4. \A i \in 1 .. Len(t) : <<t[i][1], t[i][2]>> = t[i]
    <3>1. \A i \in 1 .. Len(t) : t[i] \in Int \X Int
      BY <2>2, ElementOfSeq
    <3>2. QED
      BY <3>1
  <2>5. t = [i \in 1 .. Len(t) |-> t[i]]
    BY <2>2, LenProperties
  <2>6. QED
    BY <2>3, <2>4, <2>5
<1>8. TablesOK'
  BY <1>1, <1>4, <1>5, <1>6 DEF TablesOK
<1>9. SessionOK'
  BY <1>1, <1>2, <1>3, <1>4, <1>7, SessionFrom
<1>10. DiskOK'
  <2>1. kept'.pool = p
    BY <1>3 DEF p
  <2>2. QED
    BY <1>1, <1>2, <1>3, <2>1, DiskFrom
<1>11. NamesLegal
  BY <1>3 DEF NamesLegal
<1>12. QED
  BY <1>8, <1>9, <1>10, <1>11 DEF PoolInv

LEMMA PoolInvInit ==
  ASSUME TypePoolAssumption, TypesInit
  PROVE  PoolInv
<1>1. /\ <<>> \in Seq(TypeRecs) /\ <<>> \in Seq(DOMAIN pool) /\ <<>> \in Seq(Int \X Int)
      /\ <<>> \in Seq(Range(<<>>)) /\ Len(<<>>) = 0 /\ DOMAIN <<>> = {}
  BY EmptySeq
<1>2. TablesOK
  <2>1. pool = <<>> /\ hashChains = [b \in Buckets |-> <<>>] /\ heads = <<>>
    BY DEF TypesInit
  <2>2. IsInjective(<<>>) /\ Range(<<>>) = {}
    BY <1>1 DEF IsInjective, Range
  <2>3. ChainsOf(pool, Len(pool), hashChains)
    BY <1>1, <2>1, <2>2 DEF ChainsOf
  <2>4. IsFiniteSet(DOMAIN heads)
    BY <1>1, <2>1, FS_EmptySet
  <2>5. QED
    BY <1>1, <2>1, <2>2, <2>3, <2>4 DEF TablesOK
<1>3. SessionOK
  <2>1. /\ pool = <<>> /\ tioff = <<>> /\ blocks = <<>> /\ newHash = <<>>
        /\ hdr = NoHdr /\ streams = NoTypes
    BY DEF TypesInit
  <2>2. hdr \in Hdrs /\ hdr.tiMac = 0 /\ hdr.nrec = 0 /\ hdr.sn = FALSE
    BY <2>1 DEF Hdrs, NoHdr
  <2>3. streams.recs = <<>>
    BY <2>1 DEF NoTypes
  <2>4. RecsOK
    BY <1>1, <2>1, <2>2, <2>3 DEF RecsOK
  <2>5. HashOK
    BY <1>1, <2>1, <2>2 DEF HashOK
  <2>6. PairsOf(pool, tioff)
    BY <1>1, <2>1 DEF PairsOf
  <2>7. QED
    BY <1>1, <2>1, <2>2, <2>4, <2>5, <2>6 DEF SessionOK
<1>4. DiskOK
  BY DEF DiskOK, TypesInit, NoTypes, NoHdr
<1>5. QED
  BY <1>2, <1>3, <1>4 DEF PoolInv

LEMMA PoolInvStep ==
  ASSUME TypePoolAssumption, PoolInv, [TypesNext]_typeVars
  PROVE  PoolInv' /\ [NamesLegal]_typeVars
<1>1. ASSUME NEW r \in TypeRecs, QueryTiForCVRecord(r)
      PROVE  PoolInv' /\ NamesLegal
  BY <1>1, QueryStep
<1>2. CASE CommitFails
  BY <1>2, FailStep
<1>3. CASE ~failed /\ CommitTypes
  BY <1>3, CommitStep
<1>4. ASSUME NEW m \in PoolModes, typeDisk.hdr.sn /\ OpenTypes(m)
      PROVE  PoolInv' /\ NamesLegal
  BY <1>4, OpenStep
<1>5. CASE UNCHANGED typeVars
  <2>1. UNCHANGED <<tables, hdr, streams, typeDisk, kept, failed>>
    BY <1>5 DEF typeVars
  <2>2. QED
    BY <1>5, <2>1, NothingQueried
<1>6. QED
  BY <1>1, <1>2, <1>3, <1>4, <1>5 DEF TypesNext, TypeCalls

LEMMA PoolInvRight ==
  ASSUME TypePoolAssumption, PoolInv
  PROVE  PoolRight
<1>1. OneTiPerRecord
  <2>1. TablesOK /\ \A ti, tj \in DOMAIN pool : pool[ti] = pool[tj] => ti = tj
    BY DEF PoolInv, TablesOK, IsInjective
  <2>2. QED
    BY <2>1, TablesAre DEF OneTiPerRecord
<1>2. TisKept
  <2>1. SUFFICES ASSUME typeDisk.hdr.sn
                 PROVE  Sound(typeDisk) /\ LoadedPool(typeDisk) = kept.pool
    BY DEF TisKept
  <2>2. PICK t, a : SavedAs(typeDisk, kept.pool, t, a)
    BY <2>1 DEF PoolInv, DiskOK
  <2>3. kept.pool \in Seq(TypeRecs)
    BY <2>1 DEF PoolInv, DiskOK
  <2>4. QED
    BY <2>2, <2>3, LoadsSound, LoadsRecs
<1>3. QED
  BY <1>1, <1>2 DEF PoolRight

\* TypePool: whatever the records are, how they hash and how large they are, and
\* wherever commits fail, each record has one type index and is linked once, and whoever
\* opens what was committed finds each record under the index it had, through whichever
\* pairs the hash stream was given (PoolRight).
THEOREM TypesAreRight ==
  ASSUME TypePoolAssumption
  PROVE  TypesSpec => []PoolRight
<1>1. TypesInit => PoolInv
  BY PoolInvInit
<1>2. PoolInv /\ [TypesNext]_typeVars => PoolInv'
  BY PoolInvStep
<1>3. PoolInv => PoolRight
  BY PoolInvRight
<1>4. QED
  BY <1>1, <1>2, <1>3, PTL DEF TypesSpec

\* TypePool: while types are only appended, as for an edit in a debugging session, what
\* a name stands for changes by legal edits only, whichever types are loaded with
\* whichever adjusters (EditsLegal).
THEOREM AppendsAreLegal ==
  ASSUME TypePoolAssumption
  PROVE  TypesSpec => EditsLegal
<1>1. TypesInit => PoolInv
  BY PoolInvInit
<1>2. PoolInv /\ [TypesNext]_typeVars => PoolInv'
  BY PoolInvStep
<1>3. PoolInv /\ [TypesNext]_typeVars => [NamesLegal]_typeVars
  BY PoolInvStep
<1>4. QED
  BY <1>1, <1>2, <1>3, PTL DEF TypesSpec, EditsLegal, NamesLegal
=============================================================================
