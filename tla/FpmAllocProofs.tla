--------------------------- MODULE FpmAllocProofs ---------------------------
(***************************************************************************)
(* Theorems about the free page maps of module FpmAlloc, for every page,   *)
(* word and map size: the search for a page never runs past the map, the   *)
(* page map's own pages are nobody's, every data page is accounted for,    *)
(* and the words are the set of free pages of module PageSet.              *)
(*                                                                         *)
(* The inductive invariant IInv says of the file in memory and of the one  *)
(* on disk that the page map pages which are not yet reserved are the last *)
(* free pages (Reserved), that they lie where the file has just grown or   *)
(* behind it, and that the file has an odd number of pages (FileOK).       *)
(***************************************************************************)
EXTENDS FpmAlloc, WellFoundedInduction, TLAPS

-----------------------------------------------------------------------------
(* Division.                                                               *)

\* The quotient and the remainder, and that there are no others.
LEMMA DivMod ==
  ASSUME NEW n \in Nat, NEW d \in Nat \ {0}
  PROVE  /\ n \div d \in Nat /\ n % d \in 0 .. d - 1
         /\ n = (d * (n \div d)) + (n % d)
OBVIOUS

LEMMA DivModOf ==
  ASSUME NEW q \in Nat, NEW d \in Nat \ {0}, NEW r \in 0 .. d - 1
  PROVE  ((d * q) + r) \div d = q /\ ((d * q) + r) % d = r
OBVIOUS

LEMMA MulMonotone ==
  ASSUME NEW a \in Nat, NEW b \in Nat, NEW d \in Nat, a <= b
  PROVE  d * a <= d * b
OBVIOUS

LEMMA MulGap ==
  ASSUME NEW a \in Nat, NEW b \in Nat, NEW d \in Nat, a < b
  PROVE  d * a + d <= d * b
OBVIOUS

\* The bits of a page.
PgBits == CbPg * CharBit

LEMMA Sizes ==
  /\ BPW \in Nat \ {0} /\ BPW > 2 /\ CbPg \in Nat /\ CbPg > 4 /\ PnMax \in Nat /\ PnMax > 4
  /\ Growth \in Nat \ {0} /\ Growth < CbPg
  /\ CbPg = BPW * (CbPg \div BPW) /\ CbPg \div BPW \in Nat
  /\ PgBits \in Nat /\ PgBits >= CbPg + CbPg
  /\ cwPg \in Nat \ {0} /\ PgBits = BPW * cwPg
  /\ PnMax \div PgBits \in Nat \ {0} /\ PnMax = PgBits * (PnMax \div PgBits)
  /\ PnMax = CbPg * (PnMax \div CbPg) /\ PnMax \div CbPg \in Nat \ {0}
  /\ IwMac \in Nat \ {0} /\ PnMax = BPW * IwMac
  /\ PnMax % 2 = 0
<1> USE FpmAssumption
<1>1. CbPg = BPW * (CbPg \div BPW) /\ CbPg \div BPW \in Nat \ {0}
  <2>1. /\ CbPg \in Nat /\ BPW \in Nat \ {0} /\ CbPg > 4 /\ CbPg % BPW = 0
    OBVIOUS
  <2>2. /\ CbPg \div BPW \in Nat
        /\ CbPg = (BPW * (CbPg \div BPW)) + (CbPg % BPW)
    BY <2>1, DivMod
  <2>3. QED
    BY <2>1, <2>2
<1>2. PgBits \in Nat \ {0} /\ PgBits >= CbPg + CbPg
  <2>1. CbPg * 2 <= CbPg * CharBit
    BY MulMonotone
  <2>2. QED
    BY <2>1 DEF PgBits
<1>3. PgBits = BPW * ((CbPg \div BPW) * CharBit)
  <2>1. PgBits = (BPW * (CbPg \div BPW)) * CharBit
    BY <1>1 DEF PgBits
  <2>2. QED
    BY <1>1, <2>1
<1>4. cwPg = (CbPg \div BPW) * CharBit
  <2> DEFINE q == (CbPg \div BPW) * CharBit
  <2>1. q \in Nat
    BY <1>1
  <2>2. ((BPW * q) + 0) \div BPW = q
    BY <2>1, DivModOf
  <2>3. PgBits = (BPW * q) + 0
    BY <1>3, <2>1
  <2>4. QED
    BY <2>2, <2>3 DEF cwPg, PgBits
<1>5. cwPg \in Nat \ {0} /\ PgBits = BPW * cwPg
  <2>1. cwPg \in Nat
    BY <1>1, <1>4
  <2>2. PgBits = BPW * cwPg
    BY <1>3, <1>4
  <2>3. cwPg # 0
    BY <1>2, <2>2
  <2>4. QED
    BY <2>1, <2>2, <2>3
<1>6. PnMax \div PgBits \in Nat \ {0} /\ PnMax = PgBits * (PnMax \div PgBits)
  <2>1. PnMax % PgBits = 0
    BY DEF PgBits
  <2>2. /\ PnMax \div PgBits \in Nat
        /\ PnMax = (PgBits * (PnMax \div PgBits)) + (PnMax % PgBits)
    BY <1>2, DivMod
  <2>3. QED
    BY <1>2, <2>1, <2>2
<1>7. ASSUME NEW d \in Nat \ {0}, NEW e \in Nat, PgBits = d * e
      PROVE  PnMax = d * (PnMax \div d) /\ PnMax \div d \in Nat \ {0}
  <2> DEFINE g == PnMax \div PgBits
  <2>1. g \in Nat /\ PnMax = (d * e) * g
    BY <1>6, <1>7
  <2>2. e * g \in Nat /\ PnMax = (d * (e * g)) + 0
    BY <2>1
  <2> HIDE DEF g
  <2>3. 0 \in 0 .. d - 1 /\ ((d * (e * g)) + 0) \div d = e * g
    BY <2>2, DivModOf
  <2>4. QED
    BY SMTT(30), <2>2, <2>3
<1>8. PnMax = CbPg * (PnMax \div CbPg) /\ PnMax \div CbPg \in Nat \ {0}
  <2>1. CbPg \in Nat \ {0} /\ CharBit \in Nat /\ PgBits = CbPg * CharBit
    BY DEF PgBits
  <2>2. QED
    BY <2>1, <1>7
<1>9. IwMac \in Nat \ {0} /\ PnMax = BPW * IwMac
  <2>1. BPW \in Nat \ {0} /\ cwPg \in Nat /\ PgBits = BPW * cwPg
    BY <1>5
  <2>2. QED
    BY <2>1, <1>7 DEF IwMac
<1>10. PnMax % 2 = 0
  <2> DEFINE c == CbPg \div 2
             e == PnMax \div CbPg
  <2>1. c \in Nat /\ CbPg = 2 * c
    OBVIOUS
  <2>2. e \in Nat /\ PnMax = (2 * c) * e
    BY <1>8, <2>1
  <2>3. c * e \in Nat /\ PnMax = (2 * (c * e)) + 0
    BY <2>1, <2>2
  <2> HIDE DEF c, e
  <2>4. 0 \in 0 .. 2 - 1 /\ ((2 * (c * e)) + 0) % 2 = 0
    BY <2>3, DivModOf
  <2>5. QED
    BY <2>3, <2>4
<1>11. QED
  BY <1>1, <1>2, <1>5, <1>6, <1>8, <1>9, <1>10

\* A page is a bit of a word of the map, and no other page is that bit.
LEMMA PlaceOf ==
  ASSUME NEW pn \in Pn
  PROVE  /\ pn \in Nat /\ mppniw(pn) \in 0 .. IwMac - 1 /\ mppnbit(pn) \in Bits
         /\ pn = (BPW * mppniw(pn)) + mppnbit(pn)
<1>1. pn \in Nat /\ pn < PnMax
  BY Sizes DEF Pn
<1>2. /\ mppniw(pn) \in Nat /\ mppnbit(pn) \in 0 .. BPW - 1
      /\ pn = (BPW * mppniw(pn)) + mppnbit(pn)
  BY <1>1, Sizes, DivMod DEF mppniw, mppnbit
<1>3. mppniw(pn) < IwMac
  <2>1. SUFFICES ASSUME IwMac <= mppniw(pn)
                 PROVE  FALSE
    BY <1>2, Sizes
  <2>2. BPW * IwMac <= BPW * mppniw(pn)
    BY <1>2, <2>1, Sizes, MulMonotone
  <2>3. QED
    BY <1>1, <1>2, <2>2, Sizes
<1>4. QED
  BY <1>1, <1>2, <1>3, Sizes DEF Bits

LEMMA PageAt ==
  ASSUME NEW iw \in 0 .. IwMac - 1, NEW bit \in Bits
  PROVE  LET pn == (BPW * iw) + bit
         IN  pn \in Pn /\ mppniw(pn) = iw /\ mppnbit(pn) = bit
<1>1. iw \in Nat /\ iw < IwMac /\ bit \in 0 .. BPW - 1 /\ bit \in Nat
  BY Sizes DEF Bits
<1>2. (BPW * iw) + BPW <= BPW * IwMac
  BY <1>1, Sizes, MulGap
<1>3. (BPW * iw) + bit \in Pn
  BY <1>1, <1>2, Sizes DEF Pn
<1>4. ((BPW * iw) + bit) \div BPW = iw /\ ((BPW * iw) + bit) % BPW = bit
  <2>1. BPW \in Nat \ {0}
    BY Sizes
  <2>2. QED
    BY <1>1, <2>1, DivModOf
<1>5. QED
  BY <1>3, <1>4 DEF mppniw, mppnbit

\* The pages of later words come later.
LEMMA LaterWord ==
  ASSUME NEW p \in Pn, NEW q \in Pn, mppniw(p) < mppniw(q)
  PROVE  p < q
<1>1. (BPW * mppniw(p)) + BPW <= BPW * mppniw(q)
  BY PlaceOf, Sizes, MulGap
<1>2. /\ mppnbit(p) \in 0 .. BPW - 1 /\ mppnbit(q) \in 0 .. BPW - 1
      /\ p = (BPW * mppniw(p)) + mppnbit(p) /\ q = (BPW * mppniw(q)) + mppnbit(q)
      /\ mppniw(p) \in Nat /\ mppniw(q) \in Nat
  BY PlaceOf DEF Bits
<1>3. QED
  BY <1>1, <1>2, Sizes

-----------------------------------------------------------------------------
(* The words of a map.                                                     *)

MapType == [rgw : Seq(SUBSET Bits), wFill : BOOLEAN, iwRover : Nat]

\* A map whose rover has passed words of zeros only.
MapOK(m) ==
  /\ m \in MapType
  /\ Len(m.rgw) <= IwMac /\ m.iwRover <= Len(m.rgw)
  /\ \A i \in 1 .. m.iwRover : m.rgw[i] = {}

\* The word that holds a page exists.
Held(m, pn) == mppniw(pn) < Len(m.rgw)

LEMMA WordSet ==
  ASSUME NEW m \in MapType, NEW i \in 1 .. Len(m.rgw), NEW w \in SUBSET Bits
  PROVE  LET m2 == [m EXCEPT !.rgw[i] = w]
         IN  /\ m2 \in MapType /\ Len(m2.rgw) = Len(m.rgw)
             /\ m2.wFill = m.wFill /\ m2.iwRover = m.iwRover
             /\ m2.rgw[i] = w
             /\ \A j \in 1 .. Len(m.rgw) : j # i => m2.rgw[j] = m.rgw[j]
<1> DEFINE s == m.rgw
           s2 == [m.rgw EXCEPT ![i] = w]
           m2 == [m EXCEPT !.rgw[i] = w]
<1>1. s \in Seq(SUBSET Bits) /\ m.wFill \in BOOLEAN /\ m.iwRover \in Nat
  BY DEF MapType
<1>2. s2 \in Seq(SUBSET Bits) /\ Len(s2) = Len(s)
  BY <1>1
<1>3. s2[i] = w /\ \A j \in 1 .. Len(s) : j # i => s2[j] = s[j]
  BY <1>1
<1>4. m2.rgw = s2 /\ m2.wFill = m.wFill /\ m2.iwRover = m.iwRover
  BY DEF MapType
<1>5. m2 \in MapType
  BY <1>1, <1>2 DEF MapType
<1>6. QED
  BY <1>2, <1>3, <1>4, <1>5

LEMMA MapParts ==
  ASSUME NEW m, MapOK(m)
  PROVE  /\ m \in MapType /\ m.rgw \in Seq(SUBSET Bits) /\ m.wFill \in BOOLEAN
         /\ m.iwRover \in Nat /\ Len(m.rgw) \in Nat
         /\ \A i \in 1 .. Len(m.rgw) : m.rgw[i] \in SUBSET Bits
BY DEF MapOK, MapType

\* A page is taken out of a map, or put into it, and no other page is.
LEMMA Allocated ==
  ASSUME NEW m, MapOK(m), NEW pn \in Pn, Held(m, pn)
  PROVE  /\ MapOK(AllocIn(m, pn)) /\ AllocIn(m, pn).wFill = m.wFill
         /\ Len(AllocIn(m, pn).rgw) = Len(m.rgw)
         /\ \A q \in Pn : isFreePn(AllocIn(m, pn), q) <=> isFreePn(m, q) /\ q # pn
<1> DEFINE i == mppniw(pn) + 1
           w == m.rgw[i] \ {mppnbit(pn)}
           m2 == [m EXCEPT !.rgw[i] = w]
<1>1. i \in 1 .. Len(m.rgw) /\ m.rgw[i] \in SUBSET Bits /\ w \in SUBSET Bits
  BY PlaceOf, MapParts DEF Held
<1>2. AllocIn(m, pn) = m2
  BY DEF AllocIn
<1>3. /\ m2 \in MapType /\ Len(m2.rgw) = Len(m.rgw)
      /\ m2.wFill = m.wFill /\ m2.iwRover = m.iwRover
      /\ m2.rgw[i] = w
      /\ \A j \in 1 .. Len(m.rgw) : j # i => m2.rgw[j] = m.rgw[j]
  <2>1. m \in MapType
    BY MapParts
  <2> HIDE DEF i, w
  <2>2. QED
    BY <1>1, <2>1, WordSet
<1> HIDE DEF m2
<1>4. MapOK(m2)
  <2>1. ASSUME NEW j \in 1 .. m2.iwRover
        PROVE  m2.rgw[j] = {}
    <3>1. j \in 1 .. Len(m.rgw) /\ m.rgw[j] = {}
      BY <1>3, MapParts DEF MapOK
    <3>2. QED
      BY <1>3, <3>1
  <2>2. QED
    BY <1>3, <2>1 DEF MapOK
<1>5. ASSUME NEW q \in Pn
      PROVE  isFreePn(m2, q) <=> isFreePn(m, q) /\ q # pn
  <2>1. CASE mppniw(q) = mppniw(pn)
    <3>1. q = pn <=> mppnbit(q) = mppnbit(pn)
      BY <2>1, PlaceOf
    <3>2. isFreePn(m2, q) <=> mppnbit(q) \in w
      BY <2>1, <1>3 DEF isFreePn, Held
    <3>3. isFreePn(m, q) <=> mppnbit(q) \in m.rgw[i]
      BY <2>1 DEF isFreePn, Held
    <3>4. QED
      BY <3>1, <3>2, <3>3
  <2>2. CASE mppniw(q) # mppniw(pn)
    <3>1. q # pn
      BY <2>2
    <3>2. mppniw(q) < Len(m.rgw) => m2.rgw[mppniw(q) + 1] = m.rgw[mppniw(q) + 1]
      BY SMTT(30), <2>2, <1>3, PlaceOf, MapParts
    <3>3. QED
      BY <3>1, <3>2, <1>3 DEF isFreePn
  <2>3. QED
    BY <2>1, <2>2
<1>6. QED
  BY <1>2, <1>3, <1>4, <1>5

LEMMA Freed ==
  ASSUME NEW m, MapOK(m), NEW pn \in Pn, Held(m, pn)
  PROVE  /\ MapOK(FreeIn(m, pn)) /\ FreeIn(m, pn).wFill = m.wFill
         /\ Len(FreeIn(m, pn).rgw) = Len(m.rgw)
         /\ \A q \in Pn : isFreePn(FreeIn(m, pn), q) <=> isFreePn(m, q) \/ q = pn
<1> DEFINE i == mppniw(pn) + 1
           w == m.rgw[i] \cup {mppnbit(pn)}
           m1 == [m EXCEPT !.rgw[i] = w]
           m2 == FreeIn(m, pn)
<1>1. i \in 1 .. Len(m.rgw) /\ m.rgw[i] \in SUBSET Bits /\ w \in SUBSET Bits
  BY PlaceOf, MapParts DEF Held
<1>2. m1 \in MapType /\ m2 \in MapType /\ m2.rgw = m1.rgw /\ m2.wFill = m1.wFill /\ m2.iwRover = 0
  <2>1. m1 \in MapType
    BY <1>1, MapParts, WordSet
  <2>2. m2 = [m1 EXCEPT !.iwRover = 0]
    BY MapParts DEF FreeIn, MapType
  <2> HIDE DEF m1, m2
  <2>3. QED
    BY <2>1, <2>2 DEF MapType
<1>3. /\ Len(m1.rgw) = Len(m.rgw) /\ m1.wFill = m.wFill
      /\ m1.rgw[i] = w
      /\ \A j \in 1 .. Len(m.rgw) : j # i => m1.rgw[j] = m.rgw[j]
  BY <1>1, MapParts, WordSet
<1> HIDE DEF m1, m2
<1>4. MapOK(m2)
  BY <1>2, <1>3, MapParts DEF MapOK
<1>5. ASSUME NEW q \in Pn
      PROVE  isFreePn(m2, q) <=> isFreePn(m, q) \/ q = pn
  <2>1. CASE mppniw(q) = mppniw(pn)
    <3>1. q = pn <=> mppnbit(q) = mppnbit(pn)
      BY <2>1, PlaceOf
    <3>2. isFreePn(m2, q) <=> mppnbit(q) \in w
      BY <2>1, <1>2, <1>3 DEF isFreePn, Held
    <3>3. isFreePn(m, q) <=> mppnbit(q) \in m.rgw[i]
      BY <2>1 DEF isFreePn, Held
    <3>4. QED
      BY <3>1, <3>2, <3>3
  <2>2. CASE mppniw(q) # mppniw(pn)
    <3>1. q # pn
      BY <2>2
    <3>2. mppniw(q) < Len(m.rgw) => m2.rgw[mppniw(q) + 1] = m.rgw[mppniw(q) + 1]
      <4>1. mppniw(q) \in Nat /\ mppniw(pn) \in Nat /\ Len(m.rgw) \in Nat
        BY PlaceOf, MapParts
      <4>2. mppniw(q) < Len(m.rgw) =>
              mppniw(q) + 1 \in 1 .. Len(m.rgw) /\ mppniw(q) + 1 # i
        BY <2>2, <4>1
      <4> HIDE DEF i
      <4>3. QED
        BY <4>2, <1>2, <1>3
    <3>3. QED
      BY <3>1, <3>2, <1>2, <1>3 DEF isFreePn
  <2>3. QED
    BY <2>1, <2>2
<1>6. QED
  BY <1>2, <1>3, <1>4, <1>5 DEF m2

\* The words that a map gets when it grows are what it had without them.
LEMMA Room ==
  ASSUME NEW m, MapOK(m), NEW lim \in 0 .. PnMax
  PROVE  /\ MapOK(fEnsureRoom(m, lim)) /\ fEnsureRoom(m, lim).wFill = m.wFill
         /\ \A q \in Pn : isFreePn(fEnsureRoom(m, lim), q) <=> isFreePn(m, q)
         /\ \A q \in Pn : q < lim => Held(fEnsureRoom(m, lim), q)
         /\ \A n \in Nat : lim = BPW * n => n <= Len(fEnsureRoom(m, lim).rgw)
<1> DEFINE n == mppniw(lim + BPW - 1)
           k == IF n > Len(m.rgw) THEN n ELSE Len(m.rgw)
           m2 == fEnsureRoom(m, lim)
<1>1. /\ n \in Nat /\ lim <= BPW * n /\ (BPW * n) - BPW < lim
  <2>1. lim + BPW - 1 \in Nat /\ lim \in Nat
    BY Sizes
  <2>2. /\ n \in Nat /\ (lim + BPW - 1) % BPW \in 0 .. BPW - 1
        /\ lim + BPW - 1 = (BPW * n) + ((lim + BPW - 1) % BPW)
    BY <2>1, Sizes, DivMod DEF mppniw
  <2> HIDE DEF n
  <2>3. QED
    BY <2>1, <2>2, Sizes
<1> HIDE DEF n
<1>2. n <= IwMac
  <2>1. SUFFICES ASSUME IwMac < n
                 PROVE  FALSE
    BY <1>1, Sizes
  <2>2. (BPW * IwMac) + BPW <= BPW * n
    BY <1>1, <2>1, Sizes, MulGap
  <2>3. QED
    BY <1>1, <2>2, Sizes
<1>3. k \in Nat /\ k <= IwMac /\ n <= k /\ Len(m.rgw) <= k
  BY <1>1, <1>2, Sizes, MapParts DEF MapOK
<1>4. Fill(m.wFill) \in SUBSET Bits
  BY DEF Fill
<1>5. /\ m2 \in MapType /\ m2.wFill = m.wFill /\ m2.iwRover = m.iwRover /\ Len(m2.rgw) = k
      /\ \A i \in 1 .. k : m2.rgw[i] = IF i <= Len(m.rgw) THEN m.rgw[i] ELSE Fill(m.wFill)
  <2> DEFINE s == [i \in 1 .. k |-> IF i <= Len(m.rgw) THEN m.rgw[i] ELSE Fill(m.wFill)]
  <2>1. m2 = [m EXCEPT !.rgw = s]
    BY DEF fEnsureRoom, n
  <2> HIDE DEF k, m2
  <2>2. s \in Seq(SUBSET Bits) /\ Len(s) = k
    BY <1>3, <1>4, MapParts
  <2>3. \A i \in 1 .. k : s[i] = IF i <= Len(m.rgw) THEN m.rgw[i] ELSE Fill(m.wFill)
    OBVIOUS
  <2> HIDE DEF s
  <2>4. m2.rgw = s /\ m2.wFill = m.wFill /\ m2.iwRover = m.iwRover /\ m2 \in MapType
    BY <2>1, <2>2, MapParts DEF MapType
  <2>5. QED
    BY <2>2, <2>3, <2>4
<1> HIDE DEF k, m2
<1>6. MapOK(m2)
  <2>1. ASSUME NEW i \in 1 .. m2.iwRover
        PROVE  m2.rgw[i] = {}
    <3>1. i \in 1 .. Len(m.rgw) /\ m.rgw[i] = {} /\ i \in 1 .. k
      BY <1>3, <1>5, MapParts DEF MapOK
    <3>2. QED
      BY <1>5, <3>1
  <2>2. m2.iwRover <= Len(m2.rgw)
    BY <1>3, <1>5, MapParts DEF MapOK
  <2>3. QED
    BY <1>3, <1>5, <2>1, <2>2 DEF MapOK
<1>7. ASSUME NEW q \in Pn
      PROVE  isFreePn(m2, q) <=> isFreePn(m, q)
  <2> DEFINE i == mppniw(q) + 1
  <2>1. mppniw(q) \in Nat /\ mppnbit(q) \in Bits /\ i \in Nat /\ i >= 1
    BY PlaceOf
  <2>2. CASE mppniw(q) < Len(m.rgw)
    <3>1. i \in 1 .. k /\ i <= Len(m.rgw) /\ mppniw(q) < k
      BY <1>3, <2>1, <2>2, MapParts
    <3>2. m2.rgw[i] = m.rgw[i]
      BY <1>5, <3>1
    <3>3. QED
      BY <1>5, <2>2, <3>1, <3>2 DEF isFreePn
  <2>3. CASE ~(mppniw(q) < Len(m.rgw)) /\ mppniw(q) < k
    <3>1. i \in 1 .. k /\ ~(i <= Len(m.rgw))
      BY <1>3, <2>1, <2>3, MapParts
    <3>2. m2.rgw[i] = Fill(m.wFill)
      BY <1>5, <3>1
    <3>3. isFreePn(m2, q) <=> mppnbit(q) \in Fill(m.wFill)
      BY <1>5, <2>3, <3>2 DEF isFreePn
    <3>4. mppnbit(q) \in Fill(m.wFill) <=> m.wFill
      BY <2>1 DEF Fill
    <3>5. QED
      BY <2>3, <3>3, <3>4 DEF isFreePn
  <2>4. CASE ~(mppniw(q) < Len(m.rgw)) /\ ~(mppniw(q) < k)
    BY <1>5, <2>4 DEF isFreePn
  <2>5. QED
    BY <2>2, <2>3, <2>4
<1>8. ASSUME NEW q \in Pn, q < lim
      PROVE  Held(m2, q)
  <2>1. SUFFICES ASSUME n <= mppniw(q)
                 PROVE  FALSE
    BY <1>1, <1>3, <1>5, PlaceOf DEF Held
  <2>2. BPW * n <= BPW * mppniw(q)
    BY <1>1, <2>1, PlaceOf, Sizes, MulMonotone
  <2>3. /\ mppniw(q) \in Nat /\ mppnbit(q) \in 0 .. BPW - 1
        /\ q = (BPW * mppniw(q)) + mppnbit(q)
    BY PlaceOf DEF Bits
  <2>4. QED
    BY <1>1, <1>8, <2>2, <2>3, Sizes
<1>9. ASSUME NEW j \in Nat, lim = BPW * j
      PROVE  j <= Len(m2.rgw)
  <2>1. SUFFICES ASSUME n < j
                 PROVE  FALSE
    BY <1>1, <1>3, <1>5
  <2>2. (BPW * n) + BPW <= BPW * j
    BY <1>1, <2>1, Sizes, MulGap
  <2>3. QED
    BY <1>1, <1>9, <2>2, Sizes
<1>10. QED
  BY <1>5, <1>6, <1>7, <1>8, <1>9 DEF m2

\* The sum of two maps.
LEMMA Added ==
  ASSUME NEW m, MapOK(m), NEW m2, MapOK(m2)
  PROVE  /\ MapOK(add(m, m2)) /\ add(m, m2).wFill = (m.wFill \/ m2.wFill)
         /\ \A q \in Pn : isFreePn(add(m, m2), q) <=> isFreePn(m, q) \/ isFreePn(m2, q)
<1> DEFINE k == IF Len(m.rgw) > Len(m2.rgw) THEN Len(m.rgw) ELSE Len(m2.rgw)
           s == [i \in 1 .. k |-> WordOf(m, i) \cup WordOf(m2, i)]
           w == m.wFill \/ m2.wFill
           a == add(m, m2)
<1>1. k \in Nat /\ k <= IwMac /\ Len(m.rgw) <= k /\ Len(m2.rgw) <= k
  <2>1. Len(m.rgw) \in Nat /\ Len(m2.rgw) \in Nat
    BY MapParts
  <2>2. Len(m.rgw) <= IwMac /\ Len(m2.rgw) <= IwMac /\ IwMac \in Nat
    BY Sizes DEF MapOK
  <2>3. QED
    BY <2>1, <2>2
<1>2. ASSUME NEW x, MapOK(x), NEW i \in 1 .. k
      PROVE  WordOf(x, i) \in SUBSET Bits
  BY <1>1, <1>2, MapParts DEF WordOf, Fill
<1>3. a.rgw = s /\ a.wFill = w /\ a.iwRover = 0 /\ a = [rgw |-> s, wFill |-> w, iwRover |-> 0]
  BY DEF add, MakeFPM
<1> HIDE DEF a, k
<1>4. s \in Seq(SUBSET Bits) /\ Len(s) = k
  BY <1>1, <1>2
<1>5. w \in BOOLEAN
  OBVIOUS
<1>6. \A i \in 1 .. k : s[i] = WordOf(m, i) \cup WordOf(m2, i)
  OBVIOUS
<1> HIDE DEF s, w
<1>7. a \in MapType
  BY <1>3, <1>4, <1>5 DEF MapType
<1>8. MapOK(a)
  BY <1>1, <1>3, <1>4, <1>7 DEF MapOK
<1>9. ASSUME NEW q \in Pn
      PROVE  isFreePn(a, q) <=> isFreePn(m, q) \/ isFreePn(m2, q)
  <2> DEFINE i == mppniw(q) + 1
  <2>1. mppniw(q) \in Nat /\ mppnbit(q) \in Bits /\ i \in Nat /\ i >= 1
    BY PlaceOf
  <2>2. ASSUME NEW x, MapOK(x)
        PROVE  isFreePn(x, q) <=> mppnbit(q) \in WordOf(x, i)
    <3>1. mppniw(q) < Len(x.rgw) <=> i <= Len(x.rgw)
      BY <2>1, <2>2, MapParts
    <3>2. mppnbit(q) \in Fill(x.wFill) <=> x.wFill
      BY <2>1, <2>2, MapParts DEF Fill
    <3>3. CASE i <= Len(x.rgw)
      BY <3>1, <3>3 DEF isFreePn, WordOf
    <3>4. CASE ~(i <= Len(x.rgw))
      BY <3>1, <3>2, <3>4 DEF isFreePn, WordOf
    <3>5. QED
      BY <3>3, <3>4
  <2>3. CASE mppniw(q) < k
    <3>1. i \in 1 .. k
      BY <1>1, <2>1, <2>3
    <3>2. isFreePn(a, q) <=> mppnbit(q) \in WordOf(m, i) \cup WordOf(m2, i)
      BY <1>3, <1>4, <1>6, <2>3, <3>1 DEF isFreePn
    <3>3. QED
      BY <2>2, <3>2
  <2>4. CASE ~(mppniw(q) < k)
    <3>1. ~(mppniw(q) < Len(m.rgw)) /\ ~(mppniw(q) < Len(m2.rgw)) /\ ~(mppniw(q) < Len(a.rgw))
      BY <1>1, <1>3, <1>4, <2>1, <2>4, MapParts
    <3>2. QED
      BY <1>3, <3>1 DEF isFreePn, w
  <2>5. QED
    BY <2>3, <2>4
<1>10. QED
  BY <1>3, <1>8, <1>9 DEF a, w

LEMMA Cleared ==
  ASSUME NEW m, MapOK(m)
  PROVE  /\ MapOK(clearAll(m)) /\ clearAll(m).wFill = FALSE
         /\ \A q \in Pn : ~isFreePn(clearAll(m), q)
<1> DEFINE s == [i \in 1 .. Len(m.rgw) |-> {}]
           c == clearAll(m)
<1>1. c = [rgw |-> s, wFill |-> FALSE, iwRover |-> 0]
  BY DEF clearAll, MakeFPM
<1>2. s \in Seq(SUBSET Bits) /\ Len(s) = Len(m.rgw) /\ \A i \in 1 .. Len(m.rgw) : s[i] = {}
  BY MapParts
<1> HIDE DEF s, c
<1>3. c \in MapType /\ c.rgw = s /\ c.wFill = FALSE /\ c.iwRover = 0
  BY <1>1, <1>2 DEF MapType
<1>4. MapOK(c)
  BY <1>2, <1>3, MapParts DEF MapOK
<1>5. ASSUME NEW q \in Pn
      PROVE  ~isFreePn(c, q)
  <2>1. mppniw(q) \in Nat
    BY PlaceOf
  <2>2. mppniw(q) < Len(s) => mppniw(q) + 1 \in 1 .. Len(m.rgw)
    BY <1>2, <2>1, MapParts
  <2>3. QED
    BY <1>2, <1>3, <2>2 DEF isFreePn
<1>6. QED
  BY <1>3, <1>4, <1>5 DEF c

LEMMA Empty ==
  ASSUME NEW w \in BOOLEAN
  PROVE  /\ MapOK(EmptyFPM(w)) /\ EmptyFPM(w).wFill = w
         /\ \A q \in Pn : isFreePn(EmptyFPM(w), q) <=> w
<1> DEFINE e == EmptyFPM(w)
<1>1. e.rgw = <<>> /\ e.wFill = w /\ e.iwRover = 0 /\ e \in MapType
  BY DEF EmptyFPM, MakeFPM, MapType
<1> HIDE DEF e
<1>2. MapOK(e)
  BY <1>1, Sizes DEF MapOK
<1>3. ASSUME NEW q \in Pn
      PROVE  isFreePn(e, q) <=> w
  <2>1. ~(mppniw(q) < Len(e.rgw))
    BY <1>1, PlaceOf
  <2>2. QED
    BY <1>1, <2>1 DEF isFreePn
<1>4. QED
  BY <1>1, <1>2, <1>3 DEF e

-----------------------------------------------------------------------------
(* The search for a free page.                                             *)

\* A set of natural numbers that is not empty has a least one.
LEMMA LeastIn ==
  ASSUME NEW T \in SUBSET Nat, T # {}
  PROVE  \E x \in T : \A y \in T : x <= y
<1> DEFINE R == OpToRel(<, Nat)
<1>1. IsWellFoundedOn(R, Nat)
  BY NatLessThanWellFounded
<1>2. \A x, y \in Nat : <<y, x>> \in R <=> y < x
  BY DEF OpToRel
<1> HIDE DEF R
<1>3. PICK x \in T : \A y \in T : <<y, x>> \notin R
  BY <1>1, WFMin
<1>4. ASSUME NEW y \in T
      PROVE  x <= y
  <2>1. x \in Nat /\ y \in Nat /\ <<y, x>> \notin R
    BY <1>3
  <2>2. ~(y < x)
    BY <1>2, <2>1, Zenon
  <2>3. QED
    BY <2>1, <2>2
<1>5. QED
  BY <1>3, <1>4

\* The first word from the rover on that is not zero, or the end of the array.
FirstWord(m) ==
  CHOOSE i \in m.iwRover .. Len(m.rgw) :
    /\ \A j \in m.iwRover .. i - 1 : m.rgw[j + 1] = {}
    /\ i < Len(m.rgw) => m.rgw[i + 1] # {}

LEMMA FirstWordRight ==
  ASSUME NEW m, MapOK(m)
  PROVE  /\ FirstWord(m) \in 0 .. Len(m.rgw)
         /\ \A j \in 0 .. FirstWord(m) - 1 : m.rgw[j + 1] = {}
         /\ FirstWord(m) < Len(m.rgw) => m.rgw[FirstWord(m) + 1] # {}
<1> DEFINE n == Len(m.rgw)
           a == m.iwRover
           T == {i \in a .. n : i < n => m.rgw[i + 1] # {}}
<1>1. n \in Nat /\ a \in Nat /\ a <= n /\ \A j \in 1 .. a : m.rgw[j] = {}
  BY MapParts DEF MapOK
<1> HIDE DEF n, a
<1>2. n \in T /\ T \in SUBSET Nat
  BY <1>1
<1>3. PICK x \in T : \A y \in T : x <= y
  BY <1>2, LeastIn
<1>4. \A j \in a .. x - 1 : m.rgw[j + 1] = {}
  <2>1. SUFFICES ASSUME NEW j \in a .. x - 1, m.rgw[j + 1] # {}
                 PROVE  FALSE
    OBVIOUS
  <2>2. j \in T /\ j < x
    BY <1>1, <2>1
  <2>3. QED
    BY <1>1, <1>3, <2>2
<1>5. /\ FirstWord(m) \in a .. n
      /\ \A j \in a .. FirstWord(m) - 1 : m.rgw[j + 1] = {}
      /\ FirstWord(m) < n => m.rgw[FirstWord(m) + 1] # {}
  <2> HIDE DEF T
  <2>1. x \in a .. n /\ (x < n => m.rgw[x + 1] # {})
    BY <1>3 DEF T
  <2>2. QED
    BY <1>4, <2>1 DEF FirstWord, n, a
<1> DEFINE f == FirstWord(m)
<1> HIDE DEF f
<1>6. ASSUME NEW j \in 0 .. f - 1
      PROVE  m.rgw[j + 1] = {}
  <2>1. f \in a .. n /\ \A i \in a .. f - 1 : m.rgw[i + 1] = {}
    BY <1>5 DEF f
  <2>2. CASE j < a
    <3>1. j + 1 \in 1 .. a
      BY <1>1, <2>1, <2>2
    <3>2. QED
      BY <1>1, <3>1
  <2>3. CASE a <= j
    BY <1>1, <2>1, <2>3
  <2>4. QED
    BY <1>1, <2>1, <2>2, <2>3
<1>7. f \in 0 .. n
  BY <1>1, <1>5 DEF f
<1>8. QED
  BY <1>5, <1>6, <1>7 DEF n, f

\* The map after the search: with a word of ones more when all words are zero.
Searched(m) ==
  [m EXCEPT !.iwRover = FirstWord(m),
            !.rgw = IF FirstWord(m) = Len(@) /\ FirstWord(m) < IwMac THEN Append(@, Bits) ELSE @]

LEMMA SearchedRight ==
  ASSUME NEW m, MapOK(m), m.wFill = TRUE, FirstWord(m) < IwMac
  PROVE  /\ MapOK(Searched(m)) /\ Searched(m).wFill = TRUE
         /\ FirstWord(m) < Len(Searched(m).rgw)
         /\ Searched(m).rgw[FirstWord(m) + 1] # {}
         /\ \A q \in Pn : isFreePn(Searched(m), q) <=> isFreePn(m, q)
<1> DEFINE f == FirstWord(m)
           n == Len(m.rgw)
           s == IF f = n /\ f < IwMac THEN Append(m.rgw, Bits) ELSE m.rgw
           m2 == Searched(m)
<1>1. /\ f \in 0 .. n /\ n \in Nat /\ f \in Nat /\ f < IwMac /\ n <= IwMac /\ IwMac \in Nat
      /\ \A j \in 0 .. f - 1 : m.rgw[j + 1] = {}
      /\ f < n => m.rgw[f + 1] # {}
  BY SMTT(30), FirstWordRight, MapParts, Sizes DEF MapOK
<1>2. m2 = [m EXCEPT !.iwRover = f, !.rgw = s]
  BY DEF Searched
<1> HIDE DEF f, m2
<1>3. /\ s \in Seq(SUBSET Bits)
      /\ f = n => s = Append(m.rgw, Bits) /\ Len(s) = n + 1 /\ s[n + 1] = Bits
      /\ f # n => s = m.rgw
      /\ \A i \in 1 .. n : s[i] = m.rgw[i]
  BY <1>1, MapParts
<1> HIDE DEF s
<1>4. m2.rgw = s /\ m2.wFill = TRUE /\ m2.iwRover = f /\ m2 \in MapType
  BY <1>1, <1>2, <1>3, MapParts DEF MapType
<1>5. f < Len(s) /\ Len(s) <= IwMac /\ n <= Len(s) /\ Len(s) \in Nat
  BY <1>1, <1>3 DEF n
<1>6. s[f + 1] # {}
  <2>1. CASE f = n
    <3>1. 0 \in Bits
      BY Sizes DEF Bits
    <3>2. QED
      BY <1>3, <2>1, <3>1
  <2>2. CASE f # n
    BY <1>1, <1>3, <2>2
  <2>3. QED
    BY <2>1, <2>2
<1>7. MapOK(m2)
  <2>1. ASSUME NEW i \in 1 .. f
        PROVE  s[i] = {}
    <3>1. i - 1 \in 0 .. f - 1 /\ (i - 1) + 1 = i /\ i \in 1 .. n
      BY <1>1
    <3>2. m.rgw[i] = {}
      BY <1>1, <3>1
    <3>3. QED
      BY <1>3, <3>1, <3>2
  <2>2. f <= Len(s)
    BY <1>1, <1>5
  <2>3. QED
    BY <1>4, <1>5, <2>1, <2>2 DEF MapOK
<1>8. ASSUME NEW q \in Pn
      PROVE  isFreePn(m2, q) <=> isFreePn(m, q)
  <2> DEFINE i == mppniw(q) + 1
  <2>1. mppniw(q) \in Nat /\ mppnbit(q) \in Bits /\ i \in Nat /\ i >= 1
    BY PlaceOf
  <2>2. CASE mppniw(q) < n
    <3>1. i \in 1 .. n /\ mppniw(q) < Len(s)
      BY <1>1, <1>5, <2>1, <2>2
    <3>2. s[i] = m.rgw[i]
      BY <1>3, <3>1
    <3>3. QED
      BY <1>4, <2>2, <3>1, <3>2 DEF isFreePn, n
  <2>3. CASE ~(mppniw(q) < n)
    <3>1. isFreePn(m, q)
      BY <2>3 DEF isFreePn, n
    <3>2. CASE mppniw(q) < Len(s)
      <4>1. f = n
        BY <1>1, <1>3, <2>3, <3>2 DEF n
      <4>2. mppniw(q) = n
        BY <1>1, <1>3, <2>1, <2>3, <3>2, <4>1
      <4>3. s[i] = Bits
        BY <1>3, <4>1, <4>2
      <4>4. QED
        BY <1>4, <2>1, <3>1, <3>2, <4>3 DEF isFreePn
    <3>3. CASE ~(mppniw(q) < Len(s))
      BY <1>4, <3>1, <3>3 DEF isFreePn
    <3>4. QED
      BY <3>2, <3>3
  <2>4. QED
    BY <2>2, <2>3
<1>9. QED
  BY <1>4, <1>5, <1>6, <1>7, <1>8 DEF f, m2

\* FindFree returns the least free page, in a word that the map then has.
LEMMA FindFreeRight ==
  ASSUME NEW m, MapOK(m), m.wFill = TRUE, NEW top \in Pn, isFreePn(m, top)
  PROVE  LET f == FindFree(m)
         IN  /\ f.pn \in Pn /\ isFreePn(m, f.pn) /\ \A q \in Pn : isFreePn(m, q) => f.pn <= q
             /\ MapOK(f.map) /\ f.map.wFill = TRUE /\ Held(f.map, f.pn)
             /\ \A q \in Pn : isFreePn(f.map, q) <=> isFreePn(m, q)
<1> DEFINE iw == FirstWord(m)
           m2 == Searched(m)
           W == iw * BPW .. (iw + 1) * BPW - 1
           pn == CHOOSE p \in W : isFreePn(m2, p) /\ \A q \in iw * BPW .. p - 1 : ~isFreePn(m2, q)
           f == FindFree(m)
<1>1. /\ iw \in 0 .. Len(m.rgw) /\ Len(m.rgw) \in Nat /\ iw \in Nat
      /\ \A j \in 0 .. iw - 1 : m.rgw[j + 1] = {}
  BY FirstWordRight, MapParts
<1>2. ASSUME NEW q \in Pn, isFreePn(m, q)
      PROVE  iw <= mppniw(q)
  <2>1. mppniw(q) \in Nat
    BY PlaceOf
  <2>2. SUFFICES ASSUME mppniw(q) < iw
                 PROVE  FALSE
    BY <1>1, <2>1
  <2>3. mppniw(q) \in 0 .. iw - 1 /\ mppniw(q) < Len(m.rgw)
    BY <1>1, <2>1, <2>2
  <2>4. m.rgw[mppniw(q) + 1] = {}
    BY <1>1, <2>3
  <2>5. QED
    BY <1>2, <2>3, <2>4 DEF isFreePn
<1>3. iw < IwMac
  BY <1>1, <1>2, PlaceOf, Sizes
<1>4. /\ MapOK(m2) /\ m2.wFill = TRUE /\ iw < Len(m2.rgw) /\ m2.rgw[iw + 1] # {}
      /\ \A q \in Pn : isFreePn(m2, q) <=> isFreePn(m, q)
  BY <1>3, SearchedRight
<1>5. f = [map |-> m2, pn |-> pn]
  <2>1. f = [map |-> m2, pn |-> IF iw = IwMac THEN NoWord ELSE pn]
    BY Zenon DEF FindFree, FirstWord, Searched
  <2>2. iw # IwMac
    BY <1>1, <1>3, Sizes
  <2> HIDE DEF iw, m2, f, pn
  <2>3. QED
    BY <2>1, <2>2
<1> HIDE DEF iw, m2, f, pn
<1>6. /\ iw * BPW \in Nat /\ iw * BPW = BPW * iw
      /\ (iw + 1) * BPW - 1 \in Nat /\ (iw + 1) * BPW - 1 = ((BPW * iw) + BPW) - 1
  BY <1>1, Sizes
<1>7. ASSUME NEW p \in Nat
      PROVE  p \in W <=> p \in Pn /\ mppniw(p) = iw
  <2>1. ASSUME p \in W
        PROVE  p \in Pn /\ mppniw(p) = iw
    <3>1. p - (BPW * iw) \in Bits /\ iw \in 0 .. IwMac - 1 /\ p = (BPW * iw) + (p - (BPW * iw))
      BY <1>1, <1>3, <1>6, <2>1, Sizes DEF Bits
    <3>2. QED
      BY <3>1, PageAt
  <2>2. ASSUME p \in Pn, mppniw(p) = iw
        PROVE  p \in W
    <3>1. mppnbit(p) \in 0 .. BPW - 1 /\ p = (BPW * iw) + mppnbit(p)
      BY <2>2, PlaceOf DEF Bits
    <3>2. QED
      BY <1>1, <1>6, <3>1, Sizes
  <2>3. QED
    BY <2>1, <2>2
<1>8. W \subseteq Nat
  BY <1>6
<1> DEFINE T == {p \in W : isFreePn(m2, p)}
<1> HIDE DEF W
<1>9. T # {}
  <2>1. PICK bit \in m2.rgw[iw + 1] : TRUE
    BY <1>4
  <2>2. bit \in Bits
    BY <1>1, <1>4, <2>1, MapParts
  <2>3. iw \in 0 .. IwMac - 1
    BY <1>1, <1>3, Sizes
  <2> DEFINE p == (BPW * iw) + bit
  <2>4. p \in Pn /\ mppniw(p) = iw /\ mppnbit(p) = bit
    BY <2>2, <2>3, PageAt
  <2> HIDE DEF p
  <2>5. isFreePn(m2, p)
    BY <1>4, <2>1, <2>4 DEF isFreePn
  <2>6. p \in W
    BY <1>7, <2>4, PlaceOf
  <2>7. QED
    BY <2>5, <2>6
<1>10. PICK x \in T : \A y \in T : x <= y
  BY <1>8, <1>9, LeastIn
<1>11. \A q \in iw * BPW .. x - 1 : ~isFreePn(m2, q)
  <2>1. SUFFICES ASSUME NEW q \in iw * BPW .. x - 1, isFreePn(m2, q)
                 PROVE  FALSE
    OBVIOUS
  <2>2. x \in Nat /\ q \in Nat /\ q < x /\ q \in W
    <3>1. x \in iw * BPW .. (iw + 1) * BPW - 1
      BY DEF W
    <3>2. QED
      BY <1>6, <2>1, <3>1 DEF W
  <2>3. q \in T
    BY <2>1, <2>2
  <2>4. QED
    BY <1>10, <2>2, <2>3
<1>12. pn \in W /\ isFreePn(m2, pn) /\ \A q \in iw * BPW .. pn - 1 : ~isFreePn(m2, q)
  BY <1>10, <1>11 DEF pn
<1>13. pn \in Pn /\ mppniw(pn) = iw
  BY <1>7, <1>8, <1>12
<1>14. ASSUME NEW q \in Pn, isFreePn(m, q)
       PROVE  pn <= q
  <2>1. pn \in Nat /\ q \in Nat /\ mppniw(q) \in Nat /\ iw <= mppniw(q)
    BY <1>2, <1>13, <1>14, PlaceOf
  <2>2. CASE iw < mppniw(q)
    BY <1>13, <2>1, <2>2, LaterWord
  <2>3. CASE iw = mppniw(q)
    <3>1. q \in W
      BY <1>7, <2>1, <2>3
    <3>2. isFreePn(m2, q)
      BY <1>4, <1>14
    <3>3. ~(q \in iw * BPW .. pn - 1)
      BY <1>12, <3>2
    <3>4. iw * BPW <= q
      BY <1>6, <2>1, <3>1 DEF W
    <3>5. QED
      BY <1>6, <2>1, <3>3, <3>4
  <2>4. QED
    BY <1>1, <2>1, <2>2, <2>3
<1>15. Held(m2, pn)
  BY <1>4, <1>13 DEF Held
<1>16. f.map = m2 /\ f.pn = pn
  BY <1>5
<1>17. QED
  BY <1>4, <1>12, <1>13, <1>14, <1>15, <1>16 DEF f

\* What nextPn does with a page it has found.
Retried(f) ==
  IF f.pn # NoWord /\ fpmPn(f.pn)
  THEN FindFree(AllocIn(AllocIn(f.map, f.pn), f.pn + 1))
  ELSE f

\* When the page after a pair of page map pages is no such page, that is the page found.
LEMMA FoundIs ==
  ASSUME NEW m, NEW r, Retried(FindFree(m)) = r, Retried(r) = r
  PROVE  FoundPn(m) = r
<1> DEFINE S == 0 .. Intervals
           Good(g) == g = [k \in S |-> IF k = 0 THEN FindFree(m) ELSE Retried(g[k - 1])]
           found == CHOOSE g : Good(g)
           w == [k \in S |-> IF k = 0 THEN FindFree(m) ELSE r]
<1>1. FoundPn(m) = found[Intervals]
  BY Zenon DEF FoundPn, Retried
<1>2. Intervals \in Nat \ {0}
  BY Sizes DEF Intervals
<1>3. Good(w)
  <2>1. ASSUME NEW k \in S, k # 0
        PROVE  w[k] = Retried(w[k - 1])
    <3>1. k - 1 \in S
      BY <1>2, <2>1
    <3>2. w[k - 1] = FindFree(m) \/ w[k - 1] = r
      BY <3>1
    <3>3. QED
      BY <2>1, <3>2
  <2>2. QED
    BY <2>1
<1>4. Good(found)
  BY <1>3
<1> HIDE DEF found, Good
<1>5. \A k \in S : found[k] = IF k = 0 THEN FindFree(m) ELSE Retried(found[k - 1])
  BY <1>4 DEF Good
<1> DEFINE T == {k \in S : k # 0 /\ found[k] # r}
<1>6. T = {}
  <2>1. SUFFICES ASSUME T # {}
                 PROVE  FALSE
    OBVIOUS
  <2>2. T \in SUBSET Nat
    BY <1>2
  <2>3. PICK x \in T : \A y \in T : x <= y
    BY <2>1, <2>2, LeastIn
  <2>4. x \in Nat /\ x # 0 /\ x \in S /\ found[x] # r /\ x - 1 \in S
    BY <1>2, <2>3
  <2>5. found[x] = Retried(found[x - 1])
    BY <1>5, <2>4
  <2>6. CASE x - 1 = 0
    BY <1>5, <2>4, <2>5, <2>6
  <2>7. CASE x - 1 # 0
    <3>1. found[x - 1] = r
      BY <2>3, <2>4, <2>7
    <3>2. QED
      BY <2>4, <2>5, <3>1
  <2>8. QED
    BY <2>6, <2>7
<1>7. QED
  BY <1>1, <1>2, <1>6

-----------------------------------------------------------------------------
(* The pairs of page map pages.                                            *)

LEMMA PairPlace ==
  ASSUME NEW p \in Pn, fpmPn(p), p % CbPg = 1
  PROVE  /\ p + 1 \in Pn /\ fpmPn(p + 1) /\ mppniw(p + 1) = mppniw(p)
         /\ p + 2 \in Pn /\ ~fpmPn(p + 2)
<1> DEFINE c == p \div CbPg
<1>1. p \in Nat /\ p < PnMax /\ p >= 3
  BY Sizes DEF Pn, fpmPn, cpnBigMsfReserved
<1>2. c \in Nat /\ p = (CbPg * c) + 1
  <2>1. CbPg \in Nat \ {0}
    BY Sizes
  <2>2. c \in Nat /\ p = (CbPg * c) + (p % CbPg)
    BY <1>1, <2>1, DivMod
  <2>3. QED
    BY <2>2
<1>3. (CbPg * c) + CbPg <= PnMax
  <2>1. CbPg \in Nat \ {0} /\ PnMax = CbPg * (PnMax \div CbPg) /\ PnMax \div CbPg \in Nat
    BY Sizes
  <2> HIDE DEF c
  <2>2. SUFFICES ASSUME PnMax \div CbPg <= c
                 PROVE  FALSE
    BY <1>2, <2>1, MulGap
  <2>3. CbPg * (PnMax \div CbPg) <= CbPg * c
    BY <1>2, <2>1, <2>2, MulMonotone
  <2>4. QED
    BY <1>1, <1>2, <2>1, <2>3
<1>4. CbPg * c = BPW * ((CbPg \div BPW) * c)
  <2>1. CbPg * c = (BPW * (CbPg \div BPW)) * c
    BY Sizes
  <2>2. CbPg \div BPW \in Nat /\ BPW \in Nat
    BY Sizes
  <2> HIDE DEF c
  <2>3. QED
    BY <1>2, <2>1, <2>2
<1> DEFINE e == (CbPg \div BPW) * c
<1>5. e \in Nat
  BY <1>2, Sizes
<1> HIDE DEF c, e
<1>6. mppniw(p + 1) = mppniw(p)
  <2>1. p = (BPW * e) + 1 /\ p + 1 = (BPW * e) + 2
    BY <1>2, <1>4, <1>5, Sizes DEF e
  <2>2. BPW \in Nat \ {0} /\ 1 \in 0 .. BPW - 1 /\ 2 \in 0 .. BPW - 1
    BY Sizes
  <2>3. ((BPW * e) + 1) \div BPW = e /\ ((BPW * e) + 2) \div BPW = e
    BY <1>5, <2>2, DivModOf
  <2>4. QED
    BY <2>1, <2>3 DEF mppniw
<1>7. (p + 1) % CbPg = 2 /\ (p + 2) % CbPg = 3
  <2>1. CbPg \in Nat \ {0} /\ 2 \in 0 .. CbPg - 1 /\ 3 \in 0 .. CbPg - 1
    BY Sizes
  <2>2. ((CbPg * c) + 2) % CbPg = 2 /\ ((CbPg * c) + 3) % CbPg = 3
    BY <1>2, <2>1, DivModOf
  <2>3. p + 1 = (CbPg * c) + 2 /\ p + 2 = (CbPg * c) + 3
    BY <1>2, Sizes
  <2>4. QED
    BY <2>2, <2>3
<1>8. QED
  BY <1>1, <1>2, <1>3, <1>6, <1>7, Sizes DEF Pn, fpmPn, cpnBigMsfReserved

LEMMA PairFirst ==
  ASSUME NEW p \in Pn, fpmPn(p), p % CbPg = 2
  PROVE  p - 1 \in Pn /\ fpmPn(p - 1) /\ (p - 1) % CbPg = 1
<1> DEFINE c == p \div CbPg
<1>1. p \in Nat /\ p < PnMax /\ p >= 3
  BY Sizes DEF Pn, fpmPn, cpnBigMsfReserved
<1>2. c \in Nat /\ p = (CbPg * c) + 2
  <2>1. CbPg \in Nat \ {0}
    BY Sizes
  <2>2. c \in Nat /\ p = (CbPg * c) + (p % CbPg)
    BY <1>1, <2>1, DivMod
  <2>3. QED
    BY <2>2
<1> HIDE DEF c
<1>3. c # 0
  BY <1>1, <1>2, Sizes
<1>4. CbPg * 1 <= CbPg * c
  BY <1>2, <1>3, Sizes, MulMonotone
<1>5. (p - 1) % CbPg = 1
  <2>1. CbPg \in Nat \ {0} /\ 1 \in 0 .. CbPg - 1
    BY Sizes
  <2>2. ((CbPg * c) + 1) % CbPg = 1
    BY <1>2, <2>1, DivModOf
  <2>3. p - 1 = (CbPg * c) + 1
    BY <1>2, Sizes
  <2>4. QED
    BY <2>2, <2>3
<1>6. QED
  BY <1>1, <1>2, <1>4, <1>5, Sizes DEF Pn, fpmPn, cpnBigMsfReserved

LEMMA PairRest ==
  ASSUME NEW p \in Pn, fpmPn(p)
  PROVE  p % CbPg = 1 \/ p % CbPg = 2
BY DEF fpmPn

\* The last page is a data page.
LEMMA LastPage ==
  PnMax - 1 \in DataPages /\ (PnMax - 1) % CbPg = CbPg - 1
<1> DEFINE g == PnMax \div CbPg
<1>1. g \in Nat \ {0} /\ PnMax = CbPg * g /\ CbPg \in Nat /\ CbPg > 4 /\ PnMax > 4
  BY Sizes
<1> HIDE DEF g
<1>2. PnMax - 1 = (CbPg * (g - 1)) + (CbPg - 1)
  BY <1>1
<1>3. ((CbPg * (g - 1)) + (CbPg - 1)) % CbPg = CbPg - 1
  <2>1. g - 1 \in Nat /\ CbPg \in Nat \ {0} /\ CbPg - 1 \in 0 .. CbPg - 1
    BY <1>1
  <2>2. QED
    BY <2>1, DivModOf
<1>4. QED
  BY <1>1, <1>2, <1>3, Sizes DEF DataPages, Pn, fpmPn

-----------------------------------------------------------------------------
(* Reserved pages.                                                         *)

\* A pair of page map pages that is free is free as a whole, and with all that follows it.
PairsLast(m) ==
  /\ \A p \in Pn : fpmPn(p) /\ p % CbPg = 2 /\ isFreePn(m, p) => isFreePn(m, p - 1)
  /\ \A p, q \in Pn : fpmPn(p) /\ isFreePn(m, p) /\ p <= q => isFreePn(m, q)

\* The header and the first pair are not free, the last page is.
Reserved(m) ==
  /\ \A q \in 0 .. 2 : ~isFreePn(m, q)
  /\ isFreePn(m, PnMax - 1)
  /\ PairsLast(m)

\* nextPn finds the least free data page, and reserves the pair before it.
LEMMA FoundRight ==
  ASSUME NEW m, MapOK(m), m.wFill = TRUE, Reserved(m)
  PROVE  LET f == FoundPn(m)
         IN  /\ f.pn \in DataPages /\ f.pn \in Pn /\ isFreePn(m, f.pn)
             /\ \A q \in DataPages : isFreePn(m, q) => f.pn <= q
             /\ MapOK(f.map) /\ f.map.wFill = TRUE /\ Held(f.map, f.pn)
             /\ \A q \in DataPages : isFreePn(f.map, q) <=> isFreePn(m, q)
             /\ \A q \in Pn : isFreePn(f.map, q) => isFreePn(m, q)
             /\ PairsLast(f.map)
             /\ \A p \in Pn : fpmPn(p) /\ isFreePn(f.map, p) => f.pn < p
<1> DEFINE g == FindFree(m)
<1>1. PnMax - 1 \in Pn /\ isFreePn(m, PnMax - 1)
  BY LastPage DEF DataPages, Reserved
<1>2. /\ g.pn \in Pn /\ isFreePn(m, g.pn) /\ \A q \in Pn : isFreePn(m, q) => g.pn <= q
      /\ MapOK(g.map) /\ g.map.wFill = TRUE /\ Held(g.map, g.pn)
      /\ \A q \in Pn : isFreePn(g.map, q) <=> isFreePn(m, q)
  BY <1>1, FindFreeRight
<1>3. g.pn \in Nat /\ g.pn >= 3 /\ g.pn # NoWord /\ Pn \subseteq Nat
  <2>1. Pn \subseteq Nat /\ g.pn \in Nat /\ g.pn < PnMax
    BY <1>2, Sizes DEF Pn
  <2>2. ~(g.pn \in 0 .. 2)
    BY <1>2 DEF Reserved
  <2>3. QED
    BY <2>1, <2>2, Sizes DEF NoWord
<1> HIDE DEF g
<1>4. CASE ~fpmPn(g.pn)
  <2>1. FoundPn(m) = g
    <3>1. Retried(g) = g
      BY <1>4 DEF Retried
    <3>2. QED
      BY <3>1, FoundIs DEF g
  <2>2. g.pn \in DataPages
    BY <1>2, <1>3, <1>4 DEF DataPages
  <2>3. PairsLast(g.map)
    <3>1. ASSUME NEW p \in Pn, fpmPn(p), p % CbPg = 2, isFreePn(g.map, p)
          PROVE  isFreePn(g.map, p - 1)
      BY <1>2, <3>1, PairFirst DEF Reserved, PairsLast
    <3>2. ASSUME NEW p \in Pn, NEW q \in Pn, fpmPn(p), isFreePn(g.map, p), p <= q
          PROVE  isFreePn(g.map, q)
      BY <1>2, <3>2 DEF Reserved, PairsLast
    <3>3. QED
      BY <3>1, <3>2 DEF PairsLast
  <2>4. ASSUME NEW p \in Pn, fpmPn(p), isFreePn(g.map, p)
        PROVE  g.pn < p
    <3>1. g.pn <= p /\ g.pn # p /\ p \in Nat
      BY <1>2, <1>3, <1>4, <2>4
    <3>2. QED
      BY <1>3, <3>1
  <2>5. DataPages \subseteq Pn
    BY DEF DataPages
  <2>6. QED
    BY <1>2, <2>1, <2>2, <2>3, <2>4, <2>5
<1>5. CASE fpmPn(g.pn)
  <2> DEFINE p1 == g.pn
             m1 == AllocIn(g.map, p1)
             m2 == AllocIn(m1, p1 + 1)
             h == FindFree(m2)
  <2>1. p1 % CbPg = 1
    <3>1. SUFFICES ASSUME p1 % CbPg = 2
                   PROVE  FALSE
      BY <1>2, <1>5, PairRest
    <3>2. isFreePn(m, p1 - 1) /\ p1 - 1 \in Pn
      BY <1>2, <1>5, <3>1, PairFirst DEF Reserved, PairsLast
    <3>3. QED
      BY <1>2, <1>3, <3>2
  <2>2. /\ p1 + 1 \in Pn /\ fpmPn(p1 + 1) /\ mppniw(p1 + 1) = mppniw(p1)
        /\ p1 + 2 \in Pn /\ ~fpmPn(p1 + 2)
    BY <1>2, <1>5, <2>1, PairPlace
  <2>3. \A q \in Pn : isFreePn(m, q) <=> p1 <= q
    BY <1>2, <1>5 DEF Reserved, PairsLast
  <2>4. /\ MapOK(m1) /\ m1.wFill = TRUE /\ Len(m1.rgw) = Len(g.map.rgw)
        /\ \A q \in Pn : isFreePn(m1, q) <=> isFreePn(m, q) /\ q # p1
    BY <1>2, Allocated
  <2>5. Held(m1, p1 + 1)
    BY <1>2, <2>2, <2>4 DEF Held
  <2> HIDE DEF m1
  <2>6. /\ MapOK(m2) /\ m2.wFill = TRUE
        /\ \A q \in Pn : isFreePn(m2, q) <=> isFreePn(m1, q) /\ q # p1 + 1
    BY <2>2, <2>4, <2>5, Allocated
  <2> HIDE DEF m2, p1
  <2>7. \A q \in Pn : isFreePn(m2, q) <=> p1 + 2 <= q
    <3>1. p1 \in Nat /\ \A q \in Pn : q \in Nat
      BY <1>3 DEF p1
    <3>2. QED
      BY <2>3, <2>4, <2>6, <3>1
  <2>8. isFreePn(m2, p1 + 2)
    BY <1>3, <2>2, <2>7 DEF p1
  <2>9. /\ h.pn \in Pn /\ isFreePn(m2, h.pn) /\ \A q \in Pn : isFreePn(m2, q) => h.pn <= q
        /\ MapOK(h.map) /\ h.map.wFill = TRUE /\ Held(h.map, h.pn)
        /\ \A q \in Pn : isFreePn(h.map, q) <=> isFreePn(m2, q)
    BY <2>2, <2>6, <2>8, FindFreeRight
  <2> HIDE DEF h
  <2>10. h.pn = p1 + 2
    <3>1. h.pn \in Nat /\ p1 \in Nat /\ h.pn <= p1 + 2 /\ p1 + 2 <= h.pn
      BY <1>3, <2>2, <2>7, <2>8, <2>9 DEF p1
    <3>2. QED
      BY <3>1
  <2>11. FoundPn(m) = h
    <3>1. Retried(g) = h
      BY <1>3, <1>5 DEF Retried, h, m2, m1, p1
    <3>2. Retried(h) = h
      BY <2>2, <2>10 DEF Retried
    <3>3. QED
      BY <3>1, <3>2, FoundIs DEF g
  <2>12. p1 \in Nat /\ p1 >= 3 /\ \A q \in Pn : q \in Nat
    BY <1>3 DEF p1
  <2>13. p1 + 2 \in DataPages
    BY <2>2, <2>12 DEF DataPages
  <2>14. \A q \in DataPages : q \in Pn /\ q \in Nat /\ q # p1 /\ q # p1 + 1
    BY <1>5, <2>2, <2>12 DEF DataPages, p1
  <2>15. \A q \in DataPages : isFreePn(h.map, q) <=> isFreePn(m, q)
    BY <2>3, <2>7, <2>9, <2>12, <2>14
  <2>16. \A q \in Pn : isFreePn(h.map, q) => isFreePn(m, q)
    BY <2>4, <2>6, <2>9
  <2>17. PairsLast(h.map)
    <3>1. ASSUME NEW p \in Pn, fpmPn(p), p % CbPg = 2, isFreePn(h.map, p)
          PROVE  isFreePn(h.map, p - 1)
      <4>1. p1 + 2 <= p /\ p # p1 + 2 /\ p \in Nat /\ p - 1 \in Pn
        BY <2>2, <2>7, <2>9, <2>12, <3>1, PairFirst
      <4>2. p1 + 2 <= p - 1
        BY <2>12, <4>1
      <4>3. QED
        BY <2>7, <2>9, <4>1, <4>2
    <3>2. ASSUME NEW p \in Pn, NEW q \in Pn, fpmPn(p), isFreePn(h.map, p), p <= q
          PROVE  isFreePn(h.map, q)
      <4>1. p1 + 2 <= p /\ p \in Nat /\ q \in Nat
        BY <2>7, <2>9, <2>12, <3>2
      <4>2. p1 + 2 <= q
        BY <2>12, <3>2, <4>1
      <4>3. QED
        BY <2>7, <2>9, <4>2
    <3>3. QED
      BY <3>1, <3>2 DEF PairsLast
  <2>18. ASSUME NEW p \in Pn, fpmPn(p), isFreePn(h.map, p)
         PROVE  h.pn < p
    <3>1. p1 + 2 <= p /\ p # p1 + 2 /\ p \in Nat
      BY <2>2, <2>7, <2>9, <2>12, <2>18
    <3>2. QED
      BY <2>10, <2>12, <3>1
  <2>19. ASSUME NEW q \in DataPages, isFreePn(m, q)
         PROVE  h.pn <= q
    <3>1. q \in Pn /\ isFreePn(m2, q)
      BY <2>3, <2>7, <2>12, <2>14, <2>19
    <3>2. QED
      BY <2>9, <3>1
  <2>20. isFreePn(m, h.pn)
    BY <2>2, <2>10, <2>9, <2>16
  <2>21. QED
    BY <2>9, <2>10, <2>11, <2>13, <2>15, <2>16, <2>17, <2>18, <2>19, <2>20
<1>6. QED
  BY <1>4, <1>5

-----------------------------------------------------------------------------
(* The size of a file, and the pages of its page map.                      *)

\* The end of a file is odd: the growth is even, and a pair is two pages.
MacOK(mac) == mac \in 3 .. PnMax - 1 /\ mac % 2 = 1

\* The page at the end of a file is a data page, or the first one of a pair.
LEMMA EndPlace ==
  ASSUME NEW mac, MacOK(mac)
  PROVE  /\ mac \in Pn /\ mac \in Nat
         /\ \/ mac \in DataPages
            \/ /\ fpmPn(mac + 1) /\ mac + 2 \in DataPages /\ mac + 2 < PnMax - 1
               /\ mac # PnMax - 1
<1>1. mac \in Pn /\ mac \in Nat /\ mac >= 3
  BY Sizes DEF MacOK, Pn
<1>2. CASE ~fpmPn(mac)
  BY <1>1, <1>2 DEF DataPages
<1>3. CASE fpmPn(mac)
  <2>1. mac % CbPg = 1
    <3>1. SUFFICES ASSUME mac % CbPg = 2
                   PROVE  FALSE
      BY <1>1, <1>3, PairRest
    <3> DEFINE c == mac \div CbPg
               e == CbPg \div 2
    <3>2. CbPg \in Nat \ {0}
      BY Sizes
    <3>3. c \in Nat /\ mac = (CbPg * c) + 2
      BY <1>1, <3>1, <3>2, DivMod
    <3>4. e \in Nat /\ CbPg = 2 * e
      <4>1. CbPg % 2 = 0
        BY FpmAssumption
      <4>2. QED
        BY <3>2, <4>1
    <3> HIDE DEF c, e
    <3>5. (e * c) + 1 \in Nat /\ mac = (2 * ((e * c) + 1)) + 0
      BY <3>3, <3>4
    <3>6. mac % 2 = 0
      <4>1. 0 \in 0 .. 2 - 1 /\ 2 \in Nat \ {0}
        OBVIOUS
      <4>2. QED
        BY <3>5, <4>1, DivModOf
    <3>7. QED
      BY <3>6 DEF MacOK
  <2>2. fpmPn(mac + 1) /\ mac + 2 \in Pn /\ ~fpmPn(mac + 2) /\ mac + 1 \in Pn
    BY <1>1, <1>3, <2>1, PairPlace
  <2>3. mac # PnMax - 1
    BY <1>3, LastPage DEF DataPages
  <2>4. mac + 2 # PnMax - 1
    <3> DEFINE c == mac \div CbPg
    <3>1. CbPg \in Nat \ {0} /\ CbPg > 4
      BY Sizes
    <3>2. c \in Nat /\ mac = (CbPg * c) + 1
      BY <1>1, <2>1, <3>1, DivMod
    <3> HIDE DEF c
    <3>3. 3 \in 0 .. CbPg - 1 /\ mac + 2 = (CbPg * c) + 3
      BY <3>1, <3>2
    <3>4. (mac + 2) % CbPg = 3
      BY <3>1, <3>2, <3>3, DivModOf
    <3>5. CbPg - 1 # 3
      BY <3>1
    <3>6. QED
      BY <3>4, <3>5, LastPage
  <2>5. mac + 2 < PnMax - 1
    BY <1>1, <2>2, <2>4, Sizes DEF Pn
  <2>6. QED
    BY <1>1, <2>2, <2>3, <2>5 DEF DataPages
<1>4. QED
  BY <1>1, <1>2, <1>3

\* The page map has room for the file, and not a page more than it takes.
LEMMA MapCovers ==
  ASSUME NEW mac \in 3 .. PnMax - 1
  PROVE  /\ cpnFpm(mac) \in Nat \ {0}
         /\ mac <= PgBits * cpnFpm(mac) /\ PgBits * cpnFpm(mac) <= PnMax
         /\ PgBits * (cpnFpm(mac) - 1) < mac
<1> DEFINE a == (mac + BPW - 1) \div BPW
           r == a * BPW
           b == (r + PgBits - 1) \div PgBits
<1>1. /\ BPW \in Nat \ {0} /\ PgBits \in Nat \ {0} /\ cwPg \in Nat \ {0} /\ PgBits = BPW * cwPg
      /\ mac \in Nat /\ mac > 0 /\ PnMax \in Nat /\ mac <= PnMax - 1
  BY Sizes
<1>2. a \in Nat /\ r \in Nat /\ mac <= r /\ r <= mac + BPW - 1 /\ r = BPW * a
  <2>1. mac + BPW - 1 \in Nat
    BY <1>1
  <2>2. /\ a \in Nat /\ (mac + BPW - 1) % BPW \in 0 .. BPW - 1
        /\ mac + BPW - 1 = (BPW * a) + ((mac + BPW - 1) % BPW)
    BY <1>1, <2>1, DivMod
  <2> HIDE DEF a
  <2>3. QED
    BY <1>1, <2>2
<1> HIDE DEF a, r
<1>3. b \in Nat /\ r <= PgBits * b /\ PgBits * b <= r + PgBits - 1
  <2>1. r + PgBits - 1 \in Nat
    BY <1>1, <1>2
  <2>2. /\ b \in Nat /\ (r + PgBits - 1) % PgBits \in 0 .. PgBits - 1
        /\ r + PgBits - 1 = (PgBits * b) + ((r + PgBits - 1) % PgBits)
    BY <1>1, <2>1, DivMod
  <2> HIDE DEF b
  <2>3. QED
    BY <1>1, <1>2, <2>2
<1> HIDE DEF b
<1>4. cpnFpm(mac) = b
  <2>1. cpnFpm(mac) = (b * PgBits) \div PgBits
    BY DEF cpnFpm, RoundUp, PgBits, a, r, b
  <2>2. ((PgBits * b) + 0) \div PgBits = b
    BY <1>1, <1>3, DivModOf
  <2>3. (PgBits * b) + 0 = b * PgBits
    BY <1>1, <1>3
  <2>4. QED
    BY <2>1, <2>2, <2>3
<1>5. b # 0 /\ b - 1 \in Nat
  BY <1>1, <1>2, <1>3
<1>6. PgBits * (b - 1) < mac
  <2> DEFINE d == b - 1
  <2>1. d \in Nat /\ PgBits * b = (PgBits * d) + PgBits
    BY <1>1, <1>3, <1>5
  <2>2. PgBits * d <= r - 1
    BY <1>1, <1>2, <1>3, <2>1
  <2>3. PgBits * d = BPW * (cwPg * d) /\ cwPg * d \in Nat
    <3> HIDE DEF d
    <3>1. QED
      BY <1>1, <2>1
  <2> HIDE DEF d
  <2>4. cwPg * d < a
    <3>1. SUFFICES ASSUME a <= cwPg * d
                   PROVE  FALSE
      BY <1>2, <2>3
    <3>2. BPW * a <= BPW * (cwPg * d)
      BY <1>1, <1>2, <2>3, <3>1, MulMonotone
    <3>3. QED
      BY <1>1, <1>2, <2>1, <2>2, <2>3, <3>2
  <2>5. (BPW * (cwPg * d)) + BPW <= BPW * a
    BY <1>1, <1>2, <2>3, <2>4, MulGap
  <2>6. QED
    BY <1>1, <1>2, <2>1, <2>3, <2>5 DEF d
<1>7. PgBits * b <= PnMax
  <2> DEFINE g == PnMax \div PgBits
  <2>1. g \in Nat /\ PnMax = PgBits * g
    BY Sizes
  <2> HIDE DEF g
  <2>2. b - 1 < g
    <3>1. SUFFICES ASSUME g <= b - 1
                   PROVE  FALSE
      BY <1>5, <2>1
    <3>2. PgBits * g <= PgBits * (b - 1)
      BY <1>1, <1>5, <2>1, <3>1, MulMonotone
    <3> DEFINE x == PgBits * (b - 1)
    <3>3. x \in Nat
      BY <1>1, <1>5
    <3> HIDE DEF x
    <3>4. QED
      BY <1>1, <1>6, <2>1, <3>2, <3>3 DEF x
  <2>3. b <= g
    BY <1>3, <2>1, <2>2
  <2>4. QED
    BY <1>1, <1>3, <2>1, <2>3, MulMonotone
<1>8. QED
  BY <1>2, <1>3, <1>4, <1>5, <1>6, <1>7, <1>1

\* The pages of a page map lie in the file; those after the first are of pairs that are
\* passed long before the file ends.
LEMMA MapPagePlace ==
  ASSUME NEW mac \in 3 .. PnMax - 1, NEW s \in {1, 2}, NEW k \in 0 .. cpnFpm(mac) - 1
  PROVE  LET p == s + k * CbPg
         IN  /\ p \in Pn /\ p \in 0 .. mac - 1 /\ (p - s) \div CbPg = k
             /\ IF k = 0 THEN p = s ELSE fpmPn(p) /\ mac >= p + Growth
<1> DEFINE n == cpnFpm(mac)
           p == s + k * CbPg
           x == CbPg * k
<1>1. n \in Nat \ {0} /\ PgBits * (n - 1) < mac /\ mac \in Nat /\ mac >= 3 /\ mac <= PnMax - 1
  BY MapCovers, Sizes
<1>2. /\ CbPg \in Nat \ {0} /\ CbPg > 4 /\ PgBits \in Nat /\ PgBits >= CbPg + CbPg
      /\ Growth \in Nat /\ Growth < CbPg /\ s \in Nat /\ s >= 1 /\ s <= 2 /\ PnMax \in Nat
  BY Sizes
<1>3. k \in Nat /\ k <= n - 1
  BY <1>1
<1> HIDE DEF n
<1>4. x \in Nat /\ p = x + s
  BY <1>2, <1>3
<1>5. (p - s) \div CbPg = k
  <2>1. ((CbPg * k) + 0) \div CbPg = k
    BY <1>2, <1>3, DivModOf
  <2>2. p - s = (CbPg * k) + 0
    BY <1>2, <1>4
  <2>3. QED
    BY <2>1, <2>2
<1>6. CASE k = 0
  <2>1. p = s
    BY <1>2, <1>4, <1>6
  <2>2. QED
    BY <1>1, <1>2, <1>5, <1>6, <2>1 DEF Pn
<1>7. CASE k # 0
  <2>1. x >= CbPg
    <3>1. CbPg * 1 <= CbPg * k
      BY <1>2, <1>3, <1>7, MulMonotone
    <3>2. QED
      BY <1>2, <3>1
  <2>2. x + x < mac
    <3>1. PgBits * k <= PgBits * (n - 1)
      BY <1>1, <1>2, <1>3, MulMonotone
    <3>2. k * (CbPg + CbPg) <= k * PgBits
      BY <1>2, <1>3, MulMonotone
    <3> DEFINE y == PgBits * k
               z == PgBits * (n - 1)
    <3>3. y \in Nat /\ z \in Nat /\ x + x <= y
      BY <1>1, <1>2, <1>3, <3>2
    <3> HIDE DEF x, y, z
    <3>4. QED
      BY <1>1, <1>4, <3>1, <3>3 DEF y, z
  <2>3. p % CbPg = s
    <3>1. s \in 0 .. CbPg - 1
      BY <1>2
    <3>2. ((CbPg * k) + s) % CbPg = s
      BY <1>2, <1>3, <3>1, DivModOf
    <3>3. QED
      BY <1>4, <3>2
  <2> HIDE DEF x, p
  <2>4. p < mac /\ p >= 3 /\ p \in Nat /\ mac >= p + Growth
    BY <1>1, <1>2, <1>4, <2>1, <2>2
  <2>5. fpmPn(p)
    BY <2>3, <2>4 DEF fpmPn, cpnBigMsfReserved
  <2>6. QED
    BY <1>1, <1>2, <1>5, <1>7, <2>4, <2>5 DEF Pn, p
<1>8. QED
  BY <1>6, <1>7

-----------------------------------------------------------------------------
(* The inductive invariant.                                                *)

\* A file of mac pages of which users have some, with its map of free pages: the pairs
\* that have not been reserved lie where the file has just grown, or behind it.
FileOK(m, mac, u) ==
  /\ MapOK(m) /\ m.wFill = TRUE /\ Reserved(m)
  /\ MacOK(mac)
  /\ \A p \in Pn : fpmPn(p) /\ isFreePn(m, p) => mac < p + Growth
  /\ u \subseteq DataPages /\ \A p \in u : p < mac

\* Pages that will be free after the next commit.
FreedOK(m, mac) ==
  /\ MapOK(m) /\ m.wFill = FALSE
  /\ \A p \in Pn : isFreePn(m, p) => p \in DataPages /\ p < mac

\* DataPagesAccounted, of any maps and users.
Accounted(m, m2, u) ==
  \A pn \in DataPages :
    IF isFreePn(m, pn)
    THEN ~isFreePn(m2, pn) /\ pn \notin u
    ELSE isFreePn(m2, pn) <=> pn \notin u

MemOK(m, m2, mac, u) == FileOK(m, mac, u) /\ FreedOK(m2, mac) /\ Accounted(m, m2, u)

\* The file on disk as it will be loaded.
DiskOK(m, mac, u) ==
  mac # 0 => FileOK(m, mac, u) /\ \A pn \in DataPages : isFreePn(m, pn) <=> pn \notin u

IInv ==
  /\ MemOK(fpm, fpmFreed, pnMac, used) /\ MapOK(fpmComm)
  /\ slot \in {1, 2} /\ dhdr.slot \in 0 .. 2
  /\ DiskOK(Loaded, dhdr.mac, dused)

\* The page that allocPn finds: at the end of the file or before it, or behind the pair there.
LEMMA FoundPlace ==
  ASSUME NEW m, NEW m2, NEW mac, NEW u, MemOK(m, m2, mac, u)
  PROVE  LET pn == FoundPn(m).pn
         IN  /\ pn # NoWord
             /\ pn <= mac \/ (fpmPn(mac + 1) /\ pn <= mac + 2)
             /\ pn >= mac => pn % 2 = 1
             /\ mac # PnMax - 1 => pn < PnMax - 1
<1> DEFINE f == FoundPn(m)
<1>1. /\ f.pn \in DataPages /\ f.pn \in Pn /\ isFreePn(m, f.pn)
      /\ \A q \in DataPages : isFreePn(m, q) => f.pn <= q
  BY FoundRight DEF MemOK, FileOK
<1> HIDE DEF f
<1>2. /\ mac \in 3 .. PnMax - 1 /\ mac % 2 = 1 /\ mac \in Nat /\ PnMax \in Nat
      /\ f.pn \in Nat /\ f.pn < PnMax
  BY <1>1, Sizes DEF MemOK, FileOK, MacOK, Pn
<1>3. \A q \in DataPages : mac <= q => isFreePn(m, q)
  <2>1. SUFFICES ASSUME NEW q \in DataPages, mac <= q, ~isFreePn(m, q)
                 PROVE  FALSE
    OBVIOUS
  <2>2. q \in Pn /\ q \in Nat
    BY Sizes DEF DataPages, Pn
  <2>3. isFreePn(m2, q) \/ q \in u
    BY <2>1 DEF MemOK, Accounted
  <2>4. q < mac
    BY <2>2, <2>3 DEF MemOK, FreedOK, FileOK
  <2>5. QED
    BY <1>2, <2>1, <2>2, <2>4
<1>4. CASE mac \in DataPages
  <2>1. f.pn <= mac
    BY <1>1, <1>2, <1>3, <1>4
  <2>2. f.pn >= mac => f.pn = mac
    BY <1>2, <2>1
  <2>3. QED
    BY <1>2, <2>1, <2>2 DEF f, NoWord
<1>5. CASE fpmPn(mac + 1) /\ mac + 2 \in DataPages /\ mac + 2 < PnMax - 1 /\ mac \notin DataPages
  <2>1. f.pn <= mac + 2
    BY <1>1, <1>2, <1>3, <1>5
  <2>2. mac + 1 \notin DataPages
    BY <1>5 DEF DataPages
  <2>3. f.pn >= mac => f.pn = mac + 2
    <3>1. f.pn # mac /\ f.pn # mac + 1
      BY <1>1, <1>5, <2>2
    <3>2. QED
      BY <1>2, <2>1, <3>1
  <2>4. QED
    BY <1>2, <1>5, <2>1, <2>3 DEF f, NoWord
<1>6. QED
  BY <1>4, <1>5, EndPlace DEF MemOK, FileOK

-----------------------------------------------------------------------------
(* The properties follow from the invariant.                               *)

LEMMA InvReserves ==
  ASSUME IInv
  PROVE  ReservesHold
<1>1. MemOK(fpm, fpmFreed, pnMac, used) /\ slot \in {1, 2}
  BY DEF IInv
<1>2. /\ pnMac \in 3 .. PnMax - 1 /\ pnMac \in Nat /\ used \subseteq DataPages
      /\ \A p \in Pn : fpmPn(p) /\ isFreePn(fpm, p) => pnMac < p + Growth
      /\ \A q \in 0 .. 2 : ~isFreePn(fpm, q)
      /\ PnMax \in Nat /\ Growth \in Nat \ {0}
  BY <1>1, Sizes DEF MemOK, FileOK, MacOK, Reserved
<1>3. MapNeverFull
  BY <1>1, FoundPlace DEF MapNeverFull
<1>4. used \cap {pn \in Pn : fpmPn(pn) \/ pn < 3} = {}
  <2>1. SUFFICES ASSUME NEW pn \in used, pn \in Pn, fpmPn(pn) \/ pn < 3
                 PROVE  FALSE
    OBVIOUS
  <2>2. pn \in DataPages /\ pn \in Nat
    BY <1>2, <2>1, Sizes DEF Pn
  <2>3. pn >= 3 /\ ~fpmPn(pn)
    BY <2>2 DEF DataPages
  <2>4. QED
    BY <2>1, <2>2, <2>3
<1>5. ASSUME NEW p \in FpmPages(slot, pnMac)
      PROVE  p \in 0 .. pnMac - 1 /\ ~isFreePn(fpm, p) /\ p \notin used
  <2>1. PICK k \in 0 .. cpnFpm(pnMac) - 1 : p = slot + k * CbPg
    BY <1>5 DEF FpmPages
  <2>2. /\ p \in Pn /\ p \in 0 .. pnMac - 1
        /\ IF k = 0 THEN p = slot ELSE fpmPn(p) /\ pnMac >= p + Growth
    BY <1>1, <1>2, <2>1, MapPagePlace
  <2>3. p \in Nat
    BY <2>2
  <2>4. CASE k = 0
    <3>1. p \in 0 .. 2 /\ p < 3
      BY <1>1, <2>2, <2>4
    <3>2. QED
      BY <1>2, <1>4, <2>2, <3>1
  <2>5. CASE k # 0
    <3>1. ~isFreePn(fpm, p)
      BY <1>2, <2>2, <2>3, <2>5
    <3>2. QED
      BY <1>4, <2>2, <2>5, <3>1
  <2>6. QED
    BY <2>4, <2>5
<1>6. MapPagesReserved
  BY <1>4, <1>5 DEF MapPagesReserved
<1>7. GrowthAsserted
  <2> DEFINE pn == FoundPn(fpm).pn
  <2>1. /\ pn <= pnMac \/ (fpmPn(pnMac + 1) /\ pn <= pnMac + 2)
        /\ pnMac # PnMax - 1 => pn < PnMax - 1
    BY <1>1, FoundPlace
  <2>2. pn \in Nat
    <3>1. pn \in Pn
      BY <1>1, FoundRight DEF MemOK, FileOK
    <3>2. QED
      BY <3>1, Sizes DEF Pn
  <2> HIDE DEF pn
  <2>3. pn >= pnMac /\ pnMac < PnMax - 1 => pn < upnMacNew(pn)
    BY <1>2, <2>1, <2>2 DEF upnMacNew, Smaller, Larger
  <2>4. QED
    BY <2>1, <2>3 DEF GrowthAsserted, pn
<1>8. QED
  BY <1>3, <1>6, <1>7 DEF ReservesHold

LEMMA InvAccounted ==
  ASSUME IInv
  PROVE  DataPagesAccounted
BY DEF IInv, MemOK, Accounted, DataPagesAccounted

-----------------------------------------------------------------------------
(* What each operation does to the maps.                                   *)

LEMMA DataNat == DataPages \subseteq Pn /\ Pn \subseteq Nat /\ \A q \in DataPages : ~fpmPn(q) /\ q >= 3
BY Sizes DEF DataPages, Pn

\* Maps that have the same free page map pages and no fewer other pages free are reserved alike.
LEMMA ReservedKept ==
  ASSUME NEW m, Reserved(m), NEW m2,
         \A q \in Pn : isFreePn(m2, q) => isFreePn(m, q) \/ q \in DataPages,
         \A q \in Pn : isFreePn(m, q) => isFreePn(m2, q)
  PROVE  Reserved(m2)
<1>1. \A q \in 0 .. 2 : ~isFreePn(m2, q)
  <2>1. ASSUME NEW q \in 0 .. 2
        PROVE  q \in Pn /\ q \notin DataPages
    BY Sizes DEF Pn, DataPages
  <2>2. QED
    BY <2>1 DEF Reserved
<1>2. PnMax - 1 \in Pn
  BY LastPage, DataNat
<1>3. \A p \in Pn : fpmPn(p) => p \notin DataPages
  BY DataNat
<1>4. PairsLast(m2)
  <2>1. ASSUME NEW p \in Pn, fpmPn(p), p % CbPg = 2, isFreePn(m2, p)
        PROVE  isFreePn(m2, p - 1)
    <3>1. isFreePn(m, p) /\ p - 1 \in Pn
      BY <1>3, <2>1, PairFirst
    <3>2. QED
      BY <2>1, <3>1 DEF Reserved, PairsLast
  <2>2. ASSUME NEW p \in Pn, NEW q \in Pn, fpmPn(p), isFreePn(m2, p), p <= q
        PROVE  isFreePn(m2, q)
    <3>1. isFreePn(m, p)
      BY <1>3, <2>2
    <3>2. QED
      BY <2>2, <3>1 DEF Reserved, PairsLast
  <2>3. QED
    BY <2>1, <2>2 DEF PairsLast
<1>5. QED
  BY <1>1, <1>2, <1>4 DEF Reserved

\* allocPn gives the least free data page, in a file that has grown over it.
LEMMA PageTaken ==
  ASSUME NEW m, NEW m2, NEW mac, NEW u, MemOK(m, m2, mac, u), NEW f, f = FoundPn(m),
         NEW mac2, mac2 = IF f.pn < mac THEN mac ELSE Smaller(Larger(mac, f.pn) + Growth, PnMax - 1),
         f.pn < mac \/ mac2 > mac
  PROVE  LET a == AllocIn(f.map, f.pn)
         IN  /\ MemOK(a, m2, mac2, u \cup {f.pn})
             /\ f.pn \in DataPages /\ isFreePn(m, f.pn) /\ f.pn < PnMax - 1
             /\ \A q \in DataPages : isFreePn(m, q) => f.pn <= q
             /\ \A q \in DataPages : isFreePn(a, q) <=> isFreePn(m, q) /\ q # f.pn
             /\ mac2 = IF f.pn < mac THEN mac
                       ELSE IF f.pn + Growth < PnMax - 1 THEN f.pn + Growth ELSE PnMax - 1
<1> DEFINE pn == f.pn
           a == AllocIn(f.map, pn)
<1>1. /\ pn \in DataPages /\ pn \in Pn /\ isFreePn(m, pn)
      /\ \A q \in DataPages : isFreePn(m, q) => pn <= q
      /\ MapOK(f.map) /\ f.map.wFill = TRUE /\ Held(f.map, pn)
      /\ \A q \in DataPages : isFreePn(f.map, q) <=> isFreePn(m, q)
      /\ \A q \in Pn : isFreePn(f.map, q) => isFreePn(m, q)
      /\ PairsLast(f.map)
      /\ \A p \in Pn : fpmPn(p) /\ isFreePn(f.map, p) => pn < p
  BY FoundRight DEF MemOK, FileOK
<1>2. /\ pn >= mac => pn % 2 = 1
      /\ mac # PnMax - 1 => pn < PnMax - 1
  BY FoundPlace
<1>3. /\ mac \in 3 .. PnMax - 1 /\ mac % 2 = 1 /\ mac \in Nat /\ PnMax \in Nat
      /\ pn \in Nat /\ pn < PnMax /\ Growth \in Nat \ {0} /\ Growth % 2 = 0 /\ PnMax % 2 = 0
  BY <1>1, Sizes, FpmAssumption DEF MemOK, FileOK, MacOK, Pn
<1>4. /\ MapOK(a) /\ a.wFill = TRUE
      /\ \A q \in Pn : isFreePn(a, q) <=> isFreePn(f.map, q) /\ q # pn
  BY <1>1, Allocated
<1>5. mac2 = IF pn < mac THEN mac ELSE IF pn + Growth < PnMax - 1 THEN pn + Growth ELSE PnMax - 1
  BY <1>3 DEF Smaller, Larger
<1> HIDE DEF a, pn
<1>6. pn < PnMax - 1
  BY <1>2, <1>3, <1>5 DEF pn
<1>7. MacOK(mac2) /\ mac <= mac2 /\ pn < mac2 /\ mac2 \in Nat
  <2>1. CASE pn < mac
    BY <1>3, <1>5, <2>1 DEF MacOK
  <2>2. CASE ~(pn < mac)
    <3>1. pn % 2 = 1 /\ (pn + Growth) % 2 = 1 /\ (PnMax - 1) % 2 = 1
      BY <1>2, <1>3, <2>2
    <3>2. mac2 = pn + Growth \/ mac2 = PnMax - 1
      BY <1>5, <2>2
    <3>3. QED
      BY <1>3, <1>5, <1>6, <2>2, <3>1, <3>2 DEF MacOK
  <2>3. QED
    BY <2>1, <2>2
<1>8. ASSUME NEW p \in Pn, fpmPn(p), isFreePn(a, p)
      PROVE  mac2 < p + Growth
  <2>1. pn < p /\ isFreePn(m, p) /\ p \in Nat
    BY <1>1, <1>4, <1>8, DataNat
  <2>2. mac < p + Growth
    BY <1>8, <2>1 DEF MemOK, FileOK
  <2>3. QED
    BY <1>3, <1>5, <2>1, <2>2
<1>9. \A q \in DataPages : isFreePn(a, q) <=> isFreePn(m, q) /\ q # pn
  BY <1>1, <1>4, DataNat
<1>10. Reserved(a)
  <2>1. \A q \in 0 .. 2 : ~isFreePn(a, q)
    <3>1. \A q \in 0 .. 2 : q \in Pn
      BY Sizes DEF Pn
    <3>2. QED
      BY <1>1, <1>4, <3>1 DEF MemOK, FileOK, Reserved
  <2>2. isFreePn(a, PnMax - 1)
    BY <1>3, <1>6, <1>9, LastPage DEF MemOK, FileOK, Reserved
  <2>3. ASSUME NEW p \in Pn, fpmPn(p), p % CbPg = 2, isFreePn(a, p)
        PROVE  isFreePn(a, p - 1)
    <3>1. p - 1 \in Pn /\ fpmPn(p - 1) /\ p - 1 # pn
      BY <1>1, <2>3, PairFirst, DataNat
    <3>2. QED
      BY <1>1, <1>4, <2>3, <3>1 DEF PairsLast
  <2>4. ASSUME NEW p \in Pn, NEW q \in Pn, fpmPn(p), isFreePn(a, p), p <= q
        PROVE  isFreePn(a, q)
    <3>1. isFreePn(f.map, p) /\ pn < p /\ p \in Nat /\ q \in Nat
      BY <1>1, <1>4, <2>4, DataNat
    <3>2. q # pn
      BY <1>3, <2>4, <3>1
    <3>3. QED
      BY <1>1, <1>4, <2>4, <3>1, <3>2 DEF PairsLast
  <2>5. QED
    BY <2>1, <2>2, <2>3, <2>4 DEF Reserved, PairsLast
<1>11. u \cup {pn} \subseteq DataPages /\ \A p \in u \cup {pn} : p < mac2
  <2>1. u \subseteq DataPages /\ \A p \in u : p < mac
    BY DEF MemOK, FileOK
  <2>2. \A p \in u : p \in Nat
    BY <2>1, DataNat
  <2>3. QED
    BY <1>1, <1>3, <1>7, <2>1, <2>2
<1>12. FileOK(a, mac2, u \cup {pn})
  BY <1>4, <1>7, <1>8, <1>10, <1>11 DEF FileOK
<1>13. FreedOK(m2, mac2)
  <2>1. ASSUME NEW p \in Pn, isFreePn(m2, p)
        PROVE  p \in DataPages /\ p < mac2
    <3>1. p \in DataPages /\ p < mac /\ p \in Nat
      BY <2>1, DataNat DEF MemOK, FreedOK
    <3>2. QED
      BY <1>3, <1>7, <3>1
  <2>2. QED
    BY <2>1 DEF MemOK, FreedOK
<1>14. Accounted(a, m2, u \cup {pn})
  <2>1. ASSUME NEW q \in DataPages
        PROVE  IF isFreePn(a, q) THEN ~isFreePn(m2, q) /\ q \notin u \cup {pn}
                                 ELSE isFreePn(m2, q) <=> q \notin u \cup {pn}
    <3>1. IF isFreePn(m, q) THEN ~isFreePn(m2, q) /\ q \notin u
                            ELSE isFreePn(m2, q) <=> q \notin u
      BY DEF MemOK, Accounted
    <3>2. CASE q = pn
      BY <1>1, <1>9, <3>1, <3>2
    <3>3. CASE q # pn
      BY <1>9, <3>1, <3>3
    <3>4. QED
      BY <3>2, <3>3
  <2>2. QED
    BY <2>1 DEF Accounted
<1>15. QED
  BY <1>1, <1>5, <1>6, <1>9, <1>12, <1>13, <1>14 DEF MemOK, a, pn

\* When the file cannot grow the page is given back, and the pair before it stays reserved.
LEMMA PageNotTaken ==
  ASSUME NEW m, NEW m2, NEW mac, NEW u, MemOK(m, m2, mac, u), NEW f, f = FoundPn(m)
  PROVE  LET b == FreeIn(AllocIn(f.map, f.pn), f.pn)
         IN  /\ MemOK(b, m2, mac, u)
             /\ \A q \in DataPages : isFreePn(b, q) <=> isFreePn(m, q)
<1> DEFINE pn == f.pn
           a == AllocIn(f.map, pn)
           b == FreeIn(a, pn)
<1>1. /\ pn \in DataPages /\ pn \in Pn /\ isFreePn(m, pn)
      /\ MapOK(f.map) /\ f.map.wFill = TRUE /\ Held(f.map, pn)
      /\ \A q \in DataPages : isFreePn(f.map, q) <=> isFreePn(m, q)
      /\ \A q \in Pn : isFreePn(f.map, q) => isFreePn(m, q)
      /\ PairsLast(f.map)
  BY FoundRight DEF MemOK, FileOK
<1>2. /\ MapOK(a) /\ a.wFill = TRUE /\ Held(a, pn)
      /\ \A q \in Pn : isFreePn(a, q) <=> isFreePn(f.map, q) /\ q # pn
  BY <1>1, Allocated DEF Held
<1> HIDE DEF a
<1>3. /\ MapOK(b) /\ b.wFill = TRUE
      /\ \A q \in Pn : isFreePn(b, q) <=> isFreePn(a, q) \/ q = pn
  BY <1>1, <1>2, Freed
<1> HIDE DEF b, pn
<1>4. \A q \in Pn : isFreePn(b, q) <=> isFreePn(f.map, q)
  BY <1>1, <1>2, <1>3
<1>5. \A q \in DataPages : isFreePn(b, q) <=> isFreePn(m, q)
  BY <1>1, <1>4, DataNat
<1>6. Reserved(b)
  <2>1. \A q \in 0 .. 2 : ~isFreePn(b, q)
    <3>1. \A q \in 0 .. 2 : q \in Pn
      BY Sizes DEF Pn
    <3>2. QED
      BY <1>1, <1>4, <3>1 DEF MemOK, FileOK, Reserved
  <2>2. isFreePn(b, PnMax - 1)
    BY <1>5, LastPage DEF MemOK, FileOK, Reserved
  <2>3. \A p \in Pn : fpmPn(p) /\ p % CbPg = 2 => p - 1 \in Pn
    BY PairFirst
  <2>4. PairsLast(b)
    BY <1>1, <1>4, <2>3 DEF PairsLast
  <2>5. QED
    BY <2>1, <2>2, <2>4 DEF Reserved
<1>7. FileOK(b, mac, u)
  BY <1>1, <1>3, <1>4, <1>6 DEF MemOK, FileOK
<1>8. Accounted(b, m2, u)
  BY <1>5 DEF MemOK, Accounted
<1>9. QED
  BY <1>5, <1>7, <1>8 DEF MemOK, a, b, pn

\* freePn of a page that was free at the last commit.
LEMMA PageFreedNow ==
  ASSUME NEW m, NEW m2, NEW mac, NEW u, MemOK(m, m2, mac, u), NEW pn \in u
  PROVE  /\ MemOK(FreeIn(m, pn), m2, mac, u \ {pn})
         /\ pn \in DataPages /\ ~isFreePn(m, pn) /\ ~isFreePn(m2, pn)
         /\ \A q \in DataPages : isFreePn(FreeIn(m, pn), q) <=> isFreePn(m, q) \/ q = pn
<1> DEFINE b == FreeIn(m, pn)
<1>1. /\ pn \in DataPages /\ pn \in Pn /\ MapOK(m) /\ m.wFill = TRUE /\ Reserved(m)
  BY DataNat DEF MemOK, FileOK
<1>2. ~isFreePn(m, pn) /\ ~isFreePn(m2, pn)
  BY <1>1 DEF MemOK, Accounted
<1>3. Held(m, pn)
  BY <1>1, <1>2 DEF Held, isFreePn
<1>4. /\ MapOK(b) /\ b.wFill = TRUE
      /\ \A q \in Pn : isFreePn(b, q) <=> isFreePn(m, q) \/ q = pn
  BY <1>1, <1>3, Freed
<1> HIDE DEF b
<1>5. Reserved(b)
  BY <1>1, <1>4, ReservedKept
<1>6. \A p \in Pn : fpmPn(p) /\ isFreePn(b, p) => isFreePn(m, p)
  BY <1>1, <1>4, DataNat
<1>7. FileOK(b, mac, u \ {pn})
  BY <1>4, <1>5, <1>6 DEF MemOK, FileOK
<1>8. ASSUME NEW q \in DataPages
      PROVE  IF isFreePn(b, q) THEN ~isFreePn(m2, q) /\ q \notin u \ {pn}
                               ELSE isFreePn(m2, q) <=> q \notin u \ {pn}
  <2>1. IF isFreePn(m, q) THEN ~isFreePn(m2, q) /\ q \notin u
                          ELSE isFreePn(m2, q) <=> q \notin u
    BY DEF MemOK, Accounted
  <2>2. isFreePn(b, q) <=> isFreePn(m, q) \/ q = pn
    BY <1>4, DataNat
  <2>3. CASE q = pn
    BY <1>2, <2>2, <2>3
  <2>4. CASE q # pn
    BY <2>1, <2>2, <2>4
  <2>5. QED
    BY <2>3, <2>4
<1>9. Accounted(b, m2, u \ {pn})
  BY <1>8 DEF Accounted
<1>10. \A q \in DataPages : isFreePn(b, q) <=> isFreePn(m, q) \/ q = pn
  BY <1>4, DataNat
<1>11. QED
  BY <1>1, <1>2, <1>7, <1>9, <1>10 DEF MemOK, b

\* freePn of a page that the committed file uses.
LEMMA PageFreedLater ==
  ASSUME NEW m, NEW m2, NEW mac, NEW u, MemOK(m, m2, mac, u), NEW pn \in u
  PROVE  LET b == FreeIn(fEnsureRoom(m2, pn + 1), pn)
         IN  /\ MemOK(m, b, mac, u \ {pn})
             /\ \A q \in DataPages : isFreePn(b, q) <=> isFreePn(m2, q) \/ q = pn
<1> DEFINE r == fEnsureRoom(m2, pn + 1)
           b == FreeIn(r, pn)
<1>1. /\ pn \in DataPages /\ pn \in Pn /\ MapOK(m2) /\ m2.wFill = FALSE /\ pn < mac
  BY DataNat DEF MemOK, FileOK, FreedOK
<1>2. pn + 1 \in 0 .. PnMax /\ pn < pn + 1
  BY <1>1, Sizes DEF Pn
<1>3. ~isFreePn(m, pn) /\ ~isFreePn(m2, pn)
  BY <1>1 DEF MemOK, Accounted
<1>4. /\ MapOK(r) /\ r.wFill = FALSE /\ Held(r, pn)
      /\ \A q \in Pn : isFreePn(r, q) <=> isFreePn(m2, q)
  BY <1>1, <1>2, Room
<1> HIDE DEF r
<1>5. /\ MapOK(b) /\ b.wFill = FALSE
      /\ \A q \in Pn : isFreePn(b, q) <=> isFreePn(r, q) \/ q = pn
  BY <1>1, <1>4, Freed
<1> HIDE DEF b
<1>6. FreedOK(b, mac)
  BY <1>1, <1>4, <1>5 DEF MemOK, FreedOK
<1>7. FileOK(m, mac, u \ {pn})
  BY DEF MemOK, FileOK
<1>8. \A q \in DataPages : isFreePn(b, q) <=> isFreePn(m2, q) \/ q = pn
  BY <1>4, <1>5, DataNat
<1>9. ASSUME NEW q \in DataPages
      PROVE  IF isFreePn(m, q) THEN ~isFreePn(b, q) /\ q \notin u \ {pn}
                               ELSE isFreePn(b, q) <=> q \notin u \ {pn}
  <2>1. IF isFreePn(m, q) THEN ~isFreePn(m2, q) /\ q \notin u
                          ELSE isFreePn(m2, q) <=> q \notin u
    BY DEF MemOK, Accounted
  <2>2. isFreePn(b, q) <=> isFreePn(m2, q) \/ q = pn
    BY <1>8
  <2>3. CASE q = pn
    BY <1>3, <2>2, <2>3
  <2>4. CASE q # pn
    BY <2>1, <2>2, <2>4
  <2>5. QED
    BY <2>3, <2>4
<1>10. Accounted(m, b, u \ {pn})
  BY <1>9 DEF Accounted
<1>11. QED
  BY <1>6, <1>7, <1>8, <1>10 DEF MemOK, b, r

\* The map that Commit makes and writes.
Joined(m, m2, mac) == fEnsureRoom(add(m, m2), cpnFpm(mac) * CbPg * CharBit)

LEMMA MapsJoined ==
  ASSUME NEW m, NEW m2, NEW mac, NEW u, MemOK(m, m2, mac, u)
  PROVE  LET c == Joined(m, m2, mac)
         IN  /\ MemOK(c, clearAll(m2), mac, u)
             /\ \A q \in Pn : isFreePn(c, q) <=> isFreePn(m, q) \/ isFreePn(m2, q)
             /\ \A q \in DataPages : isFreePn(c, q) <=> q \notin u
             /\ cpnFpm(mac) * cwPg <= Len(c.rgw)
<1> DEFINE a == add(m, m2)
           n == cpnFpm(mac)
           lim == n * CbPg * CharBit
           c == Joined(m, m2, mac)
           z == clearAll(m2)
<1>1. MapOK(m) /\ MapOK(m2) /\ m.wFill = TRUE /\ Reserved(m) /\ mac \in 3 .. PnMax - 1
  BY DEF MemOK, FileOK, FreedOK, MacOK
<1>2. /\ MapOK(a) /\ a.wFill = TRUE
      /\ \A q \in Pn : isFreePn(a, q) <=> isFreePn(m, q) \/ isFreePn(m2, q)
  BY <1>1, Added
<1>3. n \in Nat /\ PgBits * n <= PnMax /\ PgBits * n \in Nat
  BY <1>1, MapCovers, Sizes
<1>4. lim = PgBits * n /\ lim = BPW * (n * cwPg) /\ n * cwPg \in Nat
  <2> HIDE DEF n
  <2>1. lim = PgBits * n
    BY <1>3, FpmAssumption DEF PgBits
  <2>2. PgBits * n = BPW * (n * cwPg) /\ n * cwPg \in Nat
    BY <1>3, Sizes
  <2>3. QED
    BY <2>1, <2>2
<1> HIDE DEF a
<1>5. lim \in 0 .. PnMax
  BY <1>3, <1>4, Sizes
<1>6. c = fEnsureRoom(a, lim)
  BY DEF Joined, a
<1> HIDE DEF lim, n, c
<1>7. /\ MapOK(c) /\ c.wFill = TRUE
      /\ \A q \in Pn : isFreePn(c, q) <=> isFreePn(a, q)
      /\ n * cwPg <= Len(c.rgw)
  BY <1>2, <1>4, <1>5, <1>6, Room
<1>8. \A q \in Pn : isFreePn(c, q) <=> isFreePn(m, q) \/ isFreePn(m2, q)
  BY <1>2, <1>7
<1>9. /\ MapOK(z) /\ z.wFill = FALSE /\ \A q \in Pn : ~isFreePn(z, q)
  BY <1>1, Cleared
<1> HIDE DEF z
<1>10. \A p \in Pn : isFreePn(m2, p) => p \in DataPages
  BY DEF MemOK, FreedOK
<1>11. Reserved(c)
  BY <1>1, <1>8, <1>10, ReservedKept
<1>12. FileOK(c, mac, u)
  BY <1>7, <1>8, <1>10, <1>11, DataNat DEF MemOK, FileOK
<1>13. \A q \in DataPages : isFreePn(c, q) <=> q \notin u
  BY <1>8, DataNat DEF MemOK, Accounted
<1>14. FreedOK(z, mac)
  BY <1>9 DEF FreedOK
<1>15. Accounted(c, z, u)
  BY <1>9, <1>13, DataNat DEF Accounted
<1>16. QED
  BY <1>7, <1>8, <1>12, <1>13, <1>14, <1>15 DEF MemOK, c, z, n

-----------------------------------------------------------------------------
(* What is written is what is loaded.                                      *)

LoadedFrom(d, h) ==
  [EmptyFPM(TRUE) EXCEPT !.rgw =
     [i \in 1 .. cpnFpm(h.mac) * cwPg |->
        d[h.slot + ((i - 1) \div cwPg) * CbPg][((i - 1) % cwPg) + 1]]]

LEMMA LoadedNow == Loaded = LoadedFrom(dpg, dhdr)
BY DEF Loaded, LoadedFill, LoadedFrom

LEMMA LoadedNext == Loaded' = LoadedFrom(dpg', dhdr')
BY DEF Loaded, LoadedFill, LoadedFrom

\* The words of the map come back in their order.
LEMMA WordsBack ==
  ASSUME NEW c, MapOK(c), NEW mac \in 3 .. PnMax - 1, cpnFpm(mac) * cwPg <= Len(c.rgw),
         NEW s \in {1, 2}, NEW d,
         \A p \in FpmPages(s, mac) : d[p] = FpmPage(c, (p - s) \div CbPg),
         NEW i \in 1 .. cpnFpm(mac) * cwPg
  PROVE  d[s + ((i - 1) \div cwPg) * CbPg][((i - 1) % cwPg) + 1] = c.rgw[i]
<1> DEFINE n == cpnFpm(mac)
           k == (i - 1) \div cwPg
           r == (i - 1) % cwPg
           p == s + k * CbPg
<1>1. n \in Nat \ {0} /\ cwPg \in Nat \ {0} /\ n * cwPg \in Nat
  BY MapCovers, Sizes
<1>2. i \in Nat /\ i >= 1 /\ i - 1 \in Nat /\ i - 1 < n * cwPg
  BY <1>1
<1>3. k \in Nat /\ r \in 0 .. cwPg - 1 /\ i - 1 = (cwPg * k) + r
  BY <1>1, <1>2, DivMod
<1> HIDE DEF n, k, r
<1>4. k < n
  <2>1. SUFFICES ASSUME n <= k
                 PROVE  FALSE
    BY <1>1, <1>3
  <2>2. cwPg * n <= cwPg * k
    BY <1>1, <1>3, <2>1, MulMonotone
  <2>3. QED
    BY <1>1, <1>2, <1>3, <2>2
<1>5. k \in 0 .. n - 1
  BY <1>1, <1>3, <1>4
<1>6. p \in FpmPages(s, mac)
  BY <1>5 DEF FpmPages, n
<1>7. (p - s) \div CbPg = k
  BY <1>5, MapPagePlace DEF n
<1>8. d[p] = SubSeq(c.rgw, (k * cwPg) + 1, (k + 1) * cwPg)
  BY <1>6, <1>7 DEF FpmPage
<1>9. /\ k * cwPg \in Nat /\ (k + 1) * cwPg = (k * cwPg) + cwPg /\ i = (k * cwPg) + r + 1
      /\ (k + 1) * cwPg <= Len(c.rgw) /\ c.rgw \in Seq(SUBSET Bits) /\ Len(c.rgw) \in Nat
  <2>1. (cwPg * k) + cwPg <= cwPg * n
    BY <1>1, <1>3, <1>4, MulGap
  <2>2. n * cwPg <= Len(c.rgw) /\ c.rgw \in Seq(SUBSET Bits) /\ Len(c.rgw) \in Nat
    BY MapParts DEF n
  <2>3. QED
    BY <1>1, <1>2, <1>3, <2>1, <2>2
<1> DEFINE a == k * cwPg
           q == c.rgw
<1>10. a \in Nat /\ d[p] = SubSeq(q, a + 1, a + cwPg) /\ i = a + r + 1
  BY <1>8, <1>9
<1>11. q \in Seq(SUBSET Bits) /\ a + cwPg <= Len(q) /\ Len(q) \in Nat
  BY <1>9
<1> HIDE DEF p, a, q
<1>12. SubSeq(q, a + 1, a + cwPg)[r + 1] = q[i]
  <2>1. r \in Nat /\ r + 1 \in 1 .. cwPg /\ (r + 1) + (a + 1) - 1 = i
    BY <1>1, <1>3, <1>10
  <2>2. \A j \in 1 .. cwPg : SubSeq(q, a + 1, a + cwPg)[j] = q[j + (a + 1) - 1]
    BY <1>1, <1>10, <1>11
  <2>3. QED
    BY <2>1, <2>2
<1>13. QED
  BY <1>10, <1>12 DEF p, k, r, q

LEMMA LoadedRight ==
  ASSUME NEW c, NEW mac, NEW u, FileOK(c, mac, u),
         \A q \in DataPages : isFreePn(c, q) <=> q \notin u,
         cpnFpm(mac) * cwPg <= Len(c.rgw),
         NEW s \in {1, 2}, NEW d,
         \A p \in FpmPages(s, mac) : d[p] = FpmPage(c, (p - s) \div CbPg)
  PROVE  LET l == LoadedFrom(d, [slot |-> s, mac |-> mac])
         IN  FileOK(l, mac, u) /\ \A q \in DataPages : isFreePn(l, q) <=> q \notin u
<1> DEFINE h == [slot |-> s, mac |-> mac]
           l == LoadedFrom(d, h)
           W == cpnFpm(mac) * cwPg
           w == [i \in 1 .. W |-> d[s + ((i - 1) \div cwPg) * CbPg][((i - 1) % cwPg) + 1]]
<1>1. MapOK(c) /\ c.wFill = TRUE /\ Reserved(c) /\ mac \in 3 .. PnMax - 1 /\ mac \in Nat
  BY DEF FileOK, MacOK
<1>2. W \in Nat /\ W <= Len(c.rgw) /\ W <= IwMac /\ mac <= BPW * W
  <2>1. cpnFpm(mac) \in Nat /\ mac <= PgBits * cpnFpm(mac)
    BY <1>1, MapCovers
  <2> DEFINE n == cpnFpm(mac)
  <2>2. n \in Nat /\ cwPg \in Nat /\ BPW \in Nat /\ PgBits = BPW * cwPg
    BY <2>1, Sizes
  <2> HIDE DEF n
  <2>3. PgBits * n = BPW * (n * cwPg) /\ n * cwPg \in Nat
    BY <2>2
  <2>4. W \in Nat /\ mac <= BPW * W
    BY <2>1, <2>3 DEF n
  <2>5. Len(c.rgw) \in Nat /\ Len(c.rgw) <= IwMac /\ IwMac \in Nat /\ W <= Len(c.rgw)
    BY <1>1, MapParts, Sizes DEF MapOK
  <2> HIDE DEF W
  <2>6. QED
    BY <2>4, <2>5
<1>3. l = [EmptyFPM(TRUE) EXCEPT !.rgw = w]
  BY DEF LoadedFrom
<1>4. \A i \in 1 .. W : w[i] = c.rgw[i]
  BY <1>1, WordsBack
<1>5. w \in Seq(SUBSET Bits) /\ Len(w) = W
  <2>1. \A i \in 1 .. W : c.rgw[i] \in SUBSET Bits
    BY <1>1, <1>2, MapParts
  <2>2. \A i \in 1 .. W : w[i] \in SUBSET Bits
    BY <1>4, <2>1
  <2> HIDE DEF W
  <2>3. w = [i \in 1 .. W |-> w[i]]
    OBVIOUS
  <2> HIDE DEF w
  <2>4. QED
    BY <1>2, <2>2, <2>3
<1> HIDE DEF w, W, l
<1>6. l.rgw = w /\ l.wFill = TRUE /\ l.iwRover = 0 /\ l \in MapType
  <2> DEFINE e == EmptyFPM(TRUE)
  <2>1. e \in MapType /\ e.wFill = TRUE /\ e.iwRover = 0
    BY DEF EmptyFPM, MakeFPM, MapType
  <2>2. l = [e EXCEPT !.rgw = w]
    BY <1>3
  <2> HIDE DEF e
  <2>3. QED
    BY <1>5, <2>1, <2>2 DEF MapType
<1>7. MapOK(l)
  BY <1>2, <1>5, <1>6 DEF MapOK
<1>8. ASSUME NEW q \in Pn, mppniw(q) < W
      PROVE  isFreePn(l, q) <=> isFreePn(c, q)
  <2>1. mppniw(q) + 1 \in 1 .. W /\ mppniw(q) < Len(c.rgw) /\ mppniw(q) < Len(w)
    BY <1>1, <1>2, <1>5, <1>8, PlaceOf, MapParts
  <2>2. l.rgw[mppniw(q) + 1] = c.rgw[mppniw(q) + 1]
    BY <1>4, <1>6, <2>1
  <2>3. QED
    BY <1>6, <2>1, <2>2 DEF isFreePn
<1>9. ASSUME NEW q \in Pn, ~(mppniw(q) < W)
      PROVE  isFreePn(l, q) /\ mac <= q
  <2>1. isFreePn(l, q)
    BY <1>5, <1>6, <1>9 DEF isFreePn
  <2>2. BPW * W <= BPW * mppniw(q)
    <3>1. mppniw(q) \in Nat /\ W \in Nat /\ W <= mppniw(q) /\ BPW \in Nat
      BY <1>2, <1>9, PlaceOf, Sizes
    <3>2. QED
      BY <3>1, MulMonotone
  <2>3. /\ mppnbit(q) \in Nat /\ q = (BPW * mppniw(q)) + mppnbit(q) /\ mppniw(q) \in Nat
        /\ BPW \in Nat
    BY PlaceOf, Sizes DEF Bits
  <2>4. QED
    BY <1>1, <1>2, <2>1, <2>2, <2>3
<1>10. \A q \in Pn : isFreePn(c, q) => isFreePn(l, q)
  BY <1>8, <1>9
<1>11. \A q \in Pn : isFreePn(l, q) => isFreePn(c, q) \/ (~(mppniw(q) < W) /\ mac <= q)
  BY <1>8, <1>9
<1>12. \A q \in 0 .. 2 : ~isFreePn(l, q)
  <2>1. ASSUME NEW q \in 0 .. 2
        PROVE  q \in Pn /\ ~(mac <= q)
    BY <1>1, Sizes DEF Pn
  <2>2. QED
    BY <1>1, <1>11, <2>1 DEF Reserved
<1>13. isFreePn(l, PnMax - 1)
  BY <1>1, <1>10, LastPage, DataNat DEF Reserved
<1>14. ASSUME NEW p \in Pn, fpmPn(p), p % CbPg = 2, isFreePn(l, p)
       PROVE  isFreePn(l, p - 1)
  <2>1. p - 1 \in Pn /\ fpmPn(p - 1) /\ (p - 1) % CbPg = 1 /\ p \in Nat
    BY <1>14, PairFirst, DataNat
  <2>2. CASE isFreePn(c, p)
    BY <1>1, <1>10, <1>14, <2>1, <2>2 DEF Reserved, PairsLast
  <2>3. CASE ~(mppniw(p) < W)
    <3>1. (p - 1) + 1 = p
      BY <2>1
    <3>2. mppniw(p) = mppniw(p - 1)
      BY <2>1, <3>1, PairPlace
    <3>3. QED
      BY <1>9, <2>1, <2>3, <3>2
  <2>4. QED
    BY <1>11, <1>14, <2>2, <2>3
<1>15. ASSUME NEW p \in Pn, NEW q \in Pn, fpmPn(p), isFreePn(l, p), p <= q
       PROVE  isFreePn(l, q)
  <2>1. CASE isFreePn(c, p)
    BY <1>1, <1>10, <1>15, <2>1 DEF Reserved, PairsLast
  <2>2. CASE ~(mppniw(p) < W)
    <3>1. ~(mppniw(q) < mppniw(p))
      BY <1>15, LaterWord, DataNat
    <3>2. ~(mppniw(q) < W)
      BY <1>2, <2>2, <3>1, PlaceOf
    <3>3. QED
      BY <1>9, <3>2
  <2>3. QED
    BY <1>11, <1>15, <2>1, <2>2
<1>16. Reserved(l)
  BY <1>12, <1>13, <1>14, <1>15 DEF Reserved, PairsLast
<1>17. ASSUME NEW p \in Pn, fpmPn(p), isFreePn(l, p)
       PROVE  mac < p + Growth
  <2>1. CASE isFreePn(c, p)
    BY <1>17, <2>1 DEF FileOK
  <2>2. CASE mac <= p
    BY <1>1, <2>2, Sizes, DataNat
  <2>3. QED
    BY <1>11, <1>17, <2>1, <2>2
<1>18. FileOK(l, mac, u)
  BY <1>6, <1>7, <1>16, <1>17 DEF FileOK
<1>19. ASSUME NEW q \in DataPages
       PROVE  isFreePn(l, q) <=> q \notin u
  <2>1. q \in Pn /\ q \in Nat
    BY DataNat
  <2>2. CASE isFreePn(c, q)
    BY <1>10, <2>1, <2>2
  <2>3. CASE ~isFreePn(c, q)
    <3>1. q \in u /\ q < mac
      BY <2>3 DEF FileOK
    <3>2. QED
      BY <1>1, <1>11, <2>1, <2>3, <3>1
  <2>4. QED
    BY <2>2, <2>3
<1>20. QED
  BY <1>18, <1>19 DEF l

-----------------------------------------------------------------------------
(* The initial state.                                                      *)

LEMMA InitInv ==
  ASSUME Init
  PROVE  /\ IInv
         /\ \A q \in DataPages : isFreePn(fpm, q) /\ ~isFreePn(fpmFreed, q) /\ isFreePn(fpmComm, q)
<1> DEFINE e == fEnsureRoom(EmptyFPM(TRUE), 3)
           a == AllocIn(e, 0)
           b == AllocIn(a, 1)
           c == AllocIn(b, 2)
<1>1. /\ fpm = c /\ fpmFreed = EmptyFPM(FALSE) /\ fpmComm = EmptyFPM(TRUE)
      /\ slot = 1 /\ pnMac = 3 /\ dhdr.slot = 0 /\ dhdr.mac = 0 /\ used = {}
  BY DEF Init
<1>2. /\ 0 \in Pn /\ 1 \in Pn /\ 2 \in Pn /\ 3 \in 0 .. PnMax /\ Pn \subseteq Nat
  BY Sizes DEF Pn
<1>3. /\ MapOK(e) /\ e.wFill = TRUE /\ \A q \in Pn : isFreePn(e, q)
      /\ Held(e, 0) /\ Held(e, 1) /\ Held(e, 2)
  <2>1. MapOK(EmptyFPM(TRUE)) /\ EmptyFPM(TRUE).wFill = TRUE /\ \A q \in Pn : isFreePn(EmptyFPM(TRUE), q)
    BY Empty
  <2>2. /\ MapOK(e) /\ e.wFill = TRUE /\ \A q \in Pn : isFreePn(e, q)
        /\ \A q \in Pn : q < 3 => Held(e, q)
    BY <1>2, <2>1, Room
  <2> HIDE DEF e
  <2>3. QED
    BY <1>2, <2>2
<1> HIDE DEF e
<1>4. /\ MapOK(a) /\ a.wFill = TRUE /\ Len(a.rgw) = Len(e.rgw)
      /\ \A q \in Pn : isFreePn(a, q) <=> isFreePn(e, q) /\ q # 0
  BY <1>2, <1>3, Allocated
<1>5. Held(a, 1) /\ Held(a, 2)
  BY <1>3, <1>4 DEF Held
<1> HIDE DEF a
<1>6. /\ MapOK(b) /\ b.wFill = TRUE /\ Len(b.rgw) = Len(a.rgw)
      /\ \A q \in Pn : isFreePn(b, q) <=> isFreePn(a, q) /\ q # 1
  BY <1>2, <1>4, <1>5, Allocated
<1>7. Held(b, 2)
  BY <1>5, <1>6 DEF Held
<1> HIDE DEF b
<1>8. /\ MapOK(c) /\ c.wFill = TRUE
      /\ \A q \in Pn : isFreePn(c, q) <=> isFreePn(b, q) /\ q # 2
  BY <1>2, <1>6, <1>7, Allocated
<1> HIDE DEF c
<1>9. \A q \in Pn : isFreePn(c, q) <=> q >= 3
  BY <1>2, <1>3, <1>4, <1>6, <1>8
<1>10. Reserved(c)
  <2>1. PairsLast(c)
    <3>1. ASSUME NEW p \in Pn, fpmPn(p), p % CbPg = 2
          PROVE  isFreePn(c, p - 1)
      <4>1. p - 1 \in Pn /\ fpmPn(p - 1)
        BY <3>1, PairFirst
      <4>2. QED
        BY <1>9, <4>1 DEF fpmPn, cpnBigMsfReserved
    <3>2. ASSUME NEW p \in Pn, NEW q \in Pn, fpmPn(p), p <= q
          PROVE  isFreePn(c, q)
      BY <1>2, <1>9, <3>2 DEF fpmPn, cpnBigMsfReserved
    <3>3. QED
      BY <3>1, <3>2 DEF PairsLast
  <2>2. PnMax - 1 \in Pn /\ PnMax - 1 >= 3
    BY Sizes DEF Pn
  <2>3. \A q \in 0 .. 2 : q \in Pn /\ ~(q >= 3)
    BY Sizes DEF Pn
  <2>4. QED
    BY <1>9, <2>1, <2>2, <2>3 DEF Reserved
<1>11. FileOK(c, 3, {})
  <2>1. MacOK(3)
    BY Sizes DEF MacOK
  <2>2. ASSUME NEW p \in Pn, fpmPn(p)
        PROVE  3 < p + Growth
    <3>1. p \in Nat /\ p >= 3 /\ Growth \in Nat \ {0}
      BY <2>2, <1>2, Sizes DEF fpmPn, cpnBigMsfReserved
    <3>2. QED
      BY <3>1
  <2>3. QED
    BY <1>8, <1>10, <2>1, <2>2 DEF FileOK
<1>12. FreedOK(EmptyFPM(FALSE), 3) /\ \A q \in Pn : ~isFreePn(EmptyFPM(FALSE), q)
  <2>1. /\ MapOK(EmptyFPM(FALSE)) /\ EmptyFPM(FALSE).wFill = FALSE
        /\ \A q \in Pn : ~isFreePn(EmptyFPM(FALSE), q)
    BY Empty
  <2>2. QED
    BY <2>1 DEF FreedOK
<1>13. MapOK(EmptyFPM(TRUE)) /\ \A q \in Pn : isFreePn(EmptyFPM(TRUE), q)
  BY Empty
<1>14. \A q \in DataPages : isFreePn(c, q) /\ q \in Pn
  BY <1>9, DataNat
<1>15. Accounted(c, EmptyFPM(FALSE), {})
  BY <1>12, <1>14 DEF Accounted
<1>16. MemOK(fpm, fpmFreed, pnMac, used)
  BY <1>1, <1>11, <1>12, <1>15 DEF MemOK
<1>17. IInv
  <2>1. DiskOK(Loaded, dhdr.mac, dused)
    BY <1>1 DEF DiskOK
  <2>2. slot \in {1, 2} /\ dhdr.slot \in 0 .. 2
    BY <1>1
  <2>3. MapOK(fpmComm)
    BY <1>1, <1>13
  <2>4. QED
    BY <1>16, <2>1, <2>2, <2>3 DEF IInv
<1>18. QED
  BY <1>1, <1>12, <1>13, <1>14, <1>17

-----------------------------------------------------------------------------
(* Every step keeps the invariant, and is a step of the set or none.       *)

\* The data pages that a map has free, as module PageSet sees it.
DataFree(m) == FreeSet(m) \cap DataPages

LEMMA DataFreeIs ==
  ASSUME NEW m
  PROVE  /\ DataFree(m) \subseteq DataPages
         /\ \A q \in DataPages : q \in DataFree(m) <=> isFreePn(m, q)
BY DataNat DEF DataFree, FreeSet

LEMMA DataFreeSame ==
  ASSUME NEW m, NEW m2, \A q \in DataPages : isFreePn(m, q) <=> isFreePn(m2, q)
  PROVE  DataFree(m) = DataFree(m2)
BY DataFreeIs

LEMMA DataFreeOfOne ==
  ASSUME NEW l
  PROVE  UNION {FreeSet(m) \cap DataPages : m \in {l}} = DataFree(l)
BY DEF DataFree

\* What is on disk changes with the disk only.
LEMMA DiskKept ==
  ASSUME DiskOK(Loaded, dhdr.mac, dused), UNCHANGED <<dpg, dhdr, dused>>
  PROVE  DiskOK(Loaded', dhdr'.mac, dused') /\ Loaded' = Loaded /\ OnDisk' = OnDisk
<1>1. Loaded' = Loaded
  BY LoadedNow, LoadedNext
<1>2. OnDisk' = OnDisk
  BY <1>1 DEF OnDisk
<1>3. QED
  BY <1>1, <1>2

LEMMA AllocKeeps ==
  ASSUME IInv, allocPn
  PROVE  /\ IInv'
         /\ \/ PageSets!Alloc
            \/ UNCHANGED PageSets!setVars
<1> DEFINE f == FoundPn(fpm)
           pn == f.pn
<1>1. /\ MemOK(fpm, fpmFreed, pnMac, used) /\ MapOK(fpmComm)
      /\ slot \in {1, 2} /\ dhdr.slot \in 0 .. 2
      /\ DiskOK(Loaded, dhdr.mac, dused)
  BY DEF IInv
<1>2. /\ UNCHANGED <<fpmFreed, fpmComm, slot, dpg, dhdr, dused>>
      /\ \/ /\ pn < pnMac \/ upnMacNew(pn) > pnMac
            /\ fpm' = AllocIn(f.map, pn)
            /\ pnMac' = IF pn < pnMac THEN pnMac ELSE upnMacNew(pn)
            /\ used' = used \cup {pn}
         \/ /\ fpm' = FreeIn(AllocIn(f.map, pn), pn)
            /\ UNCHANGED <<pnMac, used>>
  BY DEF allocPn
<1>3. DiskOK(Loaded', dhdr'.mac, dused') /\ Loaded' = Loaded /\ OnDisk' = OnDisk
  BY <1>1, <1>2, DiskKept
<1>4. ASSUME MemOK(fpm', fpmFreed', pnMac', used')
      PROVE  IInv'
  <2>1. MapOK(fpmComm') /\ slot' \in {1, 2} /\ dhdr'.slot \in 0 .. 2
    BY <1>1, <1>2
  <2>2. QED
    BY <1>3, <1>4, <2>1 DEF IInv
<1>5. CASE /\ pn < pnMac \/ upnMacNew(pn) > pnMac
           /\ fpm' = AllocIn(f.map, pn)
           /\ pnMac' = IF pn < pnMac THEN pnMac ELSE upnMacNew(pn)
           /\ used' = used \cup {pn}
  <2> DEFINE mac2 == IF pn < pnMac THEN pnMac ELSE Smaller(Larger(pnMac, pn) + Growth, PnMax - 1)
  <2>1. pn < pnMac \/ mac2 > pnMac
    BY <1>5 DEF upnMacNew
  <2>2. pnMac' = mac2
    BY <1>5 DEF upnMacNew
  <2>3. /\ MemOK(AllocIn(f.map, pn), fpmFreed, mac2, used \cup {pn})
        /\ pn \in DataPages /\ isFreePn(fpm, pn) /\ pn < PnMax - 1
        /\ \A q \in DataPages : isFreePn(fpm, q) => pn <= q
        /\ \A q \in DataPages : isFreePn(AllocIn(f.map, pn), q) <=> isFreePn(fpm, q) /\ q # pn
        /\ mac2 = IF pn < pnMac THEN pnMac
                  ELSE IF pn + Growth < PnMax - 1 THEN pn + Growth ELSE PnMax - 1
    BY <1>1, <2>1, PageTaken
  <2> HIDE DEF mac2, f
  <2>4. MemOK(fpm', fpmFreed', pnMac', used')
    BY <1>2, <1>5, <2>2, <2>3
  <2>5. DataFree(fpm') = DataFree(fpm) \ {pn}
    <3>1. \A q \in DataPages : isFreePn(fpm', q) <=> isFreePn(fpm, q) /\ q # pn
      BY <1>5, <2>3
    <3>2. QED
      BY <3>1, DataFreeIs
  <2>6. pn \in DataFree(fpm) /\ \A q \in DataFree(fpm) : pn <= q
    BY <2>3, DataFreeIs
  <2>7. PageSets!Alloc
    <3>1. /\ pnMac' = IF pn < pnMac THEN pnMac
                      ELSE IF pn + Growth < PnMax - 1 THEN pn + Growth ELSE PnMax - 1
      BY <2>2, <2>3
    <3>2. QED
      BY <1>2, <1>3, <2>3, <2>5, <2>6, <3>1 DEF PageSets!Alloc, DataFree, FreeSet
  <2>8. QED
    BY <1>4, <2>4, <2>7
<1>6. CASE /\ fpm' = FreeIn(AllocIn(f.map, pn), pn)
           /\ UNCHANGED <<pnMac, used>>
  <2>1. /\ MemOK(FreeIn(AllocIn(f.map, pn), pn), fpmFreed, pnMac, used)
        /\ \A q \in DataPages : isFreePn(FreeIn(AllocIn(f.map, pn), pn), q) <=> isFreePn(fpm, q)
    BY <1>1, PageNotTaken
  <2> HIDE DEF f
  <2>2. MemOK(fpm', fpmFreed', pnMac', used')
    BY <1>2, <1>6, <2>1
  <2>3. DataFree(fpm') = DataFree(fpm)
    BY <1>6, <2>1, DataFreeSame
  <2>4. UNCHANGED PageSets!setVars
    BY <1>2, <1>3, <1>6, <2>3 DEF PageSets!setVars, DataFree, FreeSet
  <2>5. QED
    BY <1>4, <2>2, <2>4
<1>7. QED
  BY <1>2, <1>5, <1>6

LEMMA FreeKeeps ==
  ASSUME IInv, NEW pn \in Pn, freePn(pn)
  PROVE  IInv' /\ PageSets!Free
<1>1. /\ MemOK(fpm, fpmFreed, pnMac, used) /\ MapOK(fpmComm)
      /\ slot \in {1, 2} /\ dhdr.slot \in 0 .. 2
      /\ DiskOK(Loaded, dhdr.mac, dused)
  BY DEF IInv
<1>2. /\ pn \in used /\ used' = used \ {pn}
      /\ UNCHANGED <<fpmComm, slot, pnMac, dpg, dhdr, dused>>
      /\ IF isFreePn(fpmComm, pn)
         THEN fpm' = FreeIn(fpm, pn) /\ UNCHANGED fpmFreed
         ELSE fpmFreed' = FreeIn(fEnsureRoom(fpmFreed, pn + 1), pn) /\ UNCHANGED fpm
  BY DEF freePn
<1>3. DiskOK(Loaded', dhdr'.mac, dused') /\ Loaded' = Loaded /\ OnDisk' = OnDisk
  BY <1>1, <1>2, DiskKept
<1>4. ASSUME MemOK(fpm', fpmFreed', pnMac', used')
      PROVE  IInv'
  <2>1. MapOK(fpmComm') /\ slot' \in {1, 2} /\ dhdr'.slot \in 0 .. 2
    BY <1>1, <1>2
  <2>2. QED
    BY <1>3, <1>4, <2>1 DEF IInv
<1>5. /\ MemOK(FreeIn(fpm, pn), fpmFreed, pnMac, used \ {pn})
      /\ pn \in DataPages /\ ~isFreePn(fpm, pn) /\ ~isFreePn(fpmFreed, pn)
      /\ \A q \in DataPages : isFreePn(FreeIn(fpm, pn), q) <=> isFreePn(fpm, q) \/ q = pn
  BY <1>1, <1>2, PageFreedNow
<1>6. pn \in DataPages \ (DataFree(fpm) \cup DataFree(fpmFreed))
  BY <1>5, DataFreeIs
<1>7. pn \in DataFree(fpmComm) <=> isFreePn(fpmComm, pn)
  BY <1>5, DataFreeIs
<1>8. CASE isFreePn(fpmComm, pn)
  <2>1. fpm' = FreeIn(fpm, pn) /\ UNCHANGED fpmFreed
    BY <1>2, <1>8
  <2>2. MemOK(fpm', fpmFreed', pnMac', used')
    BY <1>2, <1>5, <2>1
  <2>3. DataFree(fpm') = DataFree(fpm) \cup {pn}
    <3>1. \A q \in DataPages : isFreePn(fpm', q) <=> isFreePn(fpm, q) \/ q = pn
      BY <1>5, <2>1
    <3>2. QED
      BY <1>5, <3>1, DataFreeIs
  <2>4. PageSets!Free
    BY <1>2, <1>3, <1>6, <1>7, <1>8, <2>1, <2>3 DEF PageSets!Free, DataFree, FreeSet
  <2>5. QED
    BY <1>4, <2>2, <2>4
<1>9. CASE ~isFreePn(fpmComm, pn)
  <2> DEFINE b == FreeIn(fEnsureRoom(fpmFreed, pn + 1), pn)
  <2>1. fpmFreed' = b /\ UNCHANGED fpm
    BY <1>2, <1>9
  <2>2. /\ MemOK(fpm, b, pnMac, used \ {pn})
        /\ \A q \in DataPages : isFreePn(b, q) <=> isFreePn(fpmFreed, q) \/ q = pn
    BY <1>1, <1>2, PageFreedLater
  <2> HIDE DEF b
  <2>3. MemOK(fpm', fpmFreed', pnMac', used')
    BY <1>2, <2>1, <2>2
  <2>4. DataFree(fpmFreed') = DataFree(fpmFreed) \cup {pn}
    <3>1. \A q \in DataPages : isFreePn(fpmFreed', q) <=> isFreePn(fpmFreed, q) \/ q = pn
      BY <2>1, <2>2
    <3>2. QED
      BY <1>5, <3>1, DataFreeIs
  <2>5. PageSets!Free
    BY <1>2, <1>3, <1>6, <1>7, <1>9, <2>1, <2>4 DEF PageSets!Free, DataFree, FreeSet
  <2>6. QED
    BY <1>4, <2>3, <2>5
<1>10. QED
  BY <1>8, <1>9

\* The map on disk is the one that the next transaction starts with.
LEMMA CommitKeeps ==
  ASSUME IInv, Commit
  PROVE  IInv' /\ PageSets!Commit
<1> DEFINE c == Joined(fpm, fpmFreed, pnMac)
           h == [slot |-> slot, mac |-> pnMac]
<1>1. MemOK(fpm, fpmFreed, pnMac, used) /\ slot \in {1, 2}
  BY DEF IInv
<1>2. /\ \A p \in Pn : p \in FpmPages(slot, pnMac) => dpg'[p] = FpmPage(c, (p - slot) \div CbPg)
      /\ dhdr' = h /\ slot' = (IF slot = 1 THEN 2 ELSE 1)
      /\ fpm' = c /\ fpmComm' = [c EXCEPT !.iwRover = 0] /\ fpmFreed' = clearAll(fpmFreed)
      /\ dused' = used /\ UNCHANGED <<pnMac, used>>
  BY DEF Commit, Joined
<1>3. /\ MemOK(c, clearAll(fpmFreed), pnMac, used)
      /\ \A q \in Pn : isFreePn(c, q) <=> isFreePn(fpm, q) \/ isFreePn(fpmFreed, q)
      /\ \A q \in DataPages : isFreePn(c, q) <=> q \notin used
      /\ cpnFpm(pnMac) * cwPg <= Len(c.rgw)
  BY <1>1, MapsJoined
<1> HIDE DEF c
<1>4. FileOK(c, pnMac, used) /\ MapOK(c) /\ pnMac \in 3 .. PnMax - 1
  BY <1>3 DEF MemOK, FileOK, MacOK
<1>5. \A p \in FpmPages(slot, pnMac) : dpg'[p] = FpmPage(c, (p - slot) \div CbPg)
  <2>1. FpmPages(slot, pnMac) \subseteq Pn
    BY <1>1, <1>4, MapPagePlace DEF FpmPages
  <2>2. QED
    BY <1>2, <2>1
<1>6. /\ FileOK(LoadedFrom(dpg', h), pnMac, used)
      /\ \A q \in DataPages : isFreePn(LoadedFrom(dpg', h), q) <=> q \notin used
  BY ZenonT(40), <1>1, <1>3, <1>4, <1>5, LoadedRight
<1>7. Loaded' = LoadedFrom(dpg', h) /\ dhdr'.mac = pnMac /\ dhdr'.slot = slot
  BY <1>2, LoadedNext
<1>8. DiskOK(Loaded', dhdr'.mac, dused')
  BY <1>2, <1>6, <1>7 DEF DiskOK
<1>9. /\ MapOK(fpmComm') /\ \A q \in Pn : isFreePn(fpmComm', q) <=> isFreePn(c, q)
  <2> DEFINE e == [c EXCEPT !.iwRover = 0]
  <2>1. /\ c \in MapType /\ Len(c.rgw) <= IwMac
    BY <1>4 DEF MapOK
  <2>2. e \in MapType /\ e.rgw = c.rgw /\ e.wFill = c.wFill /\ e.iwRover = 0
    BY <2>1 DEF MapType
  <2>3. fpmComm' = e
    BY <1>2
  <2> HIDE DEF e
  <2>4. MapOK(e)
    BY <1>4, <2>1, <2>2, MapParts DEF MapOK
  <2>5. \A q \in Pn : isFreePn(e, q) <=> isFreePn(c, q)
    BY <2>2 DEF isFreePn
  <2>6. QED
    BY <2>3, <2>4, <2>5
<1>10. slot' \in {1, 2} /\ dhdr'.slot \in 0 .. 2
  BY <1>1, <1>2, <1>7
<1>11. MemOK(fpm', fpmFreed', pnMac', used')
  BY <1>2, <1>3
<1>12. IInv'
  BY <1>8, <1>9, <1>10, <1>11 DEF IInv
<1>13. DataFree(fpm') = DataFree(fpm) \cup DataFree(fpmFreed)
  <2>1. \A q \in DataPages : isFreePn(fpm', q) <=> isFreePn(fpm, q) \/ isFreePn(fpmFreed, q)
    BY <1>2, <1>3, DataNat
  <2>2. QED
    BY <2>1, DataFreeIs
<1>14. DataFree(fpmComm') = DataFree(fpm')
  <2>1. \A q \in DataPages : isFreePn(fpmComm', q) <=> isFreePn(fpm', q)
    BY <1>2, <1>9, DataNat
  <2>2. QED
    BY <2>1, DataFreeSame
<1>15. DataFree(fpmFreed') = {}
  <2>1. \A q \in DataPages : ~isFreePn(fpmFreed', q)
    BY <1>1, <1>2, Cleared, DataNat DEF MemOK, FreedOK
  <2>2. QED
    BY <2>1, DataFreeIs
<1>16. DataFree(Loaded') = DataFree(fpm')
  <2>1. \A q \in DataPages : isFreePn(Loaded', q) <=> isFreePn(fpm', q)
    BY <1>2, <1>3, <1>6, <1>7
  <2>2. QED
    BY <2>1, DataFreeSame
<1>17. dhdr'.mac # 0
  BY <1>4, <1>7
<1>18. PageSets!Commit
  <2>1. OnDisk' = {Loaded'}
    BY <1>17 DEF OnDisk
  <2>2. UNION {FreeSet(m) \cap DataPages : m \in OnDisk'} = DataFree(fpm')
    BY <1>16, <2>1, DataFreeOfOne
  <2>3. QED
    BY <1>2, <1>7, <1>13, <1>14, <1>15, <2>2 DEF PageSets!Commit, DataFree, FreeSet
<1>19. QED
  BY <1>12, <1>18

LEMMA LoadKeeps ==
  ASSUME IInv, Load
  PROVE  IInv' /\ PageSets!Load
<1>1. DiskOK(Loaded, dhdr.mac, dused) /\ dhdr.slot \in 0 .. 2
  BY DEF IInv
<1>2. /\ dhdr.mac # 0
      /\ fpm' = Loaded /\ fpmComm' = Loaded /\ fpmFreed' = EmptyFPM(FALSE)
      /\ slot' = (IF dhdr.slot = 1 THEN 2 ELSE 1)
      /\ pnMac' = dhdr.mac /\ used' = dused
      /\ UNCHANGED <<dpg, dhdr, dused>>
  BY DEF Load
<1>3. DiskOK(Loaded', dhdr'.mac, dused') /\ Loaded' = Loaded /\ OnDisk' = OnDisk
  BY <1>1, <1>2, DiskKept
<1>4. FileOK(Loaded, dhdr.mac, dused) /\ \A q \in DataPages : isFreePn(Loaded, q) <=> q \notin dused
  BY <1>1, <1>2 DEF DiskOK
<1>5. MapOK(EmptyFPM(FALSE)) /\ EmptyFPM(FALSE).wFill = FALSE /\ \A q \in Pn : ~isFreePn(EmptyFPM(FALSE), q)
  BY Empty
<1>6. FreedOK(EmptyFPM(FALSE), dhdr.mac)
  BY <1>5 DEF FreedOK
<1>7. Accounted(Loaded, EmptyFPM(FALSE), dused)
  BY <1>4, <1>5, DataNat DEF Accounted
<1>8. MemOK(fpm', fpmFreed', pnMac', used')
  BY <1>2, <1>4, <1>6, <1>7 DEF MemOK
<1>9. MapOK(fpmComm') /\ slot' \in {1, 2} /\ dhdr'.slot \in 0 .. 2
  BY <1>1, <1>2, <1>4 DEF FileOK
<1>10. IInv'
  BY <1>3, <1>8, <1>9 DEF IInv
<1>11. DataFree(fpmFreed') = {}
  BY <1>2, <1>5, DataNat, DataFreeIs
<1>12. PageSets!Load
  <2>1. /\ DataFree(fpm') = DataFree(Loaded) /\ DataFree(fpmComm') = DataFree(Loaded)
        /\ DataFree(Loaded') = DataFree(Loaded)
    BY <1>2, <1>3
  <2>2. dhdr' = dhdr /\ dhdr.mac # 0 /\ pnMac' = dhdr.mac
    BY <1>2
  <2>3. QED
    <3>1. OnDisk = {Loaded} /\ OnDisk' = {Loaded}
      BY <1>3, <2>2 DEF OnDisk
    <3>2. UNION {FreeSet(m) \cap DataPages : m \in OnDisk} = DataFree(Loaded)
      BY <3>1, DataFreeOfOne
    <3>3. QED
      BY <1>11, <2>1, <2>2, <3>1, <3>2 DEF PageSets!Load, PageSets!NoFile, DataFree, FreeSet
<1>13. QED
  BY <1>10, <1>12

-----------------------------------------------------------------------------
(* The theorems.                                                           *)

LEMMA StepKeeps ==
  ASSUME IInv, [Next]_vars
  PROVE  /\ IInv'
         /\ [PageSets!SetNext]_(PageSets!setVars)
<1>1. CASE allocPn
  BY <1>1, AllocKeeps DEF PageSets!SetNext
<1>2. CASE \E pn \in Pn : freePn(pn)
  BY <1>2, FreeKeeps DEF PageSets!SetNext
<1>3. CASE Commit
  BY <1>3, CommitKeeps DEF PageSets!SetNext
<1>4. CASE Load
  BY <1>4, LoadKeeps DEF PageSets!SetNext
<1>5. CASE UNCHANGED vars
  <2>1. UNCHANGED <<fpm, fpmFreed, fpmComm, slot, pnMac, dpg, dhdr, used, dused>>
    BY <1>5 DEF vars, maps
  <2>2. DiskOK(Loaded', dhdr'.mac, dused') /\ Loaded' = Loaded /\ OnDisk' = OnDisk
    BY <2>1, DiskKept DEF IInv
  <2>3. IInv'
    BY <2>1, <2>2 DEF IInv
  <2>4. UNCHANGED PageSets!setVars
    BY <2>1, <2>2 DEF PageSets!setVars, FreeSet
  <2>5. QED
    BY <2>3, <2>4
<1>6. QED
  BY <1>1, <1>2, <1>3, <1>4, <1>5 DEF Next

LEMMA InvHolds == Spec => []IInv
<1>1. Init => IInv
  BY InitInv
<1>2. IInv /\ [Next]_vars => IInv'
  BY StepKeeps
<1>3. QED
  BY <1>1, <1>2, PTL DEF Spec

\* The search for a free page never runs past the map, the pages where the page map is and
\* will be written lie in the file and are nobody's, and the file grows over the page found.
THEOREM Reserves == Spec => []ReservesHold
<1>1. IInv => ReservesHold
  BY InvReserves
<1>2. QED
  BY <1>1, InvHolds, PTL

\* No data page is lost, or has two owners.
THEOREM Accounts == Spec => []DataPagesAccounted
<1>1. IInv => DataPagesAccounted
  BY InvAccounted
<1>2. QED
  BY <1>1, InvHolds, PTL

\* The words, the rover, the virtual tail and the pages on disk are a set of free pages.
THEOREM MapsAreSets == Spec => PageSets!SetSpec /\ ImplementsPageSet
<1>1. Init => PageSets!SetInit
  <2>1. SUFFICES ASSUME Init
                 PROVE  PageSets!SetInit
    OBVIOUS
  <2>2. \A q \in DataPages : isFreePn(fpm, q) /\ ~isFreePn(fpmFreed, q) /\ isFreePn(fpmComm, q)
    BY <2>1, InitInv
  <2>3. DataFree(fpm) = DataPages /\ DataFree(fpmFreed) = {} /\ DataFree(fpmComm) = DataPages
    BY <2>2, DataFreeIs
  <2>4. pnMac = 3 /\ dhdr.mac = 0
    BY <2>1 DEF Init
  <2>5. QED
    BY <2>3, <2>4 DEF PageSets!SetInit, PageSets!NoFile, DataFree, FreeSet, OnDisk
<1>2. IInv /\ [Next]_vars => [PageSets!SetNext]_(PageSets!setVars)
  BY StepKeeps
<1>3. IInv /\ [Next]_vars => [vars' # vars => [PageSets!SetNext]_(PageSets!setVars)]_vars
  BY <1>2
<1>4. QED
  BY <1>1, <1>2, <1>3, InvHolds, PTL DEF Spec, ImplementsPageSet, PageSets!SetSpec
=============================================================================
