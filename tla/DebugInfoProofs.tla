-------------------------- MODULE DebugInfoProofs --------------------------
(***************************************************************************)
(* Proofs about modules SymRecs and FrameData.                             *)
(*                                                                         *)
(* SymRecs: in whatever order threads ask for records and for the symbols  *)
(* of modules, and modules are closed and opened again, a reference that   *)
(* is handed out was read whole and leads to the symbol it named, unless   *)
(* its own module failed to open.                                          *)
(*                                                                         *)
(* FrameData: whatever blocks of code go, in whatever order, the frames    *)
(* that a session stores are those it adds and those of the last session   *)
(* that do not start in code that went.                                    *)
(***************************************************************************)
EXTENDS SymRecs, FrameData, FiniteSetTheorems, SequenceTheorems, WellFoundedInduction, TLAPS

-----------------------------------------------------------------------------
(* SymRecs: the places of symbols.                                         *)

\* The places of a module's symbols follow each other, and each reference names one.
Increasing(off) ==
  /\ \A i \in DOMAIN off : i \in Nat /\ off[i] \in Int
  /\ \A i, j \in DOMAIN off : i < j => off[i] < off[j]
ConstantsOK ==
  /\ \A m \in Mods : Increasing(Off40[m]) /\ Increasing(Off60[m]) /\ Increasing(OffSz[m])
  /\ \A r \in Refs :
       /\ Of[r] \in Mods
       /\ Ith[r] \in DOMAIN Off40[Of[r]] \cap DOMAIN Off60[Of[r]] \cap DOMAIN OffSz[Of[r]]
  /\ Nobody \notin Threads

\* The symbol of r, in a form of its module.
At40(r) == Off40[Of[r]][Ith[r]]
At60(r) == Off60[Of[r]][Ith[r]]
AtSz(r) == OffSz[Of[r]][Ith[r]]

-----------------------------------------------------------------------------
(* SymRecs: the invariant.                                                 *)

TypeOK ==
  /\ fmt \in {"sz", "st", "vc40"}
  /\ recs \in [Refs -> [sz : BOOLEAN, ib : Int]]
  /\ mods \in [Mods -> [open : BOOLEAN, wide : BOOLEAN, sz : BOOLEAN, fValid : BOOLEAN]]
  /\ owner \in [symrec : Threads \cup {Nobody}, mods : Threads \cup {Nobody}]
  /\ pc \in [Threads -> {"idle", "open", "move", "fixgive", "fixkeep"}]
  /\ cur \in [Threads -> Refs \cup Mods \cup {Nobody}] /\ fVC40 \in [Threads -> BOOLEAN]
  /\ answers \subseteq Refs /\ lost \subseteq Refs

\* Where a reference leads that is not renamed yet.
Place(r) == IF fmt = "vc40" /\ Of[r] \notin isetModConverted THEN At40(r) ELSE At60(r)

\* A thread has converted the record of r, and holds it until its place is known.
Pending(r) ==
  /\ owner.symrec \in Threads
  /\ pc[owner.symrec] \in {"open", "move"} /\ cur[owner.symrec] = r

\* A record is as it was on disk, or as far as its module is; it is handed out
\* renamed, and in between one thread has it, until its module fails to open.
RecOK(r) ==
  /\ ~Old => recs[r].sz /\ recs[r].ib = AtSz(r) /\ r \notin lost
  /\ Old /\ ~recs[r].sz => recs[r].ib = Place(r) /\ r \notin answers /\ r \notin lost
  /\ Old /\ recs[r].sz =>
       /\ Span[r] \cup Hidden[r] \subseteq pages
       /\ IF r \in answers \ lost
          THEN recs[r].ib = AtSz(r) /\ (fmt = "vc40" => Of[r] \in isetModConverted)
          ELSE recs[r].ib = Place(r) /\ (r \in lost \/ Pending(r))
  /\ r \in answers => Span[r] \subseteq pages

\* What a thread saw before it waited for the modules is still so.
ThreadOK(t) ==
  /\ pc[t] \in {"open", "move"} =>
       /\ owner.symrec = t /\ Old /\ cur[t] \in Refs
       /\ recs[cur[t]].sz /\ cur[t] \notin answers /\ cur[t] \notin lost
       /\ fVC40[t] = (Of[cur[t]] \notin isetModConverted)
  /\ pc[t] \in {"fixgive", "fixkeep"} => owner.mods = t /\ fmt = "vc40" /\ cur[t] \in Mods

\* A module that was converted has moved the references to it.
ModOK(m) ==
  /\ mods[m].sz => mods[m].fValid
  /\ mods[m].fValid /\ fmt = "vc40" => m \in isetModConverted

IInv ==
  /\ TypeOK
  /\ pages \subseteq AllPages /\ (fmt = "vc40" /\ fRead => pages = AllPages)
  /\ \A r \in Refs : RecOK(r)
  /\ \A t \in Threads : ThreadOK(t)
  /\ \A m \in Mods : ModOK(m)

-----------------------------------------------------------------------------
(* Lemmas about places.                                                    *)

LEMMA PlacesInt ==
  ASSUME ConstantsOK, NEW r \in Refs
  PROVE  At40(r) \in Int /\ At60(r) \in Int /\ AtSz(r) \in Int /\ Place(r) \in Int
BY DEF ConstantsOK, Increasing, At40, At60, AtSz, Place

LEMMA WidenedRight ==
  ASSUME ConstantsOK, NEW r \in Refs
  PROVE  Widened(Of[r], At40(r)) = At60(r)
<1> DEFINE off == Off40[Of[r]]
           i == CHOOSE j \in DOMAIN off : off[j] = At40(r)
<1>1. Ith[r] \in DOMAIN off /\ off[Ith[r]] = At40(r) /\ Increasing(off)
  BY DEF ConstantsOK, At40
<1>2. i \in DOMAIN off /\ off[i] = At40(r)
  BY <1>1
<1>3. i = Ith[r]
  <2> HIDE DEF i, off
  <2>1. Ith[r] \in Nat /\ i \in Nat /\ off[i] = off[Ith[r]] /\ off[i] \in Int
    BY <1>1, <1>2 DEF Increasing
  <2>2. ~(i < Ith[r]) /\ ~(Ith[r] < i)
    BY <1>1, <1>2, <2>1 DEF Increasing
  <2>3. QED
    BY <2>1, <2>2
<1>4. QED
  BY <1>1, <1>3 DEF Widened, At60

LEMMA RenamedRight ==
  ASSUME ConstantsOK, NEW r \in Refs
  PROVE  Renamed(Of[r], At60(r)) = AtSz(r)
<1> DEFINE off == Off60[Of[r]]
           at == {i \in DOMAIN off : off[i] <= At60(r)}
           i == CHOOSE j \in at : \A k \in at : k <= j
<1>1. Ith[r] \in DOMAIN off /\ off[Ith[r]] = At60(r) /\ Increasing(off) /\ At60(r) \in Int
  BY PlacesInt DEF ConstantsOK, At60
<1>2. Ith[r] \in at
  BY <1>1 DEF Increasing
<1>3. \A k \in at : k <= Ith[r]
  BY <1>1 DEF Increasing
<1>4. i \in at /\ \A k \in at : k <= i
  BY <1>2, <1>3
<1>5. i = Ith[r]
  <2> HIDE DEF i
  <2>1. i \in Nat /\ Ith[r] \in Nat
    BY <1>1, <1>4 DEF Increasing
  <2>2. QED
    BY <1>2, <1>3, <1>4, <2>1
<1>6. Renamed(Of[r], At60(r)) = At60(r) + OffSz[Of[r]][i] - off[i]
  BY <1>2 DEF Renamed
<1> HIDE DEF i, at
<1>7. OffSz[Of[r]][i] = AtSz(r) /\ off[i] = At60(r)
  BY <1>1, <1>5 DEF AtSz
<1>8. QED
  BY <1>6, <1>7, PlacesInt

-----------------------------------------------------------------------------
(* What a step leaves as it was.                                           *)

LEMMA RecKept ==
  ASSUME NEW r \in Refs, RecOK(r), fmt' = fmt, recs'[r] = recs[r], pages \subseteq pages',
         Of[r] \in isetModConverted' <=> Of[r] \in isetModConverted,
         r \in answers' <=> r \in answers, r \in lost' <=> r \in lost,
         Pending(r) => Pending(r)'
  PROVE  RecOK(r)'
<1>1. Place(r)' = Place(r) /\ Old' = Old
  BY DEF Place, Old, At40, At60
<1>2. QED
  BY <1>1 DEF RecOK, AtSz

LEMMA ThreadKept ==
  ASSUME NEW t \in Threads, ThreadOK(t), fmt' = fmt,
         pc'[t] = pc[t], cur'[t] = cur[t], fVC40'[t] = fVC40[t],
         pc[t] \in {"open", "move"} =>
           /\ owner'.symrec = owner.symrec
           /\ recs'[cur[t]].sz = recs[cur[t]].sz
           /\ cur[t] \in answers' <=> cur[t] \in answers
           /\ cur[t] \in lost' <=> cur[t] \in lost
           /\ Of[cur[t]] \in isetModConverted' <=> Of[cur[t]] \in isetModConverted,
         pc[t] \in {"fixgive", "fixkeep"} => owner'.mods = owner.mods
  PROVE  ThreadOK(t)'
<1>1. Old' = Old
  BY DEF Old
<1>2. QED
  BY <1>1 DEF ThreadOK

LEMMA ModKept ==
  ASSUME NEW m \in Mods, ModOK(m), fmt' = fmt, mods'[m] = mods[m],
         m \in isetModConverted => m \in isetModConverted'
  PROVE  ModOK(m)'
BY DEF ModOK

\* Nobody has a record when nobody has the records.
LEMMA NonePending ==
  ASSUME ConstantsOK, owner.symrec = Nobody, NEW r
  PROVE  ~Pending(r)
BY DEF ConstantsOK, Pending

\* Whoever has the records is the only one.
LEMMA OnePending ==
  ASSUME IInv, NEW t \in Threads, pc[t] \in {"open", "move"}
  PROVE  /\ owner.symrec = t /\ Pending(cur[t])
         /\ \A r \in Refs : Pending(r) => r = cur[t]
         /\ \A u \in Threads : pc[u] \in {"open", "move"} => u = t
BY DEF IInv, ThreadOK, Pending

\* A record that is not converted has a place; one that is read again is as it was.
LEMMA ReadSame ==
  ASSUME ConstantsOK, IInv, fRead, NEW r \in Refs, NEW s \in Refs,
         Span[s] \cap (Needed(r) \ pages) # {}
  PROVE  OnDisk(s) = recs[s]
<1>1. RecOK(s) /\ recs[s] \in [sz : BOOLEAN, ib : Int] /\ fmt \in {"sz", "st", "vc40"}
  BY DEF IInv, TypeOK
<1>2. CASE fmt = "sz"
  <2>1. recs[s].sz = TRUE /\ recs[s].ib = AtSz(s)
    BY <1>1, <1>2 DEF RecOK, Old
  <2>2. OnDisk(s) = [sz |-> TRUE, ib |-> AtSz(s)]
    BY <1>2 DEF OnDisk, Old, AtSz
  <2>3. QED
    BY <1>1, <2>1, <2>2
<1>3. CASE fmt = "st"
  <2>1. recs[s].sz = FALSE /\ recs[s].ib = At60(s)
    BY <1>1, <1>3 DEF RecOK, Old, Place
  <2>2. OnDisk(s) = [sz |-> FALSE, ib |-> At60(s)]
    BY <1>3 DEF OnDisk, Old, At60
  <2>3. QED
    BY <1>1, <2>1, <2>2
<1>4. CASE fmt = "vc40"
  <2>1. Needed(r) \subseteq AllPages
    BY DEF Needed, AllPages
  <2>2. QED
    BY <1>4, <2>1 DEF IInv
<1>5. QED
  BY <1>1, <1>2, <1>3, <1>4

-----------------------------------------------------------------------------
(* The invariant holds initially, and every action keeps it.               *)

LEMMA InitInv ==
  ASSUME ConstantsOK, Init
  PROVE  IInv
<1>1. ASSUME NEW r \in Refs
      PROVE  recs[r] \in [sz : BOOLEAN, ib : Int] /\ RecOK(r)
  <2>1. recs[r] = OnDisk(r) /\ r \notin answers /\ r \notin lost /\ isetModConverted = {}
    BY DEF Init
  <2>2. CASE fmt = "sz"
    <3>1. recs[r] = [sz |-> TRUE, ib |-> AtSz(r)]
      BY <2>1, <2>2 DEF OnDisk, Old, AtSz
    <3>2. recs[r] \in [sz : BOOLEAN, ib : Int]
      BY <3>1, PlacesInt
    <3>3. RecOK(r)
      BY <2>1, <2>2, <3>1 DEF RecOK, Old
    <3>4. QED
      BY <3>2, <3>3
  <2>3. CASE fmt \in {"st", "vc40"}
    <3>1. recs[r] = [sz |-> FALSE, ib |-> Place(r)]
      BY <2>1, <2>3 DEF OnDisk, Old, Place, At40, At60
    <3>2. QED
      BY <2>1, <2>3, <3>1, PlacesInt DEF RecOK, Old
  <2>4. QED
    BY <2>2, <2>3 DEF Init
<1>2. TypeOK
  BY <1>1 DEF Init, TypeOK, Closed
<1>3. \A t \in Threads : ThreadOK(t)
  BY DEF Init, ThreadOK
<1>4. \A m \in Mods : ModOK(m)
  BY DEF Init, ModOK, Closed
<1>5. QED
  BY <1>1, <1>2, <1>3, <1>4 DEF Init, IInv

LEMMA OpenGlobalsInv ==
  ASSUME ConstantsOK, IInv, OpenGlobals
  PROVE  IInv'
<1>1. /\ UNCHANGED <<fmt, recs, isetModConverted, mods, owner, calls, answers, lost>>
      /\ fRead' = TRUE /\ pages' = IF fmt = "vc40" THEN AllPages ELSE pages
  BY DEF OpenGlobals, fReadSymRecs
<1>2. /\ pages \subseteq pages' /\ pages' \subseteq AllPages
      /\ fmt' = "vc40" /\ fRead' => pages' = AllPages
  BY <1>1 DEF IInv, AllPages
<1>3. TypeOK'
  BY <1>1 DEF IInv, TypeOK, calls, OpenGlobals
<1>4. ASSUME NEW r \in Refs
      PROVE  RecOK(r)'
  BY <1>1, <1>2, RecKept DEF IInv, Pending, calls
<1>5. ASSUME NEW t \in Threads
      PROVE  ThreadOK(t)'
  BY <1>1, ThreadKept DEF IInv, calls, OpenGlobals
<1>6. ASSUME NEW m \in Mods
      PROVE  ModOK(m)'
  BY <1>1, ModKept DEF IInv
<1>7. QED
  BY <1>2, <1>3, <1>4, <1>5, <1>6 DEF IInv

\* Steps that change nothing but what is known of a module.
LEMMA ModsChange ==
  ASSUME ConstantsOK, IInv,
         UNCHANGED <<fmt, fRead, pages, recs, isetModConverted, fVC40, answers, lost>>,
         TypeOK', \A m \in Mods : ModOK(m)',
         \A r \in Refs : Pending(r) => Pending(r)',
         \A t \in Threads : ThreadOK(t)'
  PROVE  IInv'
<1>1. ASSUME NEW r \in Refs
      PROVE  RecOK(r)'
  BY RecKept DEF IInv
<1>2. AllPages' = AllPages
  BY DEF AllPages
<1>3. QED
  BY <1>1, <1>2 DEF IInv

LEMMA OpenModInv ==
  ASSUME ConstantsOK, IInv, NEW m \in Mods, OpenMod(m)
  PROVE  IInv'
<1>1. /\ mods' = [mods EXCEPT ![m] = [Closed EXCEPT !.open = TRUE]]
      /\ UNCHANGED <<fmt, fRead, pages, recs, isetModConverted, owner, pc, cur, fVC40, answers, lost>>
  BY DEF OpenMod, calls
<1>2. /\ [Closed EXCEPT !.open = TRUE] \in
            [open : BOOLEAN, wide : BOOLEAN, sz : BOOLEAN, fValid : BOOLEAN]
      /\ [Closed EXCEPT !.open = TRUE].sz = FALSE /\ [Closed EXCEPT !.open = TRUE].fValid = FALSE
  <2>1. Closed \in [open : BOOLEAN, wide : BOOLEAN, sz : BOOLEAN, fValid : BOOLEAN]
    BY DEF Closed
  <2>2. QED
    BY <2>1 DEF Closed
<1>3. TypeOK'
  BY <1>1, <1>2 DEF IInv, TypeOK
<1>4. ASSUME NEW n \in Mods
      PROVE  ModOK(n)'
  BY <1>1, <1>2 DEF IInv, TypeOK, ModOK
<1>5. ASSUME NEW t \in Threads
      PROVE  ThreadOK(t)'
  BY <1>1, ThreadKept DEF IInv
<1>6. QED
  BY <1>1, <1>3, <1>4, <1>5, ModsChange DEF Pending

LEMMA CloseModInv ==
  ASSUME ConstantsOK, IInv, NEW m \in Mods, CloseMod(m)
  PROVE  IInv'
<1>1. /\ mods' = [mods EXCEPT ![m] = Closed]
      /\ UNCHANGED <<fmt, fRead, pages, recs, isetModConverted, owner, pc, cur, fVC40, answers, lost>>
  BY DEF CloseMod, calls
<1>2. TypeOK'
  BY <1>1 DEF IInv, TypeOK, Closed
<1>3. ASSUME NEW n \in Mods
      PROVE  ModOK(n)'
  BY <1>1 DEF IInv, TypeOK, ModOK, Closed
<1>4. ASSUME NEW t \in Threads
      PROVE  ThreadOK(t)'
  BY <1>1, ThreadKept DEF IInv
<1>5. QED
  BY <1>1, <1>2, <1>3, <1>4, ModsChange DEF Pending

LEMMA openModByImodInv ==
  ASSUME ConstantsOK, IInv, NEW t \in Threads, openModByImod(t)
  PROVE  IInv'
<1>1. /\ pc[t] = "open" /\ pc' = [pc EXCEPT ![t] = "move"]
      /\ mods' = [mods EXCEPT ![Of[cur[t]]].open = TRUE]
      /\ UNCHANGED <<fmt, fRead, pages, recs, isetModConverted, owner, cur, fVC40, answers, lost>>
  BY DEF openModByImod
<1>2. Of[cur[t]] \in Mods
  BY <1>1 DEF IInv, ThreadOK, ConstantsOK
<1>3. TypeOK'
  BY <1>1, <1>2 DEF IInv, TypeOK
<1>4. ASSUME NEW n \in Mods
      PROVE  ModOK(n)'
  <2>1. mods'[n].sz = mods[n].sz /\ mods'[n].fValid = mods[n].fValid
    BY <1>1 DEF IInv, TypeOK
  <2>2. QED
    BY <1>1, <2>1 DEF IInv, ModOK
<1>5. ASSUME NEW u \in Threads
      PROVE  ThreadOK(u)'
  <2>1. CASE u = t
    BY <1>1, <2>1 DEF IInv, TypeOK, ThreadOK, Old
  <2>2. CASE u # t
    BY <1>1, <2>2, ThreadKept DEF IInv, TypeOK
  <2>3. QED
    BY <2>1, <2>2
<1>6. ASSUME NEW r \in Refs, Pending(r)
      PROVE  Pending(r)'
  BY <1>1, <1>6 DEF IInv, TypeOK, Pending
<1>7. QED
  BY <1>1, <1>3, <1>4, <1>5, <1>6, ModsChange

\* What a query does to what is known of the module.
LEMMA QueriedOK ==
  ASSUME IInv, NEW m \in Mods, NEW given \in BOOLEAN, Queried(m, given), fmt' = fmt,
         isetModConverted \subseteq isetModConverted',
         Widens(m) => m \in isetModConverted'
  PROVE  /\ mods' \in [Mods -> [open : BOOLEAN, wide : BOOLEAN, sz : BOOLEAN, fValid : BOOLEAN]]
         /\ \A n \in Mods : ModOK(n)'
<1> DEFINE new == [open |-> TRUE, wide |-> FALSE, sz |-> Old /\ ~given,
                   fValid |-> mods[m].fValid \/ Converts(m)]
<1>1. mods \in [Mods -> [open : BOOLEAN, wide : BOOLEAN, sz : BOOLEAN, fValid : BOOLEAN]]
  BY DEF IInv, TypeOK
<1>2. mods' = [mods EXCEPT ![m] = new]
  BY DEF Queried
<1>3. new \in [open : BOOLEAN, wide : BOOLEAN, sz : BOOLEAN, fValid : BOOLEAN]
  <2>1. (Old /\ ~given) \in BOOLEAN /\ (mods[m].fValid \/ Converts(m)) \in BOOLEAN
    OBVIOUS
  <2>2. QED
    BY <2>1
<1>4. new.sz = (Old /\ ~given) /\ new.fValid = (mods[m].fValid \/ Converts(m))
  OBVIOUS
<1> HIDE DEF new
<1>5. mods' \in [Mods -> [open : BOOLEAN, wide : BOOLEAN, sz : BOOLEAN, fValid : BOOLEAN]]
  BY <1>1, <1>2, <1>3
<1>6. ASSUME NEW n \in Mods
      PROVE  ModOK(n)'
  <2>1. CASE n = m
    <3>1. mods'[n] = new
      BY <1>1, <1>2, <2>1
    <3>2. ModOK(m)
      BY DEF IInv
    <3>3. new.sz => new.fValid
      BY <1>4, <3>2 DEF ModOK, Converts
    <3>4. new.fValid /\ fmt = "vc40" => m \in isetModConverted'
      BY <1>4, <3>2 DEF ModOK, Widens
    <3>5. QED
      BY <2>1, <3>1, <3>3, <3>4 DEF ModOK
  <2>2. CASE n # m
    <3>1. mods'[n] = mods[n]
      BY <1>1, <1>2, <2>2
    <3>2. QED
      BY <3>1, ModKept DEF IInv
  <2>3. QED
    BY <2>1, <2>2
<1>7. QED
  BY <1>5, <1>6

LEMMA QuerySymbolsInv ==
  ASSUME ConstantsOK, IInv, NEW t \in Threads, NEW m \in Mods, NEW given \in BOOLEAN,
         QuerySymbols(t, m, given)
  PROVE  IInv'
<1>1. /\ pc[t] = "idle" /\ owner.mods = Nobody
      /\ UNCHANGED <<fmt, fRead, pages, recs, isetModConverted, fVC40, answers, lost>>
  BY DEF QuerySymbols
<1>2. CASE Widens(m)
  <2> DEFINE where == IF given THEN "fixgive" ELSE "fixkeep"
  <2>1. /\ pc' = [pc EXCEPT ![t] = where]
        /\ cur' = [cur EXCEPT ![t] = m]
        /\ owner' = [owner EXCEPT !.mods = t]
        /\ mods' = mods
    BY <1>2 DEF QuerySymbols, Wait
  <2>2. where \in {"fixgive", "fixkeep"}
    OBVIOUS
  <2> HIDE DEF where
  <2>3. owner' \in [symrec : Threads \cup {Nobody}, mods : Threads \cup {Nobody}]
        /\ owner'.symrec = owner.symrec /\ owner'.mods = t
    BY <2>1 DEF IInv, TypeOK
  <2>4. TypeOK'
    BY <1>1, <2>1, <2>2, <2>3 DEF IInv, TypeOK
  <2>5. ASSUME NEW u \in Threads
        PROVE  ThreadOK(u)'
    <3>1. CASE u = t
      <4>1. pc'[t] = where /\ cur'[t] = m /\ fmt' = "vc40" /\ owner'.mods = t
        BY <1>1, <1>2, <2>1, <2>3 DEF IInv, TypeOK, Widens
      <4>2. QED
        BY <2>2, <3>1, <4>1 DEF ThreadOK
    <3>2. CASE u # t
      <4>1. pc[u] \notin {"fixgive", "fixkeep"}
        BY <1>1 DEF IInv, ThreadOK, ConstantsOK
      <4>2. pc'[u] = pc[u] /\ cur'[u] = cur[u]
        BY <2>1, <3>2 DEF IInv, TypeOK
      <4>3. QED
        BY <1>1, <2>3, <4>1, <4>2, ThreadKept DEF IInv
    <3>3. QED
      BY <3>1, <3>2
  <2>6. ASSUME NEW r \in Refs, Pending(r)
        PROVE  Pending(r)'
    <3>1. owner.symrec # t
      BY <1>1, <2>6 DEF Pending
    <3>2. QED
      BY <2>1, <2>3, <2>6, <3>1 DEF IInv, TypeOK, Pending
  <2>7. \A n \in Mods : ModOK(n)'
    BY <1>1, <2>1, ModKept DEF IInv
  <2>8. QED
    BY <1>1, <2>4, <2>5, <2>6, <2>7, ModsChange
<1>3. CASE ~Widens(m)
  <2>1. Queried(m, given) /\ UNCHANGED <<pc, cur, owner>>
    BY <1>3 DEF QuerySymbols
  <2>2. /\ mods' \in [Mods -> [open : BOOLEAN, wide : BOOLEAN, sz : BOOLEAN, fValid : BOOLEAN]]
        /\ \A n \in Mods : ModOK(n)'
    BY <1>1, <1>3, <2>1, QueriedOK
  <2>3. TypeOK'
    BY <1>1, <2>1, <2>2 DEF IInv, TypeOK
  <2>4. ASSUME NEW u \in Threads
        PROVE  ThreadOK(u)'
    BY <1>1, <2>1, ThreadKept DEF IInv
  <2>5. QED
    BY <1>1, <2>1, <2>2, <2>3, <2>4, ModsChange DEF Pending
<1>4. QED
  BY <1>2, <1>3

\* The references to a module move once: none of them was handed out before.
LEMMA MovedOK ==
  ASSUME ConstantsOK, IInv, fmt = "vc40", NEW m \in Mods, NEW r \in Refs,
         fmt' = fmt, pages \subseteq pages', r \in answers' <=> r \in answers, lost' = lost,
         isetModConverted' = isetModConverted \cup {m},
         recs'[r] = IF Of[r] = m /\ m \notin isetModConverted
                    THEN [recs[r] EXCEPT !.ib = Widened(m, @)] ELSE recs[r],
         ~Pending(r)
  PROVE  RecOK(r)' /\ recs'[r] \in [sz : BOOLEAN, ib : Int] /\ recs'[r].sz = recs[r].sz
<1>1. recs[r] \in [sz : BOOLEAN, ib : Int] /\ RecOK(r)
  BY DEF IInv, TypeOK
<1>2. CASE Of[r] = m /\ m \notin isetModConverted
  <2>1. Old
    BY DEF Old
  <2>2. recs[r].ib = At40(r) /\ (r \in lost \/ (~recs[r].sz /\ r \notin answers))
    BY <1>1, <1>2, <2>1 DEF RecOK, Place
  <2>3. recs'[r].sz = recs[r].sz /\ recs'[r].ib = At60(r)
    BY <1>1, <1>2, <2>2, WidenedRight
  <2>4. recs'[r] \in [sz : BOOLEAN, ib : Int]
    <3>1. Widened(m, recs[r].ib) = At60(r) /\ At60(r) \in Int
      BY <1>2, <2>2, WidenedRight, PlacesInt
    <3>2. QED
      BY <1>1, <1>2, <3>1
  <2>5. Place(r)' = At60(r) /\ Old'
    BY <1>2, <2>1 DEF Place, Old, At60
  <2>6. CASE r \in lost
    <3>1. recs[r].sz /\ Span[r] \cup Hidden[r] \subseteq pages
      BY <1>1, <2>1, <2>6 DEF RecOK
    <3>2. recs'[r].sz /\ r \in lost' /\ Span[r] \cup Hidden[r] \subseteq pages'
      BY <2>3, <2>6, <3>1
    <3>3. QED
      BY <2>3, <2>4, <2>5, <3>2 DEF RecOK
  <2>7. CASE r \notin lost
    <3>1. ~recs[r].sz /\ r \notin answers
      BY <2>2, <2>7
    <3>2. ~recs'[r].sz /\ r \notin answers' /\ r \notin lost'
      BY <2>3, <2>7, <3>1
    <3>3. QED
      BY <2>3, <2>4, <2>5, <3>2 DEF RecOK
  <2>8. QED
    BY <2>6, <2>7
<1>3. CASE ~(Of[r] = m /\ m \notin isetModConverted)
  <2>1. recs'[r] = recs[r] /\ (Of[r] \in isetModConverted' <=> Of[r] \in isetModConverted)
    BY <1>3
  <2>2. QED
    BY <1>1, <2>1, RecKept
<1>4. QED
  BY <1>2, <1>3

LEMMA QueryWidenedInv ==
  ASSUME ConstantsOK, IInv, NEW t \in Threads, QueryWidened(t)
  PROVE  IInv'
<1> DEFINE m == cur[t]
<1>1. /\ pc[t] \in {"fixgive", "fixkeep"} /\ owner.symrec = Nobody
      /\ fRead' = TRUE /\ pages' = IF ~fRead /\ fmt = "vc40" THEN AllPages ELSE pages
      /\ recs' = [r \in Refs |-> IF Of[r] = m /\ Moves(m)
                                  THEN [recs[r] EXCEPT !.ib = Widened(m, @)] ELSE recs[r]]
      /\ isetModConverted' = isetModConverted \cup {m}
      /\ Queried(m, pc[t] = "fixgive")
      /\ pc' = [pc EXCEPT ![t] = "idle"]
      /\ owner' = [owner EXCEPT !.mods = Nobody]
      /\ UNCHANGED <<fmt, cur, fVC40, answers, lost>>
  BY DEF QueryWidened, fixupRefSymsForImod, fReadSymRecs
<1>2. fmt = "vc40" /\ m \in Mods /\ owner.mods = t
  BY <1>1 DEF IInv, ThreadOK
<1> HIDE DEF m
<1>3. pages \subseteq pages' /\ pages' = AllPages
  BY <1>1, <1>2 DEF IInv
<1>4. ASSUME NEW r \in Refs
      PROVE  RecOK(r)' /\ recs'[r] \in [sz : BOOLEAN, ib : Int]
  <2>1. ~Pending(r)
    BY <1>1, NonePending
  <2>2. recs'[r] = IF Of[r] = m /\ m \notin isetModConverted
                   THEN [recs[r] EXCEPT !.ib = Widened(m, @)] ELSE recs[r]
    BY <1>1 DEF Moves
  <2>3. QED
    BY <1>1, <1>2, <1>3, <2>1, <2>2, MovedOK
<1>5. /\ mods' \in [Mods -> [open : BOOLEAN, wide : BOOLEAN, sz : BOOLEAN, fValid : BOOLEAN]]
      /\ \A n \in Mods : ModOK(n)'
  <2>1. (pc[t] = "fixgive") \in BOOLEAN
    OBVIOUS
  <2>2. QED
    BY <1>1, <1>2, <2>1, QueriedOK
<1>6. owner' \in [symrec : Threads \cup {Nobody}, mods : Threads \cup {Nobody}]
      /\ owner'.symrec = owner.symrec
  BY <1>1 DEF IInv, TypeOK
<1>7. recs' \in [Refs -> [sz : BOOLEAN, ib : Int]]
  BY <1>1, <1>4
<1>8. TypeOK'
  BY <1>1, <1>5, <1>6, <1>7 DEF IInv, TypeOK
<1>9. ASSUME NEW u \in Threads
      PROVE  ThreadOK(u)'
  <2>1. CASE u = t
    BY <1>1, <2>1 DEF IInv, TypeOK, ThreadOK
  <2>2. CASE u # t
    <3>1. pc'[u] = pc[u] /\ cur'[u] = cur[u] /\ fVC40'[u] = fVC40[u]
      BY <1>1, <2>2 DEF IInv, TypeOK
    <3>2. pc[u] \notin {"open", "move"}
      BY <1>1 DEF IInv, ThreadOK, ConstantsOK
    <3>3. pc[u] \notin {"fixgive", "fixkeep"}
      BY <1>2, <2>2 DEF IInv, ThreadOK
    <3>4. QED
      BY <3>1, <3>2, <3>3 DEF ThreadOK
  <2>3. QED
    BY <2>1, <2>2
<1>10. AllPages' = AllPages
  BY DEF AllPages
<1>11. QED
  BY <1>3, <1>4, <1>5, <1>8, <1>9, <1>10 DEF IInv

\* A record that is converted already is handed out again, or for the first time if
\* nothing is ever converted.
LEMMA ReadRenamed ==
  ASSUME ConstantsOK, IInv, NEW t \in Threads, NEW r \in Refs,
         pc[t] = "idle", owner.symrec = Nobody, recs[r].sz,
         UNCHANGED <<fmt, fRead, recs, isetModConverted, mods, fVC40, lost>>,
         pages' = pages \cup Needed(r), Return(t, r)
  PROVE  IInv'
<1>1. /\ pc' = [pc EXCEPT ![t] = "idle"] /\ cur' = cur
      /\ owner' = [owner EXCEPT !.symrec = Nobody]
      /\ answers' = answers \cup {r}
  BY DEF Return
<1>2. owner' \in [symrec : Threads \cup {Nobody}, mods : Threads \cup {Nobody}]
      /\ owner'.symrec = owner.symrec /\ owner'.mods = owner.mods
  BY <1>1 DEF IInv, TypeOK
<1>3. pc' = pc
  BY <1>1 DEF IInv, TypeOK
<1>4. RecOK(r)
  BY DEF IInv
<1>5. ~Pending(r)
  BY NonePending
<1>6. Old => r \in answers \/ r \in lost
  BY <1>4, <1>5 DEF RecOK
<1>7. Span[r] \subseteq Needed(r) /\ Needed(r) \subseteq AllPages
  BY DEF Needed, AllPages
<1>8. ASSUME NEW s \in Refs
      PROVE  RecOK(s)'
  <2>1. ~Pending(s)
    BY NonePending
  <2>2. CASE s \in answers' <=> s \in answers
    BY <2>1, <2>2, RecKept DEF IInv
  <2>3. CASE ~(s \in answers' <=> s \in answers)
    <3>1. s = r /\ (~Old \/ r \in lost)
      BY <1>1, <1>6, <2>3
    <3>2. Old' = Old /\ Place(r)' = Place(r) /\ Span[r] \subseteq pages'
      BY <1>7 DEF Old, Place, At40, At60
    <3>3. QED
      BY <1>4, <3>1, <3>2 DEF RecOK, AtSz
  <2>4. QED
    BY <2>2, <2>3
<1>9. ASSUME NEW u \in Threads
      PROVE  ThreadOK(u)'
  <2>1. pc[u] \notin {"open", "move"}
    BY DEF IInv, ThreadOK, ConstantsOK
  <2>2. QED
    BY <1>1, <1>2, <1>3, <2>1, ThreadKept DEF IInv
<1>10. \A m \in Mods : ModOK(m)'
  BY ModKept DEF IInv
<1>11. TypeOK'
  BY <1>1, <1>2, <1>3 DEF IInv, TypeOK
<1>12. /\ pages' \subseteq AllPages'
       /\ fmt' = "vc40" /\ fRead' => pages' = AllPages'
  BY <1>7 DEF IInv, AllPages
<1>13. QED
  BY <1>8, <1>9, <1>10, <1>11, <1>12 DEF IInv

\* A record that is not is converted, and its thread waits for the modules.
LEMMA ReadOld ==
  ASSUME ConstantsOK, IInv, NEW t \in Threads, NEW r \in Refs,
         pc[t] = "idle", owner.symrec = Nobody, ~recs[r].sz,
         UNCHANGED <<fmt, fRead, isetModConverted, mods, answers, lost>>,
         recs' = [recs EXCEPT ![r].sz = TRUE],
         pages' = pages \cup Needed(r),
         fVC40' = [fVC40 EXCEPT ![t] = NotMoved(r)],
         Wait(t, "open", r, "symrec")
  PROVE  IInv'
<1>1. /\ pc' = [pc EXCEPT ![t] = "open"]
      /\ cur' = [cur EXCEPT ![t] = r]
      /\ owner' = [owner EXCEPT !.symrec = t]
  BY DEF Wait
<1>2. owner' \in [symrec : Threads \cup {Nobody}, mods : Threads \cup {Nobody}]
      /\ owner'.symrec = t /\ owner'.mods = owner.mods
  BY <1>1 DEF IInv, TypeOK
<1>3. /\ recs' \in [Refs -> [sz : BOOLEAN, ib : Int]]
      /\ recs'[r].sz = TRUE /\ recs'[r].ib = recs[r].ib
      /\ \A s \in Refs \ {r} : recs'[s] = recs[s]
  BY ZenonT(40) DEF IInv, TypeOK
<1>4. /\ pc'[t] = "open" /\ cur'[t] = r /\ fVC40'[t] = NotMoved(r)
      /\ \A u \in Threads \ {t} : pc'[u] = pc[u] /\ cur'[u] = cur[u] /\ fVC40'[u] = fVC40[u]
  BY <1>1 DEF IInv, TypeOK
<1>5. Old /\ recs[r].ib = Place(r) /\ r \notin answers /\ r \notin lost
  BY DEF IInv, RecOK
<1>6. Needed(r) = Span[r] \cup Hidden[r] /\ Needed(r) \subseteq AllPages
  BY DEF Needed, AllPages
<1>7. ASSUME NEW s \in Refs
      PROVE  RecOK(s)'
  <2>1. CASE s = r
    <3>1. Pending(r)'
      BY <1>2, <1>4 DEF Pending
    <3>2. Place(r)' = Place(r) /\ Old'
      BY <1>5 DEF Place, Old, At40, At60
    <3>3. QED
      BY <1>3, <1>5, <1>6, <2>1, <3>1, <3>2 DEF RecOK
  <2>2. CASE s # r
    <3>1. ~Pending(s)
      BY NonePending
    <3>2. QED
      BY <1>3, <2>2, <3>1, RecKept DEF IInv
  <2>3. QED
    BY <2>1, <2>2
<1>8. ASSUME NEW u \in Threads
      PROVE  ThreadOK(u)'
  <2>1. CASE u = t
    BY <1>2, <1>3, <1>4, <1>5, <2>1 DEF ThreadOK, Old, NotMoved
  <2>2. CASE u # t
    <3>1. pc[u] \notin {"open", "move"}
      BY DEF IInv, ThreadOK, ConstantsOK
    <3>2. QED
      BY <1>2, <1>4, <2>2, <3>1, ThreadKept DEF IInv
  <2>3. QED
    BY <2>1, <2>2
<1>9. \A m \in Mods : ModOK(m)'
  BY ModKept DEF IInv
<1>10. TypeOK'
  <2>1. NotMoved(r) \in BOOLEAN
    BY DEF NotMoved
  <2>2. pc' \in [Threads -> {"idle", "open", "move", "fixgive", "fixkeep"}]
        /\ cur' \in [Threads -> Refs \cup Mods \cup {Nobody}]
        /\ fVC40' \in [Threads -> BOOLEAN]
    BY <1>1, <2>1 DEF IInv, TypeOK
  <2>3. QED
    BY <1>2, <1>3, <2>2 DEF IInv, TypeOK
<1>11. /\ pages' \subseteq AllPages'
       /\ fmt' = "vc40" /\ fRead' => pages' = AllPages'
  BY <1>6 DEF IInv, AllPages
<1>12. QED
  BY <1>7, <1>8, <1>9, <1>10, <1>11 DEF IInv

LEMMA ReadRecInv ==
  ASSUME ConstantsOK, IInv, NEW t \in Threads, NEW r \in Refs, ReadRec(t, r)
  PROVE  IInv'
<1> DEFINE unread(s) == Span[s] \cap (Needed(r) \ pages) # {}
           read == IF unread(r) THEN OnDisk(r) ELSE recs[r]
<1>1. fRead /\ pc[t] = "idle" /\ owner.symrec = Nobody
      /\ UNCHANGED <<fmt, fRead, isetModConverted, mods, lost>>
  BY DEF ReadRec
<1>2. \A s \in Refs : unread(s) => OnDisk(s) = recs[s]
  BY <1>1, ReadSame
<1>3. read = recs[r]
  BY <1>2
<1>4. recs \in [Refs -> [sz : BOOLEAN, ib : Int]]
  BY DEF IInv, TypeOK
<1>5. CASE recs[r].sz
  <2>1. fReadSymRecPages(Needed(r)) /\ Return(t, r) /\ fVC40' = fVC40
    BY <1>3, <1>5 DEF ReadRec
  <2>2. recs' = [s \in Refs |-> IF unread(s) THEN OnDisk(s) ELSE recs[s]]
        /\ pages' = pages \cup Needed(r)
    BY <2>1 DEF fReadSymRecPages, Marked
  <2>3. recs' = recs
    BY <1>2, <1>4, <2>2
  <2>4. QED
    BY <1>1, <1>5, <2>1, <2>2, <2>3, ReadRenamed
<1>6. CASE ~recs[r].sz
  <2>1. /\ pages' = pages \cup Needed(r)
        /\ recs' = [s \in Refs |-> IF s = r THEN [read EXCEPT !.sz = TRUE]
                                   ELSE IF unread(s) THEN OnDisk(s) ELSE recs[s]]
        /\ fVC40' = [fVC40 EXCEPT ![t] = NotMoved(r)]
        /\ Wait(t, "open", r, "symrec") /\ answers' = answers
    BY <1>3, <1>6 DEF ReadRec, Marked
  <2>2. recs' = [s \in Refs |-> IF s = r THEN [recs[r] EXCEPT !.sz = TRUE] ELSE recs[s]]
    BY <1>2, <1>3, <2>1
  <2>3. recs' = [recs EXCEPT ![r].sz = TRUE]
    BY <1>4, <2>2
  <2>4. QED
    BY <1>1, <1>6, <2>1, <2>3, ReadOld
<1>7. QED
  BY <1>5, <1>6

\* The record that a thread holds is renamed, after the references to its module have
\* moved if they had not, this one with them.
LEMMA offSymNewForOffSymOldInv ==
  ASSUME ConstantsOK, IInv, NEW t \in Threads, offSymNewForOffSymOld(t)
  PROVE  IInv'
<1>r. PICK r : r = cur[t]
  OBVIOUS
<1> DEFINE m == Of[r]
           widens == ~mods[m].fValid /\ Widens(m)
           off == IF ~mods[m].fValid /\ fmt = "vc40" /\ fVC40[t] THEN Widened(m, recs[r].ib)
                  ELSE recs[r].ib
<1>1. /\ pc[t] = "move" /\ owner.mods = Nobody
      /\ IF mods[m].fValid THEN UNCHANGED mods ELSE Queried(m, FALSE)
      /\ isetModConverted' = isetModConverted \cup IF widens THEN {m} ELSE {}
      /\ recs' = [s \in Refs |->
           IF s = r THEN [recs[s] EXCEPT !.ib = Renamed(m, off)]
           ELSE IF widens /\ Of[s] = m /\ Moves(m) THEN [recs[s] EXCEPT !.ib = Widened(m, @)]
           ELSE recs[s]]
      /\ Return(t, r)
      /\ UNCHANGED <<fmt, fRead, pages, fVC40, lost>>
  BY <1>r DEF offSymNewForOffSymOld
<1>2. /\ owner.symrec = t /\ Old /\ r \in Refs /\ recs[r].sz /\ r \notin answers /\ r \notin lost
      /\ fVC40[t] = (m \notin isetModConverted) /\ m \in Mods
  BY <1>r, <1>1 DEF IInv, ThreadOK, ConstantsOK
<1>3. /\ recs[r] \in [sz : BOOLEAN, ib : Int] /\ recs[r].ib = Place(r)
      /\ Span[r] \cup Hidden[r] \subseteq pages
  BY <1>2 DEF IInv, TypeOK, RecOK
<1>4. widens <=> ~mods[m].fValid /\ fmt = "vc40"
  BY <1>2 DEF IInv, ModOK, Widens, Converts
<1>5. fmt = "vc40" => m \in isetModConverted'
  BY <1>1, <1>2, <1>4 DEF IInv, ModOK
<1>6. off = At60(r)
  <2>1. CASE fmt = "vc40" /\ m \notin isetModConverted
    <3>1. ~mods[m].fValid /\ fVC40[t] /\ recs[r].ib = At40(r)
      BY <1>2, <1>3, <2>1 DEF IInv, ModOK, Place
    <3>2. QED
      BY <1>2, <2>1, <3>1, WidenedRight
  <2>2. CASE ~(fmt = "vc40" /\ m \notin isetModConverted)
    BY <1>2, <1>3, <2>2 DEF Place
  <2>3. QED
    BY <2>1, <2>2
<1>7. Renamed(m, off) = AtSz(r) /\ AtSz(r) \in Int
  BY <1>2, <1>6, RenamedRight, PlacesInt
<1>8. /\ pc' = [pc EXCEPT ![t] = "idle"] /\ cur' = cur
      /\ owner' = [owner EXCEPT !.symrec = Nobody]
      /\ answers' = answers \cup {r}
  BY <1>1 DEF Return
<1>9. widens \in BOOLEAN
  OBVIOUS
<1> HIDE DEF m, widens, off
<1>10. recs'[r] = [recs[r] EXCEPT !.ib = AtSz(r)]
  BY <1>1, <1>2, <1>7
<1>11. recs'[r] \in [sz : BOOLEAN, ib : Int] /\ recs'[r].sz = recs[r].sz /\ recs'[r].ib = AtSz(r)
  BY <1>3, <1>7, <1>10
<1>12. \A s \in Refs : Pending(s) => s = r
  BY <1>r, <1>1, OnePending
<1>13. ASSUME NEW s \in Refs
       PROVE  RecOK(s)' /\ recs'[s] \in [sz : BOOLEAN, ib : Int]
  <2>1. CASE s = r
    <3>1. Old' /\ AtSz(r)' = AtSz(r) /\ r \in answers'
      BY <1>1, <1>2, <1>8 DEF Old, AtSz
    <3>2. fmt' = "vc40" => Of[r] \in isetModConverted'
      BY <1>1, <1>5 DEF m
    <3>3. RecOK(r)'
      BY <1>1, <1>2, <1>3, <1>11, <3>1, <3>2 DEF RecOK, AtSz
    <3>4. QED
      BY <1>11, <2>1, <3>3
  <2>2. CASE s # r
    <3>1. ~Pending(s) /\ (s \in answers' <=> s \in answers)
      BY <1>8, <1>12, <2>2
    <3>2. CASE widens
      <4>1. fmt = "vc40" /\ isetModConverted' = isetModConverted \cup {m}
        BY <1>1, <1>4, <3>2
      <4>2. recs'[s] = IF Of[s] = m /\ m \notin isetModConverted
                       THEN [recs[s] EXCEPT !.ib = Widened(m, @)] ELSE recs[s]
        BY <1>1, <2>2, <3>2 DEF Moves
      <4>3. QED
        BY <1>1, <1>2, <3>1, <4>1, <4>2, MovedOK
    <3>3. CASE ~widens
      <4>1. recs'[s] = recs[s] /\ isetModConverted' = isetModConverted
        BY <1>1, <2>2, <3>3
      <4>2. QED
        BY <1>1, <3>1, <4>1, RecKept DEF IInv, TypeOK
    <3>4. QED
      BY <3>2, <3>3
  <2>3. QED
    BY <2>1, <2>2
<1>14. /\ mods' \in [Mods -> [open : BOOLEAN, wide : BOOLEAN, sz : BOOLEAN, fValid : BOOLEAN]]
       /\ \A n \in Mods : ModOK(n)'
  <2>1. isetModConverted \subseteq isetModConverted'
    BY <1>1
  <2>2. CASE mods[m].fValid
    <3>1. mods' = mods
      BY <1>1, <2>2
    <3>2. QED
      BY <1>1, <2>1, <3>1, ModKept DEF IInv, TypeOK
  <2>3. CASE ~mods[m].fValid
    <3>1. Queried(m, FALSE)
      BY <1>1, <2>3
    <3>2. Widens(m) => m \in isetModConverted'
      BY <1>5 DEF Widens
    <3>3. QED
      BY <1>1, <1>2, <2>1, <3>1, <3>2, QueriedOK
  <2>4. QED
    BY <2>2, <2>3
<1>15. owner' \in [symrec : Threads \cup {Nobody}, mods : Threads \cup {Nobody}]
       /\ owner'.mods = owner.mods
  BY <1>8 DEF IInv, TypeOK
<1>16. ASSUME NEW u \in Threads
       PROVE  ThreadOK(u)'
  <2>1. CASE u = t
    <3>1. pc'[t] = "idle"
      BY <1>8 DEF IInv, TypeOK
    <3>2. QED
      BY <2>1, <3>1 DEF ThreadOK
  <2>2. CASE u # t
    <3>1. pc'[u] = pc[u] /\ cur'[u] = cur[u] /\ fVC40'[u] = fVC40[u]
      BY <1>1, <1>8, <2>2 DEF IInv, TypeOK
    <3>2. pc[u] \notin {"open", "move"}
      BY <1>1, <2>2, OnePending
    <3>3. QED
      BY <1>1, <1>15, <3>1, <3>2, ThreadKept DEF IInv
  <2>3. QED
    BY <2>1, <2>2
<1>17. recs' \in [Refs -> [sz : BOOLEAN, ib : Int]]
  BY <1>1, <1>13
<1>18. TypeOK'
  BY <1>1, <1>2, <1>8, <1>14, <1>15, <1>17 DEF IInv, TypeOK
<1>19. AllPages' = AllPages
  BY DEF AllPages
<1>20. QED
  BY <1>1, <1>13, <1>14, <1>16, <1>18, <1>19 DEF IInv

\* A record whose module fails to open keeps its place, and nobody holds it any more.
LEMMA openModFailsInv ==
  ASSUME ConstantsOK, IInv, NEW t \in Threads, openModFails(t)
  PROVE  IInv'
<1>r. PICK r : r = cur[t]
  OBVIOUS
<1>1. /\ pc[t] = "open" /\ pc' = [pc EXCEPT ![t] = "idle"]
      /\ owner' = [owner EXCEPT !.symrec = Nobody]
      /\ lost' = lost \cup {r}
      /\ UNCHANGED <<fmt, fRead, pages, recs, isetModConverted, mods, cur, fVC40, answers>>
  BY <1>r DEF openModFails
<1>2. Old /\ r \in Refs /\ recs[r].sz /\ r \notin answers /\ r \notin lost
  BY <1>r, <1>1 DEF IInv, ThreadOK
<1>3. \A s \in Refs : Pending(s) => s = r
  BY <1>r, <1>1, OnePending
<1>4. ASSUME NEW s \in Refs
      PROVE  RecOK(s)'
  <2>1. CASE s = r
    <3>1. Old' /\ Place(r)' = Place(r)
      BY <1>1, <1>2 DEF Old, Place, At40, At60
    <3>2. RecOK(r)
      BY <1>2 DEF IInv
    <3>3. QED
      BY <1>1, <1>2, <2>1, <3>1, <3>2 DEF RecOK
  <2>2. CASE s # r
    <3>1. ~Pending(s) /\ (s \in lost' <=> s \in lost)
      BY <1>1, <1>3, <2>2
    <3>2. QED
      BY <1>1, <3>1, RecKept DEF IInv
  <2>3. QED
    BY <2>1, <2>2
<1>5. owner' \in [symrec : Threads \cup {Nobody}, mods : Threads \cup {Nobody}]
      /\ owner'.mods = owner.mods
  BY <1>1 DEF IInv, TypeOK
<1>6. ASSUME NEW u \in Threads
      PROVE  ThreadOK(u)'
  <2>1. CASE u = t
    <3>1. pc'[t] = "idle"
      BY <1>1 DEF IInv, TypeOK
    <3>2. QED
      BY <2>1, <3>1 DEF ThreadOK
  <2>2. CASE u # t
    <3>1. pc'[u] = pc[u]
      BY <1>1, <2>2 DEF IInv, TypeOK
    <3>2. pc[u] \notin {"open", "move"}
      BY <1>1, <2>2, OnePending
    <3>3. QED
      BY <1>1, <1>5, <3>1, <3>2, ThreadKept DEF IInv
  <2>3. QED
    BY <2>1, <2>2
<1>7. \A m \in Mods : ModOK(m)'
  BY <1>1, ModKept DEF IInv
<1>8. TypeOK'
  BY <1>1, <1>2, <1>5 DEF IInv, TypeOK
<1>9. AllPages' = AllPages
  BY DEF AllPages
<1>10. QED
  BY <1>1, <1>4, <1>6, <1>7, <1>8, <1>9 DEF IInv

LEMMA Preserved ==
  ASSUME ConstantsOK, IInv, [Next]_vars
  PROVE  IInv'
<1>1. CASE UNCHANGED vars
  <2>1. UNCHANGED <<fmt, fRead, pages, recs, isetModConverted, mods, owner, pc, cur, fVC40, answers, lost>>
    BY <1>1 DEF vars
  <2>2. TypeOK' /\ AllPages' = AllPages
    BY <2>1 DEF IInv, TypeOK, AllPages
  <2>3. \A r \in Refs : RecOK(r)'
    BY <2>1, RecKept DEF IInv, Pending
  <2>4. \A t \in Threads : ThreadOK(t)'
    BY <2>1, ThreadKept DEF IInv
  <2>5. \A m \in Mods : ModOK(m)'
    BY <2>1, ModKept DEF IInv
  <2>6. QED
    BY <2>1, <2>2, <2>3, <2>4, <2>5 DEF IInv
<1>2. CASE OpenGlobals
  BY <1>2, OpenGlobalsInv
<1>3. ASSUME NEW m \in Mods, OpenMod(m) \/ CloseMod(m)
      PROVE  IInv'
  BY <1>3, OpenModInv, CloseModInv
<1>4. ASSUME NEW t \in Threads,
             \/ \E r \in Refs : ReadRec(t, r)
             \/ openModByImod(t) \/ openModFails(t) \/ offSymNewForOffSymOld(t)
             \/ \E m \in Mods, given \in BOOLEAN : QuerySymbols(t, m, given)
             \/ QueryWidened(t)
      PROVE  IInv'
  BY <1>4, ReadRecInv, openModByImodInv, openModFailsInv, offSymNewForOffSymOldInv,
     QuerySymbolsInv, QueryWidenedInv
<1>5. QED
  BY <1>1, <1>2, <1>3, <1>4 DEF Next

-----------------------------------------------------------------------------
(* What follows.                                                           *)

LEMMA InvRight ==
  ASSUME ConstantsOK, IInv
  PROVE  SymRecsRight
<1>1. RefsLeadRight
  <2>1. ASSUME NEW r \in answers \ lost
        PROVE  recs[r].ib = OffSz[Of[r]][Ith[r]]
    <3>1. r \in Refs /\ RecOK(r)
      BY DEF IInv, TypeOK
    <3>2. QED
      BY <3>1 DEF RecOK, AtSz
  <2>2. ASSUME NEW r \in Refs, ~recs[r].sz \/ r \in lost
        PROVE  recs[r].ib = IF fmt = "vc40" /\ Of[r] \notin isetModConverted
                            THEN Off40[Of[r]][Ith[r]] ELSE Off60[Of[r]][Ith[r]]
    BY <2>2 DEF IInv, RecOK, Place, At40, At60
  <2>3. QED
    BY <2>1, <2>2 DEF RefsLeadRight
<1>2. ReadWhole
  <2>1. ASSUME NEW r \in answers
        PROVE  Span[r] \cup (IF Old THEN Hidden[r] ELSE {}) \subseteq pages
    <3>1. r \in Refs /\ RecOK(r)
      BY DEF IInv, TypeOK
    <3>2. QED
      BY <3>1 DEF RecOK
  <2>2. QED
    BY <2>1 DEF ReadWhole
<1>3. StuckOnlyOld
  BY DEF IInv, ThreadOK, StuckOnlyOld, Stuck
<1>4. QED
  BY <1>1, <1>2, <1>3 DEF SymRecsRight

\* For any threads, modules, records and places, a record that is handed out was read with
\* its name and leads to the symbol it named, each conversion counted once; threads wait for
\* each other only over PDBs whose types are widened.  A module that fails to open leaves
\* a record converted and its place not (dbi.cpp:2688-2696), and no other record wrong.
THEOREM ReferencesLead ==
  ASSUME ConstantsOK
  PROVE  Spec => []SymRecsRight
<1>1. Init => IInv
  BY InitInv
<1>2. IInv /\ [Next]_vars => IInv'
  BY Preserved
<1>3. IInv => SymRecsRight
  BY InvRight
<1>4. QED
  BY <1>1, <1>2, <1>3, PTL DEF Spec

-----------------------------------------------------------------------------
(* FrameData: the invariant.                                               *)

BlockOK == [rva : 0 .. Half - 1, cb : Nat]

\* The blocks of s have the address x.
Has(s, x) == \E i \in DOMAIN s : in(s[i], x)

InOrder(key) == \A i, j \in DOMAIN key : i <= j => key[i] <= key[j]

FrameTypes ==
  /\ open \in BOOLEAN /\ opened \in BOOLEAN /\ fFrameDataLoaded \in BOOLEAN
  /\ stored \in Seq(RvaStarts) /\ pdbgFrameData \in Seq(RvaStarts) /\ added \in Seq(RvaStarts)
  /\ m_rgrvaRemovals \in Seq(BlockOK)

\* Nothing is left in memory between sessions.
Forgotten ==
  ~open => ~opened /\ pdbgFrameData = <<>> /\ m_rgrvaRemovals = <<>> /\ ~fFrameDataLoaded

\* Before the first frames come, the blocks are the code that went.
BlocksRight ==
  open /\ added = <<>> =>
    /\ ~opened /\ ~fFrameDataLoaded
    /\ \A f \in RvaStarts : f \in gone <=> Has(m_rgrvaRemovals, f)

\* From then on nothing is swept, and the frames are what will be stored.
FramesKept ==
  open /\ added # <<>> =>
    /\ opened /\ (m_rgrvaRemovals = <<>> \/ fFrameDataLoaded)
    /\ \A f \in RvaStarts :
         Count(pdbgFrameData, f) = Count(added, f) + IF f \in gone THEN 0 ELSE Count(stored, f)

FrameInv ==
  FrameTypes /\ InOrder(stored) /\ Forgotten /\ BlocksRight /\ FramesKept

-----------------------------------------------------------------------------
(* Numbers and sets.                                                       *)

\* A set of natural numbers that is not empty has a least one.
LEMMA LeastIn ==
  ASSUME NEW T \in SUBSET Nat, T # {}
  PROVE  \E x \in T : \A y \in T : x <= y
<1> DEFINE R == OpToRel(<, Nat)
<1>1. IsWellFoundedOn(R, Nat)
  BY NatLessThanWellFounded
<1>2. \A x, y \in Nat : <<y, x>> \in R <=> y < x
  BY DEF OpToRel
<1> HIDE DEF R
<1>3. PICK x \in T : \A y \in T : <<y, x>> \notin R
  BY <1>1, WFMin
<1>4. ASSUME NEW y \in T
      PROVE  x <= y
  <2>1. x \in Nat /\ y \in Nat /\ <<y, x>> \notin R
    BY <1>3
  <2>2. ~(y < x)
    BY <1>2, <2>1, Zenon
  <2>3. QED
    BY <2>1, <2>2
<1>5. QED
  BY <1>3, <1>4

LEMMA MinIs ==
  ASSUME NEW T \in SUBSET Nat, T # {}
  PROVE  Min(T) \in T /\ \A y \in T : Min(T) <= y
BY LeastIn DEF Min

LEMMA MaxIs ==
  ASSUME NEW n \in Nat, NEW T \in SUBSET (1 .. n), T # {}
  PROVE  Max(T) \in T /\ \A y \in T : y <= Max(T)
<1> DEFINE D == {n - x : x \in T}
<1>1. D \in SUBSET Nat /\ D # {}
  <2>1. \A x \in T : n - x \in Nat
    <3>1. ASSUME NEW x \in T
          PROVE  n - x \in Nat
      <4>1. x \in 1 .. n
        OBVIOUS
      <4>2. QED
        BY <4>1
    <3>2. QED
      BY <3>1
  <2>2. QED
    BY <2>1
<1>2. PICK d \in D : \A e \in D : d <= e
  BY <1>1, LeastIn
<1>3. PICK x \in T : d = n - x
  BY <1>2
<1>4. \A y \in T : y <= x
  <2>1. ASSUME NEW y \in T
        PROVE  y <= x
    <3>1. n - y \in D
      OBVIOUS
    <3>2. n - x <= n - y /\ x \in Int /\ y \in Int
      BY <1>2, <1>3, <3>1
    <3>3. QED
      BY <3>2
  <2>2. QED
    BY <2>1
<1>5. \A y \in T : x >= y
  <2>1. \A y \in T : x \in Int /\ y \in Int
    OBVIOUS
  <2>2. QED
    BY <1>4, <2>1
<1>6. Max(T) \in T /\ \A y \in T : Max(T) >= y
  BY <1>5 DEF Max
<1>7. \A y \in T : Max(T) \in Int /\ y \in Int
  <2>1. ASSUME NEW y \in T
        PROVE  y \in Int
    <3>1. y \in 1 .. n
      OBVIOUS
    <3>2. QED
      BY <3>1
  <2>2. QED
    BY <1>6, <2>1
<1>8. QED
  BY <1>6, <1>7

LEMMA UpTo ==
  ASSUME NEW n \in Nat
  PROVE  IsFiniteSet(1 .. n) /\ Cardinality(1 .. n) = n
<1>1. 1 \in Int /\ n \in Int
  OBVIOUS
<1>2. IsFiniteSet(1 .. n) /\ Cardinality(1 .. n) = IF 1 > n THEN 0 ELSE n - 1 + 1
  BY <1>1, FS_Interval
<1>3. QED
  BY <1>2

\* As many there as here.
LEMMA SameNumber ==
  ASSUME NEW A, NEW B, IsFiniteSet(A), NEW g \in [A -> B],
         \A x, y \in A : g[x] = g[y] => x = y, \A z \in B : \E x \in A : g[x] = z
  PROVE  Cardinality(B) = Cardinality(A)
<1>1. g \in Bijection(A, B)
  BY DEF Bijection, Injection, Surjection, IsInjective
<1>2. ExistsBijection(A, B)
  BY <1>1 DEF ExistsBijection
<1>3. QED
  BY <1>2, FS_Bijection

-----------------------------------------------------------------------------
(* Sorting.                                                                *)

\* In the lower half of the addresses the comparison is that of numbers.
LEMMA Less ==
  ASSUME FrameDataAssumption, NEW x \in 0 .. Half - 1, NEW y \in 0 .. Half - 1
  PROVE  Before(x, y) <=> x < y
<1> DEFINE n == 2 * Half
<1>1. Half \in Nat /\ Half > 0 /\ n \in Nat \ {0} /\ n = Half + Half /\ x \in Int /\ y \in Int
  BY DEF FrameDataAssumption
<1>2. x - y \in Int /\ -Half < x - y /\ x - y < Half
  BY <1>1
<1> HIDE DEF n
<1>3. CASE x < y
  <2>1. (x - y) + n \in 0 .. n - 1 /\ (x - y) + n >= Half
    BY <1>1, <1>2, <1>3
  <2>2. (x - y) % n = (x - y) + n
    <3>1. PICK a \in Int : a = x - y
      BY <1>2
    <3>2. a + n \in 0 .. n - 1
      BY <2>1, <3>1
    <3>3. a % n = a + n
      BY <1>1, <3>2
    <3>4. QED
      BY <3>1, <3>3
  <2>3. QED
    BY <1>3, <2>1, <2>2 DEF Before, n
<1>4. CASE ~(x < y)
  <2>1. x - y \in 0 .. n - 1 /\ ~(x - y >= Half)
    BY <1>1, <1>2, <1>4
  <2>2. (x - y) % n = x - y
    <3>1. PICK a \in Int : a = x - y
      BY <1>2
    <3>2. a \in 0 .. n - 1
      BY <2>1, <3>1
    <3>3. a % n = a
      BY <1>1, <3>2
    <3>4. QED
      BY <3>1, <3>3
  <2>3. QED
    BY <1>4, <2>1, <2>2 DEF Before, n
<1>5. QED
  BY <1>3, <1>4

Keys(n) == [1 .. n -> 0 .. Half - 1]

\* What is sorted up to i.
NotAfter(key, n, i) == {j \in 1 .. n : key[j] < key[i] \/ (key[j] = key[i] /\ j <= i)}

LEMMA PlaceIs ==
  ASSUME FrameDataAssumption, NEW n \in Nat, NEW key \in Keys(n), NEW i \in 1 .. n
  PROVE  /\ PlaceOf(key, i) = Cardinality(NotAfter(key, n, i))
         /\ IsFiniteSet(NotAfter(key, n, i)) /\ i \in NotAfter(key, n, i)
         /\ PlaceOf(key, i) \in 1 .. n
<1> DEFINE S == {j \in DOMAIN key : Before(key[j], key[i]) \/ (~Before(key[i], key[j]) /\ j <= i)}
           T == NotAfter(key, n, i)
<1>1. DOMAIN key = 1 .. n /\ \A j \in 1 .. n : key[j] \in 0 .. Half - 1
  BY DEF Keys
<1>2. \A j \in 1 .. n : /\ Before(key[j], key[i]) <=> key[j] < key[i]
                        /\ Before(key[i], key[j]) <=> key[i] < key[j]
  BY <1>1, Less
<1>3. \A j \in 1 .. n : key[j] \in Int /\ key[i] \in Int
  BY <1>1 DEF FrameDataAssumption
<1>4. \A j \in 1 .. n : ~(key[i] < key[j]) <=> key[j] < key[i] \/ key[j] = key[i]
  BY <1>3
<1>5. S = T
  BY <1>1, <1>2, <1>4 DEF NotAfter
<1>6. T \in SUBSET (1 .. n) /\ i \in T
  BY DEF NotAfter
<1>7. PlaceOf(key, i) = Cardinality(T)
  BY <1>5 DEF PlaceOf
<1> HIDE DEF S, T
<1>8. IsFiniteSet(T) /\ Cardinality(T) <= n
  <2>1. IsFiniteSet(1 .. n) /\ Cardinality(1 .. n) = n /\ T \in SUBSET (1 .. n)
    BY <1>6, UpTo
  <2>2. IsFiniteSet(T) /\ Cardinality(T) <= Cardinality(1 .. n)
    BY <2>1, FS_Subset
  <2>3. QED
    BY <2>1, <2>2
<1>9. Cardinality(T) \in Nat /\ Cardinality(T) # 0
  BY <1>6, <1>8, FS_CardinalityType, FS_EmptySet
<1>10. QED
  BY <1>6, <1>7, <1>8, <1>9 DEF T

\* The places are those of an order in which no key comes before a smaller one.
LEMMA PlacesOrder ==
  ASSUME FrameDataAssumption, NEW n \in Nat, NEW key \in Keys(n), NEW i \in 1 .. n, NEW j \in 1 .. n,
         key[i] < key[j] \/ (key[i] = key[j] /\ i < j)
  PROVE  PlaceOf(key, i) < PlaceOf(key, j)
<1> DEFINE S == NotAfter(key, n, i)
           T == NotAfter(key, n, j)
<1>1. \A k \in 1 .. n : key[k] \in Int
  BY DEF Keys, FrameDataAssumption
<1>2. S \in SUBSET T /\ j \notin S
  BY <1>1 DEF NotAfter
<1>3. /\ PlaceOf(key, i) = Cardinality(S) /\ PlaceOf(key, j) = Cardinality(T)
      /\ IsFiniteSet(T) /\ j \in T
      /\ PlaceOf(key, i) \in Int /\ PlaceOf(key, j) \in Int
  BY PlaceIs
<1> HIDE DEF S, T
<1>4. Cardinality(S) <= Cardinality(T) /\ (Cardinality(T) = Cardinality(S) => T = S)
  BY <1>2, <1>3, FS_Subset
<1>5. QED
  BY <1>2, <1>3, <1>4

\* What was where, before it was sorted.
Permutes(p, n) ==
  /\ p \in [1 .. n -> 1 .. n]
  /\ \A a, b \in 1 .. n : p[a] = p[b] => a = b
  /\ \A i \in 1 .. n : \E a \in 1 .. n : p[a] = i

\* t is s, put in the order of its keys.
SortedBy(t, s, key, n) ==
  \E p : /\ Permutes(p, n)
         /\ t = [a \in 1 .. n |-> s[p[a]]]
         /\ \A a, b \in 1 .. n : a <= b => key[p[a]] <= key[p[b]]

LEMMA SortedIs ==
  ASSUME FrameDataAssumption, NEW n \in Nat, NEW key \in Keys(n), NEW s, DOMAIN s = 1 .. n
  PROVE  SortedBy(Sorted(s, key), s, key, n)
<1> DEFINE P == [i \in 1 .. n |-> PlaceOf(key, i)]
           p == [a \in 1 .. n |-> CHOOSE i \in 1 .. n : PlaceOf(key, i) = a]
<1>1. \A k \in 1 .. n : key[k] \in Int /\ PlaceOf(key, k) \in 1 .. n
  BY PlaceIs DEF Keys, FrameDataAssumption
<1>2. \A i, j \in 1 .. n : PlaceOf(key, i) <= PlaceOf(key, j) => key[i] <= key[j]
  <2>1. ASSUME NEW i \in 1 .. n, NEW j \in 1 .. n, PlaceOf(key, i) <= PlaceOf(key, j)
        PROVE  key[i] <= key[j]
    <3>1. ~(PlaceOf(key, j) < PlaceOf(key, i))
      BY <1>1, <2>1
    <3>2. ~(key[j] < key[i])
      BY <3>1, PlacesOrder
    <3>3. QED
      BY <1>1, <3>2
  <2>2. QED
    BY <2>1
<1>3. \A i, j \in 1 .. n : PlaceOf(key, i) = PlaceOf(key, j) => i = j
  <2>1. ASSUME NEW i \in 1 .. n, NEW j \in 1 .. n, PlaceOf(key, i) = PlaceOf(key, j)
        PROVE  i = j
    <3>1. key[i] <= key[j] /\ key[j] <= key[i]
      BY <1>1, <1>2, <2>1
    <3>2. key[i] = key[j]
      BY <1>1, <3>1
    <3>3. ~(i < j) /\ ~(j < i)
      <4>1. ~(PlaceOf(key, j) < PlaceOf(key, i)) /\ ~(PlaceOf(key, i) < PlaceOf(key, j))
        BY <1>1, <2>1
      <4>2. QED
        BY <3>2, <4>1, PlacesOrder
    <3>4. QED
      BY <3>3
  <2>2. QED
    BY <2>1
<1>4. \A a \in 1 .. n : \E i \in 1 .. n : PlaceOf(key, i) = a
  <2>1. P \in Injection(1 .. n, 1 .. n)
    BY <1>1, <1>3 DEF Injection, IsInjective
  <2>2. P \in Surjection(1 .. n, 1 .. n)
    <3> HIDE DEF P
    <3>1. QED
      BY <2>1, UpTo, FS_Injection
  <2>3. \A a \in 1 .. n : \E i \in 1 .. n : P[i] = a
    <3> HIDE DEF P
    <3>1. QED
      BY <2>2 DEF Surjection
  <2>4. QED
    BY <2>3
<1>5. \A a \in 1 .. n : p[a] \in 1 .. n /\ PlaceOf(key, p[a]) = a
  BY <1>4
<1>6. Sorted(s, key) = [a \in 1 .. n |-> s[p[a]]]
  BY DEF Sorted
<1>7. p \in [1 .. n -> 1 .. n]
  BY <1>5
<1> HIDE DEF p
<1>8. \A a, b \in 1 .. n : p[a] = p[b] => a = b
  BY <1>5
<1>9. \A i \in 1 .. n : \E a \in 1 .. n : p[a] = i
  <2>1. ASSUME NEW i \in 1 .. n
        PROVE  PlaceOf(key, i) \in 1 .. n /\ p[PlaceOf(key, i)] = i
    BY <1>1, <1>3, <1>5
  <2>2. QED
    BY <2>1
<1>10. \A a, b \in 1 .. n : a <= b => key[p[a]] <= key[p[b]]
  <2>1. ASSUME NEW a \in 1 .. n, NEW b \in 1 .. n, a <= b
        PROVE  key[p[a]] <= key[p[b]]
    <3>1. p[a] \in 1 .. n /\ p[b] \in 1 .. n /\ PlaceOf(key, p[a]) <= PlaceOf(key, p[b])
      BY <1>5, <2>1
    <3>2. QED
      BY <1>2, <3>1
  <2>2. QED
    BY <2>1
<1>11. Permutes(p, n)
  BY <1>7, <1>8, <1>9 DEF Permutes
<1>12. QED
  BY <1>6, <1>10, <1>11 DEF SortedBy

-----------------------------------------------------------------------------
(* Counting.                                                               *)

Where(s, f) == {i \in DOMAIN s : s[i] = f}

LEMMA CountType ==
  ASSUME NEW n \in Nat, NEW s, DOMAIN s = 1 .. n, NEW f
  PROVE  IsFiniteSet(Where(s, f)) /\ Count(s, f) = Cardinality(Where(s, f)) /\ Count(s, f) \in Nat
<1>1. Where(s, f) \in SUBSET (1 .. n) /\ Count(s, f) = Cardinality(Where(s, f))
  BY DEF Where, Count
<1>2. IsFiniteSet(Where(s, f))
  BY <1>1, UpTo, FS_Subset
<1>3. QED
  BY <1>1, <1>2, FS_CardinalityType

LEMMA CountPermuted ==
  ASSUME NEW n \in Nat, NEW p, Permutes(p, n), NEW s, DOMAIN s = 1 .. n,
         NEW t, t = [a \in 1 .. n |-> s[p[a]]], NEW f
  PROVE  Count(t, f) = Count(s, f)
<1> DEFINE A == Where(t, f)
           B == Where(s, f)
           g == [a \in A |-> p[a]]
<1>1. A \in SUBSET (1 .. n) /\ B \in SUBSET (1 .. n) /\ \A a \in 1 .. n : a \in A <=> p[a] \in B
  BY DEF Where, Permutes
<1>2. g \in [A -> B]
  BY <1>1
<1>3. \A x, y \in A : g[x] = g[y] => x = y
  BY <1>1 DEF Permutes
<1>4. \A z \in B : \E x \in A : g[x] = z
  BY <1>1 DEF Permutes
<1>5. DOMAIN t = 1 .. n
  OBVIOUS
<1>6. IsFiniteSet(A) /\ Count(t, f) = Cardinality(A) /\ Count(s, f) = Cardinality(B)
  BY <1>5, CountType
<1> HIDE DEF A, B, g
<1>7. QED
  BY <1>2, <1>3, <1>4, <1>6, SameNumber

\* The n elements of s follow the first k of t.
Follows(s, n, k, t, m) ==
  /\ n \in Nat /\ k \in Nat /\ m \in Nat /\ DOMAIN s = 1 .. n /\ DOMAIN t = 1 .. m
  /\ \A i \in 1 .. n : k + i \in 1 .. m /\ t[k + i] = s[i]

Among(t, f, k, n) == {j \in Where(t, f) : j > k /\ j <= k + n}

LEMMA CountShifted ==
  ASSUME NEW s, NEW n, NEW k, NEW t, NEW m, Follows(s, n, k, t, m), NEW f
  PROVE  Count(s, f) = Cardinality(Among(t, f, k, n))
<1> USE DEF Follows
<1> DEFINE A == Where(s, f)
           B == Among(t, f, k, n)
           g == [i \in A |-> k + i]
<1>1. A \in SUBSET (1 .. n) /\ B \in SUBSET (1 .. m)
  BY DEF Where, Among
<1>2. \A i \in A : k + i \in B /\ i \in Int
  <2>1. ASSUME NEW i \in A
        PROVE  k + i \in B /\ i \in Int
    <3>1. i \in 1 .. n /\ s[i] = f
      BY DEF Where
    <3>2. k + i \in 1 .. m /\ t[k + i] = f
      BY <3>1
    <3>3. k + i > k /\ k + i <= k + n /\ i \in Int
      BY <3>1
    <3>4. QED
      BY <3>2, <3>3 DEF Where, Among
  <2>2. QED
    BY <2>1
<1>3. g \in [A -> B]
  BY <1>2
<1>4. \A x, y \in A : g[x] = g[y] => x = y
  BY <1>2
<1>5. \A z \in B : \E x \in A : g[x] = z
  <2>1. ASSUME NEW z \in B
        PROVE  z - k \in A /\ k + (z - k) = z
    <3>1. z \in 1 .. m /\ t[z] = f /\ z > k /\ z <= k + n
      BY DEF Where, Among
    <3>2. z - k \in 1 .. n /\ k + (z - k) = z
      BY <3>1
    <3>3. s[z - k] = f
      BY <3>1, <3>2
    <3>4. QED
      BY <3>2, <3>3 DEF Where
  <2>2. QED
    BY <2>1
<1>6. IsFiniteSet(A) /\ Count(s, f) = Cardinality(A)
  BY CountType
<1> HIDE DEF A, B, g
<1>7. Cardinality(B) = Cardinality(A)
  BY <1>3, <1>4, <1>5, <1>6, SameNumber
<1>8. QED
  BY <1>6, <1>7 DEF B

LEMMA CountJoined ==
  ASSUME NEW T, NEW s \in Seq(T), NEW t \in Seq(T), NEW f
  PROVE  Count(s \o t, f) = Count(s, f) + Count(t, f)
<1> DEFINE n == Len(s)
           m == Len(t)
           u == s \o t
           W == Where(u, f)
           A == Among(u, f, 0, n)
           B == Among(u, f, n, m)
<1>1. n \in Nat /\ m \in Nat /\ DOMAIN s = 1 .. n /\ DOMAIN t = 1 .. m /\ DOMAIN u = 1 .. n + m /\ n + m \in Nat
  BY LenProperties
<1>2. /\ \A i \in 1 .. n : u[i] = s[i]
      /\ \A i \in 1 .. m : u[n + i] = t[i]
  BY <1>1
<1>3. /\ \A i \in 1 .. n : 0 + i \in 1 .. n + m /\ u[0 + i] = s[i]
      /\ \A i \in 1 .. m : n + i \in 1 .. n + m
  BY <1>1, <1>2
<1> HIDE DEF u, n, m
<1>4. Count(s, f) = Cardinality(A)
  <2>1. Follows(s, n, 0, u, n + m)
    BY <1>1, <1>3 DEF Follows
  <2>2. QED
    BY <2>1, CountShifted
<1>5. Count(t, f) = Cardinality(B)
  <2>1. Follows(t, m, n, u, n + m)
    BY <1>1, <1>2, <1>3 DEF Follows
  <2>2. QED
    BY <2>1, CountShifted
<1>6. W \in SUBSET (1 .. n + m) /\ IsFiniteSet(W) /\ Count(u, f) = Cardinality(W)
  <2>1. PICK k \in Nat : k = n + m
    BY <1>1
  <2>2. IsFiniteSet(W) /\ Count(u, f) = Cardinality(W)
    BY <1>1, <2>1, CountType
  <2>3. QED
    BY <1>1, <2>2 DEF Where
<1>7. A \cup B = W /\ A \cap B = {}
  <2> HIDE DEF W
  <2>1. A = {j \in W : j > 0 /\ j <= 0 + n} /\ B = {j \in W : j > n /\ j <= n + m}
    BY DEF Among, W
  <2> HIDE DEF A, B
  <2>2. \A j \in W : j \in Int /\ 0 < j /\ j <= n + m
    BY <1>1, <1>6
  <2>3. QED
    BY <1>1, <2>1, <2>2
<1>8. A \in SUBSET W /\ B \in SUBSET W
  BY <1>7
<1> HIDE DEF A, B, W
<1>9. IsFiniteSet(A) /\ IsFiniteSet(B)
  BY <1>6, <1>8, FS_Subset
<1>10. Cardinality(A \cup B) = Cardinality(A) + Cardinality(B) - Cardinality(A \cap B)
  BY <1>9, FS_Union
<1>11. Cardinality(A \cap B) = 0 /\ Cardinality(A) \in Nat /\ Cardinality(B) \in Nat
  BY <1>7, <1>9, FS_EmptySet, FS_CardinalityType
<1>12. Cardinality(W) = Cardinality(A) + Cardinality(B)
  <2>1. Cardinality(W) = Cardinality(A) + Cardinality(B) - 0
    BY Zenon, <1>7, <1>10, <1>11
  <2>2. PICK a \in Nat, b \in Nat : a = Cardinality(A) /\ b = Cardinality(B)
    BY <1>11
  <2>3. a + b - 0 = a + b
    OBVIOUS
  <2>4. QED
    BY Zenon, <2>1, <2>2, <2>3
<1>13. QED
  BY <1>4, <1>5, <1>6, <1>12 DEF u

\* The elements of s from the k-th on.
LEMMA CountAfter ==
  ASSUME NEW T, NEW s \in Seq(T), NEW k \in 1 .. Len(s) + 1, NEW f, \A i \in 1 .. k - 1 : s[i] # f
  PROVE  /\ SubSeq(s, k, Len(s)) \in Seq(T)
         /\ Len(SubSeq(s, k, Len(s))) = Len(s) + 1 - k
         /\ \A i \in 1 .. Len(s) + 1 - k : SubSeq(s, k, Len(s))[i] = s[k - 1 + i] /\ k - 1 + i \in 1 .. Len(s)
         /\ Count(SubSeq(s, k, Len(s)), f) = Count(s, f)
<1> DEFINE m == Len(s)
           n == m + 1 - k
           h == k - 1
           t == SubSeq(s, k, m)
<1>1. m \in Nat /\ n \in Nat /\ h \in Nat /\ DOMAIN s = 1 .. m /\ k = h + 1 /\ m = h + n
  BY LenProperties
<1>2. t \in Seq(T) /\ Len(t) = n /\ \A i \in 1 .. n : t[i] = s[h + i]
  <2>1. \A i \in k .. m : s[i] \in T
    BY <1>1, ElementOfSeq
  <2>2. k \in Int /\ m \in Int
    BY <1>1
  <2>3. /\ t \in Seq(T) /\ Len(t) = IF k <= m THEN m - k + 1 ELSE 0
        /\ \A i \in 1 .. m - k + 1 : t[i] = s[k + i - 1]
    BY <2>1, <2>2, SubSeqProperties
  <2>4. m - k + 1 = n /\ (IF k <= m THEN m - k + 1 ELSE 0) = n /\ \A i \in 1 .. n : k + i - 1 = h + i
    <3> HIDE DEF m
    <3>1. QED
      BY <1>1
  <2> HIDE DEF n, h, t, m
  <2>5. QED
    BY <2>3, <2>4
<1>3. DOMAIN t = 1 .. n
  BY <1>2, LenProperties
<1>4. \A i \in 1 .. n : h + i \in 1 .. m /\ s[h + i] = t[i]
  BY <1>1, <1>2
<1>5. Among(s, f, h, n) = Where(s, f)
  <2>1. ASSUME NEW j \in Where(s, f)
        PROVE  j > h /\ j <= h + n
    <3>1. j \in 1 .. m /\ s[j] = f
      BY <1>1 DEF Where
    <3>2. j \notin 1 .. k - 1
      BY <3>1
    <3> HIDE DEF m, n, h
    <3>3. QED
      BY <1>1, <3>1, <3>2
  <2>2. QED
    BY <2>1 DEF Among
<1> HIDE DEF n, h, t, m
<1>6. Count(t, f) = Cardinality(Among(s, f, h, n))
  <2>1. Follows(t, n, h, s, m)
    BY <1>1, <1>3, <1>4 DEF Follows
  <2>2. QED
    BY <2>1, CountShifted
<1>7. Count(s, f) = Cardinality(Where(s, f))
  BY <1>1, CountType
<1>8. QED
  BY <1>2, <1>4, <1>5, <1>6, <1>7 DEF n, h, t, m

-----------------------------------------------------------------------------
(* Frames and blocks in order.                                             *)

LEMMA frameSortIs ==
  ASSUME FrameDataAssumption, NEW T \in SUBSET (0 .. Half - 1), NEW s \in Seq(T)
  PROVE  /\ frameSort(s) \in Seq(T) /\ Len(frameSort(s)) = Len(s)
         /\ InOrder(frameSort(s))
         /\ \A f : Count(frameSort(s), f) = Count(s, f)
<1> DEFINE n == Len(s)
           t == frameSort(s)
<1>1. n \in Nat /\ DOMAIN s = 1 .. n /\ s \in [1 .. n -> T] /\ s \in Keys(n)
  BY LenProperties DEF Keys
<1>2. PICK p : /\ Permutes(p, n)
               /\ t = [a \in 1 .. n |-> s[p[a]]]
               /\ \A a, b \in 1 .. n : a <= b => s[p[a]] <= s[p[b]]
  <2>1. t = Sorted(s, s)
    BY DEF frameSort
  <2> HIDE DEF n, t
  <2>2. SortedBy(Sorted(s, s), s, s, n)
    BY <1>1, SortedIs
  <2>3. QED
    BY <2>1, <2>2 DEF SortedBy
<1> HIDE DEF t
<1>3. \A a \in 1 .. n : p[a] \in 1 .. n /\ t[a] = s[p[a]] /\ s[p[a]] \in T
  BY <1>1, <1>2 DEF Permutes
<1>4. DOMAIN t = 1 .. n /\ t \in [1 .. n -> T]
  BY <1>2, <1>3
<1>5. t \in Seq(T) /\ Len(t) = n
  <2> HIDE DEF n
  <2>1. t \in Seq(T)
    BY <1>1, <1>4, SeqDef
  <2>2. Len(t) \in Nat /\ DOMAIN t = 1 .. Len(t)
    BY <2>1, LenProperties
  <2>3. QED
    BY <1>1, <1>4, <2>1, <2>2
<1>6. InOrder(t)
  BY <1>2, <1>3, <1>4 DEF InOrder
<1>7. \A f : Count(t, f) = Count(s, f)
  <2> HIDE DEF n
  <2>1. QED
    BY <1>1, <1>2, CountPermuted
<1>8. QED
  BY <1>5, <1>6, <1>7 DEF t

LEMMA blkSortIs ==
  ASSUME FrameDataAssumption, NEW s \in Seq(BlockOK)
  PROVE  /\ blkSort(s) \in Seq(BlockOK) /\ Len(blkSort(s)) = Len(s)
         /\ \A i, j \in 1 .. Len(s) : i <= j => blkSort(s)[i].rva <= blkSort(s)[j].rva
         /\ \A x : Has(blkSort(s), x) <=> Has(s, x)
<1> DEFINE n == Len(s)
           t == blkSort(s)
           key == [i \in 1 .. n |-> s[i].rva]
<1>1. n \in Nat /\ DOMAIN s = 1 .. n /\ s \in [1 .. n -> BlockOK]
  BY LenProperties
<1>2. key \in Keys(n)
  BY <1>1 DEF Keys, BlockOK
<1>3. t = Sorted(s, key)
  BY <1>1 DEF blkSort
<1> HIDE DEF n, key, t
<1>4. PICK p : /\ Permutes(p, n)
               /\ t = [a \in 1 .. n |-> s[p[a]]]
               /\ \A a, b \in 1 .. n : a <= b => key[p[a]] <= key[p[b]]
  <2>1. SortedBy(Sorted(s, key), s, key, n)
    BY <1>1, <1>2, SortedIs
  <2>2. QED
    BY <1>3, <2>1 DEF SortedBy
<1>5. \A a \in 1 .. n : p[a] \in 1 .. n /\ t[a] = s[p[a]] /\ s[p[a]] \in BlockOK /\ key[p[a]] = t[a].rva
  BY <1>1, <1>4 DEF Permutes, key
<1>6. DOMAIN t = 1 .. n /\ t \in [1 .. n -> BlockOK]
  BY <1>4, <1>5
<1>7. t \in Seq(BlockOK) /\ Len(t) = n
  <2>1. t \in Seq(BlockOK)
    BY <1>1, <1>6, SeqDef
  <2>2. Len(t) \in Nat /\ DOMAIN t = 1 .. Len(t)
    BY <2>1, LenProperties
  <2>3. QED
    BY <1>1, <1>6, <2>1, <2>2
<1>8. \A i, j \in 1 .. n : i <= j => t[i].rva <= t[j].rva
  BY <1>4, <1>5
<1>9. \A x : Has(t, x) <=> Has(s, x)
  BY <1>1, <1>4, <1>5, <1>6 DEF Has, Permutes
<1>10. QED
  BY <1>7, <1>8, <1>9 DEF n, t

LEMMA UnsweptIs ==
  ASSUME FrameDataAssumption, NEW s \in Seq({0} \cup RvaStarts), InOrder(s)
  PROVE  /\ Unswept(s) \in Seq(RvaStarts)
         /\ \A f \in RvaStarts : Count(Unswept(s), f) = Count(s, f)
<1> DEFINE m == Len(s)
           T == {0} \cup RvaStarts
           N == {i \in DOMAIN s : s[i] # 0}
           k == Min(N \cup {m + 1})
           t == SubSeq(s, k, m)
<1>1. m \in Nat /\ DOMAIN s = 1 .. m /\ s \in [1 .. m -> T]
  BY LenProperties
<1>2. N \cup {m + 1} \in SUBSET Nat /\ N \cup {m + 1} # {}
  BY <1>1
<1>3. k \in N \cup {m + 1} /\ \A y \in N \cup {m + 1} : k <= y
  BY <1>2, MinIs
<1>4. k \in 1 .. m + 1 /\ k \in Int
  BY <1>1, <1>3
<1>5. \A i \in 1 .. k - 1 : s[i] = 0
  <2>1. ASSUME NEW i \in 1 .. k - 1
        PROVE  s[i] = 0
    <3>1. i \in 1 .. m /\ ~(k <= i)
      BY <1>1, <1>4
    <3>2. i \notin N
      BY <1>3, <3>1
    <3>3. QED
      BY <1>1, <3>1, <3>2
  <2>2. QED
    BY <2>1
<1>6. \A i \in k .. m : s[i] \in RvaStarts
  <2>1. ASSUME NEW i \in k .. m
        PROVE  s[i] \in RvaStarts
    <3>1. i \in 1 .. m /\ k \in 1 .. m /\ k <= i
      BY <1>1, <1>4
    <3>2. s[k] # 0 /\ s[k] <= s[i] /\ s[k] \in T /\ s[i] \in T
      BY <1>1, <1>3, <3>1 DEF InOrder
    <3>3. \A x \in RvaStarts : x \in Int /\ x > 0
      BY DEF FrameDataAssumption
    <3>4. QED
      BY <3>2, <3>3
  <2>2. QED
    BY <2>1
<1>7. Unswept(s) = t
  BY DEF Unswept
<1> HIDE DEF k, N
<1>8. t \in Seq(RvaStarts)
  <2>1. k \in Int /\ m \in Int
    BY <1>1, <1>4
  <2>2. QED
    BY <1>6, <2>1, SubSeqProperties
<1>9. ASSUME NEW f \in RvaStarts
      PROVE  Count(t, f) = Count(s, f)
  <2>1. \A i \in 1 .. k - 1 : s[i] # f
    BY <1>5 DEF FrameDataAssumption
  <2> HIDE DEF T
  <2>2. s \in Seq(T)
    BY DEF T
  <2>3. QED
    BY <1>4, <2>1, <2>2, CountAfter
<1>10. QED
  BY <1>7, <1>8, <1>9

-----------------------------------------------------------------------------
(* The sweep.                                                              *)

\* Where the comparison with blocks may stop for a frame at f.
Stays(b, i, f) == i > Len(b) \/ in(b[i], f) \/ f < b[i].rva
StopsFrom(b, l, f) == {i \in l .. Len(b) + 1 : Stays(b, i, f)}

\* The blocks at which the sweep stops, for the first k frames.
Stops(b, s, k, g) ==
  g = [j \in 0 .. k |-> IF j = 0 THEN 1 ELSE Min(StopsFrom(b, g[j - 1], s[j]))]

LEMMA StopsExist ==
  ASSUME NEW b, NEW s, NEW k \in Nat
  PROVE  \E g : Stops(b, s, k, g)
<1> DEFINE T == {j \in Nat : ~\E g : Stops(b, s, j, g)}
<1>1. SUFFICES ASSUME T # {}
               PROVE  FALSE
  OBVIOUS
<1>2. PICK x \in T : \A y \in T : x <= y
  BY <1>1, LeastIn
<1>3. x # 0
  <2> DEFINE g == [j \in 0 .. 0 |-> 1]
  <2>1. g = [j \in 0 .. 0 |-> IF j = 0 THEN 1 ELSE Min(StopsFrom(b, g[j - 1], s[j]))]
    BY \A j \in 0 .. 0 : j = 0
  <2>2. Stops(b, s, 0, g)
    BY <2>1 DEF Stops
  <2>3. QED
    BY <2>2
<1>4. x - 1 \in Nat /\ x - 1 \notin T
  BY <1>2, <1>3
<1>5. PICK g : Stops(b, s, x - 1, g)
  BY <1>4
<1> DEFINE f == [j \in 0 .. x |-> IF j = x THEN Min(StopsFrom(b, g[x - 1], s[x])) ELSE g[j]]
<1>6. \A j \in 0 .. x : f[j] = IF j = 0 THEN 1 ELSE Min(StopsFrom(b, f[j - 1], s[j]))
  <2>1. ASSUME NEW j \in 0 .. x, j # x
        PROVE  /\ j \in 0 .. x - 1 /\ f[j] = g[j]
               /\ j # 0 => j - 1 \in 0 .. x - 1 /\ j - 1 \in 0 .. x /\ f[j - 1] = g[j - 1]
    BY <1>4, <2>1
  <2>2. \A j \in 0 .. x - 1 : g[j] = IF j = 0 THEN 1 ELSE Min(StopsFrom(b, g[j - 1], s[j]))
    BY <1>5 DEF Stops
  <2>3. x \in 0 .. x /\ x - 1 \in 0 .. x /\ x - 1 # x
    BY <1>3, <1>4
  <2>4. f[x] = Min(StopsFrom(b, g[x - 1], s[x])) /\ f[x - 1] = g[x - 1]
    BY <2>3
  <2> HIDE DEF f
  <2>5. QED
    BY <1>3, <2>1, <2>2, <2>4
<1>7. Stops(b, s, x, f)
  <2>1. f = [j \in 0 .. x |-> f[j]]
    OBVIOUS
  <2> HIDE DEF f
  <2>2. QED
    BY <1>6, <2>1 DEF Stops
<1>8. QED
  BY <1>2, <1>7

LEMMA SweepUnfolded ==
  ASSUME NEW b, NEW s
  PROVE  Sweep(b, s) =
           LET at == CHOOSE g : Stops(b, s, Len(s), g)
           IN [k \in DOMAIN s |-> IF at[k] <= Len(b) /\ in(b[at[k]], s[k]) THEN 0 ELSE s[k]]
BY Zenon DEF Sweep, Stops, StopsFrom, Stays

\* What the sweep is past, no later frame is in.
Past(b, s, k, l) ==
  \A i \in 1 .. l - 1 : \A j \in k .. Len(s) : ~in(b[i], s[j])

LEMMA SweepIs ==
  ASSUME FrameDataAssumption, NEW b \in Seq(BlockOK), NEW s \in Seq(RvaStarts), InOrder(s),
         \A i, j \in 1 .. Len(b) : i <= j => b[i].rva <= b[j].rva
  PROVE  Sweep(b, s) = [k \in 1 .. Len(s) |-> IF Has(b, s[k]) THEN 0 ELSE s[k]]
<1> DEFINE n == Len(b)
           m == Len(s)
           at == CHOOSE g : Stops(b, s, m, g)
<1>1. /\ n \in Nat /\ DOMAIN b = 1 .. n /\ \A i \in 1 .. n : b[i] \in BlockOK
      /\ m \in Nat /\ DOMAIN s = 1 .. m /\ \A k \in 1 .. m : s[k] \in RvaStarts
  BY LenProperties
<1>2. \A x \in RvaStarts : x \in Nat
  BY DEF FrameDataAssumption
<1>3. \A x \in BlockOK : x.rva \in Nat /\ x.cb \in Nat
  BY DEF BlockOK, FrameDataAssumption
<1>4. Stops(b, s, m, at)
  BY <1>1, StopsExist
<1>5. Sweep(b, s) = [k \in 1 .. m |-> IF at[k] <= n /\ in(b[at[k]], s[k]) THEN 0 ELSE s[k]]
  BY <1>1, SweepUnfolded
<1> HIDE DEF at, n, m
<1>6. at[0] = 1 /\ \A k \in 1 .. m : at[k] = Min(StopsFrom(b, at[k - 1], s[k]))
  <2>1. \A j \in 0 .. m : at[j] = IF j = 0 THEN 1 ELSE Min(StopsFrom(b, at[j - 1], s[j]))
    BY <1>4 DEF Stops
  <2>2. 0 \in 0 .. m /\ \A k \in 1 .. m : k \in 0 .. m /\ k # 0
    BY <1>1
  <2>3. QED
    BY <2>1, <2>2
<1>7. ASSUME NEW k \in 1 .. m, at[k - 1] \in 1 .. n + 1, Past(b, s, k, at[k - 1])
      PROVE  /\ at[k] \in 1 .. n + 1 /\ Stays(b, at[k], s[k])
             /\ Past(b, s, k, at[k])
  <2> DEFINE l == at[k - 1]
             S == StopsFrom(b, l, s[k])
  <2>1. n + 1 \in S
    BY <1>1, <1>7 DEF StopsFrom, Stays, n
  <2>2. S \in SUBSET Nat /\ \A i \in S : i \in l .. n + 1 /\ Stays(b, i, s[k])
    BY <1>1, <1>7 DEF StopsFrom, n
  <2>3. at[k] \in S /\ \A i \in S : at[k] <= i
    <3> HIDE DEF S
    <3>1. at[k] = Min(S)
      BY <1>6 DEF S
    <3>2. S \in SUBSET Nat /\ S # {}
      BY <2>1, <2>2
    <3>3. Min(S) \in S /\ \A i \in S : Min(S) <= i
      BY <3>2, MinIs
    <3>4. QED
      BY <3>1, <3>3
  <2>4. ASSUME NEW i \in 1 .. at[k] - 1, NEW j \in k .. m
        PROVE  ~in(b[i], s[j])
    <3>1. i \in Nat /\ at[k] \in Nat /\ at[k] <= n + 1 /\ i \in 1 .. n /\ ~(at[k] <= i) /\ l \in Nat
      BY <1>1, <1>7, <2>2, <2>3
    <3>2. CASE i < l
      <4>1. i \in 1 .. l - 1
        BY <3>1, <3>2
      <4>2. QED
        BY <1>7, <4>1 DEF Past, m
    <3>3. CASE ~(i < l)
      <4>1. i \in l .. n + 1 /\ i \notin S
        <5> HIDE DEF S, l
        <5>1. i \in l .. n + 1
          BY <1>1, <3>1, <3>3
        <5>2. i \notin S
          BY <2>3, <3>1
        <5>3. QED
          BY <5>1, <5>2
      <4>2. ~in(b[i], s[k]) /\ ~(s[k] < b[i].rva)
        BY <4>1 DEF StopsFrom, Stays, n
      <4>3. j \in 1 .. m /\ k \in 1 .. m /\ k <= j
        BY <1>1
      <4>4. s[k] <= s[j] /\ s[k] \in Nat /\ s[j] \in Nat
        BY <1>1, <1>2, <4>3 DEF InOrder
      <4>5. b[i].rva \in Nat /\ b[i].cb \in Nat
        BY <1>1, <1>3, <3>1
      <4>6. QED
        BY <4>2, <4>4, <4>5 DEF in
    <3>4. QED
      BY <3>2, <3>3
  <2>5. QED
    BY <1>1, <1>7, <2>2, <2>3, <2>4 DEF Past, m
<1> DEFINE Bad == {k \in 0 .. m : ~(at[k] \in 1 .. n + 1 /\ Past(b, s, k, at[k]))}
<1>8. Bad = {}
  <2>1. SUFFICES ASSUME Bad # {}
                 PROVE  FALSE
    OBVIOUS
  <2>2. PICK k \in Bad : \A y \in Bad : k <= y
    <3>1. Bad \in SUBSET Nat
      BY <1>1
    <3> HIDE DEF Bad
    <3>2. QED
      BY <2>1, <3>1, LeastIn
  <2>3. k # 0
    <3>1. 1 \in 1 .. n + 1 /\ Past(b, s, 0, 1)
      BY <1>1 DEF Past
    <3>2. QED
      BY <1>6, <3>1
  <2>4. k \in 1 .. m /\ k - 1 \in 0 .. m /\ ~(k <= k - 1) /\ \A j \in k .. m : j \in k - 1 .. m
    BY <1>1, <2>3
  <2>5. k - 1 \notin Bad
    BY <2>2, <2>4
  <2>6. at[k - 1] \in 1 .. n + 1 /\ Past(b, s, k - 1, at[k - 1])
    BY <2>4, <2>5
  <2>7. Past(b, s, k, at[k - 1])
    BY <2>4, <2>6 DEF Past, m
  <2>8. QED
    BY <1>7, <2>4, <2>6, <2>7
<1>9. ASSUME NEW k \in 1 .. m
      PROVE  at[k] <= n /\ in(b[at[k]], s[k]) <=> Has(b, s[k])
  <2>1. k - 1 \in 0 .. m /\ k \in 0 .. m /\ k \in k .. m /\ \A j \in k .. m : j \in k - 1 .. m
    BY <1>1
  <2>2. at[k - 1] \in 1 .. n + 1 /\ Past(b, s, k - 1, at[k - 1])
    BY <1>8, <2>1
  <2>3. Past(b, s, k, at[k - 1])
    BY <2>1, <2>2 DEF Past, m
  <2>4. at[k] \in 1 .. n + 1 /\ Stays(b, at[k], s[k]) /\ Past(b, s, k, at[k])
    BY <1>7, <2>2, <2>3
  <2>5. ASSUME at[k] <= n, in(b[at[k]], s[k])
        PROVE  Has(b, s[k])
    <3>1. at[k] \in 1 .. n
      BY <1>1, <2>4, <2>5
    <3>2. QED
      BY <1>1, <2>5, <3>1 DEF Has
  <2>6. ASSUME NEW i \in 1 .. n, in(b[i], s[k])
        PROVE  at[k] <= n /\ in(b[at[k]], s[k])
    <3>1. i \notin 1 .. at[k] - 1
      BY <2>1, <2>4, <2>6 DEF Past, m
    <3>2. at[k] \in Nat /\ at[k] <= i /\ at[k] <= n /\ at[k] \in 1 .. n /\ ~(at[k] > n)
      BY <1>1, <2>4, <3>1
    <3>3. b[at[k]].rva <= b[i].rva
      BY <3>2 DEF n
    <3>4. b[at[k]].rva \in Nat /\ b[i].rva \in Nat /\ s[k] \in Nat
      BY <1>1, <1>2, <1>3, <3>2
    <3>5. ~(s[k] < b[at[k]].rva)
      BY <2>6, <3>3, <3>4 DEF in
    <3>6. QED
      BY <2>4, <3>2, <3>5 DEF Stays, n
  <2>7. QED
    BY <1>1, <2>5, <2>6 DEF Has
<1>10. QED
  BY <1>5, <1>9 DEF m

\* What SaveFrameData keeps.
LEMMA SavedIs ==
  ASSUME FrameDataAssumption, m_rgrvaRemovals \in Seq(BlockOK), NEW s \in Seq(RvaStarts), InOrder(s)
  PROVE  /\ SaveFrameData(s) \in Seq(RvaStarts)
         /\ \A f \in RvaStarts :
              Count(SaveFrameData(s), f) = IF Has(m_rgrvaRemovals, f) THEN 0 ELSE Count(s, f)
<1> DEFINE b == blkSort(m_rgrvaRemovals)
           w == Sweep(b, s)
           T == {0} \cup RvaStarts
           m == Len(s)
<1>1. /\ b \in Seq(BlockOK)
      /\ \A i, j \in 1 .. Len(b) : i <= j => b[i].rva <= b[j].rva
      /\ \A x : Has(b, x) <=> Has(m_rgrvaRemovals, x)
  BY blkSortIs
<1>2. m \in Nat /\ DOMAIN s = 1 .. m /\ \A k \in 1 .. m : s[k] \in RvaStarts
  BY LenProperties
<1> HIDE DEF b, m
<1>3. w = [k \in 1 .. m |-> IF Has(b, s[k]) THEN 0 ELSE s[k]]
  BY <1>1, SweepIs DEF m
<1> HIDE DEF w
<1>4. w \in Seq(T) /\ DOMAIN w = 1 .. m
  <2>1. w \in [1 .. m -> T]
    BY <1>2, <1>3
  <2>2. QED
    BY <1>2, <2>1, SeqDef
<1>5. T \in SUBSET (0 .. Half - 1) /\ 0 \notin RvaStarts
  BY DEF FrameDataAssumption
<1> HIDE DEF T
<1>6. /\ frameSort(w) \in Seq(T) /\ InOrder(frameSort(w))
      /\ \A f : Count(frameSort(w), f) = Count(w, f)
  BY <1>4, <1>5, frameSortIs
<1>7. /\ Unswept(frameSort(w)) \in Seq(RvaStarts)
      /\ \A f \in RvaStarts : Count(Unswept(frameSort(w)), f) = Count(frameSort(w), f)
  BY <1>6, UnsweptIs DEF T
<1>8. SaveFrameData(s) = Unswept(frameSort(w))
  BY DEF SaveFrameData, w, b
<1>9. ASSUME NEW f \in RvaStarts
      PROVE  Count(w, f) = IF Has(b, f) THEN 0 ELSE Count(s, f)
  <2>1. Count(w, f) = Cardinality(Where(w, f)) /\ Count(s, f) = Cardinality(Where(s, f))
    BY DEF Count, Where
  <2>2. CASE Has(b, f)
    <3>1. Where(w, f) = {}
      BY <1>3, <1>4, <1>5, <2>2 DEF Where
    <3>2. QED
      BY <2>1, <2>2, <3>1, FS_EmptySet
  <2>3. CASE ~Has(b, f)
    <3>1. Where(w, f) = Where(s, f)
      BY <1>2, <1>3, <1>4, <1>5, <2>3 DEF Where
    <3>2. QED
      BY <2>1, <2>3, <3>1
  <2>4. QED
    BY <2>2, <2>3
<1>10. QED
  BY <1>1, <1>6, <1>7, <1>8, <1>9

-----------------------------------------------------------------------------
(* The blocks that go.                                                     *)

GrownBy(b, n) == IF in(b, n.rva) /\ End(n) > End(b) THEN [b EXCEPT !.cb = End(n) - b.rva] ELSE b
JoinedBy(b, n) == [b EXCEPT !.cb = @ + n.cb]

LEMMA BlockIs ==
  ASSUME FrameDataAssumption, NEW b \in BlockOK
  PROVE  b = [rva |-> b.rva, cb |-> b.cb] /\ b.rva \in 0 .. Half - 1 /\ b.rva \in Nat /\ b.cb \in Nat
BY DEF BlockOK, FrameDataAssumption

LEMMA GrownIs ==
  ASSUME FrameDataAssumption, NEW b \in BlockOK, NEW n \in BlockOK
  PROVE  /\ GrownBy(b, n) \in BlockOK
         /\ \A x \in Nat : in(b, x) => in(GrownBy(b, n), x)
         /\ \A x \in Nat : in(GrownBy(b, n), x) => in(b, x) \/ in(n, x)
<1>1. /\ b = [rva |-> b.rva, cb |-> b.cb] /\ b.rva \in 0 .. Half - 1 /\ b.rva \in Nat /\ b.cb \in Nat
      /\ n.rva \in Nat /\ n.cb \in Nat
  BY BlockIs
<1>2. CASE ~(in(b, n.rva) /\ End(n) > End(b))
  BY <1>2 DEF GrownBy
<1>3. CASE in(b, n.rva) /\ End(n) > End(b)
  <2> DEFINE c == End(n) - b.rva
  <2>1. /\ b.rva <= n.rva /\ n.rva - b.rva < b.cb /\ c \in Nat /\ c > b.cb
        /\ c = (n.rva + n.cb) - b.rva
    BY <1>1, <1>3 DEF in, End
  <2>2. GrownBy(b, n) = [b EXCEPT !.cb = c]
    BY <1>3 DEF GrownBy
  <2> HIDE DEF c
  <2>3. GrownBy(b, n) = [rva |-> b.rva, cb |-> c]
    BY <1>1, <2>2
  <2>4. \A x \in Nat : in(GrownBy(b, n), x) <=> b.rva <= x /\ x - b.rva < c
    BY <2>3 DEF in
  <2>5. GrownBy(b, n) \in BlockOK
    BY <1>1, <2>1, <2>3 DEF BlockOK
  <2>6. \A x \in Nat : in(b, x) => in(GrownBy(b, n), x)
    BY <1>1, <2>1, <2>4 DEF in
  <2>7. \A x \in Nat : in(GrownBy(b, n), x) => in(b, x) \/ in(n, x)
    BY <1>1, <2>1, <2>4 DEF in
  <2>8. QED
    BY <2>5, <2>6, <2>7
<1>4. QED
  BY <1>2, <1>3

LEMMA JoinedIs ==
  ASSUME FrameDataAssumption, NEW b \in BlockOK, NEW n \in BlockOK, End(b) = n.rva
  PROVE  /\ JoinedBy(b, n) \in BlockOK
         /\ \A x \in Nat : in(JoinedBy(b, n), x) <=> in(b, x) \/ in(n, x)
<1>1. /\ b = [rva |-> b.rva, cb |-> b.cb] /\ b.rva \in 0 .. Half - 1 /\ b.rva \in Nat /\ b.cb \in Nat
      /\ n.rva \in Nat /\ n.cb \in Nat /\ n.rva = b.rva + b.cb
  BY BlockIs DEF End
<1> DEFINE c == b.cb + n.cb
<1>2. c \in Nat
  BY <1>1
<1>3. JoinedBy(b, n) = [rva |-> b.rva, cb |-> c]
  BY <1>1 DEF JoinedBy
<1>4. \A x \in Nat : in(JoinedBy(b, n), x) <=> b.rva <= x /\ x - b.rva < c
  BY <1>3 DEF in
<1>5. JoinedBy(b, n) \in BlockOK
  <2> HIDE DEF c
  <2>1. QED
    BY <1>1, <1>2, <1>3 DEF BlockOK
<1>6. \A x \in Nat : b.rva <= x /\ x - b.rva < c <=> in(b, x) \/ in(n, x)
  BY <1>1 DEF in
<1>7. QED
  BY <1>4, <1>5, <1>6

\* However blocks are joined, together they are the code that went.
LEMMA RemovedIs ==
  ASSUME FrameDataAssumption, m_rgrvaRemovals \in Seq(BlockOK), NEW n \in BlockOK, RemoveDataForRva(n)
  PROVE  /\ m_rgrvaRemovals' \in Seq(BlockOK)
         /\ \A x \in Nat : Has(m_rgrvaRemovals', x) <=> Has(m_rgrvaRemovals, x) \/ in(n, x)
<1> DEFINE s == m_rgrvaRemovals
           m == Len(s)
           E == {i \in DOMAIN s : End(s[i]) = n.rva}
           at == IF E = {} THEN 0 ELSE Max(E)
           g == [i \in DOMAIN s |-> IF i > at THEN GrownBy(s[i], n)
                                    ELSE IF i = at THEN JoinedBy(s[i], n) ELSE s[i]]
<1>1. m \in Nat /\ DOMAIN s = 1 .. m /\ \A i \in 1 .. m : s[i] \in BlockOK
  BY LenProperties
<1>2. m_rgrvaRemovals' = IF at = 0 THEN Append(g, n) ELSE g
  BY DEF RemoveDataForRva, GrownBy, JoinedBy
<1>3. at \in 0 .. m /\ (at # 0 => End(s[at]) = n.rva)
  <2>1. CASE E = {}
    BY <1>1, <2>1
  <2>2. CASE E # {}
    <3>1. E \in SUBSET (1 .. m)
      BY <1>1
    <3>2. Max(E) \in E
      <4> HIDE DEF E, m, s
      <4>1. QED
        BY <1>1, <2>2, <3>1, MaxIs
    <3>3. at = Max(E)
      BY <2>2
    <3> HIDE DEF at
    <3>4. QED
      BY <1>1, <3>1, <3>2, <3>3
  <2>3. QED
    BY <2>1, <2>2
<1> HIDE DEF at, E, m
<1>4. DOMAIN g = 1 .. m /\ \A i \in 1 .. m : g[i] = IF i > at THEN GrownBy(s[i], n)
                                                    ELSE IF i = at THEN JoinedBy(s[i], n) ELSE s[i]
  BY <1>1
<1> HIDE DEF g, s
<1>5. ASSUME NEW i \in 1 .. m
      PROVE  /\ g[i] \in BlockOK
             /\ \A x \in Nat : in(s[i], x) => in(g[i], x)
             /\ \A x \in Nat : in(g[i], x) => in(s[i], x) \/ in(n, x)
             /\ i = at => \A x \in Nat : in(n, x) => in(g[i], x)
  <2>1. CASE i > at
    <3>1. g[i] = GrownBy(s[i], n) /\ i # at
      BY <1>3, <1>4, <2>1
    <3>2. QED
      BY <1>1, <3>1, GrownIs
  <2>2. CASE i = at
    <3>1. g[i] = JoinedBy(s[i], n) /\ End(s[i]) = n.rva
      BY <1>3, <1>4, <2>2
    <3>2. QED
      BY <1>1, <3>1, JoinedIs
  <2>3. CASE ~(i > at) /\ i # at
    BY <1>1, <1>4, <2>3
  <2>4. QED
    BY <2>1, <2>2, <2>3
<1>6. g \in Seq(BlockOK) /\ Len(g) = m
  <2>1. g = [i \in 1 .. m |-> g[i]]
    <3>1. g = [i \in DOMAIN g |-> g[i]]
      BY DEF g
    <3>2. QED
      BY <1>4, <3>1
  <2>2. g \in [1 .. m -> BlockOK]
    BY <1>5, <2>1
  <2>3. g \in Seq(BlockOK)
    BY <1>1, <2>2, SeqDef
  <2>4. Len(g) \in Nat /\ DOMAIN g = 1 .. Len(g)
    BY <2>3, LenProperties
  <2>5. QED
    BY <1>1, <1>4, <2>3, <2>4
<1>7. CASE at = 0
  <2> DEFINE h == Append(g, n)
  <2>1. h \in Seq(BlockOK) /\ Len(h) = m + 1 /\ h[m + 1] = n /\ \A i \in 1 .. m : h[i] = g[i]
    BY <1>1, <1>6, AppendProperties
  <2>2. DOMAIN h = 1 .. m + 1 /\ m + 1 \in 1 .. m + 1 /\ \A i \in 1 .. m + 1 : i \in 1 .. m \/ i = m + 1
    BY <1>1, <2>1, LenProperties
  <2>3. \A i \in 1 .. m : i \in 1 .. m + 1
    BY <1>1
  <2>4. m_rgrvaRemovals' = h
    BY <1>2, <1>7
  <2> HIDE DEF h
  <2>5. \A x \in Nat : Has(h, x) <=> Has(s, x) \/ in(n, x)
    BY <1>1, <1>5, <2>1, <2>2, <2>3 DEF Has
  <2>6. QED
    BY <2>1, <2>4, <2>5 DEF s
<1>8. CASE at # 0
  <2>1. m_rgrvaRemovals' = g /\ at \in 1 .. m
    BY <1>1, <1>2, <1>3, <1>8
  <2>2. \A x \in Nat : Has(g, x) <=> Has(s, x) \/ in(n, x)
    BY <1>1, <1>4, <1>5, <2>1 DEF Has
  <2>3. QED
    BY <1>6, <2>1, <2>2 DEF s
<1>9. QED
  BY <1>7, <1>8

-----------------------------------------------------------------------------
(* Frame data.                                                             *)

LEMMA FrameInitOK ==
  ASSUME FrameDataAssumption, FrameInit
  PROVE  FrameInv
<1>1. \A S : <<>> \in Seq(S)
  BY EmptySeq
<1>2. FrameTypes
  BY <1>1 DEF FrameInit, FrameTypes
<1>3. InOrder(stored)
  <2>1. DOMAIN stored = {}
    BY DEF FrameInit
  <2>2. QED
    BY <2>1 DEF InOrder
<1>4. QED
  BY <1>2, <1>3 DEF FrameInit, FrameInv, Forgotten, BlocksRight, FramesKept

\* What a session begins with.
LEMMA OpenOK ==
  ASSUME FrameDataAssumption, FrameInv, Open
  PROVE  FrameInv'
<1>1. /\ open' = TRUE /\ gone' = {} /\ added' = <<>> /\ ~open
      /\ stored' = stored /\ pdbgFrameData' = pdbgFrameData /\ opened' = opened
      /\ m_rgrvaRemovals' = m_rgrvaRemovals /\ fFrameDataLoaded' = fFrameDataLoaded
  BY DEF Open
<1>2. FrameTypes'
  BY <1>1, EmptySeq DEF FrameInv, FrameTypes
<1>3. ~opened /\ m_rgrvaRemovals = <<>> /\ ~fFrameDataLoaded
  BY <1>1 DEF FrameInv, Forgotten
<1>4. \A x : ~Has(<<>>, x)
  <2>1. DOMAIN <<>> = {}
    OBVIOUS
  <2>2. QED
    BY <2>1 DEF Has
<1>5. BlocksRight'
  BY <1>1, <1>3, <1>4 DEF BlocksRight
<1>6. InOrder(stored)'
  BY <1>1 DEF FrameInv, InOrder
<1>7. QED
  BY <1>1, <1>2, <1>5, <1>6 DEF FrameInv, Forgotten, FramesKept

LEMMA RemoveOK ==
  ASSUME FrameDataAssumption, FrameInv, NEW n \in Blocks, RemoveDataForRva(n)
  PROVE  FrameInv'
<1>1. /\ open /\ added = <<>> /\ gone' = gone \cup n.rva .. End(n) - 1
      /\ open' = open /\ stored' = stored /\ pdbgFrameData' = pdbgFrameData /\ opened' = opened
      /\ fFrameDataLoaded' = fFrameDataLoaded /\ added' = added
  BY DEF RemoveDataForRva
<1>2. n \in BlockOK
  BY DEF FrameDataAssumption, BlockOK
<1>3. /\ m_rgrvaRemovals' \in Seq(BlockOK)
      /\ \A x \in Nat : Has(m_rgrvaRemovals', x) <=> Has(m_rgrvaRemovals, x) \/ in(n, x)
  BY <1>2, RemovedIs DEF FrameInv, FrameTypes
<1>4. FrameTypes'
  BY <1>1, <1>3 DEF FrameInv, FrameTypes
<1>5. ASSUME NEW f \in RvaStarts
      PROVE  f \in gone' <=> Has(m_rgrvaRemovals', f)
  <2>1. f \in Nat /\ n.rva \in Nat /\ n.cb \in Nat
    BY <1>2, BlockIs DEF FrameDataAssumption
  <2>2. f \in n.rva .. End(n) - 1 <=> in(n, f)
    BY <2>1 DEF in, End
  <2>3. f \in gone <=> Has(m_rgrvaRemovals, f)
    BY <1>1 DEF FrameInv, BlocksRight
  <2>4. QED
    BY <1>1, <1>3, <2>1, <2>2, <2>3
<1>6. ~opened /\ ~fFrameDataLoaded
  BY <1>1 DEF FrameInv, BlocksRight
<1>7. BlocksRight'
  BY <1>1, <1>5, <1>6 DEF BlocksRight
<1>8. InOrder(stored)'
  BY <1>1 DEF FrameInv, InOrder
<1>9. QED
  BY <1>1, <1>4, <1>7, <1>8 DEF FrameInv, Forgotten, FramesKept

LEMMA CountNone ==
  ASSUME NEW f
  PROVE  Count(<<>>, f) = 0
<1>1. {i \in DOMAIN <<>> : <<>>[i] = f} = {}
  OBVIOUS
<1>2. QED
  BY <1>1, FS_EmptySet DEF Count

\* The first frames that come end the others that go; from then on all are kept.
LEMMA AddOK ==
  ASSUME FrameDataAssumption, FrameInv, NEW x \in RvaStarts, AddFrameData(<<x>>)
  PROVE  FrameInv'
<1> DEFINE new == <<x>>
           old == IF opened THEN pdbgFrameData ELSE stored
           sweeps == m_rgrvaRemovals # <<>> /\ ~fFrameDataLoaded
           kept == IF sweeps THEN SaveFrameData(old) ELSE old
<1>1. /\ open /\ opened' = TRUE
      /\ pdbgFrameData' = kept \o new
      /\ m_rgrvaRemovals' = IF sweeps /\ old # <<>> THEN <<>> ELSE m_rgrvaRemovals
      /\ fFrameDataLoaded' = (fFrameDataLoaded \/ (sweeps /\ old = <<>>))
      /\ added' = added \o new
      /\ open' = open /\ stored' = stored /\ gone' = gone
  BY DEF AddFrameData
<1>2. /\ stored \in Seq(RvaStarts) /\ pdbgFrameData \in Seq(RvaStarts) /\ added \in Seq(RvaStarts)
      /\ m_rgrvaRemovals \in Seq(BlockOK) /\ opened \in BOOLEAN /\ fFrameDataLoaded \in BOOLEAN
      /\ InOrder(stored)
  BY DEF FrameInv, FrameTypes
<1>3. new \in Seq(RvaStarts) /\ Len(new) = 1
  OBVIOUS
<1>4. added = <<>> => ~opened /\ ~fFrameDataLoaded /\ old = stored
  BY <1>1 DEF FrameInv, BlocksRight
<1>5. added # <<>> => opened /\ ~sweeps /\ old = pdbgFrameData
  BY <1>1 DEF FrameInv, FramesKept
<1> HIDE DEF new
<1>6. /\ kept \in Seq(RvaStarts)
      /\ \A f \in RvaStarts : Count(kept, f) = Count(added, f) + IF f \in gone THEN 0 ELSE Count(stored, f)
  <2>1. \A f : Count(stored, f) \in Nat
    <3>1. Len(stored) \in Nat /\ DOMAIN stored = 1 .. Len(stored)
      BY <1>2, LenProperties
    <3>2. QED
      BY <3>1, CountType
  <2>2. CASE added = <<>>
    <3>1. \A f \in RvaStarts : f \in gone <=> Has(m_rgrvaRemovals, f)
      BY <1>1, <2>2 DEF FrameInv, BlocksRight
    <3>2. /\ kept \in Seq(RvaStarts)
          /\ \A f \in RvaStarts : Count(kept, f) = IF Has(m_rgrvaRemovals, f) THEN 0 ELSE Count(stored, f)
      <4>1. CASE sweeps
        <5>1. kept = SaveFrameData(stored)
          BY <1>4, <2>2, <4>1
        <5> HIDE DEF kept
        <5>2. QED
          BY <1>2, <5>1, SavedIs
      <4>2. CASE ~sweeps
        <5>1. kept = stored /\ m_rgrvaRemovals = <<>>
          BY <1>4, <2>2, <4>2
        <5>2. \A f : ~Has(m_rgrvaRemovals, f)
          <6>1. DOMAIN m_rgrvaRemovals = {}
            BY <5>1
          <6>2. QED
            BY <6>1 DEF Has
        <5> HIDE DEF kept
        <5>3. QED
          BY <1>2, <5>1, <5>2
      <4>3. QED
        BY <4>1, <4>2
    <3> HIDE DEF kept
    <3>3. QED
      BY <2>1, <2>2, <3>1, <3>2, CountNone
  <2>3. CASE added # <<>>
    <3>1. kept = pdbgFrameData
      BY <1>5, <2>3
    <3> HIDE DEF kept
    <3>2. QED
      BY <1>1, <1>2, <2>3, <3>1 DEF FrameInv, FramesKept
  <2>4. QED
    BY <2>2, <2>3
<1>7. m_rgrvaRemovals' = <<>> \/ fFrameDataLoaded'
  BY <1>1, <1>2
<1>8. m_rgrvaRemovals' \in Seq(BlockOK) /\ fFrameDataLoaded' \in BOOLEAN
  BY <1>1, <1>2, EmptySeq
<1> HIDE DEF kept
<1>9. pdbgFrameData' \in Seq(RvaStarts) /\ added' \in Seq(RvaStarts) /\ Len(added') = Len(added) + 1
  <2>1. \A s, t \in Seq(RvaStarts) : s \o t \in Seq(RvaStarts) /\ Len(s \o t) = Len(s) + Len(t)
    BY ConcatProperties
  <2>2. kept \o new \in Seq(RvaStarts)
    BY <1>3, <1>6, <2>1
  <2>3. added \o new \in Seq(RvaStarts) /\ Len(added \o new) = Len(added) + Len(new)
    BY <1>2, <1>3, <2>1
  <2>4. QED
    BY <1>1, <1>3, <2>2, <2>3
<1>10. added' # <<>>
  <2>1. Len(added) \in Nat /\ Len(<<>>) = 0
    BY <1>2, LenProperties
  <2>2. QED
    BY <1>9, <2>1
<1>11. ASSUME NEW f \in RvaStarts
       PROVE  Count(pdbgFrameData', f) = Count(added', f) + IF f \in gone THEN 0 ELSE Count(stored, f)
  <2>1. /\ Count(pdbgFrameData', f) = Count(kept, f) + Count(new, f)
        /\ Count(added', f) = Count(added, f) + Count(new, f)
    BY <1>1, <1>2, <1>3, <1>6, CountJoined
  <2>2. PICK c : c = IF f \in gone THEN 0 ELSE Count(stored, f)
    OBVIOUS
  <2>3. Count(added, f) \in Nat /\ Count(new, f) \in Nat /\ c \in Nat
    <3>1. \A s \in Seq(RvaStarts) : Count(s, f) \in Nat
      BY LenProperties, CountType
    <3>2. QED
      BY <1>2, <1>3, <2>2, <3>1
  <2>4. Count(kept, f) = Count(added, f) + c
    BY <1>6, <2>2
  <2>5. Count(pdbgFrameData', f) = Count(added', f) + c
    BY <2>1, <2>3, <2>4
  <2>6. QED
    BY <2>2, <2>5
<1>12. FrameTypes'
  BY <1>1, <1>2, <1>8, <1>9 DEF FrameInv, FrameTypes
<1>13. FramesKept'
  BY <1>1, <1>7, <1>11 DEF FramesKept
<1>14. InOrder(stored)'
  BY <1>1, <1>2 DEF InOrder
<1>15. QED
  BY <1>1, <1>10, <1>12, <1>13, <1>14 DEF FrameInv, Forgotten, BlocksRight

\* What a session stores.
LEMMA StoredIs ==
  ASSUME FrameDataAssumption, FrameInv, Close
  PROVE  /\ stored' \in Seq(RvaStarts) /\ InOrder(stored')
         /\ added # <<>> => \A f \in RvaStarts :
              Count(stored', f) = Count(added, f) + IF f \in gone THEN 0 ELSE Count(stored, f)
<1>1. open /\ stored' = IF opened THEN frameSort(pdbgFrameData) ELSE stored
  BY DEF Close
<1>2. /\ stored \in Seq(RvaStarts) /\ pdbgFrameData \in Seq(RvaStarts) /\ InOrder(stored)
      /\ RvaStarts \in SUBSET (0 .. Half - 1)
  BY DEF FrameInv, FrameTypes, FrameDataAssumption
<1>3. /\ frameSort(pdbgFrameData) \in Seq(RvaStarts) /\ InOrder(frameSort(pdbgFrameData))
      /\ \A f : Count(frameSort(pdbgFrameData), f) = Count(pdbgFrameData, f)
  BY <1>2, frameSortIs
<1>4. added # <<>> =>
        /\ opened
        /\ \A f \in RvaStarts :
             Count(pdbgFrameData, f) = Count(added, f) + IF f \in gone THEN 0 ELSE Count(stored, f)
  BY <1>1 DEF FrameInv, FramesKept
<1>5. stored' \in Seq(RvaStarts) /\ InOrder(stored')
  BY <1>1, <1>2, <1>3
<1>6. ASSUME added # <<>>
      PROVE  \A f \in RvaStarts :
               Count(stored', f) = Count(added, f) + IF f \in gone THEN 0 ELSE Count(stored, f)
  <2>1. stored' = frameSort(pdbgFrameData)
    BY <1>1, <1>4, <1>6
  <2>2. \A f : Count(stored', f) = Count(pdbgFrameData, f)
    BY <1>3, <2>1
  <2>3. QED
    BY <1>4, <1>6, <2>2
<1>7. QED
  BY <1>5, <1>6

LEMMA CloseOK ==
  ASSUME FrameDataAssumption, FrameInv, Close
  PROVE  FrameInv'
<1>1. /\ open' = FALSE /\ pdbgFrameData' = <<>> /\ opened' = FALSE
      /\ m_rgrvaRemovals' = <<>> /\ fFrameDataLoaded' = FALSE /\ added' = added
  BY DEF Close
<1>2. stored' \in Seq(RvaStarts) /\ InOrder(stored)'
  BY StoredIs DEF InOrder
<1>3. FrameTypes'
  BY <1>1, <1>2, EmptySeq DEF FrameInv, FrameTypes
<1>4. QED
  BY <1>1, <1>2, <1>3 DEF FrameInv, Forgotten, BlocksRight, FramesKept

LEMMA FrameStep ==
  ASSUME FrameDataAssumption, FrameInv, [FrameNext]_frameVars
  PROVE  FrameInv'
<1>1. CASE Open
  BY <1>1, OpenOK
<1>2. CASE Close
  BY <1>2, CloseOK
<1>3. CASE \E b \in Blocks : RemoveDataForRva(b)
  BY <1>3, RemoveOK
<1>4. CASE \E f \in RvaStarts : AddFrameData(<<f>>)
  BY <1>4, AddOK
<1>5. CASE UNCHANGED frameVars
  BY <1>5 DEF frameVars, FrameInv, FrameTypes, InOrder, Forgotten, BlocksRight, FramesKept
<1>6. QED
  BY <1>1, <1>2, <1>3, <1>4, <1>5 DEF FrameNext

LEMMA FrameInvariance ==
  ASSUME FrameDataAssumption
  PROVE  FrameSpec => []FrameInv
<1>1. FrameInit => FrameInv
  BY FrameInitOK
<1>2. FrameInv /\ [FrameNext]_frameVars => FrameInv'
  BY FrameStep
<1>3. QED
  BY <1>1, <1>2, PTL DEF FrameSpec

\* However blocks of code that go touch, overlap and nest, and in whatever order they
\* and the frames are given, a session that adds frames stores those it adds and
\* those that do not start in code that went, each as often as it was there, in order
\* (RemoveDataForRva, SaveFrameData, AddFrameData).
THEOREM FramesAreRight ==
  ASSUME FrameDataAssumption
  PROVE  FrameSpec => FramesRight
<1> DEFINE P == Close =>
             /\ added # <<>> => \A f \in RvaStarts :
                  Count(stored', f) = Count(added, f) + IF f \in gone THEN 0 ELSE Count(stored, f)
             /\ \A i \in 2 .. Len(stored') : stored'[i - 1] <= stored'[i]
<1>1. FrameInv => P
  <2>1. SUFFICES ASSUME FrameInv, Close
                 PROVE  \A i \in 2 .. Len(stored') : stored'[i - 1] <= stored'[i]
    BY StoredIs
  <2>2. stored' \in Seq(RvaStarts) /\ InOrder(stored')
    BY <2>1, StoredIs
  <2>3. Len(stored') \in Nat /\ DOMAIN stored' = 1 .. Len(stored')
    BY <2>2, LenProperties
  <2>4. \A i \in 2 .. Len(stored') : i - 1 \in 1 .. Len(stored') /\ i \in 1 .. Len(stored') /\ i - 1 <= i
    BY <2>3
  <2>5. QED
    BY <2>2, <2>3, <2>4 DEF InOrder
<1>2. FrameInv => [P]_frameVars
  BY <1>1
<1>3. []FrameInv => [][P]_frameVars
  BY <1>2, PTL
<1>4. QED
  BY <1>3, FrameInvariance, PTL DEF FramesRight
=============================================================================
