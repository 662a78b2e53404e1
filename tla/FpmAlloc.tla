------------------------------ MODULE FpmAlloc ------------------------------
(***************************************************************************)
(* The free page maps of a multistream file, word by word (struct FPM of   *)
(* PDB/msf/msf.cpp, allocPn, freePn and serializeFpm of MSF_HB): the       *)
(* growing word array with its virtual tail, the rover, the page map pages *)
(* reserved at regular intervals, the extension of the file and the way a  *)
(* page map is cut into pages.                                             *)
(*                                                                         *)
(* A word is the set of its one bits; a one bit is a free page.  A caller  *)
(* frees only pages it was given.  The pages that Commit itself allocates  *)
(* for the stream table are in module Msf.  Memory does not run out.       *)
(***************************************************************************)
EXTENDS Integers, Sequences, FiniteSets

CONSTANTS
  BPW,       \* bits in a native_word
  CbPg,      \* bytes in a page; a pair of page map pages every CbPg pages
  CharBit,   \* bits in a byte
  PnMax,     \* msfparms.pnMax = msfparms.cbitsFpm
  Growth,    \* msfparms.cpgFileGrowth
  MaxFrees,  \* bound: calls of freePn
  MaxCommits,\* bound: commits
  MaxFaults  \* bound: failed extensions of the file

\* cbPg is a power of two of at least 512, pnMax 2^20, native_word has 32 or 64
\* bits and a byte 8; the growth of rgmsfparms_hc is even and at most 8.
ASSUME FpmAssumption ==
  /\ BPW \in Nat /\ BPW > 2 /\ CharBit \in Nat /\ CharBit > 1
  /\ CbPg \in Nat /\ CbPg > 4 /\ CbPg % BPW = 0 /\ CbPg % 2 = 0
  /\ PnMax \in Nat /\ PnMax > 4 /\ PnMax % (CbPg * CharBit) = 0
  /\ Growth \in Nat \ {0} /\ Growth % 2 = 0 /\ Growth < CbPg
  /\ MaxFrees \in Nat /\ MaxCommits \in Nat /\ MaxFaults \in Nat

VARIABLES
  fpm,       \* pages that may be allocated
  fpmFreed,  \* pages freed in this transaction
  fpmComm,   \* fpmCommitted: fpm as of the last commit
  slot,      \* bighdr.pnFpm: the page map that the next commit writes
  pnMac,     \* bighdr.pnMac
  dpg,       \* the page map pages on disk
  dhdr,      \* the header on disk: the valid page map and pnMac
  used,      \* pages that the callers have
  dused,     \* pages that they had at the last commit
  nfrees, ncommits, nfaults

maps == <<fpm, fpmFreed, fpmComm>>
counters == <<nfrees, ncommits, nfaults>>
vars == <<maps, slot, pnMac, dpg, dhdr, used, dused, counters>>

Pn == 0 .. PnMax - 1
cpnBigMsfReserved == 3
IwMac == PnMax \div BPW
Bits == 0 .. BPW - 1
mppniw(pn) == pn \div BPW
mppnbit(pn) == pn % BPW

-----------------------------------------------------------------------------
(* struct FPM.  The words of a map past the end of rgw all are wFill.      *)

Fill(w) == IF w THEN Bits ELSE {}
MakeFPM(rgw, wFill, iwRover) == [rgw |-> rgw, wFill |-> wFill, iwRover |-> iwRover]
EmptyFPM(wFill) == MakeFPM(<<>>, wFill, 0)

isFreePn(m, pn) ==
  LET iw == mppniw(pn) IN
  IF iw < Len(m.rgw) THEN mppnbit(pn) \in m.rgw[iw + 1] ELSE m.wFill

AllocIn(m, pn) ==
  [m EXCEPT !.rgw[mppniw(pn) + 1] = @ \ {mppnbit(pn)}]

\* Mutant: freePn leaves the rover where it is.
FreeKeepsRover(m, pn) ==
  [m EXCEPT !.rgw[mppniw(pn) + 1] = @ \cup {mppnbit(pn)}]

FreeIn(m, pn) ==
  [m EXCEPT !.rgw[mppniw(pn) + 1] = @ \cup {mppnbit(pn)}, !.iwRover = 0]

fEnsureRoom(m, pnLim) ==
  LET n == mppniw(pnLim + BPW - 1) IN
  [m EXCEPT !.rgw = [i \in 1 .. (IF n > Len(@) THEN n ELSE Len(@)) |->
                       IF i <= Len(@) THEN @[i] ELSE Fill(m.wFill)]]

clearAll(m) == MakeFPM([i \in 1 .. Len(m.rgw) |-> {}], FALSE, 0)

WordOf(m, i) == IF i <= Len(m.rgw) THEN m.rgw[i] ELSE Fill(m.wFill)
add(m, m2) ==
  MakeFPM([i \in 1 .. (IF Len(m.rgw) > Len(m2.rgw) THEN Len(m.rgw) ELSE Len(m2.rgw)) |->
             WordOf(m, i) \cup WordOf(m2, i)],
          m.wFill \/ m2.wFill, 0)

\* Mutant: as many pairs as a map has pages, which is what the REVIEW comment
\* asks for, while serializeFpm still strides by cbPg.
PairPerMapPage(pn) == pn >= cpnBigMsfReserved /\ pn % (CbPg * CharBit) \in {1, 2}

\* A page map page: the second and third page of every CbPg pages.
fpmPn(pn) == pn >= cpnBigMsfReserved /\ pn % CbPg \in {1, 2}

\* The first word from the rover on that is not zero, and its least bit.  Past
\* the last word a word of ones is appended; once the array has its full size
\* there is none, and the code reads past its end.
NoWord == PnMax
FindFree(m) ==
  LET iw == CHOOSE i \in m.iwRover .. Len(m.rgw) :
              /\ \A j \in m.iwRover .. i - 1 : m.rgw[j + 1] = {}
              /\ i < Len(m.rgw) => m.rgw[i + 1] # {}
      m2 == [m EXCEPT !.iwRover = iw,
                      !.rgw = IF iw = Len(@) /\ iw < IwMac THEN Append(@, Bits) ELSE @]
  IN [map |-> m2,
      pn  |-> IF iw = IwMac THEN NoWord
              ELSE CHOOSE p \in iw * BPW .. (iw + 1) * BPW - 1 :
                     isFreePn(m2, p) /\ \A q \in iw * BPW .. p - 1 : ~isFreePn(m2, q)]

\* nextPn without the last allocPn: it calls itself after it has reserved a
\* pair of page map pages, at most once for each pair of the file.
Intervals == PnMax \div CbPg
FoundPn(m) ==
  LET found[k \in 0 .. Intervals] ==
        IF k = 0 THEN FindFree(m)
        ELSE LET f == found[k - 1] IN
             IF f.pn # NoWord /\ fpmPn(f.pn)
             THEN FindFree(AllocIn(AllocIn(f.map, f.pn), f.pn + 1))
             ELSE f
  IN found[Intervals]

-----------------------------------------------------------------------------
(* MSF_HB::allocPn and freePn.                                             *)

Larger(a, b) == IF a > b THEN a ELSE b
Smaller(a, b) == IF a < b THEN a ELSE b

\* Mutants: the file grows from its present end and not from the page found;
\* it is capped at pnMax.
MacFromEnd(pn) == Smaller(pnMac + Growth, PnMax - 1)
MacToMax(pn) == Smaller(Larger(pnMac, pn) + Growth, PnMax)

upnMacNew(pn) == Smaller(Larger(pnMac, pn) + Growth, PnMax - 1)

allocPn ==
  LET f == FoundPn(fpm) IN
  /\ f.pn # NoWord
  /\ \/ /\ f.pn < pnMac \/ upnMacNew(f.pn) > pnMac
        /\ fpm' = AllocIn(f.map, f.pn)
        /\ pnMac' = IF f.pn < pnMac THEN pnMac ELSE upnMacNew(f.pn)
        /\ used' = used \cup {f.pn}
        /\ UNCHANGED nfaults
     \/ \* the file is at its limit, or cannot be extended
        /\ f.pn >= pnMac
        /\ IF upnMacNew(f.pn) > pnMac
           THEN nfaults < MaxFaults /\ nfaults' = nfaults + 1
           ELSE UNCHANGED nfaults
        /\ fpm' = FreeIn(AllocIn(f.map, f.pn), f.pn)
        /\ UNCHANGED <<pnMac, used>>
  /\ UNCHANGED <<fpmFreed, fpmComm, slot, dpg, dhdr, dused, nfrees, ncommits>>

freePn(pn) ==
  /\ pn \in used
  /\ nfrees < MaxFrees /\ nfrees' = nfrees + 1
  /\ IF isFreePn(fpmComm, pn)
     THEN fpm' = FreeIn(fpm, pn) /\ UNCHANGED fpmFreed
     ELSE fpmFreed' = FreeIn(fEnsureRoom(fpmFreed, pn + 1), pn) /\ UNCHANGED fpm
  /\ used' = used \ {pn}
  /\ UNCHANGED <<fpmComm, slot, pnMac, dpg, dhdr, dused, ncommits, nfaults>>

-----------------------------------------------------------------------------
(* The part of Commit and load that is about page maps.                    *)

\* Pages of a page map: one bit for each page of the file, in whole words.
RoundUp(n, d) == ((n + d - 1) \div d) * d
cpnFpm(mac) == RoundUp(RoundUp(mac, BPW), CbPg * CharBit) \div (CbPg * CharBit)
\* Words in a page.
cwPg == (CbPg * CharBit) \div BPW

FpmPages(s, mac) == {s + k * CbPg : k \in 0 .. cpnFpm(mac) - 1}
\* The words that page k of the map m holds.
FpmPage(m, k) == SubSeq(m.rgw, k * cwPg + 1, (k + 1) * cwPg)

Commit ==
  LET m == fEnsureRoom(add(fpm, fpmFreed), cpnFpm(pnMac) * CbPg * CharBit) IN
  /\ ncommits < MaxCommits /\ ncommits' = ncommits + 1
  /\ dpg' = [p \in Pn |-> IF p \in FpmPages(slot, pnMac)
                          THEN FpmPage(m, (p - slot) \div CbPg) ELSE dpg[p]]
  /\ dhdr' = [slot |-> slot, mac |-> pnMac]
  /\ slot' = IF slot = 1 THEN 2 ELSE 1
  /\ fpm' = m /\ fpmComm' = [m EXCEPT !.iwRover = 0]
  /\ fpmFreed' = clearAll(fpmFreed)
  /\ dused' = used
  /\ UNCHANGED <<pnMac, used, nfrees, nfaults>>

\* Mutant: deser does not fill the map first, and the pages of the file that
\* came after the commit stay in use.
LoadedZero(m) == EmptyFPM(FALSE)
LoadedFill(m) == EmptyFPM(TRUE)

\* deser: every word starts as ones, and those the file holds are read.
Loaded ==
  LET n == cpnFpm(dhdr.mac) IN
  [LoadedFill(fpm) EXCEPT !.rgw =
     [i \in 1 .. n * cwPg |->
        dpg[dhdr.slot + ((i - 1) \div cwPg) * CbPg][((i - 1) % cwPg) + 1]]]

\* Close without Commit, or a crash, and the next open.
Load ==
  /\ dhdr.mac # 0
  /\ fpm' = Loaded /\ fpmComm' = Loaded /\ fpmFreed' = EmptyFPM(FALSE)
  /\ slot' = IF dhdr.slot = 1 THEN 2 ELSE 1
  /\ pnMac' = dhdr.mac
  /\ used' = dused
  /\ UNCHANGED <<dpg, dhdr, dused, counters>>

\* afterCreate, up to its Commit: nextPn gave the header and the two maps.
Init ==
  /\ fpm = AllocIn(AllocIn(AllocIn(fEnsureRoom(EmptyFPM(TRUE), 3), 0), 1), 2)
  /\ fpmFreed = EmptyFPM(FALSE) /\ fpmComm = EmptyFPM(TRUE)
  /\ slot = 1 /\ pnMac = 3
  /\ dpg = [p \in Pn |-> <<>>] /\ dhdr = [slot |-> 0, mac |-> 0]
  /\ used = {} /\ dused = {}
  /\ nfrees = 0 /\ ncommits = 0 /\ nfaults = 0

Next == allocPn \/ (\E pn \in Pn : freePn(pn)) \/ Commit \/ Load

Spec == Init /\ [][Next]_vars

-----------------------------------------------------------------------------
(* Properties.                                                             *)

FreeSet(m) == {pn \in Pn : isFreePn(m, pn)}
DataPages == {pn \in Pn : pn >= 3 /\ ~fpmPn(pn)}

\* nextPn finds a free page in its array: the map never gets full, because the
\* last page of the largest file is always given back (msf.cpp:1107-1139), so
\* that rgw[iw] is not read past its end (msf.cpp:461).
MapNeverFull == FoundPn(fpm).pn # NoWord

\* The pages where Commit will put the page map, and those where the valid one
\* is, lie in the file (writePnOffCb asserts it) and no caller has them,
\* although they are reserved only when the search for a free page meets them.
MapPagesReserved ==
  /\ used \cap {pn \in Pn : fpmPn(pn) \/ pn < 3} = {}
  /\ FpmPages(slot, pnMac) \subseteq 0 .. pnMac - 1
  /\ \A p \in FpmPages(slot, pnMac) : ~isFreePn(fpm, p) /\ p \notin used

\* allocPn's two assertions (msf.cpp:1110 and 1123): the page found lies at
\* the end of the file or after the pair of page map pages there, and inside
\* the extended file; the second one does not hold of a file at its limit.
GrowthAsserted ==
  LET pn == FoundPn(fpm).pn IN
  /\ pn <= pnMac \/ (fpmPn(pnMac + 1) /\ pn <= pnMac + 2)
  /\ pn >= pnMac /\ pnMac < PnMax - 1 => pn < upnMacNew(pn)

ReservesHold == MapNeverFull /\ MapPagesReserved /\ GrowthAsserted

\* Every data page is either free, freed, or held by a caller, the virtual
\* words of the maps included (the last loop of checkInvariants).
DataPagesAccounted ==
  \A pn \in DataPages :
    IF isFreePn(fpm, pn)
    THEN ~isFreePn(fpmFreed, pn) /\ pn \notin used
    ELSE isFreePn(fpmFreed, pn) <=> pn \notin used

\* The page map that the next open reads, if the file was ever committed.
OnDisk == IF dhdr.mac = 0 THEN {} ELSE {Loaded}

\* The words, the rover, the fill and the pages on disk are a set of free
\* pages: the least free page is allocated, a page comes back when module Msf
\* says it does, and a file is reopened with the free pages it was committed
\* with.
PageSets == INSTANCE PageSet
  WITH Pages <- DataPages, FirstMac <- 3,
       free <- FreeSet(fpm) \cap DataPages,
       freed <- FreeSet(fpmFreed) \cap DataPages,
       comm <- FreeSet(fpmComm) \cap DataPages,
       mac <- pnMac,
       dfree <- UNION {FreeSet(m) \cap DataPages : m \in OnDisk},
       dmac <- dhdr.mac

\* That is SetSpec, said of the steps that are steps of the maps (allocPn, freePn,
\* serializeFpm and loadFpm): no other can change the sets.
ImplementsPageSet ==
  PageSets!SetInit /\ [][vars' # vars => [PageSets!SetNext]_(PageSets!setVars)]_vars
=============================================================================
