------------------------------ MODULE MsfProofs ------------------------------
(***************************************************************************)
(* Proofs about module Msf: as long as no caller goes on after a Commit    *)
(* that returned FALSE, the file can be opened at any moment, no page that *)
(* it would be opened with is ever allocated or has two owners, and the    *)
(* file implements the transacted store of module TransStore: what it      *)
(* would reopen with changes only when the header is written, and then to  *)
(* what the streams hold at that moment.  The inductive invariant comes    *)
(* first; TLC checks it on a small file.                                   *)
(***************************************************************************)
EXTENDS Msf, FiniteSetTheorems, TLAPS

ASSUME StopsAfterFailure == UseAfterFailedCommit = FALSE

InMemory == pc \notin {"failed", "broken"}
Building == pc \in {"ready", "write", "list", "fpm"}

\* What the header leads to: a list page, a table all of whose pages are there,
\* and streams that own their pages.
DiskInv ==
  /\ DiskStPns \in [0 .. CpnSt - 1 -> DataPn]
  /\ dpg[dhdr.list] = ListPage(DiskStPns)
  /\ TableOK(DiskTable)
  /\ Loadable

\* The table in memory owns its pages.
MemOK ==
  /\ UsedOnce(st, pnList)
  /\ (fpm \cup freed) \cap Used = {}
  /\ \A p \in Used : p < pnMac
MemInv == InMemory => MemOK

\* A page of both tables is at the same place in both and no shorter in memory.
Linked(tbl, list, dtbl, dlist) ==
  /\ \A s, t \in Sn : \A i \in 0 .. tbl[s].n - 1, j \in 0 .. dtbl[t].n - 1 :
       tbl[s].pns[i] = dtbl[t].pns[j] =>
         s = t /\ i = j /\ Extent(dtbl[t], j) <= Extent(tbl[s], i)
  /\ \A s \in Sn : dlist \notin Pages(tbl[s])
  /\ \A t \in Sn : list \notin Pages(dtbl[t])

LinkOK == Linked(st, pnList, LoadedTable, dhdr.list)

\* Until the page map of this transaction is made, the transaction stays away
\* from the pages on disk.
AwayOK ==
  /\ DiskUsed \cap fpm = {}
  /\ fpm \cap freed = {}
  /\ comm = DiskFpm
  /\ slot # dhdr.slot
AwayInv == Building => LinkOK /\ AwayOK

WriteInv ==
  pc = "write" => wr.sn \in UserSn /\ wr.i <= wr.j /\ wr.j < st[wr.sn].n

\* The new table has been written, and then its list.
WrittenTable == dpg[st[snSt].pns[0]].tbl
TableInv ==
  /\ pc \in {"list", "fpm", "hdr"} =>
       /\ st[snSt] = SI(CpnSt, CbPg, st[snSt].pns)
       /\ \A i \in 0 .. CpnSt - 1 : dpg[st[snSt].pns[i]] = TablePage(WrittenTable)
       /\ TableOK(WrittenTable)
       /\ st = [WrittenTable EXCEPT ![snSt] = st[snSt]]
  /\ pc \in {"fpm", "hdr"} => dpg[pnList] = ListPage(st[snSt].pns)

HdrInv == pc = "hdr" => LinkOK /\ dfpm[slot] = fpm /\ slot # dhdr.slot

FlushInv ==
  pc = "flush" => /\ dhdr = [slot |-> slot, mac |-> pnMac, list |-> pnList]
                  /\ LoadedTable = st
                  /\ DiskFpm = fpm

\* The inductive invariant: between any two page writes of an operation or a
\* commit the file on disk can be opened, and the transaction in memory owns
\* its pages and stays away from those of that file (writeNewDataPgs, freePn
\* and Commit of msf.cpp).
IInv == /\ TypeOK /\ DiskInv /\ MemInv /\ AwayInv
        /\ WriteInv /\ TableInv /\ HdrInv /\ FlushInv

-----------------------------------------------------------------------------
(* The helpers of module Msf.                                              *)

\* nextPn's pages are distinct pages of the free set.
LEMMA LeastPnsFacts ==
  ASSUME NEW f, f \subseteq DataPn, NEW k \in Nat, NEW pns \in LeastPns(f, k)
  PROVE  /\ pns \in [0 .. k - 1 -> f]
         /\ PnSet(pns, k) \subseteq f
         /\ \A i, j \in 0 .. k - 1 : pns[i] = pns[j] => i = j
<1>1. pns \in [0 .. k - 1 -> f]
  BY DEF LeastPns
<1>2. \A i \in 0 .. k - 1 : pns[i] \in Int
  <2>1. DataPn \subseteq Int
    BY MsfAssumption DEF DataPn, pnDataMin
  <2>2. QED
    BY <1>1, <2>1
<1>3. \A i, j \in 0 .. k - 1 : i < j => pns[i] < pns[j]
  BY DEF LeastPns
<1>4. ASSUME NEW i \in 0 .. k - 1, NEW j \in 0 .. k - 1, pns[i] = pns[j]
      PROVE  i = j
  <2>1. ~(i < j) /\ ~(j < i)
    BY <1>2, <1>3, <1>4
  <2>2. QED
    BY <2>1
<1>5. QED
  BY <1>1, <1>4 DEF PnSet

\* Extending the file never shrinks it, and takes in the pages allocated.
LEMMA MacForFacts ==
  ASSUME pnMac \in 0 .. PnMax - 1, NEW S, NEW m \in MacFor(S)
  PROVE  m \in 0 .. PnMax - 1 /\ pnMac <= m /\ \A p \in S : p < m
BY MsfAssumption DEF MacFor, MacFrom, MacSteps

\* A step that writes no page of the list or the table on disk, nor the valid
\* page map, changes nothing of what the file would be opened with.
LEMMA DiskKept ==
  ASSUME TypeOK, DiskInv, dhdr' = dhdr, DOMAIN dpg' = DOMAIN dpg,
         dfpm'[dhdr.slot] = dfpm[dhdr.slot],
         \A p \in Pages(LoadedTable[snSt]) \cup {dhdr.list} : dpg'[p] = dpg[p]
  PROVE  /\ LoadedTable' = LoadedTable
         /\ DiskUsed' = DiskUsed
         /\ DiskFpm' = DiskFpm
         /\ DiskInv'
<1>1. DiskStPns' = DiskStPns
  BY DEF DiskStPns
<1>2. snSt \in DOMAIN DiskTable
  BY MsfAssumption DEF DiskInv, TableOK, Sn, snSt
<1>3. LoadedTable[snSt] = SI(CpnSt, CbPg, DiskStPns)
  BY <1>2 DEF LoadedTable
<1>4. \A i \in 0 .. CpnSt - 1 : dpg'[DiskStPns[i]] = dpg[DiskStPns[i]]
  BY <1>3 DEF Pages, PnSet, SI
<1>5. DiskTable' = DiskTable
  BY <1>1, <1>4, MsfAssumption DEF DiskTable
<1>6. LoadedTable' = LoadedTable
  BY <1>1, <1>5 DEF LoadedTable
<1>7. DiskUsed' = DiskUsed /\ DiskFpm' = DiskFpm
  BY <1>6 DEF DiskUsed, DiskFpm
<1>8. dpg'[DiskStPns[0]] = dpg[DiskStPns[0]]
  BY <1>4, MsfAssumption
<1>9. Loadable'
  BY <1>1, <1>4, <1>5, <1>6, <1>7, <1>8 DEF DiskInv, Loadable, Readable
<1>10. QED
  BY <1>1, <1>5, <1>6, <1>7, <1>9 DEF DiskInv

-----------------------------------------------------------------------------
(* What an operation on one stream does to the ownership of pages.         *)

\* The pages that a table and its list use, one by one.
LEMMA UsedByMember ==
  ASSUME NEW tbl, NEW list, NEW p
  PROVE  p \in UsedBy(tbl, list) <=> p = list \/ \E s \in Sn : p \in Pages(tbl[s])
<1> DEFINE U == UNION {Pages(tbl[t]) : t \in Sn}
<1>1. ASSUME NEW s \in Sn, p \in Pages(tbl[s])
      PROVE  p \in U
  <2>1. Pages(tbl[s]) \in {Pages(tbl[t]) : t \in Sn}
    OBVIOUS
  <2>2. QED
    BY <1>1, <2>1
<1>2. ASSUME p \in U
      PROVE  \E s \in Sn : p \in Pages(tbl[s])
  <2>1. PICK S \in {Pages(tbl[t]) : t \in Sn} : p \in S
    BY <1>2
  <2>2. QED
    BY <2>1
<1>3. UsedBy(tbl, list) = {list} \cup U
  BY DEF UsedBy
<1> HIDE DEF U
<1>4. QED
  BY <1>1, <1>2, <1>3

LEMMA ExtentInt ==
  ASSUME NEW si, SIOK(si), NEW i
  PROVE  Extent(si, i) \in Int
BY MsfAssumption DEF Extent, SIOK

\* Replacing the entry of sn by one whose pages were free, or its own, keeps
\* every page in one place and no page in use free.
LEMMA TableStep ==
  ASSUME TableOK(st), UsedOnce(st, pnList), (fpm \cup freed) \cap Used = {},
         NEW sn \in Sn, NEW si, SIOK(si),
         \A i, j \in 0 .. si.n - 1 : si.pns[i] = si.pns[j] => i = j,
         Pages(si) \subseteq fpm \cup Pages(st[sn]),
         fpm' \cup freed' \subseteq (fpm \cup freed \cup Pages(st[sn])) \ Pages(si),
         st' = [st EXCEPT ![sn] = si], pnList' = pnList
  PROVE  /\ TableOK(st')
         /\ UsedOnce(st', pnList')
         /\ (fpm' \cup freed') \cap Used' = {}
         /\ Used' \subseteq Used \cup Pages(si)
<1>1. TableOK(st')
  BY DEF TableOK
<1>2. /\ st'[sn] = si
      /\ \A s \in Sn \ {sn} : st'[s] = st[s]
  BY DEF TableOK
<1>3. \A s \in Sn : Pages(st[s]) \subseteq Used
  BY DEF Used, UsedBy
<1>4. \A s \in Sn \ {sn} : Pages(st[s]) \cap Pages(si) = {}
  <2>1. \A s \in Sn \ {sn} : Pages(st[s]) \cap Pages(st[sn]) = {}
    BY DEF UsedOnce, Pages, PnSet
  <2>2. QED
    BY <1>3, <2>1
<1>5. pnList \notin Pages(si)
  <2>1. pnList \in Used /\ pnList \notin Pages(st[sn])
    BY UsedByMember DEF Used, UsedOnce
  <2>2. QED
    BY <2>1
<1>6. UsedOnce(st', pnList')
  <2>1. ASSUME NEW s \in Sn, NEW t \in Sn,
               NEW i \in 0 .. st'[s].n - 1, NEW j \in 0 .. st'[t].n - 1,
               st'[s].pns[i] = st'[t].pns[j]
        PROVE  s = t /\ i = j
    <3>1. CASE s = sn /\ t = sn
      BY <3>1, <2>1, <1>2
    <3>2. CASE s # sn /\ t # sn
      BY <3>2, <2>1, <1>2 DEF UsedOnce
    <3>3. CASE s = sn /\ t # sn
      <4>1. st'[s].pns[i] \in Pages(si) /\ st'[t].pns[j] \in Pages(st[t])
        BY <3>3, <1>2 DEF Pages, PnSet
      <4>2. QED
        BY <4>1, <3>3, <2>1, <1>4
    <3>4. CASE s # sn /\ t = sn
      <4>1. st'[t].pns[j] \in Pages(si) /\ st'[s].pns[i] \in Pages(st[s])
        BY <3>4, <1>2 DEF Pages, PnSet
      <4>2. QED
        BY <4>1, <3>4, <2>1, <1>4
    <3>5. QED
      BY <3>1, <3>2, <3>3, <3>4
  <2>2. \A s \in Sn : pnList' \notin Pages(st'[s])
    BY <1>2, <1>5 DEF UsedOnce
  <2>3. QED
    BY <2>1, <2>2 DEF UsedOnce
<1>7. \A p : p \in Used' <=> p = pnList \/ \E s \in Sn : p \in Pages(st'[s])
  BY UsedByMember DEF Used
<1>8. Used' \subseteq Used \cup Pages(si)
  <2>1. \A s \in Sn : Pages(st'[s]) \subseteq Used \cup Pages(si)
    BY <1>2, <1>3
  <2>2. pnList \in Used
    BY UsedByMember DEF Used
  <2>3. QED
    BY <2>1, <2>2, <1>7
<1>9. (fpm' \cup freed') \cap Used' = {}
  <2>1. ASSUME NEW p \in fpm' \cup freed', NEW s \in Sn
        PROVE  p \notin Pages(st'[s])
    <3>1. CASE s = sn
      BY <3>1, <1>2
    <3>2. CASE s # sn
      <4>1. Pages(st[s]) \cap Pages(st[sn]) = {}
        BY <3>2 DEF UsedOnce, Pages, PnSet
      <4>2. QED
        BY <3>2, <4>1, <1>2, <1>3
    <3>3. QED
      BY <3>1, <3>2
  <2>2. pnList \notin fpm' \cup freed'
    <3>1. pnList \in Used /\ pnList \notin Pages(st[sn])
      BY UsedByMember DEF Used, UsedOnce
    <3>2. QED
      BY <3>1
  <2>3. QED
    BY <1>7, <2>1, <2>2
<1>10. QED
  BY <1>1, <1>6, <1>8, <1>9

\* The entry put for sn keeps the link to the table on disk when each of its
\* pages either is not in use there or has not moved nor become shorter.
LEMMA LinkStep ==
  ASSUME TableOK(st), NEW dtbl, NEW dlist, Linked(st, pnList, dtbl, dlist),
         NEW sn \in Sn, NEW si, SIOK(si),
         \A i \in 0 .. si.n - 1 :
           \/ si.pns[i] \notin UsedBy(dtbl, dlist)
           \/ /\ i < st[sn].n
              /\ si.pns[i] = st[sn].pns[i]
              /\ Extent(st[sn], i) <= Extent(si, i),
         \A t \in Sn : SIOK(dtbl[t]),
         st' = [st EXCEPT ![sn] = si]
  PROVE  Linked(st', pnList, dtbl, dlist)
<1>1. /\ st'[sn] = si
      /\ \A s \in Sn \ {sn} : st'[s] = st[s]
  BY DEF TableOK
<1>2. SIOK(st[sn])
  BY DEF TableOK
<1>3. ASSUME NEW t \in Sn, NEW i \in 0 .. si.n - 1, NEW j \in 0 .. dtbl[t].n - 1,
             si.pns[i] = dtbl[t].pns[j]
      PROVE  sn = t /\ i = j /\ Extent(dtbl[t], j) <= Extent(si, i)
  <2>1. si.pns[i] \in UsedBy(dtbl, dlist)
    BY <1>3, UsedByMember DEF Pages, PnSet
  <2>2. /\ i < st[sn].n
        /\ si.pns[i] = st[sn].pns[i]
        /\ Extent(st[sn], i) <= Extent(si, i)
    BY <2>1
  <2>3. i \in 0 .. st[sn].n - 1
    BY <2>2, <1>2 DEF SIOK
  <2>4. sn = t /\ i = j /\ Extent(dtbl[t], j) <= Extent(st[sn], i)
    BY ZenonT(40), <2>2, <2>3, <1>3 DEF Linked
  <2>5. /\ Extent(dtbl[t], j) \in Int
        /\ Extent(st[sn], i) \in Int
        /\ Extent(si, i) \in Int
    BY <1>2, ExtentInt
  <2>6. QED
    BY <2>2, <2>4, <2>5
<1>4. dlist \notin Pages(si)
  <2>1. ASSUME NEW i \in 0 .. si.n - 1, si.pns[i] = dlist
        PROVE  FALSE
    <3>1. dlist \in UsedBy(dtbl, dlist)
      BY UsedByMember
    <3>2. i < st[sn].n /\ st[sn].pns[i] = dlist
      BY <2>1, <3>1
    <3>3. dlist \in Pages(st[sn])
      BY <3>2, <1>2 DEF SIOK, Pages, PnSet
    <3>4. QED
      BY <3>3 DEF Linked
  <2>2. QED
    BY <2>1 DEF Pages, PnSet
<1>5. QED
  BY <1>1, <1>3, <1>4 DEF Linked

-----------------------------------------------------------------------------
(* One stream operation.                                                   *)

\* Pages that may be allocated in this transaction are not in use on disk.
LEMMA FreshNotOnDisk ==
  ASSUME DiskInv, AwayOK, NEW p \in fpm \cup comm
  PROVE  p \notin DiskUsed
BY DEF DiskInv, Loadable, AwayOK

\* Nor are they waiting for the next commit to become free.
LEMMA FreshNotFreed ==
  ASSUME MemOK, AwayOK, NEW sn \in Sn, NEW p \in fpm \cup FreeNow(Pages(st[sn]))
  PROVE  p \notin freed \cup FreeLater(Pages(st[sn]))
<1>1. (fpm \cup freed) \cap Pages(st[sn]) = {}
  BY UsedByMember DEF MemOK, Used
<1>2. QED
  BY <1>1 DEF AwayOK, FreeNow, FreeLater

\* The pages of a user stream in memory are not the table's on disk.
LEMMA OwnNotTable ==
  ASSUME TypeOK, DiskInv, LinkOK, NEW sn \in UserSn, NEW p \in Pages(st[sn])
  PROVE  p \notin Pages(LoadedTable[snSt]) \cup {dhdr.list}
<1>1. sn \in Sn /\ snSt \in Sn /\ sn # snSt
  BY MsfAssumption DEF UserSn, Sn, snSt
<1>2. QED
  BY <1>1 DEF LinkOK, Linked, Pages, PnSet

\* What is on disk and away from the table's pages is kept.
LEMMA TableNotInUse ==
  ASSUME NEW p, p \notin DiskUsed
  PROVE  p \notin Pages(LoadedTable[snSt]) \cup {dhdr.list}
BY UsedByMember, MsfAssumption DEF DiskUsed, Sn, snSt

LEMMA LoadedTableOK ==
  ASSUME DiskInv
  PROVE  /\ TableOK(LoadedTable)
         /\ LoadedTable[snSt] = SI(CpnSt, CbPg, DiskStPns)
<1>1. snSt \in Sn
  BY MsfAssumption DEF Sn, snSt
<1>2. SIOK(SI(CpnSt, CbPg, DiskStPns))
  BY MsfAssumption DEF DiskInv, SIOK, SI
<1>3. QED
  BY <1>1, <1>2 DEF DiskInv, TableOK, LoadedTable

\* The new entry si of stream sn is made of pages that were free and pages of
\* its own that it does not share less of; what is freed is its own.
LEMMA StreamStep ==
  ASSUME TypeOK, DiskInv, MemOK, LinkOK, AwayOK,
         NEW sn \in Sn, NEW si, SIOK(si),
         \A i, j \in 0 .. si.n - 1 : si.pns[i] = si.pns[j] => i = j,
         \A i \in 0 .. si.n - 1 :
           \/ si.pns[i] \in fpm \cup FreeNow(Pages(st[sn]))
           \/ /\ i < st[sn].n
              /\ si.pns[i] = st[sn].pns[i]
              /\ Extent(st[sn], i) <= Extent(si, i),
         fpm' \subseteq (fpm \cup FreeNow(Pages(st[sn]))) \ Pages(si),
         freed' \subseteq (freed \cup FreeLater(Pages(st[sn]))) \ Pages(si),
         \A p \in Pages(si) : p < pnMac', pnMac' \in Int, pnMac <= pnMac',
         st' = [st EXCEPT ![sn] = si],
         DOMAIN dpg' = DOMAIN dpg,
         \A p \in Pages(LoadedTable[snSt]) \cup {dhdr.list} : dpg'[p] = dpg[p],
         UNCHANGED <<dhdr, dfpm, slot, comm, pnList>>
  PROVE  DiskInv' /\ MemOK' /\ LinkOK' /\ AwayOK' /\ TableOK(st')
<1>1. LoadedTable' = LoadedTable /\ DiskUsed' = DiskUsed /\ DiskFpm' = DiskFpm /\ DiskInv'
  BY DiskKept
<1>2. TableOK(st) /\ SIOK(st[sn])
  BY DEF TypeOK, TableOK
<1>3. Pages(si) \subseteq fpm \cup Pages(st[sn])
  <2>1. ASSUME NEW i \in 0 .. si.n - 1
        PROVE  si.pns[i] \in fpm \cup Pages(st[sn])
    <3>1. CASE si.pns[i] \in fpm \cup FreeNow(Pages(st[sn]))
      BY <3>1 DEF FreeNow
    <3>2. CASE i < st[sn].n /\ si.pns[i] = st[sn].pns[i]
      BY <3>2, <1>2 DEF Pages, PnSet, SIOK
    <3>3. QED
      BY <3>1, <3>2
  <2>2. QED
    BY <2>1 DEF Pages, PnSet
<1>4. /\ TableOK(st')
      /\ UsedOnce(st', pnList')
      /\ (fpm' \cup freed') \cap Used' = {}
      /\ Used' \subseteq Used \cup Pages(si)
  <2>1. fpm' \cup freed' \subseteq (fpm \cup freed \cup Pages(st[sn])) \ Pages(si)
    BY DEF FreeNow, FreeLater
  <2>2. QED
    BY <1>2, <1>3, <2>1, TableStep DEF MemOK
<1>5. \A p \in Used' : p < pnMac'
  <2>1. Used \subseteq Int
    <3>1. \A p \in Used : p = pnList \/ \E s \in Sn : p \in Pages(st[s])
      BY UsedByMember DEF Used
    <3>2. \A s \in Sn : Pages(st[s]) \subseteq DataPn
      BY <1>2 DEF TableOK, SIOK, Pages, PnSet
    <3>3. DataPn \subseteq Int
      BY MsfAssumption DEF DataPn, pnDataMin
    <3>4. QED
      BY <3>1, <3>2, <3>3 DEF TypeOK
  <2>2. pnMac \in Int
    BY MsfAssumption DEF TypeOK
  <2>3. \A p \in Used : p < pnMac'
    BY <2>1, <2>2 DEF MemOK
  <2>4. QED
    BY <2>3, <1>4
<1>6. MemOK'
  BY <1>4, <1>5 DEF MemOK
<1>7. LinkOK'
  <2>1. \A t \in Sn : SIOK(LoadedTable[t])
    BY LoadedTableOK DEF TableOK
  <2>2. \A i \in 0 .. si.n - 1 :
           \/ si.pns[i] \notin UsedBy(LoadedTable, dhdr.list)
           \/ /\ i < st[sn].n
              /\ si.pns[i] = st[sn].pns[i]
              /\ Extent(st[sn], i) <= Extent(si, i)
    BY FreshNotOnDisk DEF FreeNow, DiskUsed
  <2>3. Linked(st', pnList, LoadedTable, dhdr.list)
    BY <1>2, <2>1, <2>2, LinkStep DEF LinkOK
  <2>4. QED
    BY <2>3, <1>1 DEF LinkOK
<1>8. AwayOK'
  <2>1. fpm' \cap freed' = {}
    BY FreshNotFreed
  <2>2. fpm' \subseteq fpm \cup comm
    BY DEF FreeNow
  <2>3. QED
    BY <1>1, <2>1, <2>2, FreshNotOnDisk DEF AwayOK
<1>9. QED
  BY <1>1, <1>4, <1>6, <1>7, <1>8

-----------------------------------------------------------------------------
(* The operations, one by one.                                             *)

\* Between calls everything but the disk's own invariant is about memory.
LEMMA ReadyParts ==
  ASSUME IInv, Idle
  PROVE  /\ pc = "ready"
         /\ TypeOK /\ DiskInv /\ MemOK /\ LinkOK /\ AwayOK
BY StopsAfterFailure DEF IInv, Idle, MemInv, InMemory, AwayInv, Building

LEMMA ReadyAgain ==
  ASSUME TypeOK', DiskInv', MemOK', LinkOK', AwayOK', pc' = "ready"
  PROVE  IInv'
BY DEF IInv, MemInv, AwayInv, WriteInv, TableInv, HdrInv, FlushInv

LEMMA ChargeNat ==
  ASSUME nfaults \in Nat, NEW x, Charge(x)
  PROVE  nfaults' \in Nat
BY DEF Charge

LEMMA NewEntryOK ==
  ASSUME NEW sz \in Sizes, NEW pns \in [0 .. sz[1] - 1 -> DataPn]
  PROVE  SIOK(SI(sz[1], sz[2], pns))
BY MsfAssumption DEF Sizes, SIOK, SI

LEMMA PagesInData ==
  ASSUME NEW si, SIOK(si)
  PROVE  Pages(si) \subseteq DataPn
BY DEF SIOK, Pages, PnSet

\* An attempt to write n new pages out of f: the pages it got, those of them
\* that it wrote, and the size of the file after it.
LEMMA NewPgsFacts ==
  ASSUME TypeOK, NEW f, f \subseteq DataPn, NEW n \in Nat,
         NEW k \in 0..n, NEW w \in 0..n, NewPgsOutcome(n, k, w),
         NEW pns \in LeastPns(f, k), pnMac' \in MacFor(PnSet(pns, k))
  PROVE  /\ pns \in [0 .. k - 1 -> f]
         /\ PnSet(pns, k) \subseteq f
         /\ \A i, j \in 0 .. k - 1 : pns[i] = pns[j] => i = j
         /\ w = n => k = n
         /\ PnSet(pns, w) \subseteq PnSet(pns, k)
         /\ pnMac' \in 0 .. PnMax - 1 /\ pnMac' \in Int /\ pnMac <= pnMac'
         /\ \A p \in PnSet(pns, k) : p < pnMac'
<1>1. k \in Nat /\ w <= k /\ (w = n => k = n)
  BY DEF NewPgsOutcome
<1>2. /\ pns \in [0 .. k - 1 -> f]
      /\ PnSet(pns, k) \subseteq f
      /\ \A i, j \in 0 .. k - 1 : pns[i] = pns[j] => i = j
  BY <1>1, LeastPnsFacts
<1>3. PnSet(pns, w) \subseteq PnSet(pns, k)
  BY <1>1 DEF PnSet
<1>4. pnMac' \in 0 .. PnMax - 1 /\ pnMac <= pnMac' /\ (\A p \in PnSet(pns, k) : p < pnMac')
  BY MacForFacts DEF TypeOK
<1>5. pnMac' \in Int
  BY <1>4, MsfAssumption
<1>6. QED
  BY <1>1, <1>2, <1>3, <1>4, <1>5

\* The same for one page.
LEMMA NewPgFacts ==
  ASSUME TypeOK, NEW f, f \subseteq DataPn,
         NEW k \in 0..1, NEW w \in 0..1, NewPgsOutcome(1, k, w),
         NEW pns \in LeastPns(f, k), pnMac' \in MacFor(PnSet(pns, k))
  PROVE  /\ pns \in [0 .. k - 1 -> f]
         /\ PnSet(pns, k) \subseteq f
         /\ w = 1 => k = 1
         /\ k = 1 => pns[0] \in f /\ PnSet(pns, k) = {pns[0]}
         /\ PnSet(pns, w) \subseteq PnSet(pns, k)
         /\ pnMac' \in 0 .. PnMax - 1 /\ pnMac' \in Int /\ pnMac <= pnMac'
         /\ \A p \in PnSet(pns, k) : p < pnMac'
<1>1. PICK n \in Nat : n = 1
  OBVIOUS
<1>2. k \in 0..n /\ w \in 0..n /\ NewPgsOutcome(n, k, w)
  BY <1>1
<1>3. /\ pns \in [0 .. k - 1 -> f]
      /\ PnSet(pns, k) \subseteq f
      /\ \A i, j \in 0 .. k - 1 : pns[i] = pns[j] => i = j
      /\ w = n => k = n
      /\ PnSet(pns, w) \subseteq PnSet(pns, k)
      /\ pnMac' \in 0 .. PnMax - 1 /\ pnMac' \in Int /\ pnMac <= pnMac'
      /\ \A p \in PnSet(pns, k) : p < pnMac'
  BY ZenonT(90), <1>2, NewPgsFacts
<1>4. k = 1 => pns[0] \in f /\ PnSet(pns, k) = {pns[0]}
  BY <1>3 DEF PnSet
<1>5. QED
  BY <1>1, <1>3, <1>4

LEMMA NilEntryOK ==
  SIOK(siNil) /\ Pages(siNil) = {} /\ 0 .. siNil.n - 1 = {}
BY MsfAssumption DEF SIOK, siNil, NoPns, Pages, PnSet

\* A write to pages that may be allocated, or to the pages of a user stream,
\* spares the table on disk.
LEMMA PutSparesTable ==
  ASSUME TypeOK, DiskInv, LinkOK, AwayOK,
         NEW S,
         \A p \in S : p \in fpm \cup comm \/ (\E sn \in UserSn : p \in Pages(st[sn])),
         NEW pg, dpg' = Put(dpg, S, pg)
  PROVE  /\ DOMAIN dpg' = DOMAIN dpg
         /\ \A p \in Pages(LoadedTable[snSt]) \cup {dhdr.list} : dpg'[p] = dpg[p]
<1>1. DOMAIN dpg' = DOMAIN dpg
  BY DEF TypeOK, Put
<1>2. ASSUME NEW p \in Pages(LoadedTable[snSt]) \cup {dhdr.list}
      PROVE  dpg'[p] = dpg[p]
  <2>1. p \notin S
    BY FreshNotOnDisk, OwnNotTable, TableNotInUse
  <2>2. p \in DataPn
    <3>1. snSt \in Sn
      BY MsfAssumption DEF Sn, snSt
    <3>2. Pages(LoadedTable[snSt]) \subseteq DataPn
      BY <3>1, LoadedTableOK, PagesInData DEF TableOK
    <3>3. QED
      BY <3>2 DEF TypeOK
  <2>3. QED
    BY <2>1, <2>2 DEF Put
<1>3. QED
  BY <1>1, <1>2

\* What is known of the pages a stream has: they are its own, once each, below
\* the end of the file, and neither free nor freed.
LEMMA OwnPages ==
  ASSUME TypeOK, MemOK, NEW sn \in Sn
  PROVE  /\ SIOK(st[sn])
         /\ Pages(st[sn]) \subseteq DataPn
         /\ \A p \in Pages(st[sn]) : p \notin fpm \cup freed
         /\ \A mac \in Int : pnMac <= mac => \A p \in Pages(st[sn]) : p < mac
         /\ \A i \in 0 .. st[sn].n - 1 : st[sn].pns[i] \in Pages(st[sn])
         /\ \A i, j \in 0 .. st[sn].n - 1 : st[sn].pns[i] = st[sn].pns[j] => i = j
<1>1. SIOK(st[sn]) /\ Pages(st[sn]) \subseteq DataPn
  BY PagesInData DEF TypeOK, TableOK
<1>2. Pages(st[sn]) \subseteq Used
  BY UsedByMember DEF Used
<1>3. \A p \in Pages(st[sn]) : p < pnMac /\ p \notin fpm \cup freed
  BY <1>2 DEF MemOK
<1>4. \A mac \in Int : pnMac <= mac => \A p \in Pages(st[sn]) : p < mac
  <2>1. DataPn \subseteq Int
    BY MsfAssumption DEF DataPn, pnDataMin
  <2>2. pnMac \in Int
    BY MsfAssumption DEF TypeOK
  <2>3. ASSUME NEW mac \in Int, pnMac <= mac, NEW p \in Pages(st[sn])
        PROVE  p < mac
    <3>1. p \in Int /\ p < pnMac
      BY <1>1, <1>3, <2>1
    <3>2. QED
      BY <3>1, <2>2, <2>3
  <2>4. QED
    BY <2>3
<1>5. \A i \in 0 .. st[sn].n - 1 : st[sn].pns[i] \in Pages(st[sn])
  BY DEF Pages, PnSet
<1>6. \A i, j \in 0 .. st[sn].n - 1 : st[sn].pns[i] = st[sn].pns[j] => i = j
  BY DEF MemOK, UsedOnce
<1>7. QED
  BY <1>1, <1>3, <1>4, <1>5, <1>6

LEMMA ReplaceStep ==
  ASSUME IInv, NEW sn \in UserSn, NEW sz \in Sizes, NEW b \in Bytes,
         ReplaceStream(sn, sz[1], sz[2], b)
  PROVE  IInv'
<1> DEFINE n == sz[1]
           f == fpm \cup FreeNow(Pages(st[sn]))
<1>1. Idle /\ nops' \in Nat
  BY DEF ReplaceStream, Call, IInv, TypeOK
<1>2. pc = "ready" /\ TypeOK /\ DiskInv /\ MemOK /\ LinkOK /\ AwayOK
  BY <1>1, ReadyParts
<1>3. sn \in Sn /\ n \in Nat
  BY MsfAssumption DEF UserSn, Sn, Sizes
<1>4. PICK k \in 0..n, w \in 0..n :
         /\ NewPgsOutcome(n, k, w)
         /\ Charge(NewPgsFault(f, n, k, w))
         /\ \E pns \in LeastPns(f, k) :
              /\ fpm' = f \ PnSet(pns, k)
              /\ freed' = freed \cup FreeLater(Pages(st[sn]))
              /\ pnMac' \in MacFor(PnSet(pns, k))
              /\ dpg' = Put(dpg, PnSet(pns, w), DataPage(b))
              /\ st' = [st EXCEPT ![sn] = IF w = n THEN SI(n, sz[2], pns) ELSE siNil]
  BY Zenon DEF ReplaceStream
<1>5. PICK pns \in LeastPns(f, k) :
         /\ fpm' = f \ PnSet(pns, k)
         /\ freed' = freed \cup FreeLater(Pages(st[sn]))
         /\ pnMac' \in MacFor(PnSet(pns, k))
         /\ dpg' = Put(dpg, PnSet(pns, w), DataPage(b))
         /\ st' = [st EXCEPT ![sn] = IF w = n THEN SI(n, sz[2], pns) ELSE siNil]
  BY Zenon, <1>4
<1>6. UNCHANGED <<dhdr, dfpm, slot, comm, stMac, pnList, pc, wr>>
  BY DEF ReplaceStream
<1>7. f \subseteq DataPn /\ f \subseteq fpm \cup comm
  BY <1>2 DEF TypeOK, FreeNow
<1> HIDE DEF f, n
<1>8. /\ pns \in [0 .. k - 1 -> f]
      /\ PnSet(pns, k) \subseteq f
      /\ \A i, j \in 0 .. k - 1 : pns[i] = pns[j] => i = j
      /\ w = n => k = n
      /\ PnSet(pns, w) \subseteq PnSet(pns, k)
      /\ pnMac' \in 0 .. PnMax - 1 /\ pnMac' \in Int /\ pnMac <= pnMac'
      /\ \A p \in PnSet(pns, k) : p < pnMac'
  BY <1>2, <1>3, <1>5, <1>7, <1>4, NewPgsFacts
<1> DEFINE si == IF w = n THEN SI(n, sz[2], pns) ELSE siNil
<1>9. (w = n => si = SI(n, sz[2], pns)) /\ (w # n => si = siNil)
  OBVIOUS
<1>10. st' = [st EXCEPT ![sn] = si]
  BY <1>5
<1> HIDE DEF si
<1>11. SIOK(si)
  BY <1>7, <1>8, <1>9, NewEntryOK, NilEntryOK DEF n
<1>12. /\ Pages(si) \subseteq PnSet(pns, k)
       /\ \A i \in 0 .. si.n - 1 : si.pns[i] \in f
       /\ \A i, j \in 0 .. si.n - 1 : si.pns[i] = si.pns[j] => i = j
  <2>1. CASE w = n
    BY <2>1, <1>8, <1>9 DEF SI, Pages
  <2>2. CASE w # n
    BY <2>2, <1>9, NilEntryOK
  <2>3. QED
    BY <2>1, <2>2
<1>13. /\ DOMAIN dpg' = DOMAIN dpg
       /\ \A p \in Pages(LoadedTable[snSt]) \cup {dhdr.list} : dpg'[p] = dpg[p]
  <2>1. PnSet(pns, w) \subseteq fpm \cup comm
    BY <1>7, <1>8
  <2>2. QED
    BY <1>2, <1>5, <2>1, PutSparesTable
<1>14. /\ fpm' \subseteq f \ Pages(si)
       /\ freed' \subseteq (freed \cup FreeLater(Pages(st[sn]))) \ Pages(si)
  BY <1>2, <1>3, <1>5, <1>8, <1>12, FreshNotFreed DEF f
<1>15. DiskInv' /\ MemOK' /\ LinkOK' /\ AwayOK' /\ TableOK(st')
  BY <1>2, <1>3, <1>10, <1>6, <1>8, <1>11, <1>12, <1>13, <1>14, StreamStep DEF f
<1>16. TypeOK'
  <2>1. nfaults' \in Nat
    BY <1>2, <1>4, ChargeNat DEF TypeOK
  <2>2. fpm' \subseteq DataPn /\ freed' \subseteq DataPn
    <3>1. Pages(st[sn]) \subseteq DataPn
      BY <1>2, <1>3, PagesInData DEF TypeOK, TableOK
    <3>2. QED
      BY <1>2, <1>5, <1>7, <3>1 DEF TypeOK, FreeLater
  <2>3. QED
    BY <1>1, <1>2, <1>6, <1>8, <1>13, <1>15, <2>1, <2>2 DEF TypeOK
<1>17. QED
  BY <1>2, <1>6, <1>15, <1>16, ReadyAgain

LEMMA AppendStep ==
  ASSUME IInv, NEW sn \in UserSn, NEW sz \in Sizes, NEW b \in Bytes,
         AppendStream(sn, sz[1], sz[2], b)
  PROVE  IInv'
<1> DEFINE n == sz[1]
           old == st[sn]
           m == n - old.n
           more(pns) == [i \in 0 .. n - 1 |->
                           IF i < old.n THEN old.pns[i] ELSE pns[i - old.n]]
           inLast == old.n > 0 /\ old.last < CbPg
           hi == IF n = old.n THEN sz[2] - 1 ELSE CbPg - 1
           d1 == IF inLast
                 THEN [dpg EXCEPT ![old.pns[old.n - 1]] = Patch(@, old.last, hi, b)]
                 ELSE dpg
<1>1. Idle /\ nops' \in Nat
  BY DEF AppendStream, Call, IInv, TypeOK
<1>2. pc = "ready" /\ TypeOK /\ DiskInv /\ MemOK /\ LinkOK /\ AwayOK
  BY <1>1, ReadyParts
<1>3. sn \in Sn /\ n \in Nat /\ old.n \in Nat
  <2>1. sn \in Sn /\ n \in Nat
    BY MsfAssumption DEF UserSn, Sn, Sizes
  <2>2. old.n \in Nat
    BY <1>2, <2>1, OwnPages DEF SIOK
  <2>3. QED
    BY <2>1, <2>2
<1>4. /\ old.valid /\ old.n <= n /\ NotLonger(old.n, old.last, n, sz[2])
      /\ UNCHANGED <<dhdr, dfpm, slot, freed, comm, stMac, pnList, pc, wr>>
  BY DEF AppendStream
<1>5. m \in Nat
  BY <1>3, <1>4
<1>6. PICK k \in 0..m, w \in 0..m :
         /\ NewPgsOutcome(m, k, w)
         /\ Charge(NewPgsFault(fpm, m, k, w))
         /\ \E pns \in LeastPns(fpm, k) :
              /\ fpm' = fpm \ PnSet(pns, k)
              /\ pnMac' \in MacFor(PnSet(pns, k))
              /\ dpg' = Put(d1, PnSet(pns, w), DataPage(b))
              /\ st' = [st EXCEPT ![sn] = IF w = m THEN SI(n, sz[2], more(pns)) ELSE old]
  BY Zenon DEF AppendStream
<1>7. PICK pns \in LeastPns(fpm, k) :
         /\ fpm' = fpm \ PnSet(pns, k)
         /\ pnMac' \in MacFor(PnSet(pns, k))
         /\ dpg' = Put(d1, PnSet(pns, w), DataPage(b))
         /\ st' = [st EXCEPT ![sn] = IF w = m THEN SI(n, sz[2], more(pns)) ELSE old]
  BY Zenon, <1>6
<1>8. fpm \subseteq DataPn
  BY <1>2 DEF TypeOK
<1>9. SIOK(old)
  BY <1>2, <1>3, OwnPages
<1> DEFINE si == IF w = m THEN SI(n, sz[2], more(pns)) ELSE old
<1>10. (w = m => si = SI(n, sz[2], more(pns))) /\ (w # m => si = old)
  OBVIOUS
<1>11. st' = [st EXCEPT ![sn] = si]
  BY <1>7
<1> HIDE DEF si, m
<1>12. /\ pns \in [0 .. k - 1 -> fpm]
       /\ PnSet(pns, k) \subseteq fpm
       /\ \A i, j \in 0 .. k - 1 : pns[i] = pns[j] => i = j
       /\ w = m => k = m
       /\ PnSet(pns, w) \subseteq PnSet(pns, k)
       /\ pnMac' \in 0 .. PnMax - 1 /\ pnMac' \in Int /\ pnMac <= pnMac'
       /\ \A p \in PnSet(pns, k) : p < pnMac'
  BY <1>2, <1>5, <1>6, <1>7, <1>8, NewPgsFacts
<1>13. \A p \in Pages(old) : p \in DataPn /\ p < pnMac' /\ p \notin fpm \cup freed
  BY <1>2, <1>3, <1>12, OwnPages
\* Each page of the new entry is an old one, at its place, or a new one.
<1>14. ASSUME w = m
       PROVE  /\ si.n = n /\ si.last = sz[2] /\ si.pns = more(pns)
              /\ \A i \in 0 .. n - 1 : i < old.n =>
                   i \in 0 .. old.n - 1 /\ si.pns[i] = old.pns[i]
              /\ \A i \in 0 .. n - 1 : ~(i < old.n) =>
                   i - old.n \in 0 .. k - 1 /\ si.pns[i] = pns[i - old.n]
  <2>1. si.n = n /\ si.last = sz[2] /\ si.pns = more(pns)
    BY <1>10, <1>14 DEF SI
  <2>2. k = n - old.n
    BY <1>12, <1>14 DEF m
  <2>3. ASSUME NEW i \in 0 .. n - 1
        PROVE  si.pns[i] = IF i < old.n THEN old.pns[i] ELSE pns[i - old.n]
    BY <2>1
  <2> HIDE DEF n, old, more
  <2>4. QED
    BY <1>3, <2>1, <2>2, <2>3
<1>15. /\ SIOK(si)
       /\ \A i \in 0 .. si.n - 1 : si.pns[i] \in PnSet(pns, k) \cup Pages(old)
       /\ \A i, j \in 0 .. si.n - 1 : si.pns[i] = si.pns[j] => i = j
       /\ \A i \in 0 .. si.n - 1 :
            \/ si.pns[i] \in fpm \cup FreeNow(Pages(st[sn]))
            \/ /\ i < st[sn].n
               /\ si.pns[i] = st[sn].pns[i]
               /\ Extent(st[sn], i) <= Extent(si, i)
  <2>1. CASE w # m
    <3>1. si = old /\ \A i \in 0 .. si.n - 1 : Extent(st[sn], i) \in Int
      BY <1>9, <1>10, <2>1, ExtentInt
    <3>2. QED
      BY <1>2, <1>3, <1>9, <3>1, OwnPages
  <2>2. CASE w = m
    <3>1. \A i \in 0 .. n - 1 : si.pns[i] \in PnSet(pns, k) \cup Pages(old)
      BY <2>2, <1>14 DEF PnSet, Pages
    <3>2. SIOK(si)
      <4>1. more(pns) \in [0 .. n - 1 -> DataPn]
        BY <2>2, <3>1, <1>8, <1>12, <1>13, <1>14
      <4>2. QED
        BY <2>2, <1>10, <4>1, NewEntryOK
    <3>3. ASSUME NEW i \in 0 .. n - 1, NEW j \in 0 .. n - 1, si.pns[i] = si.pns[j]
          PROVE  i = j
      <4>1. ASSUME NEW x \in 0 .. old.n - 1, NEW y \in 0 .. k - 1
            PROVE  old.pns[x] # pns[y]
        BY <1>12, <1>13 DEF Pages, PnSet
      <4>2. CASE i < old.n /\ j < old.n
        BY ZenonT(40), <4>2, <3>3, <2>2, <1>2, <1>3, <1>14, OwnPages
      <4>3. CASE ~(i < old.n) /\ ~(j < old.n)
        <5>1. /\ i - old.n \in 0 .. k - 1 /\ si.pns[i] = pns[i - old.n]
              /\ j - old.n \in 0 .. k - 1 /\ si.pns[j] = pns[j - old.n]
          BY <4>3, <2>2, <1>14
        <5>2. i - old.n = j - old.n
          BY <5>1, <3>3, <1>12
        <5>3. QED
          BY <5>2, <1>3
      <4>4. CASE i < old.n /\ ~(j < old.n)
        <5>1. /\ i \in 0 .. old.n - 1 /\ si.pns[i] = old.pns[i]
              /\ j - old.n \in 0 .. k - 1 /\ si.pns[j] = pns[j - old.n]
          BY <4>4, <2>2, <1>14
        <5>2. QED
          BY <4>1, <5>1, <3>3
      <4>5. CASE ~(i < old.n) /\ j < old.n
        <5>1. /\ j \in 0 .. old.n - 1 /\ si.pns[j] = old.pns[j]
              /\ i - old.n \in 0 .. k - 1 /\ si.pns[i] = pns[i - old.n]
          BY <4>5, <2>2, <1>14
        <5>2. QED
          BY <4>1, <5>1, <3>3
      <4>6. QED
        BY <4>2, <4>3, <4>4, <4>5
    <3>4. ASSUME NEW i \in 0 .. n - 1, i < old.n
          PROVE  Extent(old, i) <= Extent(si, i)
      BY SMTT(30), <3>4, <2>2, <1>3, <1>4, <1>9, <1>14, MsfAssumption
      DEF Extent, SIOK, NotLonger, Sizes
    <3>5. \A i \in 0 .. n - 1 : i < old.n \/ si.pns[i] \in fpm
      BY <2>2, <1>3, <1>12, <1>14
    <3>6. QED
      BY <2>2, <1>14, <3>1, <3>2, <3>3, <3>4, <3>5
  <2>3. QED
    BY <2>1, <2>2
<1>16. Pages(si) \subseteq PnSet(pns, k) \cup Pages(old)
  BY <1>15 DEF Pages, PnSet
<1>17. /\ DOMAIN dpg' = DOMAIN dpg
       /\ \A p \in Pages(LoadedTable[snSt]) \cup {dhdr.list} : dpg'[p] = dpg[p]
  <2>1. DOMAIN dpg' = DOMAIN dpg
    BY <1>2, <1>7 DEF TypeOK, Put
  <2>2. ASSUME NEW p \in Pages(LoadedTable[snSt]) \cup {dhdr.list}
        PROVE  dpg'[p] = dpg[p]
    <3>1. p \in DataPn
      <4>1. snSt \in Sn
        BY MsfAssumption DEF Sn, snSt
      <4>2. QED
        BY <1>2, <4>1, LoadedTableOK, PagesInData DEF TableOK, TypeOK
    <3>2. p \notin PnSet(pns, w)
      BY <1>2, <1>12, FreshNotOnDisk, TableNotInUse
    <3>3. inLast => p # old.pns[old.n - 1]
      <4>1. inLast => old.pns[old.n - 1] \in Pages(st[sn])
        BY <1>3 DEF Pages, PnSet
      <4>2. QED
        BY <1>2, <4>1, OwnNotTable
    <3>4. d1[p] = dpg[p]
      BY <1>2, <3>1, <3>3 DEF TypeOK
    <3>5. QED
      BY <1>7, <3>1, <3>2, <3>4 DEF Put
  <2>3. QED
    BY <2>1, <2>2
<1>18. /\ fpm' \subseteq (fpm \cup FreeNow(Pages(st[sn]))) \ Pages(si)
       /\ freed' \subseteq (freed \cup FreeLater(Pages(st[sn]))) \ Pages(si)
  <2>1. fpm \cap freed = {}
    BY <1>2 DEF AwayOK
  <2>2. QED
    BY <1>4, <1>7, <1>12, <1>13, <1>16, <2>1
<1>19. DiskInv' /\ MemOK' /\ LinkOK' /\ AwayOK' /\ TableOK(st')
  <2>1. \A p \in Pages(si) : p < pnMac'
    BY <1>12, <1>13, <1>16
  <2>2. UNCHANGED <<dhdr, dfpm, slot, comm, pnList>>
    BY <1>4
  <2>3. QED
    BY <1>2, <1>3, <1>11, <1>12, <1>15, <1>17, <1>18, <2>1, <2>2, StreamStep
<1>20. TypeOK'
  <2>1. nfaults' \in Nat
    BY <1>2, <1>6, ChargeNat DEF TypeOK
  <2>2. QED
    BY <1>1, <1>2, <1>4, <1>7, <1>12, <1>17, <1>19, <2>1 DEF TypeOK
<1>21. QED
  BY <1>2, <1>4, <1>19, <1>20, ReadyAgain

\* An entry made empty: all its pages are freed, and overwritten if need be.
LEMMA EmptyStep ==
  ASSUME TypeOK, DiskInv, MemOK, LinkOK, AwayOK,
         NEW sn \in UserSn, NEW si, SIOK(si), si.n = 0, NEW S,
         S \subseteq Pages(st[sn]), NEW pg, dpg' = dpg \/ dpg' = Put(dpg, S, pg),
         fpm' = fpm \cup FreeNow(Pages(st[sn])),
         freed' = freed \cup FreeLater(Pages(st[sn])),
         st' = [st EXCEPT ![sn] = si],
         UNCHANGED <<dhdr, dfpm, slot, pnMac, comm, pnList>>
  PROVE  /\ DiskInv' /\ MemOK' /\ LinkOK' /\ AwayOK' /\ TableOK(st')
         /\ DOMAIN dpg' = DOMAIN dpg /\ fpm' \subseteq DataPn /\ freed' \subseteq DataPn
<1>1. sn \in Sn
  BY MsfAssumption DEF UserSn, Sn
<1>2. Pages(si) = {} /\ 0 .. si.n - 1 = {}
  BY DEF Pages, PnSet
<1>3. /\ DOMAIN dpg' = DOMAIN dpg
      /\ \A p \in Pages(LoadedTable[snSt]) \cup {dhdr.list} : dpg'[p] = dpg[p]
  BY PutSparesTable
<1>4. pnMac' \in Int /\ pnMac <= pnMac'
  BY MsfAssumption DEF TypeOK
<1>5. DiskInv' /\ MemOK' /\ LinkOK' /\ AwayOK' /\ TableOK(st')
  BY <1>1, <1>2, <1>3, <1>4, StreamStep
<1>6. fpm' \subseteq DataPn /\ freed' \subseteq DataPn
  BY <1>1, OwnPages DEF TypeOK, FreeNow, FreeLater
<1>7. QED
  BY <1>3, <1>5, <1>6

LEMMA DeleteStep ==
  ASSUME IInv, NEW sn \in UserSn, DeleteStream(sn)
  PROVE  IInv'
<1>1. Idle /\ nops' \in Nat
  BY DEF DeleteStream, Call, IInv, TypeOK
<1>2. pc = "ready" /\ TypeOK /\ DiskInv /\ MemOK /\ LinkOK /\ AwayOK
  BY <1>1, ReadyParts
<1>3. siNil.n = 0
  BY DEF siNil
<1>4. UNCHANGED <<dhdr, dfpm, dpg, slot, pnMac, comm, stMac, pnList, pc, wr, nfaults>>
  BY DEF DeleteStream
<1>5. /\ DiskInv' /\ MemOK' /\ LinkOK' /\ AwayOK' /\ TableOK(st')
      /\ DOMAIN dpg' = DOMAIN dpg /\ fpm' \subseteq DataPn /\ freed' \subseteq DataPn
  <2>1. {} \subseteq Pages(st[sn])
    OBVIOUS
  <2>2. QED
    BY <1>2, <1>3, <1>4, <2>1, NilEntryOK, EmptyStep DEF DeleteStream
<1>6. TypeOK'
  BY <1>1, <1>2, <1>4, <1>5 DEF TypeOK
<1>7. QED
  BY <1>2, <1>4, <1>5, <1>6, ReadyAgain

LEMMA GetFreeSnStep ==
  ASSUME IInv, GetFreeSn
  PROVE  IInv'
<1> DEFINE si == SI(0, 0, NoPns)
<1>1. Idle /\ nops' \in Nat
  BY DEF GetFreeSn, Call, IInv, TypeOK
<1>2. pc = "ready" /\ TypeOK /\ DiskInv /\ MemOK /\ LinkOK /\ AwayOK
  BY <1>1, ReadyParts
<1>3. /\ UNCHANGED <<dhdr, dfpm, dpg, slot, pnMac, comm, pnList>>
      /\ UNCHANGED <<fpm, freed, pc, wr, nfaults>>
  BY DEF GetFreeSn
<1>4. PICK sn \in Sn : st' = [st EXCEPT ![sn] = si]
  <2>1. Holes \subseteq Sn
    BY MsfAssumption DEF Holes, UserSn, Sn
  <2>2. stMac < SnMax => stMac \in Sn
    BY <1>2, MsfAssumption DEF TypeOK, Sn
  <2>3. QED
    BY <2>1, <2>2 DEF GetFreeSn
<1>5. stMac' \in SnFixed .. SnMax
  BY <1>2, MsfAssumption DEF GetFreeSn, TypeOK
<1>6. SIOK(si) /\ Pages(si) = {} /\ 0 .. si.n - 1 = {}
  BY MsfAssumption DEF SIOK, SI, NoPns, Pages, PnSet
<1> HIDE DEF si
<1>7. pnMac' \in Int /\ pnMac <= pnMac'
  BY <1>2, <1>3, MsfAssumption DEF TypeOK
<1>8. DiskInv' /\ MemOK' /\ LinkOK' /\ AwayOK' /\ TableOK(st')
  BY <1>2, <1>3, <1>4, <1>6, <1>7, StreamStep
<1>9. TypeOK'
  BY <1>1, <1>2, <1>3, <1>5, <1>8 DEF TypeOK
<1>10. QED
  BY <1>2, <1>3, <1>8, <1>9, ReadyAgain

\* An erase that stops half way leaves memory behind, but not the disk.
LEMMA EraseStep ==
  ASSUME IInv, NEW sn \in UserSn, NonTransactionalEraseStream(sn)
  PROVE  IInv'
<1> DEFINE old == st[sn]
<1>1. Idle /\ nops' \in Nat
  BY DEF NonTransactionalEraseStream, Call, IInv, TypeOK
<1>2. pc = "ready" /\ TypeOK /\ DiskInv /\ MemOK /\ LinkOK /\ AwayOK
  BY <1>1, ReadyParts
<1>3. UNCHANGED <<dhdr, dfpm, slot, pnMac, comm, stMac, pnList, wr>>
  BY DEF NonTransactionalEraseStream
<1>4. sn \in Sn
  BY MsfAssumption DEF UserSn, Sn
<1>5. SIOK(old)
  BY <1>2, <1>4, OwnPages
<1>6. PICK k \in 0 .. old.n :
        /\ Charge(k < old.n)
        /\ dpg' = Put(dpg, PnSet(old.pns, k), DataPage(Zero))
        /\ fpm' = fpm \cup FreeNow(PnSet(old.pns, k))
        /\ freed' = freed \cup FreeLater(PnSet(old.pns, k))
        /\ st' = IF k = old.n THEN [st EXCEPT ![sn] = siNil] ELSE st
        /\ pc' = IF k = old.n THEN pc ELSE "broken"
  BY DEF NonTransactionalEraseStream
<1>7. nfaults' \in Nat
  BY <1>2, <1>6, ChargeNat DEF TypeOK
<1>8. PnSet(old.pns, k) \subseteq Pages(old)
  BY <1>5 DEF PnSet, Pages, SIOK
<1>9. CASE k = old.n
  <2>1. PnSet(old.pns, k) = Pages(old) /\ siNil.n = 0
    BY <1>9 DEF Pages, siNil
  <2>2. /\ DiskInv' /\ MemOK' /\ LinkOK' /\ AwayOK' /\ TableOK(st')
        /\ DOMAIN dpg' = DOMAIN dpg /\ fpm' \subseteq DataPn /\ freed' \subseteq DataPn
    BY <1>2, <1>3, <1>6, <1>9, <2>1, NilEntryOK, EmptyStep
  <2>3. TypeOK'
    BY <1>1, <1>2, <1>3, <1>6, <1>7, <1>9, <2>2 DEF TypeOK
  <2>4. QED
    BY <1>2, <1>6, <1>9, <2>2, <2>3, ReadyAgain
<1>10. CASE k # old.n
  <2>1. /\ DOMAIN dpg' = DOMAIN dpg
        /\ \A p \in Pages(LoadedTable[snSt]) \cup {dhdr.list} : dpg'[p] = dpg[p]
    BY <1>2, <1>6, <1>8, PutSparesTable
  <2>2. DiskInv'
    BY <1>2, <1>3, <2>1, DiskKept
  <2>3. fpm' \subseteq DataPn /\ freed' \subseteq DataPn
    BY <1>2, <1>4, <1>6, <1>8, OwnPages DEF TypeOK, FreeNow, FreeLater
  <2>4. TypeOK'
    BY <1>1, <1>2, <1>3, <1>6, <1>7, <1>10, <2>1, <2>3 DEF TypeOK
  <2>5. pc' = "broken"
    BY <1>6, <1>10
  <2>6. QED
    BY <2>2, <2>4, <2>5
    DEF IInv, MemInv, InMemory, AwayInv, Building, WriteInv, TableInv, HdrInv, FlushInv
<1>11. QED
  BY <1>9, <1>10

LEMMA TruncateStep ==
  ASSUME IInv, NEW sn \in UserSn, NEW sz \in Sizes, TruncateStream(sn, sz[1], sz[2])
  PROVE  IInv'
<1> DEFINE n == sz[1]
           last == sz[2]
           old == st[sn]
           tail == {old.pns[i] : i \in n .. old.n - 1}
           f == fpm \cup FreeNow(tail)
           fr == freed \cup FreeLater(tail)
           kept == [i \in 0 .. n - 1 |-> old.pns[i]]
           oldPn == old.pns[n - 1]
<1>1. Idle /\ nops' \in Nat
  <2>1. Idle /\ nops' = nops + 1
    BY Zenon DEF TruncateStream, Call
  <2>2. QED
    BY <2>1 DEF IInv, TypeOK
<1>2. pc = "ready" /\ TypeOK /\ DiskInv /\ MemOK /\ LinkOK /\ AwayOK
  BY <1>1, ReadyParts
<1>3. sn \in Sn /\ n \in Nat
  BY MsfAssumption DEF UserSn, Sn, Sizes
<1>4. /\ SIOK(old)
      /\ Pages(old) \subseteq DataPn
      /\ \A p \in Pages(old) : p \notin fpm \cup freed
      /\ \A i \in 0 .. old.n - 1 : old.pns[i] \in Pages(old)
      /\ \A i, j \in 0 .. old.n - 1 : old.pns[i] = old.pns[j] => i = j
  BY <1>2, <1>3, OwnPages
<1>5. old.n \in Nat /\ n <= old.n /\ NotLonger(n, last, old.n, old.last)
  <2>1. NotLonger(n, last, old.n, old.last)
    BY Zenon DEF TruncateStream
  <2>2. QED
    BY <1>3, <1>4, <2>1 DEF NotLonger, SIOK
<1>6. UNCHANGED <<dhdr, dfpm, slot, comm, stMac, pnList, pc, wr>>
  BY DEF TruncateStream
<1>7. tail \subseteq Pages(old) /\ \A i \in 0 .. n - 1 : old.pns[i] \notin tail
  BY <1>3, <1>4, <1>5
<1>8. /\ f \subseteq fpm \cup FreeNow(Pages(old)) /\ fr \subseteq freed \cup FreeLater(Pages(old))
      /\ f \subseteq fpm \cup comm /\ f \subseteq DataPn /\ fr \subseteq DataPn
  BY <1>2, <1>4, <1>7 DEF FreeNow, FreeLater, TypeOK
<1>9. \A i \in 0 .. n - 1 : old.pns[i] \notin f \cup fr
  BY <1>3, <1>4, <1>5, <1>7 DEF FreeNow, FreeLater
<1>10. \A mac \in Int : pnMac <= mac => \A p \in Pages(old) : p < mac
  BY <1>2, <1>3, OwnPages
<1>11. /\ kept \in [0 .. n - 1 -> DataPn]
       /\ \A i \in 0 .. n - 1 : i \in 0 .. old.n - 1 /\ kept[i] = old.pns[i] /\ kept[i] \in Pages(old)
  BY <1>3, <1>4, <1>5
<1> HIDE DEF f, fr, tail, kept
<1>12. CASE ~MovesLastPage(n, last)
  <2>1. /\ fpm' = f /\ freed' = fr
        /\ st' = [st EXCEPT ![sn] = SI(n, last, kept)]
        /\ UNCHANGED <<pnMac, dpg, nfaults>>
    BY <1>12 DEF TruncateStream, f, fr, tail, kept
  <2> DEFINE si == SI(n, last, kept)
  <2>2. SIOK(si) /\ si.n = n /\ si.last = last /\ si.pns = kept
    BY <1>11, NewEntryOK DEF SI
  <2> HIDE DEF si
  <2>3. \A i, j \in 0 .. si.n - 1 : si.pns[i] = si.pns[j] => i = j
    BY <1>4, <1>11, <2>2
  <2>4. ASSUME NEW i \in 0 .. si.n - 1
        PROVE  /\ i < st[sn].n
               /\ si.pns[i] = st[sn].pns[i]
               /\ Extent(st[sn], i) <= Extent(si, i)
    <3>1. last = CbPg
      <4>1. n > 0 /\ last \in 0 .. CbPg
        BY <1>3, <2>2 DEF SIOK
      <4>2. QED
        BY <4>1, <1>12, MsfAssumption DEF MovesLastPage
    <3>2. Extent(st[sn], i) <= CbPg /\ Extent(si, i) = CbPg
      BY SMTT(30), <1>4, <2>2, <3>1, MsfAssumption DEF Extent, SIOK
    <3>3. i < old.n /\ si.pns[i] = old.pns[i]
      BY <1>3, <1>5, <1>11, <2>2
    <3>4. QED
      BY <3>2, <3>3
  <2>5. \A p \in Pages(si) : p \in Pages(old) /\ p \notin f \cup fr
    BY <1>9, <1>11, <2>2 DEF Pages, PnSet
  <2>6. pnMac' \in Int /\ pnMac <= pnMac' /\ \A p \in Pages(si) : p < pnMac'
    <3>1. pnMac' = pnMac /\ pnMac \in Int
      BY <1>2, <2>1, MsfAssumption DEF TypeOK
    <3>2. QED
      BY <3>1, <1>10, <2>5
  <2>7. DiskInv' /\ MemOK' /\ LinkOK' /\ AwayOK' /\ TableOK(st')
    <3>1. st' = [st EXCEPT ![sn] = si] /\ dpg' = dpg
      BY <2>1 DEF si
    <3>2. /\ fpm' \subseteq (fpm \cup FreeNow(Pages(st[sn]))) \ Pages(si)
          /\ freed' \subseteq (freed \cup FreeLater(Pages(st[sn]))) \ Pages(si)
      BY <1>8, <2>1, <2>5
    <3>3. QED
      BY <1>2, <1>3, <1>6, <2>2, <2>3, <2>4, <2>6, <3>1, <3>2, StreamStep
  <2>8. TypeOK'
    BY <1>1, <1>2, <1>6, <1>8, <2>1, <2>7 DEF TypeOK
  <2>9. QED
    BY <1>2, <1>6, <2>7, <2>8, ReadyAgain
<1>13. CASE MovesLastPage(n, last)
  <2>1. PICK k \in 0..1, w \in 0..1 :
          /\ NewPgsOutcome(1, k, w)
          /\ Charge(NewPgsFault(f, 1, k, w))
          /\ \E pns \in LeastPns(f, k) :
               /\ pnMac' \in MacFor(PnSet(pns, k))
               /\ dpg' = Put(dpg, PnSet(pns, w), dpg[oldPn])
               /\ IF w = 1
                  THEN /\ fpm' = (f \ PnSet(pns, 1)) \cup FreeNow({oldPn})
                       /\ freed' = fr \cup FreeLater({oldPn})
                       /\ st' = [st EXCEPT ![sn] =
                            SI(n, last, [kept EXCEPT ![n - 1] = pns[0]])]
                  ELSE /\ fpm' = f \ PnSet(pns, k)
                       /\ freed' = fr
                       /\ st' = [st EXCEPT ![sn] = IF n < old.n THEN siNil ELSE @]
    BY <1>13 DEF TruncateStream, f, fr, tail, kept
  <2>2. PICK pns \in LeastPns(f, k) :
          /\ pnMac' \in MacFor(PnSet(pns, k))
          /\ dpg' = Put(dpg, PnSet(pns, w), dpg[oldPn])
          /\ IF w = 1
             THEN /\ fpm' = (f \ PnSet(pns, 1)) \cup FreeNow({oldPn})
                  /\ freed' = fr \cup FreeLater({oldPn})
                  /\ st' = [st EXCEPT ![sn] =
                       SI(n, last, [kept EXCEPT ![n - 1] = pns[0]])]
             ELSE /\ fpm' = f \ PnSet(pns, k)
                  /\ freed' = fr
                  /\ st' = [st EXCEPT ![sn] = IF n < old.n THEN siNil ELSE old]
    BY <2>1
  <2>3. /\ pns \in [0 .. k - 1 -> f]
        /\ PnSet(pns, k) \subseteq f
        /\ w = 1 => k = 1
        /\ PnSet(pns, w) \subseteq PnSet(pns, k)
        /\ pnMac' \in 0 .. PnMax - 1 /\ pnMac' \in Int /\ pnMac <= pnMac'
        /\ \A p \in PnSet(pns, k) : p < pnMac'
    <3>1. f \subseteq DataPn
      BY <1>8
    <3>2. NewPgsOutcome(1, k, w) /\ pnMac' \in MacFor(PnSet(pns, k))
      BY <2>1, <2>2
    <3>3. QED
      BY <1>2, <3>1, <3>2, NewPgFacts
  <2>4. /\ DOMAIN dpg' = DOMAIN dpg
        /\ \A p \in Pages(LoadedTable[snSt]) \cup {dhdr.list} : dpg'[p] = dpg[p]
    BY <1>2, <1>8, <2>2, <2>3, PutSparesTable
  <2>5. nfaults' \in Nat
    BY <1>2, <2>1, ChargeNat DEF TypeOK
  <2>6. n > 0 /\ n - 1 \in 0 .. n - 1
    BY <1>3, <1>13 DEF MovesLastPage
  <2>7. oldPn \in Pages(old) /\ oldPn \notin f \cup fr
    BY <1>9, <1>11, <2>6
  <2>8. fpm' \subseteq fpm \cup FreeNow(Pages(old)) /\ freed' \subseteq freed \cup FreeLater(Pages(old))
    BY <1>8, <2>2, <2>7 DEF FreeNow, FreeLater
  <2>9. fpm' \subseteq DataPn /\ freed' \subseteq DataPn
    BY <1>2, <1>4, <2>8 DEF TypeOK, FreeNow, FreeLater
  <2>10. ASSUME NEW si, SIOK(si), st' = [st EXCEPT ![sn] = si],
                \A i, j \in 0 .. si.n - 1 : si.pns[i] = si.pns[j] => i = j,
                \A i \in 0 .. si.n - 1 :
                  \/ si.pns[i] \in PnSet(pns, k)
                  \/ /\ i < old.n
                     /\ si.pns[i] = old.pns[i]
                     /\ Extent(old, i) <= Extent(si, i),
                Pages(si) \subseteq PnSet(pns, k) \cup Pages(old),
                (fpm' \cup freed') \cap Pages(si) = {}
         PROVE  IInv'
    <3>1. \A p \in Pages(si) : p < pnMac'
      BY <1>10, <2>3, <2>10
    <3>2. /\ fpm' \subseteq (fpm \cup FreeNow(Pages(st[sn]))) \ Pages(si)
          /\ freed' \subseteq (freed \cup FreeLater(Pages(st[sn]))) \ Pages(si)
      BY <2>8, <2>10
    <3>3. \A i \in 0 .. si.n - 1 :
            \/ si.pns[i] \in fpm \cup FreeNow(Pages(st[sn]))
            \/ /\ i < st[sn].n
               /\ si.pns[i] = st[sn].pns[i]
               /\ Extent(st[sn], i) <= Extent(si, i)
      BY <1>8, <2>3, <2>10
    <3>4. DiskInv' /\ MemOK' /\ LinkOK' /\ AwayOK' /\ TableOK(st')
      BY <1>2, <1>3, <1>6, <2>3, <2>4, <2>10, <3>1, <3>2, <3>3, StreamStep
    <3>5. TypeOK'
      BY <1>1, <1>2, <1>6, <2>3, <2>4, <2>5, <2>9, <3>4 DEF TypeOK
    <3>6. QED
      BY <1>2, <1>6, <3>4, <3>5, ReadyAgain
  <2>11. CASE w # 1 /\ n < old.n
    <3>1. st' = [st EXCEPT ![sn] = siNil]
      BY <2>2, <2>11
    <3>2. QED
      BY <2>10, <3>1, NilEntryOK
  <2>12. CASE w # 1 /\ ~(n < old.n)
    <3>1. st' = [st EXCEPT ![sn] = old] /\ fpm' \cup freed' \subseteq f \cup fr
      BY <2>2, <2>12
    <3>2. n = old.n
      BY <1>3, <1>5, <2>12
    <3>3. \A i \in 0 .. old.n - 1 : i < old.n /\ Extent(old, i) <= Extent(old, i)
      BY <1>4, <1>5, ExtentInt
    <3>4. (fpm' \cup freed') \cap Pages(old) = {}
      BY <1>9, <3>1, <3>2 DEF Pages, PnSet
    <3>5. QED
      BY <1>4, <2>10, <3>1, <3>3, <3>4
  <2>13. CASE w = 1
    <3> DEFINE si == SI(n, last, [kept EXCEPT ![n - 1] = pns[0]])
    <3>1. /\ fpm' = (f \ PnSet(pns, k)) \cup FreeNow({oldPn})
          /\ freed' = fr \cup FreeLater({oldPn})
          /\ st' = [st EXCEPT ![sn] = si]
      BY <2>2, <2>3, <2>13
    <3>2. k = 1 /\ pns[0] \in PnSet(pns, k) /\ pns[0] \in f
      BY <2>3, <2>13 DEF PnSet
    <3>3. /\ SIOK(si) /\ si.n = n /\ si.last = last
          /\ si.pns[n - 1] = pns[0]
          /\ \A i \in 0 .. n - 2 : si.pns[i] = kept[i]
      <4>1. [kept EXCEPT ![n - 1] = pns[0]] \in [0 .. n - 1 -> DataPn]
        BY <1>8, <1>11, <3>2
      <4>2. SIOK(si)
        BY <4>1, NewEntryOK
      <4>3. si.n = n /\ si.last = last /\ si.pns = [kept EXCEPT ![n - 1] = pns[0]]
        BY DEF SI
      <4>4. \A i \in 0 .. n - 2 : i \in 0 .. n - 1 /\ i # n - 1
        BY <1>3
      <4> HIDE DEF si
      <4>5. QED
        BY <1>11, <2>6, <4>2, <4>3, <4>4
    <3> HIDE DEF si
    <3>4. \A i \in 0 .. n - 1 : i = n - 1 \/ i \in 0 .. n - 2
      BY <1>3
    <3>5. \A i \in 0 .. n - 2 :
            /\ i \in 0 .. n - 1 /\ i \in 0 .. old.n - 1 /\ i < old.n
            /\ si.pns[i] = old.pns[i] /\ si.pns[i] \in Pages(old)
            /\ si.pns[i] \notin f \cup fr /\ si.pns[i] # oldPn
      <4>1. \A i \in 0 .. n - 2 : i \in 0 .. n - 1 /\ i \in 0 .. old.n - 1 /\ i < old.n /\ i # n - 1
        BY <1>3, <1>5
      <4>2. n - 1 \in 0 .. old.n - 1
        BY <1>3, <1>5, <2>6
      <4>3. QED
        BY <1>4, <1>9, <1>11, <3>3, <4>1, <4>2
    <3>6. \A i, j \in 0 .. si.n - 1 : si.pns[i] = si.pns[j] => i = j
      BY <1>4, <3>2, <3>3, <3>4, <3>5
    <3>7. ASSUME NEW i \in 0 .. n - 2
          PROVE  Extent(old, i) <= Extent(si, i)
      BY <1>3, <1>5, <3>3, MsfAssumption DEF Extent
    <3>8. Pages(si) \subseteq PnSet(pns, k) \cup Pages(old)
      BY <3>2, <3>3, <3>4, <3>5 DEF Pages, PnSet
    <3>9. ASSUME NEW p \in Pages(si)
          PROVE  p \notin fpm' \cup freed'
      <4>1. PICK i \in 0 .. n - 1 : p = si.pns[i]
        BY <3>3 DEF Pages, PnSet
      <4>2. CASE i = n - 1
        <5>1. p = pns[0] /\ p \in f /\ p \in PnSet(pns, k)
          BY <3>2, <3>3, <4>1, <4>2
        <5>2. p # oldPn
          BY <2>7, <5>1
        <5>3. p \notin fr
          BY <1>2, <1>3, <1>8, <5>1, FreshNotFreed
        <5>4. QED
          BY <3>1, <5>1, <5>2, <5>3 DEF FreeNow, FreeLater
      <4>3. CASE i \in 0 .. n - 2
        BY <3>1, <3>5, <4>1, <4>3 DEF FreeNow, FreeLater
      <4>4. QED
        BY <3>4, <4>2, <4>3
    <3>10. \A i \in 0 .. si.n - 1 :
             \/ si.pns[i] \in PnSet(pns, k)
             \/ /\ i < old.n
                /\ si.pns[i] = old.pns[i]
                /\ Extent(old, i) <= Extent(si, i)
      BY <3>2, <3>3, <3>4, <3>5, <3>7
    <3>11. QED
      BY <2>10, <3>1, <3>3, <3>6, <3>8, <3>9, <3>10
  <2>14. QED
    BY <2>11, <2>12, <2>13
<1>14. QED
  BY <1>12, <1>13

-----------------------------------------------------------------------------
(* WriteStream, page by page.                                              *)

LEMMA WritingParts ==
  ASSUME IInv, pc = "write"
  PROVE  /\ TypeOK /\ DiskInv /\ MemOK /\ LinkOK /\ AwayOK
         /\ wr.sn \in UserSn /\ wr.sn \in Sn
         /\ wr.i \in 0 .. st[wr.sn].n - 1 /\ wr.j < st[wr.sn].n /\ wr.i <= wr.j
         /\ wr.i \in Nat /\ wr.j \in Nat
<1>1. TypeOK /\ DiskInv /\ MemOK /\ LinkOK /\ AwayOK /\ WriteInv
  BY DEF IInv, MemInv, InMemory, AwayInv, Building
<1>2. wr.sn \in UserSn /\ wr.i <= wr.j /\ wr.j < st[wr.sn].n
  BY <1>1 DEF WriteInv
<1>3. wr.sn \in Sn
  BY <1>2, MsfAssumption DEF UserSn, Sn
<1>4. wr.i \in Nat /\ wr.j \in Nat
  BY <1>1 DEF TypeOK
<1>5. st[wr.sn].n \in Nat
  BY <1>1, <1>3, OwnPages DEF SIOK
<1>6. wr.i \in 0 .. st[wr.sn].n - 1
  BY <1>2, <1>4, <1>5
<1>7. QED
  BY <1>1, <1>2, <1>3, <1>4, <1>6

LEMMA WritingAgain ==
  ASSUME TypeOK', DiskInv', MemOK', LinkOK', AwayOK', pc' = "write", WriteInv'
  PROVE  IInv'
BY DEF IInv, MemInv, AwayInv, WriteInv, TableInv, HdrInv, FlushInv

LEMMA NoWriteOK ==
  NoWrite \in [sn : Sn, i : Nat, j : Nat, lo : Cells, hi : Cells, b : Bytes]
BY MsfAssumption DEF NoWrite, Sn, Cells

LEMMA WriteStreamStep ==
  ASSUME IInv, NEW sn \in UserSn, NEW i \in 0 .. MaxCpn - 1, NEW j \in 0 .. MaxCpn - 1,
         NEW lo \in Cells, NEW hi \in Cells, NEW b \in Bytes,
         WriteStream(sn, i, j, lo, hi, b)
  PROVE  IInv'
<1>1. Idle /\ nops' \in Nat
  BY DEF WriteStream, Call, IInv, TypeOK
<1>2. pc = "ready" /\ TypeOK /\ DiskInv /\ MemOK /\ LinkOK /\ AwayOK
  BY <1>1, ReadyParts
<1>3. /\ i <= j /\ j < st[sn].n
      /\ pc' = "write"
      /\ wr' = [sn |-> sn, i |-> i, j |-> j, lo |-> lo, hi |-> hi, b |-> b]
      /\ UNCHANGED <<dhdr, dfpm, dpg, slot, pnMac, fpm, freed, comm, st, stMac, pnList, nfaults>>
  BY DEF WriteStream, disk, pageMaps
<1>4. sn \in Sn /\ i \in Nat /\ j \in Nat
  BY MsfAssumption DEF UserSn, Sn
<1>5. TypeOK'
  BY <1>1, <1>2, <1>3, <1>4 DEF TypeOK
<1>6. DOMAIN dpg' = DOMAIN dpg
  BY <1>3
<1>7. DiskInv' /\ LoadedTable' = LoadedTable /\ DiskUsed' = DiskUsed /\ DiskFpm' = DiskFpm
  BY <1>2, <1>3, DiskKept
<1>8. MemOK' /\ LinkOK' /\ AwayOK'
  BY <1>2, <1>3, <1>7 DEF MemOK, LinkOK, AwayOK, Used
<1>9. WriteInv'
  BY <1>3 DEF WriteInv
<1>10. QED
  BY <1>3, <1>5, <1>7, <1>8, <1>9, WritingAgain

LEMMA PnsExcept ==
  ASSUME NEW si, SIOK(si), NEW pns
  PROVE  [si EXCEPT !.pns = pns]
           = [valid |-> si.valid, n |-> si.n, last |-> si.last, pns |-> pns]
<1>1. PICK v, n, l, q : si = [valid |-> v, n |-> n, last |-> l, pns |-> q]
  BY DEF SIOK
<1>2. si.valid = v /\ si.n = n /\ si.last = l
  BY <1>1
<1>3. [[valid |-> v, n |-> n, last |-> l, pns |-> q] EXCEPT !.pns = pns]
        = [valid |-> v, n |-> n, last |-> l, pns |-> pns]
  OBVIOUS
<1>4. QED
  BY <1>1, <1>2, <1>3

LEMMA WriteStreamPageStep ==
  ASSUME IInv, WriteStreamPage
  PROVE  IInv'
<1> DEFINE sn == wr.sn
           old == st[sn]
           oldPn == old.pns[wr.i]
           pg == Patch(dpg[oldPn], wr.lo, IF wr.i = wr.j THEN wr.hi ELSE CbPg - 1, wr.b)
<1>1. /\ TypeOK /\ DiskInv /\ MemOK /\ LinkOK /\ AwayOK
      /\ sn \in UserSn /\ sn \in Sn
      /\ wr.i \in 0 .. old.n - 1 /\ wr.j < old.n /\ wr.i <= wr.j
      /\ wr.i \in Nat /\ wr.j \in Nat
  BY WritingParts DEF WriteStreamPage
<1>2. UNCHANGED <<dhdr, dfpm, slot, comm, stMac, pnList, nops, nfaults>>
  BY DEF WriteStreamPage
<1>3. PICK pns \in LeastPns(fpm, 1) :
        /\ pnMac' \in MacFor(PnSet(pns, 1))
        /\ dpg' = Put(dpg, PnSet(pns, 1), pg)
        /\ fpm' = (fpm \ PnSet(pns, 1)) \cup FreeNow({oldPn})
        /\ freed' = freed \cup FreeLater({oldPn})
        /\ st' = [st EXCEPT ![sn].pns[wr.i] = pns[0]]
  BY DEF WriteStreamPage
<1>4. /\ SIOK(old) /\ Pages(old) \subseteq DataPn
      /\ \A p \in Pages(old) : p \notin fpm \cup freed
      /\ \A mac \in Int : pnMac <= mac => \A p \in Pages(old) : p < mac
      /\ \A i \in 0 .. old.n - 1 : old.pns[i] \in Pages(old)
      /\ \A i, j \in 0 .. old.n - 1 : old.pns[i] = old.pns[j] => i = j
  BY <1>1, OwnPages
<1>5. /\ PnSet(pns, 1) \subseteq fpm /\ PnSet(pns, 1) = {pns[0]} /\ pns[0] \in fpm
      /\ pnMac' \in 0 .. PnMax - 1 /\ pnMac' \in Int /\ pnMac <= pnMac' /\ pns[0] < pnMac'
  <2>1. PICK k \in 0..1, w \in 0..1 : k = 1 /\ w = 1
    OBVIOUS
  <2>2. NewPgsOutcome(1, k, w)
    BY <2>1 DEF NewPgsOutcome
  <2>3. fpm \subseteq DataPn
    BY <1>1 DEF TypeOK
  <2>4. pns \in LeastPns(fpm, k) /\ pnMac' \in MacFor(PnSet(pns, k))
    BY <1>3, <2>1
  <2>5. /\ PnSet(pns, k) \subseteq fpm
        /\ k = 1 => pns[0] \in fpm /\ PnSet(pns, k) = {pns[0]}
        /\ pnMac' \in 0 .. PnMax - 1 /\ pnMac' \in Int /\ pnMac <= pnMac'
        /\ \A p \in PnSet(pns, k) : p < pnMac'
    BY <1>1, <2>2, <2>3, <2>4, NewPgFacts
  <2>6. QED
    BY <2>1, <2>5
<1> DEFINE moved == [old.pns EXCEPT ![wr.i] = pns[0]]
           si == [valid |-> old.valid, n |-> old.n, last |-> old.last, pns |-> moved]
<1>6. st' = [st EXCEPT ![sn] = si]
  <2>1. st' = [st EXCEPT ![sn] = [old EXCEPT !.pns = moved]]
    BY <1>3
  <2>2. [old EXCEPT !.pns = moved] = si
    BY <1>4, PnsExcept
  <2>3. QED
    BY <2>1, <2>2
<1>7. si.n = old.n /\ si.last = old.last /\ si.valid = old.valid
      /\ si.pns = moved
      /\ si = [valid |-> si.valid, n |-> si.n, last |-> si.last, pns |-> si.pns]
  OBVIOUS
<1> HIDE DEF si, moved
<1>8. SIOK(si)
  <2>1. pns[0] \in DataPn
    BY <1>1, <1>5 DEF TypeOK
  <2>2. moved \in [0 .. old.n - 1 -> DataPn]
    BY <1>4, <2>1 DEF SIOK, moved
  <2>3. QED
    BY <1>4, <1>7, <2>2 DEF SIOK
<1>9. si.pns[wr.i] = pns[0] /\ \A i \in (0 .. old.n - 1) \ {wr.i} : si.pns[i] = old.pns[i]
  BY <1>1, <1>4, <1>7 DEF SIOK, moved
<1>10. \A i, j \in 0 .. si.n - 1 : si.pns[i] = si.pns[j] => i = j
  BY <1>4, <1>5, <1>7, <1>9
<1>11. \A i \in 0 .. si.n - 1 :
         \/ si.pns[i] \in fpm \cup FreeNow(Pages(st[sn]))
         \/ /\ i < st[sn].n
            /\ si.pns[i] = st[sn].pns[i]
            /\ Extent(st[sn], i) <= Extent(si, i)
  <2>1. \A i \in 0 .. si.n - 1 :
          Extent(old, i) = Extent(si, i) /\ Extent(si, i) <= Extent(si, i) /\ i < old.n
    <3>1. \A i \in 0 .. si.n - 1 : Extent(old, i) = Extent(si, i)
      BY <1>7 DEF Extent
    <3>2. \A i \in 0 .. si.n - 1 : Extent(si, i) \in Int
      BY <1>8, ExtentInt
    <3>3. \A i \in 0 .. si.n - 1 : i < old.n
      BY <1>4, <1>7 DEF SIOK
    <3>4. QED
      BY <3>1, <3>2, <3>3
  <2>2. QED
    BY <1>5, <1>7, <1>9, <2>1
<1>12. ASSUME NEW p \in Pages(si)
       PROVE  /\ p = pns[0] \/ p \in Pages(old)
              /\ p # oldPn
              /\ p < pnMac'
  <2>1. PICK i \in 0 .. old.n - 1 : p = si.pns[i]
    BY <1>7 DEF Pages, PnSet
  <2>2. CASE i = wr.i
    BY <1>1, <1>4, <1>5, <1>9, <2>1, <2>2
  <2>3. CASE i # wr.i
    BY <1>1, <1>4, <1>5, <1>9, <2>1, <2>3
  <2>4. QED
    BY <2>2, <2>3
<1>13. /\ fpm' \subseteq (fpm \cup FreeNow(Pages(st[sn]))) \ Pages(si)
       /\ freed' \subseteq (freed \cup FreeLater(Pages(st[sn]))) \ Pages(si)
  <2>1. oldPn \in Pages(old)
    BY <1>1, <1>4
  <2>2. fpm \cap freed = {}
    BY <1>1 DEF AwayOK
  <2>3. QED
    BY <1>3, <1>4, <1>5, <1>12, <2>1, <2>2 DEF FreeNow, FreeLater
<1>14. /\ DOMAIN dpg' = DOMAIN dpg
       /\ \A p \in Pages(LoadedTable[snSt]) \cup {dhdr.list} : dpg'[p] = dpg[p]
  <2> HIDE DEF pg
  <2>1. QED
    BY <1>1, <1>3, <1>5, PutSparesTable
<1>15. DiskInv' /\ MemOK' /\ LinkOK' /\ AwayOK' /\ TableOK(st')
  BY <1>1, <1>2, <1>5, <1>6, <1>8, <1>10, <1>11, <1>12, <1>13, <1>14, StreamStep
<1>16. fpm' \subseteq DataPn /\ freed' \subseteq DataPn
  BY <1>1, <1>4, <1>13 DEF TypeOK, FreeNow, FreeLater
<1>17. CASE wr.i = wr.j
  <2>1. pc' = "ready" /\ wr' = NoWrite
    BY <1>17 DEF WriteStreamPage
  <2>2. TypeOK'
    BY <1>1, <1>2, <1>5, <1>14, <1>15, <1>16, <2>1, NoWriteOK DEF TypeOK
  <2>3. QED
    BY <1>15, <2>1, <2>2, ReadyAgain
<1>18. CASE wr.i # wr.j
  <2>1. pc' = "write" /\ wr' = [wr EXCEPT !.i = @ + 1, !.lo = 0]
    BY <1>18 DEF WriteStreamPage
  <2>2. wr \in [sn : Sn, i : Nat, j : Nat, lo : Cells, hi : Cells, b : Bytes] /\ 0 \in Cells
    BY <1>1, MsfAssumption DEF TypeOK, Cells
  <2>3. /\ wr' \in [sn : Sn, i : Nat, j : Nat, lo : Cells, hi : Cells, b : Bytes]
        /\ wr'.sn = sn /\ wr'.i = wr.i + 1 /\ wr'.j = wr.j
    <3>1. PICK m \in Nat : m = wr.i + 1
      BY <1>1
    <3>2. wr' = [wr EXCEPT !.i = m, !.lo = 0]
      BY <2>1, <3>1
    <3>3. wr' \in [sn : Sn, i : Nat, j : Nat, lo : Cells, hi : Cells, b : Bytes]
      BY <2>2, <3>2
    <3>4. wr'.sn = sn /\ wr'.i = m /\ wr'.j = wr.j
      BY <2>2, <3>2
    <3>5. QED
      BY <3>1, <3>3, <3>4
  <2>4. TypeOK'
    BY <1>1, <1>2, <1>5, <1>14, <1>15, <1>16, <2>1, <2>3 DEF TypeOK
  <2>5. st'[sn].n = old.n
    BY <1>1, <1>6, <1>7 DEF TypeOK, TableOK
  <2>6. WriteInv'
    BY <1>1, <1>18, <2>3, <2>5 DEF WriteInv
  <2>7. QED
    BY <1>15, <2>1, <2>4, <2>6, WritingAgain
<1>19. QED
  BY <1>17, <1>18

\* A step that only takes pages out of fpm.
LEMMA LoseStep ==
  ASSUME TypeOK, DiskInv, MemOK, LinkOK, AwayOK,
         fpm' \subseteq fpm, freed' = freed, pnMac' \in Int, pnMac <= pnMac',
         DOMAIN dpg' = DOMAIN dpg,
         \A p \in Pages(LoadedTable[snSt]) \cup {dhdr.list} : dpg'[p] = dpg[p],
         UNCHANGED <<dhdr, dfpm, slot, comm, st, pnList>>
  PROVE  DiskInv' /\ MemOK' /\ LinkOK' /\ AwayOK'
<1>1. snSt \in Sn
  BY MsfAssumption DEF Sn, snSt
<1> DEFINE si == st[snSt]
<1>2. /\ SIOK(si)
      /\ \A p \in Pages(si) : p \notin fpm \cup freed
      /\ \A mac \in Int : pnMac <= mac => \A p \in Pages(si) : p < mac
      /\ \A i, j \in 0 .. si.n - 1 : si.pns[i] = si.pns[j] => i = j
  BY <1>1, OwnPages
<1>3. \A i \in 0 .. si.n - 1 : i < si.n /\ Extent(si, i) <= Extent(si, i)
  BY <1>2, ExtentInt DEF SIOK
<1>4. st' = [st EXCEPT ![snSt] = si]
  BY DEF TypeOK, TableOK
<1>5. QED
  BY <1>1, <1>2, <1>3, <1>4, StreamStep

LEMMA WriteStreamFailsStep ==
  ASSUME IInv, WriteStreamFails
  PROVE  IInv'
<1>1. TypeOK /\ DiskInv /\ MemOK /\ LinkOK /\ AwayOK
  BY WritingParts DEF WriteStreamFails
<1>2. /\ UNCHANGED <<dhdr, dfpm, dpg, slot, freed, comm, st, stMac, pnList, nops>>
      /\ wr' = NoWrite /\ pc' = "ready"
  BY DEF WriteStreamFails, disk
<1>3. PICK k \in 0..1 :
        /\ Charge(NewPgsFault(fpm, 1, k, 0))
        /\ \E pns \in LeastPns(fpm, k) :
             /\ fpm' = fpm \ PnSet(pns, k)
             /\ pnMac' \in MacFor(PnSet(pns, k))
  BY DEF WriteStreamFails
<1>4. fpm' \subseteq fpm /\ nfaults' \in Nat
  BY <1>1, <1>3, ChargeNat DEF TypeOK
<1>5. pnMac' \in 0 .. PnMax - 1 /\ pnMac <= pnMac' /\ pnMac' \in Int
  BY <1>1, <1>3, MacForFacts, MsfAssumption DEF TypeOK
<1>6. DiskInv' /\ MemOK' /\ LinkOK' /\ AwayOK'
  BY <1>1, <1>2, <1>4, <1>5, LoseStep
<1>7. TypeOK'
  BY <1>1, <1>2, <1>4, <1>5, NoWriteOK DEF TypeOK
<1>8. QED
  BY <1>2, <1>6, <1>7, ReadyAgain

-----------------------------------------------------------------------------
(* Commit, write by write.                                                 *)

LEMMA CommitTableStep ==
  ASSUME IInv, CommitTable
  PROVE  IInv'
<1> DEFINE old == Pages(st[snSt])
           f == fpm \cup FreeNow(old)
<1>1. Idle /\ nops' \in Nat
  BY DEF CommitTable, Call, IInv, TypeOK
<1>2. pc = "ready" /\ TypeOK /\ DiskInv /\ MemOK /\ LinkOK /\ AwayOK
  BY <1>1, ReadyParts
<1>3. snSt \in Sn /\ CpnSt \in Nat /\ 0 \in 0 .. CpnSt - 1
  BY MsfAssumption DEF Sn, snSt
<1>4. PICK k \in 0..CpnSt, w \in 0..CpnSt :
         /\ NewPgsOutcome(CpnSt, k, w)
         /\ Charge(NewPgsFault(f, CpnSt, k, w))
         /\ \E pns \in LeastPns(f, k) :
              /\ fpm' = f \ PnSet(pns, k)
              /\ freed' = freed \cup FreeLater(old)
              /\ pnMac' \in MacFor(PnSet(pns, k))
              /\ dpg' = Put(dpg, PnSet(pns, w), TablePage(st))
              /\ st' = [st EXCEPT ![snSt] =
                          IF w = CpnSt THEN SI(CpnSt, CbPg, pns) ELSE siNil]
              /\ pc' = IF w = CpnSt THEN "list" ELSE pc
  BY Zenon DEF CommitTable
<1>5. PICK pns \in LeastPns(f, k) :
         /\ fpm' = f \ PnSet(pns, k)
         /\ freed' = freed \cup FreeLater(old)
         /\ pnMac' \in MacFor(PnSet(pns, k))
         /\ dpg' = Put(dpg, PnSet(pns, w), TablePage(st))
         /\ st' = [st EXCEPT ![snSt] =
                     IF w = CpnSt THEN SI(CpnSt, CbPg, pns) ELSE siNil]
         /\ pc' = IF w = CpnSt THEN "list" ELSE pc
  BY Zenon, <1>4
<1>6. UNCHANGED <<dhdr, dfpm, slot, comm, stMac, pnList, wr>>
  BY DEF CommitTable
<1>7. f \subseteq DataPn /\ f \subseteq fpm \cup comm
  BY <1>2 DEF TypeOK, FreeNow
<1> HIDE DEF f
<1>8. /\ pns \in [0 .. k - 1 -> f]
      /\ PnSet(pns, k) \subseteq f
      /\ \A i, j \in 0 .. k - 1 : pns[i] = pns[j] => i = j
      /\ w = CpnSt => k = CpnSt
      /\ PnSet(pns, w) \subseteq PnSet(pns, k)
      /\ pnMac' \in 0 .. PnMax - 1 /\ pnMac' \in Int /\ pnMac <= pnMac'
      /\ \A p \in PnSet(pns, k) : p < pnMac'
  BY <1>2, <1>3, <1>4, <1>5, <1>7, NewPgsFacts
<1> DEFINE si == IF w = CpnSt THEN SI(CpnSt, CbPg, pns) ELSE siNil
<1>9. (w = CpnSt => si = SI(CpnSt, CbPg, pns)) /\ (w # CpnSt => si = siNil)
  OBVIOUS
<1>10. st' = [st EXCEPT ![snSt] = si]
  BY <1>5
<1> HIDE DEF si
<1>11. SIOK(si)
  <2>1. w = CpnSt => SIOK(SI(CpnSt, CbPg, pns))
    BY <1>7, <1>8, MsfAssumption DEF SIOK, SI
  <2>2. QED
    BY <1>9, <2>1, NilEntryOK
<1>12. /\ Pages(si) \subseteq PnSet(pns, k)
       /\ \A i \in 0 .. si.n - 1 : si.pns[i] \in f
       /\ \A i, j \in 0 .. si.n - 1 : si.pns[i] = si.pns[j] => i = j
  <2>1. CASE w = CpnSt
    BY <2>1, <1>8, <1>9 DEF SI, Pages
  <2>2. CASE w # CpnSt
    BY <2>2, <1>9, NilEntryOK
  <2>3. QED
    BY <2>1, <2>2
<1>13. /\ DOMAIN dpg' = DOMAIN dpg
       /\ \A p \in Pages(LoadedTable[snSt]) \cup {dhdr.list} : dpg'[p] = dpg[p]
  <2>1. PnSet(pns, w) \subseteq fpm \cup comm
    BY <1>7, <1>8
  <2>2. QED
    BY <1>2, <1>5, <2>1, PutSparesTable
<1>14. /\ fpm' \subseteq f \ Pages(si)
       /\ freed' \subseteq (freed \cup FreeLater(Pages(st[snSt]))) \ Pages(si)
  BY <1>2, <1>3, <1>5, <1>8, <1>12, FreshNotFreed DEF f
<1>15. DiskInv' /\ MemOK' /\ LinkOK' /\ AwayOK' /\ TableOK(st')
  BY <1>2, <1>3, <1>6, <1>8, <1>10, <1>11, <1>12, <1>13, <1>14, StreamStep DEF f
<1>16. TypeOK'
  <2>1. nfaults' \in Nat
    BY <1>2, <1>4, ChargeNat DEF TypeOK
  <2>2. fpm' \subseteq DataPn /\ freed' \subseteq DataPn
    BY <1>2, <1>3, <1>5, <1>7, OwnPages DEF TypeOK, FreeLater
  <2>3. QED
    BY <1>1, <1>2, <1>5, <1>6, <1>8, <1>13, <1>15, <2>1, <2>2 DEF TypeOK
<1>17. CASE w # CpnSt
  BY <1>2, <1>5, <1>15, <1>16, <1>17, ReadyAgain
<1>18. CASE w = CpnSt
  <2>1. pc' = "list" /\ st'[snSt] = SI(CpnSt, CbPg, pns)
    BY <1>2, <1>3, <1>5, <1>9, <1>10, <1>18 DEF TypeOK, TableOK
  <2>2. st'[snSt].pns = pns /\ st'[snSt] = SI(CpnSt, CbPg, st'[snSt].pns)
    BY <2>1 DEF SI
  <2>3. ASSUME NEW i \in 0 .. CpnSt - 1
        PROVE  dpg'[pns[i]] = TablePage(st)
    <3>1. pns[i] \in PnSet(pns, w) /\ pns[i] \in DataPn
      BY <1>7, <1>8, <1>18 DEF PnSet
    <3>2. QED
      BY <1>5, <3>1 DEF Put
  <2>4. WrittenTable' = st
    BY <1>3, <2>2, <2>3 DEF WrittenTable, TablePage
  <2>5. TableInv'
    BY <1>2, <1>10, <2>1, <2>2, <2>3, <2>4 DEF TableInv, TypeOK
  <2>6. QED
    BY <1>15, <1>16, <2>1, <2>5 DEF IInv, MemInv, AwayInv, WriteInv, HdrInv, FlushInv
<1>19. QED
  BY <1>17, <1>18

LEMMA CommitListStep ==
  ASSUME IInv, CommitList
  PROVE  IInv'
<1>1. /\ pc = "list" /\ TypeOK /\ DiskInv /\ MemOK /\ LinkOK /\ AwayOK /\ TableInv
  BY DEF CommitList, IInv, MemInv, InMemory, AwayInv, Building
<1>2. UNCHANGED <<dhdr, dfpm, slot, comm, st, stMac, wr, nops>>
  BY DEF CommitList
<1> DEFINE pg == ListPage(st[snSt].pns)
<1>3. PICK k \in 0..1, w \in 0..1 :
        /\ NewPgsOutcome(1, k, w)
        /\ Charge(NewPgsFault(fpm, 1, k, w))
        /\ \E pns \in LeastPns(fpm, k) :
             /\ pnMac' \in MacFor(PnSet(pns, k))
             /\ dpg' = Put(dpg, PnSet(pns, w), pg)
             /\ IF w = 1
                THEN /\ fpm' = (fpm \ PnSet(pns, 1)) \cup FreeNow({pnList})
                     /\ freed' = freed \cup FreeLater({pnList})
                     /\ pnList' = pns[0]
                     /\ pc' = "fpm"
                ELSE /\ fpm' = fpm \ PnSet(pns, k)
                     /\ pc' = "ready"
                     /\ UNCHANGED <<freed, pnList>>
  BY DEF CommitList
<1>4. PICK pns \in LeastPns(fpm, k) :
        /\ pnMac' \in MacFor(PnSet(pns, k))
        /\ dpg' = Put(dpg, PnSet(pns, w), pg)
        /\ IF w = 1
           THEN /\ fpm' = (fpm \ PnSet(pns, 1)) \cup FreeNow({pnList})
                /\ freed' = freed \cup FreeLater({pnList})
                /\ pnList' = pns[0]
                /\ pc' = "fpm"
           ELSE /\ fpm' = fpm \ PnSet(pns, k)
                /\ pc' = "ready"
                /\ UNCHANGED <<freed, pnList>>
  BY <1>3
<1>5. /\ pns \in [0 .. k - 1 -> fpm]
      /\ PnSet(pns, k) \subseteq fpm
      /\ w = 1 => k = 1
      /\ k = 1 => pns[0] \in fpm /\ PnSet(pns, k) = {pns[0]}
      /\ PnSet(pns, w) \subseteq PnSet(pns, k)
      /\ pnMac' \in 0 .. PnMax - 1 /\ pnMac' \in Int /\ pnMac <= pnMac'
      /\ \A p \in PnSet(pns, k) : p < pnMac'
  <2>1. fpm \subseteq DataPn
    BY <1>1 DEF TypeOK
  <2>2. NewPgsOutcome(1, k, w) /\ pnMac' \in MacFor(PnSet(pns, k))
    BY <1>3, <1>4
  <2>3. QED
    BY <1>1, <2>1, <2>2, NewPgFacts
<1>6. /\ DOMAIN dpg' = DOMAIN dpg
      /\ \A p \in Pages(LoadedTable[snSt]) \cup {dhdr.list} : dpg'[p] = dpg[p]
  <2> HIDE DEF pg
  <2>1. QED
    BY <1>1, <1>4, <1>5, PutSparesTable
<1>7. nfaults' \in Nat
  BY <1>1, <1>3, ChargeNat DEF TypeOK
<1>8. CASE w # 1
  <2>1. fpm' \subseteq fpm /\ freed' = freed /\ pnList' = pnList /\ pc' = "ready"
    BY <1>4, <1>8
  <2>2. DiskInv' /\ MemOK' /\ LinkOK' /\ AwayOK'
    BY <1>1, <1>2, <1>5, <1>6, <2>1, LoseStep
  <2>3. TypeOK'
    BY <1>1, <1>2, <1>5, <1>6, <1>7, <2>1 DEF TypeOK
  <2>4. QED
    BY <2>1, <2>2, <2>3, ReadyAgain
<1>9. CASE w = 1
  <2>1. /\ fpm' = (fpm \ {pns[0]}) \cup FreeNow({pnList})
        /\ freed' = freed \cup FreeLater({pnList})
        /\ pnList' = pns[0] /\ pc' = "fpm"
        /\ dpg' = Put(dpg, {pns[0]}, pg)
        /\ pns[0] \in fpm /\ pns[0] < pnMac'
    BY <1>4, <1>5, <1>9
  <2>2. LoadedTable' = LoadedTable /\ DiskUsed' = DiskUsed /\ DiskFpm' = DiskFpm /\ DiskInv'
    BY <1>1, <1>2, <1>6, DiskKept
  <2>3. ASSUME NEW s \in Sn
        PROVE  /\ Pages(st[s]) \subseteq DataPn
               /\ pns[0] \notin Pages(st[s]) /\ pnList \notin Pages(st[s])
               /\ \A p \in Pages(st[s]) : p \notin fpm \cup freed /\ p < pnMac'
    BY <1>1, <1>5, <2>1, OwnPages DEF MemOK, UsedOnce
  <2>4. MemOK'
    <3>1. \A p : p \in Used' <=> p = pns[0] \/ \E s \in Sn : p \in Pages(st[s])
      BY <1>2, <2>1, UsedByMember DEF Used
    <3>2. UsedOnce(st', pnList')
      BY <1>1, <1>2, <2>1, <2>3 DEF MemOK, UsedOnce
    <3>3. (fpm' \cup freed') \cap Used' = {}
      <4>1. pnList \notin fpm
        BY <1>1, UsedByMember DEF MemOK, Used
      <4>2. pns[0] \notin freed
        BY <1>1, <2>1 DEF AwayOK
      <4>3. QED
        BY <2>1, <2>3, <3>1, <4>1, <4>2 DEF FreeNow, FreeLater
    <3>4. \A p \in Used' : p < pnMac'
      BY <2>1, <2>3, <3>1
    <3>5. QED
      BY <3>2, <3>3, <3>4 DEF MemOK
  <2>5. LinkOK'
    <3>1. \A t \in Sn : pns[0] \notin Pages(LoadedTable[t])
      BY <1>1, <2>1, FreshNotOnDisk, UsedByMember DEF DiskUsed
    <3>2. QED
      BY <1>1, <1>2, <2>1, <2>2, <3>1 DEF LinkOK, Linked
  <2>6. AwayOK'
    <3>1. fpm' \subseteq fpm \cup comm
      BY <2>1 DEF FreeNow
    <3>2. fpm' \cap freed' = {}
      <4>1. pnList \notin fpm \cup freed
        BY <1>1, UsedByMember DEF MemOK, Used
      <4>2. QED
        BY <1>1, <2>1, <4>1 DEF AwayOK, FreeNow, FreeLater
    <3>3. QED
      BY <1>1, <1>2, <2>2, <3>1, <3>2, FreshNotOnDisk DEF AwayOK
  <2>7. TypeOK'
    <3>1. fpm' \subseteq DataPn /\ freed' \subseteq DataPn /\ pnList' \in DataPn
      BY <1>1, <2>1 DEF TypeOK, FreeNow, FreeLater
    <3>2. QED
      BY <1>1, <1>2, <1>5, <1>6, <1>7, <2>1, <3>1 DEF TypeOK
  <2>8. TableInv'
    <3>1. snSt \in Sn /\ 0 \in 0 .. CpnSt - 1
      BY MsfAssumption DEF Sn, snSt
    <3>2. st[snSt].n = CpnSt
      BY <1>1 DEF TableInv, SI
    <3>3. ASSUME NEW i \in 0 .. CpnSt - 1
          PROVE  dpg'[st[snSt].pns[i]] = dpg[st[snSt].pns[i]]
      <4>1. st[snSt].pns[i] \in Pages(st[snSt])
        BY <3>2 DEF Pages, PnSet
      <4>2. st[snSt].pns[i] \in DataPn /\ st[snSt].pns[i] # pns[0]
        BY <2>3, <3>1, <4>1
      <4>3. QED
        BY <2>1, <4>2 DEF Put
    <3>4. WrittenTable' = WrittenTable
      BY <1>2, <3>1, <3>3 DEF WrittenTable
    <3>5. dpg'[pnList'] = pg
      BY <1>1, <2>1 DEF Put, TypeOK
    <3>6. QED
      BY <1>1, <1>2, <2>1, <3>3, <3>4, <3>5 DEF TableInv
  <2>9. QED
    BY <2>1, <2>2, <2>4, <2>5, <2>6, <2>7, <2>8
    DEF IInv, MemInv, AwayInv, WriteInv, HdrInv, FlushInv
<1>10. QED
  BY <1>8, <1>9

LEMMA CommitFpmStep ==
  ASSUME IInv, CommitFpm
  PROVE  IInv'
<1>1. /\ pc = "fpm" /\ TypeOK /\ DiskInv /\ MemOK /\ LinkOK /\ AwayOK /\ TableInv
  BY DEF CommitFpm, IInv, MemInv, InMemory, AwayInv, Building
<1>2. /\ UNCHANGED <<dhdr, dpg, slot, pnMac, freed, comm, st, stMac, pnList, wr, nops>>
      /\ fpm' = fpm \cup freed
  BY DEF CommitFpm
<1>3. PICK g \in SUBSET DataPn : dfpm' = [dfpm EXCEPT ![slot] = g]
  BY <1>1 DEF CommitFpm, TypeOK
<1>4. nfaults' \in Nat
  BY <1>1, ChargeNat DEF CommitFpm, TypeOK
<1>5. pc' = "failed" \/ (pc' = "hdr" /\ dfpm'[slot] = fpm')
  BY <1>1 DEF CommitFpm, TypeOK
<1>6. dfpm'[dhdr.slot] = dfpm[dhdr.slot] /\ dfpm' \in [Slots -> SUBSET DataPn]
  BY <1>1, <1>3 DEF TypeOK, AwayOK
<1>7. LoadedTable' = LoadedTable /\ DiskInv'
  BY <1>1, <1>2, <1>6, DiskKept
<1>8. TypeOK'
  BY <1>1, <1>2, <1>4, <1>5, <1>6 DEF TypeOK
<1>9. MemOK'
  BY <1>1, <1>2 DEF MemOK, Used
<1>10. LinkOK'
  BY <1>1, <1>2, <1>7 DEF LinkOK
<1>11. CASE pc' = "failed"
  BY <1>7, <1>8, <1>11
  DEF IInv, MemInv, InMemory, AwayInv, Building, WriteInv, TableInv, HdrInv, FlushInv
<1>12. CASE pc' = "hdr" /\ dfpm'[slot] = fpm'
  <2>1. TableInv'
    BY <1>1, <1>2, <1>12 DEF TableInv, WrittenTable
  <2>2. HdrInv'
    BY <1>1, <1>2, <1>10, <1>12 DEF HdrInv, AwayOK
  <2>3. QED
    BY <1>7, <1>8, <1>9, <1>12, <2>1, <2>2
    DEF IInv, MemInv, AwayInv, Building, WriteInv, FlushInv
<1>13. QED
  BY <1>5, <1>11, <1>12

\* The header write puts the table, its list and the page map of the transaction
\* in place of the committed ones.
LEMMA CommitHdrStep ==
  ASSUME IInv, CommitHdr
  PROVE  IInv'
<1>1. /\ pc = "hdr" /\ TypeOK /\ DiskInv /\ MemOK /\ TableInv /\ HdrInv
  BY DEF CommitHdr, IInv, MemInv, InMemory
<1>2. UNCHANGED <<dfpm, dpg, slot, pnMac, fpm, freed, comm, st, stMac, pnList, wr, nops>>
  BY DEF CommitHdr, pageMaps
<1>3. nfaults' \in Nat
  BY <1>1, ChargeNat DEF CommitHdr, TypeOK
<1>4. \/ pc' = "failed" /\ dhdr' = dhdr
      \/ pc' = "flush" /\ dhdr' = [slot |-> slot, mac |-> pnMac, list |-> pnList]
  BY DEF CommitHdr
<1>5. dhdr' \in [slot : Slots, mac : 0 .. PnMax - 1, list : DataPn]
  BY <1>1, <1>4 DEF TypeOK
<1>6. TypeOK'
  BY <1>1, <1>2, <1>3, <1>4, <1>5 DEF TypeOK
<1>7. CASE pc' = "failed" /\ dhdr' = dhdr
  <2>1. DiskInv'
    BY <1>1, <1>2, <1>7, DiskKept
  <2>2. QED
    BY <1>6, <1>7, <2>1
    DEF IInv, MemInv, InMemory, AwayInv, Building, WriteInv, TableInv, HdrInv, FlushInv
<1>8. CASE pc' = "flush" /\ dhdr' = [slot |-> slot, mac |-> pnMac, list |-> pnList]
  <2> DEFINE stPns == st[snSt].pns
  <2>1. /\ st[snSt] = SI(CpnSt, CbPg, stPns)
        /\ \A i \in 0 .. CpnSt - 1 : dpg[stPns[i]] = TablePage(WrittenTable)
        /\ TableOK(WrittenTable)
        /\ st = [WrittenTable EXCEPT ![snSt] = st[snSt]]
        /\ dpg[pnList] = ListPage(stPns)
    BY <1>1 DEF TableInv
  <2>2. snSt \in Sn /\ 0 \in 0 .. CpnSt - 1
    BY MsfAssumption DEF Sn, snSt
  <2>3. stPns \in [0 .. CpnSt - 1 -> DataPn]
    <3>1. SIOK(st[snSt])
      BY <1>1, <2>2 DEF TypeOK, TableOK
    <3>2. st[snSt].n = CpnSt
      BY <2>1 DEF SI
    <3>3. QED
      BY <3>1, <3>2 DEF SIOK
  <2>4. dhdr'.slot = slot /\ dhdr'.mac = pnMac /\ dhdr'.list = pnList
    BY <1>8
  <2>5. DiskStPns' = stPns
    BY <1>2, <2>1, <2>4 DEF DiskStPns, ListPage
  <2>6. DiskTable' = WrittenTable
    BY <1>2, <2>2, <2>5 DEF DiskTable, WrittenTable
  <2>7. LoadedTable' = st
    BY <2>1, <2>5, <2>6 DEF LoadedTable
  <2>8. DiskUsed' = Used /\ DiskFpm' = fpm
    BY <1>1, <1>2, <2>4, <2>7 DEF DiskUsed, Used, DiskFpm, HdrInv
  <2>9. Readable'
    <3>1. "list" \in DOMAIN dpg[pnList]
      BY <2>1 DEF ListPage
    <3>2. "tbl" \in DOMAIN dpg[stPns[0]]
      BY <2>1, <2>2 DEF TablePage
    <3>3. QED
      BY <1>2, <2>4, <2>5, <3>1, <3>2 DEF Readable
  <2>10. Loadable'
    BY <1>1, <1>2, <2>1, <2>4, <2>5, <2>6, <2>7, <2>8, <2>9 DEF Loadable, MemOK
  <2>11. DiskInv'
    BY <1>2, <2>1, <2>3, <2>4, <2>5, <2>6, <2>10 DEF DiskInv
  <2>12. MemOK'
    BY <1>1, <1>2 DEF MemOK, Used
  <2>13. FlushInv'
    BY <1>2, <1>8, <2>7, <2>8 DEF FlushInv
  <2>14. QED
    BY <1>6, <1>8, <2>11, <2>12, <2>13
    DEF IInv, MemInv, AwayInv, Building, WriteInv, TableInv, HdrInv
<1>9. QED
  BY <1>4, <1>7, <1>8

LEMMA OtherSlotFacts ==
  ASSUME NEW s \in Slots
  PROVE  OtherSlot(s) \in Slots /\ OtherSlot(s) # s
BY DEF Slots, OtherSlot

\* A table in memory that is the one on disk is linked to it.
LEMMA SameTableLinked ==
  ASSUME NEW tbl, NEW list, TableOK(tbl), UsedOnce(tbl, list)
  PROVE  Linked(tbl, list, tbl, list)
<1>1. ASSUME NEW s \in Sn, NEW t \in Sn,
             NEW i \in 0 .. tbl[s].n - 1, NEW j \in 0 .. tbl[t].n - 1,
             tbl[s].pns[i] = tbl[t].pns[j]
      PROVE  s = t /\ i = j /\ Extent(tbl[t], j) <= Extent(tbl[s], i)
  <2>1. s = t /\ i = j
    BY <1>1 DEF UsedOnce
  <2>2. Extent(tbl[s], i) \in Int
    BY ExtentInt DEF TableOK
  <2>3. QED
    BY <2>1, <2>2
<1>2. QED
  BY <1>1 DEF Linked, UsedOnce

LEMMA CommitFlushStep ==
  ASSUME IInv, CommitFlush
  PROVE  IInv'
<1>1. /\ pc = "flush" /\ TypeOK /\ DiskInv /\ MemOK /\ FlushInv
  BY DEF CommitFlush, IInv, MemInv, InMemory
<1>2. UNCHANGED <<dhdr, dfpm, dpg, pnMac, fpm, st, stMac, pnList, wr, nops>>
  BY DEF CommitFlush, disk
<1>3. nfaults' \in Nat
  BY <1>1, ChargeNat DEF CommitFlush, TypeOK
<1>4. \/ pc' = "failed" /\ UNCHANGED <<slot, freed, comm>>
      \/ pc' = "ready" /\ slot' = OtherSlot(slot) /\ freed' = {} /\ comm' = fpm
  BY DEF CommitFlush
<1>5. TypeOK'
  BY <1>1, <1>2, <1>3, <1>4, OtherSlotFacts DEF TypeOK
<1>6. LoadedTable' = LoadedTable /\ DiskUsed' = DiskUsed /\ DiskFpm' = DiskFpm /\ DiskInv'
  BY <1>1, <1>2, DiskKept
<1>7. CASE pc' = "failed"
  BY <1>5, <1>6, <1>7
  DEF IInv, MemInv, InMemory, AwayInv, Building, WriteInv, TableInv, HdrInv, FlushInv
<1>8. CASE pc' = "ready" /\ slot' = OtherSlot(slot) /\ freed' = {} /\ comm' = fpm
  <2>1. MemOK'
    BY <1>1, <1>2, <1>8 DEF MemOK, Used
  <2>2. dhdr.slot = slot /\ dhdr.list = pnList /\ LoadedTable = st /\ DiskFpm = fpm
    BY <1>1 DEF FlushInv
  <2>3. LinkOK'
    <3>1. Linked(st, pnList, st, pnList)
      BY <1>1, SameTableLinked DEF MemOK, TypeOK
    <3>2. QED
      BY <1>2, <1>6, <2>2, <3>1 DEF LinkOK
  <2>4. AwayOK'
    <3>1. DiskUsed \cap fpm = {}
      BY <1>1, <2>2 DEF DiskInv, Loadable
    <3>2. slot' # dhdr.slot
      BY <1>1, <1>8, <2>2, OtherSlotFacts DEF TypeOK
    <3>3. QED
      BY <1>2, <1>6, <1>8, <2>2, <3>1, <3>2 DEF AwayOK
  <2>5. QED
    BY <1>5, <1>6, <1>8, <2>1, <2>3, <2>4, ReadyAgain
<1>9. QED
  BY <1>4, <1>7, <1>8

-----------------------------------------------------------------------------
(* Crash, and the first file.                                              *)

LEMMA CrashStep ==
  ASSUME IInv, CrashAndLoad
  PROVE  IInv'
<1>1. TypeOK /\ DiskInv
  BY DEF IInv
<1>2. /\ fpm' = DiskFpm /\ comm' = DiskFpm /\ freed' = {}
      /\ slot' = OtherSlot(dhdr.slot) /\ pnMac' = dhdr.mac
      /\ st' = LoadedTable /\ stMac' \in LoadedMac
      /\ pnList' = dhdr.list /\ pc' = "ready" /\ wr' = NoWrite
      /\ UNCHANGED <<dhdr, dfpm, dpg, nops, nfaults>>
  BY DEF CrashAndLoad, disk
<1>3. TableOK(LoadedTable) /\ UsedOnce(LoadedTable, dhdr.list)
  BY <1>1, LoadedTableOK DEF DiskInv, Loadable
<1>4. dhdr.slot \in Slots /\ dhdr.mac \in 0 .. PnMax - 1 /\ dhdr.list \in DataPn /\ DiskFpm \subseteq DataPn
  BY <1>1 DEF TypeOK, DiskFpm
<1>5. TypeOK'
  <2>1. stMac' \in SnFixed .. SnMax
    BY <1>2 DEF LoadedMac
  <2>2. QED
    BY <1>1, <1>2, <1>3, <1>4, <2>1, NoWriteOK, OtherSlotFacts DEF TypeOK
<1>6. LoadedTable' = LoadedTable /\ DiskUsed' = DiskUsed /\ DiskFpm' = DiskFpm /\ DiskInv'
  BY <1>1, <1>2, DiskKept
<1>7. Used' = DiskUsed
  BY <1>2 DEF Used, DiskUsed
<1>8. MemOK'
  BY <1>1, <1>2, <1>3, <1>7 DEF MemOK, DiskInv, Loadable
<1>9. LinkOK'
  BY <1>2, <1>3, <1>6, SameTableLinked DEF LinkOK
<1>10. AwayOK'
  BY <1>1, <1>2, <1>4, <1>6, OtherSlotFacts DEF AwayOK, DiskInv, Loadable
<1>11. QED
  BY <1>2, <1>5, <1>6, <1>8, <1>9, <1>10, ReadyAgain

LEMMA InitOK ==
  ASSUME Init
  PROVE  IInv
<1> DEFINE si == SI(CpnSt, CbPg, NewStPns)
<1>1. /\ dpg = [p \in DataPn |->
                  IF p < NewListPn THEN TablePage(NewTable)
                  ELSE IF p = NewListPn THEN ListPage(NewStPns)
                  ELSE DataPage(Zero)]
      /\ fpm = NewFpm /\ comm = NewFpm /\ freed = {}
      /\ dfpm = [s \in Slots |-> IF s = 1 THEN NewFpm ELSE {}]
      /\ pnMac \in MacFrom(pnDataMin, {NewListPn})
      /\ dhdr = [slot |-> 1, mac |-> pnMac, list |-> NewListPn]
      /\ slot = 2
      /\ st = [NewTable EXCEPT ![snSt] = si]
      /\ stMac = SnFixed /\ pnList = NewListPn
      /\ pc = "ready" /\ wr = NoWrite /\ nops = 0 /\ nfaults = 0
  BY DEF Init
<1>2. /\ NewListPn \in DataPn /\ NewListPn \in Nat /\ NewFpm \subseteq DataPn /\ NewListPn \notin NewFpm
      /\ snSt \in Sn /\ 0 \in 0 .. CpnSt - 1 /\ CpnSt \in Nat
  BY MsfAssumption DEF NewListPn, NewFpm, DataPn, pnDataMin, Sn, snSt
<1>3. /\ NewStPns \in [0 .. CpnSt - 1 -> DataPn]
      /\ \A i \in 0 .. CpnSt - 1 :
           NewStPns[i] < NewListPn /\ NewStPns[i] \in DataPn /\ NewStPns[i] \in Nat
           /\ NewStPns[i] \notin NewFpm
      /\ \A i, j \in 0 .. CpnSt - 1 : NewStPns[i] = NewStPns[j] => i = j
  BY MsfAssumption DEF NewStPns, NewListPn, NewFpm, DataPn, pnDataMin
<1>4. pnMac \in 0 .. PnMax - 1 /\ NewListPn < pnMac
  BY <1>1, MsfAssumption DEF MacFrom, MacSteps, pnDataMin
<1>5. SIOK(si) /\ Pages(si) = PnSet(NewStPns, CpnSt) /\ si.n = CpnSt /\ si.pns = NewStPns
  BY <1>3, MsfAssumption DEF SIOK, SI, Pages
<1>6. /\ TableOK(NewTable)
      /\ \A s \in Sn : NewTable[s] = siNil
  BY NilEntryOK DEF TableOK, NewTable
<1> HIDE DEF si
<1>7. /\ TableOK(st) /\ st[snSt] = si
      /\ \A s \in Sn \ {snSt} : st[s] = siNil
  BY <1>1, <1>2, <1>5, <1>6 DEF TableOK
<1>8. DiskStPns = NewStPns /\ dpg[dhdr.list] = ListPage(NewStPns)
  BY <1>1, <1>2 DEF DiskStPns, ListPage
<1>9. \A i \in 0 .. CpnSt - 1 : dpg[NewStPns[i]] = TablePage(NewTable)
  BY <1>1, <1>3
<1>10. DiskTable = NewTable
  BY <1>2, <1>8, <1>9 DEF DiskTable, TablePage
<1>11. LoadedTable = st
  BY <1>1, <1>8, <1>10 DEF LoadedTable, si
<1>12. UsedOnce(st, pnList)
  <2>1. \A s \in Sn : s # snSt => 0 .. st[s].n - 1 = {} /\ Pages(st[s]) = {}
    BY <1>7, NilEntryOK
  <2>2. \A i, j \in 0 .. st[snSt].n - 1 : st[snSt].pns[i] = st[snSt].pns[j] => i = j
    BY <1>3, <1>5, <1>7
  <2>3. pnList \notin Pages(st[snSt])
    BY <1>1, <1>2, <1>3, <1>5, <1>7 DEF PnSet
  <2>4. QED
    BY <2>1, <2>2, <2>3 DEF UsedOnce
<1>13. \A p \in Used : p \notin NewFpm /\ p < pnMac
  <2>1. \A p \in Used : p = NewListPn \/ \E s \in Sn : p \in Pages(st[s])
    BY <1>1, UsedByMember DEF Used
  <2>2. \A s \in Sn : Pages(st[s]) \subseteq PnSet(NewStPns, CpnSt)
    BY <1>5, <1>7, NilEntryOK
  <2>3. \A p \in PnSet(NewStPns, CpnSt) : p \notin NewFpm /\ p < pnMac
    BY <1>2, <1>3, <1>4 DEF PnSet
  <2>4. QED
    BY <1>2, <1>4, <2>1, <2>2, <2>3
<1>14. MemOK
  BY <1>1, <1>12, <1>13 DEF MemOK
<1>15. DiskUsed = Used /\ DiskFpm = fpm
  BY <1>1, <1>11 DEF DiskUsed, Used, DiskFpm, Slots
<1>16. Readable
  <2>1. "list" \in DOMAIN dpg[dhdr.list] /\ "tbl" \in DOMAIN dpg[NewStPns[0]]
    BY <1>2, <1>8, <1>9 DEF ListPage, TablePage
  <2>2. QED
    BY <1>8, <2>1 DEF Readable
<1>17. DiskInv
  <2>1. Loadable
    BY <1>1, <1>8, <1>9, <1>10, <1>11, <1>12, <1>13, <1>15, <1>16 DEF Loadable
  <2>2. QED
    BY <1>3, <1>6, <1>8, <1>10, <2>1 DEF DiskInv
<1>18. LinkOK
  BY <1>1, <1>7, <1>11, <1>12, SameTableLinked DEF LinkOK
<1>19. AwayOK
  BY <1>1, <1>13, <1>15 DEF AwayOK
<1>20. TypeOK
  BY <1>1, <1>2, <1>4, <1>7, NoWriteOK, MsfAssumption DEF TypeOK, Slots
<1>21. QED
  BY <1>1, <1>14, <1>17, <1>18, <1>19, <1>20
  DEF IInv, MemInv, AwayInv, WriteInv, TableInv, HdrInv, FlushInv

-----------------------------------------------------------------------------
(* The theorems.                                                           *)

LEMMA StutterStep ==
  ASSUME IInv, UNCHANGED vars
  PROVE  IInv'
<1>1. UNCHANGED <<dhdr, dfpm, dpg, slot, pnMac, fpm, freed, comm, st, stMac, pnList,
                  pc, wr, nops, nfaults>>
  BY DEF vars
<1>2. TypeOK'
  BY <1>1 DEF IInv, TypeOK
<1>3. DiskInv' /\ LoadedTable' = LoadedTable /\ DiskUsed' = DiskUsed /\ DiskFpm' = DiskFpm
  BY <1>1, DiskKept DEF IInv
<1>4. /\ MemOK' = MemOK /\ LinkOK' = LinkOK /\ AwayOK' = AwayOK
      /\ WrittenTable' = WrittenTable
  BY <1>1, <1>3 DEF MemOK, Used, LinkOK, AwayOK, WrittenTable
<1>5. MemInv' /\ AwayInv' /\ WriteInv' /\ TableInv' /\ HdrInv' /\ FlushInv'
  BY <1>1, <1>3, <1>4
  DEF IInv, MemInv, InMemory, AwayInv, Building, WriteInv, TableInv, HdrInv, FlushInv
<1>6. QED
  BY <1>2, <1>3, <1>5 DEF IInv

LEMMA NextStep ==
  ASSUME IInv, [Next]_vars
  PROVE  IInv'
<1>1. CASE StreamOp
  <2>1. ASSUME NEW sn \in UserSn, NEW sz \in Sizes, NEW b \in Bytes,
               ReplaceStream(sn, sz[1], sz[2], b)
        PROVE  IInv'
    BY <2>1, ReplaceStep
  <2>2. ASSUME NEW sn \in UserSn, NEW sz \in Sizes, NEW b \in Bytes,
               AppendStream(sn, sz[1], sz[2], b)
        PROVE  IInv'
    BY <2>2, AppendStep
  <2>3. ASSUME NEW sn \in UserSn, NEW sz \in Sizes, TruncateStream(sn, sz[1], sz[2])
        PROVE  IInv'
    BY <2>3, TruncateStep
  <2>4. ASSUME NEW sn \in UserSn,
               NEW i \in 0 .. MaxCpn - 1, NEW j \in 0 .. MaxCpn - 1,
               NEW lo \in Cells, NEW hi \in Cells, NEW b \in Bytes,
               WriteStream(sn, i, j, lo, hi, b)
        PROVE  IInv'
    BY <2>4, WriteStreamStep
  <2>5. ASSUME NEW sn \in UserSn, DeleteStream(sn) \/ NonTransactionalEraseStream(sn)
        PROVE  IInv'
    BY <2>5, DeleteStep, EraseStep
  <2>6. QED
    BY Zenon, <1>1, <2>1, <2>2, <2>3, <2>4, <2>5, GetFreeSnStep, WriteStreamPageStep,
       WriteStreamFailsStep
    DEF StreamOp
<1>2. CASE Commit
  BY Zenon, <1>2, CommitTableStep, CommitListStep, CommitFpmStep, CommitHdrStep, CommitFlushStep
  DEF Commit
<1>3. CASE CrashAndLoad
  BY <1>3, CrashStep
<1>4. CASE UNCHANGED vars
  BY <1>4, StutterStep
<1>5. QED
  BY Zenon, <1>1, <1>2, <1>3, <1>4 DEF Next

\* The invariant of the whole file is inductive.
THEOREM Invariant == Spec => []IInv
<1>1. Init => IInv
  BY InitOK
<1>2. IInv /\ [Next]_vars => IInv'
  BY NextStep
<1>3. QED
  BY <1>1, <1>2, PTL DEF Spec

\* Every page number, slot, stream info and table stays in its range.
THEOREM TypeCorrect == Spec => []TypeOK
<1>1. IInv => TypeOK
  BY DEF IInv
<1>2. QED
  BY <1>1, Invariant, PTL

\* After any crash, and any failed write, the file can be opened, and what it is
\* opened with shares no page and has none of its pages free.
THEOREM AlwaysLoadable == Spec => []Loadable
<1>1. IInv => Loadable
  BY DEF IInv, DiskInv
<1>2. QED
  BY <1>1, Invariant, PTL

\* No operation is given a page of the committed state to write to.
THEOREM CommittedPagesSafe == Spec => []CommittedNotAllocatable
<1>1. IInv => CommittedNotAllocatable
  BY StopsAfterFailure DEF IInv, CommittedNotAllocatable, Idle, AwayInv, Building, AwayOK
<1>2. QED
  BY <1>1, Invariant, PTL

\* AppendStream's write in place never reaches what a committed stream has on
\* the page.
THEOREM AppendInPlaceSafe == Spec => []CommittedExtentKept
<1>1. ASSUME IInv, pc \notin {"failed", "broken"}
      PROVE  LinkOK
  <2>1. CASE pc \in {"ready", "write", "list", "fpm", "hdr"}
    BY <1>1, <2>1 DEF IInv, AwayInv, Building, HdrInv
  <2>2. CASE pc = "flush"
    <3>1. dhdr.list = pnList /\ LoadedTable = st
      BY <1>1, <2>2 DEF IInv, FlushInv
    <3>2. TableOK(st) /\ UsedOnce(st, pnList)
      BY <1>1 DEF IInv, TypeOK, MemInv, InMemory, MemOK
    <3>3. QED
      BY <3>1, <3>2, SameTableLinked DEF LinkOK
  <2>3. QED
    BY <1>1, <2>1, <2>2 DEF IInv, TypeOK
<1>2. UserSn \subseteq Sn
  BY MsfAssumption DEF UserSn, Sn
<1>3. IInv => CommittedExtentKept
  BY <1>1, <1>2 DEF CommittedExtentKept, LinkOK, Linked
<1>4. QED
  BY <1>3, Invariant, PTL

\* No page has two owners, and no page in use is free.
THEOREM PagesOwnedOnce == Spec => []NoSharedPage
<1>1. IInv => NoSharedPage
  BY DEF IInv, MemInv, InMemory, MemOK, NoSharedPage
<1>2. QED
  BY <1>1, Invariant, PTL

\* A commit does not write its page map over the one that is valid on disk.
THEOREM ValidMapSafe == Spec => []ValidFpmKept
<1>1. IInv => ValidFpmKept
  BY DEF IInv, AwayInv, Building, AwayOK, ValidFpmKept
<1>2. QED
  BY <1>1, Invariant, PTL

-----------------------------------------------------------------------------
(* The file as a transacted store.                                         *)

(* What a stream holds, given the pages of the file.                       *)

ContentOn(d, si) ==
  [valid |-> si.valid,
   cells |-> [c \in CellsOf(si) |-> d[si.pns[c[1]]].data[c[2]]]]

\* Both sides of the refinement mapping, now and after a step.
LEMMA MappingNow ==
  /\ Current = [t \in UserSn |-> ContentOn(dpg, st[t])]
  /\ Committed = [t \in UserSn |-> ContentOn(dpg, LoadedTable[t])]
BY DEF Current, Committed, Content, ContentOn

LEMMA MappingNext ==
  /\ Current' = [t \in UserSn |-> ContentOn(dpg', st'[t])]
  /\ Committed' = [t \in UserSn |-> ContentOn(dpg', LoadedTable'[t])]
BY DEF Current, Committed, Content, ContentOn

\* A cell of a stream lies on one of the stream's pages, before the end of
\* what the stream has on that page.
LEMMA CellFacts ==
  ASSUME NEW si, SIOK(si), NEW c \in CellsOf(si)
  PROVE  /\ c[1] \in 0 .. si.n - 1 /\ c[2] \in Cells
         /\ c[2] < Extent(si, c[1])
         /\ si.pns[c[1]] \in Pages(si)
<1>1. c \in (0 .. si.n - 1) \X Cells /\ (c[1] = si.n - 1 => c[2] < si.last)
  BY DEF CellsOf
<1>2. c[1] \in 0 .. si.n - 1 /\ c[2] \in Cells
  BY <1>1
<1>3. c[2] < Extent(si, c[1])
  BY <1>1, <1>2, MsfAssumption DEF Extent, Cells
<1>4. si.pns[c[1]] \in Pages(si)
  BY <1>2 DEF Pages, PnSet
<1>5. QED
  BY <1>2, <1>3, <1>4

LEMMA SameCells ==
  ASSUME NEW si, NEW d, NEW e,
         \A c \in CellsOf(si) : e[si.pns[c[1]]].data[c[2]] = d[si.pns[c[1]]].data[c[2]]
  PROVE  ContentOn(e, si) = ContentOn(d, si)
BY DEF ContentOn

\* A stream holds the same as long as its pages do.
LEMMA SamePages ==
  ASSUME NEW si, SIOK(si), NEW d, NEW e, \A p \in Pages(si) : e[p] = d[p]
  PROVE  ContentOn(e, si) = ContentOn(d, si)
<1>1. ASSUME NEW c \in CellsOf(si)
      PROVE  e[si.pns[c[1]]].data[c[2]] = d[si.pns[c[1]]].data[c[2]]
  BY CellFacts
<1>2. QED
  BY <1>1, SameCells

-----------------------------------------------------------------------------
(* The steps of the store, from what happens to tables and pages.          *)

LEMMA UserNumbers == UserSn \subseteq Sn /\ snSt \notin UserSn /\ snSt \in Sn
BY MsfAssumption DEF UserSn, Sn, snSt

\* The committed streams keep what they hold when the table on disk does, and
\* no page of theirs is written.
LEMMA CommittedKept ==
  ASSUME DiskInv, LoadedTable' = LoadedTable,
         \A t \in UserSn : \A p \in Pages(LoadedTable[t]) : dpg'[p] = dpg[p]
  PROVE  Committed' = Committed
<1>1. \A t \in UserSn : SIOK(LoadedTable[t])
  BY LoadedTableOK, UserNumbers DEF TableOK
<1>2. \A t \in UserSn : ContentOn(dpg', LoadedTable'[t]) = ContentOn(dpg, LoadedTable[t])
  BY <1>1, SamePages
<1>3. QED
  BY <1>2, MappingNow, MappingNext

\* The other streams keep what they hold when neither their entries nor their
\* pages are written.
LEMMA OthersKeptStep ==
  ASSUME TableOK(st), NEW sn,
         \A t \in UserSn \ {sn} : st'[t] = st[t] /\ \A p \in Pages(st[t]) : dpg'[p] = dpg[p]
  PROVE  \A t \in UserSn \ {sn} : Current'[t] = Current[t]
<1>1. \A t \in UserSn : SIOK(st[t])
  BY UserNumbers DEF TableOK
<1>2. \A t \in UserSn \ {sn} : ContentOn(dpg', st'[t]) = ContentOn(dpg, st[t])
  BY <1>1, SamePages
<1>3. QED
  BY <1>2, MappingNow, MappingNext

LEMMA CurrentKept ==
  ASSUME TableOK(st),
         \A t \in UserSn : st'[t] = st[t] /\ \A p \in Pages(st[t]) : dpg'[p] = dpg[p]
  PROVE  Current' = Current
<1>1. \A t \in UserSn : SIOK(st[t])
  BY UserNumbers DEF TableOK
<1>2. \A t \in UserSn : ContentOn(dpg', st'[t]) = ContentOn(dpg, st[t])
  BY <1>1, SamePages
<1>3. QED
  BY <1>2, MappingNow, MappingNext

\* A step of the store that changes one stream and commits nothing.
LEMMA UpdateStep ==
  ASSUME NEW sn \in UserSn,
         \A t \in UserSn \ {sn} : Current'[t] = Current[t], Committed' = Committed
  PROVE  Store!StoreNext
BY DEF Store!StoreNext, Store!Update, Store!OthersKept

LEMMA StutterOfStore ==
  ASSUME Current' = Current, Committed' = Committed
  PROVE  [Store!StoreNext]_(Store!storeVars)
BY DEF Store!storeVars

\* Writing pages that may be allocated, or pages of stream sn that may be
\* allocated once it is deleted, changes no byte of another stream, nor of any
\* committed one.
LEMMA FreshWrite ==
  ASSUME TypeOK, DiskInv, MemOK, AwayOK,
         NEW sn \in Sn, NEW S, S \subseteq fpm \cup FreeNow(Pages(st[sn])),
         NEW pg, dpg' = dpg \/ dpg' = Put(dpg, S, pg)
  PROVE  /\ \A t \in Sn : \A p \in Pages(LoadedTable[t]) : dpg'[p] = dpg[p]
         /\ \A t \in Sn \ {sn} : \A p \in Pages(st[t]) : dpg'[p] = dpg[p]
<1>1. ASSUME NEW p \in DataPn, p \notin S
      PROVE  dpg'[p] = dpg[p]
  BY <1>1 DEF Put
<1>2. ASSUME NEW t \in Sn, NEW p \in Pages(LoadedTable[t])
      PROVE  dpg'[p] = dpg[p]
  <2>1. p \in DiskUsed
    BY <1>2, UsedByMember DEF DiskUsed
  <2>2. p \notin S
    BY <2>1, FreshNotOnDisk DEF FreeNow
  <2>3. p \in DataPn
    BY <1>2, LoadedTableOK, PagesInData DEF TableOK
  <2>4. QED
    BY <1>1, <2>2, <2>3
<1>3. ASSUME NEW t \in Sn \ {sn}, NEW p \in Pages(st[t])
      PROVE  dpg'[p] = dpg[p]
  <2>1. p \in DataPn /\ p \notin fpm
    BY <1>3, OwnPages
  <2>2. p \notin Pages(st[sn])
    BY <1>3 DEF MemOK, UsedOnce, Pages, PnSet
  <2>3. QED
    BY <1>1, <2>1, <2>2 DEF FreeNow
<1>4. QED
  BY <1>2, <1>3

\* An operation on stream sn that writes such pages.
LEMMA FreshStep ==
  ASSUME TypeOK, DiskInv, MemOK, LinkOK, AwayOK,
         NEW sn \in Sn, NEW S, S \subseteq fpm \cup FreeNow(Pages(st[sn])),
         NEW pg, dpg' = dpg \/ dpg' = Put(dpg, S, pg), UNCHANGED <<dhdr, dfpm>>,
         \A t \in Sn \ {sn} : st'[t] = st[t]
  PROVE  /\ LoadedTable' = LoadedTable
         /\ Committed' = Committed
         /\ \A t \in UserSn \ {sn} : Current'[t] = Current[t]
<1>1. /\ \A t \in Sn : \A p \in Pages(LoadedTable[t]) : dpg'[p] = dpg[p]
      /\ \A t \in Sn \ {sn} : \A p \in Pages(st[t]) : dpg'[p] = dpg[p]
  BY FreshWrite
<1>2. LoadedTable' = LoadedTable
  <2>1. \A p \in S : p \in fpm \cup comm
    BY DEF FreeNow
  <2>2. /\ DOMAIN dpg' = DOMAIN dpg
        /\ \A p \in Pages(LoadedTable[snSt]) \cup {dhdr.list} : dpg'[p] = dpg[p]
    BY <2>1, PutSparesTable
  <2>3. QED
    BY <2>2, DiskKept
<1>3. TableOK(st)
  BY DEF TypeOK
<1>4. Committed' = Committed
  BY <1>1, <1>2, CommittedKept, UserNumbers
<1>5. QED
  BY <1>1, <1>2, <1>3, <1>4, OthersKeptStep, UserNumbers

\* Writing the table itself, or its list, is no step of the store.
LEMMA TableWrite ==
  ASSUME TypeOK, DiskInv, MemOK, LinkOK, AwayOK,
         NEW S, S \subseteq fpm \cup FreeNow(Pages(st[snSt])),
         NEW pg, dpg' = Put(dpg, S, pg), UNCHANGED <<dhdr, dfpm>>,
         \A t \in Sn \ {snSt} : st'[t] = st[t]
  PROVE  [Store!StoreNext]_(Store!storeVars) /\ LoadedTable' = LoadedTable
<1>1. /\ LoadedTable' = LoadedTable
      /\ Committed' = Committed
      /\ \A t \in UserSn \ {snSt} : Current'[t] = Current[t]
  BY FreshStep, UserNumbers
<1>2. Current' = Current
  BY <1>1, MappingNow, MappingNext, UserNumbers
<1>3. QED
  BY <1>1, <1>2, StutterOfStore

\* Steps that touch neither the streams nor what the header leads to.
LEMMA OtherStep ==
  ASSUME TypeOK, DiskInv, UNCHANGED <<dhdr, dpg, st>>
  PROVE  [Store!StoreNext]_(Store!storeVars)
<1>1. LoadedTable' = LoadedTable
  BY DEF LoadedTable, DiskTable, DiskStPns
<1>2. Current' = Current /\ Committed' = Committed
  BY <1>1, MappingNow, MappingNext
<1>3. QED
  BY <1>2, StutterOfStore

-----------------------------------------------------------------------------
(* The operations, one by one.                                             *)

LEMMA ReplaceRefines ==
  ASSUME IInv, NEW sn \in UserSn, NEW sz \in Sizes, NEW b \in Bytes,
         ReplaceStream(sn, sz[1], sz[2], b)
  PROVE  Store!StoreNext /\ LoadedTable' = LoadedTable
<1> DEFINE n == sz[1]
           f == fpm \cup FreeNow(Pages(st[sn]))
<1>1. Idle
  BY DEF ReplaceStream, Call
<1>2. TypeOK /\ DiskInv /\ MemOK /\ LinkOK /\ AwayOK
  BY <1>1, ReadyParts
<1>3. sn \in Sn /\ n \in Nat
  BY MsfAssumption, UserNumbers DEF Sizes
<1>4. PICK k \in 0..n, w \in 0..n :
         /\ NewPgsOutcome(n, k, w)
         /\ \E pns \in LeastPns(f, k) :
              /\ pnMac' \in MacFor(PnSet(pns, k))
              /\ dpg' = Put(dpg, PnSet(pns, w), DataPage(b))
              /\ st' = [st EXCEPT ![sn] = IF w = n THEN SI(n, sz[2], pns) ELSE siNil]
  BY Zenon DEF ReplaceStream
<1>5. PICK pns \in LeastPns(f, k) :
         /\ pnMac' \in MacFor(PnSet(pns, k))
         /\ dpg' = Put(dpg, PnSet(pns, w), DataPage(b))
         /\ st' = [st EXCEPT ![sn] = IF w = n THEN SI(n, sz[2], pns) ELSE siNil]
  BY Zenon, <1>4
<1>6. UNCHANGED <<dhdr, dfpm>>
  BY DEF ReplaceStream
<1>7. \A t \in Sn \ {sn} : st'[t] = st[t]
  BY <1>2, <1>5 DEF TypeOK, TableOK
<1>8. f \subseteq DataPn
  BY <1>2 DEF TypeOK, FreeNow
<1> HIDE DEF f, n
<1>9. PnSet(pns, w) \subseteq f
  <2>1. /\ pns \in [0 .. k - 1 -> f]
        /\ PnSet(pns, k) \subseteq f
        /\ PnSet(pns, w) \subseteq PnSet(pns, k)
    BY ZenonT(40), <1>2, <1>3, <1>4, <1>5, <1>8, NewPgsFacts
  <2>2. QED
    BY <2>1
<1>10. /\ LoadedTable' = LoadedTable
       /\ Committed' = Committed
       /\ \A t \in UserSn \ {sn} : Current'[t] = Current[t]
  BY <1>2, <1>3, <1>5, <1>6, <1>7, <1>9, FreshStep DEF f
<1>11. QED
  BY <1>10, UpdateStep

LEMMA TruncateRefines ==
  ASSUME IInv, NEW sn \in UserSn, NEW sz \in Sizes, TruncateStream(sn, sz[1], sz[2])
  PROVE  Store!StoreNext /\ LoadedTable' = LoadedTable
<1> DEFINE n == sz[1]
           last == sz[2]
           old == st[sn]
           tail == {old.pns[i] : i \in n .. old.n - 1}
           f == fpm \cup FreeNow(tail)
<1>1. Idle
  BY Zenon DEF TruncateStream, Call
<1>2. TypeOK /\ DiskInv /\ MemOK /\ LinkOK /\ AwayOK
  BY <1>1, ReadyParts
<1>3. sn \in Sn /\ n \in Nat /\ SIOK(old)
  BY <1>2, MsfAssumption, UserNumbers, OwnPages DEF Sizes
<1>4. UNCHANGED <<dhdr, dfpm>>
  BY DEF TruncateStream
<1>5. tail \subseteq Pages(old)
  BY <1>3 DEF Pages, PnSet, SIOK
<1>6. f \subseteq fpm \cup FreeNow(Pages(old)) /\ f \subseteq DataPn
  BY <1>2, <1>5 DEF FreeNow, TypeOK
<1>7. \A t \in Sn \ {sn} : st'[t] = st[t]
  <2>1. \E si : st' = [st EXCEPT ![sn] = si]
    BY Zenon DEF TruncateStream
  <2>2. QED
    BY <1>2, <2>1 DEF TypeOK, TableOK
<1>8. \E S \in SUBSET (fpm \cup FreeNow(Pages(st[sn]))): \E pg : dpg' = dpg \/ dpg' = Put(dpg, S, pg)
  <2>1. CASE ~MovesLastPage(n, last)
    BY <2>1 DEF TruncateStream
  <2>2. CASE MovesLastPage(n, last)
    <3>1. PICK k \in 0..1, w \in 0..1 :
            /\ NewPgsOutcome(1, k, w)
            /\ \E pns \in LeastPns(f, k) :
                 /\ pnMac' \in MacFor(PnSet(pns, k))
                 /\ dpg' = Put(dpg, PnSet(pns, w), dpg[old.pns[n - 1]])
      BY <2>2, Zenon DEF TruncateStream
    <3>2. PICK pns \in LeastPns(f, k) :
            /\ pnMac' \in MacFor(PnSet(pns, k))
            /\ dpg' = Put(dpg, PnSet(pns, w), dpg[old.pns[n - 1]])
      BY <3>1
    <3> HIDE DEF f
    <3>3. PnSet(pns, w) \subseteq f
      BY <1>2, <1>6, <3>1, <3>2, NewPgFacts
    <3>4. QED
      BY <1>6, <3>2, <3>3
  <2>3. QED
    BY <2>1, <2>2
<1>9. /\ LoadedTable' = LoadedTable
      /\ Committed' = Committed
      /\ \A t \in UserSn \ {sn} : Current'[t] = Current[t]
  BY <1>2, <1>3, <1>4, <1>7, <1>8, FreshStep
<1>10. QED
  BY <1>9, UpdateStep

LEMMA DeleteRefines ==
  ASSUME IInv, NEW sn \in UserSn, DeleteStream(sn)
  PROVE  Store!StoreNext /\ LoadedTable' = LoadedTable
<1>1. TypeOK /\ DiskInv /\ MemOK /\ LinkOK /\ AwayOK
  BY ReadyParts DEF DeleteStream, Call
<1>2. UNCHANGED <<dhdr, dfpm, dpg>> /\ \A t \in Sn \ {sn} : st'[t] = st[t]
  BY <1>1 DEF DeleteStream, TypeOK, TableOK
<1>3. {} \subseteq fpm \cup FreeNow(Pages(st[sn]))
  OBVIOUS
<1>4. /\ LoadedTable' = LoadedTable
      /\ Committed' = Committed
      /\ \A t \in UserSn \ {sn} : Current'[t] = Current[t]
  BY <1>1, <1>2, <1>3, FreshStep, UserNumbers
<1>5. QED
  BY <1>4, UpdateStep

LEMMA GetFreeSnRefines ==
  ASSUME IInv, GetFreeSn
  PROVE  Store!StoreNext /\ LoadedTable' = LoadedTable
<1>1. TypeOK /\ DiskInv /\ MemOK /\ LinkOK /\ AwayOK
  BY ReadyParts DEF GetFreeSn, Call
<1>2. UNCHANGED <<dhdr, dfpm, dpg>>
  BY DEF GetFreeSn
<1>3. PICK sn \in UserSn : st' = [st EXCEPT ![sn] = SI(0, 0, NoPns)]
  <2>1. Holes \subseteq UserSn
    BY DEF Holes
  <2>2. stMac < SnMax => stMac \in UserSn
    BY <1>1, MsfAssumption DEF TypeOK, UserSn
  <2>3. QED
    BY <2>1, <2>2 DEF GetFreeSn
<1>4. \A t \in Sn \ {sn} : st'[t] = st[t]
  BY <1>1, <1>3 DEF TypeOK, TableOK
<1>5. {} \subseteq fpm \cup FreeNow(Pages(st[sn]))
  OBVIOUS
<1>6. /\ LoadedTable' = LoadedTable
      /\ Committed' = Committed
      /\ \A t \in UserSn \ {sn} : Current'[t] = Current[t]
  BY <1>1, <1>2, <1>4, <1>5, FreshStep, UserNumbers
<1>7. QED
  BY <1>6, UpdateStep

\* The write in place goes to cells behind what any committed stream has on
\* that page (CommittedExtentKept), and to a page no other stream has.
LEMMA AppendRefines ==
  ASSUME IInv, NEW sn \in UserSn, NEW sz \in Sizes, NEW b \in Bytes,
         AppendStream(sn, sz[1], sz[2], b)
  PROVE  Store!StoreNext /\ LoadedTable' = LoadedTable
<1> DEFINE n == sz[1]
           old == st[sn]
           m == n - old.n
           lastPn == old.pns[old.n - 1]
           inLast == old.n > 0 /\ old.last < CbPg
           hi == IF n = old.n THEN sz[2] - 1 ELSE CbPg - 1
           d1 == IF inLast
                 THEN [dpg EXCEPT ![lastPn] = Patch(@, old.last, hi, b)]
                 ELSE dpg
           more(pns) == [i \in 0 .. n - 1 |->
                           IF i < old.n THEN old.pns[i] ELSE pns[i - old.n]]
<1>1. Idle
  BY Zenon DEF AppendStream, Call
<1>2. TypeOK /\ DiskInv /\ MemOK /\ LinkOK /\ AwayOK
  BY <1>1, ReadyParts
<1>3. sn \in Sn /\ n \in Nat /\ SIOK(old) /\ old.n \in Nat
  <2>1. sn \in Sn /\ n \in Nat
    BY MsfAssumption, UserNumbers DEF Sizes
  <2>2. SIOK(old)
    BY <1>2, <2>1, OwnPages
  <2>3. QED
    BY <2>1, <2>2 DEF SIOK
<1>4. m \in Nat /\ UNCHANGED <<dhdr, dfpm>>
  BY <1>3 DEF AppendStream
<1>5. PICK k \in 0..m, w \in 0..m :
         /\ NewPgsOutcome(m, k, w)
         /\ \E pns \in LeastPns(fpm, k) :
              /\ pnMac' \in MacFor(PnSet(pns, k))
              /\ dpg' = Put(d1, PnSet(pns, w), DataPage(b))
              /\ st' = [st EXCEPT ![sn] = IF w = m THEN SI(n, sz[2], more(pns)) ELSE old]
  BY Zenon DEF AppendStream
<1>6. PICK pns \in LeastPns(fpm, k) :
         /\ pnMac' \in MacFor(PnSet(pns, k))
         /\ dpg' = Put(d1, PnSet(pns, w), DataPage(b))
         /\ st' = [st EXCEPT ![sn] = IF w = m THEN SI(n, sz[2], more(pns)) ELSE old]
  BY Zenon, <1>5
<1>7. \A t \in Sn \ {sn} : st'[t] = st[t]
  BY <1>2, <1>6 DEF TypeOK, TableOK
<1> HIDE DEF m, more
<1>8. PnSet(pns, w) \subseteq fpm
  <2>1. fpm \subseteq DataPn
    BY <1>2 DEF TypeOK
  <2>2. /\ pns \in [0 .. k - 1 -> fpm]
        /\ PnSet(pns, k) \subseteq fpm
        /\ PnSet(pns, w) \subseteq PnSet(pns, k)
    BY ZenonT(40), <1>2, <1>4, <1>5, <1>6, <2>1, NewPgsFacts
  <2>3. QED
    BY <2>2
<1>9. inLast => lastPn \in Pages(old) /\ old.n - 1 \in 0 .. old.n - 1
  BY <1>3 DEF Pages, PnSet
\* A page not allocated now keeps its bytes, but for the last page of sn.
<1>10. ASSUME NEW p \in DataPn, p \notin fpm
       PROVE  /\ ~inLast \/ p # lastPn => dpg'[p] = dpg[p]
              /\ inLast /\ p = lastPn => dpg'[p] = Patch(dpg[p], old.last, hi, b)
  <2>1. dpg'[p] = d1[p]
    BY <1>6, <1>8, <1>10 DEF Put
  <2>2. DOMAIN dpg = DataPn
    BY <1>2 DEF TypeOK
  <2>3. QED
    BY <2>1, <2>2, <1>10
<1> HIDE DEF n, hi, d1
<1>11. \A t \in UserSn \ {sn} : st'[t] = st[t] /\ \A p \in Pages(st[t]) : dpg'[p] = dpg[p]
  <2>1. ASSUME NEW t \in UserSn \ {sn}, NEW p \in Pages(st[t])
        PROVE  dpg'[p] = dpg[p]
    <3>1. t \in Sn /\ p \in DataPn /\ p \notin fpm
      BY <1>2, UserNumbers, OwnPages
    <3>2. p \notin Pages(old)
      BY <1>2, <1>3, <3>1, <2>1 DEF MemOK, UsedOnce, Pages, PnSet
    <3>3. QED
      BY <1>9, <1>10, <3>1, <3>2
  <2>2. QED
    BY <1>7, <2>1, UserNumbers
<1>12. \A t \in UserSn \ {sn} : Current'[t] = Current[t]
  <2>1. TableOK(st)
    BY <1>2 DEF TypeOK
  <2>2. QED
    BY <1>11, <2>1, OthersKeptStep
<1>13. LoadedTable' = LoadedTable
  <2>1. DOMAIN dpg' = DOMAIN dpg
    BY <1>2, <1>6 DEF TypeOK, Put
  <2>2. ASSUME NEW p \in Pages(LoadedTable[snSt]) \cup {dhdr.list}
        PROVE  dpg'[p] = dpg[p]
    <3>1. p \in DataPn
      BY <1>2, UserNumbers, LoadedTableOK, PagesInData DEF TableOK, TypeOK
    <3>2. p \notin fpm
      BY <1>2, FreshNotOnDisk, TableNotInUse
    <3>3. p \notin Pages(old)
      BY <1>2, OwnNotTable
    <3>4. QED
      BY <1>9, <1>10, <3>1, <3>2, <3>3
  <2>3. QED
    BY <1>2, <1>4, <2>1, <2>2, DiskKept
<1>14. \A t \in UserSn : ContentOn(dpg', LoadedTable[t]) = ContentOn(dpg, LoadedTable[t])
  <2>1. ASSUME NEW t \in UserSn
        PROVE  ContentOn(dpg', LoadedTable[t]) = ContentOn(dpg, LoadedTable[t])
    <3> DEFINE lt == LoadedTable[t]
    <3>1. t \in Sn /\ SIOK(lt)
      BY <1>2, UserNumbers, LoadedTableOK DEF TableOK
    <3>2. ASSUME NEW c \in CellsOf(lt)
          PROVE  dpg'[lt.pns[c[1]]].data[c[2]] = dpg[lt.pns[c[1]]].data[c[2]]
      <4> DEFINE p == lt.pns[c[1]]
      <4>1. /\ c[1] \in 0 .. lt.n - 1 /\ c[2] \in Cells
            /\ c[2] < Extent(lt, c[1]) /\ p \in Pages(lt)
        BY <3>1, <3>2, CellFacts
      <4>2. p \in DataPn
        BY <3>1, <4>1, PagesInData
      <4>3. p \notin fpm
        BY <1>2, <3>1, <4>1, FreshNotOnDisk, UsedByMember DEF DiskUsed
      <4>4. CASE ~inLast \/ p # lastPn
        BY <1>10, <4>2, <4>3, <4>4
      <4>5. CASE inLast /\ p = lastPn
        <5>1. t = sn /\ Extent(lt, c[1]) <= Extent(old, old.n - 1)
          BY <1>2, <1>3, <1>9, <3>1, <4>1, <4>5 DEF LinkOK, Linked
        <5>2. Extent(old, old.n - 1) = old.last
          BY DEF Extent
        <5>3. old.last \in Int /\ c[2] \in Int /\ Extent(lt, c[1]) \in Int
          <6>1. old.last \in Int
            BY <1>3, MsfAssumption DEF SIOK
          <6>2. c[2] \in Int
            BY <4>1, MsfAssumption DEF Cells
          <6>3. Extent(lt, c[1]) \in Int
            BY <3>1, ExtentInt
          <6>4. QED
            BY <6>1, <6>2, <6>3
        <5>4. c[2] < old.last
          BY <4>1, <5>1, <5>2, <5>3
        <5>5. c[2] \notin old.last .. hi
          BY <5>3, <5>4
        <5>6. Patch(dpg[p], old.last, hi, b).data[c[2]] = dpg[p].data[c[2]]
          BY <4>1, <5>5 DEF Patch
        <5>7. QED
          BY <1>10, <4>2, <4>3, <4>5, <5>6
      <4>6. QED
        BY <4>4, <4>5
    <3>3. QED
      BY <3>2, SameCells
  <2>2. QED
    BY <2>1
<1>15. Committed' = Committed
  BY <1>13, <1>14, MappingNow, MappingNext
<1>16. QED
  BY <1>13, <1>12, <1>15, UpdateStep

\* An erase reaches no other stream, and leaves of the committed bytes of sn
\* what they were or a zero.
LEMMA EraseRefines ==
  ASSUME IInv, NEW sn \in UserSn, NonTransactionalEraseStream(sn)
  PROVE  Store!StoreNext /\ LoadedTable' = LoadedTable
<1> DEFINE old == st[sn]
<1>1. TypeOK /\ DiskInv /\ MemOK /\ LinkOK /\ AwayOK
  BY ReadyParts DEF NonTransactionalEraseStream, Call
<1>2. sn \in Sn /\ SIOK(old)
  BY <1>1, UserNumbers, OwnPages
<1>3. UNCHANGED <<dhdr, dfpm>>
  BY DEF NonTransactionalEraseStream
<1>4. PICK k \in 0 .. old.n :
        /\ dpg' = Put(dpg, PnSet(old.pns, k), DataPage(Zero))
        /\ st' = IF k = old.n THEN [st EXCEPT ![sn] = siNil] ELSE st
  BY DEF NonTransactionalEraseStream
<1> DEFINE S == PnSet(old.pns, k)
<1>5. S \subseteq Pages(old)
  BY <1>2 DEF PnSet, Pages, SIOK
<1>6. \A t \in Sn \ {sn} : st'[t] = st[t]
  BY <1>1, <1>4 DEF TypeOK, TableOK
<1> HIDE DEF S
<1>7. \A p \in DataPn : dpg'[p] = IF p \in S THEN DataPage(Zero) ELSE dpg[p]
  BY <1>4 DEF Put, S
<1>8. \A t \in UserSn \ {sn} : Current'[t] = Current[t]
  <2>1. ASSUME NEW t \in UserSn \ {sn}, NEW p \in Pages(st[t])
        PROVE  dpg'[p] = dpg[p]
    <3>1. t \in Sn /\ p \in DataPn
      BY <1>1, UserNumbers, OwnPages
    <3>2. p \notin Pages(old)
      BY <1>1, <1>2, <3>1, <2>1 DEF MemOK, UsedOnce, Pages, PnSet
    <3>3. QED
      BY <1>5, <1>7, <3>1, <3>2
  <2>2. TableOK(st)
    BY <1>1 DEF TypeOK
  <2>3. QED
    BY <1>6, <2>1, <2>2, OthersKeptStep, UserNumbers
<1>9. LoadedTable' = LoadedTable
  <2>1. \A p \in S : \E s \in UserSn : p \in Pages(st[s])
    BY <1>5
  <2>2. /\ DOMAIN dpg' = DOMAIN dpg
        /\ \A p \in Pages(LoadedTable[snSt]) \cup {dhdr.list} : dpg'[p] = dpg[p]
    BY <1>1, <1>4, <2>1, PutSparesTable DEF S
  <2>3. QED
    BY <1>1, <1>3, <2>2, DiskKept
<1>10. \A t \in UserSn : SIOK(LoadedTable[t])
  BY <1>1, LoadedTableOK, UserNumbers DEF TableOK
<1>11. \A t \in UserSn \ {sn} : ContentOn(dpg', LoadedTable[t]) = ContentOn(dpg, LoadedTable[t])
  <2>1. ASSUME NEW t \in UserSn \ {sn}, NEW p \in Pages(LoadedTable[t])
        PROVE  dpg'[p] = dpg[p]
    <3>1. p \in DataPn
      BY <1>10, PagesInData
    <3>2. p \notin Pages(old)
      BY <1>1, <1>2, UserNumbers DEF LinkOK, Linked, Pages, PnSet
    <3>3. QED
      BY <1>5, <1>7, <3>1, <3>2
  <2>2. QED
    BY <1>10, <2>1, SamePages
<1>12. \A t \in UserSn \ {sn} : Committed'[t] = Committed[t]
  BY <1>9, <1>11, MappingNow, MappingNext
<1> DEFINE lt == LoadedTable[sn]
<1>13. \A c \in CellsOf(lt) :
         dpg'[lt.pns[c[1]]].data[c[2]] \in {dpg[lt.pns[c[1]]].data[c[2]], Zero}
  <2>1. ASSUME NEW c \in CellsOf(lt)
        PROVE  dpg'[lt.pns[c[1]]].data[c[2]] \in {dpg[lt.pns[c[1]]].data[c[2]], Zero}
    <3>1. c[2] \in Cells /\ lt.pns[c[1]] \in DataPn
      BY <1>10, CellFacts, PagesInData
    <3>2. DataPage(Zero).data[c[2]] = Zero
      BY <3>1 DEF DataPage
    <3>3. QED
      BY <1>7, <3>1, <3>2
  <2>2. QED
    BY <2>1
<1>14. /\ Committed[sn] = ContentOn(dpg, lt)
       /\ Committed'[sn] = ContentOn(dpg', lt)
  BY <1>9, MappingNow, MappingNext
<1>15. /\ Committed'[sn].valid = Committed[sn].valid
       /\ DOMAIN Committed'[sn].cells = DOMAIN Committed[sn].cells
       /\ \A c \in DOMAIN Committed[sn].cells :
            Committed'[sn].cells[c] \in {Committed[sn].cells[c], Zero}
  <2> DEFINE kept(d) == [c \in CellsOf(lt) |-> d[lt.pns[c[1]]].data[c[2]]]
  <2>1. /\ Committed[sn] = [valid |-> lt.valid, cells |-> kept(dpg)]
        /\ Committed'[sn] = [valid |-> lt.valid, cells |-> kept(dpg')]
    BY <1>14, Zenon DEF ContentOn
  <2>2. DOMAIN kept(dpg) = CellsOf(lt) /\ DOMAIN kept(dpg') = CellsOf(lt)
    OBVIOUS
  <2>3. \A c \in CellsOf(lt) : kept(dpg')[c] \in {kept(dpg)[c], Zero}
    BY <1>13
  <2> HIDE DEF kept
  <2>4. /\ Committed[sn].valid = lt.valid /\ Committed[sn].cells = kept(dpg)
        /\ Committed'[sn].valid = lt.valid /\ Committed'[sn].cells = kept(dpg')
    BY <2>1
  <2>5. QED
    BY <2>2, <2>3, <2>4
<1>16. Store!Erase(sn)
  BY <1>8, <1>12, <1>15 DEF Store!Erase, Store!OthersKept
<1>17. QED
  BY <1>9, <1>16 DEF Store!StoreNext

LEMMA WritePageRefines ==
  ASSUME IInv, WriteStreamPage
  PROVE  Store!StoreNext /\ LoadedTable' = LoadedTable
<1> DEFINE sn == wr.sn
           old == st[sn]
           pg == Patch(dpg[old.pns[wr.i]], wr.lo, IF wr.i = wr.j THEN wr.hi ELSE CbPg - 1, wr.b)
<1>1. /\ TypeOK /\ DiskInv /\ MemOK /\ LinkOK /\ AwayOK
      /\ sn \in UserSn /\ sn \in Sn
  BY WritingParts DEF WriteStreamPage
<1>2. UNCHANGED <<dhdr, dfpm>>
  BY DEF WriteStreamPage
<1>3. PICK pns \in LeastPns(fpm, 1) :
        /\ dpg' = Put(dpg, PnSet(pns, 1), pg)
        /\ st' = [st EXCEPT ![sn].pns[wr.i] = pns[0]]
  BY DEF WriteStreamPage
<1>4. \A t \in Sn \ {sn} : st'[t] = st[t]
  BY <1>1, <1>3 DEF TypeOK, TableOK
<1>5. PnSet(pns, 1) \subseteq fpm
  <2>1. fpm \subseteq DataPn /\ 1 \in Nat
    BY <1>1 DEF TypeOK
  <2>2. QED
    BY <2>1, LeastPnsFacts
<1> HIDE DEF pg
<1>6. /\ LoadedTable' = LoadedTable
      /\ Committed' = Committed
      /\ \A t \in UserSn \ {sn} : Current'[t] = Current[t]
  BY <1>1, <1>2, <1>3, <1>4, <1>5, FreshStep
<1>7. QED
  BY <1>1, <1>6, UpdateStep

-----------------------------------------------------------------------------
(* Commit: only the write of the header is a step of the store.            *)

LEMMA CommitTableRefines ==
  ASSUME IInv, CommitTable
  PROVE  [Store!StoreNext]_(Store!storeVars) /\ LoadedTable' = LoadedTable
<1> DEFINE f == fpm \cup FreeNow(Pages(st[snSt]))
<1>1. TypeOK /\ DiskInv /\ MemOK /\ LinkOK /\ AwayOK
  BY ReadyParts DEF CommitTable, Call
<1>2. PICK k \in 0..CpnSt, w \in 0..CpnSt :
         /\ NewPgsOutcome(CpnSt, k, w)
         /\ \E pns \in LeastPns(f, k) :
              /\ pnMac' \in MacFor(PnSet(pns, k))
              /\ dpg' = Put(dpg, PnSet(pns, w), TablePage(st))
              /\ st' = [st EXCEPT ![snSt] =
                          IF w = CpnSt THEN SI(CpnSt, CbPg, pns) ELSE siNil]
  BY Zenon DEF CommitTable
<1>3. PICK pns \in LeastPns(f, k) :
         /\ pnMac' \in MacFor(PnSet(pns, k))
         /\ dpg' = Put(dpg, PnSet(pns, w), TablePage(st))
         /\ st' = [st EXCEPT ![snSt] =
                     IF w = CpnSt THEN SI(CpnSt, CbPg, pns) ELSE siNil]
  BY Zenon, <1>2
<1>4. UNCHANGED <<dhdr, dfpm>>
  BY DEF CommitTable
<1>5. \A t \in Sn \ {snSt} : st'[t] = st[t]
  BY <1>1, <1>3 DEF TypeOK, TableOK
<1>6. f \subseteq DataPn /\ CpnSt \in Nat
  BY <1>1, MsfAssumption DEF TypeOK, FreeNow
<1> HIDE DEF f
<1>7. PnSet(pns, w) \subseteq f
  <2>1. /\ pns \in [0 .. k - 1 -> f]
        /\ PnSet(pns, k) \subseteq f
        /\ PnSet(pns, w) \subseteq PnSet(pns, k)
    BY ZenonT(40), <1>1, <1>2, <1>3, <1>6, NewPgsFacts
  <2>2. QED
    BY <2>1
<1>8. QED
  BY <1>1, <1>3, <1>4, <1>5, <1>7, TableWrite DEF f

LEMMA CommitListRefines ==
  ASSUME IInv, CommitList
  PROVE  [Store!StoreNext]_(Store!storeVars) /\ LoadedTable' = LoadedTable
<1> DEFINE pg == ListPage(st[snSt].pns)
<1>1. TypeOK /\ DiskInv /\ MemOK /\ LinkOK /\ AwayOK
  BY DEF CommitList, IInv, MemInv, InMemory, AwayInv, Building
<1>2. UNCHANGED <<dhdr, dfpm, st>>
  BY DEF CommitList
<1>3. PICK k \in 0..1, w \in 0..1 :
        /\ NewPgsOutcome(1, k, w)
        /\ \E pns \in LeastPns(fpm, k) :
             /\ pnMac' \in MacFor(PnSet(pns, k))
             /\ dpg' = Put(dpg, PnSet(pns, w), pg)
  BY DEF CommitList
<1>4. PICK pns \in LeastPns(fpm, k) :
        /\ pnMac' \in MacFor(PnSet(pns, k))
        /\ dpg' = Put(dpg, PnSet(pns, w), pg)
  BY <1>3
<1> HIDE DEF pg
<1>5. PnSet(pns, w) \subseteq fpm
  <2>1. fpm \subseteq DataPn
    BY <1>1 DEF TypeOK
  <2>2. PnSet(pns, k) \subseteq fpm /\ PnSet(pns, w) \subseteq PnSet(pns, k)
    BY <1>1, <1>3, <1>4, <2>1, NewPgFacts
  <2>3. QED
    BY <2>2
<1>6. QED
  BY <1>1, <1>2, <1>4, <1>5, TableWrite

LEMMA CommitHdrRefines ==
  ASSUME IInv, CommitHdr
  PROVE  [Store!StoreNext]_(Store!storeVars)
<1>1. /\ pc = "hdr" /\ TypeOK /\ DiskInv /\ TableInv
  BY DEF CommitHdr, IInv
<1>2. UNCHANGED <<dpg, st>>
  BY DEF CommitHdr
<1>3. \/ dhdr' = dhdr
      \/ dhdr' = [slot |-> slot, mac |-> pnMac, list |-> pnList]
  BY DEF CommitHdr
<1>4. CASE dhdr' = dhdr
  BY <1>1, <1>2, <1>4, OtherStep
<1>5. CASE dhdr' = [slot |-> slot, mac |-> pnMac, list |-> pnList]
  <2> DEFINE stPns == st[snSt].pns
  <2>1. /\ st[snSt] = SI(CpnSt, CbPg, stPns)
        /\ st = [WrittenTable EXCEPT ![snSt] = st[snSt]]
        /\ dpg[pnList] = ListPage(stPns)
    BY <1>1 DEF TableInv
  <2>2. DiskStPns' = stPns
    BY <1>2, <1>5, <2>1 DEF DiskStPns, ListPage
  <2>3. DiskTable' = WrittenTable
    BY <1>2, <2>2 DEF DiskTable, WrittenTable
  <2>4. LoadedTable' = st
    BY <2>1, <2>2, <2>3 DEF LoadedTable
  <2>5. Committed' = Current /\ Current' = Current
    BY <1>2, <2>4, MappingNow, MappingNext
  <2>6. QED
    BY <2>5 DEF Store!StoreNext, Store!Commit
<1>6. QED
  BY <1>3, <1>4, <1>5

\* After a crash, or a close without Commit, the streams are those committed.
LEMMA CrashRefines ==
  ASSUME IInv, CrashAndLoad
  PROVE  Store!StoreNext
<1>1. st' = LoadedTable /\ UNCHANGED <<dhdr, dpg>>
  BY DEF CrashAndLoad, disk
<1>2. LoadedTable' = LoadedTable
  BY <1>1 DEF LoadedTable, DiskTable, DiskStPns
<1>3. Current' = Committed /\ Committed' = Committed
  BY <1>1, <1>2, MappingNow, MappingNext
<1>4. QED
  BY <1>3 DEF Store!StoreNext, Store!Abort

LEMMA InitRefines ==
  ASSUME Init
  PROVE  Store!StoreInit
<1>1. st = [NewTable EXCEPT ![snSt] = SI(CpnSt, CbPg, NewStPns)]
  BY DEF Init
<1>2. \A t \in UserSn : st[t] = siNil
  BY <1>1, UserNumbers DEF NewTable
<1>3. \A t \in UserSn : LoadedTable[t] = siNil
  <2>1. /\ NewListPn \in DataPn /\ 0 \in 0 .. CpnSt - 1
        /\ NewStPns[0] \in DataPn /\ NewStPns[0] < NewListPn
    BY MsfAssumption DEF NewListPn, NewStPns, DataPn, pnDataMin
  <2>2. DiskStPns = NewStPns
    BY <2>1 DEF Init, DiskStPns, ListPage, NewListPn
  <2>3. DiskTable = NewTable
    BY <2>1, <2>2 DEF Init, DiskTable, TablePage
  <2>4. QED
    BY <2>3, UserNumbers DEF LoadedTable, NewTable
<1>4. ContentOn(dpg, siNil) = Store!NoContent
  <2>1. CellsOf(siNil) = {}
    BY DEF CellsOf, siNil
  <2>2. QED
    BY <2>1 DEF ContentOn, Store!NoContent, siNil
<1>5. QED
  BY <1>2, <1>3, <1>4, MappingNow DEF Store!StoreInit

LEMMA NextRefines ==
  ASSUME IInv, [Next]_vars
  PROVE  [Store!StoreNext]_(Store!storeVars)
<1>1. TypeOK /\ DiskInv
  BY DEF IInv
<1>2. CASE StreamOp
  <2>1. ASSUME NEW sn \in UserSn, NEW sz \in Sizes, NEW b \in Bytes,
               \/ ReplaceStream(sn, sz[1], sz[2], b)
               \/ AppendStream(sn, sz[1], sz[2], b)
        PROVE  Store!StoreNext
    BY <2>1, ReplaceRefines, AppendRefines
  <2>2. ASSUME NEW sn \in UserSn, NEW sz \in Sizes, TruncateStream(sn, sz[1], sz[2])
        PROVE  Store!StoreNext
    BY <2>2, TruncateRefines
  <2>3. ASSUME NEW sn \in UserSn, DeleteStream(sn) \/ NonTransactionalEraseStream(sn)
        PROVE  Store!StoreNext
    BY <2>3, DeleteRefines, EraseRefines
  <2>4. ASSUME NEW sn \in UserSn, NEW i, NEW j, NEW lo, NEW hi, NEW b,
               WriteStream(sn, i, j, lo, hi, b)
        PROVE  [Store!StoreNext]_(Store!storeVars)
    <3>1. UNCHANGED <<dhdr, dpg, st>>
      BY <2>4 DEF WriteStream, disk
    <3>2. QED
      BY <1>1, <3>1, OtherStep
  <2>5. CASE GetFreeSn
    BY <2>5, GetFreeSnRefines
  <2>6. CASE WriteStreamPage
    BY <2>6, WritePageRefines
  <2>7. CASE WriteStreamFails
    <3>1. UNCHANGED <<dhdr, dpg, st>>
      BY <2>7 DEF WriteStreamFails, disk
    <3>2. QED
      BY <1>1, <3>1, OtherStep
  <2>8. QED
    BY <1>2, <2>1, <2>2, <2>3, <2>4, <2>5, <2>6, <2>7 DEF StreamOp
<1>3. CASE Commit
  <2>1. CASE CommitFpm
    <3>1. UNCHANGED <<dhdr, dpg, st>>
      BY <2>1 DEF CommitFpm
    <3>2. QED
      BY <1>1, <3>1, OtherStep
  <2>2. CASE CommitFlush
    <3>1. UNCHANGED <<dhdr, dpg, st>>
      BY <2>2 DEF CommitFlush, disk
    <3>2. QED
      BY <1>1, <3>1, OtherStep
  <2>3. QED
    BY <1>3, <2>1, <2>2, CommitTableRefines, CommitListRefines, CommitHdrRefines DEF Commit
<1>4. CASE CrashAndLoad
  BY <1>4, CrashRefines
<1>5. CASE UNCHANGED vars
  <2>1. UNCHANGED <<dhdr, dpg, st>>
    BY <1>5 DEF vars
  <2>2. QED
    BY <1>1, <2>1, OtherStep
<1>6. QED
  BY <1>2, <1>3, <1>4, <1>5 DEF Next

\* Every operation, whole or failing half way, changes the stream it names and
\* nothing durable; the header write of Commit makes all changes durable at
\* once; a crash at any point loses exactly those made since
\* (msf.cpp:23-24, 1140-1153, 2188-2194).
THEOREM ImplementsStore == Spec => Transacted
<1>1. Init => Store!StoreInit
  BY InitRefines
<1>2. IInv /\ [Next]_vars => [Store!StoreNext]_(Store!storeVars)
  BY NextRefines
<1>3. QED
  BY <1>1, <1>2, Invariant, PTL DEF Spec, Transacted, Store!StoreSpec

-----------------------------------------------------------------------------
(* No page is lost as long as nothing fails (MSF_HB::checkInvariants).      *)

\* No write has failed yet, and the free pages are enough for one operation.
NothingFails == nfaults = 0 /\ Cardinality(fpm) >= MaxCpn + CpnSt

Accounted == DataPn \subseteq fpm \cup freed \cup Used
DiskAccounted == DataPn \subseteq DiskFpm \cup DiskUsed
\* Once the page map of this commit is made, what was freed is part of it.
MapMade == pc \in {"hdr", "flush"} => freed \subseteq fpm
\* Streams in use have numbers below the end of the table.
NumbersInUse == \A t \in Sn : st[t].valid => t < stMac
AllAccounted == InMemory /\ Accounted /\ DiskAccounted /\ MapMade /\ NumbersInUse

LEMMA NotCharged ==
  ASSUME NEW x \in BOOLEAN, nfaults = 0, nfaults' = 0, Charge(x)
  PROVE  ~x
BY DEF Charge

LEMMA DataPnFinite ==
  ASSUME NEW S \in SUBSET DataPn
  PROVE  IsFiniteSet(S)
<1>1. IsFiniteSet(DataPn)
  BY MsfAssumption, FS_Interval DEF DataPn, pnDataMin
<1>2. QED
  BY <1>1, FS_Subset

\* With free pages for all of it, an attempt to write n new pages does.
LEMMA WrittenWhole ==
  ASSUME NothingFails, nfaults' = 0, fpm \subseteq DataPn,
         NEW f \in SUBSET DataPn, fpm \subseteq f, NEW n \in Nat, n <= MaxCpn + CpnSt,
         NEW k \in 0..n, NEW w \in 0..n, NewPgsOutcome(n, k, w),
         Charge(NewPgsFault(f, n, k, w))
  PROVE  k = n /\ w = n
<1>1. IsFiniteSet(f) /\ IsFiniteSet(fpm)
  BY DataPnFinite
<1>2. Cardinality(fpm) <= Cardinality(f) /\ Cardinality(f) \in Nat /\ Cardinality(fpm) \in Nat
  BY <1>1, FS_Subset, FS_CardinalityType
<1>3. MaxCpn + CpnSt <= Cardinality(f)
  BY <1>2, MsfAssumption DEF NothingFails
<1>4. ~NewPgsFault(f, n, k, w)
  BY NotCharged DEF NothingFails, NewPgsFault
<1>5. QED
  BY <1>2, <1>3, <1>4, MsfAssumption DEF NewPgsFault, NewPgsOutcome

LEMMA DiskAccountedKept ==
  ASSUME DiskAccounted, LoadedTable' = LoadedTable, UNCHANGED <<dhdr, dfpm>>
  PROVE  DiskAccounted'
BY DEF DiskAccounted, DiskFpm, DiskUsed

\* A new entry for stream sn takes or frees what it was made of.
LEMMA EntryAccounted ==
  ASSUME TableOK(st), Accounted, NEW sn \in Sn, NEW si, st' = [st EXCEPT ![sn] = si],
         pnList' = pnList,
         fpm \cup freed \cup Pages(st[sn]) \subseteq fpm' \cup freed' \cup Pages(si)
  PROVE  Accounted'
<1>1. /\ st'[sn] = si
      /\ \A s \in Sn \ {sn} : st'[s] = st[s]
  BY DEF TableOK
<1>2. \A p : p \in Used' <=> p = pnList \/ \E s \in Sn : p \in Pages(st'[s])
  BY UsedByMember DEF Used
<1>3. \A p : p \in Used <=> p = pnList \/ \E s \in Sn : p \in Pages(st[s])
  BY UsedByMember DEF Used
<1>4. ASSUME NEW p \in DataPn
      PROVE  p \in fpm' \cup freed' \cup Used'
  <2>1. CASE p \in fpm \cup freed \cup Pages(st[sn])
    BY <2>1, <1>1, <1>2
  <2>2. CASE p = pnList
    BY <2>2, <1>2
  <2>3. CASE \E s \in Sn \ {sn} : p \in Pages(st[s])
    BY <2>3, <1>1, <1>2
  <2>4. QED
    BY <1>3, <2>1, <2>2, <2>3 DEF Accounted
<1>5. QED
  BY <1>4 DEF Accounted

LEMMA SizesFit ==
  ASSUME NEW sz \in Sizes
  PROVE  sz[1] \in Nat /\ sz[1] <= MaxCpn + CpnSt
BY MsfAssumption DEF Sizes

\* A page is free now or after the next commit.
LEMMA FreeSplit ==
  ASSUME NEW S
  PROVE  FreeNow(S) \cup FreeLater(S) = S
BY DEF FreeNow, FreeLater

\* The same for an operation between calls, which moves no page of the disk's.
LEMMA OperationAccounted ==
  ASSUME IInv, Idle, AllAccounted, LoadedTable' = LoadedTable,
         UNCHANGED <<dhdr, dfpm, pc, stMac, pnList>>,
         NEW sn \in Sn, NEW si, st' = [st EXCEPT ![sn] = si],
         si.valid => sn < stMac,
         fpm \cup freed \cup Pages(st[sn]) \subseteq fpm' \cup freed' \cup Pages(si)
  PROVE  AllAccounted'
<1>1. TypeOK
  BY DEF IInv
<1>2. Accounted'
  BY <1>1, EntryAccounted DEF AllAccounted, TypeOK
<1>3. DiskAccounted'
  BY DiskAccountedKept DEF AllAccounted
<1>4. NumbersInUse'
  <2>1. \A t \in Sn : st'[t] = IF t = sn THEN si ELSE st[t]
    BY <1>1 DEF TypeOK, TableOK
  <2>2. QED
    BY <2>1 DEF AllAccounted, NumbersInUse
<1>5. QED
  BY <1>2, <1>3, <1>4, StopsAfterFailure DEF AllAccounted, InMemory, MapMade, Idle

LEMMA ReplaceAccounted ==
  ASSUME IInv, AllAccounted, NothingFails, nfaults' = 0,
         NEW sn \in UserSn, NEW sz \in Sizes, NEW b \in Bytes,
         ReplaceStream(sn, sz[1], sz[2], b)
  PROVE  AllAccounted'
<1> DEFINE n == sz[1]
           f == fpm \cup FreeNow(Pages(st[sn]))
<1>1. /\ Idle /\ sn \in Sn /\ n \in Nat
      /\ TypeOK /\ sn < stMac
      /\ UNCHANGED <<dhdr, dfpm, pc, stMac, pnList>>
  BY MsfAssumption, UserNumbers DEF ReplaceStream, Call, IInv, Sizes
<1>2. LoadedTable' = LoadedTable
  BY ReplaceRefines
<1>3. PICK k \in 0..n, w \in 0..n :
         /\ NewPgsOutcome(n, k, w)
         /\ Charge(NewPgsFault(f, n, k, w))
         /\ \E pns \in LeastPns(f, k) :
              /\ fpm' = f \ PnSet(pns, k)
              /\ freed' = freed \cup FreeLater(Pages(st[sn]))
              /\ st' = [st EXCEPT ![sn] = IF w = n THEN SI(n, sz[2], pns) ELSE siNil]
  BY Zenon DEF ReplaceStream
<1>4. PICK pns \in LeastPns(f, k) :
         /\ fpm' = f \ PnSet(pns, k)
         /\ freed' = freed \cup FreeLater(Pages(st[sn]))
         /\ st' = [st EXCEPT ![sn] = IF w = n THEN SI(n, sz[2], pns) ELSE siNil]
  BY Zenon, <1>3
<1>5. f \in SUBSET DataPn /\ fpm \subseteq f /\ fpm \subseteq DataPn
  BY <1>1 DEF TypeOK, FreeNow
<1>6. n <= MaxCpn + CpnSt
  BY SizesFit
<1> HIDE DEF f, n
<1>7. k = n /\ w = n
  BY <1>1, <1>3, <1>5, <1>6, WrittenWhole
<1>8. st' = [st EXCEPT ![sn] = SI(n, sz[2], pns)]
  BY <1>4, <1>7
<1>9. Pages(SI(n, sz[2], pns)) = PnSet(pns, k)
  BY <1>7 DEF Pages, SI
<1>10. fpm \cup freed \cup Pages(st[sn]) \subseteq fpm' \cup freed' \cup Pages(SI(n, sz[2], pns))
  BY <1>4, <1>9, FreeSplit DEF f
<1>11. QED
  BY <1>1, <1>2, <1>8, <1>10, OperationAccounted

LEMMA AppendAccounted ==
  ASSUME IInv, AllAccounted, NothingFails, nfaults' = 0,
         NEW sn \in UserSn, NEW sz \in Sizes, NEW b \in Bytes,
         AppendStream(sn, sz[1], sz[2], b)
  PROVE  AllAccounted'
<1> DEFINE n == sz[1]
           old == st[sn]
           m == n - old.n
           more(pns) == [i \in 0 .. n - 1 |->
                           IF i < old.n THEN old.pns[i] ELSE pns[i - old.n]]
<1>1. /\ Idle /\ sn \in Sn /\ n \in Nat /\ TypeOK
      /\ UNCHANGED <<dhdr, dfpm, freed, pc, stMac, pnList>>
  BY MsfAssumption, UserNumbers DEF AppendStream, Call, IInv, Sizes
<1>2. LoadedTable' = LoadedTable /\ sn < stMac
  BY <1>1, AppendRefines DEF AppendStream, AllAccounted, NumbersInUse
<1>3. SIOK(old) /\ old.n \in Nat /\ old.n <= n
  <2>1. SIOK(old)
    BY <1>1 DEF TypeOK, TableOK
  <2>2. QED
    BY <2>1 DEF SIOK, AppendStream
<1>4. PICK k \in 0..m, w \in 0..m :
         /\ NewPgsOutcome(m, k, w)
         /\ Charge(NewPgsFault(fpm, m, k, w))
         /\ \E pns \in LeastPns(fpm, k) :
              /\ fpm' = fpm \ PnSet(pns, k)
              /\ st' = [st EXCEPT ![sn] = IF w = m THEN SI(n, sz[2], more(pns)) ELSE old]
  BY Zenon DEF AppendStream
<1>5. PICK pns \in LeastPns(fpm, k) :
         /\ fpm' = fpm \ PnSet(pns, k)
         /\ st' = [st EXCEPT ![sn] = IF w = m THEN SI(n, sz[2], more(pns)) ELSE old]
  BY Zenon, <1>4
<1>6. fpm \in SUBSET DataPn /\ m \in Nat /\ m <= MaxCpn + CpnSt
  BY <1>1, <1>3, SizesFit, MsfAssumption DEF TypeOK
<1>7. k = m /\ w = m
  <2> HIDE DEF m, n
  <2>1. QED
    BY <1>4, <1>6, WrittenWhole
<1>8. st' = [st EXCEPT ![sn] = SI(n, sz[2], more(pns))]
  BY <1>5, <1>7
<1>9. PnSet(pns, k) \cup Pages(old) \subseteq Pages(SI(n, sz[2], more(pns)))
  <2>1. ASSUME NEW i \in 0 .. old.n - 1
        PROVE  old.pns[i] \in {more(pns)[j] : j \in 0 .. n - 1}
    <3>1. i \in 0 .. n - 1 /\ i < old.n
      BY <1>1, <1>3
    <3>2. more(pns)[i] = old.pns[i]
      BY <3>1
    <3>3. QED
      BY <3>1, <3>2
  <2>2. ASSUME NEW i \in 0 .. k - 1
        PROVE  pns[i] \in {more(pns)[j] : j \in 0 .. n - 1}
    <3>1. /\ i + old.n \in 0 .. n - 1 /\ ~(i + old.n < old.n)
          /\ (i + old.n) - old.n = i
      BY <1>1, <1>3, <1>7
    <3>2. more(pns)[i + old.n] = pns[i]
      BY <3>1
    <3> HIDE DEF n, old
    <3>3. QED
      BY <3>1, <3>2
  <2>3. Pages(SI(n, sz[2], more(pns))) = {more(pns)[j] : j \in 0 .. n - 1}
    BY DEF Pages, PnSet, SI
  <2> HIDE DEF n, more
  <2>4. QED
    BY <2>1, <2>2, <2>3 DEF Pages, PnSet
<1> HIDE DEF more, n, m
<1>10. fpm \cup freed \cup Pages(st[sn]) \subseteq fpm' \cup freed' \cup Pages(SI(n, sz[2], more(pns)))
  BY <1>1, <1>5, <1>9
<1>11. QED
  BY <1>1, <1>2, <1>8, <1>10, OperationAccounted

LEMMA TruncateAccounted ==
  ASSUME IInv, AllAccounted, NothingFails, nfaults' = 0,
         NEW sn \in UserSn, NEW sz \in Sizes, TruncateStream(sn, sz[1], sz[2])
  PROVE  AllAccounted'
<1> DEFINE n == sz[1]
           last == sz[2]
           old == st[sn]
           tail == {old.pns[i] : i \in n .. old.n - 1}
           f == fpm \cup FreeNow(tail)
           fr == freed \cup FreeLater(tail)
           kept == [i \in 0 .. n - 1 |-> old.pns[i]]
           oldPn == old.pns[n - 1]
<1>1. /\ Idle /\ sn \in Sn /\ n \in Nat /\ TypeOK
      /\ UNCHANGED <<dhdr, dfpm, pc, stMac, pnList>>
  <2>1. Idle /\ UNCHANGED <<dhdr, dfpm, pc, stMac, pnList>>
    BY Zenon DEF TruncateStream, Call
  <2>2. QED
    BY <2>1, MsfAssumption, UserNumbers DEF IInv, Sizes
<1>2. LoadedTable' = LoadedTable /\ sn < stMac
  <2>1. st[sn].valid
    BY Zenon DEF TruncateStream
  <2>2. QED
    BY <1>1, <2>1, TruncateRefines DEF AllAccounted, NumbersInUse
<1>3. SIOK(old) /\ old.n \in Nat
  BY <1>1 DEF TypeOK, TableOK, SIOK
<1>4. \A i \in 0 .. old.n - 1 : old.pns[i] \in tail \/ i \in 0 .. n - 1
  BY <1>1, <1>3
<1>5. fpm \cup freed \cup Pages(old) \subseteq f \cup fr \cup {kept[i] : i \in 0 .. n - 1}
  <2>1. ASSUME NEW p \in Pages(old)
        PROVE  p \in tail \cup {kept[i] : i \in 0 .. n - 1}
    <3>1. PICK i \in 0 .. old.n - 1 : p = old.pns[i]
      BY DEF Pages, PnSet
    <3>2. CASE i \in 0 .. n - 1
      <4>1. kept[i] = p
        BY <3>1, <3>2
      <4>2. QED
        BY <3>2, <4>1
    <3>3. QED
      BY <1>4, <3>1, <3>2
  <2>2. tail \subseteq f \cup fr
    BY FreeSplit
  <2> HIDE DEF tail, kept
  <2>3. QED
    BY <2>1, <2>2
<1>6. fpm \in SUBSET DataPn /\ f \in SUBSET DataPn /\ fpm \subseteq f
  BY <1>1 DEF TypeOK, FreeNow
<1> HIDE DEF f, fr, tail, kept
<1>7. CASE ~MovesLastPage(n, last)
  <2>1. /\ fpm' = f /\ freed' = fr
        /\ st' = [st EXCEPT ![sn] = SI(n, last, kept)]
    BY <1>7 DEF TruncateStream, f, fr, tail, kept
  <2>2. Pages(SI(n, last, kept)) = {kept[i] : i \in 0 .. n - 1}
    BY DEF Pages, PnSet, SI
  <2>3. QED
    BY <1>1, <1>2, <1>5, <2>1, <2>2, OperationAccounted
<1>8. CASE MovesLastPage(n, last)
  <2>1. PICK k \in 0..1, w \in 0..1 :
          /\ NewPgsOutcome(1, k, w)
          /\ Charge(NewPgsFault(f, 1, k, w))
          /\ \E pns \in LeastPns(f, k) :
               IF w = 1
               THEN /\ fpm' = (f \ PnSet(pns, 1)) \cup FreeNow({oldPn})
                    /\ freed' = fr \cup FreeLater({oldPn})
                    /\ st' = [st EXCEPT ![sn] =
                         SI(n, last, [kept EXCEPT ![n - 1] = pns[0]])]
               ELSE TRUE
    BY <1>8 DEF TruncateStream, f, fr, tail, kept
  <2>2. w = 1
    <3>1. 1 \in Nat /\ 1 <= MaxCpn + CpnSt
      BY MsfAssumption
    <3>2. QED
      BY <1>6, <2>1, <3>1, WrittenWhole
  <2>3. PICK pns :
          /\ fpm' = (f \ PnSet(pns, 1)) \cup FreeNow({oldPn})
          /\ freed' = fr \cup FreeLater({oldPn})
          /\ st' = [st EXCEPT ![sn] = SI(n, last, [kept EXCEPT ![n - 1] = pns[0]])]
    BY <2>1, <2>2
  <2> DEFINE moved == [kept EXCEPT ![n - 1] = pns[0]]
  <2>4. DOMAIN kept = 0 .. n - 1 /\ n - 1 \in 0 .. n - 1 /\ kept[n - 1] = oldPn
    BY <1>1, <1>8 DEF MovesLastPage, kept
  <2>5. /\ moved[n - 1] = pns[0]
        /\ \A i \in 0 .. n - 1 : i = n - 1 \/ moved[i] = kept[i]
    BY <2>4
  <2>6. Pages(SI(n, last, moved)) = {moved[i] : i \in 0 .. n - 1}
    BY DEF Pages, PnSet, SI
  <2>7. PnSet(pns, 1) = {pns[0]}
    BY DEF PnSet
  <2> HIDE DEF moved
  <2>8. /\ \A i \in 0 .. n - 1 : kept[i] = oldPn \/ kept[i] \in Pages(SI(n, last, moved))
        /\ pns[0] \in Pages(SI(n, last, moved))
    BY <2>4, <2>5, <2>6
  <2>9. oldPn \in fpm' \cup freed'
    BY <2>3, FreeSplit
  <2>10. f \cup fr \subseteq fpm' \cup freed' \cup {pns[0]}
    BY <2>3, <2>7
  <2>11. fpm \cup freed \cup Pages(st[sn]) \subseteq fpm' \cup freed' \cup Pages(SI(n, last, moved))
    BY <1>5, <2>8, <2>9, <2>10
  <2>12. QED
    BY <1>1, <1>2, <2>3, <2>11, OperationAccounted DEF moved
<1>9. QED
  BY <1>7, <1>8

LEMMA DeleteAccounted ==
  ASSUME IInv, AllAccounted, NEW sn \in UserSn, DeleteStream(sn)
  PROVE  AllAccounted'
<1>1. Idle /\ sn \in Sn /\ ~siNil.valid /\ UNCHANGED <<dhdr, dfpm, pc, stMac, pnList>>
  BY UserNumbers DEF DeleteStream, Call, siNil
<1>2. LoadedTable' = LoadedTable
  BY DeleteRefines
<1>3. fpm \cup freed \cup Pages(st[sn]) \subseteq fpm' \cup freed' \cup Pages(siNil)
  BY FreeSplit DEF DeleteStream
<1>4. QED
  BY <1>1, <1>2, <1>3, OperationAccounted DEF DeleteStream

LEMMA EraseAccounted ==
  ASSUME IInv, AllAccounted, NothingFails, nfaults' = 0,
         NEW sn \in UserSn, NonTransactionalEraseStream(sn)
  PROVE  AllAccounted'
<1> DEFINE old == st[sn]
<1>1. Idle /\ sn \in Sn /\ UNCHANGED <<dhdr, dfpm, stMac, pnList>> /\ SIOK(old) /\ ~siNil.valid
  BY UserNumbers DEF siNil, NonTransactionalEraseStream, Call, IInv, TypeOK, TableOK
<1>2. LoadedTable' = LoadedTable
  BY EraseRefines
<1>3. PICK k \in 0 .. old.n :
        /\ Charge(k < old.n)
        /\ fpm' = fpm \cup FreeNow(PnSet(old.pns, k))
        /\ freed' = freed \cup FreeLater(PnSet(old.pns, k))
        /\ st' = IF k = old.n THEN [st EXCEPT ![sn] = siNil] ELSE st
        /\ pc' = IF k = old.n THEN pc ELSE "broken"
  BY DEF NonTransactionalEraseStream
<1>4. k = old.n
  <2>1. ~(k < old.n)
    BY <1>3, NotCharged DEF NothingFails
  <2>2. QED
    BY <1>1, <1>3, <2>1 DEF SIOK
<1>5. fpm \cup freed \cup Pages(st[sn]) \subseteq fpm' \cup freed' \cup Pages(siNil)
  BY <1>3, <1>4, FreeSplit DEF Pages
<1>6. QED
  BY <1>1, <1>2, <1>3, <1>4, <1>5, OperationAccounted

\* A number given to an unused stream: it had no pages (SIOK).
LEMMA GetFreeSnAccounted ==
  ASSUME IInv, AllAccounted, GetFreeSn
  PROVE  AllAccounted'
<1> DEFINE si == SI(0, 0, NoPns)
<1>1. Idle /\ TypeOK /\ UNCHANGED <<dhdr, dfpm, fpm, freed, pc, pnList>>
  BY DEF GetFreeSn, Call, IInv
<1>2. LoadedTable' = LoadedTable
  BY GetFreeSnRefines
<1>3. PICK sn \in Sn :
        /\ st' = [st EXCEPT ![sn] = si]
        /\ \/ sn \in Holes /\ stMac' = stMac
           \/ sn = stMac /\ stMac' = stMac + 1
  <2>1. Holes \subseteq Sn
    BY UserNumbers DEF Holes
  <2>2. stMac < SnMax => stMac \in Sn
    BY <1>1, MsfAssumption DEF TypeOK, Sn
  <2>3. QED
    BY <2>1, <2>2 DEF GetFreeSn
<1>4. Pages(st[sn]) = {}
  <2>1. SIOK(st[sn]) /\ ~st[sn].valid
    BY <1>1, <1>3, MsfAssumption DEF TypeOK, TableOK, Holes, AllAccounted, NumbersInUse
  <2>2. st[sn].n = 0
    BY <2>1 DEF SIOK
  <2>3. QED
    BY <2>2 DEF Pages, PnSet
<1>5. Accounted'
  BY <1>1, <1>3, <1>4, EntryAccounted DEF AllAccounted, TypeOK
<1>6. NumbersInUse'
  <2>1. \A t \in Sn : st'[t] = IF t = sn THEN si ELSE st[t]
    BY <1>1, <1>3 DEF TypeOK, TableOK
  <2>2. stMac \in Nat /\ stMac <= stMac' /\ sn < stMac'
    <3>1. stMac \in Nat
      BY <1>1, MsfAssumption DEF TypeOK
    <3>2. CASE sn \in Holes
      <4>1. PICK t \in UserSn : sn < t /\ st[t].valid
        BY <3>2 DEF Holes
      <4>2. t < stMac /\ t \in Nat /\ sn \in Nat
        BY <4>1, UserNumbers, MsfAssumption DEF AllAccounted, NumbersInUse, Sn
      <4>3. stMac' = stMac \/ stMac' = stMac + 1
        BY <1>3
      <4>4. QED
        BY <3>1, <4>1, <4>2, <4>3
    <3>3. CASE sn \notin Holes
      BY <3>1, <3>3, <1>3
    <3>4. QED
      BY <3>2, <3>3
  <2>3. ASSUME NEW t \in Sn, st'[t].valid
        PROVE  t < stMac'
    <3>1. t \in Int /\ stMac' \in Int
      BY <1>1, <1>3, MsfAssumption DEF TypeOK, Sn
    <3>2. t # sn => st[t].valid
      BY <2>1, <2>3
    <3>3. t # sn => t < stMac
      BY <3>2 DEF AllAccounted, NumbersInUse
    <3>4. QED
      BY <2>2, <3>1, <3>3
  <2>4. QED
    BY <2>3 DEF NumbersInUse
<1>7. QED
  BY <1>1, <1>2, <1>5, <1>6, DiskAccountedKept, StopsAfterFailure
  DEF AllAccounted, InMemory, MapMade, Idle

\* Steps that leave the tables, the lists and the disk as they are.
LEMMA StillAccounted ==
  ASSUME AllAccounted, UNCHANGED <<dhdr, dfpm, dpg, fpm, freed, st, stMac, pnList>>,
         pc' = pc \/ pc' \in {"ready", "write"}
  PROVE  AllAccounted'
<1>1. LoadedTable' = LoadedTable
  BY DEF LoadedTable, DiskTable, DiskStPns
<1>2. DiskAccounted'
  BY <1>1, DiskAccountedKept DEF AllAccounted
<1>3. Used' = Used
  BY DEF Used
<1>4. QED
  BY <1>2, <1>3 DEF AllAccounted, InMemory, Accounted, MapMade, NumbersInUse

LEMMA WritePageAccounted ==
  ASSUME IInv, AllAccounted, WriteStreamPage
  PROVE  AllAccounted'
<1> DEFINE sn == wr.sn
           old == st[sn]
           oldPn == old.pns[wr.i]
<1>1. /\ TypeOK /\ sn \in Sn /\ SIOK(old)
      /\ wr.i \in 0 .. old.n - 1 /\ pc = "write"
  BY WritingParts, OwnPages DEF WriteStreamPage
<1>2. UNCHANGED <<dhdr, dfpm, stMac, pnList>> /\ pc' \in {"ready", "write"}
  BY DEF WriteStreamPage
<1>3. LoadedTable' = LoadedTable
  BY WritePageRefines
<1>4. PICK pns \in LeastPns(fpm, 1) :
        /\ fpm' = (fpm \ PnSet(pns, 1)) \cup FreeNow({oldPn})
        /\ freed' = freed \cup FreeLater({oldPn})
        /\ st' = [st EXCEPT ![sn].pns[wr.i] = pns[0]]
  BY DEF WriteStreamPage
<1> DEFINE moved == [old.pns EXCEPT ![wr.i] = pns[0]]
           si == [valid |-> old.valid, n |-> old.n, last |-> old.last, pns |-> moved]
<1>5. st' = [st EXCEPT ![sn] = si]
  <2>1. st' = [st EXCEPT ![sn] = [old EXCEPT !.pns = moved]]
    BY <1>4
  <2>2. [old EXCEPT !.pns = moved] = si
    BY <1>1, PnsExcept
  <2>3. QED
    BY <2>1, <2>2
<1>6. Pages(si) = {moved[i] : i \in 0 .. old.n - 1} /\ si.valid = old.valid
  BY DEF Pages, PnSet
<1>7. /\ moved[wr.i] = pns[0]
      /\ \A i \in 0 .. old.n - 1 : i = wr.i \/ moved[i] = old.pns[i]
  BY <1>1 DEF SIOK
<1> HIDE DEF si, moved
<1>8. Pages(old) \subseteq Pages(si) \cup {oldPn} /\ pns[0] \in Pages(si)
  BY <1>1, <1>6, <1>7 DEF Pages, PnSet
<1>9. PnSet(pns, 1) = {pns[0]}
  BY DEF PnSet
<1>10. oldPn \in fpm' \cup freed'
  BY <1>4, FreeSplit
<1>11. fpm \cup freed \cup Pages(st[sn]) \subseteq fpm' \cup freed' \cup Pages(si)
  BY <1>4, <1>8, <1>9, <1>10
<1>12. Accounted'
  BY <1>1, <1>2, <1>5, <1>11, EntryAccounted DEF AllAccounted, TypeOK
<1>13. NumbersInUse'
  <2>1. \A t \in Sn : st'[t] = IF t = sn THEN si ELSE st[t]
    BY <1>1, <1>5 DEF TypeOK, TableOK
  <2>2. QED
    BY <1>1, <1>2, <1>6, <2>1 DEF AllAccounted, NumbersInUse
<1>14. QED
  BY <1>2, <1>3, <1>12, <1>13, DiskAccountedKept DEF AllAccounted, InMemory, MapMade

\* Without a fault there is a page, and it is written.
LEMMA WriteDoesNotFail ==
  ASSUME IInv, NothingFails, nfaults' = 0, WriteStreamFails
  PROVE  FALSE
<1>1. PICK k \in 0..1 : Charge(NewPgsFault(fpm, 1, k, 0))
  BY DEF WriteStreamFails
<1>2. 0 \in 0..1 /\ 1 \in Nat /\ 1 <= MaxCpn + CpnSt /\ NewPgsOutcome(1, k, 0)
      /\ fpm \in SUBSET DataPn
  BY <1>1, MsfAssumption DEF NewPgsOutcome, IInv, TypeOK
<1>3. 0 = 1
  BY <1>1, <1>2, WrittenWhole
<1>4. QED
  BY <1>3

LEMMA CommitTableAccounted ==
  ASSUME IInv, AllAccounted, NothingFails, nfaults' = 0, CommitTable
  PROVE  AllAccounted'
<1> DEFINE f == fpm \cup FreeNow(Pages(st[snSt]))
           si(pns) == SI(CpnSt, CbPg, pns)
<1>1. /\ TypeOK /\ UNCHANGED <<dhdr, dfpm, stMac, pnList>>
  BY DEF CommitTable, IInv
<1>2. LoadedTable' = LoadedTable
  BY CommitTableRefines
<1>3. PICK k \in 0..CpnSt, w \in 0..CpnSt :
         /\ NewPgsOutcome(CpnSt, k, w)
         /\ Charge(NewPgsFault(f, CpnSt, k, w))
         /\ \E pns \in LeastPns(f, k) :
              /\ fpm' = f \ PnSet(pns, k)
              /\ freed' = freed \cup FreeLater(Pages(st[snSt]))
              /\ st' = [st EXCEPT ![snSt] = IF w = CpnSt THEN si(pns) ELSE siNil]
              /\ pc' = IF w = CpnSt THEN "list" ELSE pc
  BY Zenon DEF CommitTable
<1>4. f \in SUBSET DataPn /\ fpm \subseteq f /\ fpm \subseteq DataPn /\ CpnSt \in Nat
      /\ CpnSt <= MaxCpn + CpnSt
  BY <1>1, MsfAssumption DEF TypeOK, FreeNow
<1> HIDE DEF f
<1>5. k = CpnSt /\ w = CpnSt
  BY <1>3, <1>4, WrittenWhole
<1>6. PICK pns :
         /\ fpm' = f \ PnSet(pns, k)
         /\ freed' = freed \cup FreeLater(Pages(st[snSt]))
         /\ st' = [st EXCEPT ![snSt] = si(pns)]
  BY <1>3, <1>5
<1>7. pc' = "list"
  BY <1>3, <1>5
<1>8. Pages(si(pns)) = PnSet(pns, k)
  BY <1>5 DEF Pages, SI
<1> HIDE DEF si
<1>9. fpm \cup freed \cup Pages(st[snSt]) \subseteq fpm' \cup freed' \cup Pages(si(pns))
  BY <1>6, <1>8, FreeSplit DEF f
<1>10. Accounted'
  BY <1>1, <1>6, <1>9, EntryAccounted, UserNumbers DEF AllAccounted, TypeOK
<1>11. NumbersInUse'
  <2>1. \A t \in Sn : st'[t] = IF t = snSt THEN si(pns) ELSE st[t]
    BY <1>1, <1>6 DEF TypeOK, TableOK
  <2>2. snSt < stMac
    BY <1>1, MsfAssumption DEF TypeOK, snSt
  <2>3. QED
    BY <1>1, <2>1, <2>2 DEF AllAccounted, NumbersInUse
<1>12. QED
  BY <1>1, <1>2, <1>7, <1>10, <1>11, DiskAccountedKept DEF AllAccounted, InMemory, MapMade

LEMMA CommitListAccounted ==
  ASSUME IInv, AllAccounted, NothingFails, nfaults' = 0, CommitList
  PROVE  AllAccounted'
<1>1. TypeOK /\ UNCHANGED <<dhdr, dfpm, st, stMac>>
  BY DEF CommitList, IInv
<1>2. LoadedTable' = LoadedTable
  BY CommitListRefines
<1>3. PICK k \in 0..1, w \in 0..1 :
        /\ NewPgsOutcome(1, k, w)
        /\ Charge(NewPgsFault(fpm, 1, k, w))
        /\ \E pns \in LeastPns(fpm, k) :
             IF w = 1
             THEN /\ fpm' = (fpm \ PnSet(pns, 1)) \cup FreeNow({pnList})
                  /\ freed' = freed \cup FreeLater({pnList})
                  /\ pnList' = pns[0]
                  /\ pc' = "fpm"
             ELSE TRUE
  BY DEF CommitList
<1>4. w = 1
  <2>1. 1 \in Nat /\ 1 <= MaxCpn + CpnSt /\ fpm \in SUBSET DataPn
    BY <1>1, MsfAssumption DEF TypeOK
  <2>2. QED
    BY <1>3, <2>1, WrittenWhole
<1>5. PICK pns :
        /\ fpm' = (fpm \ PnSet(pns, 1)) \cup FreeNow({pnList})
        /\ freed' = freed \cup FreeLater({pnList})
        /\ pnList' = pns[0]
        /\ pc' = "fpm"
  BY <1>3, <1>4
<1>6. Accounted'
  <2>1. \A p : p \in Used' <=> p = pnList' \/ \E s \in Sn : p \in Pages(st[s])
    BY <1>1, UsedByMember DEF Used
  <2>2. \A p : p \in Used <=> p = pnList \/ \E s \in Sn : p \in Pages(st[s])
    BY UsedByMember DEF Used
  <2>3. PnSet(pns, 1) = {pnList'} /\ pnList \in fpm' \cup freed'
    BY <1>5, FreeSplit DEF PnSet
  <2>4. QED
    BY <1>5, <2>1, <2>2, <2>3 DEF AllAccounted, Accounted
<1>7. QED
  BY <1>1, <1>2, <1>5, <1>6, DiskAccountedKept
  DEF AllAccounted, InMemory, MapMade, NumbersInUse

LEMMA CommitFpmAccounted ==
  ASSUME IInv, AllAccounted, NothingFails, nfaults' = 0, CommitFpm
  PROVE  AllAccounted'
<1>1. /\ TypeOK /\ pc = "fpm" /\ slot # dhdr.slot
      /\ UNCHANGED <<dhdr, dpg, freed, st, stMac, pnList>>
      /\ fpm' = fpm \cup freed
  BY DEF CommitFpm, IInv, AwayInv, Building, AwayOK
<1>2. dfpm' = [dfpm EXCEPT ![slot] = fpm \cup freed] /\ pc' = "hdr"
  <2>1. ~Charge(TRUE)
    BY NotCharged DEF NothingFails
  <2>2. QED
    BY <2>1 DEF CommitFpm
<1>3. LoadedTable' = LoadedTable
  BY <1>1 DEF LoadedTable, DiskTable, DiskStPns
<1>4. DiskUsed' = DiskUsed /\ DiskFpm' = DiskFpm
  BY <1>1, <1>2, <1>3 DEF DiskUsed, DiskFpm, TypeOK
<1>5. Used' = Used
  BY <1>1 DEF Used
<1>6. QED
  BY <1>1, <1>2, <1>4, <1>5
  DEF AllAccounted, InMemory, Accounted, DiskAccounted, MapMade, NumbersInUse

LEMMA CommitHdrAccounted ==
  ASSUME IInv, AllAccounted, NothingFails, nfaults' = 0, CommitHdr
  PROVE  AllAccounted'
<1>1. /\ TypeOK /\ pc = "hdr" /\ dfpm[slot] = fpm /\ freed \subseteq fpm
      /\ UNCHANGED <<dfpm, dpg, fpm, freed, st, stMac, pnList>>
  BY DEF CommitHdr, pageMaps, IInv, HdrInv, AllAccounted, MapMade
<1>2. dhdr' = [slot |-> slot, mac |-> pnMac, list |-> pnList] /\ pc' = "flush"
  <2>1. ~Charge(TRUE)
    BY NotCharged DEF NothingFails
  <2>2. QED
    BY <2>1 DEF CommitHdr
<1>3. IInv'
  BY CommitHdrStep
<1>4. LoadedTable' = st
  BY <1>1, <1>2, <1>3 DEF IInv, FlushInv
<1>5. Used' = Used /\ DiskUsed' = Used /\ DiskFpm' = fpm
  BY <1>1, <1>2, <1>4 DEF Used, DiskUsed, DiskFpm
<1>6. QED
  BY <1>1, <1>2, <1>5
  DEF AllAccounted, InMemory, Accounted, DiskAccounted, MapMade, NumbersInUse

LEMMA CommitFlushAccounted ==
  ASSUME IInv, AllAccounted, NothingFails, nfaults' = 0, CommitFlush
  PROVE  AllAccounted'
<1>1. /\ pc = "flush" /\ freed \subseteq fpm
      /\ UNCHANGED <<dhdr, dfpm, dpg, fpm, st, stMac, pnList>>
  BY DEF CommitFlush, disk, AllAccounted, MapMade
<1>2. pc' = "ready" /\ freed' = {}
  <2>1. ~Charge(TRUE)
    BY NotCharged DEF NothingFails
  <2>2. QED
    BY <2>1 DEF CommitFlush
<1>3. LoadedTable' = LoadedTable
  BY <1>1 DEF LoadedTable, DiskTable, DiskStPns
<1>4. DiskAccounted'
  BY <1>1, <1>3, DiskAccountedKept DEF AllAccounted
<1>5. Used' = Used
  BY <1>1 DEF Used
<1>6. QED
  BY <1>1, <1>2, <1>4, <1>5 DEF AllAccounted, InMemory, Accounted, MapMade, NumbersInUse

LEMMA CrashAccounted ==
  ASSUME IInv, AllAccounted, CrashAndLoad
  PROVE  AllAccounted'
<1>1. /\ fpm' = DiskFpm /\ freed' = {} /\ st' = LoadedTable /\ pnList' = dhdr.list
      /\ stMac' \in LoadedMac /\ pc' = "ready" /\ UNCHANGED <<dhdr, dfpm, dpg>>
  BY DEF CrashAndLoad, disk
<1>2. LoadedTable' = LoadedTable
  BY <1>1 DEF LoadedTable, DiskTable, DiskStPns
<1>3. Used' = DiskUsed
  BY <1>1 DEF Used, DiskUsed
<1>4. DiskAccounted'
  BY <1>1, <1>2, DiskAccountedKept DEF AllAccounted
<1>5. NumbersInUse'
  BY <1>1 DEF NumbersInUse, LoadedMac
<1>6. QED
  BY <1>1, <1>3, <1>4, <1>5
  DEF AllAccounted, InMemory, Accounted, DiskAccounted, MapMade

LEMMA InitAccounted ==
  ASSUME Init
  PROVE  AllAccounted
<1> DEFINE si == SI(CpnSt, CbPg, NewStPns)
<1>1. /\ fpm = NewFpm /\ dfpm = [s \in Slots |-> IF s = 1 THEN NewFpm ELSE {}]
      /\ dhdr = [slot |-> 1, mac |-> pnMac, list |-> NewListPn]
      /\ st = [NewTable EXCEPT ![snSt] = si]
      /\ pnList = NewListPn /\ pc = "ready" /\ stMac = SnFixed
  BY DEF Init
<1>2. ASSUME NEW p \in DataPn
      PROVE  p \in NewFpm \/ p = NewListPn \/ p \in Pages(si)
  <2>1. Pages(si) = {NewStPns[i] : i \in 0 .. CpnSt - 1}
    BY DEF Pages, PnSet, SI
  <2>2. CASE p < NewListPn
    <3>1. p - pnDataMin \in 0 .. CpnSt - 1 /\ pnDataMin + (p - pnDataMin) = p
      BY <2>2, MsfAssumption DEF DataPn, pnDataMin, NewListPn
    <3>2. NewStPns[p - pnDataMin] = p
      BY <3>1 DEF NewStPns
    <3>3. QED
      BY <2>1, <3>1, <3>2
  <2>3. CASE ~(p < NewListPn)
    BY <2>3, MsfAssumption DEF DataPn, pnDataMin, NewListPn, NewFpm
  <2>4. QED
    BY <2>2, <2>3
<1>3. st[snSt] = si /\ LoadedTable[snSt] = si
  <2>1. st[snSt] = si
    BY <1>1, UserNumbers DEF NewTable
  <2>2. /\ NewListPn \in DataPn /\ 0 \in 0 .. CpnSt - 1
        /\ NewStPns[0] \in DataPn /\ NewStPns[0] < NewListPn
    BY MsfAssumption DEF NewListPn, NewStPns, DataPn, pnDataMin
  <2>3. DiskStPns = NewStPns
    BY <2>2 DEF Init, DiskStPns, ListPage, NewListPn
  <2>4. DiskTable = NewTable
    BY <2>2, <2>3 DEF Init, DiskTable, TablePage
  <2>5. QED
    BY <2>1, <2>3, <2>4, UserNumbers DEF LoadedTable, NewTable
<1> HIDE DEF si
<1>4. Accounted
  BY <1>1, <1>2, <1>3, UsedByMember, UserNumbers DEF Accounted, Used
<1>5. DiskAccounted
  <2>1. DiskFpm = NewFpm /\ dhdr.list = NewListPn
    BY <1>1 DEF DiskFpm, Slots
  <2>2. QED
    BY <1>2, <1>3, <2>1, UsedByMember, UserNumbers DEF DiskAccounted, DiskUsed
<1>6. NumbersInUse
  <2>1. ASSUME NEW t \in Sn, t # snSt
        PROVE  ~st[t].valid
    BY <1>1, <2>1 DEF NewTable, siNil
  <2>2. snSt < stMac
    BY <1>1, MsfAssumption DEF snSt
  <2>3. QED
    BY <2>1, <2>2 DEF NumbersInUse
<1>7. QED
  BY <1>1, <1>4, <1>5, <1>6 DEF AllAccounted, InMemory, MapMade

LEMMA NextAccounted ==
  ASSUME IInv, AllAccounted, NothingFails, NothingFails', [Next]_vars
  PROVE  AllAccounted'
<1>1. nfaults' = 0
  BY DEF NothingFails
<1>2. CASE StreamOp
  <2>1. ASSUME NEW sn \in UserSn, NEW sz \in Sizes, NEW b \in Bytes,
               \/ ReplaceStream(sn, sz[1], sz[2], b)
               \/ AppendStream(sn, sz[1], sz[2], b)
        PROVE  AllAccounted'
    BY <1>1, <2>1, ReplaceAccounted, AppendAccounted
  <2>2. ASSUME NEW sn \in UserSn, NEW sz \in Sizes, TruncateStream(sn, sz[1], sz[2])
        PROVE  AllAccounted'
    BY <1>1, <2>2, TruncateAccounted
  <2>3. ASSUME NEW sn \in UserSn, DeleteStream(sn) \/ NonTransactionalEraseStream(sn)
        PROVE  AllAccounted'
    BY <1>1, <2>3, DeleteAccounted, EraseAccounted
  <2>4. ASSUME NEW sn \in UserSn, NEW i, NEW j, NEW lo, NEW hi, NEW b,
               WriteStream(sn, i, j, lo, hi, b)
        PROVE  AllAccounted'
    <3>1. UNCHANGED <<dhdr, dfpm, dpg, fpm, freed, st, stMac, pnList>> /\ pc' = "write"
      BY <2>4 DEF WriteStream, disk, pageMaps
    <3>2. QED
      BY <3>1, StillAccounted
  <2>5. CASE GetFreeSn
    BY <2>5, GetFreeSnAccounted
  <2>6. CASE WriteStreamPage
    BY <2>6, WritePageAccounted
  <2>7. CASE WriteStreamFails
    BY <1>1, <2>7, WriteDoesNotFail
  <2>8. QED
    BY <1>2, <2>1, <2>2, <2>3, <2>4, <2>5, <2>6, <2>7 DEF StreamOp
<1>3. CASE Commit
  BY <1>1, <1>3, CommitTableAccounted, CommitListAccounted, CommitFpmAccounted,
     CommitHdrAccounted, CommitFlushAccounted DEF Commit
<1>4. CASE CrashAndLoad
  BY <1>4, CrashAccounted
<1>5. CASE UNCHANGED vars
  <2>1. UNCHANGED <<dhdr, dfpm, dpg, fpm, freed, st, stMac, pnList, pc>>
    BY <1>5 DEF vars
  <2>2. QED
    BY <2>1, StillAccounted
<1>6. QED
  BY <1>2, <1>3, <1>4, <1>5 DEF Next

\* As long as no write fails and the free pages suffice for the next operation,
\* every page is free, freed or in use once (msf.cpp:1385-1429).  A failed
\* operation leaks the pages it had allocated, so that without the hypothesis
\* the assertion of Commit does not hold.
THEOREM PagesAccounted == Spec /\ []NothingFails => []CheckInvariants
<1>1. Init => AllAccounted
  BY InitAccounted
<1>2. IInv /\ AllAccounted /\ NothingFails /\ NothingFails' /\ [Next]_vars => AllAccounted'
  BY NextAccounted
<1>3. Spec /\ []NothingFails => []AllAccounted
  BY <1>1, <1>2, Invariant, PTL DEF Spec
<1>4. IInv /\ AllAccounted => CheckInvariants
  <2>1. ASSUME IInv, AllAccounted, pc \in {"ready", "write"}
        PROVE  /\ UsedOnce(st, pnList)
               /\ fpm \cap freed = {}
               /\ (fpm \cup freed) \cap Used = {}
               /\ fpm \cup freed \cup Used = DataPn
    <3>1. TypeOK /\ MemOK /\ AwayOK
      BY <2>1 DEF IInv, MemInv, InMemory, AwayInv, Building
    <3>2. ASSUME NEW p \in Used
          PROVE  p \in DataPn
      <4>1. p = pnList \/ \E s \in Sn : p \in Pages(st[s])
        BY UsedByMember DEF Used
      <4>2. QED
        BY <3>1, <4>1, PagesInData DEF TypeOK, TableOK
    <3>3. QED
      BY <2>1, <3>1, <3>2 DEF MemOK, AwayOK, AllAccounted, Accounted, TypeOK
  <2>2. QED
    BY <2>1 DEF CheckInvariants
<1>5. QED
  BY <1>3, <1>4, Invariant, PTL
=============================================================================
