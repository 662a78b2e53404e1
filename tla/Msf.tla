-------------------------------- MODULE Msf ---------------------------------
(***************************************************************************)
(* The multistream file of PDB/msf/msf.cpp (class MSF_HB, big format): its *)
(* pages on disk, the free page maps and the stream table in memory, and   *)
(* every operation that moves pages between them.                          *)
(*                                                                         *)
(* Simplifications:                                                        *)
(*  - A stream's length is the pair (n, last): n pages, of which the final *)
(*    one holds last cells.  This is how the code takes cb apart (spnMac   *)
(*    and cb & maskCbPgMod).                                               *)
(*  - A buffer is the single byte b that the call writes to all its cells. *)
(*  - A free page map is the set of its free pages.  The word array and    *)
(*    the page map pages reserved at regular intervals are not here.       *)
(*  - The serialized stream table takes CpnSt pages and its page list one. *)
(*  - A page is written whole or not at all, and memory does not run out.  *)
(*  - Every call holds m_cs from its start to its return, so that calls do *)
(*    not interleave; a crash can come between any two page writes.        *)
(***************************************************************************)
EXTENDS Integers, FiniteSets

CONSTANTS
  PnMax,      \* msfparms.pnMax: page PnMax - 1 is never allocated
  Growth,     \* msfparms.cpgFileGrowth
  CbPg,       \* cells in a page
  CpnSt,      \* pages of the serialized stream table
  SnMax,      \* m_unsnMax: stream numbers are 0..SnMax-1
  SnFixed,    \* size of a new stream table (StrmTbl::StrmTbl makes it 5)
  Bytes,      \* what a cell can hold
  Zero,       \* the byte that an erase writes, and a fresh page holds
  MaxCpn,     \* bound: pages in a user stream
  MaxOps,     \* bound: calls (stream operations and commits) in a behaviour
  MaxFaults,  \* bound: failed writes and failed extensions of the file
  UseAfterFailedCommit  \* may a caller go on after Commit returned FALSE?

ASSUME MsfAssumption ==
  /\ PnMax \in Nat /\ Growth \in Nat \ {0} /\ CbPg \in Nat \ {0}
  /\ CpnSt \in Nat \ {0} /\ PnMax > CpnSt + 5
  /\ SnMax \in Nat /\ SnFixed \in 1..SnMax
  /\ Zero \in Bytes
  /\ MaxCpn \in Nat /\ MaxOps \in Nat /\ MaxFaults \in Nat
  /\ UseAfterFailedCommit \in BOOLEAN

VARIABLES
  \* on disk
  dhdr,     \* page 0: the valid page map's slot, pnMac, the list page
  dfpm,     \* the page maps in slots 1 and 2, as sets of free pages
  dpg,      \* the data pages: stream data, the stream table, its page list
  \* in memory
  slot,     \* bighdr.pnFpm: the slot the next commit writes
  pnMac,    \* bighdr.pnMac: pages in the file
  fpm,      \* pages that may be allocated now
  freed,    \* fpmFreed: pages of the committed state no longer in use
  comm,     \* fpmCommitted: pages that the last commit left free
  st,       \* st.mpsnsi: the stream table
  stMac,    \* st.mpsnsi.size()
  pnList,   \* siPnList: the page that lists the stream table's pages
  \* control
  pc,       \* "ready", or where in WriteStream or Commit the call is
  wr,       \* what is left of the WriteStream in progress
  nops, nfaults

disk == <<dhdr, dfpm, dpg>>
pageMaps == <<fpm, freed, comm>>
counters == <<nops, nfaults>>
vars == <<dhdr, dfpm, dpg, slot, pnMac, fpm, freed, comm, st, stMac, pnList,
          pc, wr, nops, nfaults>>

-----------------------------------------------------------------------------
(* Pages and stream infos.                                                 *)

snSt == 0
Sn == 0 .. SnMax - 1
UserSn == 1 .. SnMax - 1

pnDataMin == 3
DataPn == pnDataMin .. PnMax - 2
Cells == 0 .. CbPg - 1
Slots == {1, 2}

\* Mutants: the slots are counted up; both commits write the same slot.
SlotAfter(s) == s + 1
SameSlot(s) == s

OtherSlot(s) == IF s = 1 THEN 2 ELSE 1

NoPns == [i \in {} |-> 0]
siNil == [valid |-> FALSE, n |-> 0, last |-> 0, pns |-> NoPns]
SI(n, last, pns) == [valid |-> TRUE, n |-> n, last |-> last, pns |-> pns]

Sizes == {<<0, 0>>} \cup ((1..MaxCpn) \X (1..CbPg))

PnSet(pns, n) == {pns[i] : i \in 0 .. n - 1}
Pages(si) == PnSet(si.pns, si.n)

\* The cells that a stream has on its page i.
Extent(si, i) == IF i = si.n - 1 THEN si.last ELSE CbPg

\* a <= b for lengths
NotLonger(n1, last1, n2, last2) == n1 < n2 \/ (n1 = n2 /\ last1 <= last2)

DataPage(b) == [data |-> [j \in Cells |-> b]]
TablePage(tbl) == [tbl |-> tbl]
ListPage(pns) == [list |-> pns]

Put(d, S, pg) == [p \in DataPn |-> IF p \in S THEN pg ELSE d[p]]

\* Cells lo..hi of a data page overwritten with b.
Patch(pg, lo, hi, b) ==
  [data |-> [j \in Cells |-> IF j \in lo..hi THEN b ELSE pg.data[j]]]

-----------------------------------------------------------------------------
(* Allocation.                                                             *)

\* nextPn, called k times with no page freed in between: the k least free
\* pages, in order.
LeastPns(f, k) ==
  {pns \in [0 .. k - 1 -> f] :
     /\ \A i, j \in 0 .. k - 1 : i < j => pns[i] < pns[j]
     /\ \A q \in f \ PnSet(pns, k), i \in 0 .. k - 1 : pns[i] < q}

\* allocPn extends the file by Growth pages, up to PnMax - 1, whenever the
\* page it found lies past the end: where the end is after allocating S.
MacSteps(mac) == {m \in mac .. PnMax - 1 :
                    m = PnMax - 1 \/ (m - mac) % Growth = 0}
MacFrom(mac, S) ==
  {m \in MacSteps(mac) :
     /\ \A p \in S : p < m
     /\ \A m2 \in MacSteps(mac) : (\A p \in S : p < m2) => m <= m2}
\* Mutant: allocPn does not extend the file.
MacKept(S) == {pnMac}

MacFor(S) == MacFrom(pnMac, S)

\* Mutants: freePn does not ask fpmCommitted, or forgets the pages it kept.
FreeAll(S) == S
FreeNothing(S) == {}

\* freePn: a page the last commit left free can be allocated again at once,
\* a page of the committed state only after the next commit.
FreeNow(S) == S \cap comm
FreeLater(S) == S \ comm

\* writeNewDataPgs of n pages out of f: k pages were allocated, and then the
\* first w of them were written.
NewPgsOutcome(n, k, w) == w <= k /\ (k < n => w = 0)

\* It failed for another reason than a file at its maximum size.
NewPgsFault(f, n, k, w) == (k = n /\ w < n) \/ (k < n /\ Cardinality(f) # k)

Charge(fault) ==
  /\ fault => nfaults < MaxFaults
  /\ nfaults' = IF fault THEN nfaults + 1 ELSE nfaults

-----------------------------------------------------------------------------
(* Stream operations.                                                      *)

Idle == pc = "ready" \/ (UseAfterFailedCommit /\ pc = "failed")

\* A public method is entered: no other call is in progress.
Call ==
  /\ Idle
  /\ nops < MaxOps
  /\ nops' = nops + 1

\* Delete, then write n new pages; if that fails the stream stays deleted and
\* the pages allocated for it are lost until the file is rewritten.
ReplaceStream(sn, n, last, b) ==
  /\ Call
  /\ sn < stMac
  /\ LET f == fpm \cup FreeNow(Pages(st[sn])) IN
     \E k, w \in 0..n :
       /\ NewPgsOutcome(n, k, w)
       /\ Charge(NewPgsFault(f, n, k, w))
       /\ \E pns \in LeastPns(f, k) :
            /\ fpm' = f \ PnSet(pns, k)
            /\ freed' = freed \cup FreeLater(Pages(st[sn]))
            /\ pnMac' \in MacFor(PnSet(pns, k))
            /\ dpg' = Put(dpg, PnSet(pns, w), DataPage(b))
            /\ st' = [st EXCEPT ![sn] = IF w = n THEN SI(n, last, pns) ELSE siNil]
  /\ UNCHANGED <<dhdr, dfpm, slot, comm, stMac, pnList, pc, wr>>

\* The first part goes to the free end of the last page, in place; the rest
\* to new pages.  A failure leaves the stream info as it was.
AppendStream(sn, n, last, b) ==
  LET si     == st[sn]
      inLast == si.n > 0 /\ si.last < CbPg
      hi     == IF n = si.n THEN last - 1 ELSE CbPg - 1
      d1     == IF inLast
                THEN [dpg EXCEPT ![si.pns[si.n - 1]] = Patch(@, si.last, hi, b)]
                ELSE dpg
      m      == n - si.n
  IN
  /\ Call
  /\ si.valid /\ si.n <= n /\ NotLonger(si.n, si.last, n, last)
  /\ <<si.n, si.last>> # <<n, last>>
  /\ \E k, w \in 0..m :
       /\ NewPgsOutcome(m, k, w)
       /\ Charge(NewPgsFault(fpm, m, k, w))
       /\ \E pns \in LeastPns(fpm, k) :
            /\ fpm' = fpm \ PnSet(pns, k)
            /\ pnMac' \in MacFor(PnSet(pns, k))
            /\ dpg' = Put(d1, PnSet(pns, w), DataPage(b))
            /\ st' = [st EXCEPT ![sn] =
                        IF w = m
                        THEN SI(n, last, [i \in 0 .. n - 1 |->
                               IF i < si.n THEN si.pns[i] ELSE pns[i - si.n]])
                        ELSE si]
  /\ UNCHANGED <<dhdr, dfpm, slot, freed, comm, stMac, pnList, pc, wr>>

\* Mutant: TruncateStream frees the tail and leaves the last page where it is.
NeverMoves(n, last) == FALSE

\* Must the new last page be moved to a page of this transaction?  AppendStream
\* relies on it: it writes to the last page in place.
MovesLastPage(n, last) == n > 0 /\ last < CbPg

\* Tail pages are freed first, then the new last page is copied to a new one
\* if it is partial.  When the copy fails after pages were freed, the stream
\* is gone.
TruncateStream(sn, n, last) ==
  LET si   == st[sn]
      tail == {si.pns[i] : i \in n .. si.n - 1}
      f    == fpm \cup FreeNow(tail)
      fr   == freed \cup FreeLater(tail)
      kept == [i \in 0 .. n - 1 |-> si.pns[i]]
  IN
  /\ Call
  /\ si.valid /\ NotLonger(n, last, si.n, si.last)
  /\ \/ /\ ~MovesLastPage(n, last)
        /\ fpm' = f /\ freed' = fr
        /\ st' = [st EXCEPT ![sn] = SI(n, last, kept)]
        /\ UNCHANGED <<pnMac, dpg, nfaults>>
     \/ /\ MovesLastPage(n, last)
        /\ LET old == si.pns[n - 1] IN
           \E k, w \in 0..1 :
             /\ NewPgsOutcome(1, k, w)
             /\ Charge(NewPgsFault(f, 1, k, w))
             /\ \E pns \in LeastPns(f, k) :
                  /\ pnMac' \in MacFor(PnSet(pns, k))
                  /\ dpg' = Put(dpg, PnSet(pns, w), dpg[old])
                  /\ IF w = 1
                     THEN /\ fpm' = (f \ PnSet(pns, 1)) \cup FreeNow({old})
                          /\ freed' = fr \cup FreeLater({old})
                          /\ st' = [st EXCEPT ![sn] =
                               SI(n, last, [kept EXCEPT ![n - 1] = pns[0]])]
                     ELSE /\ fpm' = f \ PnSet(pns, k)
                          /\ freed' = fr
                          /\ st' = [st EXCEPT ![sn] = IF n < si.n THEN siNil ELSE @]
  /\ UNCHANGED <<dhdr, dfpm, slot, comm, stMac, pnList, pc, wr>>

DeleteStream(sn) ==
  /\ Call
  /\ st[sn].valid
  /\ fpm' = fpm \cup FreeNow(Pages(st[sn]))
  /\ freed' = freed \cup FreeLater(Pages(st[sn]))
  /\ st' = [st EXCEPT ![sn] = siNil]
  /\ UNCHANGED <<dhdr, dfpm, dpg, slot, pnMac, comm, stMac, pnList, pc, wr, nfaults>>

\* Each page is zeroed where it lies and freed, one after the other.  When
\* zeroing page k fails the call gives up: the pages before it are free and
\* still the stream's, and the caller must not go on with this file.
NonTransactionalEraseStream(sn) ==
  LET si == st[sn] IN
  /\ Call
  /\ si.valid
  /\ \E k \in 0 .. si.n :
       /\ Charge(k < si.n)
       /\ dpg' = Put(dpg, PnSet(si.pns, k), DataPage(Zero))
       /\ fpm' = fpm \cup FreeNow(PnSet(si.pns, k))
       /\ freed' = freed \cup FreeLater(PnSet(si.pns, k))
       /\ st' = IF k = si.n THEN [st EXCEPT ![sn] = siNil] ELSE st
       /\ pc' = IF k = si.n THEN pc ELSE "broken"
  /\ UNCHANGED <<dhdr, dfpm, slot, pnMac, comm, stMac, pnList, wr>>

\* Numbers out of use below the last stream in use.
Holes == {sn \in UserSn : ~st[sn].valid /\ \E t \in UserSn : sn < t /\ st[t].valid}

\* snMinFree: the least hole below the last stream in use, else a new entry at
\* the end of the table; PDB_MT reserves it with an empty stream.
GetFreeSn ==
  /\ Call
  /\ \/ /\ Holes # {}
        /\ \E sn \in Holes :
             /\ \A t \in Holes : sn <= t
             /\ st' = [st EXCEPT ![sn] = SI(0, 0, NoPns)]
        /\ UNCHANGED stMac
     \/ /\ Holes = {} /\ stMac < SnMax
        /\ st' = [st EXCEPT ![stMac] = SI(0, 0, NoPns)]
        /\ stMac' = stMac + 1
  /\ UNCHANGED <<dhdr, dfpm, dpg, slot, pnMac, fpm, freed, comm, pnList, pc, wr, nfaults>>

-----------------------------------------------------------------------------
(* WriteStream: cells lo of page i up to cell hi of page j get b.  Each     *)
(* page is copied to a new one as it is written and the table updated at   *)
(* once, so that a failure half way leaves the first pages written.        *)

NoWrite == [sn |-> 0, i |-> 0, j |-> 0, lo |-> 0, hi |-> 0, b |-> Zero]

WriteStream(sn, i, j, lo, hi, b) ==
  LET si == st[sn] IN
  /\ Call
  /\ si.valid
  /\ i <= j /\ j < si.n
  /\ i = j => lo <= hi
  /\ j = si.n - 1 => hi < si.last
  /\ pc' = "write"
  /\ wr' = [sn |-> sn, i |-> i, j |-> j, lo |-> lo, hi |-> hi, b |-> b]
  /\ UNCHANGED <<disk, slot, pnMac, pageMaps, st, stMac, pnList, nfaults>>

\* replacePnOffCb or writeNewPn, then writeNewPnCb.
WriteStreamPage ==
  LET old  == st[wr.sn].pns[wr.i]
      last == wr.i = wr.j
  IN
  /\ pc = "write"
  /\ \E pns \in LeastPns(fpm, 1) :
       /\ pnMac' \in MacFor(PnSet(pns, 1))
       /\ dpg' = Put(dpg, PnSet(pns, 1),
                     Patch(dpg[old], wr.lo, IF last THEN wr.hi ELSE CbPg - 1, wr.b))
       /\ fpm' = (fpm \ PnSet(pns, 1)) \cup FreeNow({old})
       /\ freed' = freed \cup FreeLater({old})
       /\ st' = [st EXCEPT ![wr.sn].pns[wr.i] = pns[0]]
  /\ wr' = IF last THEN NoWrite ELSE [wr EXCEPT !.i = @ + 1, !.lo = 0]
  /\ pc' = IF last THEN "ready" ELSE "write"
  /\ UNCHANGED <<dhdr, dfpm, slot, comm, stMac, pnList, nops, nfaults>>

\* No page, or the page allocated could not be written: it is lost.
WriteStreamFails ==
  /\ pc = "write"
  /\ \E k \in 0..1 :
       /\ Charge(NewPgsFault(fpm, 1, k, 0))
       /\ \E pns \in LeastPns(fpm, k) :
            /\ fpm' = fpm \ PnSet(pns, k)
            /\ pnMac' \in MacFor(PnSet(pns, k))
  /\ wr' = NoWrite
  /\ pc' = "ready"
  /\ UNCHANGED <<disk, slot, freed, comm, st, stMac, pnList, nops>>

-----------------------------------------------------------------------------
(* Commit, one step for each write that reaches the file.                  *)

\* The table is serialized, with the entry it now has for itself, and
\* replaces stream snSt.
CommitTable ==
  LET old == Pages(st[snSt])
      f   == fpm \cup FreeNow(old)
  IN
  /\ Call
  /\ \E k, w \in 0..CpnSt :
       /\ NewPgsOutcome(CpnSt, k, w)
       /\ Charge(NewPgsFault(f, CpnSt, k, w))
       /\ \E pns \in LeastPns(f, k) :
            /\ fpm' = f \ PnSet(pns, k)
            /\ freed' = freed \cup FreeLater(old)
            /\ pnMac' \in MacFor(PnSet(pns, k))
            /\ dpg' = Put(dpg, PnSet(pns, w), TablePage(st))
            /\ st' = [st EXCEPT ![snSt] =
                        IF w = CpnSt THEN SI(CpnSt, CbPg, pns) ELSE siNil]
            /\ pc' = IF w = CpnSt THEN "list" ELSE pc
  /\ UNCHANGED <<dhdr, dfpm, slot, comm, stMac, pnList, wr>>

\* The page list of the new table, on a new page; then the old one is freed.
CommitList ==
  /\ pc = "list"
  /\ \E k, w \in 0..1 :
       /\ NewPgsOutcome(1, k, w)
       /\ Charge(NewPgsFault(fpm, 1, k, w))
       /\ \E pns \in LeastPns(fpm, k) :
            /\ pnMac' \in MacFor(PnSet(pns, k))
            /\ dpg' = Put(dpg, PnSet(pns, w), ListPage(st[snSt].pns))
            /\ IF w = 1
               THEN /\ fpm' = (fpm \ PnSet(pns, 1)) \cup FreeNow({pnList})
                    /\ freed' = freed \cup FreeLater({pnList})
                    /\ pnList' = pns[0]
                    /\ pc' = "fpm"
               ELSE /\ fpm' = fpm \ PnSet(pns, k)
                    /\ pc' = "ready"
                    /\ UNCHANGED <<freed, pnList>>
  /\ UNCHANGED <<dhdr, dfpm, slot, comm, st, stMac, wr, nops>>

\* fpm.add(fpmFreed), and the page map to the slot that is not valid on disk.
\* A write that fails may leave anything there.
CommitFpm ==
  LET f == fpm \cup freed IN
  /\ pc = "fpm"
  /\ fpm' = f
  /\ \/ /\ dfpm' = [dfpm EXCEPT ![slot] = f]
        /\ pc' = "hdr"
        /\ UNCHANGED nfaults
     \/ /\ Charge(TRUE)
        /\ \E g \in {f, dfpm[slot], DataPn} : dfpm' = [dfpm EXCEPT ![slot] = g]
        /\ pc' = "failed"
  /\ UNCHANGED <<dhdr, dpg, slot, pnMac, freed, comm, st, stMac, pnList, wr, nops>>

CommitHdr ==
  /\ pc = "hdr"
  /\ \/ /\ dhdr' = [slot |-> slot, mac |-> pnMac, list |-> pnList]
        /\ pc' = "flush"
        /\ UNCHANGED nfaults
     \/ /\ Charge(TRUE)
        /\ pc' = "failed"
        /\ UNCHANGED dhdr
  /\ UNCHANGED <<dfpm, dpg, slot, pnMac, pageMaps, st, stMac, pnList, wr, nops>>

\* pIStream->Commit, and init() only if it succeeds.
CommitFlush ==
  /\ pc = "flush"
  /\ \/ /\ pc' = "ready"
        /\ slot' = OtherSlot(slot)
        /\ freed' = {}
        /\ comm' = fpm
        /\ UNCHANGED nfaults
     \/ /\ Charge(TRUE)
        /\ pc' = "failed"
        /\ UNCHANGED <<slot, freed, comm>>
  /\ UNCHANGED <<disk, pnMac, fpm, st, stMac, pnList, wr, nops>>

-----------------------------------------------------------------------------
(* What the file holds, for a process that opens it now.                   *)

DiskStPns == dpg[dhdr.list].list
DiskTable == dpg[DiskStPns[0]].tbl
DiskFpm == dfpm[dhdr.slot]

\* Mutant: load keeps the entry that the table has for itself.
TableAsWritten == DiskTable

\* load: the table's entry for itself is the one of the commit before, and is
\* replaced by the one the header leads to.
LoadedTable ==
  [DiskTable EXCEPT ![snSt] = SI(CpnSt, CbPg, DiskStPns)]

\* mpsnsi is as long as a new table or reaches to the last stream in use.
LoadedMac == {m \in SnFixed .. SnMax :
                /\ \A sn \in Sn : LoadedTable[sn].valid => sn < m
                /\ m > SnFixed => LoadedTable[m - 1].valid}

\* The header leads to a page list and that to a stream table.
Readable ==
  /\ "list" \in DOMAIN dpg[dhdr.list]
  /\ "tbl" \in DOMAIN dpg[DiskStPns[0]]

\* Close without Commit, or a crash at any point, and the next open.
CrashAndLoad ==
  /\ Readable
  /\ fpm' = DiskFpm
  /\ comm' = DiskFpm
  /\ freed' = {}
  /\ slot' = OtherSlot(dhdr.slot)
  /\ pnMac' = dhdr.mac
  /\ st' = LoadedTable
  /\ stMac' \in LoadedMac
  /\ pnList' = dhdr.list
  /\ pc' = "ready"
  /\ wr' = NoWrite
  /\ UNCHANGED <<disk, nops, nfaults>>

-----------------------------------------------------------------------------
(* A file as create() leaves it: afterCreate's Commit wrote an empty table *)
(* to the first CpnSt data pages and its list to the next.                 *)

NewTable == [sn \in Sn |-> siNil]
NewStPns == [i \in 0 .. CpnSt - 1 |-> pnDataMin + i]
NewListPn == pnDataMin + CpnSt
NewFpm == (NewListPn + 1) .. (PnMax - 2)

Init ==
  /\ dpg = [p \in DataPn |->
              IF p < NewListPn THEN TablePage(NewTable)
              ELSE IF p = NewListPn THEN ListPage(NewStPns)
              ELSE DataPage(Zero)]
  /\ fpm = NewFpm /\ comm = NewFpm /\ freed = {}
  /\ dfpm = [s \in Slots |-> IF s = 1 THEN NewFpm ELSE {}]
  /\ pnMac \in MacFrom(pnDataMin, {NewListPn})
  /\ dhdr = [slot |-> 1, mac |-> pnMac, list |-> NewListPn]
  /\ slot = 2
  /\ st = [NewTable EXCEPT ![snSt] = SI(CpnSt, CbPg, NewStPns)]
  /\ stMac = SnFixed
  /\ pnList = NewListPn
  /\ pc = "ready" /\ wr = NoWrite
  /\ nops = 0 /\ nfaults = 0

StreamOp ==
  \/ \E sn \in UserSn :
       \/ \E sz \in Sizes, b \in Bytes :
            \/ ReplaceStream(sn, sz[1], sz[2], b)
            \/ AppendStream(sn, sz[1], sz[2], b)
       \/ \E sz \in Sizes : TruncateStream(sn, sz[1], sz[2])
       \/ \E i, j \in 0 .. MaxCpn - 1, lo, hi \in Cells, b \in Bytes :
            WriteStream(sn, i, j, lo, hi, b)
       \/ DeleteStream(sn)
       \/ NonTransactionalEraseStream(sn)
  \/ GetFreeSn
  \/ WriteStreamPage
  \/ WriteStreamFails

Commit == CommitTable \/ CommitList \/ CommitFpm \/ CommitHdr \/ CommitFlush

Next == StreamOp \/ Commit \/ CrashAndLoad

Spec == Init /\ [][Next]_vars

-----------------------------------------------------------------------------
(* Types.                                                                  *)

SIOK(si) ==
  /\ si = [valid |-> si.valid, n |-> si.n, last |-> si.last, pns |-> si.pns]
  /\ si.valid \in BOOLEAN /\ si.n \in Nat /\ si.last \in 0..CbPg
  /\ si.pns \in [0 .. si.n - 1 -> DataPn]
  /\ si.last = 0 <=> si.n = 0
  /\ ~si.valid => si.n = 0

TableOK(tbl) == tbl = [sn \in Sn |-> tbl[sn]] /\ \A sn \in Sn : SIOK(tbl[sn])

\* The shape of the file and of what MSF_HB keeps in memory; every page named
\* lies between the page maps and pnMax.
TypeOK ==
  /\ dhdr \in [slot : Slots, mac : 0 .. PnMax - 1, list : DataPn]
  /\ dfpm \in [Slots -> SUBSET DataPn]
  /\ DOMAIN dpg = DataPn
  /\ slot \in Slots
  /\ pnMac \in 0 .. PnMax - 1
  /\ fpm \subseteq DataPn /\ freed \subseteq DataPn /\ comm \subseteq DataPn
  /\ TableOK(st)
  /\ stMac \in SnFixed .. SnMax
  /\ pnList \in DataPn
  /\ pc \in {"ready", "write", "list", "fpm", "hdr", "flush", "failed", "broken"}
  /\ wr \in [sn : Sn, i : Nat, j : Nat, lo : Cells, hi : Cells, b : Bytes]
  /\ nops \in Nat /\ nfaults \in Nat

-----------------------------------------------------------------------------
(* Properties.                                                             *)

UsedBy(tbl, list) ==
  {list} \cup UNION {Pages(tbl[sn]) : sn \in Sn}

Used == UsedBy(st, pnList)
DiskUsed == UsedBy(LoadedTable, dhdr.list)

\* No page is in two streams, twice in one, or both a stream's and the list.
UsedOnce(tbl, list) ==
  /\ \A s, t \in Sn : \A i \in 0 .. tbl[s].n - 1, j \in 0 .. tbl[t].n - 1 :
       tbl[s].pns[i] = tbl[t].pns[j] => s = t /\ i = j
  /\ \A s \in Sn : list \notin Pages(tbl[s])

\* MSF_HB::checkInvariants: every page is either free, freed, or in use in
\* exactly one stream (msf.cpp:1385-1429; the code runs it on entry to Commit
\* and at the end of load).  A failed operation leaks pages, so that this is
\* what holds of runs in which nothing fails.
CheckInvariants ==
  pc \in {"ready", "write"} =>
    /\ UsedOnce(st, pnList)
    /\ fpm \cap freed = {}
    /\ (fpm \cup freed) \cap Used = {}
    /\ fpm \cup freed \cup Used = DataPn

\* The part of it that survives failures: no page has two owners, and none in
\* use is free.
NoSharedPage ==
  pc \notin {"failed", "broken"} =>
    /\ UsedOnce(st, pnList)
    /\ (fpm \cup freed) \cap Used = {}

\* A page of the state on disk is not allocated again before that state has
\* been replaced (freePn and fpmCommitted, msf.cpp:1140-1153): whenever a page
\* can be allocated, no page that the file would reopen with is free.
CommittedNotAllocatable ==
  Idle \/ pc \in {"write", "list", "fpm"} => DiskUsed \cap fpm = {}

\* AppendStream writes to the last page in place: where a page belongs to the
\* committed state too, it is the same page of the same stream and what the
\* committed stream has on it ends no later (the Truncate()/Append()
\* interaction, msf.cpp:2188-2194).
CommittedExtentKept ==
  pc \notin {"failed", "broken"} =>
    \A s, t \in UserSn :
      \A i \in 0 .. st[s].n - 1, j \in 0 .. LoadedTable[t].n - 1 :
        st[s].pns[i] = LoadedTable[t].pns[j] =>
          /\ s = t /\ i = j
          /\ Extent(LoadedTable[t], j) <= Extent(st[s], i)

\* At any moment the file can be opened: the header leads to all the pages of
\* one stream table, each page it uses has one owner and lies in the file, and
\* the valid page map has none of them free.
Loadable ==
  /\ Readable
  /\ \A i \in 0 .. CpnSt - 1 : dpg[DiskStPns[i]] = TablePage(DiskTable)
  /\ UsedOnce(LoadedTable, dhdr.list)
  /\ DiskUsed \cap DiskFpm = {}
  /\ \A p \in DiskUsed : p < dhdr.mac

\* The two page maps swap roles at the header write (msf.cpp:57-61): a commit
\* never writes its page map over the one that is valid on disk.
ValidFpmKept == pc = "fpm" => slot # dhdr.slot

CellsOf(si) ==
  {c \in (0 .. si.n - 1) \X Cells : c[1] = si.n - 1 => c[2] < si.last}
Content(si) ==
  [valid |-> si.valid,
   cells |-> [c \in CellsOf(si) |-> dpg[si.pns[c[1]]].data[c[2]]]]

Current == [sn \in UserSn |-> Content(st[sn])]
Committed == [sn \in UserSn |-> Content(LoadedTable[sn])]

\* All operations are transacted, logical change occurs atomically at Commit
\* time only (msf.cpp:23-24): what the file would reopen with changes in the
\* one step that writes the header, to what the streams hold at that time.
Store == INSTANCE TransStore
           WITH Streams <- UserSn, cur <- Current, committed <- Committed
Transacted == Store!StoreSpec
=============================================================================
