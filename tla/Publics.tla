----------------------------- MODULE Publics -----------------------------
(* The public symbols of a DBI (PSGSI1): a table by name like that of the   *)
(* globals, an address map (the symbols in the order of their addresses),   *)
(* merged at each save from the last one, the additions and the deletions,  *)
(* and the thunks of an incremental link.  A symbol is told by its offset   *)
(* among the symbol records; 0 is the dummy that stands for all thunks.     *)
EXTENDS SymChains

CONSTANTS
  Addrs,      \* addresses of publics: [isect, off]
  Asked,      \* addresses that readers ask for
  ThunkMaps,  \* what each thunk of a table leads to: sequences of offsets in the image
  ThunkTable, \* the address of the table; a thunk takes one
  SectMap,    \* where the sections start in the image: sequence of [isect, off]
  MaxRecs     \* bound: records that are ever added

VARIABLES
  pc,         \* "write", "read" or "closed"
  recs,       \* bufSymRecs, the publics among them
  chains,     \* rgphrBuckets
  fCreate,    \* no public symbols were saved before
  new, del,   \* bufNewAddrMap, bufDelAddrMap
  thunks,     \* bufThunkMap
  nThunks,    \* psgsihdr.nThunks
  cur,        \* bufCurAddrMap of a reader
  iPubs, iThunks, \* EnumPubsByAddr
  located,    \* ghost: the address that was located last, if nothing was asked since, and
              \* where the enumeration was among the thunks
  stream,     \* the stream, as last saved
  want,       \* ghost: the publics, by name
  dead        \* ghost: those replaced or removed in the session that created the publics

enum == <<iPubs, iThunks, located>>
vars == <<pc, recs, chains, fCreate, new, del, thunks, nThunks, cur, enum, stream, want, dead>>

Absent == [isect |-> 0, off |-> 0]
Nowhere == [at |-> Absent, iThunks |-> -2]

NoStream == [hash |-> fWriteHash(NoSyms), map |-> <<>>, nThunks |-> 0, thunks |-> <<>>, sn |-> FALSE]

Init ==
  /\ pc = "closed" /\ recs = <<>> /\ chains = NoSyms /\ fCreate = FALSE
  /\ new = <<>> /\ del = <<>> /\ thunks = <<>> /\ nThunks = 0
  /\ cur = <<>> /\ iPubs = -1 /\ iThunks = -2
  /\ located = Nowhere
  /\ stream = NoStream
  /\ want = [n \in SymNames |-> Absent]
  /\ dead = {}

-----------------------------------------------------------------------------
(* The order of the addresses *)
Dummy == 0
Base == [name |-> "Base", isect |-> ThunkTable.isect, off |-> ThunkTable.off]
Pub(o) == IF o = Dummy THEN Base ELSE recs[o]

cmpAddrMapByAddr(a, p) == IF a.isect = p.isect THEN a.off - p.off ELSE a.isect - p.isect

cmpAddrMapByAddrAndName(o, p) ==
  LET byAddr == cmpAddrMapByAddr(Pub(o), Pub(p))
  IN byAddr < 0 \/ (byAddr = 0 /\ (memcmp(Pub(o).name, Pub(p).name) < 0 \/ o = p))

-----------------------------------------------------------------------------
(* A session that writes *)
Insert(c, i, p) ==
  /\ recs' = Append(recs, p)
  /\ chains' = [chains EXCEPT ![hashSz[p.name]] = fInsertNewSym(c, i, p, Len(recs) + 1)]
  /\ new' = Append(new, Len(recs) + 1)

\* The session that creates the publics does not bother: they stay in its map.
DeletesNothing(o) == UNCHANGED <<del, dead>>
delFromAddrMap(o) ==
  IF fCreate THEN dead' = dead \cup {o} /\ UNCHANGED del
  ELSE del' = Append(del, o) /\ UNCHANGED dead

\* The public of that very name, if there is one.
AnyCase(chain, n) == fFindRec(chain, n)
Exact(chain, n) == {i \in fFindRec(chain, n) : chain[i].rec.name = n}

\* A public that differs from the one of its name replaces it.
packSym(p) ==
  LET chain == chains[hashSz[p.name]]
      found == fFindRec(chain, p.name)
      exact == Exact(chain, p.name)
  IN /\ pc = "write" /\ Len(recs) < MaxRecs
     /\ IF exact = {}
        THEN /\ Insert(chain, Min(found \cup {Past(chain, p.name)}), p)
             /\ UNCHANGED <<del, dead>>
        ELSE LET i == Min(exact)
             IN /\ chain[i].rec # p
                /\ delFromAddrMap(chain[i].off)
                /\ Insert(fUnlinkHR(chain, i), i, p)
     /\ want' = [want EXCEPT ![p.name] = [isect |-> p.isect, off |-> p.off]]
     /\ UNCHANGED <<pc, fCreate, thunks, nThunks, cur, enum, stream>>

removeSym(n) ==
  LET chain == chains[hashSz[n]]
      exact == Exact(chain, n)
  IN /\ pc = "write" /\ exact # {}
     /\ delFromAddrMap(chain[Min(exact)].off)
     /\ chains' = [chains EXCEPT ![hashSz[n]] = fUnlinkHR(@, Min(exact))]
     /\ want' = [want EXCEPT ![n] = Absent]
     /\ UNCHANGED <<pc, recs, fCreate, new, thunks, nThunks, cur, enum, stream>>

\* The linker gives the thunks once in a session.
addThunkMap(t) ==
  /\ pc = "write" /\ thunks = <<>>
  /\ nThunks' = Len(t) /\ thunks' = thunks \o t
  /\ UNCHANGED <<pc, recs, chains, fCreate, new, del, cur, enum, stream, want, dead>>

sortBuf(map) == SortSeq(map, LAMBDA o, p : o # p /\ cmpAddrMapByAddrAndName(o, p))
sortBuf2(map) == SortSeq(map, <)

\* Three ways: the last map and the additions, both in the order of the records,
\* are taken one by one, and the deletions run along.
RECURSIVE mergeAddrMap(_, _, _)
mergeAddrMap(c, n, d) ==
  IF c = <<>> /\ n = <<>> THEN <<>>
  ELSE LET fNew == n # <<>> /\ (c = <<>> \/ n[1] <= c[1])
           sym == IF fNew THEN n[1] ELSE c[1]
           past == {i \in DOMAIN d : d[i] >= sym}
           from == IF past = {} THEN Len(d) + 1 ELSE Min(past)
           fKeep == past = {} \/ d[from] # sym
           rest == mergeAddrMap(IF fNew THEN c ELSE Tail(c), IF fNew THEN Tail(n) ELSE n,
                                SubSeq(d, IF fKeep THEN from ELSE from + 1, Len(d)))
       IN IF fKeep THEN <<sym>> \o rest ELSE rest

ResultAddrMap ==
  IF fCreate THEN sortBuf(new) ELSE sortBuf(mergeAddrMap(sortBuf2(stream.map), new, sortBuf2(del)))

\* The thunks of a table are given again at each session, or the header would
\* speak of a map that is not there.
fSave ==
  /\ pc = "write" /\ Len(thunks) = nThunks
  /\ stream' = [hash |-> fWriteHash(chains), map |-> ResultAddrMap, nThunks |-> nThunks,
                thunks |-> thunks, sn |-> TRUE]
  /\ pc' = "closed" /\ chains' = NoSyms /\ new' = <<>> /\ del' = <<>>
  /\ thunks' = <<>> /\ nThunks' = 0 /\ fCreate' = FALSE
  /\ UNCHANGED <<recs, cur, enum, want, dead>>

-----------------------------------------------------------------------------
(* Opening; a writer does not read the address map before it saves *)
fInit(mode) ==
  /\ pc = "closed" /\ (mode = "read" => stream.sn)
  /\ pc' = mode
  /\ chains' = fixHashIn(stream.hash)
  /\ fCreate' = ~stream.sn
  /\ nThunks' = stream.nThunks
  /\ cur' = IF mode = "read" THEN stream.map ELSE <<>>
  /\ UNCHANGED <<recs, new, del, thunks, enum, stream, want, dead>>

Close ==
  /\ pc = "read"
  /\ pc' = "closed" /\ chains' = NoSyms /\ cur' = <<>> /\ thunks' = <<>> /\ nThunks' = 0
  /\ iPubs' = -1 /\ iThunks' = -2 /\ located' = Nowhere
  /\ UNCHANGED <<recs, fCreate, new, del, stream, want, dead>>

\* The thunks are read when they are first asked for, and the dummy goes into the
\* address map, before the publics at its address.
AtTheEnd(map) == Append(map, Dummy)
WithDummy(map) ==
  LET from == {i \in DOMAIN map : cmpAddrMapByAddr(Pub(map[i]), Base) >= 0}
  IN InsertAt(map, Min(from \cup {Len(map) + 1}), Dummy)

readThunkMap ==
  /\ pc = "read" /\ thunks = <<>> /\ nThunks > 0
  /\ thunks' = stream.thunks
  /\ cur' = WithDummy(cur)
  /\ UNCHANGED <<pc, recs, chains, fCreate, new, del, nThunks, enum, stream, want, dead>>

-----------------------------------------------------------------------------
(* Searches by address *)
None == [thunk |-> 0, of |-> -1]
Nearest(o) == [thunk |-> 0, of |-> o]

BinarySearch(map, a) ==
  LET search[lo \in DOMAIN map, hi \in 0 .. Len(map)] ==
        IF lo >= hi THEN lo
        ELSE LET mid == lo + (hi - lo + 1) \div 2
                 cmp == cmpAddrMapByAddr(a, Pub(map[mid]))
             IN IF cmp < 0 THEN search[lo, mid - 1] ELSE IF cmp > 0 THEN search[mid, hi] ELSE mid
  IN search[1, Len(map)]

AnyAt(map, lo) == lo

\* Of several at one address (ICF), the first.
FirstAt(map, lo) ==
  Min({i \in 1 .. lo : \A k \in i .. lo : cmpAddrMapByAddr(Pub(map[k]), Pub(map[lo])) = 0})

\* In a section without a symbol before the address, the first of that section.
NearestIn(map, a) ==
  LET lo == BinarySearch(map, a)
      further == {i \in lo .. Len(map) : Pub(map[i]).isect >= a.isect}
  IN IF Pub(map[lo]).isect = a.isect THEN Nearest(map[FirstAt(map, lo)])
     ELSE IF Pub(map[lo]).isect > a.isect THEN Nearest(map[lo])
     ELSE IF further # {} /\ Pub(map[Min(further)]).isect = a.isect THEN Nearest(map[Min(further)])
     ELSE None

fInThunkTable(a) ==
  a.isect = ThunkTable.isect /\ a.off \in ThunkTable.off .. ThunkTable.off + nThunks - 1
iThunk(a) == a.off - ThunkTable.off

EndsLate(off) ==
  LET within == {i \in 1 .. Len(SectMap) - 1 : SectMap[i].off <= off /\ off <= SectMap[i + 1].off}
      sect == SectMap[IF within = {} THEN Len(SectMap) ELSE Min(within)]
  IN [isect |-> sect.isect, off |-> off - sect.off]
mapOff(off) ==
  LET within == {i \in 1 .. Len(SectMap) - 1 : SectMap[i].off <= off /\ off < SectMap[i + 1].off}
      sect == SectMap[IF within = {} THEN Len(SectMap) ELSE Min(within)]
  IN [isect |-> sect.isect, off |-> off - sect.off]

pbInThunkTable(a) ==
  LET target == mapOff(thunks[iThunk(a) + 1])
  IN IF fInThunkTable(target) THEN None
     ELSE IF NearestIn(cur, target) = None THEN None
     ELSE [NearestIn(cur, target) EXCEPT !.thunk = iThunk(a) + 1]

\* The other way: the thunks that lead to an address (getEnumThunk, PSEnumThunk).
offThunk(a) ==
  LET at == {i \in DOMAIN SectMap : SectMap[i].isect = a.isect}
  IN IF at = {} THEN 0 ELSE SectMap[Min(at)].off + a.off
PSEnumThunk(a) == IF offThunk(a) = 0 THEN {} ELSE {i \in DOMAIN thunks : thunks[i] = offThunk(a)}

NearestSym(a) ==
  IF cur = <<>> THEN None
  ELSE IF fInThunkTable(a) /\ pbInThunkTable(a) # None THEN pbInThunkTable(a)
  ELSE NearestIn(cur, a)

-----------------------------------------------------------------------------
(* EnumPubsByAddr: over the address map, and over the thunks at the dummy.  *)
(* It is made when the thunks have been read.                               *)
Enumerable == pc = "read" /\ (nThunks > 0 => thunks # <<>>)

Asks == UNCHANGED <<pc, recs, chains, fCreate, new, del, thunks, nThunks, cur, stream, want, dead>>

\* The thunks are left alone when the address is not among them; a thunk that leads
\* to no symbol makes it fail.
locate(a) ==
  /\ Enumerable
  /\ iPubs' = IF cur = <<>> THEN iPubs
              ELSE LET lo == BinarySearch(cur, a)
                       first == FirstAt(cur, lo)
                       from == Max({first} \cup {i \in first + 1 .. lo : cur[i - 1] = Dummy})
                   IN IF cmpAddrMapByAddr(a, Pub(cur[lo])) < 0 THEN -1 ELSE from - 2
  /\ iThunks' = IF fInThunkTable(a) /\ pbInThunkTable(a) # None THEN iThunk(a) - 1 ELSE iThunks
  /\ located' = IF fInThunkTable(a) /\ pbInThunkTable(a) = None THEN Nowhere
                ELSE [at |-> a, iThunks |-> IF fInThunkTable(a) THEN -2 ELSE iThunks]
  /\ Asks

\* Where next gets to; past the last it answers FALSE.
InThunks == iThunks # -2 /\ iThunks + 1 < nThunks
AtDummy == iPubs + 1 < Len(cur) /\ cur[iPubs + 2] = Dummy
NextAt ==
  IF InThunks THEN [pub |-> iPubs, thunk |-> iThunks + 1]
  ELSE [pub |-> iPubs + 1, thunk |-> IF AtDummy THEN 0 ELSE -2]

next ==
  /\ Enumerable /\ iPubs < Len(cur)
  /\ iPubs' = NextAt.pub /\ iThunks' = NextAt.thunk
  /\ located' = Nowhere
  /\ Asks

prev ==
  /\ Enumerable
  /\ IF iThunks > 0 THEN iThunks' = iThunks - 1 /\ UNCHANGED iPubs
     ELSE iThunks' = -2 /\ iPubs' = IF iPubs = -1 THEN -1 ELSE iPubs - 1
  /\ located' = Nowhere
  /\ Asks

reset ==
  /\ pc = "read" /\ iPubs' = -1 /\ iThunks' = -2
  /\ located' = Nowhere
  /\ Asks

Next ==
  \/ \E n \in SymNames, a \in Addrs : packSym([name |-> n] @@ a)
  \/ \E n \in SymNames : removeSym(n)
  \/ \E t \in ThunkMaps : addThunkMap(t)
  \/ \E mode \in {"read", "write"} : fInit(mode)
  \/ fSave \/ Close \/ readThunkMap
  \/ \E a \in Asked : locate(a)
  \/ next \/ prev \/ reset

Spec == Init /\ [][Next]_vars

-----------------------------------------------------------------------------
Saved == fixHashIn(stream.hash)
Places(c) == {<<b, i>> \in Buckets \X (1 .. MaxRecs) : i \in DOMAIN c[b]}

\* The table has for each name the public that was given last, and none that was
\* removed (packSym, removeSym: names are told apart by case, the search is not).
PublicsRight ==
  pc # "closed" =>
    {chains[e[1]][e[2]].rec : e \in Places(chains)}
    = {[name |-> n] @@ want[n] : n \in {m \in SymNames : want[m] # Absent}}

\* The address map that is saved has every public of the table, once, in the order
\* of addresses and names, and else just those that were replaced or removed in the
\* session that created it, however often it is merged since (delFromAddrMap,
\* mergeAddrMap, sortBuf).
AddrMapRight ==
  LET live == {Saved[e[1]][e[2]].off : e \in Places(Saved)}
      all == IF stream.sn THEN live \cup dead ELSE {}
  IN /\ Len(stream.map) = Cardinality(all) /\ {stream.map[i] : i \in DOMAIN stream.map} = all
     /\ \A i \in 2 .. Len(stream.map) : ~cmpAddrMapByAddrAndName(stream.map[i], stream.map[i - 1])

Before(a) == {i \in DOMAIN cur : cmpAddrMapByAddr(a, Pub(cur[i])) >= 0}
FirstOf(at) == Min({i \in DOMAIN cur : Pub(cur[i]).isect = Pub(cur[at]).isect /\ Pub(cur[i]).off = Pub(cur[at]).off})

\* The public nearest to an address is the first at the last address that is not
\* after it, in its section, or the first of the section; a section without any
\* has none.  The address of a thunk leads to what the thunk leads to, unless
\* that is a thunk again.  (Sections before all publics are left out: NearestSym.)
WantIn(a) ==
  LET sect == {i \in DOMAIN cur : Pub(cur[i]).isect = a.isect}
  IN IF sect = {} THEN None
     ELSE Nearest(cur[IF sect \cap Before(a) = {} THEN Min(sect) ELSE FirstOf(Max(sect \cap Before(a)))])
Covered(a) == \E i \in DOMAIN cur : Pub(cur[i]).isect <= a.isect
NearestRight ==
  pc = "read" =>
    \A a \in {x \in Asked : Covered(x)} :
      IF ~fInThunkTable(a) THEN NearestSym(a) = WantIn(a)
      ELSE thunks = <<>> \/
           LET target == mapOff(thunks[iThunk(a) + 1])
           IN Covered(target) =>
                NearestSym(a) = IF fInThunkTable(target) \/ WantIn(target) = None THEN WantIn(a)
                                ELSE [WantIn(target) EXCEPT !.thunk = iThunk(a) + 1]

\* The thunks listed for an address are those that lead to it (getEnumThunk, mapOff;
\* the start of the image, for which none is ever listed, is left out).
ThunksRight ==
  pc = "read" =>
    \A a \in Asked : PSEnumThunk(a) = {i \in DOMAIN thunks : thunks[i] # 0 /\ mapOff(thunks[i]) = a}

\* "Locate followed by next will always give you the enclosing symbol (public at
\* or preceeding this address), except when you asked for something before the
\* first symbol": the thunk, for an address in the table of thunks.  An enumeration
\* that was among the thunks gives the rest of them first (locate, next).
Enclosing(a) ==
  LET last == Max(Before(a))
  IN IF cur[FirstOf(last)] = Dummy /\ last > FirstOf(last) THEN FirstOf(last) + 1 ELSE FirstOf(last)
LocateRight ==
  LET a == located.at
      left == located.iThunks + 1
  IN located # Nowhere /\ Before(a) # {} =>
       IF fInThunkTable(a) THEN NextAt.thunk = iThunk(a)
       ELSE /\ iPubs + 2 = Enclosing(a)
            /\ NextAt = IF left \in 0 .. nThunks - 1 THEN [pub |-> iPubs, thunk |-> left]
                        ELSE [pub |-> iPubs + 1, thunk |-> IF cur[Enclosing(a)] = Dummy THEN 0 ELSE -2]
=============================================================================
