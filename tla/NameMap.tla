------------------------------- MODULE NameMap -------------------------------
(***************************************************************************)
(* The name map NMT of PDB/include/nmt.h: names in a buffer, whose offsets *)
(* are the name indices, a closed hash table of the indices, and the       *)
(* stream that both are saved to.                                          *)
(*                                                                         *)
(*  - A name takes one place of the buffer, whatever its length.  niNil is *)
(*    0, the place of the empty string that every buffer starts with.      *)
(*  - The stream is written piece by piece; any of the writes may fail, and *)
(*    save then returns.  A client commits only after a save succeeded (the *)
(*    name map's owner, NMP, is not in the repository).                    *)
(*  - A name map is converted only to be read: it is not written after     *)
(*    that ("a 6.0 namemap which was in MBCS, for 7.0 reading").            *)
(*  - Memory does not run out.                                             *)
(***************************************************************************)
EXTENDS Integers, FiniteSets, FiniteSetsExt, SequencesExt

CONSTANTS
  Names,
  Utf8,       \* for a name in MBCS the UTF8 name; the others are ASCII
  NameHash,   \* for each version of the hash function a number for each name
  MaxNames,   \* bound: names in the buffer
  MaxFaults   \* bound: writes that fail

Versions == 1 .. 2     \* verLongHash, verLongHashV2; 0 is the format before them

NameMapAssumption ==
  /\ DOMAIN Utf8 \subseteq Names
  /\ \A sz \in DOMAIN Utf8 : Utf8[sz] \in Names \ DOMAIN Utf8
  /\ NameHash \in [0 .. 2 -> [Names -> Nat]]
  /\ MaxNames \in Nat /\ MaxFaults \in Nat

\* Every name has a UTF8 form of its own.  (There are code pages that have a character
\* twice.  An index leads to the name of the index it was converted to and no further, as
\* getNewNIForOld, nmt.h:886, does; but the UTF8 form of a second such name is found
\* under the converted index of the first, nmt.h:691, and would lead to an MBCS name.)
FormsApart == \A s, t \in DOMAIN Utf8 : Utf8[s] = Utf8[t] => s = t

VARIABLES
  nmt,      \* buf, mphashni, cni, cbReloaded, fConvert, version, mpoldnew
  stream,   \* the stream as it is in this session
  disk,     \* the stream as it was committed
  saved,    \* did the last save succeed, and nothing was added since?
  nfaults

nmtVars == <<nmt, stream, disk, saved, nfaults>>

niNil == 0

-----------------------------------------------------------------------------
(* The hash table.                                                         *)

NoneIn(n) == [i \in 0 .. n - 1 |-> niNil]
SlotCount(t) == Cardinality(DOMAIN t)
NIsIn(t) == {t[i] : i \in DOMAIN t} \ {niNil}

\* szForNi: the name of an index, after conversion the UTF8 one.
szForNi(m, ni) ==
  m.buf[IF ni \in DOMAIN m.mpoldnew THEN m.mpoldnew[ni] ELSE ni]

NameProbe(m, t, sz, k) == (NameHash[m.ver][sz] + k) % SlotCount(t)

\* The probes at which find can end: a free slot, or the name's.
ProbesEnding(m, sz) ==
  {k \in DOMAIN m.tab :
     LET ni == m.tab[NameProbe(m, m.tab, sz, k)] IN ni = niNil \/ szForNi(m, ni) = sz}

\* find returns, and this is where.
Finds(m, sz) == ProbesEnding(m, sz) # {}
find(m, sz) == NameProbe(m, m.tab, sz, Min(ProbesEnding(m, sz)))
niForSz(m, sz) == m.tab[find(m, sz)]

\* The first free slot for an index in the table being made.
SlotFor(m, t, ni) ==
  NameProbe(m, t, szForNi(m, ni),
            Min({k \in DOMAIN t : t[NameProbe(m, t, szForNi(m, ni), k)] = niNil}))
Placed(m, t, ni) == IF ni = niNil THEN t ELSE [t EXCEPT ![SlotFor(m, t, ni)] = ni]

rehash(m, n) ==
  LET new[k \in 0 .. SlotCount(m.tab)] ==
        IF k = 0 THEN NoneIn(n) ELSE Placed(m, new[k - 1], m.tab[k - 1])
  IN [m EXCEPT !.tab = new[SlotCount(m.tab)]]

\* Mutant: the table may become full.
GrowsWhenOver(m) ==
  LET cni == m.cni + 1 IN
  IF SlotCount(m.tab) < cni THEN rehash([m EXCEPT !.cni = cni], (SlotCount(m.tab) * 3) \div 2 + 1)
                       ELSE [m EXCEPT !.cni = cni]

growNMT(m) ==
  LET cni == m.cni + 1 IN
  IF (SlotCount(m.tab) * 3) \div 4 < cni
  THEN rehash([m EXCEPT !.cni = cni], (SlotCount(m.tab) * 3) \div 2 + 1)
  ELSE [m EXCEPT !.cni = cni]

\* addNiForSz: the name is found, or appended to the buffer and the table.
addNiForSz(m, sz) ==
  IF niForSz(m, sz) # niNil THEN m
  ELSE LET ni == Len(m.buf) + 1 IN
       growNMT([m EXCEPT !.buf = Append(@, sz), !.tab[find(m, sz)] = ni])

\* convert: each MBCS name that is there gets an entry for its UTF8 name, in
\* the order of the buffer, and its index stands for that name from then on.
Reformed(m, ni) ==
  LET sz == Utf8[m.buf[ni]]
      new == addNiForSz(m, sz) IN
  [new EXCEPT !.mpoldnew =
     [i \in DOMAIN @ \cup {ni} |-> IF i = ni THEN niForSz(new, sz) ELSE @[i]]]

convert(m) ==
  LET new[k \in 0 .. Len(m.buf)] ==
        IF k = 0 THEN m
        ELSE IF m.buf[k] \in DOMAIN Utf8 THEN Reformed(new[k - 1], k) ELSE new[k - 1]
  IN new[Len(m.buf)]

-----------------------------------------------------------------------------
(* Saving and loading.                                                     *)

\* mpoldnew before a conversion.
NoneNew == [ni \in {} |-> niNil]

\* An NMT made for a version, with nothing in it.
NewNMT(ver) ==
  [buf |-> <<>>, tab |-> NoneIn(1), cni |-> 0, cbReloaded |-> -1,
   fConvert |-> FALSE, ver |-> ver, mpoldnew |-> NoneNew]

NoStream == [ver |-> 0, cb |-> 0, names |-> <<>>, tab |-> <<>>, cni |-> -1]

\* Mutant: what was reloaded stays where it is although the format changes.
SizeKept(m) == m.cbReloaded

\* How much of the buffer the stream has already; -1 when it is to be written
\* anew.
KeptSize(m) == IF m.fConvert THEN -1 ELSE m.cbReloaded

\* The stream after the first k pieces of a save.
Pieces == 5
Written(m, s, k) ==
  LET keep == KeptSize(m)
      start == IF k = 0 THEN s
               ELSE IF keep >= 0
                    THEN IF k = 1 THEN [s EXCEPT !.cb = Len(m.buf)]     \* Write the size
                         ELSE [s EXCEPT !.cb = Len(m.buf), !.tab = <<>>, !.cni = -1,
                                        !.names = SubSeq(s.names, 1, keep)]   \* Truncate
                    ELSE [NoStream EXCEPT !.ver = IF k = 1 THEN 0 ELSE m.ver,
                                          !.cb = IF k = 1 THEN 0 ELSE Len(m.buf)] IN
  [start EXCEPT
     !.names = IF k < 3 THEN @ ELSE @ \o SubSeq(m.buf, Max({keep, 0}) + 1, Len(m.buf)),
     !.tab = IF k < 4 THEN @ ELSE m.tab,
     !.cni = IF k < 5 THEN @ ELSE m.cni]

\* Mutant: the version of the stream is not looked at.
HashAsAsked(s, ver) == ver

\* The hash function used after a reload.
HashFor(s, ver) == IF s.ver < ver THEN ver ELSE s.ver

Loaded(s, ver) ==
  LET m == [buf |-> s.names, tab |-> s.tab, cni |-> s.cni, cbReloaded |-> s.cb,
            fConvert |-> s.ver < ver, ver |-> HashFor(s, ver), mpoldnew |-> NoneNew] IN
  IF m.fConvert THEN rehash(m, SlotCount(m.tab)) ELSE m

-----------------------------------------------------------------------------
(* The calls.                                                              *)

Converted == DOMAIN nmt.mpoldnew # {}

\* The bound is on new names only.
AddName(sz) ==
  /\ ~Converted
  /\ Len(nmt.buf) < MaxNames \/ niForSz(nmt, sz) # niNil
  /\ nmt' = addNiForSz(nmt, sz)
  /\ saved' = (saved /\ nmt'.buf = nmt.buf)
  /\ UNCHANGED <<stream, disk, nfaults>>

Convert ==
  /\ ~Converted
  /\ disk.cni >= 0 /\ Len(nmt.buf) + Cardinality(DOMAIN Utf8) <= MaxNames
  /\ nmt' = convert(nmt)
  /\ UNCHANGED <<stream, disk, saved, nfaults>>

SaveNothing ==
  /\ ~Converted
  /\ Len(nmt.buf) = KeptSize(nmt)
  /\ saved' = TRUE
  /\ UNCHANGED <<nmt, stream, disk, nfaults>>

Save ==
  /\ ~Converted
  /\ Len(nmt.buf) # KeptSize(nmt)
  /\ stream' = Written(nmt, stream, Pieces)
  /\ nmt' = [nmt EXCEPT !.cbReloaded = Len(nmt.buf), !.fConvert = FALSE]
  /\ saved' = TRUE
  /\ UNCHANGED <<disk, nfaults>>

\* Mutant: the size to keep is set before the writes.
ForgetsFailure(k) ==
  /\ ~Converted
  /\ Len(nmt.buf) # KeptSize(nmt) /\ nfaults < MaxFaults
  /\ stream' = Written(nmt, stream, k)
  /\ nmt' = [nmt EXCEPT !.cbReloaded = Len(nmt.buf), !.fConvert = FALSE]
  /\ saved' = FALSE
  /\ nfaults' = nfaults + 1
  /\ UNCHANGED disk

\* Mutant: the failure of a write is not reported.
IgnoresFailure(k) ==
  /\ ~Converted
  /\ Len(nmt.buf) # KeptSize(nmt) /\ nfaults < MaxFaults
  /\ stream' = Written(nmt, stream, k)
  /\ nmt' = [nmt EXCEPT !.cbReloaded = KeptSize(nmt)]
  /\ saved' = TRUE
  /\ nfaults' = nfaults + 1
  /\ UNCHANGED disk

\* One of the writes fails: save returns FALSE and the stream keeps the rest.
SaveFails(k) ==
  /\ ~Converted
  /\ Len(nmt.buf) # KeptSize(nmt) /\ nfaults < MaxFaults
  /\ stream' = Written(nmt, stream, k)
  /\ nmt' = [nmt EXCEPT !.cbReloaded = KeptSize(nmt)]
  /\ saved' = FALSE
  /\ nfaults' = nfaults + 1
  /\ UNCHANGED disk

Commit ==
  /\ saved /\ ~Converted
  /\ disk' = stream
  /\ UNCHANGED <<nmt, stream, saved, nfaults>>

\* The map is closed, and opened again by a program that asks for a version.
Reopen(ver) ==
  /\ disk.cni >= 0
  /\ stream' = disk
  /\ nmt' = Loaded(disk, ver)
  /\ saved' = ~nmt'.fConvert
  /\ UNCHANGED <<disk, nfaults>>

\* A stream as the format before the versions had it, with one name.
OldStream(sz) ==
  [ver |-> 0, cb |-> 1, names |-> <<sz>>, cni |-> 1,
   tab |-> [i \in 0 .. 1 |-> IF i = NameHash[0][sz] % 2 THEN 1 ELSE niNil]]

NmtInit ==
  /\ \E ver \in Versions :
       \/ nmt = NewNMT(ver) /\ disk = NoStream
       \/ \E sz \in Names : disk = OldStream(sz) /\ nmt = Loaded(disk, ver)
  /\ stream = disk
  /\ saved = FALSE
  /\ nfaults = 0

NmtNext ==
  \/ \E sz \in Names : AddName(sz)
  \/ Convert
  \/ Save \/ SaveNothing
  \/ \E k \in 0 .. Pieces - 1 : SaveFails(k)
  \/ Commit
  \/ \E ver \in Versions : Reopen(ver)

NmtSpec == NmtInit /\ [][NmtNext]_nmtVars

-----------------------------------------------------------------------------
(* Properties.                                                             *)

\* Every name of the buffer is found, under an index that stands for it, and
\* every search ends: the table has a free slot and no gap before a name,
\* however it grew, was rehashed for another function or converted, and
\* although converted names have two indices (nmt.h:691-774).
AllFound(m) ==
  /\ \A sz \in Names : Finds(m, sz)
  /\ \A ni \in DOMAIN m.buf :
       LET sz == szForNi(m, ni) IN niForSz(m, sz) # niNil /\ szForNi(m, niForSz(m, sz)) = sz
  /\ m.cni = Cardinality(NIsIn(m.tab)) /\ m.cni = Len(m.buf)
NamesFound == AllFound(nmt)

\* What a commit made durable can be opened by a program that asks for any
\* version, and it has all names (nmt.h:594-640, 370-484).
DiskLoadable ==
  disk.cni >= 0 => disk.cb = Len(disk.names) /\ \A ver \in Versions : AllFound(Loaded(disk, ver))

\* An index that was committed stands for its name for ever: streams hold
\* the offsets of names.
IndicesKept == [][IsPrefix(disk.names, disk'.names)]_nmtVars

\* The part of the stream that a save leaves alone is the first part of the
\* buffer, also after a save that failed (nmt.h:602-636).
PrefixSaved ==
  KeptSize(nmt) >= 0 => IsPrefix(SubSeq(nmt.buf, 1, KeptSize(nmt)), stream.names)

\* What the clients of a name map rely on (nmt.h:99-140, 370-640).
NamesRight == NamesFound /\ DiskLoadable /\ PrefixSaved
=============================================================================
