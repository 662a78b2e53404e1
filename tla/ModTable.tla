------------------------------ MODULE ModTable ------------------------------
(* The module table of a DBI (DBI1): the modules of an image, the section   *)
(* contributions that tell which module is at an address, and the source    *)
(* files of each module.  A linker opens the DBI for writing, opens some of *)
(* its modules again, places their contributions and closes them; readers   *)
(* then ask for addresses, contributions and files.                         *)
EXTENDS Naturals, Sequences, SequencesExt, FiniteSets

CONSTANTS
  ModNames,   \* names of modules
  Contribs,   \* contributions a module may have: [sect, off, cb, code, crc]
  FileLists,  \* lists of source files each module may have
  MaxScs,     \* bound: contributions of a module
  MaxOpen,    \* modules open at a time
  RefWidth,   \* the counts of references are kept modulo this, 2^16 in the code
  Reopens     \* a module may be opened again in the session that creates the DBI

VARIABLES
  mode,       \* "none", "r", or "w"
  modis,      \* rgpmodi: the modules in memory
  scs,        \* bufSC up to pbscEnd
  cleared,    \* fSCCleared
  pmods,      \* pmodi->pmod->sc of the open modules: what is not flushed yet
  names,      \* bufFilenames, and nmtFileInfo which goes with it
  mpSecToSC,
  disk,       \* the DBI stream
  placed, given, \* ghosts: the contributions and files of each module's last session
  opened      \* ghost: modules that are not opened again in this session

vars == <<mode, modis, scs, cleared, pmods, names, mpSecToSC, disk, placed, given, opened>>

Empty == <<>>
isectNil == [sect |-> 0]
Imods == DOMAIN modis

imodForModName(name) == {i \in Imods : modis[i].name = name}

\* The entries of imod go: the last entry takes the place of each.
RECURSIVE Invalidated(_, _, _)
Invalidated(s, i, imod) ==
  IF i > Len(s) THEN s
  ELSE IF s[i].imod = imod THEN Invalidated(Front([s EXCEPT ![i] = Last(s)]), i, imod)
  ELSE Invalidated(s, i + 1, imod)

\* The same, but the entry that was moved is not looked at.
RECURSIVE SkipsMoved(_, _, _)
SkipsMoved(s, i, imod) ==
  IF i > Len(s) THEN s
  ELSE IF s[i].imod = imod THEN SkipsMoved(Front([s EXCEPT ![i] = Last(s)]), i + 1, imod)
  ELSE SkipsMoved(s, i + 1, imod)

OverMoved(imod) == IF cleared THEN scs ELSE SkipsMoved(scs, 1, imod)
invalidateSCforMod(imod) == IF cleared THEN scs ELSE Invalidated(scs, 1, imod)

\* The pending contribution of imod is appended; the first that is code is kept.
FirstOfAny(imod) ==
  LET sc == pmods[imod]
  IN [scs |-> IF sc = isectNil THEN scs ELSE Append(scs, sc),
      modi |-> IF sc # isectNil /\ modis[imod].first = isectNil
               THEN [modis[imod] EXCEPT !.first = sc] ELSE modis[imod]]
fUpdateSecContrib(imod) ==
  LET sc == pmods[imod]
  IN [scs |-> IF sc = isectNil THEN scs ELSE Append(scs, sc),
      modi |-> IF sc # isectNil /\ modis[imod].first = isectNil /\ sc.code
               THEN [modis[imod] EXCEPT !.first = sc] ELSE modis[imod]]

\* addFilename for a list of files: known names keep their offset.
Added(known, files) == known \o SelectSeq(files, LAMBDA f : f \notin {known[k] : k \in DOMAIN known})
ichOf(known, f) == CHOOSE k \in DOMAIN known : known[k] = f
Ichs(known, files) == [k \in DOMAIN files |-> ichOf(known, files[k])]

BySect(a, b) == a.sect < b.sect
SCCmp(a, b) == a.sect < b.sect \/ (a.sect = b.sect /\ a.off < b.off)
Sorted(s) == SortSeq(s, SCCmp)

RECURSIVE FlatIchs(_)
FlatIchs(ms) == IF ms = <<>> THEN <<>> ELSE Head(ms).files \o FlatIchs(Tail(ms))

\* QueryFileInfo: the counts are truncated, the references are not.
FileInfo(ms) ==
  [cRefs |-> Len(FlatIchs(ms)) % RefWidth,
   mpimodcref |-> [i \in DOMAIN ms |-> Len(ms[i].files)],
   mpimodiref |-> [i \in DOMAIN ms |-> Len(FlatIchs(SubSeq(ms, 1, i - 1))) % RefWidth],
   mpirefichFile |-> FlatIchs(ms),
   names |-> names]

\* Where the references of module i start: counted anew from the modules' counts.
StoredStart(fi, i) == fi.mpimodiref[i]
RECURSIVE cRefsDone(_, _)
cRefsDone(fi, i) == IF i = 1 THEN 0 ELSE cRefsDone(fi, i - 1) + fi.mpimodcref[i - 1]

\* The files of module i as they are found in the stream.
FilesIn(fi, i) ==
  LET start == cRefsDone(fi, i)
  IN [k \in 1 .. fi.mpimodcref[i] |-> fi.names[fi.mpirefichFile[start + k]]]

\* reloadFileInfo: only the names that are referred to are kept.
RECURSIVE NamesFrom(_, _)
NamesFrom(fi, i) ==
  IF i = 0 THEN <<>>
  ELSE LET known == NamesFrom(fi, i - 1) IN Added(known, FilesIn(fi, i))

-----------------------------------------------------------------------------
Nobody == [i \in {} |-> {}]

Init ==
  /\ mode = "none" /\ modis = <<>> /\ scs = <<>> /\ cleared = FALSE /\ pmods = Nobody
  /\ names = <<>> /\ mpSecToSC = Empty
  /\ disk = [modis |-> <<>>, scs |-> <<>>, files |-> [cRefs |-> 0, mpimodcref |-> <<>>, mpimodiref |-> <<>>,
                                                       mpirefichFile |-> <<>>, names |-> <<>>]]
  /\ placed = [n \in ModNames |-> {}] /\ given = [n \in ModNames |-> <<>>] /\ opened = {}

\* What fInit reads: the modules, whose files are numbered anew, and the
\* contributions (getSecContribs).
LoadedNames == NamesFrom(disk.files, Len(disk.modis))
LoadedModis ==
  [i \in DOMAIN disk.modis |-> [disk.modis[i] EXCEPT !.files = Ichs(LoadedNames, FilesIn(disk.files, i))]]
getSecContribs == disk.scs

Open(m) ==
  /\ mode = "none"
  /\ mode' = m /\ modis' = LoadedModis /\ scs' = getSecContribs /\ names' = LoadedNames
  /\ UNCHANGED <<cleared, pmods, mpSecToSC, disk, placed, given, opened>>

\* A create clears what it loaded, all but the names (clearDBI).
Create ==
  /\ mode = "none"
  /\ mode' = "w" /\ modis' = <<>> /\ scs' = <<>> /\ names' = LoadedNames /\ cleared' = TRUE
  /\ placed' = [n \in ModNames |-> {}] /\ given' = [n \in ModNames |-> <<>>]
  /\ UNCHANGED <<pmods, mpSecToSC, disk, opened>>

\* Mod1::fInit for a writer: a module starts without files and contributions.
initFileInfo(modi) == [modi EXCEPT !.first = isectNil, !.files = <<>>]

\* DBI1::OpenModW; a new module goes to the end.
OpenMod(name) ==
  /\ mode = "w"
  /\ Cardinality(DOMAIN pmods) < MaxOpen
  /\ name \notin opened
  /\ \A i \in imodForModName(name) : i \notin DOMAIN pmods
  /\ LET new == imodForModName(name) = {}
         ms == IF new THEN Append(modis, [name |-> name, first |-> isectNil, files |-> <<>>]) ELSE modis
         imod == CHOOSE i \in DOMAIN ms : ms[i].name = name
     IN /\ modis' = [ms EXCEPT ![imod] = initFileInfo(@)]
        /\ scs' = invalidateSCforMod(imod)
        /\ pmods' = [i \in DOMAIN pmods \cup {imod} |-> IF i = imod THEN isectNil ELSE pmods[i]]
  /\ placed' = [placed EXCEPT ![name] = {}]
  /\ given' = [given EXCEPT ![name] = <<>>]
  /\ opened' = IF cleared /\ ~Reopens THEN opened \cup {name} ELSE opened
  /\ UNCHANGED <<mode, cleared, names, mpSecToSC, disk>>

Overlap(c, d) == c.sect = d.sect /\ c.off < d.off + d.cb /\ d.off < c.off + c.cb

\* Mod1::AddSecContribEx.  The linker places nothing where something is.
AddSecContrib(imod, c) ==
  /\ mode = "w" /\ imod \in DOMAIN pmods
  /\ \A n \in ModNames : \A d \in placed[n] : ~Overlap(c, d)
  /\ Cardinality(placed[modis[imod].name]) < MaxScs
  /\ LET u == fUpdateSecContrib(imod)
     IN scs' = u.scs /\ modis' = [modis EXCEPT ![imod] = u.modi]
  /\ pmods' = [pmods EXCEPT ![imod] =
                 [sect |-> c.sect, off |-> c.off, cb |-> c.cb, code |-> c.code, crc |-> c.crc, imod |-> imod]]
  /\ placed' = [placed EXCEPT ![modis[imod].name] = @ \cup {c}]
  /\ UNCHANGED <<mode, cleared, names, mpSecToSC, disk, given, opened>>

\* Mod1::Close: the file list of its lines, then the last contribution.
CloseMod(imod, files) ==
  /\ mode = "w" /\ imod \in DOMAIN pmods
  /\ names' = Added(names, files)
  /\ LET u == fUpdateSecContrib(imod)
     IN /\ scs' = u.scs
        /\ modis' = [modis EXCEPT ![imod] = [u.modi EXCEPT !.files = Ichs(names', files)]]
  /\ pmods' = [i \in DOMAIN pmods \ {imod} |-> pmods[i]]
  /\ given' = [given EXCEPT ![modis[imod].name] = files]
  /\ UNCHANGED <<mode, cleared, mpSecToSC, disk, placed, opened>>

\* DBI1::Close of a writer: fSave sorts and writes the table.
SaveAndClose ==
  /\ mode = "w" /\ DOMAIN pmods = {}
  /\ disk' = [modis |-> modis, scs |-> Sorted(scs), files |-> FileInfo(modis)]
  /\ mode' = "none" /\ scs' = <<>> /\ modis' = <<>> /\ names' = <<>> /\ cleared' = FALSE
  /\ UNCHANGED <<pmods, mpSecToSC, placed, given>>
  /\ opened' = {}

CloseReader ==
  /\ mode = "r"
  /\ mode' = "none" /\ scs' = <<>> /\ modis' = <<>> /\ names' = <<>>
  /\ mpSecToSC' = Empty
  /\ UNCHANGED <<cleared, pmods, disk, placed, given, opened>>

-----------------------------------------------------------------------------
(* What a reader asks.                                                       *)

\* bsearch with SC::compareSC over the entries lo .. hi.
RECURSIVE bsearch(_, _, _, _)
bsearch(sect, off, lo, hi) ==
  LET mid == (lo + hi) \div 2
      sc == scs[mid]
  IN IF lo > hi THEN {}
     ELSE IF sect < sc.sect \/ (sect = sc.sect /\ off < sc.off) THEN bsearch(sect, off, lo, mid - 1)
     ELSE IF sect = sc.sect /\ off - sc.off < sc.cb THEN {sc}
     ELSE bsearch(sect, off, mid + 1, hi)

QueryImodFromAddr(sect, off) == {modis[sc.imod].name : sc \in bsearch(sect, off, 1, Len(scs))}

\* The keys of a map from contributions to their place; the last of a key stays.
KeyOf(sc, zeroChar) == [imod |-> sc.imod, crc |-> sc.crc, cb |-> sc.cb, code |-> sc.code /\ ~zeroChar]
MapFor(imod, zeroChar) ==
  LET mine == {k \in DOMAIN scs : scs[k].imod = imod}
  IN [key \in {KeyOf(scs[k], zeroChar) : k \in mine} |->
        CHOOSE k \in mine : /\ KeyOf(scs[k], zeroChar) = key
                            /\ \A j \in mine : KeyOf(scs[j], zeroChar) = key => j <= k]

\* fCreateSecToSCMap: the map at hand is kept when it is of this module.
KeepsAnyMap(map, imod, zeroChar) == IF DOMAIN map # {} THEN map ELSE MapFor(imod, zeroChar)
fCreateSecToSCMap(map, imod, zeroChar) ==
  IF DOMAIN map # {} /\ (CHOOSE key \in DOMAIN map : TRUE).imod = imod THEN map
  ELSE MapFor(imod, zeroChar)

In(map, key) == IF key \in DOMAIN map THEN {scs[map[key]]} ELSE {}

\* The two queries.  The second fills a map of its own, and looks in the first one's.
QueryAddrForSecEx(imod, c) == In(fCreateSecToSCMap(mpSecToSC, imod, FALSE), KeyOf([c EXCEPT !.imod = imod], FALSE))
QueryAddrForSec(imod, c) == In(mpSecToSC, KeyOf([c EXCEPT !.imod = imod], TRUE))

AskSec(imod) ==
  /\ mode = "r" /\ scs # <<>>
  /\ mpSecToSC' = fCreateSecToSCMap(mpSecToSC, imod, FALSE)
  /\ UNCHANGED <<mode, modis, scs, cleared, pmods, names, disk, placed, given, opened>>

Next ==
  \/ \E m \in {"r", "w"} : Open(m)
  \/ Create
  \/ \E n \in ModNames : OpenMod(n)
  \/ \E i \in DOMAIN pmods, c \in Contribs : AddSecContrib(i, c)
  \/ \E i \in DOMAIN pmods : \E f \in FileLists[modis[i].name] : CloseMod(i, f)
  \/ SaveAndClose \/ CloseReader
  \/ \E i \in Imods : AskSec(i)

Spec == Init /\ [][Next]_vars

-----------------------------------------------------------------------------
Addresses == {<<c.sect, c.off + d>> : c \in Contribs, d \in 0 .. 3}
At(a, c) == c.sect = a[1] /\ c.off <= a[2] /\ a[2] < c.off + c.cb

\* A reader that asks for an address is told the module that has it since its
\* last session, and none when nobody has it (QueryImodFromAddr after fSave).
AddressRight ==
  mode = "r" =>
    \A a \in Addresses :
      QueryImodFromAddr(a[1], a[2]) = {n \in ModNames : \E c \in placed[n] : At(a, c)}

\* Asked for a contribution of a module by its size, checksum and kind, a reader
\* gets one that the module has, whatever it asked before (QueryAddrForSecEx).
SecAddrRight ==
  mode = "r" =>
    \A i \in Imods, c \in Contribs :
      LET like == {d \in placed[modis[i].name] : d.cb = c.cb /\ d.crc = c.crc /\ d.code = c.code}
          got == QueryAddrForSecEx(i, [imod |-> i] @@ c)
      IN IF like = {} THEN got = {} ELSE \E sc \in got : \E d \in like : d.sect = sc.sect /\ d.off = sc.off

\* The same without the kind (QueryAddrForSec).
SecAddrRightAnyKind ==
  mode = "r" =>
    \A i \in Imods, c \in Contribs :
      LET like == {d \in placed[modis[i].name] : d.cb = c.cb /\ d.crc = c.crc}
          got == QueryAddrForSec(i, [imod |-> i] @@ c)
      IN IF like = {} THEN got = {} ELSE \E sc \in got : \E d \in like : d.sect = sc.sect /\ d.off = sc.off

\* A module's files are those of its last session, although names move in the
\* buffer at every load and the counts of references overflow (reloadFileInfo).
FilesRight ==
  mode = "r" => \A i \in Imods : [k \in DOMAIN modis[i].files |-> names[modis[i].files[k]]] = given[modis[i].name]

\* The first code of a module is one it has now, and it has one when it has code
\* (MODI::sc).
FirstCodeRight ==
  mode = "r" =>
    \A i \in Imods :
      LET code == {c \in placed[modis[i].name] : c.code}
          first == modis[i].first
      IN IF code = {} THEN first = isectNil
         ELSE first # isectNil /\ \E c \in code : c.sect = first.sect /\ c.off = first.off
=============================================================================
