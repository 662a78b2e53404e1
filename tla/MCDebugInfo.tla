----------------------------- MODULE MCDebugInfo -----------------------------
(* The parts of a DBI.  Each has its own state, and one run explores them   *)
(* one after the other: in the state graph of a part the variables of the   *)
(* others keep their first values.                                          *)
EXTENDS SymRecs, FrameData, Sequences, TLC

VARIABLES
  part,
  mode, modis, scs, cleared, pmods, modNames, mpSecToSC, disk, placed, given,
  seen,                                                     \* ModTable
  step, symRecs, chains, fCreate, new, del, thunks, nThunks, nearest, iPubs, iThunks, located,
  stream, want, dead,                                       \* Publics
  symMode, bufs, adds, nCloses, globals, grefs, modSyms, refused, symsGiven, \* ModSyms
  mli, pbLines, calls11,                                      \* Mli
  obj, lineNames, mod, modStream, modFiles, c13Frames, rd, enums, inlinees, lines11, opens,
  nReadFails,                                                \* ModLines
  ordered, dbi, snDbg, dbgStored, bufDbg, refcount, iCur, dbgAnswer, dbgGiven, cloned,
  touched,                                                   \* DbgData
  topic, old, noteMode, bufSecMap, nmtEC, noted, ecSeen, link, linkHeld, dbiStream, dbiDisk,
  noteAnswer, notesGiven, notRead                            \* LinkNotes

mtVars == <<mode, modis, scs, cleared, pmods, modNames, mpSecToSC, disk, placed, given, seen>>
psVars == <<step, symRecs, chains, fCreate, new, del, thunks, nThunks, nearest, iPubs, iThunks, located,
            stream, want, dead>>
msVars == <<symMode, bufs, adds, nCloses, globals, grefs, modSyms, refused, symsGiven>>
mlVars == <<mli, pbLines, calls11>>
lnVars == <<obj, lineNames, mod, modStream, modFiles, c13Frames, rd, enums, inlinees, lines11,
            opens, nReadFails>>
ddVars == <<ordered, dbi, snDbg, dbgStored, bufDbg, refcount, iCur, dbgAnswer, dbgGiven, cloned,
            touched>>
knVars == <<topic, old, noteMode, bufSecMap, nmtEC, noted, ecSeen, link, linkHeld, dbiStream,
            dbiDisk, noteAnswer, notesGiven, notRead>>
allVars == <<part, vars, mtVars, frameVars, psVars, msVars, mlVars, lnVars, ddVars, knVars>>

-----------------------------------------------------------------------------
\* Two modules and three contributions, of which the two in one section are alike
\* but for their kind; counts of references overflow at two.
C(sect, off, cb, code, crc) == [sect |-> sect, off |-> off, cb |-> cb, code |-> code, crc |-> crc]
MCContribs == {C(1, 0, 2, TRUE, 0), C(1, 2, 2, FALSE, 0), C(2, 1, 1, TRUE, 1)}
MCFileLists == [n \in {"m1", "m2"} |-> IF n = "m1" THEN {<<"f">>, <<"g", "f">>} ELSE {<<"f">>}]
MCModNames == {"m1", "m2"}

MT == INSTANCE ModTable WITH
  ModNames <- MCModNames, Contribs <- MCContribs, FileLists <- MCFileLists, RefWidth <- 2,
  MaxScs <- 2, MaxOpen <- 1, Reopens <- FALSE, names <- modNames, opened <- seen

\* Blocks that touch, overlap and lie within each other; addresses of four bits.
MCBlocks == {[rva |-> r, cb |-> c] : r \in {1, 2, 3}, c \in {1, 2, 4}}
MCStarts == {2, 3, 5, 7}

\* Two names that differ in case; a table of two thunks, of which the second leads
\* to the table.
bx == <<98>>
Bx == <<66>>
A(isect, off) == [isect |-> isect, off |-> off]
MCPubNames == {bx, Bx}
MCPubHash == [n \in MCPubNames |-> 0]
MCAddrs == {A(1, 1), A(1, 2), A(2, 1)}
MCAsked == {A(1, 0), A(1, 2), A(1, 3), A(2, 0)}
MCThunkMaps == {<<10, 3>>}
MCThunkTable == A(1, 2)
MCSectMap == <<A(1, 0), A(2, 10)>>

PS == INSTANCE Publics WITH
  SymNames <- MCPubNames, iphrHash <- 1, hashSz <- MCPubHash, Addrs <- MCAddrs, Asked <- MCAsked,
  ThunkMaps <- MCThunkMaps, ThunkTable <- MCThunkTable, SectMap <- MCSectMap, MaxRecs <- 3,
  pc <- step, recs <- symRecs, cur <- nearest

\* Two modules; procedures with scopes in scopes, of which one comes in two
\* contributions, symbols that differ only in what they are worth, and types.
R(k, n, v) == [k |-> k, name |-> n, v |-> v]
MCSymMods == {"m1", "m2"}
MCSyms ==
  {<<R("proc", "f", "global"), R("block", "", "0"), R("ldata", "x", "1"), R("idend", "", "0"),
     R("udt", "T", "decl"), R("end", "", "0"), R("const", "x", "1"), R("gdata", "g", "1")>>,
   <<R("idproc", "f", "local"), R("inline", "", "0"), R("udt", "T", "alias"), R("const", "x", "1"),
     R("end", "", "0"), R("end", "", "0"), R("ldata", "", "2"), R("udt", "T", "class")>>,
   <<R("const", "x", "2"), R("udt", "T", "alias"), R("udt", "U", "none"), R("ldata", "g", "1")>>,
   <<R("manproc", "f", "global"), R("note", "", "0"), R("other", "", "0")>>,
   <<R("end", "", "0")>>}

MS == INSTANCE ModSyms WITH
  Mods <- MCSymMods, Contribs <- MCSyms, MaxAdds <- 3, MaxCloses <- 3,
  mode <- symMode, stream <- modSyms, given <- symsGiven, closes <- nCloses

\* Three references on three pages, to two modules; each conversion moves a symbol to
\* where another one was before.
MCRefs == 1 .. 3
MCRefThreads == {"t1", "t2"}
MCPlaces(offs) == [m \in MCSymMods |-> offs]

MCOf == <<"m1", "m1", "m2">>
MCIth == <<2, 3, 2>>
MCSpan == <<{1}, {1, 2}, {2}>>
MCHidden == <<{1}, {2}, {3}>>
MCOff40 == MCPlaces(<<4, 8, 12>>)
MCOff60 == MCPlaces(<<4, 12, 20>>)
MCOffSz == MCPlaces(<<4, 16, 24>>)

\* Contributions that continue one another, of which one has an odd number of lines,
\* and one at the start of a function; UTF8 names of other lengths.
L(line, va) == [line |-> line, va |-> va]
Lines(f, isect, off, cb, doff, start, plnum) ==
  [szSrc |-> f, isect |-> isect, offCon |-> off, cbCon |-> cb, doff |-> doff, lineStart |-> start,
   plnum |-> plnum]
MCLineCalls ==
  {Lines("a", 1, 0, 3, 0, 5, <<L(0, 0), L(1, 2), L(32767, 3)>>),
   Lines("a", 1, 4, 3, 1, 7, <<L(2, 3)>>), Lines("a", 2, 4, 1, 0, 7, <<L(0, 4), L(3, 5)>>),
   Lines("bb", 1, 8, 2, 0, 1, <<L(0, 8)>>), Lines("a", 1, 0, 2, 0, 1, <<L(0, 0)>>)}

ML == INSTANCE Mli WITH
  Calls <- MCLineCalls, CbName <- [a |-> 1, bb |-> 2, aaaa |-> 4],
  Utf8 <- [a |-> "aaaa", bb |-> "bb"], CountMod <- 5, LineMod <- 8, MaxCalls <- 3,
  calls <- calls11

\* An object with everything that has lines, in three contributions that come in any
\* order, one whose strings are in all other places, one with a string that is not in
\* its table, and one each with COFF lines and with lines as they were.
LB(id, at, l) == [id |-> id, at |-> at, lines |-> l]
S(t, v) == [t |-> t, v |-> v]
Coff(file, at, l) == [t |-> "coff", file |-> file, at |-> at, v |-> l]
MCCoffObj == <<<<Coff("a", 1, <<1>>), Coff("b", 2, <<3>>), Coff("a", 3, <<2>>)>>>>
MCLineObjs ==
  {<<<<S("strings", <<"a", "b", "p">>)>>,
     <<S("files", <<[id |-> 8, str |-> 2], [id |-> 16, str |-> 1]>>),
       S("lines", <<LB(16, 1, <<1, 2>>), LB(8, 2, <<7>>)>>)>>,
     <<S("il", <<LB(8, 1, <<5>>)>>), S("inlinees", <<[item |-> 1, ids |-> <<8, 16>>]>>),
       S("lines", <<LB(8, 4, <<4>>)>>)>>>>,
   <<<<S("strings", <<"a", "p">>)>>,
     <<S("files", <<[id |-> 8, str |-> 1]>>), S("lines", <<LB(8, 1, <<9>>)>>)>>,
     <<S("syms", <<2>>), S("imports", <<2>>), S("exports", <<[local |-> 1, global |-> 0]>>)>>,
     <<S("frames", <<[rva |-> 1, func |-> 2]>>), S("tokens", <<1>>)>>>>,
   <<<<S("strings", <<"a">>), S("syms", <<3>>), S("other", <<>>)>>>>,
   MCCoffObj,
   <<<<S("c11", <<[file |-> "b", sects |-> <<[at |-> 1, lines |-> <<1>>], [at |-> 3, lines |-> <<2>>]>>],
                  [file |-> "a", sects |-> <<[at |-> 2, lines |-> <<3>>]>>]>>)>>>>}

LN == INSTANCE ModLines WITH
  Objs <- MCLineObjs, SrcMap <- [a |-> "A"], ItemMap <- <<4, 3>>, Names0 <- <<"z", "b">>,
  ShortMax <- 3, Specials <- {7, 10}, Enums <- {"e1", "e2"}, MaxFails <- 1, MaxOpens <- 2,
  MaxFrees <- 1,
  names <- lineNames, disk <- modStream, files <- modFiles, frames <- c13Frames,
  fails <- nReadFails

\* Two keys, so that data may be out of order and have duplicates; two enumerators.
DD == INSTANCE DbgData WITH
  Elts <- {1, 6}, Enums <- {"e1", "e2"}, Width <- 4, MaxLen <- 3,
  stored <- dbgStored, answer <- dbgAnswer, given <- dbgGiven

\* A module that is shorter in the file; command lines of Latin, other and mixed letters.
MCNoteMods == {[native |-> 16, saved |-> 12]}
MCInfos == {[cch |-> 2, cb |-> 2], [cch |-> 2, cb |-> 3], [cch |-> 2, cb |-> 6]}

KN == INSTANCE LinkNotes WITH
  Mods <- MCNoteMods, Secs <- {1, 2}, MaxSecs <- 2, Texts <- {"a", "b"}, Fields <- {"src", "pdb"},
  Infos <- MCInfos, OldInfos <- MCInfos, Topics <- {"secs", "ec", "link"},
  mode <- noteMode, modis <- noted, seen <- ecSeen, stream <- dbiStream, disk <- dbiDisk,
  answer <- noteAnswer, given <- notesGiven, failed <- notRead

ASSUME DebugInfoAssumption == FrameDataAssumption /\ DD!DbgDataAssumption /\ PS!ChainsAssumption

-----------------------------------------------------------------------------
AnyInit ==
  /\ part \in {"modules", "frames", "publics", "syms", "recs", "oldlines", "lines", "dbg", "notes"}
  /\ Init /\ (part # "recs" => fmt = "sz")
  /\ MT!Init /\ FrameInit /\ PS!Init
  /\ MS!Init /\ (part # "syms" => symMode = "merge")
  /\ ML!Init
  /\ LN!Init /\ (part # "lines" => obj = MCCoffObj)
  /\ DD!Init /\ (part # "dbg" => ordered)
  /\ KN!Init /\ (part # "notes" => topic = "ec" /\ ~old)

AnyNext ==
  /\ UNCHANGED part
  /\ IF part = "modules" THEN MT!Next ELSE UNCHANGED mtVars
  /\ IF part = "frames" THEN FrameNext ELSE UNCHANGED frameVars
  /\ IF part = "publics" THEN PS!Next ELSE UNCHANGED psVars
  /\ IF part = "syms" THEN MS!Next ELSE UNCHANGED msVars
  /\ IF part = "recs" THEN Next ELSE UNCHANGED vars
  /\ IF part = "oldlines" THEN ML!Next ELSE UNCHANGED mlVars
  /\ IF part = "lines" THEN LN!Next ELSE UNCHANGED lnVars
  /\ IF part = "dbg" THEN DD!Next ELSE UNCHANGED ddVars
  /\ IF part = "notes" THEN KN!Next ELSE UNCHANGED knVars

AnySpec == AnyInit /\ [][AnyNext]_allVars

-----------------------------------------------------------------------------
\* The parts of each property are stated where the component is; SymRecs and FrameData
\* have their own.

\* ModTable: an address belongs to the module that placed code or data there last,
\* and of each module the contributions, the files and the first code are right.
\* DbgData and LinkNotes: what else the linker gave a DBI is kept and found again,
\* whoever shares it.
ModTableRight ==
  /\ part = "modules" =>
       MT!AddressRight /\ MT!SecAddrRight /\ MT!FilesRight /\ MT!FirstCodeRight
  /\ part = "dbg" => DD!DbgDataRight
  /\ part = "notes" => KN!LinkNotesRight

\* Publics: of each name the last definition is found, and the address map has just
\* the publics, in order; the nearest symbol of an address, the thunks that lead to
\* it and the symbol that encloses it are found.
PublicsRight ==
  part = "publics" =>
    /\ PS!PublicsRight /\ PS!AddrMapRight
    /\ PS!NearestRight /\ PS!ThunksRight /\ PS!LocateRight

\* ModSyms: scopes and references lead to the right places, and each symbol is kept
\* where it belongs.
ModSymsRight == part = "syms" => MS!ModSymsRight

\* Mli and ModLines: the lines of each file and section, the names of files and
\* whatever else a module's subsections name are found again.
LinesRight ==
  /\ part = "oldlines" => ML!MliRight
  /\ part = "lines" => LN!ModLinesRight
=============================================================================
