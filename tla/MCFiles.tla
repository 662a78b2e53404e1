------------------------------- MODULE MCFiles -------------------------------
(* The page maps of a multistream file, the byte stream under it, the       *)
(* streams of a DBI in it, and the files as wholes.  Each has its own state, *)
(* and one run explores them one after the other: in the state graph of a    *)
(* part the variables of the others keep their first values.                *)
EXTENDS FpmAlloc, ByteStreams, DbiStreams, TLC

VARIABLES
  part,
  pdbFile, pdb, images, copy, openings, guids,               \* PdbMatch
  src, filter, stage, nMod, dest, missing,                   \* PdbCopy
  shared, slots, count, objs, handles, closing, open, raced, met, \* PdbParts
  msfUses, image, msfs, s_mpOpenedMSF, msfHandles, opened, damage, kept \* MsfOpen

pmVars == <<pdbFile, pdb, images, copy, openings, guids>>
pcVars == <<src, filter, stage, nMod, dest, missing>>
ppVars == <<shared, slots, count, objs, handles, closing, open, raced, met>>
moVars == <<msfUses, image, msfs, s_mpOpenedMSF, msfHandles, opened, damage, kept>>
allVars == <<part, vars, bytesVars, dbiVars, pmVars, pcVars, ppVars, moVars>>

-----------------------------------------------------------------------------
\* Disks that hold nothing, the least file, the first growth or all; views that
\* end in the first growth; the CRT with and without descriptors.
MCSystems == [disk : {0, 2, 5, 9}, view : {3, 9}, fds : BOOLEAN]

\* Four stream numbers for six owners, one module, one write that fails.
MCSns == 1 .. 4
MCMods == {"m1"}
MCVals == {1}

\* Two linkers' contents, a PDB opened for writing twice and one image.
PM == INSTANCE PdbMatch WITH
  Contents <- 1 .. 2, Features <- {"none", "mini"}, MaxOpens <- 2, MaxImages <- 1,
  Rehashes <- FALSE, file <- pdbFile

\* Two modules: a procedure with a block, a global one without and one with separated
\* code, that has a block too; annotations.  Contributions with and without COMDATs,
\* of which the first that is code may be any; objects that lack a section or
\* give two the same symbols.
Sc(i, s, o, code, comdat, coff) ==
  [imod |-> i, isect |-> s, off |-> o, code |-> code, comdat |-> comdat, coff |-> coff]
Y(k, end) == [k |-> k, end |-> end, text |-> <<>>]
Note(t) == [k |-> "annotation", end |-> 0, text |-> t]
MCCopySyms ==
  <<<<Y("lproc", 4), Y("block", 3), Y("end", 0), Y("end", 0), Y("gproc", 6), Y("end", 0),
      Note(<<"a">>), Y("gproc", 9), Y("end", 0), Y("sepcode", 13), Y("block", 12), Y("end", 0),
      Y("end", 0)>>,
    <<Y("gproc", 5), Y("block", 4), Note(<<"a", "b", "c">>), Y("end", 0), Y("end", 0),
      Y("sepcode", 8), Note(<<>>), Y("end", 0), Y("gproc", 10), Y("end", 0)>>>>
MCCopyScs ==
  {<<Sc(1, 1, 0, TRUE, FALSE, 1), Sc(2, 1, 4, TRUE, TRUE, 2), Sc(1, 1, 8, TRUE, TRUE, 2),
     Sc(2, 1, 12, TRUE, FALSE, 3)>>,
   <<Sc(2, 1, 0, FALSE, TRUE, 1), Sc(1, 1, 4, TRUE, TRUE, 4), Sc(1, 2, 4, TRUE, TRUE, 2),
     Sc(2, 2, 12, FALSE, TRUE, 2)>>,
   <<Sc(1, 1, 0, FALSE, TRUE, 2), Sc(1, 1, 4, TRUE, FALSE, 1), Sc(1, 1, 8, FALSE, FALSE, 3)>>}
FirstSc(cs, i, last) ==
  LET code == {k \in DOMAIN cs : cs[k].imod = i /\ cs[k].code}
  IN IF code = {} THEN [isect |-> 0]
     ELSE cs[CHOOSE k \in code : \A l \in code : IF last THEN l <= k ELSE k <= l]
Block(id, strs) == [id |-> id, strs |-> strs]
MCCopyCoffs ==
  {(1 :> Block(1, <<"s">>)) @@ (2 :> Block(2, <<>>)) @@ (3 :> Block(1, <<"s">>)),
   (-1 :> Block(3, <<>>)) @@ (2 :> Block(2, <<"s", "t">>)),
   (1 :> Block(1, <<"s">>)) @@ (3 :> Block(2, <<"u">>))}
CopyMod(cs, i, last, coff, types, fs) ==
  [name |-> i, first |-> FirstSc(cs, i, last), syms |-> MCCopySyms[i], coff |-> coff,
   types |-> types, files |-> fs]
MCCopySource(mini, cs, last, coff, types, fs) ==
  [mini |-> mini, machine |-> 1, contribs |-> cs, secs |-> <<1, 2>>, dbgs |-> {"fixup", "pdata"},
   mods |-> <<CopyMod(cs, 1, last, coff, types, fs), CopyMod(cs, 2, last, coff, "ok", <<"f">>)>>,
   pubs |-> <<[name |-> "p", at |-> 1], [name |-> "q", at |-> 2], [name |-> "r", at |-> 1]>>,
   names |-> <<"x", "y", "z">>, frames |-> <<2, 1, 2>>]
NoCoff == [c \in {} |-> <<>>]
EmptySource ==
  [mini |-> FALSE, machine |-> 1, contribs |-> <<>>, secs |-> <<>>, dbgs |-> {}, mods |-> <<>>,
   pubs |-> <<>>, names |-> <<>>, frames |-> <<>>]
MCCopySources ==
  {EmptySource} \cup
  {MCCopySource(FALSE, cs, last, NoCoff, "ok", <<>>) : cs \in MCCopyScs, last \in BOOLEAN}
  \cup {MCCopySource(TRUE, cs, FALSE, coff, "ok", fs) :
          cs \in MCCopyScs, coff \in MCCopyCoffs, fs \in {<<>>, <<"f", "g">>}}
  \cup {MCCopySource(TRUE, cs, TRUE, NoCoff, "missing", <<>>) : cs \in MCCopyScs}
Filter(annotations, any, last, texts) ==
  [annotations |-> annotations, anyText |-> any, last |-> last, texts |-> texts,
   names |-> [q |-> "p"], drops |-> {"r"}]
MCCopyFilters ==
  {Filter(FALSE, TRUE, FALSE, {}), Filter(TRUE, TRUE, FALSE, {}),
   Filter(TRUE, FALSE, TRUE, {<<"a", "a">>}), Filter(TRUE, FALSE, FALSE, {<<"a">>})}

PC == INSTANCE PdbCopy WITH Sources <- MCCopySources, Filters <- MCCopyFilters

\* PDBs by what two clients do with them: the pools, alone and of a DBI; the symbols of a
\* DBI, its modules, and the sources.
Shared(a, i, u, n) == [access |-> a, ids |-> i, sz |-> i # "named", uses |-> u, most |-> n]
FirstShared == Shared("r", "unnamed", {"tpi"}, 2)
MCShared ==
  {FirstShared, Shared("w", "unnamed", {"dbi", "ipi"}, 1), Shared("w", "named", {"dbi"}, 1),
   Shared("r", "unnamed", {"ipi"}, 2), Shared("r", "told", {"dbi", "gs"}, 2),
   Shared("w", "told", {"dbi", "ps"}, 2),
   Shared("r", "told", {"dbi", "mod"}, 2), Shared("s", "told", {"src"}, 2), Shared("w", "told", {"src"}, 2)}

PP == INSTANCE PdbParts WITH
  Threads <- {"a", "b"}, NMods <- 2, MaxObjs <- 5, MaxCount <- 4, Files <- MCShared,
  file <- shared, slot <- slots, held <- handles

\* Two names of one file, and a stream of a client; tables of either format, one without
\* streams, one with a hole; four streams, of which the table is one.
Si(cb, pns) == [cb |-> cb, pns |-> pns]
MCNoSi == Si(-1, <<>>)
MCTable(fmt, sis) == [fmt |-> fmt, cbPg |-> 2, st |-> sis]
MCTables ==
  {MCTable("small", <<MCNoSi>>), MCTable("small", <<Si(4, <<9, 8>>), MCNoSi, Si(3, <<31, 32>>)>>),
   MCTable("big", <<Si(3, <<7, 6>>), Si(3, <<11, 12>>), Si(0, <<>>)>>)}
MCDamages ==
  {"none", "hdr", "magic", "page", "pnFpm", "fpm", "negative", "long", "table", "cut", "more",
   "one less", "one more"}

MO == INSTANCE MsfOpen WITH
  Paths <- {"name", "link"}, fileid <- [name |-> "file", link |-> "file"], Tables <- MCTables,
  Damages <- MCDamages, Uses <- {{"name", "link"}, {"stream"}}, cbPgs <- [small |-> {2}, big |-> {2}],
  snMax <- [small |-> 4, big |-> 4], SnRoom <- 2, StPages <- 6, Cbs <- {3}, MaxHeld <- 3,
  MaxCommits <- 2, MaxChanges <- 2, uses <- msfUses, handles <- msfHandles, told <- opened

-----------------------------------------------------------------------------
AnyInit ==
  /\ part \in {"fpm", "bytes", "streams", "match", "copy", "parts", "open"}
  /\ Init /\ BytesInit /\ DbiInit /\ PM!Init
  /\ part # "bytes" => os = [disk |-> 0, view |-> 3, fds |-> TRUE] /\ mapped
  /\ PC!Init
  /\ part # "copy" => src = EmptySource /\ ~filter.annotations
  /\ PP!Init /\ (part # "parts" => shared = FirstShared)
  /\ MO!Init
  /\ part # "open" => msfUses = {"stream"} /\ image["stream"] = MO!NoImage

AnyNext ==
  /\ UNCHANGED part
  /\ IF part = "fpm" THEN Next ELSE UNCHANGED vars
  /\ IF part = "bytes" THEN BytesNext ELSE UNCHANGED bytesVars
  /\ IF part = "streams" THEN DbiNext ELSE UNCHANGED dbiVars
  /\ IF part = "match" THEN PM!Next ELSE UNCHANGED pmVars
  /\ IF part = "copy" THEN PC!Next ELSE UNCHANGED pcVars
  /\ IF part = "parts" THEN PP!Next ELSE UNCHANGED ppVars
  /\ IF part = "open" THEN MO!Next ELSE UNCHANGED moVars

AnySpec == AnyInit /\ [][AnyNext]_allVars

-----------------------------------------------------------------------------
\* The properties of FpmAlloc, ByteStreams and DbiStreams are their own; the parts of this
\* one are stated where the component is.

\* PdbMatch and PdbCopy: an image gets the PDB it was linked with, or a copy that has what
\* a client wants of it.  PdbParts: a thread has what it opened until it closes it.
\* MsfOpen: what was committed can be opened again, and a file has one MSF.
PdbsRight ==
  /\ part = "match" => PM!PdbMatchRight
  /\ part = "copy" => PC!PdbCopyRight
  /\ part = "parts" => PP!PdbPartsRight
  /\ part = "open" => MO!MsfOpenRight
=============================================================================
