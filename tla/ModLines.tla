----------------------------- MODULE ModLines -----------------------------
(* The line numbers and the other C13 subsections of a module: gathered from *)
(* contributions, with strings in tables of their own; when the module       *)
(* closes, every string becomes an index of the PDB's name map and every     *)
(* type an index of its types; then read through enumerators that share one  *)
(* buffer (PDB/dbi/mod.cpp).                                                  *)
(*                                                                           *)
(*  - A subsection is [t, v], of type t with content v; a string is its       *)
(*    offset in the object's string table.  How subsections are laid out, and *)
(*    the reader and writer of them, are another component's (external).      *)
(*  - A compiler emits one string table and one table of files per object,    *)
(*    anywhere among the rest, or COFF line numbers (t = "coff"), or lines as *)
(*    they were before C13 ("c11").                                           *)
(*  - Memory does not run out; reads of lines fail, between two subsections,  *)
(*    at most MaxFails times, and leave zeros for the rest.                   *)
EXTENDS Integers, Sequences, SequencesExt, FiniteSets

CONSTANTS
  Objs,      \* objects: sequences of contributions, which are sequences of subsections
  SrcMap,    \* fSrcMap: names that become other names
  ItemMap,   \* the type index of each id of the object
  Names0,    \* what is in the name map before
  ShortMax,  \* USHRT_MAX
  Specials,  \* line numbers that compilers give a meaning: 0xfeefee, 0xf00f00
  Enums,     \* enumerators
  MaxFails, MaxOpens, MaxFrees  \* bounds: reads that fail, enumerators opened, buffers freed

VARIABLES
  obj,       \* the object
  names,     \* the name map: index to name
  mod,       \* the module while it is open for writing
  disk,      \* the module's stream
  files,     \* the module's files in the DBI's FileInfo
  frames,    \* the frame data the DBI was given
  rd,        \* the module while it is open for reading
  enums,     \* EnumC13Lines
  inlinees,  \* what QueryInlineeLines answered last
  lines11,   \* what QueryLines answered last
  opens, fails

wvars == <<obj, names, mod, disk, files, frames>>
rvars == <<rd, enums, inlinees, lines11, opens, fails>>
vars == <<obj, names, mod, disk, files, frames, rd, enums, inlinees, lines11, opens, fails>>

None == <<>>
OfType(subs, t) == SelectSeq(subs, LAMBDA s : s.t = t)
Content(subs, t) == FlattenSeq([i \in DOMAIN OfType(subs, t) |-> OfType(subs, t)[i].v])

-----------------------------------------------------------------------------
(* Writing *)

\* The buffers a subsection is appended to: bufC13Fpo, bufC13Strings, rbufC13Lines
\* and the symbols.
LineTypes == {"imports", "exports", "inlinees", "lines", "files", "il", "tokens"}
NewMod ==
  [open |-> TRUE, strings |-> <<>>, lines |-> <<>>, fpo |-> <<>>, syms |-> <<>>, coff |-> <<>>,
   c11 |-> <<>>, left |-> {}]

fAddSymbols(m, s) ==
  IF s.t = "syms" THEN [m EXCEPT !.syms = @ \o s.v]
  ELSE IF s.t = "frames" THEN [m EXCEPT !.fpo = Append(@, s)]
  ELSE IF s.t = "strings" THEN [m EXCEPT !.strings = Append(@, s)]
  ELSE IF s.t \in LineTypes THEN [m EXCEPT !.lines = Append(@, s)]
  ELSE m

\* The writer of m_pLinesWriter1st gives a file the same id again (external).
AddSourceFile(coff, sz) == IF sz \in Range(coff) THEN coff ELSE Append(coff, sz)

\* COFF lines: a section of one block, of a file of the writer's table.
AddLinesW(m, s) ==
  LET coff == AddSourceFile(m.coff, s.file)
      block == [id |-> SelectInSeq(coff, LAMBDA f : f = s.file), at |-> s.at, lines |-> s.v]
  IN [m EXCEPT !.coff = coff, !.lines = Append(@, [t |-> "lines", v |-> <<block>>])]

\* Lines as they were are written as they are, once.
ReplaceLines(m, s) == IF m.c11 # <<>> THEN m ELSE [m EXCEPT !.c11 = s.v]

Added(m, s) ==
  IF s.t = "coff" THEN AddLinesW(m, s)
  ELSE IF s.t = "c11" THEN ReplaceLines(m, s) ELSE fAddSymbols(m, s)
Contribute(i) ==
  /\ mod.open /\ i \in mod.left
  /\ mod' = [FoldLeft(Added, mod, obj[i]) EXCEPT !.left = @ \ {i}]
  /\ UNCHANGED <<obj, names, disk, files, frames, rvars>>

\* What the writer of m_pLinesWriter1st leaves: the names it was given, and the files.
WriterTables(coff) ==
  IF coff = <<>> THEN <<>>
  ELSE <<[t |-> "strings", v |-> coff],
         [t |-> "files", v |-> [i \in DOMAIN coff |-> [id |-> i, str |-> i]]]>>
fUpdateLines(m) == [m EXCEPT !.lines = @ \o WriterTables(m.coff)]

-----------------------------------------------------------------------------
(* processC13 *)

Mapped(name) == IF name \in DOMAIN SrcMap THEN SrcMap[name] ELSE name
Ni(nm, name) == SelectInSeq(nm, LAMBDA n : n = name)
WithName(nm, name) == IF name \in Range(nm) THEN nm ELSE Append(nm, name)

\* The strings of all tables; an offset that several have leads to the last one's.
StringsAt(subs) == FoldLeft(LAMBDA a, t : t.v @@ a, <<>>, OfType(subs, "strings"))

\* Mutant: a name that is mapped keeps the index of the old one.
StringsUnmapped(nm, subs) ==
  LET strs == StringsAt(subs)
      all == FoldLeft(LAMBDA a, n : WithName(a, n), nm, Content(subs, "strings"))
  IN [names |-> all, map |-> [off \in DOMAIN strs |-> Ni(all, strs[off])]]
\* Each string goes into the name map; the remapper leads from its offset to its index.
processC13Strings(nm, subs) ==
  LET strs == StringsAt(subs)
      all == FoldLeft(LAMBDA a, n : WithName(a, Mapped(n)), nm, Content(subs, "strings"))
  IN [names |-> all, map |-> [off \in DOMAIN strs |-> Ni(all, Mapped(strs[off]))]]

\* fUpdateTiOrIdReferencedByNonSyms: types, and the object files of imports.
UpdateItems(s) ==
  IF s.t = "inlinees" THEN [s EXCEPT !.v = [i \in DOMAIN @ |-> [@[i] EXCEPT !.item = ItemMap[@]]]]
  ELSE IF s.t = "tokens" THEN [s EXCEPT !.v = [i \in DOMAIN @ |-> ItemMap[@[i]]]]
  ELSE s
UpdateIds(map, s) ==
  IF s.t = "exports"
    THEN [s EXCEPT !.v = [i \in DOMAIN @ |-> [@[i] EXCEPT !.global = ItemMap[s.v[i].local]]]]
  ELSE IF s.t = "imports" THEN [s EXCEPT !.v = [i \in DOMAIN @ |-> map[@[i]]]]
  ELSE UpdateItems(s)

\* IDebugSSubSection::remap (external): the strings of files and of frames.
remap(map, s) ==
  IF s.t = "files" THEN [s EXCEPT !.v = [i \in DOMAIN @ |-> [@[i] EXCEPT !.str = map[@]]]]
  ELSE IF s.t = "frames" THEN [s EXCEPT !.v = [i \in DOMAIN @ |-> [@[i] EXCEPT !.func = map[@]]]]
  ELSE s

\* The strings each kind of content needs.
StrsOf(subs, t) ==
  LET v == Content(subs, t)
  IN {IF t = "files" THEN v[i].str ELSE IF t = "frames" THEN v[i].func ELSE v[i] : i \in DOMAIN v}

\* Mutant: the table of the lines is not looked for.
TablesOne(m) ==
  LET one == processC13Strings(names, m.strings)
  IN [one |-> one.map, names1 |-> one.names, names2 |-> one.names, files |-> one.map]
\* The steps of processC13(TRUE), each of which can refuse the module: strings, types
\* and imports, symbols, files and their names, frames.  The tables of the lines come
\* before those of the object.
Tables(m) ==
  LET one == processC13Strings(names, m.strings)
      two == processC13Strings(one.names, m.lines)
  IN [one |-> one.map, names1 |-> one.names, names2 |-> two.names,
      files |-> IF OfType(m.lines, "strings") # <<>> THEN two.map ELSE one.map]

Known(subs, t, map) == StrsOf(subs, t) \subseteq DOMAIN map

FileNames(m, tabs) ==
  LET v == Content(m.lines, "files") IN [i \in DOMAIN v |-> tabs.names2[tabs.files[v[i].str]]]

FrameDataOf(m, map) == Content([i \in DOMAIN m.fpo |-> remap(map, m.fpo[i])], "frames")

CloseWrite ==
  /\ mod.open /\ mod.left = {}
  /\ LET m == fUpdateLines(mod)
         t == Tables(m)
         ids == [i \in DOMAIN m.lines |-> UpdateIds(t.one, m.lines[i])]
         early == Known(m.lines, "imports", t.one) /\ Range(m.syms) \subseteq DOMAIN t.one
         listed == early /\ Known(m.lines, "files", t.files)
         done == listed /\ Known(m.fpo, "frames", t.one)
     IN /\ names' = IF early /\ m.lines # <<>> THEN t.names2 ELSE t.names1
        /\ files' = IF listed /\ OfType(m.lines, "files") # <<>> THEN FileNames(m, t) ELSE files
        /\ IF done
           THEN /\ frames' = frames \o FrameDataOf(m, t.one)
                /\ disk' = [syms |-> [i \in DOMAIN m.syms |-> t.one[m.syms[i]]],
                            c11 |-> m.c11,
                            c13 |-> [i \in DOMAIN ids |-> remap(t.files, ids[i])]]
           ELSE UNCHANGED <<frames, disk>>
  /\ mod' = [NewMod EXCEPT !.open = FALSE]
  /\ UNCHANGED <<obj, rvars>>

-----------------------------------------------------------------------------
(* Reading *)

\* rbufC13Lines, bufFileInfo, mpIFileToIDFile, mpIDFileToIFile, fCoffToC13Failed; raw:
\* the buffer has its size, but was read in part; frees: how often it was freed.
NewReader ==
  [buf |-> <<>>, frees |-> 0, raw |-> FALSE, fileInfo |-> <<>>, mpIFile |-> <<>>, mpIDFile |-> <<>>,
   bufLines |-> <<>>, built |-> FALSE, fCoffToC13Failed |-> FALSE]

Reading == ~mod.open /\ disk # None

\* The conversion of old lines: a section for each file and section, then the tables
\* of the writer, whose names go into the name map.
OldToC13(c11) ==
  FlattenSeq([f \in DOMAIN c11 |->
    [s \in DOMAIN c11[f].sects |->
       [t |-> "lines", v |-> <<[id |-> f, at |-> c11[f].sects[s].at, lines |-> c11[f].sects[s].lines]>>]]])
  \o WriterTables([f \in DOMAIN c11 |-> c11[f].file])

WithFiles(r, buf) ==
  LET fs == Content(buf, "files")
  IN [r EXCEPT !.buf = buf, !.fileInfo = @ \o fs,
               !.mpIFile = @ \o [i \in DOMAIN fs |-> fs[i].id]]
\* Mutant: the lines that were converted keep the offsets of their names.
LoadedUnmapped(r) ==
  LET old == OldToC13(disk.c11)
      buf == IF disk.c13 # <<>> THEN disk.c13 ELSE old
  IN IF r.buf # <<>> THEN r ELSE WithFiles(r, buf)
\* findC13Lines: what is there is kept, read in full or not; otherwise the lines are
\* read, or converted, and the files are appended to those that are known.
Loaded(r) ==
  LET old == OldToC13(disk.c11)
      t == processC13Strings(names, old)
      buf == IF disk.c13 # <<>> THEN disk.c13 ELSE [i \in DOMAIN old |-> remap(t.map, old[i])]
  IN IF r.buf # <<>> THEN r ELSE WithFiles(r, buf)
NamesAfterLoad(r) ==
  IF r.buf # <<>> \/ disk.c13 # <<>> THEN names
  ELSE processC13Strings(names, OldToC13(disk.c11)).names

\* A conversion that failed is not tried again.
Findable == Reading /\ (rd.buf = <<>> /\ disk.c13 = <<>> => ~rd.fCoffToC13Failed)
Find(r) == Findable /\ rd' = r /\ names' = NamesAfterLoad(rd)

\* The read of a query fails: of the lines after the buffer got its size, with some of
\* them read; of old lines before anything is converted.
Unread == [t |-> "unread", v |-> <<>>]
ReadFails ==
  /\ Findable /\ fails < MaxFails /\ rd.buf = <<>>
  /\ IF disk.c13 = <<>> THEN rd' = [rd EXCEPT !.fCoffToC13Failed = TRUE]
     ELSE \E n \in 0 .. Len(disk.c13) - 1 :
            rd' = [rd EXCEPT !.raw = TRUE, !.buf = Append(SubSeq(disk.c13, 1, n), Unread)]
  /\ fails' = fails + 1
  /\ UNCHANGED <<wvars, enums, inlinees, lines11, opens>>

\* The buffer is freed; what enumerators read of it from then on is anything.
Closed == [st |-> "closed"]
Stale == [st |-> "stale", end |-> FALSE]
Freed(r) == IF r.buf = <<>> THEN r ELSE [r EXCEPT !.buf = <<>>, !.raw = FALSE, !.frees = @ + 1]
FreedUnder(ens) == [e \in Enums |-> IF ens[e].st = "open" /\ rd.buf # <<>> THEN Stale ELSE ens[e]]

\* QueryFileNameInfo: index to id, id to name index.
FirstOf(found) == IF found = {} THEN 0 ELSE CHOOSE i \in found : \A j \in found : i <= j
IFile(mpIFile, id) == FirstOf({i \in DOMAIN mpIFile : mpIFile[i] = id})
ById(fs, id) == fs[FirstOf({i \in DOMAIN fs : fs[i].id = id})]
FileName(r, ifile) ==
  IF ifile \notin DOMAIN r.mpIFile THEN None
  ELSE names[ById(r.fileInfo, r.mpIFile[ifile]).str]
QueryFileNameInfo ==
  /\ rd.fileInfo = <<>> /\ Find(Loaded(rd))
  /\ UNCHANGED <<obj, mod, disk, files, frames, enums, inlinees, lines11, opens, fails>>

\* An enumerator: the section and the block it is at, whether it has the section
\* (m_pSection), its kind and files; il0: the kind it was asked for; got: the blocks it
\* gave; end: it gave no more.
GetEnum(e, il) ==
  /\ enums[e] = Closed /\ opens < MaxOpens
  /\ Find(Loaded(rd))
  /\ enums' = [enums EXCEPT ![e] =
       [st |-> "open", il |-> il, il0 |-> il, sec |-> 0, blk |-> 0, sect |-> FALSE, cloned |-> FALSE,
        mpIFile |-> Loaded(rd).mpIFile, got |-> <<>>, end |-> FALSE]]
  /\ opens' = opens + 1
  /\ UNCHANGED <<obj, mod, disk, files, frames, inlinees, lines11, fails>>

Kind(e) == IF enums[e].il THEN "il" ELSE "lines"
\* Mutant: a section of the other kind is not passed over.
AnySecs(e, sec) == {i \in DOMAIN rd.buf : i > sec /\ rd.buf[i].t \in {"il", "lines"} /\ rd.buf[i].v # <<>>}
\* The next block after (sec, blk), of the kind.
NextSecs(e, sec) ==
  {i \in DOMAIN rd.buf : i > sec /\ rd.buf[i].t = Kind(e) /\ rd.buf[i].v # <<>>}
InBlocks(e) ==
  enums[e].blk > 0 /\ enums[e].blk < Len(rd.buf[enums[e].sec].v)

\* getLines: the index of the block's file, its address and, for an enumerator that
\* has the section, its lines: without it, to ask for them dereferences NULL.
NoLines == <<-1>>
Answer(e, sec, blk, sect) ==
  LET b == rd.buf[sec].v[blk]
  IN [ifile |-> IFile(enums[e].mpIFile, b.id), at |-> b.at, lines |-> IF sect THEN b.lines ELSE NoLines]

next(e) ==
  /\ Reading /\ enums[e].st = "open"
  /\ LET en == enums[e]
         secs == NextSecs(e, en.sec)
         sec == IF InBlocks(e) THEN en.sec ELSE CHOOSE i \in secs : \A j \in secs : i <= j
         blk == IF InBlocks(e) THEN en.blk + 1 ELSE 1
         sect == en.sect \/ ~InBlocks(e)
     IN enums' = [enums EXCEPT ![e] =
          IF InBlocks(e) \/ secs # {}
          THEN [@ EXCEPT !.sec = sec, !.blk = blk, !.sect = sect, !.got = Append(@, Answer(e, sec, blk, sect))]
          ELSE [@ EXCEPT !.sec = Len(rd.buf), !.blk = 0, !.end = TRUE]]
  /\ UNCHANGED <<wvars, rd, inlinees, lines11, opens, fails>>

NextStale(e) ==
  /\ Reading /\ enums[e].st = "stale"
  /\ \E end \in BOOLEAN : enums' = [enums EXCEPT ![e].end = end]
  /\ UNCHANGED <<wvars, rd, inlinees, lines11, opens, fails>>

reset(e) ==
  /\ Reading /\ enums[e].st # "closed"
  /\ enums' = [enums EXCEPT ![e] =
       IF @.st = "stale" THEN Stale
       ELSE [@ EXCEPT !.sec = 0, !.blk = 0, !.sect = FALSE, !.got = <<>>, !.end = FALSE]]
  /\ UNCHANGED <<wvars, rd, inlinees, lines11, opens, fails>>

\* A clone is where the other one is, but not of its kind, and without its section.
clone(e, f) ==
  /\ Reading /\ enums[e].st # "closed" /\ enums[f] = Closed /\ opens < MaxOpens
  /\ enums' = [enums EXCEPT ![f] =
       IF enums[e].st = "stale" THEN Stale
       ELSE [enums[e] EXCEPT !.il = FALSE, !.sect = FALSE, !.cloned = TRUE]]
  /\ opens' = opens + 1
  /\ UNCHANGED <<wvars, rd, inlinees, lines11, fails>>

\* The buffer is freed whoever else reads it, also by an enumerator of an earlier one.
release(e) ==
  /\ Reading /\ enums[e].st # "closed" /\ rd.frees < MaxFrees
  /\ enums' = FreedUnder([enums EXCEPT ![e] = Closed])
  /\ rd' = Freed(rd)
  /\ UNCHANGED <<wvars, inlinees, lines11, opens, fails>>

\* QueryInlineeLines: the ids of files become indices by a map that is made once.
IdMap(r) ==
  [id \in Range(r.mpIFile) |-> CHOOSE i \in DOMAIN r.mpIFile :
     r.mpIFile[i] = id /\ \A j \in DOMAIN r.mpIFile : r.mpIFile[j] = id => j <= i]
WithIdMap(r) == IF r.built THEN r ELSE [r EXCEPT !.mpIDFile = IdMap(r), !.built = r.mpIFile # <<>>]
\* With an id that has no index it fails.
QueryInlineeLines ==
  /\ Findable
  /\ LET r == Loaded(rd)
         subs == OfType(r.buf, "inlinees")
         m == WithIdMap(r)
     IN /\ names' = NamesAfterLoad(rd)
        /\ IF subs = <<>> THEN rd' = r /\ UNCHANGED inlinees
           ELSE /\ rd' = m
                /\ IF \A x \in Range(subs[1].v) : Range(x.ids) \subseteq DOMAIN m.mpIDFile
                   THEN inlinees' = [i \in DOMAIN subs[1].v |->
                          [item |-> subs[1].v[i].item,
                           files |-> [k \in DOMAIN subs[1].v[i].ids |-> m.mpIDFile[subs[1].v[i].ids[k]]]]]
                   ELSE UNCHANGED inlinees
  /\ UNCHANGED <<obj, mod, disk, files, frames, enums, lines11, opens, fails>>

-----------------------------------------------------------------------------
(* Lines as they were *)

\* Mutant: large line numbers are cut off and may become the special one.
Line11Cut(n) == IF n \in Specials THEN ShortMax ELSE n % (ShortMax + 1)
Line11(n) ==
  IF n \in Specials THEN ShortMax
  ELSE IF n >= ShortMax THEN (n % (ShortMax + 1)) - (n % 2) ELSE n

\* GetC11LinesFromC13: of each file its blocks, each with as many lines as 16 bits can
\* count; the lines of a file are one buffer, in which a block begins where the one
\* before it was cut off.
Lesser(a, b) == IF a < b THEN a ELSE b
OldLines(r) ==
  LET blocks == Content(r.buf, "lines")
      BlocksOf(i) == SelectSeq(blocks, LAMBDA b : IFile(r.mpIFile, b.id) = i)
      n == Cardinality(Range(r.mpIFile))
      Cut(b) == Lesser(Len(b.lines), ShortMax)
  IN [i \in 1 .. n |->
       LET bs == BlocksOf(i)
           all == FlattenSeq([k \in DOMAIN bs |-> bs[k].lines])
           From(k) == FoldLeft(LAMBDA a, b : a + Cut(b), 0, SubSeq(bs, 1, k - 1))
       IN [file |-> FileName(r, i),
           sects |-> [k \in DOMAIN bs |->
             [at |-> bs[k].at, lines |-> [j \in 1 .. Cut(bs[k]) |-> Line11(all[From(k) + j])]]]]]

\* QueryLines: the answer is made once, handed out and forgotten; the enumerator that
\* made it, or failed for want of files, frees the buffer.  part: of some of the lines.
QueryLines ==
  /\ Reading /\ disk.c13 # <<>> /\ rd.frees < MaxFrees
  /\ LET r == Loaded(rd)
     IN IF rd.bufLines # <<>>
        THEN /\ lines11' = rd.bufLines /\ rd' = [rd EXCEPT !.bufLines = <<>>]
             /\ UNCHANGED enums
        ELSE /\ enums' = FreedUnder(enums) /\ UNCHANGED lines11
             /\ rd' = IF r.fileInfo = <<>> THEN Freed(r)
                      ELSE [Freed(r) EXCEPT !.bufLines = <<[part |-> r.raw, files |-> OldLines(r)]>>]
  /\ UNCHANGED <<wvars, inlinees, opens, fails>>

CloseRead ==
  /\ Reading /\ rd # NewReader /\ \A e \in Enums : enums[e] = Closed
  /\ rd' = NewReader
  /\ inlinees' = None /\ lines11' = None
  /\ UNCHANGED <<wvars, enums, opens, fails>>

-----------------------------------------------------------------------------
Init ==
  /\ obj \in Objs
  /\ names = Names0 /\ mod = [NewMod EXCEPT !.left = DOMAIN obj]
  /\ disk = None /\ files = <<>> /\ frames = <<>>
  /\ rd = NewReader /\ enums = [e \in Enums |-> Closed]
  /\ inlinees = None /\ lines11 = None /\ opens = 0 /\ fails = 0

Next ==
  \/ \E i \in DOMAIN obj : Contribute(i)
  \/ CloseWrite \/ CloseRead
  \/ ReadFails \/ QueryFileNameInfo \/ QueryInlineeLines \/ QueryLines
  \/ \E e \in Enums :
       \/ \E il \in BOOLEAN : GetEnum(e, il)
       \/ next(e) \/ NextStale(e) \/ reset(e) \/ release(e)
       \/ \E f \in Enums : clone(e, f)

Spec == Init /\ [][Next]_vars

-----------------------------------------------------------------------------
(* Properties *)

Subs == FlattenSeq(obj)

\* What a string and a file of the object mean.
Str(off) == Mapped(Content(Subs, "strings")[off])
Old == Subs[1].t \in {"c11", "coff"}
FileOf(id) ==
  Str(ById(Content(Subs, "files"), id).str)

\* A string that is not in the object's table.
UsesUnknown ==
  ~Old /\ \E t \in {"syms", "imports", "files", "frames"} :
            ~(StrsOf(Subs, t) \subseteq DOMAIN Content(Subs, "strings"))

\* A module is refused just when a string is missing.  Every string that is written
\* leads to its name, renamed as the source map says, in whatever order strings, files
\* and symbols came, and every type to its index (mod.cpp:3130-3596).
WrittenRight ==
  /\ ~mod.open => (disk = None <=> UsesUnknown)
  /\ disk # None /\ ~Old =>
     /\ {names[i] : i \in Range(disk.syms)} = {Str(s) : s \in Range(Content(Subs, "syms"))}
     /\ {[id |-> f.id, name |-> names[f.str]] : f \in Range(Content(disk.c13, "files"))}
          = {[id |-> f.id, name |-> Str(f.str)] : f \in Range(Content(Subs, "files"))}
     /\ {[rva |-> f.rva, func |-> names[f.func]] : f \in Range(frames)}
          = {[rva |-> f.rva, func |-> Str(f.func)] : f \in Range(Content(Subs, "frames"))}
     /\ {names[s] : s \in Range(Content(disk.c13, "imports"))}
          = {Str(s) : s \in Range(Content(Subs, "imports"))}
     /\ {x.global : x \in Range(Content(disk.c13, "exports"))}
          = {ItemMap[x.local] : x \in Range(Content(Subs, "exports"))}

\* The blocks of a kind that were given, with the names of their files.
Named(b, file) == [name |-> file, at |-> b.at, lines |-> b.lines]
GivenOld ==
  FlattenSeq([i \in DOMAIN Subs |->
    IF Subs[i].t = "coff" THEN <<[name |-> Mapped(Subs[i].file), at |-> Subs[i].at, lines |-> Subs[i].v]>>
    ELSE FlattenSeq([f \in DOMAIN Subs[i].v |->
           LET x == Subs[i].v[f]
           IN [s \in DOMAIN x.sects |->
                 [name |-> Mapped(x.file), at |-> x.sects[s].at, lines |-> x.sects[s].lines]]])])
Given(kind) ==
  IF Old THEN IF kind = "lines" THEN Range(GivenOld) ELSE {}
  ELSE {Named(b, FileOf(b.id)) : b \in Range(Content(Subs, kind))}
Places(blocks) == {[name |-> b.name, at |-> b.at] : b \in blocks}
Seen(e) == {Named(b, FileName(rd, b.ifile)) : b \in Range(enums[e].got)}

\* An enumerator whose buffer is still there, and was read in full, gives each block of
\* its kind once, and the index of the block's file leads to the file's name, in the DBI
\* too.  A clone gives the rest of them, the ones of the section it was made in without
\* their lines; one of an enumerator of IL lines comes from those to the others.  Of a
\* buffer that was read in part the blocks there are right (mod.cpp:3670-3893).
EnumsRight ==
  Reading => \A e \in {x \in Enums : enums[x].st = "open"} :
    LET en == enums[e]
        of == IF en.il = en.il0 THEN Given(Kind(e)) ELSE Given("il") \cup Given("lines")
        full == {b \in Seen(e) : b.lines # NoLines}
    IN /\ ~en.cloned => full = Seen(e)
       /\ {[at |-> b.at, lines |-> b.lines] : b \in full} \subseteq {[at |-> b.at, lines |-> b.lines] : b \in of}
       /\ ~rd.raw =>
            /\ full \subseteq of /\ Places(Seen(e)) \subseteq Places(of)
            /\ IsInjective([k \in DOMAIN en.got |-> [en.got[k] EXCEPT !.lines = NoLines]])
            /\ en.end /\ en.il = en.il0 => Places(Seen(e)) = Places(of)
            /\ disk.c13 # <<>> => \A b \in Range(en.got) : files[b.ifile] = FileName(rd, b.ifile)

\* The files of inlined functions, and the lines as they were, are right whenever they
\* are asked for, also after the buffer was freed and read again, or read in part
\* before, as long as 16 bits count the lines (mod.cpp:4069-4190, 4722-4943).
AnswersRight ==
  /\ inlinees # None =>
       {[item |-> x.item, names |-> [k \in DOMAIN x.files |-> FileName(rd, x.files[k])]] : x \in Range(inlinees)}
         = {[item |-> ItemMap[x.item], names |-> [k \in DOMAIN x.ids |-> FileOf(x.ids[k])]] :
              x \in Range(Content(Subs, "inlinees"))}
  /\ lines11 # None /\ (\A b \in Given("lines") : Len(b.lines) <= ShortMax) =>
       LET all == UNION {{[name |-> f.file, at |-> s.at, lines |-> s.lines] : s \in Range(f.sects)} :
                           f \in Range(lines11[1].files)}
           want == {[b EXCEPT !.lines = [j \in DOMAIN @ |-> Line11(@[j])]] : b \in Given("lines")}
       IN all \subseteq want /\ (lines11[1].part \/ all = want)
  /\ \A a \in Specials : \A n \in 0 .. 4 * ShortMax : n \notin Specials => Line11(n) # Line11(a)

ModLinesRight == WrittenRight /\ EnumsRight /\ AnswersRight
=============================================================================
