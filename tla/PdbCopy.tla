------------------------------ MODULE PdbCopy ------------------------------
(* A copy of a PDB that is made anew (PDBCopy in PDB/dbi/pdb.cpp): a copy    *)
(* without what is private (strip), or the full PDB of a mini PDB, whose     *)
(* private symbols a client finds in the objects.  The modules come first,   *)
(* one after the other, then all contributions, the publics, the sections    *)
(* and the other streams; whatever fails ends the copy.                      *)
EXTENDS Integers, Sequences, FiniteSets, SequencesExt

CONSTANTS
  Sources,    \* PDBs: [mini, mods, contribs, pubs, secs, dbgs]
  Filters     \* what clients want: [annotations, anyText, last, names]

VARIABLES
  missing,    \* modules whose types were not found
  stage,      \* the step of DoCopy that is next
  nMod,       \* modules that are copied
  dest,       \* the new PDB
  src, filter

vars == <<src, filter, stage, nMod, dest, missing>>

isectNil == [isect |-> 0]
NewMod(name) ==
  [name |-> name, first |-> isectNil, scs |-> <<>>, syms |-> <<>>, tables |-> <<>>, lines |-> {}]

-----------------------------------------------------------------------------
(* CopyPrivateSymbols: a stripped module *)
\* A symbol that opens a scope has the place of its S_END.
Openers == {"gproc", "lproc", "sepcode"}

\* The text that the client decides on: the first string, or the first and the last.
Text(s) == IF filter.last THEN <<s.text[1], Last(s.text)>> ELSE <<s.text[1]>>
AnnotationKept(s) ==
  filter.annotations /\ (filter.anyText \/ (s.text # <<>> /\ Text(s) \in filter.texts))

\* A global procedure is there for what is separated from it.
Separated(syms, s) == s.end < Len(syms) /\ syms[s.end + 1].k = "sepcode"

\* Mutant: any end is copied while one is waited for.
EndAny(end, i) == end # 0
EndWanted(end, i) == i = end

Kept(syms, end, i) ==
  LET s == syms[i]
  IN \/ s.k = "annotation" /\ AnnotationKept(s)
     \/ s.k \in {"lproc", "sepcode"}
     \/ s.k = "gproc" /\ Separated(syms, s)
     \/ s.k = "end" /\ EndWanted(end, i)

CopyPrivateSymbols(syms) ==
  FoldLeftDomain(LAMBDA a, i :
    IF ~Kept(syms, a.end, i) THEN a
    ELSE [syms |-> Append(a.syms, [k |-> syms[i].k, at |-> i]),
          end |-> IF syms[i].k \in Openers THEN syms[i].end
                  ELSE IF syms[i].k = "end" THEN 0 ELSE a.end],
    [syms |-> <<>>, end |-> 0], syms).syms

-----------------------------------------------------------------------------
(* ProcessModInMiniPDB: a module of a mini PDB *)

\* Mutant: in the order of their addresses.
ByAddress(coffs, c) == Append(coffs, c.coff)
NonComdatFirst(coffs, c) == IF c.comdat THEN Append(coffs, c.coff) ELSE <<c.coff>> \o coffs

\* BuildImodToIsectCoffMap: -1 is the section of an object that is in no COMDAT.
IsectCoffs(i) ==
  LET scs == SelectSeq(src.contribs, LAMBDA c : c.imod = i)
      coffs == FoldLeft(LAMBDA a, c : NonComdatFirst(a, c), <<>>, scs)
  IN IF \E k \in DOMAIN scs : ~scs[k].comdat THEN coffs ELSE <<-1>> \o coffs

\* Mutant: what is emitted is not remembered.
EmitAgain(blocks, b) == Append(blocks, b)
EmitOnce(blocks, b) == IF b \in Range(blocks) THEN blocks ELSE Append(blocks, b)

\* The symbols that the client has for a section, if any.
Blocks(i) ==
  LET of == src.mods[i].coff
  IN FoldLeft(LAMBDA a, c : IF c \in DOMAIN of THEN EmitOnce(a, of[c]) ELSE a, <<>>, IsectCoffs(i))

\* CreateStringSubSection: the strings that records need, one after the other; each
\* table starts with the offsets that the last one started with.
StringTable(strs) == strs
Rebased(strs) == [k \in DOMAIN strs |-> k]

\* Mod1::processC13Strings: what an offset leads to when the module is closed.
Mapped(tables, off) ==
  LET has == {t \in DOMAIN tables : off \in DOMAIN tables[t]}
  IN tables[CHOOSE t \in has : \A u \in has : u <= t][off]

ProcessModInMiniPDB(m, i) ==
  LET blocks == Blocks(i)
  IN [m EXCEPT
        !.syms = [k \in DOMAIN blocks |-> [id |-> blocks[k].id, strs |-> Rebased(blocks[k].strs)]],
        !.tables = [k \in DOMAIN blocks |-> StringTable(blocks[k].strs)]
                   \o <<StringTable(src.mods[i].files)>>,
        !.lines = {"lines", "files"}]

-----------------------------------------------------------------------------
(* The steps of DoCopy *)
Going(s) == stage = s
To(s) == stage' = s /\ UNCHANGED <<src, filter>>

\* A step that fails ends the copy.
Fail ==
  /\ stage \notin {"done", "failed"}
  /\ stage' = "failed"
  /\ UNCHANGED <<src, filter, nMod, dest, missing>>

CopyDbiHdr ==
  /\ Going("hdr") /\ To("mods")
  /\ dest' = [dest EXCEPT !.machine = src.machine]
  /\ UNCHANGED <<nMod, missing>>

\* Mod1::AddSecContrib; the first one that is code is what QuerySecContrib says.
AddSecContrib(m, c) ==
  IF c = isectNil THEN m
  ELSE [m EXCEPT !.scs = Append(@, c), !.first = IF @ = isectNil /\ c.code THEN c ELSE @]

\* One module: opened, its first contribution, its symbols.  One whose types are not
\* found gets no symbols, and the copy goes on.
CopyMod ==
  /\ Going("mods") /\ nMod < Len(src.mods)
  /\ LET i == nMod + 1
         m == AddSecContrib(NewMod(src.mods[i].name), src.mods[i].first)
     IN /\ dest' = [dest EXCEPT !.mods = Append(@,
              IF ~src.mini THEN [m EXCEPT !.syms = CopyPrivateSymbols(src.mods[i].syms)]
              ELSE IF src.mods[i].types = "missing" THEN m
              ELSE ProcessModInMiniPDB(m, i))]
        /\ missing' = IF src.mini /\ src.mods[i].types = "missing" THEN missing \cup {i} ELSE missing
        /\ nMod' = i
  /\ To("mods")

\* Mutant: all contributions are added, the first one again.
NoneYet(c) == FALSE
AddedYet(c) ==
  LET first == src.mods[c.imod].first IN first # isectNil /\ c.isect = first.isect /\ c.off = first.off

CopyContribs ==
  /\ Going("mods") /\ nMod = Len(src.mods) /\ To("publics")
  /\ dest' = [dest EXCEPT !.mods = FoldLeft(
       LAMBDA ms, c : IF AddedYet(c) THEN ms ELSE [ms EXCEPT ![c.imod] = AddSecContrib(@, c)],
       @, src.contribs)]
  /\ UNCHANGED <<nMod, missing>>

\* The client keeps a public, renames it or drops it.
Renamed(p) == IF p.name \in DOMAIN filter.names THEN [p EXCEPT !.name = filter.names[p.name]] ELSE p
CopyPublics ==
  /\ Going("publics") /\ To("secs")
  /\ dest' = [dest EXCEPT !.pubs =
       LET kept == SelectSeq(src.pubs, LAMBDA p : p.name \notin filter.drops)
       IN [k \in DOMAIN kept |-> Renamed(kept[k])]]
  /\ UNCHANGED <<nMod, missing>>

CopySecMap ==
  /\ Going("secs") /\ To("dbg")
  /\ dest' = [dest EXCEPT !.secs = src.secs]
  /\ UNCHANGED <<nMod, missing>>

\* The programs of frames are names in the name map of their PDB.
Ni(names, name) == SelectInSeq(names, LAMBDA n : n = name)
\* Mutant: frames keep the index they have.
FramesAsIs(names, frames) ==
  [names |-> names \o [k \in DOMAIN frames |-> src.names[frames[k]]], frames |-> frames]
FramesMapped(names, frames) ==
  FoldLeft(LAMBDA a, ni :
    LET name == src.names[ni]
        all == IF name \in Range(a.names) THEN a.names ELSE Append(a.names, name)
    IN [names |-> all, frames |-> Append(a.frames, Ni(all, name))],
    [names |-> names, frames |-> <<>>], frames)

\* Every stream but the fixups, which are private; the frames are one of them.
CopyDbg ==
  /\ Going("dbg") /\ To("done")
  /\ LET f == FramesMapped(dest.names, src.frames)
     IN dest' = [dest EXCEPT !.dbgs = src.dbgs \ {"fixup"}, !.frames = f.frames, !.names = f.names]
  /\ UNCHANGED <<nMod, missing>>

Init ==
  /\ src \in Sources /\ filter \in Filters
  /\ stage = "hdr" /\ nMod = 0 /\ missing = {}
  /\ dest = [machine |-> 0, mods |-> <<>>, pubs |-> <<>>, secs |-> <<>>, dbgs |-> {},
             frames |-> <<>>, names |-> <<>>]

Next ==
  \/ CopyDbiHdr \/ CopyMod \/ CopyContribs \/ CopyPublics \/ CopySecMap \/ CopyDbg \/ Fail

Spec == Init /\ [][Next]_vars

-----------------------------------------------------------------------------
\* Who is at an address, and what a module's first code is, are the same in the copy;
\* no contribution is there twice.
ContribsRight ==
  stage \in {"publics", "secs", "dbg", "done"} =>
    \A i \in DOMAIN src.mods :
      LET scs == dest.mods[i].scs
      IN /\ Range(scs) = {c \in Range(src.contribs) : c.imod = i}
         /\ IsInjective(scs)
         /\ dest.mods[i].first = src.mods[i].first

\* The scopes that are copied are closed, each by its own end; what is separated from a
\* procedure comes right after it.
ScopesRight ==
  ~src.mini => \A i \in DOMAIN dest.mods :
    LET syms == src.mods[i].syms
        out == dest.mods[i].syms
        ends(k) == {l \in k + 1 .. Len(out) : out[l].k = "end" /\ out[l].at = syms[out[k].at].end}
    IN /\ \A k \in DOMAIN out : out[k].k \in Openers =>
            \E l \in ends(k) : \A o \in k + 1 .. l - 1 : out[o].k = "annotation"
       /\ \A l \in DOMAIN out : out[l].k = "end" => \E k \in 1 .. l - 1 :
            out[k].k \in Openers /\ l \in ends(k)
       /\ \A k \in DOMAIN out : out[k].k = "sepcode" =>
            \E l \in 1 .. k - 1 : out[l].k = "end" /\ out[l].at = out[k].at - 1

\* The symbols of every section of an object that is in the image are there once, those
\* that are in no COMDAT first.
MiniRight ==
  src.mini => \A i \in DOMAIN dest.mods \ missing :
    LET of == src.mods[i].coff
        scs == {c \in Range(src.contribs) : c.imod = i}
        in == {c.coff : c \in scs} \cup (IF \A c \in scs : c.comdat THEN {-1} ELSE {})
        out == dest.mods[i].syms
    IN /\ {out[k].id : k \in DOMAIN out} = {of[c].id : c \in in \cap DOMAIN of}
       /\ IsInjective([k \in DOMAIN out |-> out[k].id])
       /\ \A c \in scs : ~c.comdat /\ c.coff \in DOMAIN of =>
            \E k \in DOMAIN out : out[k].id = of[c.coff].id
              /\ \A l \in 1 .. k - 1 : \E d \in scs : ~d.comdat /\ d.coff \in DOMAIN of
                                                     /\ of[d.coff].id = out[l].id

\* The strings of symbols are found again, if only one of the module's tables has any:
\* all tables are looked up as one, and they have the same offsets.
StringsRight ==
  src.mini => \A i \in DOMAIN dest.mods \ missing :
    LET m == dest.mods[i]
        b == Blocks(i)
    IN Cardinality({t \in DOMAIN m.tables : m.tables[t] # <<>>}) <= 1 =>
         \A k \in DOMAIN b : [s \in DOMAIN b[k].strs |-> Mapped(m.tables, m.syms[k].strs[s])] = b[k].strs

\* Frames have the program they had, and publics the names that the client gives.
RestRight ==
  /\ stage = "done" =>
       [k \in DOMAIN dest.frames |-> dest.names[dest.frames[k]]]
         = [k \in DOMAIN src.frames |-> src.names[src.frames[k]]]
  /\ stage \in {"secs", "dbg", "done"} =>
       {p.at : p \in Range(dest.pubs)} = {p.at : p \in {q \in Range(src.pubs) : q.name \notin filter.drops}}

PdbCopyRight == ContribsRight /\ ScopesRight /\ MiniRight /\ StringsRight /\ RestRight
=============================================================================
