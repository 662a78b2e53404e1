-------------------------------- MODULE Mli --------------------------------
(* The line numbers of a module as they were before C13: gathered by source  *)
(* file and section, laid out in a buffer that is read through the offsets   *)
(* in it, and taken apart again to change the file names from MBCS to UTF8   *)
(* (PDB/dbi/mli.cpp, PDB/include/cvlines.h).                                 *)
(*                                                                           *)
(*  - A buffer is appended to in words <<cb, value>>; what is read at an       *)
(*    offset is the word that begins there.                                  *)
(*  - Counts wrap at CountMod and line numbers at LineMod (16 bits in both    *)
(*    cases); memory does not run out.                                       *)
EXTENDS Integers, Sequences, SequencesExt, FiniteSets, FiniteSetsExt

CONSTANTS
  Calls,      \* arguments of AddLines: records [szSrc, isect, offCon, cbCon, doff, lineStart, plnum]
  CbName,     \* bytes of each name, in MBCS and in UTF8
  Utf8,       \* the UTF8 form of each MBCS name
  CountMod, LineMod,
  MaxCalls    \* bound: calls of AddLines

VARIABLES
  mli,        \* the files in the order they came, each with its sections
  pbLines,    \* what Emit wrote, empty before
  calls       \* history: the calls of AddLines

vars == <<mli, pbLines, calls>>

None == <<>>
StartOfFunction == 0   \* plnum[1].line of a contribution that starts a function
LineAgain == 32767     \* 0x7fff: the line number lineStart once more

-----------------------------------------------------------------------------
(* Gathering *)

adjustLineNumber(lineStart, line) == IF line = LineAgain THEN lineStart ELSE lineStart + line

\* A search through a list of n ends at the first that is found, or after the last.
Found(found, n) == IF found = {} THEN n + 1 ELSE Min(found)
Extended(s, i, new) == IF i \in DOMAIN s THEN s ELSE Append(s, new)

IndexOf(files, szFile) ==
  Found({i \in DOMAIN files : files[i].szFile = szFile}, Len(files))
AddSrcFile(files, szFile) ==
  Extended(files, IndexOf(files, szFile), [szFile |-> szFile, sects |-> <<>>])

\* Mutant: whatever section it is in.
ContinuesAny(si, isect, offMin) == si.offMax + 1 = offMin
\* A contribution that begins where one of the same section ends continues it.
Continues(si, isect, offMin) == si.isect = isect /\ si.offMax + 1 = offMin

AddSectInfo(sects, isect, offMin, offMax, lines) ==
  LET i == Found({j \in DOMAIN sects : Continues(sects[j], isect, offMin)}, Len(sects))
      all == Extended(sects, i, [isect |-> isect, offMin |-> offMin, offMax |-> offMax, lines |-> <<>>])
  IN [all EXCEPT ![i].offMax = offMax, ![i].lines = @ \o lines]

\* Where a contribution begins, and its lines.
OffCon(c) ==
  IF c.plnum[1].line # StartOfFunction THEN c.plnum[1].va + c.doff ELSE c.offCon
OffMac(c) == c.offCon + c.cbCon
LinesOf(c) ==
  [k \in DOMAIN c.plnum |->
     [off |-> IF k = 1 THEN OffCon(c) ELSE c.plnum[k].va + c.doff,
      line |-> adjustLineNumber(c.lineStart, c.plnum[k].line)]]

AddLines(c) ==
  LET files == AddSrcFile(mli, c.szSrc)
      i == IndexOf(mli, c.szSrc)
  IN /\ pbLines = None
     /\ mli' = [files EXCEPT ![i].sects = AddSectInfo(@, c.isect, OffCon(c), OffMac(c), LinesOf(c))]
     /\ calls' = Append(calls, c)
     /\ UNCHANGED pbLines

-----------------------------------------------------------------------------
(* Layout *)

SumSeq(s) == FoldLeft(LAMBDA a, b : a + b, 0, s)
dcbAlign(cb) == (4 - (cb % 4)) % 4
cbAlign(cb) == cb + dcbAlign(cb)

\* csect, cPair and cfiles are 16 bits wide.
Count(s) == Len(s) % CountMod

\* Mutant: the padding after an odd number of lines is forgotten.
CbSectUnpadded(si) == 4 + 6 * Count(si.lines)
\* SrcFile::Size and the sizes of its sections.
CbSect(si) == 4 + 6 * Count(si.lines) + IF Count(si.lines) % 2 = 1 THEN 2 ELSE 0
CbHead(f) == 4 + 12 * Count(f.sects) + cbAlign(CbName[f.szFile] + 1)
CbSects(f) == [s \in DOMAIN f.sects |-> CbSect(f.sects[s])]
Size(f) == CbHead(f) + SumSeq(CbSects(f))

\* Where each element of a list begins, the first one at base, when these are their sizes.
Starts(base, cbs) == [i \in DOMAIN cbs |-> base + SumSeq(SubSeq(cbs, 1, i - 1))]

Words(cb, s) == [i \in DOMAIN s |-> <<cb, s[i]>>]
Pad(cb) == IF cb = 0 THEN <<>> ELSE <<<<cb, 0>>>>
Extents(s) == FlattenSeq([i \in DOMAIN s |-> <<<<4, s[i].offMin>>, <<4, s[i].offMax>>>>])

EmitSect(si) ==
  <<<<2, si.isect>>, <<2, Count(si.lines)>>>>
  \o [k \in DOMAIN si.lines |-> <<4, si.lines[k].off>>]
  \o [k \in DOMAIN si.lines |-> <<2, si.lines[k].line % LineMod>>]
  \o Pad(IF Count(si.lines) % 2 = 1 THEN 2 ELSE 0)

EmitFile(f, off) ==
  <<<<2, Count(f.sects)>>, <<2, 0>>>>
  \o Words(4, Starts(off + CbHead(f), CbSects(f)))
  \o Extents(f.sects)
  \o <<<<CbName[f.szFile] + 1, f.szFile>>>> \o Pad(dcbAlign(CbName[f.szFile] + 1))
  \o FlattenSeq([s \in DOMAIN f.sects |-> EmitSect(f.sects[s])])

\* The sections of all files, each with the extent of what the files have of it.
Sections(files) == FlattenSeq([i \in DOMAIN files |-> files[i].sects])
CollectSections(files) ==
  FoldLeft(LAMBDA acc, si :
             LET i == Found({j \in DOMAIN acc : acc[j].isect = si.isect}, Len(acc))
                 all == Extended(acc, i, [isect |-> si.isect, offMin |-> si.offMin, offMax |-> si.offMax])
             IN [all EXCEPT ![i].offMin = Min({@, si.offMin}), ![i].offMax = Max({@, si.offMax})],
           <<>>, Sections(files))

CbFixed(cfiles, csect) == 4 + 4 * cfiles + 10 * csect

\* What is in a buffer, by offset.
Bytes(words) ==
  FoldLeft(LAMBDA acc, w : [cb |-> acc.cb + w[1], at |-> acc.at @@ (acc.cb :> w[2])],
           [cb |-> 0, at |-> <<>>], words).at

\* Emit, and EmitWithSZName after UpdateSectionList, which differ in the names only.
Layout(files) ==
  LET sects == CollectSections(files)
      fixed == CbFixed(Count(files), Count(sects))
      bases == Starts(cbAlign(fixed), [i \in DOMAIN files |-> Size(files[i])])
  IN Bytes(
     <<<<2, Count(files)>>, <<2, Count(sects)>>>>
     \o Words(4, bases) \o Extents(sects)
     \o [i \in DOMAIN sects |-> <<2, sects[i].isect>>]
     \o Pad(dcbAlign(fixed))
     \o FlattenSeq([i \in DOMAIN files |-> EmitFile(files[i], bases[i])]))

Emit ==
  /\ pbLines = None /\ mli # <<>>
  /\ pbLines' = Layout(mli)
  /\ UNCHANGED <<mli, calls>>

-----------------------------------------------------------------------------
(* Reading *)

At(pb, off) == IF off \in DOMAIN pb THEN pb[off] ELSE None

\* A section's lines, where they are.
SectAt(pb, off, extent) ==
  [isect |-> At(pb, off), offMin |-> At(pb, extent), offMax |-> At(pb, extent + 4),
   lines |-> [k \in 1 .. At(pb, off + 2) |->
                [off |-> At(pb, off + 4 + 4 * (k - 1)),
                 line |-> At(pb, off + 4 + 4 * At(pb, off + 2) + 2 * (k - 1))]]]

\* LineBuffer: everything is reached through the offsets in the buffer.
LineBuffer(pb) ==
  [i \in 1 .. At(pb, 0) |->
     LET base == At(pb, 4 + 4 * (i - 1))
         cSeg == At(pb, base)
     IN [szFile |-> At(pb, base + 4 + 12 * cSeg),
         sects |-> [s \in 1 .. cSeg |->
                      SectAt(pb, At(pb, base + 4 + 4 * (s - 1)), base + 4 + 4 * cSeg + 8 * (s - 1))]]]

\* MLI::Construct passes over the buffer from front to back and looks at no offset.
ConstructFile(pb, off) ==
  LET cSeg == At(pb, off)
      szFile == At(pb, off + 4 + 12 * cSeg)
      first == off + 4 + 12 * cSeg + cbAlign(CbName[szFile] + 1)
      Next1(acc, s) ==
        LET si == SectAt(pb, acc.off, off + 4 + 4 * cSeg + 8 * (s - 1))
        IN [off |-> acc.off + CbSect(si), sects |-> Append(acc.sects, si)]
      read == FoldLeft(Next1, [off |-> first, sects |-> <<>>], [s \in 1 .. cSeg |-> s])
  IN [off |-> read.off, file |-> [szFile |-> szFile, sects |-> read.sects]]
Construct(pb) ==
  LET Next1(acc, i) ==
        LET r == ConstructFile(pb, acc.off)
        IN [off |-> r.off, files |-> Append(acc.files, r.file)]
  IN FoldLeft(Next1, [off |-> cbAlign(CbFixed(At(pb, 0), At(pb, 2))), files |-> <<>>],
              [i \in 1 .. At(pb, 0) |-> i]).files

ConvertSrcFileNames(files) == [i \in DOMAIN files |-> [szFile |-> Utf8[files[i].szFile], sects |-> files[i].sects]]

\* Mod1::ConvertFileNamesInLineInfoFmMBCSToUnicode.
Converted(pb) == Layout(ConvertSrcFileNames(Construct(pb)))

-----------------------------------------------------------------------------
Init == mli = <<>> /\ pbLines = None /\ calls = <<>>
Next == Emit \/ (Len(calls) < MaxCalls /\ \E c \in Calls : AddLines(c))
Spec == Init /\ [][Next]_vars

-----------------------------------------------------------------------------
(* Properties *)

\* The lines as their 16 bits show them.
Shown(files) ==
  [i \in DOMAIN files |->
     [files[i] EXCEPT !.sects =
        [s \in DOMAIN @ |-> [@[s] EXCEPT !.lines =
           [k \in DOMAIN @ |-> [@[k] EXCEPT !.line = @ % LineMod]]]]]]

Fits ==
  /\ Len(mli) < CountMod /\ Len(CollectSections(mli)) < CountMod
  /\ \A f \in Range(mli) :
       Len(f.sects) < CountMod /\ \A si \in Range(f.sects) : Len(si.lines) < CountMod

\* The offsets in the buffer lead a reader to each file, section and line that was
\* gathered, whatever padding lies between, and so do those of a buffer whose names
\* have been changed to UTF8 names of other lengths (mli.cpp:192-226, 322-367).
OffsetsLead ==
  pbLines # None /\ Fits =>
    /\ LineBuffer(pbLines) = Shown(mli)
    /\ LineBuffer(Converted(pbLines)) = ConvertSrcFileNames(Shown(mli))
    /\ CollectSections(Construct(pbLines)) = CollectSections(mli)

\* No line is lost or given to another section, and each contribution lies in one
\* section of its file, from the first of its addresses to the last (mli.cpp:104-121).
LinesKept ==
  \A f \in Range([c \in DOMAIN calls |-> calls[c].szSrc]) :
    \E i \in DOMAIN mli :
      /\ mli[i].szFile = f /\ \A j \in DOMAIN mli : mli[j].szFile = f => j = i
      /\ \A c \in Range(calls) : c.szSrc = f =>
           \E si \in Range(mli[i].sects) :
             /\ si.isect = c.isect /\ si.offMin <= OffCon(c) /\ OffMac(c) <= si.offMax
             /\ \E n \in 0 .. Len(si.lines) - Len(c.plnum) :
                  SubSeq(si.lines, n + 1, n + Len(c.plnum)) = LinesOf(c)

MliRight == OffsetsLead /\ LinesKept
=============================================================================
