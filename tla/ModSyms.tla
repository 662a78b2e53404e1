------------------------------ MODULE ModSyms ------------------------------
(* The symbols of the modules of a DBI: contributions are gathered while a   *)
(* module is open, and when it closes they are linked into scopes, shared    *)
(* out between the module's stream and the global symbols, and saved; then   *)
(* the module gives back what it had in the globals before (PDB/dbi/mod.cpp).*)
(*                                                                           *)
(*  - The globals are a bag of records; GlobalSyms has their table.           *)
(*  - A record is of a kind, with a name, a content v and, of a reference,    *)
(*    the module and the place it leads to.  Sizes are 1, of a record that    *)
(*    begins a scope 2, so that offsets differ from indices.                  *)
(*  - Types can be mapped, writes succeed; Msf and DbiStreams have failures.  *)
EXTENDS Integers, Sequences, SequencesExt, Bags, FiniteSets

CONSTANTS
  Mods,
  Contribs,   \* what AddSymbols is given: sequences of records
  MaxAdds,    \* bound: contributions of all modules
  MaxCloses   \* bound: modules that are closed

VARIABLES
  mode,     \* "merge", "ctypes" (m_fPdbCTypes), "nomerge" (m_fNoTypeMerge) or "mini"
  bufs,     \* bufSyms of each open module
  adds,
  closes,
  globals,  \* GSI1: a bag of records
  grefs,    \* the global references in each module's stream
  stream,   \* the symbols in each module's stream
  refused,  \* modules with a scope that was refused because it is not ended
  given     \* history: what each module's stream was made of

vars == <<mode, bufs, adds, closes, globals, grefs, stream, refused, given>>

-----------------------------------------------------------------------------
Openers == {"proc", "idproc", "manproc", "block", "inline"}
Enders == {"end", "idend"}
cbForSym(r) == IF r.k \in Openers THEN 2 ELSE 1
Rec(k, name, v, at) == [k |-> k, name |-> name, v |-> v, at |-> at]
Placed(r, off) == [k |-> r.k, name |-> r.name, v |-> r.v, off |-> off, pParent |-> 0, pEnd |-> 0]

\* A buffer of symbols after its signature, with the scope that is open.
NewBuf == [syms |-> <<>>, size |-> 1, offParent |-> 0, iLevel |-> 0]
NewMod == [buf |-> NewBuf, unended |-> FALSE]

At(syms, off) == CHOOSE i \in DOMAIN syms : syms[i].off = off

fCopySymOut(b, r) ==
  [b EXCEPT !.syms = Append(@, Placed(r, b.size)), !.size = @ + cbForSym(r)]

\* Mutant: the scope's end is where the next symbol comes.
EndsAfter(b) ==
  LET i == At(b.syms, b.offParent)
  IN [b EXCEPT !.syms[i].pEnd = b.size, !.offParent = b.syms[i].pParent, !.iLevel = @ - 1]

\* The last symbol begins or ends a scope.
EnterLevel(b) ==
  LET last == Len(b.syms)
  IN [b EXCEPT !.syms[last].pParent = b.offParent, !.offParent = b.syms[last].off,
               !.iLevel = @ + 1]
ExitLevel(b) ==
  LET i == At(b.syms, b.offParent)
  IN [b EXCEPT !.syms[i].pEnd = b.syms[Len(b.syms)].off, !.offParent = b.syms[i].pParent,
               !.iLevel = @ - 1]

\* Compilers do not end a scope that they did not begin.
Depth(recs, n) ==
  Cardinality({i \in 1 .. n : recs[i].k \in Openers})
  - Cardinality({i \in 1 .. n : recs[i].k \in Enders})
WellBegun(recs) == \A n \in DOMAIN recs : Depth(recs, n) >= 0

-----------------------------------------------------------------------------
(* AddSymbols *)

\* AddJustSymbols with fFixupLevel: each contribution is linked by itself.
Linked(b, recs) ==
  FoldLeft(LAMBDA c, r : LET d == fCopySymOut(c, r) IN
             IF r.k \in Openers THEN EnterLevel(d)
             ELSE IF r.k \in Enders THEN ExitLevel(d) ELSE d,
           [b EXCEPT !.offParent = 0, !.iLevel = 0], recs)
Gathered(b, recs) == FoldLeft(fCopySymOut, b, recs)

\* In a PDB without merged types the first symbol names the module's types.
fAddModTypeRefSym(b) ==
  IF mode = "nomerge" /\ b.syms = <<>> THEN fCopySymOut(b, Rec("typeref", "", "", <<>>)) ELSE b

AddSymbols(m, recs) ==
  /\ mode # "mini" /\ bufs[m] # <<>> /\ adds < MaxAdds
  /\ LET b == bufs[m][1].buf IN
     /\ WellBegun(IF mode = "nomerge" THEN recs ELSE b.syms \o recs)
     /\ LET c == IF mode = "nomerge" THEN Linked(fAddModTypeRefSym(b), recs) ELSE Gathered(b, recs)
        IN bufs' = [bufs EXCEPT ![m] =
             <<[buf |-> c, unended |-> @[1].unended \/ c.iLevel # 0]>>]
  /\ adds' = adds + 1
  /\ UNCHANGED <<mode, closes, globals, grefs, stream, refused, given>>

-----------------------------------------------------------------------------
(* fProcessSyms: s is the buffer that goes out, with the globals and the    *)
(* references that the module has to them.                                  *)
Pack(s, r) == [s EXCEPT !.globals = @ (+) SetToBag({r}), !.grefs = Append(@, r)]
Copied(s, r) == [s EXCEPT !.out = fCopySymOut(@, r)]
Entered(s) == [s EXCEPT !.out = EnterLevel(@)]
Exited(s) == [s EXCEPT !.out = ExitLevel(@)]

\* Mutant: the reference is made once the symbol has been copied.
RefPast(s, k, m, r) == Pack(s, Rec(k, r.name, "", <<m, s.out.size + cbForSym(r)>>))
packRef(s, k, m, r) == Pack(s, Rec(k, r.name, "", <<m, s.out.size>>))

\* packSymSPD: the first of a name is global, what differs stays in the module.
Promoted(s, r) ==
  IF BagIn(r, s.globals) \/ \A g \in BagToSet(s.globals) : g.name # r.name
  THEN Pack(s, r) ELSE Copied(s, r)

Proc(s, m, r) ==
  LET p == [r EXCEPT !.k = "proc"] IN Entered(Copied(packRef(s, "ref", m, p), p))
ManProc(s, m, r) ==
  Entered(Copied(packRef(packRef(s, "ref", m, r), "tokenref", m, r), r))
Constant(s, r) == IF s.out.iLevel > 0 THEN Copied(s, r) ELSE Promoted(s, r)

\* A UDT's v says what its type is: none, a declaration, a class of that name, or
\* something else.
Udt(s, r) ==
  CASE r.v \in {"none", "decl"} -> s
    [] r.v \notin {"none", "decl"} /\ s.out.iLevel > 0 -> Copied(s, r)
    [] r.v = "class" /\ s.out.iLevel = 0 -> IF mode = "ctypes" THEN Promoted(s, r) ELSE s
    [] OTHER -> Promoted(s, r)

\* Mutant: data in a scope is promoted too.
AnyLData(s, r) == Pack(Copied(s, r), r)
LData(s, r) ==
  IF s.out.iLevel = 0 /\ r.name # "" THEN Pack(Copied(s, r), r) ELSE Copied(s, r)

Processed(s, m, r) ==
  CASE r.k \in {"proc", "idproc"} -> Proc(s, m, r)
    [] r.k = "manproc" -> ManProc(s, m, r)
    [] r.k \in {"block", "inline"} -> Entered(Copied(s, r))
    [] r.k \in Enders -> Exited(Copied(s, [r EXCEPT !.k = "end"]))
    [] r.k = "const" -> Constant(s, r)
    [] r.k = "udt" -> Udt(s, r)
    [] r.k = "ldata" -> LData(s, r)
    [] r.k = "gdata" -> Pack(s, r)
    [] r.k = "note" -> Copied(packRef(s, "ref", m, r), r)
    [] OTHER -> Copied(s, r)

fProcessSyms(m, b) ==
  FoldLeft(LAMBDA s, r : Processed(s, m, Rec(r.k, r.name, r.v, <<>>)),
           [out |-> NewBuf, globals |-> globals, grefs |-> <<>>], b.syms)

\* Mutant: the references of the last session stay.
KeepsRefs(m, g) == g
\* decRefCntGS of each global that the stream refers to.
fProcessGlobalRefs(m, g) == g (-) FoldLeft(LAMBDA b, r : b (+) SetToBag({r}), EmptyBag, grefs[m])

-----------------------------------------------------------------------------
OpenMod(m) ==
  /\ bufs[m] = <<>> /\ closes < MaxCloses
  /\ bufs' = [bufs EXCEPT ![m] = <<NewMod>>]
  /\ UNCHANGED <<mode, adds, closes, globals, grefs, stream, refused, given>>

\* fCommit: the symbols and then the references, in place of what was there.
fCommit(m, syms, refs) ==
  /\ stream' = [stream EXCEPT ![m] = syms]
  /\ grefs' = [grefs EXCEPT ![m] = refs]
  /\ given' = [given EXCEPT ![m] = bufs[m][1].buf.syms]

CloseUnmerged(m) ==
  /\ mode \in {"nomerge", "mini"} /\ bufs[m] # <<>>
  /\ IF mode = "nomerge" THEN fCommit(m, bufs[m][1].buf.syms, <<>>)
     ELSE UNCHANGED <<stream, grefs, given>>
  /\ refused' = IF bufs[m][1].unended THEN refused \cup {m} ELSE refused \ {m}
  /\ bufs' = [bufs EXCEPT ![m] = <<>>] /\ closes' = closes + 1
  /\ UNCHANGED <<mode, adds, globals>>

\* A scope that is not ended is found only when all is packed: the module is then
\* not saved and its old references are not given back.
CloseMerged(m) ==
  /\ mode \in {"merge", "ctypes"} /\ bufs[m] # <<>>
  /\ LET s == fProcessSyms(m, bufs[m][1].buf) IN
     IF s.out.iLevel = 0
     THEN /\ globals' = fProcessGlobalRefs(m, s.globals)
          /\ fCommit(m, s.out.syms, s.grefs)
          /\ UNCHANGED refused
     ELSE /\ globals' = s.globals
          /\ refused' = refused \cup {m}
          /\ UNCHANGED <<stream, grefs, given>>
  /\ bufs' = [bufs EXCEPT ![m] = <<>>] /\ closes' = closes + 1
  /\ UNCHANGED <<mode, adds>>

-----------------------------------------------------------------------------
(* Minimal debug information: the symbols are not kept, but those at the top *)
(* of a contribution are entered as references to their module, which are   *)
(* not counted here.  A procedure's or a type's v says if it is local.       *)
fLocal(r, iLevel) == r.k = "ldata" \/ r.v = "local" \/ (r.k = "udt" /\ iLevel # 0)
MiniRef(m, r, iLevel) ==
  Rec(r.k, r.name, IF fLocal(r, iLevel) THEN "local" ELSE "global", <<m, 0>>)

\* Mutant: the level is not looked at.
RefsAnyLevel(r, iLevel) == r.k \in {"udt", "const", "proc", "idproc", "ldata", "gdata"}
MakesRef(r, iLevel) ==
  r.k = "udt" \/ (r.k \in {"const", "proc", "idproc", "ldata", "gdata"} /\ iLevel = 0)

\* Of a name one type or constant is kept, whatever else has the name.
packRefForMiniPDB(g, m, r, iLevel) ==
  LET ref == MiniRef(m, r, iLevel) IN
  IF BagIn(ref, g) \/ (r.k \in {"udt", "const"} /\ \E h \in BagToSet(g) : h.name = r.name)
  THEN g ELSE g (+) SetToBag({ref})

fAddSymRefToGSI(m, recs) ==
  LET step(s, r) ==
        [g |-> IF MakesRef(r, s.iLevel) THEN packRefForMiniPDB(s.g, m, r, s.iLevel) ELSE s.g,
         iLevel |-> IF r.k \in Openers THEN s.iLevel + 1
                    ELSE IF r.k \in Enders THEN s.iLevel - 1 ELSE s.iLevel]
  IN FoldLeft(step, [g |-> globals, iLevel |-> 0], recs).g

AddSymbolRefs(m, recs) ==
  /\ mode = "mini" /\ bufs[m] # <<>> /\ adds < MaxAdds
  /\ WellBegun(recs) /\ Depth(recs, Len(recs)) = 0
  /\ globals' = fAddSymRefToGSI(m, recs)
  /\ adds' = adds + 1
  /\ given' = [given EXCEPT ![m] = @ \o recs]
  /\ UNCHANGED <<mode, bufs, closes, grefs, stream, refused>>

-----------------------------------------------------------------------------
Init ==
  /\ mode \in {"merge", "ctypes", "nomerge", "mini"}
  /\ bufs = [m \in Mods |-> <<>>] /\ adds = 0 /\ closes = 0
  /\ globals = EmptyBag
  /\ grefs = [m \in Mods |-> <<>>]
  /\ stream = [m \in Mods |-> <<>>]
  /\ refused = {}
  /\ given = [m \in Mods |-> <<>>]

Next ==
  \E m \in Mods :
    \/ OpenMod(m) \/ CloseUnmerged(m) \/ CloseMerged(m)
    \/ \E recs \in Contribs : AddSymbols(m, recs) \/ AddSymbolRefs(m, recs)

Spec == Init /\ [][Next]_vars
-----------------------------------------------------------------------------
(* Properties *)

\* The ends of the scopes that begin at or before each place.
EndOf(syms, i) ==
  CHOOSE j \in i + 1 .. Len(syms) :
    /\ syms[j].k \in Enders
    /\ Depth(SubSeq(syms, i, j), j - i + 1) = 0
    /\ \A n \in i + 1 .. j - 1 : Depth(SubSeq(syms, i, n), n - i + 1) > 0
ParentOf(syms, i) ==
  {p \in 1 .. i - 1 : syms[p].k \in Openers /\ EndOf(syms, p) > i}

\* A run checks them together, as ModSymsRight.

\* In a module's stream every scope leads to the symbol that ends it and to the
\* scope around it, whatever symbols were left out on the way and however many
\* contributions there were (EnterLevel, ExitLevel, fFixupLevel).
ScopesRight ==
  \A m \in Mods \ refused :
    LET syms == stream[m] IN
    \A i \in DOMAIN syms :
      syms[i].k \in Openers =>
        /\ syms[i].pEnd = syms[EndOf(syms, i)].off
        /\ LET around == ParentOf(syms, i) IN
           syms[i].pParent = IF around = {} THEN 0
                             ELSE syms[CHOOSE p \in around : \A q \in around : q <= p].off

\* Where symbols are merged, each reference in the globals leads to a symbol of
\* its name in its module, and each procedure has one, over any order in which
\* modules are replaced (packRefToGS, which notes the place before the copy).
RefsLead ==
  mode \in {"merge", "ctypes"} /\ refused = {} =>
    /\ \A g \in BagToSet(globals) :
         g.k = "ref" =>
           \E i \in DOMAIN stream[g.at[1]] :
             LET t == stream[g.at[1]][i] IN
             t.off = g.at[2] /\ t.name = g.name /\ t.k \in {"proc", "manproc", "note"}
    /\ \A m \in Mods : \A i \in DOMAIN stream[m] :
         stream[m][i].k \in {"proc", "manproc"} =>
           CopiesIn(Rec("ref", stream[m][i].name, "", <<m, stream[m][i].off>>), globals) = 1

\* The globals are what the modules' streams refer to, no more and no less.
GlobalsCounted ==
  mode # "mini" /\ refused = {} =>
    \A g \in BagToSet(globals) \cup UNION {ToSet(grefs[m]) : m \in Mods} :
      CopiesIn(g, globals)
      = Cardinality(UNION {{<<m, i>> : i \in {j \in DOMAIN grefs[m] : grefs[m][j] = g}} : m \in Mods})

\* No symbol is lost: what a module was given is in its stream or the globals,
\* unless its name is that of the type it stands for; and what a scope holds stays
\* in the module, but for global data (fProcessSyms).
NothingLost ==
  mode # "mini" =>
    \A m \in Mods \ refused : \A i \in DOMAIN given[m] :
      LET r == given[m][i]
          has(k) == \/ \E j \in DOMAIN stream[m] :
                         stream[m][j].k = k /\ stream[m][j].name = r.name /\ stream[m][j].v = r.v
                    \/ Rec(k, r.name, r.v, <<>>) \in ToSet(grefs[m])
      IN \/ has(r.k)
         \/ r.k = "idproc" /\ has("proc")
         \/ r.k = "idend" /\ has("end")
         \/ r.k = "udt" /\ r.v \in {"none", "decl", "class"}
ScopedStay ==
  \A m \in Mods \ refused : \A j \in DOMAIN grefs[m] :
    LET g == grefs[m][j] IN
    g.at = <<>> /\ g.k # "gdata" =>
      \E i \in DOMAIN given[m] :
        /\ Rec(given[m][i].k, given[m][i].name, given[m][i].v, <<>>) = g
        /\ Depth(given[m], i - 1) = 0

\* With minimal debug information the globals are just the symbols that modules
\* have outside of procedures, and the types, each under its name.
MiniRefsRight ==
  mode = "mini" =>
    /\ \A m \in Mods : \A i \in DOMAIN given[m] :
         LET r == given[m][i]
             top == Depth(given[m], i - 1) = 0
         IN /\ r.k \in {"proc", "idproc", "ldata", "gdata"} /\ top =>
                 MiniRef(m, r, 0) \in BagToSet(globals)
            /\ r.k = "udt" \/ (r.k = "const" /\ top) =>
                 \E g \in BagToSet(globals) : g.name = r.name
    /\ \A g \in BagToSet(globals) :
         \E i \in DOMAIN given[g.at[1]] :
           LET r == given[g.at[1]][i] IN
           /\ r.k = g.k /\ r.name = g.name
           /\ r.k # "udt" => Depth(given[g.at[1]], i - 1) = 0

\* Module symbols lead to the right places and are all kept, where they belong.
ModSymsRight ==
  ScopesRight /\ RefsLead /\ GlobalsCounted /\ NothingLost /\ ScopedStay /\ MiniRefsRight
=============================================================================
