----------------------------- MODULE TypeMerge -----------------------------
(***************************************************************************)
(* Packing the types of object files into the pools of a PDB, PDB/dbi/tm.cpp *)
(* with the lists of open type maps in DBI1 and Mod1::AddTypes.             *)
(*                                                                         *)
(*  - A type record has a leaf and the indices it refers to; an index below *)
(*    First is a primitive type.  A reference says whether it is to an ID.  *)
(*  - An object has its own records (TMR), some of which may be precompiled *)
(*    (up to an LF_ENDPRECOMP, in a TMPCT) or be those of another object    *)
(*    (LF_PRECOMP), or it leads to the file of a compiler's PDB (TMTS).     *)
(*  - A call of fMapRti is one step: it runs in the lock of the type map    *)
(*    that it shares with others, and looks at the pools through one call.  *)
(*  - The linker ends with the first failure: the mark of a record whose     *)
(*    mapping failed would be an answer for the next who asks.              *)
(*  - Widening 16-bit records and edit and continue are left out.           *)
(***************************************************************************)
EXTENDS Integers, FiniteSets, Sequences

CONSTANTS
  Objs,
  Types,      \* per object: recs, end, pch, sig, objname, file
  Files,      \* per file of a compiler's PDB its type records and its IDs
  Lines,      \* per object or file: its definitions with a source line
  Syms,       \* the indices in the symbols of each object
  First,      \* CV_FIRST_NONPRIM
  MaxRecs,    \* records that each pool of the PDB can number
  MaxOpen     \* bound: objects that are open at a time

VARIABLES
  tms,        \* the type maps: their records, first index, what is mapped
  pcts,       \* potmPCTHead: the precompiled types by name, newest first
  to,         \* the pools of the PDB
  tm,         \* Mod1::ptm
  status,     \* of each object: "new", "open", "packed" or "failed"
  corrupt,    \* type maps that met a bad index
  answers     \* what each object's symbols refer to now

vars == <<tms, pcts, to, tm, status, corrupt, answers>>

Nil == 0
Void == 3
NotTrans == 7

None == <<"none">>
IsUdt(rec) == rec.leaf = <<"udt">>

-----------------------------------------------------------------------------
(* Opening a type map.                                                     *)

\* TM::fInit: nothing is mapped yet.
NewTM(lo, recs, idrecs, pct, from) ==
  [lo |-> lo, recs |-> <<recs, idrecs>>, pct |-> pct, from |-> from,
   mapped |-> <<[i \in DOMAIN recs |-> Nil], [i \in DOMAIN idrecs |-> Nil]>>]

With(k, t) == [x \in DOMAIN tms \cup {k} |-> IF x = k THEN t ELSE tms[x]]

IsCreator(o) == Types[o].end > 0
IsUser(o) == Types[o].pch.name # "none"
PreComp(o) == First + Types[o].end - 1

\* fFindTm: the newest in the list with the name, the signature and the end.
FindTm(name, sig, tiPreComp) ==
  LET match == {i \in DOMAIN pcts :
                  /\ pcts[i].name = name /\ pcts[i].sig = sig
                  /\ pcts[i].tiPreComp = tiPreComp} IN
  IF match = {} THEN 0 ELSE CHOOSE i \in match : \A j \in match : i <= j

Opened(o, k) ==
  /\ tm' = [tm EXCEPT ![o] = k]
  /\ status' = [status EXCEPT ![o] = "open"]
  /\ UNCHANGED <<to, corrupt, answers>>

\* fGetTmts: the type map of a file serves all objects that lead to it.
AddServed(o) ==
  LET f == Types[o].file
      k == <<"ts", f>> IN
  /\ f # "none"
  /\ tms' = IF k \in DOMAIN tms THEN tms
            ELSE With(k, NewTM(First, Files[f].types, Files[f].ids, None, f))
  /\ Opened(o, k) /\ UNCHANGED pcts

OwnTM(o, lo, first, pct) ==
  NewTM(lo, SubSeq(Types[o].recs, first, Len(Types[o].recs)), <<>>, pct, o)

\* TMR::fInit, for an object without precompiled types
AddOwn(o) ==
  /\ Types[o].file = "none" /\ ~IsCreator(o) /\ ~IsUser(o)
  /\ tms' = With(<<"tmr", o>>, OwnTM(o, First, 1, None))
  /\ Opened(o, <<"tmr", o>>) /\ UNCHANGED pcts

\* and for one that makes them: the records before LF_ENDPRECOMP go into a
\* TMPCT, which is in the list under the name that the linker gave.
AddCreator(o) ==
  LET k == <<"pct", o>>
      pct == NewTM(First, SubSeq(Types[o].recs, 1, Types[o].end - 1), <<>>, None, o) IN
  /\ IsCreator(o) /\ ~IsUser(o)
  /\ tms' = [x \in DOMAIN With(k, pct) \cup {<<"tmr", o>>} |->
               IF x = <<"tmr", o>> THEN OwnTM(o, PreComp(o) + 1, Types[o].end + 1, k)
               ELSE With(k, pct)[x]]
  /\ pcts' = <<[name |-> o, sig |-> Types[o].sig, tiPreComp |-> PreComp(o), tm |-> k]>> \o pcts
  /\ Opened(o, <<"tmr", o>>)

\* and for one that uses them.
AddUser(o) ==
  LET p == Types[o].pch
      i == FindTm(p.name, p.sig, First + p.count) IN
  /\ IsUser(o) /\ ~IsCreator(o) /\ i > 0
  /\ tms' = With(<<"tmr", o>>, OwnTM(o, First + p.count, 1, pcts[i].tm))
  /\ Opened(o, <<"tmr", o>>) /\ UNCHANGED pcts

\* The precompiled types are not there, or are made and used by one object.
AddFails(o) ==
  /\ \/ IsUser(o) /\ IsCreator(o)
     \/ IsUser(o) /\ FindTm(Types[o].pch.name, Types[o].pch.sig, First + Types[o].pch.count) = 0
  /\ status' = [status EXCEPT ![o] = "failed"]
  /\ UNCHANGED <<tms, pcts, to, tm, corrupt, answers>>

AddTypes(o) ==
  /\ status[o] = "new"
  /\ Cardinality({x \in Objs : status[x] = "open"}) < MaxOpen
  /\ AddServed(o) \/ AddOwn(o) \/ AddCreator(o) \/ AddUser(o) \/ AddFails(o)

\* fUpdateTmpct, for the S_OBJNAME of an object that makes precompiled types
ObjName(o) ==
  LET i == FindTm(o, Types[o].sig, PreComp(o)) IN
  /\ status[o] = "open" /\ IsCreator(o) /\ Types[o].objname # o /\ i > 0
  /\ pcts' = [pcts EXCEPT ![i].name = Types[o].objname]
  /\ UNCHANGED <<tms, to, tm, status, corrupt, answers>>

-----------------------------------------------------------------------------
(* Mapping an index.  s holds what a call changes: the maps, the pools, the *)
(* bad indices met, the queries left until one fails, and its result.       *)

Pool(id) == IF id THEN 2 ELSE 1

Mac(t, id) == t.lo + Len(t.recs[Pool(id)])

\* Mutant: the pool does not look for the record.
QueryNew(s, rec, id) ==
  IF s.fuel = 0 THEN [s EXCEPT !.ok = FALSE, !.fuel = -1]
  ELSE IF Len(s.to[Pool(id)]) = MaxRecs THEN [s EXCEPT !.fuel = @ - 1, !.res = Void]
  ELSE [s EXCEPT !.fuel = @ - 1, !.to[Pool(id)] = Append(@, rec),
                 !.res = First + Len(s.to[Pool(id)])]

\* Mutant: the pool takes any record with the same leaf.
QueryLeaf(s, rec, id) ==
  LET pool == s.to[Pool(id)]
      found == {i \in DOMAIN pool : pool[i].leaf = rec.leaf} IN
  IF s.fuel = 0 THEN [s EXCEPT !.ok = FALSE, !.fuel = -1]
  ELSE LET r == [s EXCEPT !.fuel = @ - 1] IN
       IF found # {} THEN [r EXCEPT !.res = First + (CHOOSE i \in found : TRUE) - 1]
       ELSE IF Len(pool) = MaxRecs THEN [r EXCEPT !.res = Void]
       ELSE [r EXCEPT !.to[Pool(id)] = Append(pool, rec), !.res = First + Len(pool)]

\* QueryTiForCVRecord of the pool: the record's index, a new one, or T_VOID.
Query(s, rec, id) ==
  LET pool == s.to[Pool(id)]
      found == {i \in DOMAIN pool : pool[i] = rec} IN
  IF s.fuel = 0 THEN [s EXCEPT !.ok = FALSE, !.fuel = -1]
  ELSE LET r == [s EXCEPT !.fuel = @ - 1] IN
       IF found # {} THEN [r EXCEPT !.res = First + (CHOOSE i \in found : TRUE) - 1]
       ELSE IF Len(pool) = MaxRecs THEN [r EXCEPT !.res = Void]
       ELSE [r EXCEPT !.to[Pool(id)] = Append(pool, rec), !.res = First + Len(pool)]

BadIndex(s, k) == [s EXCEPT !.corrupt = @ \cup {k}, !.res = Nil]

\* A record is marked before its references are followed.
MarkNotTrans(s, h, i) == [s EXCEPT !.tms[h].mapped[1][i] = NotTrans]

\* A procedure that returns itself returns nothing.
NoSelfReturn(s, h, i, ti) ==
  LET rec == s.tms[h].recs[1][i] IN
  IF rec.leaf = <<"proc">> /\ rec.refs[1].ti = ti
  THEN [s EXCEPT !.tms[h].recs[1][i].refs[1].ti = Void] ELSE s

\* rtiMapped, ptypeForTi: indices below the object's own are precompiled.
Holder(s, k, ti) == IF ti < s.tms[k].lo THEN s.tms[k].pct ELSE k

\* Mutant: only the mark is looked at, not what was mapped.
RememberMark(s, h, i) ==
  IF s.tms[h].mapped[1][i] = NotTrans THEN NotTrans ELSE Nil

\* What the record's index was mapped to, or its mark.
Remembered(s, h, i) == s.tms[h].mapped[1][i]

RECURSIVE MapTmr(_, _, _, _), MapTmrRefs(_, _, _, _, _)

\* TMR::fMapRti: the record's references are overwritten in place.
MapTmr(s, k, ti, id) ==
  LET h == Holder(s, k, ti)
      i == ti - s.tms[h].lo + 1
      m == Remembered(s, h, i)
      t == MapTmrRefs(MarkNotTrans(NoSelfReturn(s, h, i, ti), h, i), k, h, i, 1)
      q == Query(t, t.tms[h].recs[1][i], id) IN
  IF ti < First THEN [s EXCEPT !.res = ti]
  ELSE IF ti >= Mac(s.tms[k], FALSE) THEN BadIndex(s, k)
  ELSE IF m # Nil THEN [s EXCEPT !.res = m]
  ELSE IF ~t.ok THEN t
  ELSE IF ~q.ok THEN q
  ELSE [q EXCEPT !.tms[h].mapped[1][i] = q.res]

MapTmrRefs(s, k, h, i, j) ==
  IF ~s.ok \/ j > Len(s.tms[h].recs[1][i].refs) THEN s
  ELSE LET ref == s.tms[h].recs[1][i].refs[j]
           r == MapTmr(s, k, ref.ti, ref.id) IN
       IF ~r.ok THEN r
       ELSE MapTmrRefs([r EXCEPT !.tms[h].recs[1][i].refs[j].ti = r.res], k, h, i, j + 1)

RECURSIVE MapTmts(_, _, _, _), MapTmtsRefs(_, _, _, _)

\* TMTS::fMapRti: the record is copied, and nothing guards against a cycle.
MapTmts(s, k, ti, id) ==
  LET p == Pool(id)
      i == ti - s.tms[k].lo + 1
      t == MapTmtsRefs(s, k, s.tms[k].recs[p][i], 1)
      q == Query(t, t.rec, id) IN
  IF ti < First THEN [s EXCEPT !.res = ti]
  ELSE IF ti >= Mac(s.tms[k], id) THEN BadIndex(s, k)
  ELSE IF s.tms[k].mapped[p][i] # Nil THEN [s EXCEPT !.res = s.tms[k].mapped[p][i]]
  ELSE IF ~t.ok THEN t
  ELSE IF ~q.ok THEN q
  ELSE [q EXCEPT !.tms[k].mapped[p][i] = q.res]

MapTmtsRefs(s, k, rec, j) ==
  IF ~s.ok \/ j > Len(rec.refs) THEN [s EXCEPT !.rec = rec]
  ELSE LET r == MapTmts(s, k, rec.refs[j].ti, rec.refs[j].id) IN
       IF ~r.ok THEN r
       ELSE MapTmtsRefs(r, k, [rec EXCEPT !.refs[j].ti = r.res], j + 1)

Map(s, k, ti, id) == IF k[1] = "ts" THEN MapTmts(s, k, ti, id) ELSE MapTmr(s, k, ti, id)

\* pfDefnUdt: the record was mapped by this very call, and is a definition.
DefnUdt(k, ti, id) ==
  LET h == IF k[1] = "ts" THEN k ELSE Holder([tms |-> tms], k, ti) IN
  /\ ti >= First /\ ti < Mac(tms[k], id) /\ ~id
  /\ tms[h].mapped[1][ti - tms[h].lo + 1] = Nil
  /\ IsUdt(tms[h].recs[1][ti - tms[h].lo + 1])

\* Mutant: the line is looked up in the object's own records only.
OwnLineOf(k, ti) == Lines[tms[k].from][ti]

\* QuerySrcIdLineForUDT: the source line of a definition, 0 when there is none.
LineOf(k, ti) ==
  LET h == IF k[1] = "ts" THEN k ELSE Holder([tms |-> tms], k, ti) IN
  Lines[tms[h].from][ti]

LineRec(o, res, line) ==
  [leaf |-> <<"udtmodline", o, line>>, refs |-> <<[ti |-> res, id |-> FALSE]>>]

\* TM::fMapRti, the n-th query of a pool fails (n < 0: none does)
Ask(o, sym, n) ==
  LET k == tm[o]
      s == Map([tms |-> tms, to |-> to, corrupt |-> corrupt, fuel |-> n, ok |-> TRUE,
                res |-> Nil, rec |-> None], k, sym.ti, sym.id)
      line == IF s.ok /\ DefnUdt(k, sym.ti, sym.id) THEN LineOf(k, sym.ti) ELSE 0
      r == IF line > 0 THEN Query(s, LineRec(o, s.res, line), TRUE) ELSE s
      ok == r.ok /\ (line > 0 => r.res # Void) IN
  /\ status[o] = "open"
  /\ n >= 0 => r.fuel = -1
  /\ tms' = r.tms /\ to' = r.to /\ corrupt' = r.corrupt
  /\ answers' = IF ok THEN answers \cup {[obj |-> o, sym |-> sym, res |-> s.res]} ELSE answers
  /\ status' = IF ok THEN status ELSE [status EXCEPT ![o] = "failed"]
  /\ UNCHANGED <<pcts, tm>>

Full == Len(to[1]) = MaxRecs

\* The end of fProcessSyms, and Mod1::Close
Finish(o) ==
  /\ status[o] = "open"
  /\ \A sym \in Syms[o] : \E a \in answers : a.obj = o /\ a.sym = sym
  /\ status' = [status EXCEPT ![o] = IF Full \/ tm[o] \in corrupt THEN "failed" ELSE "packed"]
  /\ tms' = IF tm[o][1] = "tmr" THEN [k \in DOMAIN tms \ {tm[o]} |-> tms[k]] ELSE tms
  /\ UNCHANGED <<pcts, to, tm, corrupt, answers>>

Init ==
  /\ tms = <<>> /\ pcts = <<>>
  /\ to = <<<<>>, <<>>>>
  /\ tm = [o \in Objs |-> None]
  /\ status = [o \in Objs |-> "new"]
  /\ corrupt = {} /\ answers = {}

NoneFailed == \A o \in Objs : status[o] # "failed"

\* The linker gives the PDB up at the first failure.
Next ==
  \E o \in Objs : NoneFailed /\
    (\/ AddTypes(o)
     \/ ObjName(o)
     \/ \E sym \in Syms[o], n \in -1 .. 2 : Ask(o, sym, n)
     \/ Finish(o))

Spec == Init /\ [][Next]_vars

-----------------------------------------------------------------------------
(* Properties.                                                             *)

\* The record of an index of an object, as the object file or the compiler's
\* PDB has it.
Source(o, ti, id) ==
  LET t == Types[o] IN
  IF t.file # "none"
  THEN (IF id THEN Files[t.file].ids ELSE Files[t.file].types)[ti - First + 1]
  ELSE IF IsUser(o) /\ ti < First + t.pch.count
  THEN LET c == CHOOSE c \in Objs : Types[c].objname = t.pch.name /\ Types[c].sig = t.pch.sig
       IN Types[c].recs[ti - First + 1]
  ELSE IF IsUser(o) THEN t.recs[ti - First - t.pch.count + 1]
  ELSE t.recs[ti - First + 1]

NoTree == <<"no tree">>

\* What an index stands for, as a tree; seen holds the indices on the way.
RECURSIVE SourceTree(_, _, _, _)
SourceTree(o, ti, id, seen) ==
  IF ti < First THEN <<ti>>
  ELSE IF ti \in seen THEN NoTree
  ELSE LET rec == Source(o, ti, id) IN
       <<rec.leaf, [j \in DOMAIN rec.refs |->
          IF rec.leaf = <<"proc">> /\ j = 1 /\ rec.refs[j].ti = ti THEN <<Void>>
          ELSE SourceTree(o, rec.refs[j].ti, rec.refs[j].id, seen \cup {ti})]>>

RECURSIVE ToTree(_, _)
ToTree(ti, id) ==
  IF ti < First THEN <<ti>>
  ELSE LET rec == to[Pool(id)][ti - First + 1] IN
       <<rec.leaf, [j \in DOMAIN rec.refs |-> ToTree(rec.refs[j].ti, rec.refs[j].id)]>>

RECURSIVE Cyclic(_, _, _, _)
Cyclic(o, ti, id, seen) ==
  ti >= First /\ (ti \in seen \/
    LET rec == Source(o, ti, id) IN
    \E j \in DOMAIN rec.refs :
      /\ ~(rec.leaf = <<"proc">> /\ j = 1 /\ rec.refs[j].ti = ti)
      /\ Cyclic(o, rec.refs[j].ti, rec.refs[j].id, seen \cup {ti}))

Packed == {a \in answers : status[a.obj] = "packed"}

\* Every symbol of a packed object refers to a type with the structure that
\* the object gave it, down to the primitive types, whoever mapped its parts.
PackedRight ==
  NoneFailed =>
    \A a \in Packed :
      ~Cyclic(a.obj, a.sym.ti, a.sym.id, {}) =>
        ToTree(a.res, a.sym.id) = SourceTree(a.obj, a.sym.ti, a.sym.id, {})

\* Symbols whose types have the same structure, of whatever objects, refer to
\* one index of the PDB.
MergedOnce ==
  NoneFailed =>
    \A a, b \in {x \in answers : x.res >= First /\ ~Cyclic(x.obj, x.sym.ti, x.sym.id, {})} :
      (/\ a.sym.id = b.sym.id
       /\ SourceTree(a.obj, a.sym.ti, a.sym.id, {}) = SourceTree(b.obj, b.sym.ti, b.sym.id, {}))
        => a.res = b.res

\* A symbol asked for twice is given the same index, until something fails.
AnswersAgree ==
  NoneFailed => \A a, b \in answers : (a.obj = b.obj /\ a.sym = b.sym) => a.res = b.res

Referred(o, ti) == \E t \in First .. First + 8 :
  /\ t < First + (IF Types[o].file # "none" THEN Len(Files[Types[o].file].types)
                  ELSE Len(Types[o].recs) + (IF IsUser(o) THEN Types[o].pch.count ELSE 0))
  /\ \E j \in DOMAIN Source(o, t, FALSE).refs : Source(o, t, FALSE).refs[j].ti = ti

SourceLine(o, ti) ==
  LET t == Types[o] IN
  IF t.file # "none" THEN Lines[t.file][ti]
  ELSE IF IsUser(o) /\ ti < First + t.pch.count
  THEN LET c == CHOOSE c \in Objs : Types[c].objname = t.pch.name /\ Types[c].sig = t.pch.sig
       IN Lines[c][ti]
  ELSE Lines[o][ti]

\* A definition that symbols refer to, and no record does, has its source line
\* in the PDB, from the first object that mapped it.
DefinitionsHaveLines ==
  \A a \in answers :
    LET line == SourceLine(a.obj, a.sym.ti) IN
    (~a.sym.id /\ a.sym.ti >= First /\ ~Referred(a.obj, a.sym.ti) /\ line > 0) =>
      \E o \in Objs : \E i \in DOMAIN to[2] : to[2][i] = LineRec(o, a.res, line)
=============================================================================
