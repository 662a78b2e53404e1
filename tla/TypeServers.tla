---------------------------- MODULE TypeServers ----------------------------
(***************************************************************************)
(* The PDBs that hold the types of modules, PDB/dbi/dbi.cpp, tm.cpp, mod.cpp. *)
(*                                                                         *)
(*  - A module's types lead to the PDB of a compiler by a name, a signature *)
(*    and an age.  The DBI keeps what it opened in a list (OTM); TypeMerge  *)
(*    models what the type maps do, here is how they come and go.          *)
(*  - The objects are in the directory "o", the output PDB is Out.         *)
(*  - A PDB without merged types copies the types of each type map with the *)
(*    module that made it, and a mini PDB may give PDBs back to compilers.  *)
(*  - Memory and writes do not fail; modules are opened once in a session.  *)
(***************************************************************************)
EXTENDS Integers, FiniteSets, Sequences, SequencesExt

CONSTANTS
  Mods,
  TypeRefs,    \* k: "ts", with name, sig, age; "own"; "none"; "bad"
  Images,      \* what may be on disk: [path -> sig, age, tpi, ipi, to]
  Mappings,    \* PDB1::m_rgPDBMapping
  MaxAge, MaxReloads    \* bounds: compilations, openings before a reload

VARIABLES
  tsMode,   \* "merge", "noMerge" or "mini"
  pdbs,     \* the PDBs on disk
  otms,     \* potmTSHead, newest first
  tms,      \* the type maps
  handles,  \* every PDB that was opened, and how often each part was closed
  ptm,      \* Mod1::ptm, 0 for none
  modState, askedFor,
  mtr,      \* the S_MOD_TYPEREF in a module's stream
  streams,  \* the streams of types
  lastAdd,  \* the last AddTypes
  phase     \* of the DBI: "open", "closed", "cleared"

vars == <<tsMode, pdbs, otms, tms, handles, ptm, modState, askedFor, mtr, streams, lastAdd, phase>>

snNil == 0
snTpi == 2
snIpi == 4
imodNil == "nil"
Out == CHOOSE path \in DOMAIN pdbs : pdbs[path].to
NoAdd == [m |-> imodNil, ok |-> TRUE]

-----------------------------------------------------------------------------
(* Finding a PDB.                                                          *)

\* PDB1::OpenValidate4 of a file
Validate(path, sig, age) ==
  IF path \notin DOMAIN pdbs THEN "NOT_FOUND"
  ELSE IF pdbs[path].sig # sig THEN "INVALID_SIG"
  ELSE IF pdbs[path].age < age THEN "INVALID_AGE"
  ELSE "OK"

In(dir, name, n) == [name EXCEPT !.dir = dir, !.n = n]

\* Mutant: only the file itself is looked at.
JustOne(name, sig, age) == 1

\* The first of vc, vc.2, vc.3 ... in the objects' directory that is not one of
\* another signature
Numbered(name, sig, age) ==
  CHOOSE n \in 1 .. Cardinality(DOMAIN pdbs) + 1 :
    /\ Validate(In("o", name, n), sig, age) # "INVALID_SIG"
    /\ \A i \in 1 .. n - 1 : Validate(In("o", name, i), sig, age) = "INVALID_SIG"

\* OpenTSPdb, first in the objects' directory, then as named, then where the output
\* is.  What fOpenPdb tells is the error of the last call.
OpenTSPdb(r, name) ==
  LET places == <<In("o", name, Numbered(name, r.sig, r.age)), name, In(Out.dir, name, 1)>>
      found == {i \in DOMAIN places : Validate(places[i], r.sig, r.age) = "OK"} IN
  IF found = {} THEN [k |-> "none"]
  ELSE [k |-> "pdb", path |-> places[CHOOSE i \in found : \A j \in found : i <= j]]

\* The first mapping of a name
QueryPDBMapping(name) ==
  LET is == {i \in DOMAIN Mappings : Mappings[i][1] = name} IN
  IF is = {} THEN name ELSE Mappings[CHOOSE i \in is : \A j \in is : i <= j][2]

\* szGetTsInfo
TsName(r) == QueryPDBMapping(r.name)

\* fOpenPdb: the 'to' PDB by its name, by its contents and base name, or a file
OpenPdb(r, name) ==
  LET to == pdbs[Out]
      p == OpenTSPdb(r, name) IN
  IF name = Out
  THEN IF to.sig = r.sig /\ r.age <= to.age THEN [k |-> "to"] ELSE [k |-> "none"]
  ELSE IF to.sig = r.sig /\ r.age <= to.age /\ name.base = Out.base /\ name.n = Out.n
  THEN [k |-> "to"]
  ELSE p

\* A PDB that is opened: what it held then, and the parts that are open.
Handle(path, tpi, ipi) ==
  [path |-> path, sig |-> pdbs[path].sig, age |-> pdbs[path].age,
   open |-> (IF tpi THEN {"tpi"} ELSE {}) \cup (IF ipi THEN {"ipi"} ELSE {}) \cup {"pdb"},
   closed |-> [p \in {"pdb", "tpi", "ipi"} |-> 0]]

Shut(h, parts) ==
  [h EXCEPT !.closed = [p \in DOMAIN @ |-> IF p \in parts THEN @[p] + 1 ELSE @[p]]]

\* Mutant: the output PDB that is found along a path stays open.
LeftOpen(path) == Handle(path, FALSE, FALSE)

\* The PDB that is found is the output: closed, and the 'to' PDB is used.
FoundOut(path) == Shut(Handle(path, FALSE, FALSE), {"pdb"})

-----------------------------------------------------------------------------
(* The list of type maps.                                                  *)

\* Mutant: the age of a PDB that is open is not looked at.
FindAnyAge(name, r) ==
  LET is == {i \in DOMAIN otms : otms[i].name = name /\ otms[i].sig = r.sig} IN
  IF is = {} THEN 0 ELSE otms[CHOOSE i \in is : \A j \in is : i <= j].tm

\* fFindTm
FindTm(name, r) ==
  LET is == {i \in DOMAIN otms :
               /\ otms[i].name = name /\ otms[i].sig = r.sig /\ otms[i].age >= r.age} IN
  IF is = {} THEN 0 ELSE otms[CHOOSE i \in is : \A j \in is : i <= j].tm

NewTM(k, from) == [k |-> k, from |-> from, parts |-> from, imod |-> imodNil, live |-> TRUE]

\* Mutant: a module does not become the owner of a type map.
NoOwner(tm, m) == tm

\* AddTypes: the first module that uses a type map of an unmerged PDB owns it.
Owned(tm, m) ==
  IF tsMode = "noMerge" /\ tm.imod = imodNil THEN [tm EXCEPT !.imod = m] ELSE tm

Got(m, r, k, newTms) ==
  /\ ptm' = [ptm EXCEPT ![m] = k]
  /\ tms' = [newTms EXCEPT ![k] = Owned(@, m)]
  /\ lastAdd' = [m |-> m, ok |-> TRUE]

Failed(m, r) ==
  /\ lastAdd' = [m |-> m, ok |-> FALSE, r |-> r]
  /\ UNCHANGED <<otms, tms, ptm>>

\* fOpenTmts: the 'to' PDB (TMEQTS) or a file (TMTS), which is closed again when its
\* types cannot be opened; the newest is at the head of the list.
OpenTmts(m, r, name) ==
  LET p == OpenPdb(r, name)
      Otm(age) == <<[name |-> name, sig |-> r.sig, age |-> age, tm |-> Len(tms) + 1]>> IN
  \/ p.k = "none" /\ Failed(m, r) /\ UNCHANGED handles
  \/ /\ p.k = "to" \/ (p.k = "pdb" /\ p.path = Out)
     /\ handles' = IF p.k = "to" THEN handles ELSE Append(handles, FoundOut(Out))
     /\ otms' = Otm(pdbs[Out].age) \o otms
     /\ Got(m, r, Len(tms) + 1, Append(tms, NewTM("eq", 0)))
  \/ /\ p.k = "pdb" /\ p.path # Out /\ pdbs[p.path].tpi
     /\ handles' = Append(handles, Handle(p.path, TRUE, pdbs[p.path].ipi))
     /\ otms' = Otm(pdbs[p.path].age) \o otms
     /\ Got(m, r, Len(tms) + 1, Append(tms, NewTM("ts", Len(handles) + 1)))
  \/ /\ p.k = "pdb" /\ p.path # Out /\ ~pdbs[p.path].tpi
     /\ handles' = Append(handles, Shut(Handle(p.path, FALSE, FALSE), {"pdb"}))
     /\ Failed(m, r)

\* fGetTmts: the list serves it, or it is opened.
GetTmts(m, r) ==
  LET k == FindTm(TsName(r), r) IN
  \/ k # 0 /\ Got(m, r, k, tms) /\ UNCHANGED <<otms, handles>>
  \/ k = 0 /\ OpenTmts(m, r, TsName(r))

\* EnCNeedReloadCompilerGeneratedPDB
Released(k) == k # 0 /\ tms[k].k = "ts" /\ tms[k].from = 0

\* Mod1::AddTypes for a module that has no type map
AddTypes(m, r) ==
  /\ phase = "open" /\ modState[m] = "open" /\ ptm[m] = 0
  /\ askedFor' = [askedFor EXCEPT ![m] = r]
  /\ \/ r.k = "ts" /\ GetTmts(m, r)
     \/ /\ r.k = "own"     \* TMR
        /\ Got(m, r, Len(tms) + 1, Append(tms, NewTM("r", 0))) /\ UNCHANGED <<otms, handles>>
     \/ /\ r.k = "none"
        /\ lastAdd' = NoAdd /\ UNCHANGED <<otms, tms, ptm, handles>>
     \/ r.k = "bad" /\ Failed(m, r) /\ UNCHANGED handles
  /\ modState' = [modState EXCEPT ![m] = "added"]
  /\ UNCHANGED <<tsMode, pdbs, mtr, streams, phase>>

\* EnCReloadCompilerGeneratedPDB, for a module compiled again: the signature is as
\* before, and the age no less than any that the type map's users know.
Reload(m, r) ==
  LET k == ptm[m]
      p == OpenPdb(r, TsName(r)) IN
  /\ phase = "open" /\ tsMode = "mini" /\ modState[m] # "closed" /\ Released(k)
  /\ r.k = "ts" /\ r.name = askedFor[m].name /\ r.sig = askedFor[m].sig
  /\ \A x \in Mods : ptm[x] = k => r.age >= askedFor[x].age
  /\ p.k = "pdb" /\ Len(handles) <= MaxReloads
  /\ handles' = Append(handles, Handle(p.path, TRUE, pdbs[p.path].ipi))
  /\ tms' = [tms EXCEPT ![k].from = Len(handles) + 1, ![k].parts = Len(handles) + 1]
  /\ askedFor' = [askedFor EXCEPT ![m] = r]
  /\ lastAdd' = NoAdd
  /\ UNCHANGED <<tsMode, pdbs, otms, ptm, modState, mtr, streams, phase>>

AllParts(h) == h.open

\* EnCReleaseCompilerGeneratedPDB: a module that has no type map gets one if the
\* list has it.  ptpiFrom and pipiFrom keep their values.
Release(m, r) ==
  LET k == IF ptm[m] # 0 THEN ptm[m] ELSE FindTm(TsName(r), r)
      h == tms[k].from IN
  /\ phase = "open" /\ tsMode = "mini" /\ modState[m] # "closed"
  /\ r.k = "ts" /\ (ptm[m] # 0 => r = askedFor[m])
  /\ k # 0 /\ tms[k].k = "ts" /\ tms[k].from # 0
  /\ handles' = [handles EXCEPT ![h] = Shut(@, AllParts(@))]
  /\ tms' = [tms EXCEPT ![k].from = 0]
  /\ ptm' = [ptm EXCEPT ![m] = k]
  /\ askedFor' = [askedFor EXCEPT ![m] = r]
  /\ lastAdd' = NoAdd
  /\ UNCHANGED <<tsMode, pdbs, otms, modState, mtr, streams, phase>>

\* A compiler adds types to a PDB that was given back.
Compile(path) ==
  /\ phase = "open" /\ path # Out /\ pdbs[path].age < MaxAge
  /\ \E k \in DOMAIN tms : Released(k) /\ handles[tms[k].parts].path = path
  /\ \A i \in DOMAIN handles : handles[i].path = path => handles[i].closed["pdb"] > 0
  /\ pdbs' = [pdbs EXCEPT ![path].age = @ + 1]
  /\ lastAdd' = NoAdd
  /\ UNCHANGED <<tsMode, otms, tms, handles, ptm, modState, askedFor, mtr, streams, phase>>

-----------------------------------------------------------------------------
(* A PDB whose types are not merged.                                       *)

NewSn == 10 + Cardinality(DOMAIN streams)
WithStreams(new) == streams @@ new

\* fCopyTpiStream
Copied(h) ==
  [x \in {NewSn} |-> <<"tpi", h.sig>>] @@
  (IF "ipi" \in h.open THEN [x \in {NewSn + 1} |-> <<"ipi", h.sig>>] ELSE <<>>)

\* fAddModTypeRefSym: what a module's symbols say of its types
ModTypeRef(m) ==
  LET tm == tms[ptm[m]] IN
  IF ptm[m] = 0 THEN [k |-> "none"]
  ELSE IF tm.k = "r" THEN [k |-> "ownTMR", sn |-> snNil]
  ELSE IF tm.imod = m THEN [k |-> "ownTM", sn |-> snNil, id |-> snNil]
  ELSE [k |-> "refTM", imod |-> tm.imod]

\* fCopyTM: the streams that an owner writes, and their numbers in its record
CopyTM(m) ==
  LET ref == ModTypeRef(m)
      tm == tms[ptm[m]]
      h == handles[tm.from] IN
  CASE ref.k \in {"none", "refTM"} -> [ref |-> ref, new |-> <<>>]
    [] ref.k = "ownTMR" ->
         [ref |-> [ref EXCEPT !.sn = NewSn], new |-> [x \in {NewSn} |-> <<"own", m>>]]
    [] ref.k = "ownTM" /\ tm.k = "eq" ->
         [ref |-> [ref EXCEPT !.sn = snTpi, !.id = snIpi], new |-> <<>>]
    [] ref.k = "ownTM" /\ tm.k = "ts" ->
         [ref |-> [ref EXCEPT !.sn = NewSn, !.id = IF "ipi" \in h.open THEN NewSn + 1 ELSE snNil],
          new |-> Copied(h)]

\* Mod1::Close, with symbols or without; the records of a TMR go with the module.
CloseMod(m, fSyms) ==
  LET c == CopyTM(m)
      stored == tsMode = "noMerge" /\ fSyms IN
  /\ phase = "open" /\ modState[m] = "added"
  /\ mtr' = [mtr EXCEPT ![m] = IF stored THEN c.ref ELSE [k |-> "nothing"]]
  /\ streams' = IF stored THEN WithStreams(c.new) ELSE streams
  /\ tms' = IF ptm[m] # 0 /\ tms[ptm[m]].k = "r" THEN [tms EXCEPT ![ptm[m]].live = FALSE] ELSE tms
  /\ ptm' = [ptm EXCEPT ![m] = 0]
  /\ modState' = [modState EXCEPT ![m] = "closed"]
  /\ lastAdd' = NoAdd
  /\ UNCHANGED <<tsMode, pdbs, otms, handles, askedFor, phase>>

\* DBI1::Close: the list is deleted, and with it the type maps (TMTS::~TMTS).
CloseDbi ==
  LET Closed(i) ==
        {k \in DOMAIN tms : tms[k].k = "ts" /\ tms[k].parts = i} IN
  /\ phase = "open" /\ \A m \in Mods : modState[m] = "closed"
  /\ handles' = [i \in DOMAIN handles |->
                   IF Closed(i) = {} THEN handles[i]
                   ELSE Shut(handles[i], handles[i].open \ {p \in {"pdb"} : \A k \in Closed(i) : Released(k)})]
  /\ tms' = [k \in DOMAIN tms |-> [tms[k] EXCEPT !.live = FALSE]]
  /\ otms' = <<>>
  /\ phase' = "closed" /\ lastAdd' = NoAdd
  /\ UNCHANGED <<tsMode, pdbs, ptm, modState, askedFor, mtr, streams>>

\* Mutant: the owners' streams of IDs are left.
TypesOnly(m) == IF mtr[m].k \in {"ownTM", "ownTMR"} THEN {mtr[m].sn} ELSE {}

\* QueryModTypeRef: what a module's stream says
QueryModTypeRef(m) == mtr[m]

\* clearDBI: the streams that modules own, but not the PDB's own types
ClearedOf(m) ==
  LET ref == QueryModTypeRef(m) IN
  (IF ref.k \in {"ownTM", "ownTMR"} THEN {ref.sn} \ {snTpi} ELSE {})
  \cup (IF ref.k = "ownTM" THEN {ref.id} \ {snIpi, snNil} ELSE {})

\* The next linker makes the DBI anew.
ClearDBI ==
  /\ phase = "closed" /\ phase' = "cleared"
  /\ streams' = [sn \in DOMAIN streams \ UNION {ClearedOf(m) : m \in Mods} |-> streams[sn]]
  /\ mtr' = [m \in Mods |-> [k |-> "nothing"]]
  /\ UNCHANGED <<tsMode, pdbs, otms, tms, handles, ptm, modState, askedFor, lastAdd>>

\* Mod1::fInit for a reader: where its types are
TypesOf(m) ==
  LET ref == QueryModTypeRef(m) IN
  [fNoType |-> ref.k \in {"none", "nothing"}, fOwnTMR |-> ref.k = "ownTMR", fOwnTM |-> ref.k = "ownTM",
   imodTypeRef |-> IF ref.k = "refTM" THEN ref.imod ELSE imodNil,
   snType |-> IF ref.k \in {"ownTM", "ownTMR"} THEN ref.sn ELSE snNil,
   snId |-> IF ref.k = "ownTM" THEN ref.id ELSE snNil]

\* fReadFromStream
ReadStream(sn) == IF sn = snTpi THEN <<"tpi", pdbs[Out].sig>>
                  ELSE IF sn = snIpi THEN <<"ipi", pdbs[Out].sig>> ELSE streams[sn]

\* Mod1::QueryTypes, QueryIDs: nothing for a module that has no stream of its own
QueryTypes(m) ==
  LET t == TypesOf(m) IN
  IF t.fNoType \/ t.imodTypeRef # imodNil THEN <<>> ELSE ReadStream(t.snType)
QueryIDs(m) ==
  LET t == TypesOf(m) IN
  IF t.fNoType \/ t.imodTypeRef # imodNil \/ t.fOwnTMR \/ t.snId = snNil THEN <<>>
  ELSE ReadStream(t.snId)

Init ==
  /\ tsMode \in {"merge", "noMerge", "mini"}
  /\ pdbs \in Images
  /\ otms = <<>> /\ tms = <<>> /\ handles = <<>>
  /\ ptm = [m \in Mods |-> 0]
  /\ modState = [m \in Mods |-> "open"]
  /\ askedFor = [m \in Mods |-> [k |-> "none"]]
  /\ mtr = [m \in Mods |-> [k |-> "nothing"]]
  /\ streams = <<>>
  /\ lastAdd = NoAdd /\ phase = "open"

Next ==
  \/ \E m \in Mods, r \in TypeRefs : AddTypes(m, r) \/ Reload(m, r) \/ Release(m, r)
  \/ \E path \in DOMAIN pdbs : Compile(path)
  \/ \E m \in Mods, fSyms \in BOOLEAN : CloseMod(m, fSyms)
  \/ CloseDbi
  \/ ClearDBI

Spec == Init /\ [][Next]_vars

-----------------------------------------------------------------------------
(* Properties.                                                             *)

\* A module's type map is of the PDB with the signature that its types ask for, and
\* at least of that age, whoever opened it and however often it was given back.
ServedRight ==
  \A m \in Mods : ptm[m] # 0 /\ askedFor[m].k = "ts" =>
    LET tm == tms[ptm[m]]
        h == IF tm.k = "eq" THEN pdbs[Out] ELSE handles[tm.parts] IN
    /\ tm.live
    /\ h.sig = askedFor[m].sig
    /\ ~Released(ptm[m]) => h.age >= askedFor[m].age

\* A PDB is opened again only for an age that the list does not have.
OpenedOnce ==
  \A i, j \in DOMAIN otms :
    i < j /\ otms[i].name = otms[j].name /\ otms[i].sig = otms[j].sig => otms[i].age > otms[j].age

\* ClosePdbFrom leaves ptpiFrom and pipiFrom, and ~TMTS closes them again.
ClosedAgain(i) ==
  phase # "open" /\ \E k \in DOMAIN tms : tms[k].k = "ts" /\ tms[k].parts = i /\ Released(k)

\* What is opened is closed, each part once, but for the types of a PDB that was
\* given back and is not loaded again when the DBI closes.
ClosedOnce ==
  \A i \in DOMAIN handles :
    /\ \A p \in DOMAIN handles[i].closed :
         handles[i].closed[p] <= IF ClosedAgain(i) /\ p # "pdb" THEN 2 ELSE 1
    /\ \A p \in handles[i].open : phase # "open" =>
         handles[i].closed[p] = IF ClosedAgain(i) /\ p # "pdb" THEN 2 ELSE 1
    /\ \A p \in DOMAIN handles[i].closed \ handles[i].open : handles[i].closed[p] = 0

\* A PDB that matches is found where the objects are, also under a number when those
\* before it are others', where the name says, and where the output is.
FoundIfThere ==
  ~lastAdd.ok /\ lastAdd.r.k = "ts" =>
    LET r == lastAdd.r
        name == TsName(r)
        numbers == {n \in 1 .. 3 : \A i \in 1 .. n - 1 :
                      /\ In("o", name, i) \in DOMAIN pdbs
                      /\ pdbs[In("o", name, i)].sig # r.sig}
        places == {In("o", name, n) : n \in numbers} \cup {name, In(Out.dir, name, 1)} IN
    \/ name = Out
    \/ \E path \in DOMAIN pdbs : ~pdbs[path].tpi
    \/ \A path \in places : Validate(path, r.sig, r.age) # "OK"

\* In a PDB whose types are not merged a module's types are in a stream of its own,
\* or in that of the module that its record names, if that one has symbols.
UnmergedRight ==
  phase = "closed" => \A m \in Mods :
    LET t == TypesOf(m)
        own == IF t.imodTypeRef \in Mods THEN t.imodTypeRef ELSE m IN
    /\ mtr[m].k = "refTM" => t.imodTypeRef \in Mods /\ mtr[own].k \in {"ownTM", "nothing"}
    /\ t.fOwnTMR => QueryTypes(m) = <<"own", m>> /\ QueryIDs(m) = <<>>
    /\ mtr[m].k \in {"ownTM", "refTM"} /\ mtr[own].k = "ownTM" =>
         /\ QueryTypes(own) = <<"tpi", askedFor[m].sig>>
         /\ QueryIDs(own) \in {<<>>, <<"ipi", askedFor[m].sig>>}

\* A DBI that is made anew leaves no stream of types behind.
ClearedRight == phase = "cleared" => DOMAIN streams = {}

\* Types are looked for, shared, given back and stored as the modules need them.
TypeServersRight ==
  ServedRight /\ OpenedOnce /\ ClosedOnce /\ FoundIfThere /\ UnmergedRight /\ ClearedRight

=============================================================================
