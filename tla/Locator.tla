------------------------------ MODULE Locator ------------------------------
(***************************************************************************)
(* Finding the PDB of an executable, PDB/dbi/locator.cpp.                    *)
(*                                                                         *)
(*  - FCrackExeOrDbg reads where the CodeView record is, FLocateDbg finds the *)
(*    DBG of a stripped image and FLocatePdb tries the places a PDB may be   *)
(*    at, one file or symbol server at a step.  A locator serves one call of  *)
(*    OpenValidate5 or OpenNgenPdb; several run in a process and share the   *)
(*    registry's value and SYMSRV.DLL with its option.                       *)
(*  - A path is a sequence of names.  Headers, directories and records are   *)
(*    what their readers tell apart.  Memory does not fail.                  *)
(***************************************************************************)
EXTENDS Integers, Sequences, SequencesExt, FiniteSets

CONSTANTS
  Locators,
  Scenes     \* clients, files, registry, environment, symbol server library

VARIABLES
  scene,     \* the one this behaviour is about
  files,     \* the files of the disk and of the servers' stores
  registry,  \* SymbolSearchPath of each hive
  regMemo,   \* REGISTRY::m_wszSearchPath, Unread before Init
  symsrv,    \* SYMSRV::m_fInit
  option,    \* the library's option: what an id is
  loc        \* the locators

vars == <<scene, files, registry, regMemo, symsrv, option, loc>>

None == <<>>
Unread == <<[k |-> "unread"]>>
Hives == <<"user", "machine">>
NoCv == [k |-> "empty"]

Client(t) == scene.clients[t]
Image(t) == Client(t).image
Restricted(t, what) == what \in Client(t).restrict

-----------------------------------------------------------------------------
(* FCrackExeOrDbg.                                                         *)

NewLocator ==
  [phase |-> "start", ec |-> "OK", cvInExe |-> FALSE, cv |-> None, stripped |-> FALSE,
   times |-> {}, misc |-> None, exe |-> None, ext |-> None, dbg |-> None, want |-> NoCv,
   todo |-> <<>>, cache |-> None, ppdb |-> None, stored |-> None, lost |-> FALSE,
   told |-> <<>>, fd |-> "none", kept |-> FALSE]

\* SetError and a return of false
Failed(L, ec) == [L EXCEPT !.phase = "failed", !.ec = ec]

\* ReadMiscPath: the first name that is not in Unicode, before anything unreadable
MiscPath(entries) ==
  IF \E i \in DOMAIN entries :
       entries[i].k = "name" /\ \A j \in 1 .. i - 1 : entries[j].k \notin {"name", "bad"}
    THEN entries[CHOOSE i \in DOMAIN entries :
           entries[i].k = "name" /\ \A j \in 1 .. i - 1 : entries[j].k \notin {"name", "bad"}].path
  ELSE None

\* FSaveFileNames
Named(L, t) == [L EXCEPT !.exe = Image(t).at \o <<Image(t).name>>, !.ext = Image(t).ext]

Fd(t) == IF Client(t).reads = "file" THEN "open" ELSE "none"
Closed(fd) == CASE fd = "none" -> "none" [] fd = "open" -> "closed" [] OTHER -> "twice"

LastDir(t, type) ==
  LET is == {i \in DOMAIN Image(t).dirs : Image(t).dirs[i].type = type} IN
  IF is = {} THEN 0 ELSE CHOOSE i \in is : \A j \in is : i >= j

AllRead(t, n) == \A i \in 1 .. n : Image(t).dirs[i].ok

\* The file is a PE executable that has debug directories.
HasDirs(t) == Image(t).k = "pe" /\ Image(t).header /\ Image(t).dirs # <<>>

\* ... in a section, with the headers of a native image when one is asked for.
DirsFound(t) ==
  /\ HasDirs(t)
  /\ Client(t).ngen => Image(t).com = "native"
  /\ Client(t).reads = "rva" \/ Image(t).inSection

\* The CodeView records of a native image's own PDB
NgenDirs(t) ==
  {i \in DOMAIN Image(t).dirs :
     LET d == Image(t).dirs[i] IN
     /\ d.type = "cv" /\ d.cv.k = "RSDS" /\ d.cv.ok /\ d.cv.age # 0
     /\ d.cv.base = Image(t).name /\ AllRead(t, i)}

Set(t, L) == loc' = [loc EXCEPT ![t] = L]
Shared == <<scene, files, registry, regMemo, symsrv, option>>

Crack(t) == loc[t].phase = "start" /\ UNCHANGED Shared

\* The client reads the CodeView record itself.
CrackForClient(t) ==
  /\ Crack(t) /\ Client(t).cv # NoCv
  /\ Set(t, [loc[t] EXCEPT !.cvInExe = TRUE, !.phase = "dbg"])

\* FReadMiscDebugData
ClientMisc(t) == MiscPath(Client(t).misc.entries) # None

CrackMisc(t) ==
  /\ Crack(t) /\ Client(t).cv = NoCv /\ ClientMisc(t)
  /\ Set(t, [Named(loc[t], t) EXCEPT
       !.stripped = TRUE, !.times = Client(t).misc.times,
       !.misc = MiscPath(Client(t).misc.entries), !.phase = "dbg"])

Opens(t) == Crack(t) /\ Client(t).cv = NoCv /\ ~ClientMisc(t)

CrackNothing(t) ==
  /\ Opens(t) /\ Fd(t) = "open" /\ Image(t).k = "missing"
  /\ Set(t, Failed(loc[t], "NOT_FOUND"))

IsDbg(t) == Image(t).k = "dbg" /\ Fd(t) = "open"

\* A DBG file.  One that is cut short is closed a second time on the way out.
CrackDbg(t) ==
  /\ Opens(t) /\ IsDbg(t)
  /\ LET L == [loc[t] EXCEPT !.times = {Image(t).time}, !.fd = "closed"] IN
     IF Image(t).cut
     THEN Set(t, [Failed(L, "INVALID_EXECUTABLE") EXCEPT
            !.told = <<<<"start", Image(t).at, "FORMAT">>>>, !.fd = Closed(@)])
     ELSE Set(t, [L EXCEPT
            !.cv = IF Image(t).cv = NoCv THEN @ ELSE Image(t).at, !.dbg = Image(t).at,
            !.told = <<<<"start", Image(t).at, "OK">>>>, !.phase = "dbg"])

InvalidExecutable(t) ==
  /\ ~IsDbg(t) /\ Image(t).k # "missing"
  /\ \/ ~(Image(t).k = "pe" /\ Image(t).header)
     \/ HasDirs(t) /\ ~DirsFound(t)
     \/ DirsFound(t) /\ ~AllRead(t, Len(Image(t).dirs))
     \/ DirsFound(t) /\ Client(t).ngen
  /\ ~(Client(t).ngen /\ DirsFound(t) /\ NgenDirs(t) # {})

\* In a search for a native image's PDB m_fdExe has the file by then.
CrackInvalid(t) ==
  /\ Opens(t) /\ InvalidExecutable(t)
  /\ Set(t, [Failed(loc[t], "INVALID_EXECUTABLE") EXCEPT
       !.fd = Closed(Fd(t)),
       !.kept = /\ Client(t).ngen /\ DirsFound(t)
                /\ \/ AllRead(t, Len(Image(t).dirs))
                   \/ \E i \in DOMAIN Image(t).dirs :
                        Image(t).dirs[i].type = "cv" /\ AllRead(t, i)])

\* Mutant: the first CodeView directory is the one.
FirstCv(t) ==
  LET is == {i \in DOMAIN Image(t).dirs : Image(t).dirs[i].type = "cv"} IN
  IF is = {} THEN 0 ELSE CHOOSE i \in is : \A j \in is : i <= j

\* The last CodeView and the last miscellaneous directory count.
CvDir(t) == LastDir(t, "cv")
MiscDir(t) == IF Image(t).stripped THEN LastDir(t, "misc") ELSE 0

CrackExe(t) ==
  /\ Opens(t) /\ ~Client(t).ngen /\ DirsFound(t) /\ AllRead(t, Len(Image(t).dirs))
  /\ LET cv == CvDir(t)
         misc == MiscDir(t)
         L == [Named(loc[t], t) EXCEPT
                 !.fd = Fd(t), !.kept = TRUE, !.cvInExe = cv # 0, !.stripped = Image(t).stripped,
                 !.times = IF misc = 0 THEN {} ELSE {Image(t).time, Image(t).dirs[misc].time},
                 !.misc = IF misc = 0 THEN None ELSE MiscPath(Image(t).dirs[misc].entries)] IN
     Set(t, IF cv = 0 /\ misc = 0 THEN Failed(L, "NO_DEBUG_INFO")
            ELSE [L EXCEPT !.phase = "dbg"])

CrackNoDirs(t) ==
  /\ Opens(t) /\ Image(t).k = "pe" /\ Image(t).header /\ Image(t).dirs = <<>>
  /\ Set(t, [Failed(loc[t], "NO_DEBUG_INFO") EXCEPT !.fd = Closed(Fd(t))])

\* FGetNgenPdbInfo, and OpenNgenPdb: a PDB is written that has the image's GUID and age.
CrackNgen(t) ==
  /\ loc[t].phase = "start" /\ Client(t).cv = NoCv /\ ~ClientMisc(t) /\ Client(t).ngen
  /\ DirsFound(t) /\ NgenDirs(t) # {}
  /\ LET i == CHOOSE i \in NgenDirs(t) : \A j \in NgenDirs(t) : i <= j
         cv == Image(t).dirs[i].cv
         path == Client(t).to \o <<Last(cv.pdb)>> IN
     /\ files' = [p \in DOMAIN files \cup {path} |->
                    IF p = path THEN [k |-> "pdb", sig |-> cv.sig, age |-> cv.age] ELSE files[p]]
     /\ Set(t, [Named(loc[t], t) EXCEPT
          !.phase = "found", !.want = cv, !.ppdb = path, !.fd = Fd(t), !.kept = TRUE])
  /\ UNCHANGED <<scene, registry, regMemo, symsrv, option>>

-----------------------------------------------------------------------------
(* Places.  A path in search is a sequence of directories and of symbol     *)
(* servers: SRV*, SYMSRV* and CACHE*.                                        *)

Try(p) == [k |-> "try", file |-> p]
Srv(e) == [k |-> "srv", server |-> e, step |-> 1]

\* FLocateCvFilePathHelper: with "symbols", without it, and without the extension's
\* directory when there is one (cut)
InPath(path, rel, cut) ==
  FlattenSeq([i \in DOMAIN path |->
    LET d == path[i].at IN
    IF path[i].k # "dir" THEN <<Srv(path[i])>>
    ELSE <<Try(d \o <<"symbols">> \o rel), Try(d \o rel)>>
         \o IF cut THEN <<Try(d \o Tail(rel))>> ELSE <<>>])

DbgName(L) == <<L.exe[Len(L.exe)] \o ".dbg">>

\* FLocateDbgPath: by the path the image names, then by the image's own name.  Without
\* an extension the second is appended to what the first left.
DbgInPath(L, path) ==
  LET glued == Front(L.misc) \o <<Last(L.misc) \o DbgName(L)[1]>> IN
  IF L.misc = None THEN InPath(path, L.ext \o DbgName(L), L.ext # None)
  ELSE InPath(path, L.misc, FALSE)
       \o (IF L.ext # None THEN InPath(path, L.ext \o DbgName(L), TRUE)
           ELSE InPath(path, glued, FALSE))

\* FLocatePdbPath
PdbInPath(L, path) == InPath(path, L.ext \o <<Last(L.want.pdb)>>, L.ext # None)

LocateInPath(L, path) == IF L.phase = "dbg2" THEN DbgInPath(L, path) ELSE PdbInPath(L, path)

\* Mutant: the system root is searched although the client refuses it.
AllEnv(t) == scene.env

\* _NT_ALT_SYMBOL_PATH, _NT_SYMBOL_PATH and SystemRoot, the last of which a client may refuse
EnvPaths(t) == IF Restricted(t, "root") THEN Front(scene.env) ELSE scene.env

\* What FLocateDbg and FLocatePdb try after the default places
SearchPlaces(t, L) ==
  LocateInPath(L, Client(t).path)
  \o (IF Restricted(t, "registry") THEN <<>>
      ELSE [i \in DOMAIN Hives |-> [k |-> "registry", hive |-> Hives[i]]])
  \o FlattenSeq([i \in DOMAIN EnvPaths(t) |-> LocateInPath(L, EnvPaths(t)[i])])

-----------------------------------------------------------------------------
(* FLocateDbg and FLocatePdb.                                              *)

DbgNeeded(t) == ~Restricted(t, "dbg") /\ loc[t].dbg = None /\ loc[t].stripped

\* A false result has no error of its own here.
NoDbgNeeded(t) ==
  /\ loc[t].phase = "dbg" /\ ~DbgNeeded(t)
  /\ Set(t, IF (~Restricted(t, "dbg") /\ loc[t].dbg # None) \/ loc[t].cvInExe
            THEN [loc[t] EXCEPT !.phase = "cv"] ELSE [loc[t] EXCEPT !.phase = "failed"])
  /\ UNCHANGED Shared

LocateDbg(t) ==
  /\ loc[t].phase = "dbg" /\ DbgNeeded(t)
  /\ LET L == [loc[t] EXCEPT !.phase = "dbg2"] IN
     Set(t, [L EXCEPT !.todo =
       (IF Restricted(t, "reference") THEN <<>> ELSE <<Try(Front(L.exe) \o DbgName(L))>>)
       \o SearchPlaces(t, L)])
  /\ UNCHANGED Shared

\* The record that FReadDebugDirInfo reads.  A DBG that is refused may have left the place
\* of its own record: what is there in another file is no record.
CvRecord(t) ==
  LET L == loc[t] IN
  IF Client(t).cv # NoCv THEN Client(t).cv
  ELSE IF L.cvInExe THEN Image(t).dirs[CvDir(t)].cv
  ELSE IF L.cv = None THEN NoCv
  ELSE IF L.cv # L.dbg THEN [k |-> "other"]
  ELSE IF IsDbg(t) THEN Image(t).cv ELSE files[L.dbg].cv

Reference(t) == IF loc[t].cvInExe THEN loc[t].exe ELSE loc[t].dbg

\* FReadDebugDirInfo and FDecodeCvData, which fails with no error of its own
LocatePdb(t) ==
  /\ loc[t].phase = "cv"
  /\ LET cv == CvRecord(t)
         L == [loc[t] EXCEPT !.want = cv, !.phase = "pdb"] IN
     Set(t,
       CASE cv.k \in {"empty", "unreadable"} -> Failed(loc[t], "NO_DEBUG_INFO")
         [] cv.k \in {"big", "other"} -> Failed(loc[t], "DEBUG_INFO_NOT_IN_PDB")
         [] cv.k \in {"NB10", "RSDS"} /\ ~cv.ok -> [loc[t] EXCEPT !.phase = "failed"]
         [] OTHER ->
            [L EXCEPT !.todo =
               (IF Reference(t) = None \/ Restricted(t, "reference") THEN <<>>
                ELSE <<Try(Front(Reference(t)) \o <<Last(cv.pdb)>>)>>)
               \o (IF Restricted(t, "original") THEN <<>> ELSE <<Try(cv.pdb)>>)
               \o SearchPlaces(t, L)])
  /\ UNCHANGED Shared

Looking(t, k) ==
  /\ loc[t].phase \in {"dbg2", "pdb"} /\ loc[t].todo # <<>>
  /\ Head(loc[t].todo).k = k

Next1(L) == [L EXCEPT !.todo = Tail(@)]

NothingFound(t) ==
  /\ loc[t].phase \in {"dbg2", "pdb"} /\ loc[t].todo = <<>>
  /\ Set(t, Failed(loc[t], IF loc[t].phase = "dbg2" THEN "DBG_NOT_FOUND" ELSE "NOT_FOUND"))
  /\ UNCHANGED Shared

\* Mutant: each locator reads the registry again.
RereadHive(h) == registry[h]

\* REGISTRY::Init reads the value once in a process.
HivePath(h) == IF regMemo[h] = Unread THEN registry[h] ELSE regMemo[h]

LocateRegistry(t) ==
  /\ Looking(t, "registry")
  /\ LET h == Head(loc[t].todo).hive IN
     /\ regMemo' = [regMemo EXCEPT ![h] = HivePath(h)]
     /\ Set(t, [loc[t] EXCEPT !.todo = LocateInPath(loc[t], HivePath(h)) \o Tail(@)])
  /\ UNCHANGED <<scene, files, registry, symsrv, option>>

-----------------------------------------------------------------------------
(* Trying a file.                                                          *)

\* Mutant: any DBG is taken.
AnyTime(L, d) == TRUE

TimeRight(L, d) == d.time \in L.times

\* FLocateDbgValidate: the place of the CodeView record is taken from the DBG before its
\* time is looked at.
DbgTried(L, p) ==
  LET ec == IF p \notin DOMAIN files THEN "DBG_NOT_FOUND"
            ELSE IF files[p].k # "dbg" \/ files[p].cut THEN "FORMAT"
            ELSE IF ~TimeRight(L, files[p]) THEN "INVALID_EXE_TIMESTAMP" ELSE "OK"
      seen == /\ ~L.cvInExe /\ p \in DOMAIN files /\ files[p].k = "dbg"
              /\ files[p].cv # NoCv
      M == [L EXCEPT !.ec = ec, !.told = Append(@, <<L.phase, p, ec>>), !.cv = IF seen THEN p ELSE @] IN
  IF ec = "OK" THEN [M EXCEPT !.dbg = p, !.todo = <<>>, !.phase = "cv"] ELSE M

\* PDB::OpenValidate4
Validate(want, p) ==
  IF p \notin DOMAIN files THEN "NOT_FOUND"
  ELSE IF files[p].k # "pdb" THEN "FORMAT"
  ELSE IF files[p].sig # want.sig THEN "INVALID_SIG"
  ELSE IF files[p].age < want.age THEN "INVALID_AGE" ELSE "OK"

\* The id of a PDB or a DBG at a symbol server.  m_guidSig is not set by an NB10 record.
PdbId(want) == <<ToString(<<want.k, want.sig, want.age>>)>>
StoreIds(want) == IF want.k = "RSDS" THEN {PdbId(want)} ELSE {<<"junk">>}

\* Mutant: the cache stays the first one of a path.
KeepsCache(L, e) == L

\* What is found from a cache on is not stored in the one before it.
LeavesCache(L, e) == IF L.phase = "pdb" /\ e.k = "cache" THEN [L EXCEPT !.cache = None] ELSE L
EntersCache(L, e) == IF L.phase = "pdb" /\ e.k = "cache" THEN [L EXCEPT !.cache = e.at] ELSE L

Told(L, p, ec) == [L EXCEPT !.ec = ec, !.told = Append(@, <<L.phase, p, ec>>)]
Found(L, p) == [Told(L, p, "OK") EXCEPT !.phase = "found", !.ppdb = p, !.todo = <<>>]

CanStore(L) == L.cache # None /\ symsrv /\ scene.library = "new"

\* FOpenValidate4: a PDB that is found is stored in the cache and opened again from there,
\* which may fail.
PdbTried(t, L, p) ==
  LET ec == Validate(L.want, p) IN
  \/ /\ ec # "OK" /\ Set(t, Told(L, p, ec)) /\ UNCHANGED files
  \/ /\ ec = "OK" /\ (CanStore(L) => ~scene.stores)
     /\ Set(t, Found(L, p)) /\ UNCHANGED files
  \/ /\ ec = "OK" /\ CanStore(L) /\ scene.stores
     /\ \E id \in StoreIds(L.want) :
          LET q == L.cache \o <<Last(p)>> \o id
              M == [L EXCEPT !.stored = <<p, L.cache>>] IN
          \/ /\ files' = [f \in DOMAIN files \cup {q} |-> IF f = q THEN files[p] ELSE files[f]]
             /\ Set(t, Found(M, q))
          \/ /\ files' = files
             /\ Set(t, [Told(M, q, "NOT_FOUND") EXCEPT !.lost = TRUE])

TryFile(t) ==
  /\ Looking(t, "try")
  /\ LET L == Next1(loc[t])
         p == Head(loc[t].todo).file IN
     IF L.phase = "dbg2" THEN Set(t, DbgTried(L, p)) /\ UNCHANGED files
     ELSE PdbTried(t, L, p)
  /\ UNCHANGED <<scene, registry, regMemo, symsrv, option>>

-----------------------------------------------------------------------------
(* Symbol servers.                                                         *)

\* Mutant: caches are asked although the client refuses symbol servers.
Refuses(t, e) == (loc[t].phase = "dbg2" /\ loc[t].misc = None)
                 \/ (Restricted(t, "symsrv") /\ e.k # "cache")

\* FLocateDbgSymsrv and FLocatePdbSymsrv do not come to the server.
NotAsked(t, e) == (loc[t].phase = "dbg2" /\ loc[t].misc = None) \/ Restricted(t, "symsrv")

\* SYMSRV*<dll>* of another library
OtherDll(e) == e.k = "symsrv" /\ ~e.known

IsGuid(L) == L.phase = "pdb" /\ L.want.k = "RSDS"

NoFunction(L) == scene.library = "none" \/ (IsGuid(L) /\ scene.library = "old")

SkipServer(t) ==
  /\ Looking(t, "srv")
  /\ LET e == Head(loc[t].todo).server IN
     /\ Head(loc[t].todo).step = 1
     /\ NotAsked(t, e) \/ OtherDll(e) \/ NoFunction(loc[t])
     /\ symsrv' = (symsrv \/ ~(NotAsked(t, e) \/ OtherDll(e)))
     /\ Set(t, EntersCache(LeavesCache(Next1(loc[t]), e), e))
  /\ UNCHANGED <<scene, files, registry, regMemo, option>>

\* SymbolServer up to SymbolServerSetOptions, which is for the whole process.  A library
\* without options takes numbers.
SetOption(t) ==
  /\ Looking(t, "srv")
  /\ LET item == Head(loc[t].todo)
         e == item.server IN
     /\ item.step \in {1, 3}
     /\ ~(NotAsked(t, e) \/ OtherDll(e) \/ NoFunction(loc[t]))
     /\ symsrv' = TRUE
     /\ option' = IF scene.library = "old" THEN option
                  ELSE IF IsGuid(loc[t]) THEN "guid" ELSE "dword"
     /\ Set(t, [LeavesCache(loc[t], e) EXCEPT !.todo[1].step = @ + 1])
  /\ UNCHANGED <<scene, files, registry, regMemo>>

\* A DBG is asked for by the time of the image, then by that of the directory.
DbgTime(t, step) ==
  IF ClientMisc(t) THEN Client(t).misc.stamps[step \div 2]
  ELSE IF step = 2 THEN Image(t).time ELSE Image(t).dirs[MiscDir(t)].time

ServerTarget(t, item) ==
  IF loc[t].phase = "pdb" THEN item.server.at \o <<Last(loc[t].want.pdb)>> \o PdbId(loc[t].want)
  ELSE item.server.at \o <<Last(loc[t].misc)>> \o <<ToString(DbgTime(t, item.step))>>

InStore(e) == {p \in DOMAIN files : IsStrictPrefix(e.at, p)}

\* What SymbolServerW may answer: when another locator has set the option in between an id is
\* taken for what it is not, and the answer is any file of the store or none.
Answers(t, item) ==
  IF option = (IF IsGuid(loc[t]) THEN "guid" ELSE "dword")
  THEN IF ServerTarget(t, item) \in DOMAIN files THEN {ServerTarget(t, item)} ELSE {None}
  ELSE InStore(item.server) \cup {None}

\* A failed answer is told when the cache is full or not there; a DBG is then asked for
\* again by its other time.
NoAnswer(t, L, item) ==
  LET why == item.server.fails
      M == IF why = "NOT_FOUND" THEN L
           ELSE IF L.phase = "dbg2" THEN Told(L, item.server.at, why)
           ELSE [L EXCEPT !.told = Append(@, <<L.phase, item.server.at, why>>)] IN
  IF L.phase = "dbg2" /\ item.step = 2
  THEN Set(t, [loc[t] EXCEPT !.todo[1].step = 3])
  ELSE Set(t, EntersCache(M, item.server))

\* A PDB that an answer names and that is not the one is no different from no answer.
AskServer(t) ==
  /\ Looking(t, "srv")
  /\ LET item == Head(loc[t].todo)
         L == [Next1(loc[t]) EXCEPT
                 !.lost = @ \/ (option = "guid") # IsGuid(loc[t])] IN
     /\ item.step \in {2, 4}
     /\ \E p \in Answers(t, item) :
          \/ p = None /\ NoAnswer(t, L, item) /\ UNCHANGED files
          \/ /\ p # None
             /\ IF L.phase = "dbg2" THEN Set(t, DbgTried(L, p)) /\ UNCHANGED files
                ELSE IF Validate(L.want, p) = "OK" THEN PdbTried(t, L, p)
                ELSE /\ Set(t, EntersCache(Told(L, p, Validate(L.want, p)), item.server))
                     /\ UNCHANGED files
  /\ UNCHANGED <<scene, registry, regMemo, symsrv, option>>

\* ~LOCATOR
Destroy(t) ==
  /\ loc[t].phase \in {"found", "failed"}
  /\ Set(t, [loc[t] EXCEPT
       !.phase = IF @ = "found" THEN "gaveIt" ELSE "gaveUp",
       !.fd = IF loc[t].kept THEN Closed(@) ELSE @])
  /\ UNCHANGED Shared

\* The registry is edited; who runs already does not see it.
EditRegistry ==
  /\ registry # scene.laterRegistry
  /\ registry' = scene.laterRegistry
  /\ UNCHANGED <<scene, files, regMemo, symsrv, option, loc>>

-----------------------------------------------------------------------------
Init ==
  /\ scene \in Scenes
  /\ files = scene.files /\ registry = scene.registry
  /\ regMemo = [h \in {"user", "machine"} |-> Unread]
  /\ symsrv = FALSE /\ option = "dword"
  /\ loc = [t \in Locators |-> NewLocator]

Next ==
  \/ EditRegistry
  \/ \E t \in Locators :
       \/ CrackForClient(t) \/ CrackMisc(t) \/ CrackNothing(t) \/ CrackDbg(t) \/ CrackInvalid(t)
       \/ CrackExe(t) \/ CrackNoDirs(t) \/ CrackNgen(t)
       \/ NoDbgNeeded(t) \/ LocateDbg(t) \/ LocatePdb(t) \/ NothingFound(t)
       \/ LocateRegistry(t) \/ TryFile(t) \/ SkipServer(t) \/ SetOption(t) \/ AskServer(t)
       \/ Destroy(t)

Spec == Init /\ [][Next]_vars

-----------------------------------------------------------------------------
(* Properties.                                                             *)

\* The places of a path, as a set
AllIn(path, rel, cut) ==
  UNION {IF path[i].k # "dir" THEN {}
         ELSE {path[i].at \o <<"symbols">> \o rel, path[i].at \o rel}
              \cup (IF cut THEN {path[i].at \o Tail(rel)} ELSE {})
         : i \in DOMAIN path}

\* Where the client lets a PDB be looked for: next to the image or DBG, where the linker put
\* it, and in the directories of the paths
PdbPlace(t, n) ==
  LET L == loc[t]
      In(path) == AllIn(path, L.ext \o <<Last(L.want.pdb)>>, L.ext # None) IN
  CASE n = 1 -> IF Reference(t) = None \/ Restricted(t, "reference") THEN {}
                ELSE {Front(Reference(t)) \o <<Last(L.want.pdb)>>}
    [] n = 2 -> IF Restricted(t, "original") THEN {} ELSE {L.want.pdb}
    [] n = 3 -> In(Client(t).path)
    [] n \in {4, 5} -> IF Restricted(t, "registry") \/ regMemo[Hives[n - 3]] = Unread THEN {}
                       ELSE In(regMemo[Hives[n - 3]])
    [] n = 5 + Len(scene.env) /\ Restricted(t, "root") -> {}
    [] OTHER -> In(scene.env[n - 5])

PlaceNumbers == 1 .. 5 + Len(scene.env)


\* What is searched for a PDB, in order
Searched(t) ==
  LET reg == IF Restricted(t, "registry") THEN <<>> ELSE [i \in 1 .. 2 |-> regMemo[Hives[i]]]
      env == IF Restricted(t, "root") THEN Front(scene.env) ELSE scene.env IN
  FlattenSeq(<<Client(t).path>> \o reg \o env)

ServerPlaces(t) ==
  IF Restricted(t, "symsrv") THEN {}
  ELSE UNION {InStore(e) \cup {e.at} : e \in {x \in Range(Searched(t)) : x.k \notin {"dir", "unread"}}}

PdbTold(t) == {loc[t].told[i][2] : i \in {j \in DOMAIN loc[t].told : loc[t].told[j][1] = "pdb"}}

TrueRecord(t) ==
  IF Client(t).cv # NoCv THEN Client(t).cv
  ELSE IF Image(t).k = "dbg" THEN Image(t).cv
  ELSE IF LastDir(t, "cv") # 0 THEN Image(t).dirs[LastDir(t, "cv")].cv
  ELSE files[loc[t].dbg].cv

Given(t) == loc[t].phase \in {"found", "gaveIt"}
GaveUp(t) == loc[t].phase \in {"failed", "gaveUp"}

\* The PDB that is given is the one the image, or the DBG that was made with it, tells of,
\* whatever a server or a cache answered.
RightPdb ==
  \A t \in Locators :
    Given(t) /\ ~Client(t).ngen =>
      LET f == files[loc[t].ppdb] IN
      /\ loc[t].dbg # None /\ Image(t).k # "dbg" => files[loc[t].dbg].time \in loc[t].times
      /\ f.k = "pdb" /\ f.sig = TrueRecord(t).sig /\ f.age >= TrueRecord(t).age

\* A client's refusals are kept, no place is passed over and the nearest PDB that is right is
\* the one given.
PlacesKept ==
  \A t \in Locators :
    loc[t].want # NoCv /\ ~Client(t).ngen =>
      /\ PdbTold(t) \subseteq UNION {PdbPlace(t, n) : n \in PlaceNumbers} \cup ServerPlaces(t)
                             \cup (IF loc[t].lost THEN {p : p \in PdbTold(t)} ELSE {})
                             \cup (IF loc[t].stored # None THEN {loc[t].ppdb} ELSE {})
      /\ ~loc[t].lost =>
           /\ GaveUp(t) /\ loc[t].ec = "NOT_FOUND" =>
                \A n \in PlaceNumbers : \A p \in PdbPlace(t, n) : Validate(loc[t].want, p) # "OK"
           /\ Given(t) =>
                LET from == IF loc[t].stored = None THEN loc[t].ppdb ELSE loc[t].stored[1] IN
                \A n \in PlaceNumbers :
                  from \in PdbPlace(t, n) =>
                    \A m \in 1 .. n - 1 : \A p \in PdbPlace(t, m) :
                      Validate(loc[t].want, p) # "OK"

\* A PDB is stored in the last cache before the place it was found at, and what a cache
\* answered in none.
CachesApart ==
  \A t \in Locators :
    loc[t].stored # None =>
      LET els == Searched(t)
          caches == {i \in DOMAIN els : els[i].k = "cache"} IN
      \E i \in DOMAIN els :
        /\ els[i].k # "cache" /\ IsStrictPrefix(els[i].at, loc[t].stored[1])
        /\ \E c \in caches : /\ c < i /\ els[c].at = loc[t].stored[2]
                              /\ \A d \in caches : d <= c \/ d > i

\* The assertions about m_wszCache
CacheAsserted ==
  \A t \in Locators :
    /\ loc[t].phase \in {"start", "dbg", "dbg2", "cv"} => loc[t].cache = None
    /\ Looking(t, "srv") =>
         LET item == Head(loc[t].todo) IN
         item.server.k = "cache" /\ item.step > 1 => loc[t].cache = None

\* The image's file is closed once, but for a DBG that is cut short and for an image that is
\* not native, which are closed twice.
ClosedOnce ==
  \A t \in Locators :
    loc[t].phase \in {"gaveIt", "gaveUp"} =>
      \/ loc[t].fd \in {"none", "closed"}
      \/ Image(t).k = "dbg" /\ Image(t).cut
      \/ Client(t).ngen /\ GaveUp(t)

\* Who gives up tells an error, but for a refused DBG and a record that has no good name.
ErrorTold ==
  \A t \in Locators :
    GaveUp(t) /\ loc[t].ec = "OK" =>
      \/ Restricted(t, "dbg") /\ loc[t].want = NoCv
      \/ ~TrueRecord(t).ok

LocatorRight ==
  RightPdb /\ PlacesKept /\ CachesApart /\ CacheAsserted /\ ClosedOnce /\ ErrorTold
=============================================================================
