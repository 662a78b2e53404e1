----------------------------- MODULE MCContents -----------------------------
(* The tables that hold a PDB's names, types and global symbols.  They do   *)
(* not share state, so one run explores them one after the other: in the    *)
(* state graph of a part the variables of the others keep their first       *)
(* values.                                                                  *)
EXTENDS HashMap, NameMap, NameMapPages, TypePool, Sequences, TLC

CONSTANT Definitions   \* of one name, of A1, A2 and A3

VARIABLES
  part,
  mini, pc, recs, chains, refs, hash, gsLeft, gsGiven,      \* GlobalSyms
  tms, pcts, to, tm, status, corrupt, answers,               \* TypeMerge
  tsMode, pdbs, otms, serverTms, handles, ptm, modState, askedFor, mtr, typeStreams, lastAdd, phase,
                                                            \* TypeServers
  scene, symFiles, registry, regMemo, symsrv, srvOption, locators, \* Locator
  session, looks, merged, buckets, cur, cbs, done, noted, sessions, fresh, met, \* Mismatches
  vDisk, vStrm, vMode, vInitd, vPool, vDirty, vNewHash, vCorrupt, vTold, vTypes, vKept, \* TpiVersions
  uMode, uRoom, uTypes, udtChain, uItems, idChain, uTold, stands, lastLine  \* UdtLines

gsVars == <<mini, pc, recs, chains, refs, hash, gsLeft, gsGiven>>
tmVars == <<tms, pcts, to, tm, status, corrupt, answers>>
tsVars == <<tsMode, pdbs, otms, serverTms, handles, ptm, modState, askedFor, mtr, typeStreams, lastAdd, phase>>
loVars == <<scene, symFiles, registry, regMemo, symsrv, srvOption, locators>>
miVars == <<session, looks, merged, buckets, cur, cbs, done, noted, sessions, fresh, met>>
veVars == <<vDisk, vStrm, vMode, vInitd, vPool, vDirty, vNewHash, vCorrupt, vTold, vTypes, vKept>>
udVars == <<uMode, uRoom, uTypes, udtChain, uItems, idChain, uTold, stands, lastLine>>
allVars ==
  <<vars, nmtVars, part, gsVars, pagesVars, typeVars, tmVars, tsVars, loVars, miVars, veVars, udVars>>

-----------------------------------------------------------------------------
\* Four keys that collide in all tables (k1, k2), at the end of the largest one,
\* and in some (k3, k4); the table grows from one slot to six.
MCKeys == {"k1", "k2", "k3", "k4"}
MCValues == {"v1", "v2"}
MCKeyHash == [k1 |-> 5, k2 |-> 11, k3 |-> 3, k4 |-> 4]

\* Four names, "u" the UTF8 form of the MBCS name "m"; the hash functions collide
\* and disagree; the table grows from one slot to seven.
MCSzs == {"m", "u", "a", "b"}
MCUtf8 == [m |-> "u"]
MCNameHash ==
  [v \in 0 .. 2 |->
     IF v = 0 THEN [m |-> 0, u |-> 1, a |-> 1, b |-> 0]
     ELSE IF v = 1 THEN [m |-> 1, u |-> 3, a |-> 3, b |-> 5]
     ELSE [m |-> 2, u |-> 2, a |-> 0, b |-> 6]]

\* Six names on six pages: one of a page, some across a boundary, one of three pages.
MCLens == <<2, 3, 8, 1, 3, 2>>

\* All of Definitions define A; the name and the record p share a chain; s is a source line.
MCTypeRecs == Definitions \cup {"p", "s"}
MCUdt == [d \in Definitions |-> "A"]
MCBucket == [A |-> 0, p |-> 0, s |-> 1]
MCSize == [r \in MCTypeRecs |-> IF r = "s" THEN 1 ELSE IF r = "A2" THEN 3 ELSE 2]
MCLegal == {<<"A2", "A1">>}
MCModes == {"r", "w", "a", "aw"}

\* Two names that differ in case, and one more in another bucket; a symbol that
\* is a global, two constants, and a reference.
bx == <<98>>
Bx == <<66>>
ab == <<97, 98>>
MCNames == {bx, Bx, ab}
MCHash == [n \in MCNames |-> Len(n) - 1]
Sym(n, global, spd, v) ==
  [name |-> n, global |-> global, spd |-> spd, v |-> v, imod |-> "none"]
AGlobal == Sym(bx, TRUE, FALSE, 1)
AConst(v) == Sym(Bx, FALSE, TRUE, v)
AStatic == Sym(ab, FALSE, FALSE, 1)
MCRecs == {AGlobal, AConst(1), AConst(2), AStatic}

\* What a module has: a global and a constant of its name, in any order and twice; the
\* other constant; a symbol before them.
MCSomeSyms ==
  SeqOf({AGlobal, AConst(1)}, 2)
    \cup {<<AConst(2)>>, <<AConst(1), AConst(2)>>, <<AStatic>>, <<AStatic, AGlobal>>}

GS == INSTANCE GlobalSyms WITH
  SymNames <- MCNames, iphrHash <- 2, hashSz <- MCHash, Mods <- {"m1", "m2"}, Recs <- MCRecs,
  SomeSyms <- MCSomeSyms, MaxRecs <- 3, MaxLeft <- 1, left <- gsLeft, given <- gsGiven

\* One object makes precompiled types that another uses, with records of their own; two
\* lead to the PDB of a compiler that has the same types.
R(leaf, tis) == [leaf |-> <<leaf>>, refs |-> [j \in DOMAIN tis |-> [ti |-> tis[j], id |-> FALSE]]]
NoPch == [name |-> "none", sig |-> 0, count |-> 0]
Obj(own, end, pch, objname, file) ==
  [recs |-> own, end |-> end, pch |-> pch, sig |-> 1, objname |-> objname, file |-> file]

End == R("endprecomp", <<>>)

\* 10: a pointer, 11: a definition; the maker's own: 13; the user's own: 12 and 13
MCTypes == [
  make |-> Obj(<<R("ptr", <<1>>), R("udt", <<10>>), End, R("arr", <<10, 10>>)>>, 3, NoPch, "pch", "none"),
  use  |-> Obj(<<R("arr", <<10, 10>>), R("proc", <<13, 12>>)>>, 0,
               [name |-> "pch", sig |-> 1, count |-> 2], "use", "none"),
  own  |-> Obj(<<R("node", <<11>>), R("ptr", <<10>>), R("ptr", <<1>>)>>, 0, NoPch, "own", "none"),
  lead |-> Obj(<<>>, 0, NoPch, "lead", "vc"),
  lead2 |-> Obj(<<>>, 0, NoPch, "lead2", "vc"),
  both |-> Obj(<<R("ptr", <<1>>), End>>, 2, [name |-> "pch", sig |-> 1, count |-> 2], "both", "none")]

MCFiles == [vc |-> [types |-> <<R("udt", <<11>>), R("ptr", <<1>>), R("arr", <<11, 11>>)>>,
                    ids |-> <<[leaf |-> <<"func">>, refs |-> <<[ti |-> 11, id |-> FALSE]>>],
                              [leaf |-> <<"func">>, refs |-> <<[ti |-> 12, id |-> FALSE], [ti |-> 10, id |-> TRUE]>>]>>]]

NoLines == [ti \in 0 .. 20 |-> 0]
MCLines == [x \in {"make", "use", "own", "lead", "lead2", "both", "vc"} |->
              IF x = "vc" THEN [NoLines EXCEPT ![10] = 7]
              ELSE IF x = "make" THEN [NoLines EXCEPT ![11] = 5] ELSE NoLines]

SymOf(ti) == [ti |-> ti, id |-> FALSE]
MCSyms == [make |-> {SymOf(13), SymOf(11)}, use |-> {SymOf(13), SymOf(11)}, own |-> {SymOf(10), SymOf(12)},
           lead |-> {SymOf(12), [ti |-> 11, id |-> TRUE]}, lead2 |-> {SymOf(10), SymOf(15)},
           both |-> {}]

MCObjs == {"make", "use", "own", "lead", "lead2", "both"}

TM == INSTANCE TypeMerge WITH
  Objs <- MCObjs, Types <- MCTypes, Files <- MCFiles, Lines <- MCLines, Syms <- MCSyms,
  First <- 10, MaxRecs <- 5, MaxOpen <- 2

\* The PDB of the types under a number behind the output's, an older one where the
\* objects are, and one that cannot be opened next to the output.
Path(d, b, n) == [dir |-> d, base |-> b, n |-> n]
Pdb(s, a, tpi, ipi, isTo) == [sig |-> s, age |-> a, tpi |-> tpi, ipi |-> ipi, to |-> isTo]
Ts(name, s, a) == [k |-> "ts", name |-> name, sig |-> s, age |-> a]
vc(d) == Path(d, "vc", 1)
MCTypeRefs ==
  {Ts(vc("p"), 1, 1), Ts(vc("p"), 1, 2), Ts(vc("q"), 1, 1), Ts(Path("p", "vc", 2), 9, 1),
   Ts(vc("p"), 9, 1), Ts(Path("x", "out", 1), 1, 1)}
  \cup {[k |-> k] : k \in {"own", "none", "bad"}}
MCImages ==
  {vc("o") :> Pdb(2, 5, TRUE, TRUE, FALSE) @@ Path("o", "vc", 2) :> Pdb(9, 1, TRUE, TRUE, TRUE)
     @@ Path("o", "vc", 3) :> Pdb(1, 1, TRUE, TRUE, FALSE),
   Path("x", "out", 1) :> Pdb(9, 2, TRUE, TRUE, TRUE) @@ vc("p") :> Pdb(1, 2, TRUE, FALSE, FALSE)
     @@ vc("o") :> Pdb(1, 1, TRUE, TRUE, FALSE),
   Path("x", "out", 1) :> Pdb(1, 1, TRUE, TRUE, TRUE) @@ vc("x") :> Pdb(1, 2, FALSE, FALSE, FALSE)}
MCPdbs0 == CHOOSE i \in MCImages : vc("p") \in DOMAIN i
MCServed == {"m1", "m2"}

TS == INSTANCE TypeServers WITH
  Mods <- MCServed, TypeRefs <- MCTypeRefs, Images <- MCImages, Mappings <- <<<<vc("q"), vc("p")>>>>,
  MaxAge <- 2, MaxReloads <- 2, tms <- serverTms, streams <- typeStreams

-----------------------------------------------------------------------------
\* Images, clients, files and paths for Locator: what two locators of a process meet.
(* Elements of a search path, and how a server that has no answer fails.   *)
Dir(d) == [k |-> "dir", at |-> <<d>>]
Server(d, why) == [k |-> "srv", at |-> <<d>>, fails |-> why, known |-> TRUE]
Symsrv(d, known) == [Server(d, "NOT_FOUND") EXCEPT !.k = "symsrv", !.known = known]
Cache(d, why) == [Server(d, why) EXCEPT !.k = "cache"]

(* CodeView records, images and files.                                     *)
NoCv == [k |-> "empty"]
Rsds(sig, age) ==
  [k |-> "RSDS", ok |-> TRUE, sig |-> sig, age |-> age, base |-> "app",
   pdb |-> <<"o", "app.pdb">>]
Nb10(sig, age) == [Rsds(sig, age) EXCEPT !.k = "NB10"]
CvDir(cv) == [type |-> "cv", ok |-> TRUE, cv |-> cv]
MiscDir(time, entries) == [type |-> "misc", ok |-> TRUE, time |-> time, entries |-> entries]
Other == [type |-> "other", ok |-> TRUE]
Name == [k |-> "name", path |-> <<"exe", "app.dbg">>]
Exe ==
  [k |-> "pe", header |-> TRUE, inSection |-> TRUE, com |-> "none", stripped |-> FALSE,
   time |-> 1, at |-> <<"bin">>, name |-> "app", ext |-> <<"exe">>,
   dirs |-> <<CvDir(Rsds(9, 1)), Other, CvDir(Rsds(1, 2))>>]
Stripped ==
  [Exe EXCEPT !.stripped = TRUE, !.dirs = <<MiscDir(2, <<[k |-> "unicode"], Name>>)>>]
Native == [Exe EXCEPT !.com = "native"]
DbgImage(cut, cv) ==
  [k |-> "dbg", at |-> <<"bin", "app.dbg">>, time |-> 5, cv |-> cv, cut |-> cut]
NoMisc == [entries |-> <<>>, times |-> {}, stamps |-> <<>>]
Own(sig, age) == [k |-> "pdb", sig |-> sig, age |-> age]
Good == Own(1, 2)
Dbg(time, cv, cut) == [k |-> "dbg", time |-> time, cv |-> cv, cut |-> cut]
Id(cv) == ToString(<<cv.k, cv.sig, cv.age>>)

Client(image, path, restrict) ==
  [image |-> image, cv |-> NoCv, misc |-> NoMisc, reads |-> "file", restrict |-> restrict,
   path |-> path, ngen |-> FALSE, to |-> <<"n">>]
Ngen(image) == [Client(image, <<>>, {}) EXCEPT !.ngen = TRUE]

Base ==
  [clients |-> <<Client(Exe, <<>>, {}), Client([Exe EXCEPT !.dirs = <<>>], <<>>, {})>>,
   files |-> <<"x">> :> Own(0, 0),
   registry |-> [user |-> <<>>, machine |-> <<>>],
   laterRegistry |-> [user |-> <<>>, machine |-> <<>>],
   env |-> <<<<>>, <<>>, <<>>>>, library |-> "new", stores |-> TRUE]

-----------------------------------------------------------------------------
\* The wrong PDBs are nearer than the right one, which a server has and a directory
\* behind two caches.
Caches ==
  [Base EXCEPT
     !.clients = <<Client(Exe, <<Dir("d1"), Cache("c1", "NOT_FOUND"), Cache("c2", "PATH"),
                                 Dir("d2"), Server("s", "FULL")>>, {}),
                   Client(Exe, <<Cache("c1", "NOT_FOUND"), Server("s", "NOT_FOUND"),
                                 Dir("d2")>>, {"original"})>>,
     !.files = <<"bin", "app.pdb">> :> Own(1, 1) @@ <<"o", "app.pdb">> :> Own(2, 3)
               @@ <<"d1", "app.pdb">> :> [k |-> "text"] @@ <<"d2", "exe", "app.pdb">> :> Good
               @@ <<"d2", "symbols", "exe", "app.pdb">> :> Own(9, 1)
               @@ <<"s", "app.pdb", Id(Rsds(1, 2))>> :> Good]

\* A DBG of another build, one that is cut short and the right one by the other time; one
\* locator asks by number and one by GUID.
Servers ==
  [Base EXCEPT
     !.clients = <<Client(Stripped, <<Dir("d1"), Server("s", "NOT_FOUND")>>,
                          {"reference", "registry", "root"}),
                   Client([Exe EXCEPT !.ext = <<>>], <<Cache("c1", "NOT_FOUND")>>, {"original"})>>,
     !.registry = [user |-> <<Symsrv("s", FALSE), Symsrv("s", TRUE)>>, machine |-> <<>>],
     !.laterRegistry = [user |-> <<Symsrv("s", FALSE), Symsrv("s", TRUE)>>, machine |-> <<>>],
     !.env = <<<<Dir("d2")>>, <<>>, <<>>>>,
     !.files = <<"d1", "symbols", "exe", "app.dbg">> :> Dbg(7, Nb10(2, 1), FALSE)
               @@ <<"o", "app.pdb">> :> Own(2, 1)
               @@ <<"s", "app.dbg", "2">> :> Dbg(2, Nb10(3, 1), FALSE)
               @@ <<"s", "app.dbg", "1">> :> Dbg(1, Nb10(3, 1), TRUE)
               @@ <<"d2", "app.pdb">> :> Good @@ <<"d2", "exe", "app.pdb">> :> Own(3, 2)
               @@ <<"s", "app.pdb", Id(Rsds(1, 2))>> :> Good]

\* One client refuses all it can.
Refusals ==
  [Base EXCEPT
     !.clients = <<Client(Exe, <<Cache("c1", "NOT_FOUND"), Server("s", "NOT_FOUND"), Dir("d1")>>,
                          {"symsrv", "registry", "original", "reference", "root"}),
                   Client(Exe, <<Cache("c2", "NOT_FOUND")>>, {"root"})>>,
     !.registry = [user |-> <<Dir("d1")>>, machine |-> <<Dir("d2")>>],
     !.laterRegistry = [user |-> <<Dir("d1")>>, machine |-> <<Dir("d2")>>],
     !.env = <<<<>>, <<Dir("d3")>>, <<Dir("d4")>>>>,
     !.files = <<"bin", "app.pdb">> :> Own(1, 1)
               @@ <<"d3", "symbols", "exe", "app.pdb">> :> Good @@ <<"d4", "app.pdb">> :> Good
               @@ <<"c1", "app.pdb", Id(Rsds(1, 2))>> :> Good]
\* ... and the registry is edited.
OnlyRoot ==
  [Refusals EXCEPT
     !.files = <<"d4", "app.pdb">> :> Good, !.stores = FALSE, !.clients[1].restrict = {"root"},
     !.laterRegistry = [user |-> <<Dir("d4")>>, machine |-> <<>>]]

\* Two that look at nothing but the registry, which is edited.
OnlyRegistry ==
  LET client == [Client(Exe, <<>>, {"symsrv", "original", "reference", "root"}) EXCEPT
                   !.cv = Rsds(1, 2)]
  IN [OnlyRoot EXCEPT
        !.clients = <<client, client>>, !.env = Base.env,
        !.registry = [user |-> <<>>, machine |-> <<>>]]

\* Clients that read the records themselves, without the server's library or with an old one.
Callbacks(library) ==
  [Base EXCEPT
     !.clients = <<[Client(Exe, <<Dir("d1"), Server("s", "NOT_FOUND")>>, {})
                      EXCEPT !.cv = Rsds(1, 2)],
                   [Client(Exe, <<Dir("d1"), Server("s", "PATH")>>, {})
                      EXCEPT !.misc = [entries |-> <<Name>>, times |-> {1, 2},
                                       stamps |-> <<1, 2>>]]>>,
     !.files = <<"bin", "app.dbg">> :> Dbg(3, NoCv, TRUE)
               @@ <<"d1", "exe", "app.dbg">> :> Dbg(2, Rsds(1, 2), FALSE)
               @@ <<"d1", "app.pdb">> :> Good,
     !.library = library]

Of(c1, c2) ==
  [Base EXCEPT !.clients = <<c1, c2>>, !.files = <<"bin", "app.pdb">> :> Good]
Image(image) == [Base EXCEPT !.clients[1] = Client(image, <<>>, {})]

MCScenes ==
  {Caches, Servers, Refusals, OnlyRoot, OnlyRegistry, Callbacks("old"), Callbacks("none"),
   Of(Ngen(Native), Ngen([Native EXCEPT !.name = "other"])),
   Of(Ngen(Exe), Client(Stripped, <<>>, {"dbg"})),
   Of(Client([Exe EXCEPT !.dirs = <<CvDir([Rsds(1, 2) EXCEPT !.ok = FALSE])>>], <<>>, {}),
      Client(DbgImage(FALSE, Rsds(1, 2)), <<>>, {})),
   Image([k |-> "missing"]), Image([k |-> "short"]), Image(DbgImage(TRUE, NoCv)),
   Image(DbgImage(FALSE, NoCv)), Image([Exe EXCEPT !.inSection = FALSE]),
   Image([Exe EXCEPT !.dirs = <<Other>>]), Image([Exe EXCEPT !.dirs[2].ok = FALSE])}

LO == INSTANCE Locator WITH
  Locators <- {1, 2}, Scenes <- MCScenes, files <- symFiles, option <- srvOption, loc <- locators

\* Two definitions of S, two of C, one of them of the other S, and two of F that a
\* client does not ask for; C and S share a bucket.
Type(n, d, subs, l) == [name |-> n, def |-> d, subs |-> subs, line |-> l]
MCObjects ==
  {[types |-> <<Type("S", 1, <<>>, 10), Type("none", 0, <<1>>, 0)>>, syms |-> <<2>>],
   [types |-> <<Type("S", 2, <<>>, 20), Type("C", 1, <<1>>, 21)>>, syms |-> <<2, 1>>],
   [types |-> <<Type("S", 1, <<>>, 10), Type("C", 1, <<1>>, 21), Type("F", 1, <<>>, 0),
                Type("F", 2, <<2>>, 0)>>, syms |-> <<3, 4>>]}

MI == INSTANCE Mismatches WITH
  Objects <- MCObjects, NMods <- 2, Hash <- [S |-> 0, C |-> 0, F |-> 1], Filtered <- {"F"},
  Clients <- {"a", "b"}, MaxSessions <- 2, MergesEarly <- FALSE, GivesAtOnce <- TRUE,
  pool <- merged

\* Pools of all versions: a is a definition, which shares its bucket with b when it has
\* old names; then pools whose streams were damaged.
MCVerTypes == {"a", "b", "c"}
MCForms == [VC2 |-> "16", v40 |-> "16", v41 |-> "16", v50Interim |-> "st", v50 |-> "st", v70 |-> "sz",
            v80 |-> "sz"]
MCVerBucket ==
  [k \in {"hashBuf", "hashBufv8"} \X {"16", "st", "sz", "odd"} \X MCVerTypes |->
     IF k[2] # "sz" THEN 1 ELSE IF k[3] = "b" THEN 2 ELSE IF k[1] = "hashBuf" THEN 3 ELSE 4]
PoolOf(v, f) ==
  LET fn == IF v = "v80" THEN "hashBufv8" ELSE "hashBuf"
      stored(t) == [b |-> IF t = "a" /\ f = "sz" THEN 2 ELSE MCVerBucket[fn, f, t]]
  IN [hdr |-> [vers |-> v, shape |-> IF v = "v80" THEN "v8" ELSE "v7", tiMac |-> 2, cbGprec |-> 2,
               sn |-> TRUE, nhash |-> 2, ntioff |-> 1],
      recs |-> <<[type |-> "a", form |-> f], [type |-> "b", form |-> f]>>,
      hash |-> <<stored("a"), stored("b"), [ti |-> 1, off |-> 0]>>,
      ragged |-> FALSE, whole |-> "yes"]
Damaged(d) == [d EXCEPT !.whole = "no"]
MCPools ==
  LET v80 == Damaged(PoolOf("v80", "sz"))
      v50 == Damaged(PoolOf("v50", "st"))
      two(pools) == [streams : pools, types : {<<"a", "b">>}]
  IN two({PoolOf(v, MCForms[v]) : v \in DOMAIN MCForms})
     \cup two({[v80 EXCEPT !.hdr.vers = "v99"], [v80 EXCEPT !.hdr.shape = "v7"],
              [v80 EXCEPT !.recs = SubSeq(@, 1, 1)], [v80 EXCEPT !.ragged = TRUE],
              [v80 EXCEPT !.hash = SubSeq(@, 1, 2)], [v80 EXCEPT !.hash[2].b = -1],
              [v80 EXCEPT !.hash[3].ti = 0], [v80 EXCEPT !.hdr.nhash = -1, !.hdr.ntioff = 0],
              [v80 EXCEPT !.hdr.nhash = 4, !.hdr.ntioff = 0],
              [v50 EXCEPT !.recs[2].form = "odd"], [v50 EXCEPT !.recs = SubSeq(@, 1, 1)]})
     \cup {[streams |-> d, types |-> <<"a", "b", "none">>] :
             d \in {[v80 EXCEPT !.hdr.tiMac = 3, !.hdr.nhash = 3, !.hash = <<@[1]>> \o @],
                    [v50 EXCEPT !.hdr.tiMac = 3]}}
     \cup {[streams |-> [hdr |-> [vers |-> "none"], recs |-> <<>>, hash |-> <<>>, ragged |-> FALSE,
                         whole |-> "yes"], types |-> <<>>]}

Reads(i, all) == [open |-> TRUE, fWrite |-> FALSE, fGetTi |-> i, all |-> all, mini |-> FALSE]
Writes(isMini) == [open |-> TRUE, fWrite |-> TRUE, fGetTi |-> TRUE, all |-> isMini, mini |-> isMini]

VE == INSTANCE TpiVersions WITH
  Modes <- {Reads(TRUE, FALSE), Reads(FALSE, FALSE), Reads(TRUE, TRUE), Writes(FALSE), Writes(TRUE)},
  Types <- MCVerTypes, Udts <- {"a"}, NameBucket <- [a |-> 2], Bucket <- MCVerBucket,
  Images <- MCPools, MaxTypes <- 3, disk <- vDisk, strm <- vStrm, mode <- vMode, fInitd <- vInitd,
  pool <- vPool, dirty <- vDirty, newHash <- vNewHash, corrupt <- vCorrupt,
  told <- vTold, types <- vTypes, kept <- vKept

\* Classes under three names, two of which differ in case; some with a scope, a forward
\* reference, and one without a name.  Two lists have the same data members.
Member(k, n) == [k |-> k, name |-> n]
MCFieldLists ==
  {<<Member("MEMBER", "x")>>, <<Member("METHOD", "f"), Member("MEMBER", "x")>>,
   <<Member("MEMBER", "x"), Member("MEMBER", "y")>>}
UdtOf(l, n, u, ref, isScoped, isAnon) ==
  [leaf |-> l, name |-> n, uname |-> u, fwdref |-> ref, scoped |-> isScoped, anon |-> isAnon]
MCUdts ==
  {UdtOf("struct", "S", "none", FALSE, FALSE, FALSE), UdtOf("union", "S", "none", FALSE, FALSE, FALSE),
   UdtOf("enum", "s", "none", FALSE, FALSE, FALSE), UdtOf("struct", "S", "S@f", FALSE, TRUE, FALSE),
   UdtOf("struct", "S", "none", TRUE, FALSE, FALSE), UdtOf("struct", "?", "none", FALSE, FALSE, TRUE)}
\* The compiler's lines name a string, the linker's a name and a module.
MCUdtLines ==
  {[leaf |-> "UDT_SRC_LINE", type |-> t, src |-> s, line |-> s] : t, s \in {1, 2}}
  \cup {[leaf |-> "UDT_MOD_SRC_LINE", type |-> 1, src |-> s, line |-> s, imod |-> s] : s \in {1, 2}}

UD == INSTANCE UdtLines WITH
  FieldLists <- MCFieldLists, Udts <- MCUdts, Shapes <- {0}, Fold <- [S |-> 1, s |-> 1] @@ "S@f" :> 2,
  Lines <- MCUdtLines, Texts <- {<<"p">>, <<"q">>}, MaxSubs <- 2, Names <- << <<"n">> >>, Rooms <- {<<4, 0>>, <<0, 3>>},
  mode <- uMode, room <- uRoom, types <- uTypes, items <- uItems, told <- uTold

ASSUME ContentsAssumption ==
  /\ HashMapAssumption
  /\ NameMapAssumption /\ FormsApart
  /\ PagesAssumption
  /\ TypePoolAssumption
  /\ GS!ChainsAssumption

-----------------------------------------------------------------------------
AnyInit ==
  /\ part \in {"globals", "map", "names", "pages", "pool", "merge", "servers", "locator",
              "mismatches", "versions", "udts"}
  /\ Init
  /\ GS!Init /\ (part # "globals" => ~mini)
  /\ NmtInit /\ (part # "names" => nmt = NewNMT(1))
  /\ PagesInit /\ TypesInit /\ TM!Init
  /\ TS!Init /\ (part # "servers" => tsMode = "merge" /\ pdbs = MCPdbs0)
  /\ LO!Init /\ (part # "locator" => scene = Refusals)
  /\ MI!Init
  /\ VE!Init /\ (part # "versions" => vDisk.hdr.vers = "none")
  /\ UD!Init /\ (part # "udts" => uRoom[2] = 0) /\ (part # "udts" \/ uRoom[2] > 0 => uMode = "w")

AnyNext ==
  /\ UNCHANGED part
  /\ IF part = "map" THEN Next ELSE UNCHANGED vars
  /\ IF part = "globals" THEN GS!Next ELSE UNCHANGED gsVars
  /\ IF part = "names" THEN NmtNext ELSE UNCHANGED nmtVars
  /\ IF part = "pages" THEN PagesNext ELSE UNCHANGED pagesVars
  /\ IF part = "pool" THEN TypesNext ELSE UNCHANGED typeVars
  /\ IF part = "merge" THEN TM!Next ELSE UNCHANGED tmVars
  /\ IF part = "servers" THEN TS!Next ELSE UNCHANGED tsVars
  /\ IF part = "locator" THEN LO!Next ELSE UNCHANGED loVars
  /\ IF part = "mismatches" THEN MI!Next ELSE UNCHANGED miVars
  /\ IF part = "versions" THEN VE!Next ELSE UNCHANGED veVars
  /\ IF part = "udts" THEN UD!Next ELSE UNCHANGED udVars

AnySpec == AnyInit /\ [][AnyNext]_allVars

\* The type pool alone.
PoolSpec == part = "pool" /\ AnyInit /\ [][AnyNext]_allVars

-----------------------------------------------------------------------------
\* The parts of each property are stated where the component is; those of the hash map,
\* of the name map and of its pages are their modules' own.

\* TypePool: "the current type schema for a UDT" (tpi.h:476-478) is what the name stands
\* for in the next session too, however many definitions it has.
SchemaKept == part = "pool" => TypesKept

\* GlobalSyms: a record is in the table as often as modules refer to it, and a search
\* for a name gives every symbol of that name, of which there are the globals first and
\* one promoted constant or type, before and after a save.
GlobalsRight ==
  part = "globals" =>
    GS!CountsRight /\ GS!OthersKept /\ GS!LookupRight /\ GS!GlobalsFirst /\ GS!PromotedOnce /\ GS!SavedRight

\* UdtLines: what is written for the string of an id is the string, as the comment on
\* GetStringForId says.
StringRight == part = "udts" => UD!StringRight

\* TypePool: a name stands for the type it stood for at the commit.  TpiVersions: a pool
\* of any version gives the records that were put into it, and the next session can read
\* what one wrote.  UdtLines: a name stands for the definition given last, whose layout
\* edits keep, and has its line; the room that is made for the string of an id is the size
\* of the string.  TypeMerge: an object's index leads to the same type in the PDB, which is
\* there once and keeps its source line, and all who ask get one answer.  TypeServers: the
\* PDBs that types lead to are found, shared, given back and copied as modules need them.
\* Mismatches: the linker is told of each name that two new types define differently.
TypesRight ==
  /\ part = "pool" => TypesKept
  /\ part = "versions" => VE!TpiVersionsRight
  /\ part = "udts" => UD!UdtLinesRight /\ UD!SizeRight
  /\ part = "merge" =>
       TM!PackedRight /\ TM!MergedOnce /\ TM!AnswersAgree /\ TM!DefinitionsHaveLines
  /\ part = "servers" => TS!TypeServersRight
  /\ part = "mismatches" => MI!MismatchesRight

\* Locator: the PDB that is found for an image is its own and the nearest one, a client's
\* refusals and the caches' order are kept, and a failure is told.
LocatorRight == part = "locator" => LO!LocatorRight
=============================================================================
