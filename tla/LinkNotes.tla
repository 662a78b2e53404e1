----------------------------- MODULE LinkNotes -----------------------------
(* What a linker notes in a DBI beside symbols: the sections of the image,  *)
(* for each module that can be edited and continued the names of its source *)
(* and of its compiler's PDB, and the command line of the link itself, and  *)
(* how the substreams of the DBI are laid out and read again.               *)
EXTENDS Naturals, Sequences, SequencesExt, FiniteSets

CONSTANTS
  Mods,      \* modules, with the sizes of their MODI: [native, saved], in bytes
  Secs, MaxSecs,
  Texts, Fields, \* names, and what they name: niSrcFile, niPdbFile
  Infos,     \* command lines: [cch |-> characters, cb |-> their bytes in UTF-8]
  OldInfos,  \* those that old PDBs may have
  Topics     \* what a run is about

VARIABLES
  topic, old,   \* the PDB has an old format, and no one writes it
  mode,         \* the DBI: "none", or open as "r" or "w"
  bufSecMap,    \* [cSeg, segs]
  nmtEC,        \* the names, each at its index
  modis,        \* of each module whether there is one, ecInfo, fECEnabled
  seen,         \* of each module that is open for update fECSymSeen, "no" or "yes", else Closed
  link,         \* the stream /LinkInfo: [info, cb]
  linkHeld,     \* a call has it open exclusively and did not release it
  stream,       \* the DBI stream: what is in it, and where
  disk,         \* all of it at the last commit
  answer,       \* of the last query
  given,        \* ghost: what is noted by those who noted it
  failed        \* ghost: reading or converting failed

mem == <<bufSecMap, nmtEC, modis, seen>>
vars == <<topic, old, mode, mem, link, linkHeld, stream, disk, answer, given, failed>>

niNil == 0
Closed == "closed"
NoSecs == [cSeg |-> 0, segs |-> <<>>]
NoModi == [there |-> FALSE, ec |-> [f \in Fields |-> niNil], fECEnabled |-> FALSE]
NewModi == [NoModi EXCEPT !.there = TRUE]
NoInfo == [cch |-> 0, cb |-> 0]
NoLink == [info |-> NoInfo, cb |-> 0]
NoName == "none"
NoAnswer == [op |-> "none"]
NothingGiven == [secs |-> <<>>, names |-> [m \in Mods |-> [f \in Fields |-> NoName]],
                 ec |-> [m \in Mods |-> FALSE], info |-> NoInfo]

-----------------------------------------------------------------------------
\* The substreams in the order in which fSave appends and fInit reads them, with their sizes.
Parts == <<"modi", "sc", "secmap", "fileinfo", "ec", "dbg">>
cbSC == 4
cbFileInfo == 8
cbDbgHdr == 2
cbSecMap(s) == 8 + 20 * Len(s.segs)
cbEC(n) == 12 + 4 * Len(n)
There(ms) == {m \in Mods : ms[m].there}
SumOf(S, Size(_)) == FoldFunctionOnSet(+, 0, [m \in Mods |-> Size(m)], S)
cbNative(ms) == SumOf(There(ms), LAMBDA m : m.native)
cbSaved(ms) == SumOf(There(ms), LAMBDA m : m.saved)

Total(cbs) == FoldFunction(+, 0, cbs)
Offset(cbs, p) == FoldFunctionOnSet(+, 0, cbs, {q \in DOMAIN cbs : \E i, k \in DOMAIN Parts :
                                                  i < k /\ Parts[i] = q /\ Parts[k] = p})

\* fSave with fWriteModi: modules are written without their pointers, and then the header
\* again with the size that they have in the file.
cbGpModi(ms) == cbSaved(ms)
Written(secs, names, ms) ==
  LET real == [modi |-> cbSaved(ms), sc |-> cbSC, secmap |-> cbSecMap(secs),
               fileinfo |-> cbFileInfo, ec |-> cbEC(names), dbg |-> cbDbgHdr]
  IN [cbs |-> [real EXCEPT !.modi = cbGpModi(ms)], cb |-> Total(real),
      at |-> [p \in DOMAIN real |-> Offset(real, p)],
      secmap |-> secs, ec |-> names, modi |-> ms]

\* fInit: a stream that is not as long as its header says is refused; a writer starts
\* without sections.
Whole(w) == w.cb = Total(w.cbs)
Reads(w, p, none) == IF Offset(w.cbs, p) = w.at[p] THEN w[p] ELSE none
Loads(w, writes) ==
  /\ bufSecMap' = IF writes THEN NoSecs ELSE Reads(w, "secmap", NoSecs)
  /\ nmtEC' = Reads(w, "ec", <<>>)
  /\ modis' = w.modi

Nothing == Written(NoSecs, <<>>, [m \in Mods |-> NoModi])
Init ==
  /\ topic \in Topics /\ old \in BOOLEAN
  /\ \E i \in OldInfos \cup {NoInfo} :
       /\ ~old => i = NoInfo
       /\ link = [info |-> i, cb |-> i.cch]
       /\ given = [NothingGiven EXCEPT !.info = i]
  /\ mode = "none" /\ bufSecMap = NoSecs /\ nmtEC = <<>>
  /\ modis = [m \in Mods |-> NoModi] /\ seen = [m \in Mods |-> Closed]
  /\ linkHeld = FALSE /\ stream = Nothing
  /\ disk = [link |-> link, stream |-> stream, given |-> given]
  /\ answer = NoAnswer /\ failed = FALSE

-----------------------------------------------------------------------------
\* PDB1::CreateDBI and OpenDBI, clearDBI: the modules of an old DBI go, which is committed
\* at once, and then the command line; its names stay.
Open(m) ==
  /\ mode = "none" /\ ~linkHeld /\ (old => m = "r") /\ Whole(stream)
  /\ mode' = (IF m = "create" THEN "w" ELSE m)
  /\ IF m = "create"
     THEN /\ nmtEC' = Reads(stream, "ec", <<>>) /\ bufSecMap' = NoSecs
          /\ modis' = [x \in Mods |-> NoModi] /\ link' = NoLink /\ given' = NothingGiven
          /\ disk' = [disk EXCEPT !.stream = Nothing, !.given = [NothingGiven EXCEPT !.info = disk.given.info]]
     ELSE /\ Loads(stream, m = "w") /\ UNCHANGED <<link, disk>>
          /\ given' = IF m = "w" THEN [given EXCEPT !.secs = <<>>] ELSE given
  /\ answer' = NoAnswer
  /\ UNCHANGED <<topic, old, seen, linkHeld, stream, failed>>

\* DBI1::fSave, and the commit of the PDB; or neither.
Leave(saves) ==
  /\ mode # "none" /\ \A m \in Mods : seen[m] = Closed
  /\ saves => mode = "w"
  /\ mode' = "none" /\ answer' = NoAnswer
  /\ bufSecMap' = NoSecs /\ nmtEC' = <<>> /\ modis' = [m \in Mods |-> NoModi]
  /\ IF saves
     THEN /\ stream' = Written(bufSecMap, nmtEC, modis)
          /\ disk' = [link |-> link, stream |-> stream', given |-> given]
          /\ UNCHANGED <<link, given>>
     ELSE stream' = disk.stream /\ link' = disk.link /\ given' = disk.given /\ UNCHANGED disk
  /\ linkHeld' = FALSE
  /\ UNCHANGED <<topic, old, seen, failed>>

\* DBI1::AddSec, and QuerySecMap for a buffer of cb bytes.
AddSec(s) ==
  /\ topic = "secs" /\ mode = "w" /\ Len(bufSecMap.segs) < MaxSecs
  /\ bufSecMap' = [cSeg |-> bufSecMap.cSeg + 1, segs |-> Append(bufSecMap.segs, s)]
  /\ given' = [given EXCEPT !.secs = Append(@, s)] /\ answer' = NoAnswer
  /\ UNCHANGED <<topic, old, mode, nmtEC, modis, seen, link, linkHeld, stream, disk, failed>>
QuerySecMap(cb) ==
  /\ topic = "secs" /\ mode # "none" /\ cb >= cbSecMap(bufSecMap)
  /\ answer' = [op |-> "secs", map |-> bufSecMap]
  /\ UNCHANGED <<topic, old, mode, mem, link, linkHeld, stream, disk, given, failed>>

-----------------------------------------------------------------------------
\* A module is opened for update, its compiler's records are added, and it is closed.
OpenMod(m) ==
  /\ topic = "ec" /\ mode = "w" /\ seen[m] = Closed
  /\ modis' = [modis EXCEPT ![m] = IF @.there THEN @ ELSE NewModi]
  /\ seen' = [seen EXCEPT ![m] = "no"] /\ answer' = NoAnswer
  /\ UNCHANGED <<topic, old, mode, bufSecMap, nmtEC, link, linkHeld, stream, disk, given, failed>>

\* DBI1::setSrcForImod, setPdbForImod: a name that is there is found, and else added.
IndexOf(names, t) == CHOOSE i \in 1 .. Len(names) + 1 : i > Len(names) \/ names[i] = t
WithName(names, t) == IF t \in ToSet(names) THEN names ELSE Append(names, t)
SetName(m, f, t) ==
  /\ nmtEC' = WithName(nmtEC, t)
  /\ modis' = [modis EXCEPT ![m].ec[f] =
                 IF @ # niNil /\ nmtEC[@] = t THEN @ ELSE IndexOf(nmtEC, t)]

\* Mod1::fProcessSym: S_COMPILE2 or S_ENVBLOCK with a name.
NamedCompiler(m, ec, f, t) ==
  /\ topic = "ec" /\ seen[m] # Closed
  /\ SetName(m, f, t)
  /\ seen' = [seen EXCEPT ![m] = ec]
  /\ given' = [given EXCEPT !.names[m][f] = t] /\ answer' = NoAnswer
  /\ UNCHANGED <<topic, old, mode, bufSecMap, link, linkHeld, stream, disk, failed>>

\* S_COMPILE3, and the others without names: the last one says what the module can.
Compiler(m, ec) ==
  /\ topic = "ec" /\ seen[m] # Closed
  /\ seen' = [seen EXCEPT ![m] = ec] /\ answer' = NoAnswer
  /\ UNCHANGED <<topic, old, mode, bufSecMap, nmtEC, modis, link, linkHeld, stream, disk, given,
                 failed>>

\* Mod1::fCommit.
CloseMod(m) ==
  /\ topic = "ec" /\ seen[m] # Closed
  /\ modis' = [modis EXCEPT ![m].fECEnabled = (seen[m] = "yes")]
  /\ given' = [given EXCEPT !.ec[m] = (seen[m] = "yes")]
  /\ seen' = [seen EXCEPT ![m] = Closed] /\ answer' = NoAnswer
  /\ UNCHANGED <<topic, old, mode, bufSecMap, nmtEC, link, linkHeld, stream, disk, failed>>

\* DBI1::srcForImod, pdbForImod.
NameOf(m, f) ==
  LET ni == modis[m].ec[f]
  IN IF ~modis[m].fECEnabled \/ ni \notin DOMAIN nmtEC THEN NoName ELSE nmtEC[ni]
QueryName(m, f) ==
  /\ topic = "ec" /\ mode # "none" /\ modis[m].there
  /\ answer' = [op |-> "name", mod |-> m, field |-> f, name |-> NameOf(m, f)]
  /\ UNCHANGED <<topic, old, mode, mem, link, linkHeld, stream, disk, given, failed>>

-----------------------------------------------------------------------------
\* DBI1::GetUTF8LinkInfo, and its size as the client's string has it.
UTF8(i) == i.cb
Unicode(i) == 2 * i.cch

\* DBI1::AddLinkInfo, and AddLinkInfoW, which writes as many bytes as it was given.
AddLinkInfo(i, wide) ==
  /\ topic = "link" /\ mode = "w" /\ ~linkHeld
  /\ link' = [info |-> i, cb |-> IF wide THEN Unicode(i) ELSE UTF8(i)]
  /\ given' = [given EXCEPT !.info = i] /\ answer' = NoAnswer
  /\ UNCHANGED <<topic, old, mode, mem, linkHeld, stream, disk, failed>>

\* DBI1::QueryLinkInfo into a buffer of cb bytes: what is too long is not read, and its
\* length told.  Old PDBs have the client's characters.
cbTold == IF old THEN UTF8(link.info) ELSE link.cb
QueryLinkInfo(cb) ==
  /\ topic = "link" /\ mode # "none" /\ ~linkHeld
  /\ answer' = [op |-> "link", fits |-> cb >= cbTold, cb |-> cbTold, info |-> link.info]
  /\ UNCHANGED <<topic, old, mode, mem, link, linkHeld, stream, disk, given, failed>>

\* To read or convert the one of an old PDB may fail: the stream is not released.
QueryLinkInfoFails ==
  /\ topic = "link" /\ mode # "none" /\ ~linkHeld /\ old
  /\ linkHeld' = TRUE /\ failed' = TRUE /\ answer' = NoAnswer
  /\ UNCHANGED <<topic, old, mode, mem, link, stream, disk, given>>

Sizes == {0, 1} \cup {UTF8(i) : i \in Infos \cup OldInfos}
Next ==
  \/ \E m \in {"r", "w", "create"} : Open(m)
  \/ \E saves \in BOOLEAN : Leave(saves)
  \/ \E s \in Secs : AddSec(s)
  \/ \E n \in 0 .. MaxSecs : QuerySecMap(8 + 20 * n)
  \/ \E m \in Mods : OpenMod(m) \/ CloseMod(m)
  \/ \E m \in Mods, ec \in {"no", "yes"}, f \in Fields, t \in Texts : NamedCompiler(m, ec, f, t)
  \/ \E m \in Mods, ec \in {"no", "yes"} : Compiler(m, ec)
  \/ \E m \in Mods, f \in Fields : QueryName(m, f)
  \/ \E i \in Infos, wide \in BOOLEAN : AddLinkInfo(i, wide)
  \/ \E cb \in Sizes : QueryLinkInfo(cb)
  \/ QueryLinkInfoFails

Spec == Init /\ [][Next]_vars

-----------------------------------------------------------------------------
\* The section map has the sections that the last linker added, and says how many.
SecsRight ==
  answer.op = "secs" => answer.map.cSeg = Len(answer.map.segs) /\ answer.map.segs = given.secs

\* A module that its last compiler can edit and continue has the names that it was given
\* last, another has none, in every later session too.
NamesRight ==
  answer.op = "name" /\ seen[answer.mod] = Closed =>
    answer.name = IF given.ec[answer.mod] THEN given.names[answer.mod][answer.field] ELSE NoName

\* The command line that is told is the last one, and all of it unless it was given as
\* Unicode with characters of three bytes (AddLinkInfoW); what is told of its size suffices.
LinkRight ==
  answer.op = "link" =>
    /\ answer.info = given.info
    /\ answer.fits /\ answer.info # NoInfo =>
         answer.cb >= UTF8(answer.info) \/ UTF8(answer.info) > Unicode(answer.info)

\* No call waits for the command line forever unless it could not be read before.
NotStuck == linkHeld => failed /\ old

\* What is saved can be opened again (DBI1::fInit compares the sizes).
Reopens == Whole(stream)

LinkNotesRight == Reopens /\ SecsRight /\ NamesRight /\ LinkRight /\ NotStuck
=============================================================================
