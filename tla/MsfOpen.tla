------------------------------- MODULE MsfOpen -------------------------------
(* Opening a multistream file: by its name, when one process shares the MSF *)
(* of a file among all who open it, or in a stream of the client's; and its *)
(* stream table as it is stored, in the format of old files or of new ones. *)
(* A table is a sequence of units, of 2 bytes in an old file and of 4 in a   *)
(* new one, which may have been cut or changed since.                        *)
EXTENDS Integers, Sequences, SequencesExt, FiniteSets

CONSTANTS
  Paths,      \* names of files; several may name one file
  fileid,     \* the file of a name
  Tables,     \* streams that files have at first: [fmt, cbPg, st]
  Damages,    \* what may have happened to a file
  Uses,       \* names that clients use, and stream "stream", of which one file may be there at first
  cbPgs,      \* the sizes of pages of either format, in units
  snMax,      \* the number of streams of either format
  SnRoom,     \* streams there is room for at first, 5 in the code
  StPages,    \* the pages of stream tables and lists of pages that a header has room for
  Cbs,        \* sizes of streams that are written
  MaxHeld,    \* handles at a time
  MaxCommits, \* commits of a file
  MaxChanges  \* changes between two commits

VARIABLES
  uses,
  image,      \* what is in each file, NoImage if it is not there
  msfs,       \* the MSFs in memory
  s_mpOpenedMSF,
  handles,    \* what clients hold: the MSF, whether they may write, whether it is counted
  told,       \* what the last open returned, and what the file was: "whole", "full", "damaged"
  damage, kept \* ghosts: what happened to a file; the streams last committed

vars == <<uses, image, msfs, s_mpOpenedMSF, handles, told, damage, kept>>

Formats == {"small", "big"}
cbNil == -1
siNil == [cb |-> cbNil, pns |-> <<>>]
NoImage == [magic |-> "absent"]
NoRec == [refcount |-> 0]
StreamFile == "stream"
FileIds == {fileid[p] : p \in Paths}
MsfIds == 1 .. Cardinality(FileIds) + 1

\* cpnForCbLgCbPg, of a size in units.
cpnForCb(cb, cbPg) == IF cb = cbNil THEN 0 ELSE (cb + cbPg - 1) \div cbPg

-----------------------------------------------------------------------------
(* The stream table.                                                         *)

\* The number of streams takes two units of an old table, of which one is zero; a
\* stream takes four, its size and a pointer, in a new table one, its size.
HeadUnits(fmt) == IF fmt = "small" THEN 2 ELSE 1
SiUnits(fmt) == IF fmt = "small" THEN 4 ELSE 1

snMac(st) == LET used == {i \in DOMAIN st : st[i] # siNil}
             IN IF used = {} THEN 0 ELSE CHOOSE i \in used : \A j \in used : j <= i

\* internalSerializeSmallMsf and internalSerializeBigMsf.
SiOf(fmt, cb) ==
  IF fmt = "big" THEN <<cb>> ELSE IF cb = cbNil THEN <<cbNil, cbNil, 0, 0>> ELSE <<cb, 0, 0, 0>>
Serialized(fmt, st) ==
  LET sis == SubSeq(st, 1, snMac(st))
  IN (IF fmt = "small" THEN <<Len(sis), 0>> ELSE <<Len(sis)>>)
       \o FlattenSeq([i \in DOMAIN sis |-> SiOf(fmt, sis[i].cb)])
       \o FlattenSeq([i \in DOMAIN sis |-> sis[i].pns])

\* The sizes that a table of n streams has; two units make a number.
Carry == 1000
cbAt(fmt, u, i) ==
  IF fmt = "big" THEN u[1 + i]
  ELSE LET k == 2 + 4 * (i - 1)
       IN IF u[k + 1] = cbNil THEN cbNil ELSE u[k + 1] + Carry * u[k + 2]

\* Where the pages of stream i begin, and behind the last one where they end.
PnsAt(fmt, u, cbPg) ==
  LET at[i \in 1 .. u[1] + 1] ==
        IF i = 1 THEN HeadUnits(fmt) + u[1] * SiUnits(fmt)
        ELSE at[i - 1] + cpnForCb(cbAt(fmt, u, i - 1), cbPg)
  IN at

\* Mutant: what is left of the table after its streams is not looked at.
FitsOrLess(fmt, u, cbPg) ==
  /\ Len(u) >= HeadUnits(fmt)
  /\ u[1] < snMax[fmt]
  /\ HeadUnits(fmt) + u[1] * SiUnits(fmt) <= Len(u)
  /\ PnsAt(fmt, u, cbPg)[u[1] + 1] <= Len(u)

\* A table is whole whose sizes fit, and which they fill.
Fits(fmt, u, cbPg) ==
  /\ Len(u) >= HeadUnits(fmt)
  /\ u[1] < snMax[fmt]
  /\ HeadUnits(fmt) + u[1] * SiUnits(fmt) <= Len(u)
  /\ PnsAt(fmt, u, cbPg)[u[1] + 1] = Len(u)

\* The streams of a table; the array has room for some more.
WithRoom(st) == st \o [i \in 1 .. SnRoom - Len(st) |-> siNil]
Deserialized(fmt, u, cbPg) ==
  LET at == PnsAt(fmt, u, cbPg)
  IN WithRoom([i \in 1 .. u[1] |->
       [cb |-> cbAt(fmt, u, i), pns |-> SubSeq(u, at[i] + 1, at[i + 1])]])

-----------------------------------------------------------------------------
(* Opening.                                                                  *)

\* The pages a table is on, new ones at each commit.
TablePns(im) == [i \in 1 .. cpnForCb(im.cb, im.cbPg) |-> 100 + 10 * im.commits + i]

\* fValidHdr: either format, with a size of page that it has.
validCbPg(fmt, cbPg) == cbPg \in cbPgs[fmt]
ValidHdr(im) == im.magic \in Formats /\ validCbPg(im.magic, im.cbPg)

\* serializeFpm: a new file has its page map on page 1 or 2.
FpmVerdict(im) ==
  IF im.magic = "big" /\ im.pnFpm \notin {1, 2} THEN "FORMAT"
  ELSE IF "fpm" \in im.fails THEN "FILE_SYSTEM" ELSE "OK"

\* siStCreateSmallMsf and siStCreateBigMsf: of a new file the header has the pages of the
\* list of the table's pages, and room for so many.
ListPages(im) == cpnForCb(cpnForCb(im.cb, im.cbPg), im.cbPg)
TableVerdict(im) ==
  IF im.cb < 0 \/ (im.magic = "big" /\ ListPages(im) > StPages) THEN "CORRUPT"
  ELSE IF "table" \in im.fails THEN "FILE_SYSTEM"
  ELSE IF ~Fits(im.magic, im.units, im.cbPg) THEN "CORRUPT" ELSE "OK"

\* afterOpen and load; fails is what can't be read.
Verdict(im) ==
  IF "hdr" \in im.fails THEN "FILE_SYSTEM"
  ELSE IF ~ValidHdr(im) THEN "FORMAT"
  ELSE IF FpmVerdict(im) # "OK" THEN FpmVerdict(im) ELSE TableVerdict(im)

\* Mutant: the table's own entry is taken as it was stored.
AsStored(st, im) == st

\* The entry of the table's own stream, as stored, is the one before its commit.
WithOwnEntry(st, im) == [st EXCEPT ![1] = [cb |-> im.cb, pns |-> TablePns(im)]]

Loaded(im, file, fWrite) ==
  [file |-> file, fWrite |-> fWrite, fBigMsf |-> im.magic = "big", cbPg |-> im.cbPg,
   st |-> WithOwnEntry(Deserialized(im.magic, im.units, im.cbPg), im),
   pnFpm |-> IF im.pnFpm = 1 THEN 2 ELSE 1, commits |-> im.commits, changes |-> 0]

\* afterCreate: a new file has the new format, and a table without streams, of which the
\* commit makes one with its own.
NewMsf(file, cbPg) ==
  [file |-> file, fWrite |-> TRUE, fBigMsf |-> TRUE, cbPg |-> cbPg,
   st |-> WithRoom(<<>>), pnFpm |-> 1, commits |-> 0, changes |-> 0]

fmtOf(m) == IF m.fBigMsf THEN "big" ELSE "small"

Header(fmt, cbPg, pnFpm, u, commits) ==
  [magic |-> fmt, cbPg |-> cbPg, pnFpm |-> pnFpm, cb |-> Len(u), units |-> u, commits |-> commits,
   fails |-> {}]

\* Commit: the table goes to pages of its own, and the header leads to them.
Stored(m) ==
  Header(fmtOf(m), m.cbPg, m.pnFpm, Serialized(fmtOf(m), m.st), m.commits + 1)
Committed(m) ==
  LET im == Stored(m)
  IN [m EXCEPT !.st = WithOwnEntry(@, im), !.commits = @ + 1, !.pnFpm = IF @ = 1 THEN 2 ELSE 1,
               !.changes = 0]

UsersOf(st) == [i \in {i \in DOMAIN st : i > 1 /\ st[i] # siNil} |-> st[i]]

\* What may happen to a file outside of the program.
Damaged(im, how) ==
  CASE how = "none" -> im
    [] how \in {"hdr", "fpm", "table"} -> [im EXCEPT !.fails = {how}]
    [] how = "magic" -> [im EXCEPT !.magic = "other"]
    [] how = "page" -> [im EXCEPT !.cbPg = 0]
    [] how = "pnFpm" -> [im EXCEPT !.pnFpm = 3, !.fails = IF im.magic = "small" THEN {"fpm"} ELSE {}]
    [] how = "negative" -> [im EXCEPT !.cb = -2]
    [] how = "long" -> [im EXCEPT !.cb = 1000, !.fails = {"table"}]
    [] how = "cut" -> [im EXCEPT !.cb = @ - 1, !.units = Front(@)]
    [] how = "more" -> [im EXCEPT !.cb = @ + 1, !.units = Append(@, 7)]
    [] how = "one less" -> [im EXCEPT !.units[1] = (@ - 1) % Carry]
    [] how = "one more" -> [im EXCEPT !.units[1] = @ + 1]

-----------------------------------------------------------------------------
NoAnswer == [ec |-> "OK", file |-> "none"]
NoFun == [o \in {} |-> {}]

FileOf(p) == IF p = StreamFile THEN StreamFile ELSE fileid[p]
AllFiles == FileIds \cup {StreamFile}

Init ==
  /\ uses \in Uses
  /\ \E olds \in {{}} \cup {{FileOf(p)} : p \in uses}, t \in Tables, d \in Damages :
       LET im == Stored([fBigMsf |-> t.fmt = "big", cbPg |-> t.cbPg, st |-> t.st, pnFpm |-> 1, commits |-> 0])
       IN /\ image = [f \in AllFiles |-> IF f \in olds THEN Damaged(im, d) ELSE NoImage]
          /\ damage = [f \in AllFiles |-> IF f \in olds THEN d ELSE "none"]
          /\ kept = [f \in AllFiles |-> IF f \in olds THEN UsersOf(t.st) ELSE NoFun]
  /\ msfs = NoFun /\ s_mpOpenedMSF = [f \in FileIds |-> NoRec]
  /\ handles = <<>> /\ told = NoAnswer

NewId == CHOOSE o \in MsfIds : o \notin DOMAIN msfs
Made(o, m) == [q \in DOMAIN msfs \cup {o} |-> IF q = o THEN m ELSE msfs[q]]
Handle(o, fWrite, counted) == [msf |-> o, fWrite |-> fWrite, counted |-> counted]

\* What the file is that is opened; of the most streams there must be one less.
StateOf(f) ==
  IF damage[f] # "none" THEN "damaged"
  ELSE IF image[f] # NoImage /\ image[f].units[1] = snMax[image[f].magic] THEN "full"
  ELSE "whole"

Told(f, ec) == told' = [ec |-> ec, file |-> StateOf(f)]
Refused(f, ec) == Told(f, ec) /\ UNCHANGED <<image, msfs, s_mpOpenedMSF, handles, damage, kept>>

\* The one who has a new MSF, which is registered unless it is of a client's stream.
Given(o, f, fWrite) ==
  /\ handles' = Append(handles, Handle(o, fWrite, TRUE))
  /\ s_mpOpenedMSF' =
       IF f = StreamFile THEN s_mpOpenedMSF
       ELSE [s_mpOpenedMSF EXCEPT ![f] = [msf |-> o, fWrite |-> fWrite, refcount |-> 1]]
  /\ Told(f, "OK")

\* MSF::Open of a file that this process has open.  Who may not write may be let in, but
\* is not counted.
IsOpen(f) == s_mpOpenedMSF[f] # NoRec
OpenShared(f, fWrite, access) ==
  LET rec == s_mpOpenedMSF[f]
  IN /\ Told(f, IF fWrite /\ ~rec.fWrite THEN "ACCESS_DENIED" ELSE "OK")
     /\ IF fWrite /\ ~rec.fWrite
        THEN /\ handles' = IF access THEN Append(handles, Handle(rec.msf, FALSE, FALSE)) ELSE handles
             /\ UNCHANGED s_mpOpenedMSF
        ELSE /\ handles' = Append(handles, Handle(rec.msf, fWrite, TRUE))
             /\ s_mpOpenedMSF' = [s_mpOpenedMSF EXCEPT ![f].refcount = @ + 1]
     /\ UNCHANGED <<image, msfs, damage, kept>>

\* internalOpen and internalStreamOpen: a file that is there is loaded, else it is made.
Create(f, fWrite, cbPage) ==
  IF ~validCbPg("big", cbPage) THEN Refused(f, "page size")
  ELSE LET m == NewMsf(f, cbPage)
       IN /\ image' = [image EXCEPT ![f] = Stored(m)]
          /\ msfs' = Made(NewId, Committed(m))
          /\ Given(NewId, f, fWrite)
          /\ UNCHANGED <<damage, kept>>

LoadMsf(f, fWrite) ==
  IF Verdict(image[f]) # "OK" THEN Refused(f, Verdict(image[f]))
  ELSE /\ msfs' = Made(NewId, Loaded(image[f], f, fWrite))
       /\ Given(NewId, f, fWrite)
       /\ UNCHANGED <<image, damage, kept>>

Open(p, fWrite, access, cbPage) ==
  LET f == fileid[p]
  IN /\ Len(handles) < MaxHeld
     /\ IF image[f] = NoImage
        THEN IF fWrite THEN Create(f, TRUE, cbPage) ELSE Refused(f, "NOT_FOUND")
        ELSE IF IsOpen(f) THEN OpenShared(f, fWrite, access) ELSE LoadMsf(f, fWrite)

\* A stream that is empty becomes an MSF whether or not it is to be written.
OpenStream(fWrite, cbPage) ==
  /\ StreamFile \in uses /\ Len(handles) < MaxHeld
  /\ \A o \in DOMAIN msfs : msfs[o].file # StreamFile
  /\ IF image[StreamFile] = NoImage THEN Create(StreamFile, fWrite, cbPage) ELSE LoadMsf(StreamFile, fWrite)

Gone(o) == msfs' = [q \in DOMAIN msfs \ {o} |-> msfs[q]]

\* MSF_HB::Close, by one who is counted.
Close(k) ==
  LET o == handles[k].msf
      f == msfs[o].file
  IN /\ handles[k].counted
     /\ handles' = RemoveAt(handles, k)
     /\ IF f = StreamFile THEN Gone(o) /\ UNCHANGED s_mpOpenedMSF
        ELSE IF s_mpOpenedMSF[f].refcount > 1
        THEN s_mpOpenedMSF' = [s_mpOpenedMSF EXCEPT ![f].refcount = @ - 1] /\ UNCHANGED msfs
        ELSE s_mpOpenedMSF' = [s_mpOpenedMSF EXCEPT ![f] = NoRec] /\ Gone(o)
     /\ told' = NoAnswer
     /\ UNCHANGED <<image, damage, kept>>

\* One who is not counted forgets the MSF.
Forget(k) ==
  /\ ~handles[k].counted
  /\ handles' = RemoveAt(handles, k)
  /\ told' = NoAnswer
  /\ UNCHANGED <<image, msfs, s_mpOpenedMSF, damage, kept>>

\* snMinFree: a hole below the last stream, else one more place in the array.
Holes(st) == {i \in 2 .. snMac(st) : st[i] = siNil}
WithFree(m) ==
  LET hole == CHOOSE i \in Holes(m.st) : \A j \in Holes(m.st) : i <= j
      empty == [cb |-> 0, pns |-> <<>>]
  IN IF Holes(m.st) # {} THEN [m.st EXCEPT ![hole] = empty]
     ELSE IF Len(m.st) < snMax[fmtOf(m)] THEN Append(m.st, empty)
     ELSE m.st

PnsOf(m, i, cb) == [k \in 1 .. cpnForCb(cb, m.cbPg) |-> 10 * i + k + 5 * (m.commits % 2)]

Change(o, st) ==
  /\ msfs[o].changes < MaxChanges
  /\ msfs' = [msfs EXCEPT ![o].st = st, ![o].changes = @ + 1]
  /\ told' = NoAnswer
  /\ UNCHANGED <<image, s_mpOpenedMSF, handles, damage, kept>>

MayWrite(k) == handles[k].counted /\ handles[k].fWrite
GetFreeSn(k) == MayWrite(k) /\ Change(handles[k].msf, WithFree(msfs[handles[k].msf]))
ReplaceStream(k, i, cb) ==
  LET m == msfs[handles[k].msf]
  IN /\ MayWrite(k) /\ i \in DOMAIN UsersOf(m.st)
     /\ Change(handles[k].msf, [m.st EXCEPT ![i] = [cb |-> cb, pns |-> PnsOf(m, i, cb)]])
DeleteStream(k, i) ==
  LET m == msfs[handles[k].msf]
  IN /\ MayWrite(k) /\ i \in DOMAIN UsersOf(m.st)
     /\ Change(handles[k].msf, [m.st EXCEPT ![i] = siNil])

Commit(k) ==
  LET o == handles[k].msf
      m == msfs[o]
  IN /\ MayWrite(k) /\ m.commits < MaxCommits
     /\ image' = [image EXCEPT ![m.file] = Stored(m)]
     /\ msfs' = [msfs EXCEPT ![o] = Committed(m)]
     /\ kept' = [kept EXCEPT ![m.file] = UsersOf(m.st)]
     /\ told' = NoAnswer
     /\ UNCHANGED <<s_mpOpenedMSF, handles, damage>>

AnyOp ==
  \/ \E p \in Paths \cap uses, fWrite, access \in BOOLEAN, cbPage \in cbPgs["big"] \cup {0} :
       Open(p, fWrite, access, cbPage)
  \/ \E fWrite \in BOOLEAN, cbPage \in cbPgs["big"] \cup {0} : OpenStream(fWrite, cbPage)
  \/ \E k \in DOMAIN handles :
       \/ Close(k) \/ Forget(k) \/ GetFreeSn(k) \/ Commit(k)
       \/ \E i \in 2 .. snMax["small"] : DeleteStream(k, i) \/ \E cb \in Cbs : ReplaceStream(k, i, cb)
Next == AnyOp /\ UNCHANGED uses

-----------------------------------------------------------------------------
(* What is right of it.                                                      *)

\* A file that the program wrote can be opened again, unless it has the most streams, and a
\* file whose header or table was cut or changed can't.
OpensRight ==
  /\ told.file = "whole" => told.ec \in {"OK", "ACCESS_DENIED", "NOT_FOUND", "page size"}
  /\ told.file = "damaged" => told.ec # "OK"

\* The streams of an open MSF are those of the last commit until it is written, with the
\* pages they were on, and the table's own are those of the header, of either format.
TableRight ==
  \A o \in DOMAIN msfs :
    LET m == msfs[o]
    IN m.changes = 0 =>
         /\ UsersOf(m.st) = kept[m.file]
         /\ m.st[1] = [cb |-> Len(image[m.file].units), pns |-> TablePns(image[m.file])]
         /\ m.pnFpm # image[m.file].pnFpm

\* A file has one MSF, whatever names it was opened by, which is there for as long as those
\* who are counted hold it and no longer; who writes has one that can be written.
HoldersOf(o) == {k \in DOMAIN handles : handles[k].msf = o /\ handles[k].counted}
SharedRight ==
  /\ \A o, q \in DOMAIN msfs : msfs[o].file = msfs[q].file => o = q
  /\ \A k \in DOMAIN handles :
       handles[k].counted =>
         /\ handles[k].msf \in DOMAIN msfs
         /\ handles[k].fWrite => msfs[handles[k].msf].fWrite
  /\ \A o \in DOMAIN msfs :
       /\ HoldersOf(o) # {}
       /\ msfs[o].file # StreamFile =>
            LET rec == s_mpOpenedMSF[msfs[o].file]
            IN rec # NoRec /\ rec.msf = o /\ rec.refcount = Cardinality(HoldersOf(o))

MsfOpenRight == OpensRight /\ TableRight /\ SharedRight
=============================================================================
