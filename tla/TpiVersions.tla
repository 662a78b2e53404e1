---------------------------- MODULE TpiVersions ----------------------------
(***************************************************************************)
(* A type pool of any version: what the TPI1 of PDB/dbi/tpi.cpp makes of    *)
(* the header it finds, when and in what form it reads the records, which   *)
(* hash values it believes, and what a commit leaves for the next session.  *)
(*                                                                         *)
(*  - A record is a type and the form it is written in: with 16-bit type    *)
(*    indices, with names that have their length in front ("st"), or as     *)
(*    the current version has it ("sz").  It is one unit of its stream.     *)
(*  - The hash stream holds a hash value of each type and the <TI, OFF>     *)
(*    pairs; hash adjusters and the order of a chain are in TypePool.       *)
(*  - The PDB lets a writer in: it is in an IStream, or was made by the     *)
(*    deprecated version of VC70.                                           *)
(*  - Of a stream is known whether it is whole: a damaged one isn't, also    *)
(*    when it is written to, nor one whose records are yet to be written.   *)
(*  - Memory and type indices suffice, and writes do not fail.              *)
(***************************************************************************)
EXTENDS Integers, SequencesExt

CONSTANTS
  Types,        \* the types
  Udts,         \* those of them that are definitions under a name
  NameBucket,   \* the bucket of each name
  Bucket,       \* the bucket of a record, for a hash function, a form and a type
  Images,       \* the pools that are on the disk at first, and the types that were put in them
  Modes,        \* how a pool is opened: fWrite, fGetTi, all if the records are read ahead, and
                \* mini for a mini PDB's
  MaxTypes

VARIABLES
  disk,         \* the pool's streams as they were committed
  strm,         \* as they are in the session
  mode,         \* how the pool is open
  fInitd,
  pool,         \* what is in memory: the header, the record and the bucket of each type
                \* index, bufTiOff, fEnableQueryTiForUdt, and what fLoadTiOff found
  dirty,        \* what of poolRec isn't committed
  newHash,      \* what of bufMapHash isn't
  corrupt,      \* the PDB's last error is that it is corrupt
  told,         \* what the last call returned
  types,        \* the types that were put into the pool, by type index
  kept          \* and those of the pool on the disk

vars == <<disk, strm, mode, fInitd, pool, dirty, newHash, corrupt, told, types, kept>>

-----------------------------------------------------------------------------
(* Versions.                                                               *)

\* The versions before one.
Older ==
  LET v40 == {"VC2"}  v41 == v40 \cup {"v40"}  interim == v41 \cup {"v41"}
      v50 == interim \cup {"v50Interim"}  v70 == v50 \cup {"v50"}
  IN [v40 |-> v40, v41 |-> v41, v50Interim |-> interim, v50 |-> v50, v70 |-> v70]
Before(h, v) == h.vers \in Older[v]

NoRec == [type |-> "none", form |-> "none"]
Closed == [open |-> FALSE]
NoPool == [vers |-> "none"]
hdrNew == [vers |-> "v80", shape |-> "v8", tiMac |-> 0, cbGprec |-> 0, sn |-> FALSE,
           nhash |-> 0, ntioff |-> 0]

\* acslValidateHdr.  The shape is the size of a hash value and the number of buckets.
acslValidateHdr(h) ==
  CASE h.vers = "v80" -> IF h.shape = "v8" THEN "ReadWrite" ELSE "None"
    [] h.vers \in {"v70", "v50"} -> IF h.shape = "v7" THEN "ReadWrite" ELSE "None"
    [] h.vers = "v50Interim" -> "ReadWriteConvert"
    [] h.vers \in {"v41", "v40", "VC2"} -> "Read"
    [] OTHER -> "None"
HashFn(h) == IF h.vers = "v80" THEN "hashBufv8" ELSE "hashBuf"

\* Of an old header the current one: the pairs are what follows the hash values.
Normal(d) ==
  LET h == d.hdr IN
  IF Before(h, "v50")
  THEN [h EXCEPT !.shape = "v7", !.nhash = h.tiMac,
                 !.ntioff = IF h.sn THEN Len(d.hash) - h.tiMac ELSE 0]
  ELSE h

\* Mutant: version 5.0 has the names of the current one.
ConvertedLater(v, r) == IF v = "v70" /\ r.form = "st" THEN [r EXCEPT !.form = "sz"] ELSE r

\* fInitTiToPrecMap converts the names in the records of version 5.0 ...
Converted(v, r) == IF v = "v50" /\ r.form = "st" THEN [r EXCEPT !.form = "sz"] ELSE r
\* ... and precForTi records with 16-bit indices when they are asked for.
Widened(r) == IF r.form = "16" THEN [r EXCEPT !.form = "sz"] ELSE r

\* A record with old names isn't taken for a definition.
hashBuf(h, r) == Bucket[HashFn(h), r.form, r.type]
hashPrec(h, r) == IF r.form = "sz" /\ r.type \in Udts THEN NameBucket[r.type] ELSE hashBuf(h, r)

-----------------------------------------------------------------------------
(* fInitReally.                                                            *)

Least(m, n) == IF m < n THEN m ELSE n
Part(s, first, n) == SubSeq(s, first, Least(first + n - 1, Len(s)))
HashVals(h, d) == Part(d.hash, 1, h.nhash)
TiOffs(h, d) == Part(d.hash, h.nhash + 1, h.ntioff)

LoadsTiOff(h) == ~Before(h, "v40") /\ h.sn
fLoadTiOff(h, d) ==
  IF ~LoadsTiOff(h) THEN "OK"
  ELSE IF d.ragged THEN "CORRUPT"
  ELSE IF Len(TiOffs(h, d)) < h.ntioff THEN "FILE_SYSTEM" ELSE "OK"

ReadsAll(h, m) == Before(h, "v70") \/ m.all
fInitTiToPrecMap(h, m, d) ==
  IF ~ReadsAll(h, m) THEN "OK"
  ELSE IF Len(d.recs) < h.cbGprec THEN "FILE_SYSTEM"
  ELSE IF h.tiMac > h.cbGprec THEN "CORRUPT"
  ELSE IF h.vers = "v50" /\ \E i \in 1 .. h.tiMac : d.recs[i].form = "odd" THEN "FORMAT"
  ELSE "OK"
RecsRead(h, m, d) ==
  [ti \in 1 .. h.tiMac |-> IF ReadsAll(h, m) THEN Converted(h.vers, d.recs[ti]) ELSE NoRec]

\* Mutant: what the stream says is believed of every version.
HashesStored(h, m, d) == [ti \in DOMAIN HashVals(h, d) |-> HashVals(h, d)[ti].b]

\* The hash values of a pool before version 7.0 are of its records in memory.
Hashes(h, m, d) ==
  IF Before(h, "v70")
  THEN [ti \in 1 .. h.tiMac |-> hashPrec(h, Widened(RecsRead(h, m, d)[ti]))]
  ELSE [ti \in DOMAIN HashVals(h, d) |-> HashVals(h, d)[ti].b]

HasUdts(h, m) == ~Before(h, "v41") \/ m.fWrite
GetsTi(h, m) == m.fGetTi \/ HasUdts(h, m)
MakesChains(h, m) == GetsTi(h, m) /\ h.sn /\ h.nhash # 0
fInitHashToPchnMap(h, m, d) ==
  IF ~MakesChains(h, m) THEN "OK"
  ELSE IF h.nhash < 0 THEN "CORRUPT"
  ELSE IF Len(HashVals(h, d)) < h.nhash THEN "FILE_SYSTEM"
  ELSE IF \E ti \in 1 .. h.tiMac : Hashes(h, m, d)[ti] < 0 THEN "CORRUPT" ELSE "OK"

InitVerdict(h, m, d) ==
  IF fLoadTiOff(h, d) # "OK" THEN fLoadTiOff(h, d)
  ELSE IF fInitTiToPrecMap(h, m, d) # "OK" THEN fInitTiToPrecMap(h, m, d)
  ELSE fInitHashToPchnMap(h, m, d)

\* A pool before version 7.0 counts as one of 7.0 when its chains are made.
Upgraded(h, m) == IF Before(h, "v70") /\ GetsTi(h, m) THEN [h EXCEPT !.vers = "v70"] ELSE h

ForEach(h, x) == [ti \in 1 .. h.tiMac |-> x]
Unread(h, ec) ==
  [ec |-> ec, hdr |-> h, recs |-> ForEach(h, NoRec), chain |-> ForEach(h, -1), tioff |-> <<>>,
   udts |-> TRUE, clean |-> [cTiOff |-> 0, tiMac |-> 0, cb |-> 0]]

fInitReally(h, m, d) ==
  IF InitVerdict(h, m, d) # "OK" THEN Unread(h, InitVerdict(h, m, d))
  ELSE LET pairs == IF LoadsTiOff(h) THEN TiOffs(h, d) ELSE <<>> IN
       [ec |-> "OK", hdr |-> Upgraded(h, m), recs |-> RecsRead(h, m, d),
        chain |-> IF MakesChains(h, m) THEN Part(Hashes(h, m, d), 1, h.tiMac) ELSE ForEach(h, -1),
        tioff |-> pairs, udts |-> HasUdts(h, m),
        clean |-> [cTiOff |-> Len(pairs), tiMac |-> h.tiMac, cb |-> h.cbGprec]]

\* fInit, whose result is remembered.
fInit == IF fInitd THEN pool ELSE fInitReally(pool.hdr, mode, strm)

-----------------------------------------------------------------------------
(* Opening.                                                                *)

Opens(m, s, init) ==
  /\ mode' = m /\ pool' = s /\ fInitd' = init
  /\ newHash' = <<>>
  /\ told' = [what |-> "opened"]
Refused(ec) ==
  /\ told' = [what |-> "refused", ec |-> ec]
  /\ UNCHANGED <<strm, mode, pool, fInitd, dirty, newHash, types>>

\* fCreate; the writer of a mini PDB starts over.
fCreate(m) ==
  /\ strm' = [hdr |-> hdrNew, recs |-> <<>>, hash |-> <<>>, ragged |-> FALSE, whole |-> "yes"]
  /\ Opens(m, fInitReally(hdrNew, m, strm'), TRUE)
  /\ dirty' = <<>> /\ types' = <<>>

\* Mutant: the header counts the records that will be written once more.
StillCounted(s) == [s EXCEPT !.clean.cb = 0]

NoneCounted(s) == [s EXCEPT !.hdr.cbGprec = 0, !.clean.cb = 0]

\* fLoad: a reader initializes when it is asked, a writer at once.  For a writer a pool
\* of the interim version becomes a header, and all of its records are new ones.
fLoad(m) ==
  LET acsl == acslValidateHdr(strm.hdr)
      h == Normal(strm)
      s == fInitReally(h, m, strm) IN
  IF acsl = "None" \/ (m.fWrite /\ acsl = "Read") THEN Refused("FORMAT")
  ELSE IF ~m.fWrite
  THEN Opens(m, Unread(h, "OK"), FALSE) /\ dirty' = <<>> /\ UNCHANGED <<strm, types>>
  ELSE IF s.ec # "OK" THEN Refused(s.ec)
  ELSE IF acsl = "ReadWriteConvert"
  THEN /\ Opens(m, NoneCounted(s), TRUE)
       /\ dirty' = s.recs
       /\ strm' = [strm EXCEPT !.hdr = NoneCounted(s).hdr, !.recs = <<>>, !.whole = "soon"]
       /\ UNCHANGED types
  ELSE Opens(m, s, TRUE) /\ dirty' = <<>> /\ UNCHANGED <<strm, types>>

fOpen(m) ==
  /\ ~mode.open
  /\ IF strm.hdr = NoPool THEN IF m.fWrite THEN fCreate(m) ELSE Refused("none")
     ELSE IF ~m.mini THEN fLoad(m)
     ELSE IF acslValidateHdr(strm.hdr) = "ReadWrite" THEN fCreate(m) ELSE Refused("FORMAT")
  /\ UNCHANGED <<disk, corrupt, kept>>

-----------------------------------------------------------------------------
(* Records.                                                                *)

\* fLoadRecBlk: the pairs tell the block of a type index, whose records are read.
PairOf(s, ti) ==
  LET at == {i \in 1 .. s.clean.cTiOff - 1 : s.tioff[i].ti <= ti /\ ti < s.tioff[i + 1].ti}
  IN IF at = {} THEN s.clean.cTiOff ELSE CHOOSE i \in at : \A j \in at : i <= j
Block(s, ti) ==
  LET i == PairOf(s, ti)
      last == i = s.clean.cTiOff
  IN [ti |-> s.tioff[i].ti, off |-> s.tioff[i].off,
      tiMac |-> IF last THEN s.clean.tiMac + 1 ELSE s.tioff[i + 1].ti,
      end |-> IF last THEN s.clean.cb ELSE s.tioff[i + 1].off]
CanLoad(b, d) == b.end <= Len(d.recs) /\ b.ti >= 1 /\ b.tiMac - b.ti <= b.end - b.off
RecsLoaded(s, b, d) ==
  [t \in DOMAIN s.recs |->
     IF b.ti <= t /\ t < b.tiMac THEN d.recs[b.off + 1 + t - b.ti] ELSE s.recs[t]]

\* precForTi: can a record be had, and what is in memory then?
Had(s, ti, d) ==
  /\ ti \in DOMAIN s.recs
  /\ s.recs[ti] # NoRec \/ (s.clean.cTiOff > 0 /\ CanLoad(Block(s, ti), d))
precForTi(s, ti, d) ==
  LET r == IF s.recs[ti] # NoRec THEN s.recs ELSE RecsLoaded(s, Block(s, ti), d)
  IN [s EXCEPT !.recs = [r EXCEPT ![ti] = Widened(@)]]

\* What fails when a record can't be had.
Failure(s, ti, d) ==
  IF s.clean.cTiOff > 0 /\ Block(s, ti).end > Len(d.recs) THEN "FILE_SYSTEM" ELSE "CORRUPT"
Fails(ec) == corrupt' = (ec = "CORRUPT")

\* QueryPbCVRecordForTi
QueryPbCVRecordForTi(ti) ==
  LET s == fInit IN
  /\ mode.open
  /\ fInitd' = TRUE
  /\ IF s.ec = "OK" /\ Had(s, ti, strm)
     THEN /\ pool' = precForTi(s, ti, strm)
          /\ told' = [what |-> "record", ti |-> ti, rec |-> pool'.recs[ti]]
          /\ UNCHANGED corrupt
     ELSE /\ pool' = s /\ told' = [what |-> "no record", ti |-> ti]
          /\ IF s.ec = "OK" /\ ti \in DOMAIN s.recs THEN Fails(Failure(s, ti, strm))
             ELSE UNCHANGED corrupt
  /\ UNCHANGED <<disk, strm, mode, dirty, newHash, types, kept>>

\* The search of a chain, from the newest type on, comes to one or to a record that can't
\* be had.
Given(type) == [type |-> type, form |-> "sz"]
ByName(s, type) == s.udts /\ type \in Udts
GivenBucket(s, type) ==
  IF s.udts THEN hashPrec(s.hdr, Given(type)) ELSE hashBuf(s.hdr, Given(type))
TheLast(tis) == IF tis = {} THEN 0 ELSE CHOOSE t \in tis : \A u \in tis : u <= t
InChain(s, b) == {ti \in DOMAIN s.chain : s.chain[ti] = b}
Lost(s, b, d) == TheLast({ti \in InChain(s, b) : ~Had(s, ti, d)})
Found(s, b, type, d) ==
  TheLast({ti \in InChain(s, b) :
             ti > Lost(s, b, d) /\ precForTi(s, ti, d).recs[ti] = Given(type)})
Stopped(s, b, type, d) == Found(s, b, type, d) = 0 /\ Lost(s, b, d) # 0

\* RecordTiOff; a pair is due at every second record.
RecordTiOff(pairs, ti, off) ==
  IF pairs = <<>> \/ Last(pairs).off \div 2 < off \div 2
  THEN Append(pairs, [ti |-> ti, off |-> off]) ELSE pairs

AddNewTypeRecord(s, type) ==
  LET ti == Len(s.recs) + 1
      b == hashPrec(s.hdr, Given(type)) IN
  /\ ti <= MaxTypes
  /\ pool' = [s EXCEPT !.hdr.tiMac = ti, !.recs = Append(@, Given(type)),
                       !.chain = Append(@, b), !.tioff = RecordTiOff(@, ti, ti - 1)]
  /\ dirty' = Append(dirty, Given(type)) /\ newHash' = Append(newHash, [b |-> b])
  /\ types' = Append(types, type)
  /\ told' = [what |-> "ti", type |-> type, ti |-> ti]

\* QueryTiForCVRecord of a client that may ask for type indices.  Only the search for a
\* definition gives up at a record that can't be had; a writer adds what wasn't found,
\* unless the PDB is known to be corrupt.
QueryTiForCVRecord(type) ==
  LET s == fInit
      b == GivenBucket(s, type)
      found == Found(s, b, type, strm)
      stopped == Stopped(s, b, type, strm) IN
  /\ mode.open /\ GetsTi(pool.hdr, mode)
  /\ fInitd' = TRUE
  /\ IF s.ec = "OK" /\ stopped THEN Fails(Failure(s, Lost(s, b, strm), strm)) ELSE UNCHANGED corrupt
  /\ IF s.ec = "OK" /\ found = 0 /\ mode.fWrite /\ ~corrupt' /\ ~(stopped /\ ByName(s, type))
     THEN AddNewTypeRecord(s, type)
     ELSE /\ pool' = s
          /\ told' = IF s.ec # "OK" \/ stopped \/ (found = 0 /\ corrupt') THEN [what |-> "failed"]
                     ELSE [what |-> "ti", type |-> type, ti |-> found]
          /\ UNCHANGED <<dirty, newHash, types>>
  /\ UNCHANGED <<disk, strm, mode, kept>>

\* QueryTiForUDT
QueryTiForUDT(type) ==
  LET s == fInit
      b == NameBucket[type]
      stopped == Stopped(s, b, type, strm) IN
  /\ mode.open
  /\ fInitd' = TRUE /\ pool' = s
  /\ IF s.ec = "OK" /\ s.udts /\ stopped THEN Fails(Failure(s, Lost(s, b, strm), strm))
     ELSE UNCHANGED corrupt
  /\ told' = IF s.ec # "OK" \/ ~s.udts \/ stopped THEN [what |-> "failed"]
             ELSE [what |-> "ti", type |-> type, ti |-> Found(s, b, type, strm)]
  /\ UNCHANGED <<disk, strm, mode, dirty, newHash, types, kept>>

-----------------------------------------------------------------------------
(* Commits.                                                                *)

\* fCommit: the records that are new, the hash values that are, and all of the pairs.
Written == [yes |-> "yes", soon |-> "yes", no |-> "mended", mended |-> "mended"]
NewHdr ==
  [pool.hdr EXCEPT !.cbGprec = @ + Len(dirty), !.sn = TRUE, !.nhash = pool.hdr.tiMac,
                   !.ntioff = Len(pool.tioff)]
fCommit ==
  /\ mode.open /\ mode.fWrite
  /\ pool' = [pool EXCEPT !.hdr = NewHdr]
  /\ strm' = [strm EXCEPT
                !.hdr = NewHdr, !.recs = @ \o dirty, !.whole = Written[@],
                !.hash = (IF pool.hdr.sn THEN Part(@, 1, pool.hdr.nhash) ELSE <<>>)
                           \o newHash \o pool.tioff]
  /\ dirty' = <<>> /\ newHash' = <<>>
  /\ told' = [what |-> "committed"]
  /\ UNCHANGED <<disk, mode, fInitd, corrupt, types, kept>>

\* The client commits the PDB.
CommitPdb ==
  /\ mode.open /\ mode.fWrite
  /\ disk' = [strm EXCEPT !.whole = IF @ = "soon" THEN "no" ELSE @]
  /\ kept' = Part(types, 1, strm.hdr.tiMac)
  /\ told' = [what |-> "committed"]
  /\ UNCHANGED <<strm, mode, fInitd, pool, dirty, newHash, corrupt, types>>

\* The client gives the PDB up; the next session sees what was committed.
NoSession == [hdr |-> NoPool]
Close ==
  /\ mode.open
  /\ mode' = Closed /\ pool' = NoSession /\ fInitd' = FALSE
  /\ dirty' = <<>> /\ newHash' = <<>> /\ corrupt' = FALSE
  /\ strm' = disk /\ types' = kept
  /\ told' = [what |-> "none"]
  /\ UNCHANGED <<disk, kept>>

Init ==
  /\ \E im \in Images : disk = im.streams /\ kept = im.types
  /\ strm = disk /\ types = kept
  /\ mode = Closed /\ pool = NoSession /\ fInitd = FALSE
  /\ dirty = <<>> /\ newHash = <<>> /\ corrupt = FALSE
  /\ told = [what |-> "none"]

Next ==
  \/ \E m \in Modes : fOpen(m)
  \/ \E ti \in 1 .. MaxTypes : QueryPbCVRecordForTi(ti)
  \/ \E t \in Types : QueryTiForCVRecord(t)
  \/ \E t \in Udts : QueryTiForUDT(t)
  \/ fCommit \/ CommitPdb \/ Close

Spec == Init /\ [][Next]_vars

-----------------------------------------------------------------------------
(* Properties.                                                             *)

\* The interim version's records are never converted, and a writer leaves those of
\* version 5.0 as they were under a header of 7.0: what is said of answers is not of these.
Readable ==
  /\ strm.hdr.vers \in {"VC2", "v40", "v41", "v50"} \/ \A r \in ToSet(strm.recs) : r.form = "sz"
  /\ \A r \in ToSet(dirty) : r.form = "sz"

\* Whatever the version, a client gets the record that was put under its type index,
\* in the current form or not at all (tpi.cpp:738-788, 1331-1452, 1642-1670).
RecordRight ==
  told.what = "record" /\ strm.whole # "mended" /\ Readable =>
    told.ti \in DOMAIN types /\ told.rec = Given(types[told.ti])
\* Of a pool that isn't damaged it gets every record, and a type is found when it is
\* there; definitions only if the version has them by name
\* (tpi.cpp:419, 553-608, 1296-1322).
AnswersRight ==
  strm.whole = "yes" /\ Readable =>
    /\ told.what = "no record" => told.ti \notin DOMAIN types
    /\ told.what = "failed" => ~pool.udts
    /\ told.what = "ti" =>
         IF told.type \in ToSet(types) /\ (told.type \notin Udts \/ pool.udts)
         THEN told.ti \in DOMAIN types /\ types[told.ti] = told.type
         ELSE told.ti = 0

\* A pool that a session wrote can be read, all of it, by the next one, and written
\* (tpi.cpp:337-360, 1672-1750).
Reader == [open |-> TRUE, fWrite |-> FALSE, fGetTi |-> TRUE, all |-> FALSE, mini |-> FALSE]
KeptRight ==
  disk.whole = "yes" /\ disk.hdr # NoPool =>
    LET s == fInitReally(Normal(disk), Reader, disk) IN
    /\ acslValidateHdr(disk.hdr) # "None"
    /\ s.ec = "OK" /\ DOMAIN s.recs = DOMAIN kept
    /\ \A ti \in DOMAIN kept : Had(s, ti, disk) /\ precForTi(s, ti, disk).recs[ti].type = kept[ti]

TpiVersionsRight == RecordRight /\ AnswersRight /\ KeptRight
=============================================================================
