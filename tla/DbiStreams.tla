--------------------------- MODULE DbiStreams ---------------------------
(* The streams of a DBI.  The header names, by number, the streams of the   *)
(* symbol tables, the symbol records, the modules and the debug data; each  *)
(* owner gets a number when it first has something to write, and the header *)
(* is written last.  Any write may fail; a PDB closed without a commit, or  *)
(* a crash, leaves what was committed.  Of a failed write of debug data     *)
(* nobody is told: the header keeps the number of a stream that is gone,    *)
(* and the number may be given out again.                                   *)
EXTENDS Naturals, FiniteSets, FiniteSetsExt

CONSTANTS
  Sns,        \* stream numbers that are free in a new PDB
  Mods,       \* modules
  Vals,       \* contents
  MaxWriteFails,  \* writes that may fail
  LooksAtError \* a client that an error was set for closes the PDB without a commit

VARIABLES
  st,         \* the streams: what each holds
  dbi,        \* the DBI stream
  cst, cdbi,  \* both, as last committed
  hdr,        \* the numbers in dbihdr, dbghdr and the MODI in memory
  pc,         \* "closed", "open", or the step of fInit or fSave that comes next
  dbgs,       \* rgOpenedDbg: debug data that is open
  fTold,      \* the client got FALSE, or an error is set
  nWriteFails,
  want,       \* ghost: what each owner was last given
  hurt,       \* ghost: owners whose save was lost, or whose number was another's
  cwant, churt \* ghosts: both at the last commit

ghosts == <<want, hurt>>
committed == <<cst, cdbi, cwant, churt>>
dbiVars == <<st, dbi, hdr, pc, dbgs, fTold, nWriteFails, ghosts, committed>>

Dbgs == {"fpo", "frames"}
Owners == {"gs", "ps", "sym"} \cup Mods \cup Dbgs

snNil == 0
Empty == 0
NoContent == [of |-> "none", val |-> Empty]
Part(o) == [of |-> o, val |-> Empty]     \* some of the appends were made
Whole(o, v) == [of |-> o, val |-> v]
NoHdr == [o \in Owners |-> snNil]
NoDbi == [whole |-> FALSE, hdr |-> NoHdr]

DbiInit ==
  /\ st = [sn \in Sns |-> NoContent] /\ cst = st
  /\ dbi = NoDbi /\ cdbi = dbi
  /\ hdr = NoHdr /\ pc = "closed" /\ dbgs = {} /\ fTold = FALSE
  /\ nWriteFails = 0
  /\ want = [o \in Owners |-> Empty] /\ cwant = want
  /\ hurt = {} /\ churt = {}

-----------------------------------------------------------------------------
Extant(sn) == sn # snNil /\ st[sn] # NoContent
GoesOn == ~fTold \/ ~LooksAtError
Fail == nWriteFails < MaxWriteFails /\ nWriteFails' = nWriteFails + 1 /\ fTold' = TRUE
NoFail == UNCHANGED <<nWriteFails, fTold>>

\* A step failed that gave o a number or wrote for it.
Failed(o) == hdr'[o] = snNil \/ nWriteFails' # nWriteFails

\* No other owner has the number of o.
Sole(h, o) == h[o] = snNil \/ \A p \in Owners \ {o} : h[p] # h[o]

\* o is well again once it is saved under a number of its own.
Marks(o, saved) == hurt' = IF saved /\ Sole(hdr', o) THEN hurt \ {o} ELSE hurt \cup {o}

\* fEnsureSn: the number at hand, or the least free one.
FreeSns(s) == {sn \in DOMAIN s : s[sn] = NoContent}
fEnsureSn(sn) ==
  IF sn # snNil THEN sn ELSE IF FreeSns(st) = {} THEN snNil ELSE Min(FreeSns(st))

\* nullifyStream, fEnsureNoSn: the stream goes, and its number.
KeepsNumber(sn) == [st |-> [st EXCEPT ![sn] = NoContent], sn |-> sn]
nullifyStream(sn) == [st |-> [st EXCEPT ![sn] = NoContent], sn |-> snNil]

\* A replacement and the appends after it: all of them, or none, or some.
Replaced(sn, o, v) ==
  \/ NoFail /\ st' = [st EXCEPT ![sn] = Whole(o, v)]
  \/ Fail /\ \E left \in {NoContent, Part(o)} : st' = [st EXCEPT ![sn] = left]

\* What o is given is written to its stream, which gets a number first.
Saves(o, v) ==
  LET sn == fEnsureSn(hdr[o])
  IN /\ hdr' = [hdr EXCEPT ![o] = sn]
     /\ want' = [want EXCEPT ![o] = v] /\ Marks(o, TRUE)
     /\ IF sn = snNil THEN fTold' = TRUE /\ UNCHANGED <<st, nWriteFails>> ELSE Replaced(sn, o, v)

\* Nothing to write: a stream of o goes.
Drops(o) ==
  /\ want' = [want EXCEPT ![o] = Empty]
  /\ IF hdr[o] = snNil THEN NoFail /\ UNCHANGED <<hdr, st>>
     ELSE IF Extant(hdr[o])
     THEN LET n == nullifyStream(hdr[o])
          IN st' = n.st /\ hdr' = [hdr EXCEPT ![o] = n.sn] /\ NoFail
     ELSE fTold' = TRUE /\ UNCHANGED <<hdr, st, nWriteFails>>
  /\ Marks(o, TRUE)

-----------------------------------------------------------------------------
\* fInit: the header is read, and a new DBI starts by clearing the old one.  A
\* DBI stream that is shorter than its header says is refused.
fInit(create) ==
  /\ pc = "closed" /\ GoesOn
  /\ dbi.whole \/ dbi = NoDbi
  /\ hdr' = dbi.hdr
  /\ pc' = IF create THEN "clear" ELSE "open"
  /\ UNCHANGED <<st, dbi, dbgs, fTold, nWriteFails, ghosts, committed>>

AllButDbg == {hdr[o] : o \in Owners \ Dbgs} \ {snNil}
OldStreams == {hdr[o] : o \in Owners} \ {snNil}

\* clearDBI: the streams of the old DBI go, and that is committed at once to get
\* their pages back.  One that is gone already, or that two owners have, is refused.
Clearable ==
  /\ \A sn \in OldStreams : Extant(sn)
  /\ \A o, p \in Owners : hdr[o] = hdr[p] /\ o # p => hdr[o] = snNil
clearDBI ==
  /\ pc = "clear"
  /\ IF ~Clearable
     THEN /\ fTold' = TRUE /\ pc' = "failed"
          /\ UNCHANGED <<st, dbi, hdr, nWriteFails, ghosts, committed>>
     ELSE /\ st' = [sn \in Sns |-> IF sn \in OldStreams THEN NoContent ELSE st[sn]]
          /\ hdr' = NoHdr /\ dbi' = NoDbi
          /\ want' = [o \in Owners |-> Empty] /\ hurt' = {}
          /\ \/ /\ NoFail /\ pc' = "open"
                /\ cst' = st' /\ cdbi' = dbi' /\ cwant' = want' /\ churt' = hurt'
             \/ Fail /\ UNCHANGED committed /\ pc' = "failed"
  /\ UNCHANGED dbgs

\* A module is opened, and closed with v: Mod1::fCommit.
CloseMod(m, v) ==
  /\ pc = "open" /\ GoesOn
  /\ IF v = Empty THEN Drops(m) ELSE Saves(m, v)
  /\ UNCHANGED <<dbi, pc, dbgs, committed>>

\* fValidateSnDbg: a kind of debug data without a stream gets an empty one.
fValidateSnDbg(o) ==
  LET sn == fEnsureSn(hdr[o])
  IN IF hdr[o] # snNil THEN NoFail /\ UNCHANGED <<st, hdr, hurt>>
     ELSE /\ hdr' = [hdr EXCEPT ![o] = sn] /\ Marks(o, TRUE)
          /\ \/ sn # snNil /\ NoFail /\ st' = [st EXCEPT ![sn] = Whole(o, Empty)]
             \/ sn = snNil /\ fTold' = TRUE /\ UNCHANGED <<st, nWriteFails>>
             \/ sn # snNil /\ Fail /\ UNCHANGED st

OpenDbg(o) ==
  /\ pc = "open" /\ GoesOn /\ o \notin dbgs
  /\ fValidateSnDbg(o)
  /\ dbgs' = IF Failed(o) THEN dbgs ELSE dbgs \cup {o}
  /\ UNCHANGED <<dbi, pc, want, committed>>

\* Dbg1Data::Close, fSaveDbgData.  It returns TRUE and sets no error whatever
\* became of the save; the header keeps the number of a stream that is gone.
SaveDbg(o, v) ==
  /\ want' = [want EXCEPT ![o] = v] /\ UNCHANGED fTold
  /\ IF v # Empty
     THEN /\ UNCHANGED hdr
          /\ \/ /\ st' = [st EXCEPT ![hdr[o]] = Whole(o, v)] /\ UNCHANGED nWriteFails
                /\ Marks(o, TRUE)
             \/ /\ nWriteFails < MaxWriteFails /\ nWriteFails' = nWriteFails + 1
                /\ st' = [st EXCEPT ![hdr[o]] = NoContent]
                /\ Marks(o, FALSE)
     ELSE /\ UNCHANGED nWriteFails
          /\ IF Extant(hdr[o])
             THEN LET n == nullifyStream(hdr[o])
                  IN st' = n.st /\ hdr' = [hdr EXCEPT ![o] = n.sn] /\ Marks(o, TRUE)
             ELSE UNCHANGED <<st, hdr>> /\ Marks(o, FALSE)
CloseDbg(o, v) ==
  /\ pc = "open" /\ o \in dbgs \ {"frames"}
  /\ SaveDbg(o, v)
  /\ dbgs' = dbgs \ {o}
  /\ UNCHANGED <<dbi, pc, committed>>

\* DBI1::Close: fSave, of which the steps follow; the first that fails ends it.
StepOf(o) == IF o = "gs" THEN "ps" ELSE IF o = "ps" THEN "sym" ELSE "hdr"
CloseDbi ==
  /\ pc = "open" /\ dbgs \subseteq {"frames"}
  /\ pc' = "gs"
  /\ UNCHANGED <<st, dbi, hdr, dbgs, fTold, nWriteFails, ghosts, committed>>

\* GSI1::writeStream, PSGSI1::writeStream.
writeStream(o, v) ==
  /\ pc = o
  /\ Saves(o, v)
  /\ pc' = IF Failed(o) THEN "failed" ELSE StepOf(o)
  /\ UNCHANGED <<dbi, dbgs, committed>>

\* The records are only added to: what is new is appended, to whatever is there.
writeSymRecs(v) ==
  LET sn == hdr["sym"]
      own == st[sn] = Whole("sym", want["sym"])
  IN /\ pc = "sym" /\ want["sym"] <= v
     /\ IF sn = snNil
        THEN Saves("sym", v) /\ pc' = IF Failed("sym") THEN "failed" ELSE "hdr"
        ELSE /\ want' = [want EXCEPT !["sym"] = v] /\ UNCHANGED hdr /\ Marks("sym", own)
             /\ \/ /\ Extant(sn) /\ NoFail /\ pc' = "hdr"
                   /\ st' = [st EXCEPT ![sn] = IF own THEN Whole("sym", v) ELSE Part("sym")]
                \/ Extant(sn) /\ Fail /\ UNCHANGED st /\ pc' = "failed"
                \/ ~own /\ fTold' = TRUE /\ UNCHANGED <<st, nWriteFails>> /\ pc' = "failed"
     /\ UNCHANGED <<dbi, dbgs, committed>>

\* The header and the substreams after it.
writeHdr ==
  /\ pc = "hdr"
  /\ \/ NoFail /\ dbi' = [whole |-> TRUE, hdr |-> hdr] /\ pc' = "frames"
     \/ Fail /\ dbi' \in {NoDbi, [whole |-> FALSE, hdr |-> hdr]} /\ pc' = "failed"
  /\ UNCHANGED <<st, hdr, dbgs, ghosts, committed>>

\* Last, the frame data is saved, if it was opened; it was not opened for nothing.
saveFrames(v) ==
  /\ pc = "frames"
  /\ IF "frames" \in dbgs THEN v # Empty /\ SaveDbg("frames", v)
     ELSE UNCHANGED <<st, hdr, ghosts>> /\ NoFail
  /\ dbgs' = {}
  /\ pc' = "closed"
  /\ UNCHANGED <<dbi, committed>>

\* A client that was told of a failure closes what it has open.
CloseFailed ==
  /\ pc = "failed"
  /\ pc' = "closed" /\ dbgs' = {}
  /\ UNCHANGED <<st, dbi, hdr, fTold, nWriteFails, ghosts, committed>>

\* PDB1::Commit, by a client that closed its DBI and knows of no failure.
CommitPdb ==
  /\ pc = "closed" /\ GoesOn
  /\ <<cst, cdbi>> # <<st, dbi>>
  /\ cst' = st /\ cdbi' = dbi /\ cwant' = want /\ churt' = hurt
  /\ UNCHANGED <<st, dbi, hdr, pc, dbgs, fTold, nWriteFails, ghosts>>

\* The PDB is closed without a commit, or the process ends.
Reload ==
  /\ <<st, dbi, fTold>> # <<cst, cdbi, FALSE>>
  /\ st' = cst /\ dbi' = cdbi /\ hdr' = NoHdr
  /\ pc' = "closed" /\ dbgs' = {} /\ fTold' = FALSE
  /\ want' = cwant /\ hurt' = churt
  /\ UNCHANGED <<nWriteFails, committed>>

Given == Vals \cup {Empty}

DbiNext ==
  \/ \E create \in BOOLEAN : fInit(create)
  \/ clearDBI
  \/ \E m \in Mods, v \in Given : CloseMod(m, v)
  \/ \E o \in Dbgs : OpenDbg(o)
  \/ \E o \in Dbgs, v \in Given : CloseDbg(o, v)
  \/ CloseDbi
  \/ \E o \in {"gs", "ps"}, v \in Vals : writeStream(o, v)
  \/ \E v \in Vals : writeSymRecs(v)
  \/ writeHdr
  \/ \E v \in Given : saveFrames(v)
  \/ CloseFailed \/ CommitPdb \/ Reload

DbiSpec == DbiInit /\ [][DbiNext]_dbiVars

-----------------------------------------------------------------------------
\* What is committed can be read back: the header is whole, an owner without a number
\* had nothing, and every other number is of its owner alone and is its stream, whole,
\* with what it was last given - but for the owners hurt by a failure that nobody was
\* told of (fSave, Dbg1Data::Close, and the clear that commits on its own).
HeaderLeads ==
  cdbi # NoDbi =>
    /\ cdbi.whole
    /\ \A o \in Owners :
         LET sn == cdbi.hdr[o]
         IN /\ sn = snNil => cwant[o] = Empty
            /\ o \notin churt =>
                 Sole(cdbi.hdr, o) /\ (sn # snNil => cst[sn] = Whole(o, cwant[o]))

\* No stream is left that nothing in the committed header leads to: what a module
\* without symbols, emptied debug data or an old DBI had is given back.
NoOrphans == \A sn \in Sns : cst[sn] # NoContent => \E o \in Owners : cdbi.hdr[o] = sn

\* The committed header leads to what its owners were given, and to all there is; nobody
\* is hurt as long as no write fails.
CommittedRight ==
  /\ HeaderLeads /\ NoOrphans
  /\ churt # {} => nWriteFails > 0
=============================================================================
