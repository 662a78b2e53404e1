------------------------------ MODULE PdbMatch ------------------------------
(* Which PDB is the one of an image (PDB/dbi/pdb.cpp).  An image holds the   *)
(* signature and the age of the PDB as it was linked; the PDB must have that *)
(* signature and at least that age, and its debug information (DBI) just     *)
(* that age.  The age grows, and is committed, whenever the PDB is opened    *)
(* for writing; a DBI gets it when it is closed.                             *)
(*                                                                           *)
(*  - "a" is the PDB of a linker, "b" a copy of it that CopyToW2 makes.      *)
(*  - What a DBI says is a number; 0 is a DBI that is empty.                 *)
(*  - A crash may come at any time: it loses what is not committed.          *)
EXTENDS Integers, Sequences, FiniteSets, SequencesExt

CONSTANTS
  Contents,      \* what a linker writes
  Features,      \* "none", "noMerge", "mini", "vc120": what a client asks for
  MaxOpens, MaxImages,   \* bounds: openings for writing and images
  Rehashes       \* whether a PDB whose signature is a hash is written again

VARIABLES
  file,    \* what is committed of each file
  pdb,     \* the PDB1 of "a"
  openings, guids,  \* counters
  copy,    \* the copy that is made
  images

vars == <<file, pdb, images, copy, openings, guids>>

Nothing == [there |-> FALSE]
Repro == [k |-> "repro", n |-> 0]
NewGuid == [k |-> "new", n |-> guids + 1]
Hash(c) == [k |-> "hash", n |-> c]
Ngen == [k |-> "ngen", n |-> 1]
NgenAge == 3

\* NewDBIHdr: what OpenDBI sees of a stream that is empty.
EmptyDbi == [age |-> 0, of |-> 0, opening |-> 0]
Closed == [state |-> "closed"]
NoCopy == [stage |-> "none"]

-----------------------------------------------------------------------------
(* The PDB stream *)

\* savePdbStream: the codes behind the table of names.
Codes(p) ==
  IF ~p.ids THEN <<>>
  ELSE <<IF p.vc120 THEN "VC110" ELSE "VC140">>
       \o (IF p.noMerge THEN <<"noMerge">> ELSE <<>>) \o (IF p.mini THEN <<"mini">> ELSE <<>>)

\* Mutant: only the first code is read.
ReadFirst(codes) == IF codes = <<>> THEN {} ELSE {codes[1]}

\* loadPdbStream: nothing is read behind VC110.
Read(codes) ==
  LET last == SelectInSeq(codes, LAMBDA c : c = "VC110")
  IN Range(IF last = 0 THEN codes ELSE SubSeq(codes, 1, last))

Saved(p) ==
  [there |-> TRUE, guid |-> p.guid, age |-> p.age, codes |-> Codes(p), dbi |-> p.dbi,
   flags |-> [noMerge |-> p.noMerge, mini |-> p.mini]]

Loaded(f, full) ==
  LET codes == Read(f.codes)
  IN [state |-> "open", guid |-> f.guid, age |-> f.age, ids |-> codes \cap {"VC110", "VC140"} # {},
      noMerge |-> "noMerge" \in codes, mini |-> "mini" \in codes, vc120 |-> FALSE,
      dbi |-> f.dbi, full |-> full, writing |-> FALSE, opening |-> openings + 1]

-----------------------------------------------------------------------------
(* Opening *)

\* Mutant: the age stays.
SameAge(p) == p.age
Older(p) == p.age + 1

Asked(p, feature) == [p EXCEPT !.noMerge = feature = "noMerge", !.mini = feature = "mini"]
Agrees(p, feature) == p.noMerge = (feature = "noMerge") /\ p.mini = (feature = "mini")

\* An existing PDB, opened for writing: VC120 is refused, the kind of PDB changes only in
\* a full build.
Reopened(f, feature, full) ==
  LET p == [Loaded(f, full) EXCEPT !.age = Older([age |-> @])]
  IN IF full THEN Asked(p, feature) ELSE p
MayReopen(f, feature, full) ==
  feature # "vc120" /\ (full \/ Agrees(Loaded(f, full), feature))

Created(feature, repro) ==
  Asked([Loaded([guid |-> IF repro THEN Repro ELSE NewGuid, age |-> 1, codes |-> <<>>,
                 dbi |-> EmptyDbi], TRUE) EXCEPT !.ids = TRUE, !.vc120 = feature = "vc120"], feature)

CountOpening == openings < MaxOpens /\ openings' = openings + 1

\* A new PDB is a full build.
OpenNew(feature, repro) ==
  /\ pdb = Closed /\ ~file.a.there /\ CountOpening
  /\ pdb' = Created(feature, repro)
  /\ file' = [file EXCEPT !.a = Saved(pdb')]
  /\ guids' = IF repro THEN guids ELSE guids + 1
  /\ UNCHANGED <<images, copy>>

\* A PDB that waits in the queue and was opened in another mode is closed and opened again.
OpenOld(feature, full) ==
  /\ pdb.state = "closed" \/ (pdb.state = "queued" /\ pdb.full # full)
  /\ file.a.there /\ MayReopen(file.a, feature, full)
  /\ CountOpening
  /\ pdb' = Reopened(file.a, feature, full)
  /\ file' = [file EXCEPT !.a = Saved(pdb')]
  /\ UNCHANGED <<images, copy, guids>>

\* A PDB in the queue that serves is given out as it is.
Reuse ==
  /\ pdb.state = "queued"
  /\ pdb' = [pdb EXCEPT !.state = "open"]
  /\ UNCHANGED <<file, images, copy, openings, guids>>

\* OpenNgenPdb: the PDB takes the signature and the age of the image.
OpenNgenPdb ==
  /\ pdb = Closed /\ CountOpening
  /\ file.a.there => MayReopen(file.a, "none", FALSE)
  /\ LET p == IF file.a.there THEN Reopened(file.a, "none", FALSE)
              ELSE Created("none", FALSE)
     IN /\ pdb' = [p EXCEPT !.guid = Ngen, !.age = NgenAge]
        /\ file' = [file EXCEPT !.a = Saved(p)]
  /\ guids' = IF file.a.there THEN guids ELSE guids + 1
  /\ UNCHANGED <<images, copy>>

-----------------------------------------------------------------------------
(* A session *)

\* The signature of a reproducible build stays the hash of its first contents.
MayWrite ==
  /\ pdb.state = "open" /\ ~pdb.writing
  /\ pdb.guid.k = "hash" => Rehashes

\* CreateDBI: clearDBI deletes the old streams and commits the file.
CreateDBI ==
  /\ MayWrite
  /\ pdb' = [pdb EXCEPT !.writing = TRUE, !.dbi = EmptyDbi]
  /\ file' = [file EXCEPT !.a.dbi = EmptyDbi]
  /\ UNCHANGED <<images, copy, openings, guids>>

OpenDBI ==
  /\ MayWrite
  /\ pdb' = [pdb EXCEPT !.writing = TRUE]
  /\ UNCHANGED <<file, images, copy, openings, guids>>

\* Mutant: the DBI keeps the age that its header had.
AgeKept(p) == p.dbi.age
AgeOfPdb(p) == p.age

\* DBI1::fSave
CloseDBI(c) ==
  /\ pdb.state = "open" /\ pdb.writing
  /\ pdb' = [pdb EXCEPT !.writing = FALSE,
               !.dbi = [age |-> AgeOfPdb(pdb), of |-> c, opening |-> pdb.opening]]
  /\ UNCHANGED <<file, images, copy, openings, guids>>

\* ResetGUID: only the signature that a reproducible build starts with is replaced.
ResetGUID(c) ==
  /\ pdb.state = "open" /\ ~pdb.writing /\ pdb.guid = Repro /\ pdb.dbi.of = c
  /\ pdb' = [pdb EXCEPT !.guid = Hash(c)]
  /\ UNCHANGED <<file, images, copy, openings, guids>>

\* The linker writes the image, before or after it commits the PDB; an ngen image is
\* there before its PDB.
LinkImage ==
  /\ pdb.state = "open" /\ ~pdb.writing /\ pdb.guid.k \notin {"repro", "ngen"}
  /\ pdb.dbi.opening = pdb.opening /\ Cardinality(images) < MaxImages
  /\ images' = images \cup {[guid |-> pdb.guid, age |-> pdb.age, of |-> pdb.dbi.of,
                             opening |-> pdb.opening]}
  /\ UNCHANGED <<file, pdb, copy, openings, guids>>

Commit ==
  /\ pdb.state = "open" /\ ~pdb.writing
  /\ file' = [file EXCEPT !.a = Saved(pdb)]
  /\ UNCHANGED <<pdb, images, copy, openings, guids>>

Close ==
  /\ pdb.state = "open" /\ ~pdb.writing
  /\ pdb' = [pdb EXCEPT !.state = "queued"]
  /\ UNCHANGED <<file, images, copy, openings, guids>>

\* The end of the queue's time, of the process, or of the machine.
Stop ==
  /\ pdb # Closed
  /\ pdb' = Closed
  /\ UNCHANGED <<file, images, copy, openings, guids>>

DeleteFile ==
  /\ pdb = Closed /\ file.a.there /\ copy.stage \in {"none", "done"}
  /\ file' = [file EXCEPT !.a = Nothing]
  /\ UNCHANGED <<pdb, images, copy, openings, guids>>

-----------------------------------------------------------------------------
(* CopyToW2 *)
\* The source is open for reading, so nobody writes it.
StartCopy(strip, newSig, erase) ==
  /\ copy.stage = "none" /\ pdb = Closed /\ file.a.there /\ file.a.dbi.of # 0
  /\ copy' = [stage |-> IF strip THEN "copy" ELSE IF newSig THEN "patch" ELSE "copied",
              strip |-> strip, newSig |-> newSig, erase |-> erase, ok |-> FALSE, from |-> file.a]
  /\ file' = [file EXCEPT !.b =
       IF strip THEN Saved(Created("none", FALSE)) ELSE file.a]
  /\ guids' = guids + 1
  /\ UNCHANGED <<pdb, images, openings>>

CopyAt(stage) == copy.stage = stage /\ UNCHANGED <<pdb, images, openings, guids>>
Fails == copy' = [copy EXCEPT !.stage = "done"] /\ UNCHANGED file

\* The new DBI gets the age of the new PDB; it is committed also when some of the old one
\* could not be copied.
CopyDbi ==
  /\ CopyAt("copy")
  /\ \E all \in BOOLEAN :
       /\ file' = [file EXCEPT !.b.dbi = [copy.from.dbi EXCEPT !.age = file.b.age]]
       /\ copy' = [copy EXCEPT !.stage =
            IF ~all THEN "done" ELSE IF copy.newSig THEN "copied" ELSE "patch"]

\* patchSigAndAge and eraseNamedStream open the copy as neither a full build nor of any kind.
OpenCopy ==
  /\ CopyAt("patch") \/ (CopyAt("copied") /\ copy.erase)
  /\ IF MayReopen(file.b, "none", FALSE)
     THEN /\ file' = [file EXCEPT !.b = Saved(Reopened(file.b, "none", FALSE))]
          /\ copy' = [copy EXCEPT !.stage = IF @ = "patch" THEN "opened" ELSE "erase"]
     ELSE Fails

\* Mutant: the DBI's header stays as it is.
PatchPdb(f, guid, age, ageDbi) == [f EXCEPT !.guid = guid, !.age = age]
Patched(f, guid, age, ageDbi) ==
  [f EXCEPT !.guid = guid, !.age = age, !.dbi.age = ageDbi]

patchSigAndAge ==
  /\ CopyAt("opened")
  /\ \/ /\ file' = [file EXCEPT !.b =
             IF copy.newSig THEN Patched(@, [k |-> "new", n |-> guids], 1, 1)
             ELSE Patched(@, copy.from.guid, copy.from.age, copy.from.dbi.age)]
        /\ copy' = [copy EXCEPT !.stage = "copied"]
     \/ Fails

\* The streams are erased in place, and what names them is committed.
eraseNamedStream ==
  /\ CopyAt("erase")
  /\ copy' = [copy EXCEPT !.stage = "done", !.ok = TRUE]
  /\ UNCHANGED file

EndCopy ==
  /\ CopyAt("copied") /\ ~copy.erase
  /\ copy' = [copy EXCEPT !.stage = "done", !.ok = TRUE]
  /\ UNCHANGED file

Copies == CopyDbi \/ OpenCopy \/ patchSigAndAge \/ eraseNamedStream \/ EndCopy

-----------------------------------------------------------------------------
Init ==
  /\ file = [a |-> Nothing, b |-> Nothing]
  /\ pdb = Closed
  /\ images = {}
  /\ copy = NoCopy
  /\ openings = 0 /\ guids = 0

Next ==
  \/ \E feature \in Features, f \in BOOLEAN : OpenOld(feature, f) \/ OpenNew(feature, f)
  \/ Reuse \/ OpenNgenPdb \/ CreateDBI \/ OpenDBI
  \/ \E c \in Contents : CloseDBI(c) \/ ResetGUID(c)
  \/ LinkImage \/ Commit \/ Close \/ Stop \/ DeleteFile
  \/ \E strip, newSig, erase \in BOOLEAN : StartCopy(strip, newSig, erase)
  \/ Copies

Spec == Init /\ [][Next]_vars

-----------------------------------------------------------------------------
\* Mutant: any DBI will do.
AnyDbi(f, i) == TRUE
AgesAgree(f, i) == f.dbi.age = 0 \/ f.dbi.age = i.age

\* OpenValidate4
OpenValidate4(f, i) ==
  f.there /\ f.guid = i.guid /\ i.age <= f.age /\ AgesAgree(f, i)

\* A PDB that is accepted for an image, and that has a DBI, has the one the image was
\* linked with, or one that was written while the same client had the PDB open.
MatchRight ==
  \A f \in {"a", "b"}, i \in images :
    OpenValidate4(file[f], i) /\ file[f].dbi.age # 0 =>
      file[f].dbi.of = i.of \/ file[f].dbi.opening = i.opening

\* A copy is accepted for the images that its source is accepted for; one with a
\* signature of its own, or one that is not complete, for none.
CopyRight ==
  copy.stage # "none" =>
    \A i \in images :
      /\ copy.ok /\ ~copy.newSig =>
           OpenValidate4(file.b, i) = OpenValidate4(copy.from, i)
      /\ copy.ok /\ copy.newSig => ~OpenValidate4(file.b, i)
      /\ copy.strip /\ ~copy.ok /\ copy.stage \notin {"copied", "erase"} =>
           ~OpenValidate4(file.b, i)

\* What a PDB was built as is what the next client finds.
FeaturesRight ==
  \A f \in {"a", "b"} : file[f].there =>
    LET p == Loaded(file[f], FALSE)
    IN file[f].flags = [noMerge |-> p.noMerge, mini |-> p.mini] /\ p.ids

PdbMatchRight == MatchRight /\ CopyRight /\ FeaturesRight
=============================================================================
