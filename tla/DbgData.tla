------------------------------ MODULE DbgData ------------------------------
(* The debug data that an image brings: FPO records, functions, fixups, the *)
(* maps of a rearranged image (dbi.h:1333-1536).  It is read as a whole when *)
(* a client opens it, clients walk through it with enumerators of their own, *)
(* and a writer sorts and saves it when it closes it.  An element stands     *)
(* for its key; keys have Width bits, and positions have 32 in the code.     *)
EXTENDS Integers, Sequences, SequencesExt, Bags

CONSTANTS
  Elts,      \* elements, by their keys
  Enums,     \* Dbg1: enumerators
  Width,     \* bits of a key and of a position
  MaxLen     \* elements at a time

\* The parts of an image are less than half of the addresses apart.
DbgDataAssumption == Width \in Nat /\ MaxLen \in Nat /\ Elts \subseteq 0 .. 2^(Width - 1) - 1

VARIABLES
  ordered,   \* the kind of the data has a comparison, pfnCmp
  dbi,       \* the DBI: "none", or open as "r" or "w"
  snDbg,     \* the data has a stream
  stored,    \* what is in it
  bufDbg, refcount, \* Dbg1Data
  iCur,      \* of each enumerator the position, NotOpen for none
  answer,    \* ghost: what the last call found
  given,     \* ghost: what the data consists of, as its clients made it
  cloned,    \* ghost: a writer has cloned an enumerator
  touched    \* ghost: it has changed the data since it was read or saved

vars == <<ordered, dbi, snDbg, stored, bufDbg, refcount, iCur, answer, given, cloned, touched>>
session == <<ordered, dbi>>
disk == <<snDbg, stored>>
ghosts == <<given, cloned, touched>>

NotOpen == -1
NoAnswer == [op |-> "none"]
BagOf(s) == FoldLeft(LAMBDA b, x : b (+) SetToBag({x}), EmptyBag, s)

Init ==
  /\ ordered \in BOOLEAN /\ dbi = "none" /\ snDbg = FALSE /\ stored = <<>>
  /\ bufDbg = <<>> /\ refcount = 0 /\ iCur = [e \in Enums |-> NotOpen]
  /\ answer = NoAnswer /\ given = EmptyBag /\ cloned = FALSE /\ touched = FALSE

-----------------------------------------------------------------------------
\* cmpDbgFpo, cmpDbgFunc, cmpDbgOmap, cmpDbgFrameData: a difference of unsigned numbers
\* that is taken as signed.
Cmp(x, y) == LET d == (x - y) % 2^Width IN IF d >= 2^(Width - 1) THEN d - 2^Width ELSE d
Sorted(s) == IF ordered THEN SortSeq(s, LAMBDA x, y : Cmp(x, y) < 0) ELSE s

\* The C library's search of what should be in order: where x is, 0 for nowhere.
bsearch(s, x) ==
  LET at[lo \in 1 .. Len(s) + 1, hi \in 0 .. Len(s)] ==
        LET mid == (lo + hi) \div 2
        IN IF lo > hi THEN 0
           ELSE IF Cmp(x, s[mid]) = 0 THEN mid
           ELSE IF Cmp(x, s[mid]) < 0 THEN at[lo, mid - 1] ELSE at[mid + 1, hi]
  IN at[1, Len(s)]

Opened(e) == iCur[e] # NotOpen
nRemaining(e) == (Len(bufDbg) - iCur[e]) % 2^Width
Says(a) == answer' = a

\* The DBI is opened and closed; who has a part of it open closes that before.
OpenDbi(m) ==
  /\ dbi = "none" /\ dbi' = m
  /\ Says(NoAnswer)
  /\ UNCHANGED <<ordered, disk, bufDbg, refcount, iCur, ghosts>>
CloseDbi ==
  /\ dbi # "none" /\ \A e \in Enums : ~Opened(e)
  /\ dbi' = "none" /\ Says(NoAnswer)
  /\ UNCHANGED <<ordered, disk, bufDbg, refcount, iCur, ghosts>>

\* DBI1::OpenDbg, fGetDbgData: readers share the data, a writer opens it once.  For a
\* writer there is a stream from then on.
MayOpenDbg == IF refcount > 0 THEN dbi = "r" ELSE dbi = "w" \/ (dbi = "r" /\ snDbg)
OpenDbg(e) ==
  /\ ~Opened(e) /\ MayOpenDbg
  /\ bufDbg' = IF refcount > 0 THEN bufDbg ELSE stored
  /\ snDbg' = TRUE
  /\ refcount' = refcount + 1 /\ iCur' = [iCur EXCEPT ![e] = 0] /\ Says(NoAnswer)
  /\ IF refcount > 0 THEN UNCHANGED ghosts
     ELSE /\ touched' = FALSE /\ cloned' = FALSE
          /\ given' = IF cloned THEN BagOf(stored) ELSE given
  /\ UNCHANGED <<session, stored>>

\* Dbg1::Clone.
Clone(e, f) ==
  /\ Opened(e) /\ ~Opened(f)
  /\ refcount' = refcount + 1 /\ iCur' = [iCur EXCEPT ![f] = iCur[e]]
  /\ cloned' = (cloned \/ dbi = "w") /\ Says(NoAnswer)
  /\ UNCHANGED <<session, disk, bufDbg, given, touched>>

\* Dbg1Data::fSave, DBI1::fSaveDbgData: nothing needs no stream, and without a stream
\* nothing is saved.
fSave ==
  /\ touched' = FALSE
  /\ IF bufDbg = <<>> THEN snDbg' = FALSE /\ stored' = <<>>
     ELSE UNCHANGED snDbg /\ stored' = IF snDbg THEN Sorted(bufDbg) ELSE stored

\* Dbg1Data::Close: the last one deletes the data.
Close(e) ==
  /\ Opened(e)
  /\ IF dbi = "w" THEN fSave ELSE UNCHANGED <<disk, touched>>
  /\ bufDbg' = IF refcount = 1 THEN <<>> ELSE IF dbi = "w" THEN Sorted(bufDbg) ELSE bufDbg
  /\ refcount' = refcount - 1 /\ iCur' = [iCur EXCEPT ![e] = NotOpen] /\ Says(NoAnswer)
  /\ UNCHANGED <<session, given, cloned>>

-----------------------------------------------------------------------------
Reset(e) ==
  /\ Opened(e) /\ iCur' = [iCur EXCEPT ![e] = 0] /\ Says(NoAnswer)
  /\ UNCHANGED <<session, disk, bufDbg, refcount, ghosts>>

Skip(e, n) ==
  /\ Opened(e) /\ n <= nRemaining(e) /\ iCur[e] + n <= MaxLen
  /\ iCur' = [iCur EXCEPT ![e] = @ + n] /\ Says(NoAnswer)
  /\ UNCHANGED <<session, disk, bufDbg, refcount, ghosts>>

\* QueryNext stays where it is.  Elements behind the last one are not there.
QueryNext(e, n) ==
  /\ Opened(e) /\ n <= nRemaining(e)
  /\ Says([op |-> "next", from |-> iCur[e], to |-> iCur[e] + n])
  /\ UNCHANGED <<session, disk, bufDbg, refcount, iCur, ghosts>>

\* Dbg1Data::Find.
Find(e, x) ==
  /\ Opened(e) /\ ordered
  /\ Says([op |-> "find", elt |-> x, found |-> bsearch(bufDbg, x) # 0])
  /\ UNCHANGED <<session, disk, bufDbg, refcount, iCur, ghosts>>

\* Dbg1::Clear: the enumerator goes back, and only this one.
Clear(e) ==
  /\ Opened(e) /\ dbi = "w"
  /\ bufDbg' = <<>> /\ iCur' = [iCur EXCEPT ![e] = 0]
  /\ given' = EmptyBag /\ touched' = TRUE /\ Says(NoAnswer)
  /\ UNCHANGED <<session, disk, refcount, cloned>>

AppendTo(e, new) ==
  /\ Opened(e) /\ dbi = "w" /\ Len(bufDbg) + Len(new) <= MaxLen
  /\ bufDbg' = bufDbg \o new
  /\ given' = given (+) BagOf(new) /\ touched' = TRUE /\ Says(NoAnswer)
  /\ UNCHANGED <<session, disk, refcount, iCur, cloned>>

\* Dbg1::ReplaceNext, within the data.
ReplaceNext(e, new) ==
  LET at == iCur[e] + 1 .. iCur[e] + Len(new)
  IN /\ Opened(e) /\ dbi = "w" /\ Len(new) <= nRemaining(e) /\ at \subseteq DOMAIN bufDbg
     /\ bufDbg' = [i \in DOMAIN bufDbg |-> IF i \in at THEN new[i - iCur[e]] ELSE bufDbg[i]]
     /\ given' = (given (-) BagOf(SubSeq(bufDbg, iCur[e] + 1, iCur[e] + Len(new)))) (+) BagOf(new)
     /\ touched' = TRUE /\ Says(NoAnswer)
     /\ UNCHANGED <<session, disk, refcount, iCur, cloned>>

News == {<<x>> : x \in Elts} \cup {<<x, y>> : x \in Elts, y \in Elts}
Next ==
  \/ \E m \in {"r", "w"} : OpenDbi(m)
  \/ CloseDbi
  \/ \E e \in Enums : OpenDbg(e) \/ Close(e) \/ Reset(e) \/ Clear(e)
  \/ \E e, f \in Enums : Clone(e, f)
  \/ \E e \in Enums, n \in 1 .. MaxLen : Skip(e, n) \/ QueryNext(e, n)
  \/ \E e \in Enums, x \in Elts : Find(e, x)
  \/ \E e \in Enums, s \in News : AppendTo(e, s) \/ ReplaceNext(e, s)

Spec == Init /\ [][Next]_vars

-----------------------------------------------------------------------------
\* What no one has open is as its clients made it, in order if its kind has one, and it
\* has a stream just if there is something, if no writer cloned an enumerator.
SavedRight ==
  refcount = 0 /\ ~cloned =>
    /\ BagOf(stored) = given /\ (snDbg <=> stored # <<>>)
    /\ ordered => \A i, k \in DOMAIN stored : i < k => stored[i] <= stored[k]

\* An element is found just if there is one, by readers, and by a writer that has
\* not changed anything (Dbg1Data::Find searches what only Close sorts).
FindRight ==
  answer.op = "find" /\ ~touched => (answer.found <=> answer.elt \in ToSet(bufDbg))

\* No enumerator is behind the end, and none reads there, whatever another one cleared,
\* if no writer cloned one (dbi.h:1437).
InsideRight ==
  ~cloned =>
    /\ \A e \in Enums : iCur[e] <= Len(bufDbg)
    /\ answer.op = "next" => answer.to <= Len(bufDbg)

\* The data is there as long as someone has it open.
CountRight == refcount = Cardinality({e \in Enums : Opened(e)})

DbgDataRight == SavedRight /\ FindRight /\ InsideRight /\ CountRight
=============================================================================
