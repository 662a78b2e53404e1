------------------------------ MODULE UdtLines ------------------------------
(***************************************************************************)
(* What TPI1 of PDB/dbi/tpi.cpp knows of classes and the like: which record *)
(* is the definition of a name, which edit of a definition is legal, where  *)
(* in the source a definition is, and the strings of the ids that say so.   *)
(*                                                                         *)
(*  - A pool has one chain, so that whatever may share a bucket does.       *)
(*  - The types a record refers to are a sequence of type indices, in the   *)
(*    order of TypeTiIter; 0 is a basic type.                               *)
(*  - The records of types and of source lines are in two pools, TPI and    *)
(*    IPI, which a client fills one or the other of.                        *)
(*  - An LF_STRING_ID record has a text and, through an LF_SUBSTR_LIST that *)
(*    is one with it here, a list of earlier ones whose strings go before.  *)
(***************************************************************************)
EXTENDS FiniteSetsExt, Integers, SequencesExt

CONSTANTS
  FieldLists,   \* the field lists a client adds: members, each a kind and what it says
  Udts,         \* its definitions and forward references, but for their field lists
  Shapes,       \* the types of virtual function tables a struct may have: not a field list
  Fold,         \* of a name, what is equal when case is ignored
  Lines,        \* its records of source lines
  Texts,        \* the texts of its strings, which IPI holds: sequences of characters
  MaxSubs,      \* bound: the strings in the list of one
  Names,        \* the names that the name map has
  Rooms         \* pairs of the most records in TPI and in IPI

VARIABLES mode, room, types, udtChain, items, idChain, told,
  stands,       \* the definition that was given last under each name
  lastLine      \* and the record of a line that was added last for each type and leaf

vars == <<mode, room, types, udtChain, items, idChain, told, stands, lastLine>>

-----------------------------------------------------------------------------
(* Records.                                                                *)

UdtLeaves == {"class", "struct", "union", "enum"}
fIsDefnUdt(r) == r.leaf \in UdtLeaves /\ ~r.fwdref
fIsGlobalDefnUdt(r) == r.leaf = "alias" \/ (fIsDefnUdt(r) /\ ~r.scoped /\ ~r.anon)
fIsLocalDefnUdtWithUniqueName(r) ==
  fIsDefnUdt(r) /\ r.scoped /\ r.uname # "none" /\ ~r.anon
fIsUdtSrcLine(r) == r.leaf \in {"UDT_SRC_LINE", "UDT_MOD_SRC_LINE"}

\* Mutant: what has a scope goes by its plain name.
PlainKey(r) ==
  IF fIsGlobalDefnUdt(r) \/ fIsLocalDefnUdtWithUniqueName(r) THEN r.name ELSE "none"

\* The name a definition is found by.
KeyOf(r) ==
  IF fIsGlobalDefnUdt(r) THEN r.name
  ELSE IF fIsLocalDefnUdtWithUniqueName(r) THEN r.uname ELSE "none"

\* The name a client knows it under: only in its scope does a plain name mean a local one.
KnownAs(r) == IF r.scoped THEN r.uname ELSE r.name

fSameUDT(r, n, fCase) ==
  KeyOf(r) # "none" /\ IF fCase THEN KeyOf(r) = n ELSE Fold[KeyOf(r)] = Fold[n]
fSameUdtSrcLine(r, t, leaf) == fIsUdtSrcLine(r) /\ r.type = t /\ r.leaf = leaf

-----------------------------------------------------------------------------
(* Edits.                                                                  *)

IsFunction(m) == m.k \in {"MFUNCTION", "METHOD", "ONEMETHOD", "FRIENDFCN", "METHODLIST"}

\* The first member from the i-th on that isn't a function, 0 if there is none.
NextData(ms, i) ==
  LET at == {k \in i .. Len(ms) : ~IsFunction(ms[k])}
  IN IF at = {} THEN 0 ELSE CHOOSE k \in at : \A l \in at : k <= l

\* Mutant: the walk ends when either list does.
WalkToEither(ma, mb) ==
  LET same[i \in 1 .. Len(ma) + 1, j \in 1 .. Len(mb) + 1] ==
        LET a == NextData(ma, i)
            b == NextData(mb, j)
        IN a = 0 \/ b = 0 \/ (ma[a] = mb[b] /\ same[a + 1, b + 1])
  IN same[1, 1]

\* Both lists member by member, functions left out.
Walk(ma, mb) ==
  LET same[i \in 1 .. Len(ma) + 1, j \in 1 .. Len(mb) + 1] ==
        LET a == NextData(ma, i)
            b == NextData(mb, j)
        IN IF a = 0 \/ b = 0 THEN a = b ELSE ma[a] = mb[b] /\ same[a + 1, b + 1]
  IN same[1, 1]

IsFieldList(ti) == ti \in DOMAIN types /\ types[ti].leaf = "fieldlist"
fIsMatchingType(tiA, tiB) ==
  tiA = tiB \/ (IsFieldList(tiA) /\ IsFieldList(tiB) /\ Walk(types[tiA].members, types[tiB].members))

\* Both records' type indices, as far as both have some.
fIsModifiedClass(a, b) ==
  \A i \in DOMAIN a.tis \cap DOMAIN b.tis : fIsMatchingType(a.tis[i], b.tis[i])

fAppend == mode = "aw"
fLegalTypeEdit(r, ti) == fIsModifiedClass(r, types[ti])

-----------------------------------------------------------------------------
(* Types.                                                                  *)

TiOf(pool, r) == {ti \in DOMAIN pool : pool[ti] = r}
Says(what, v) == told' = [what |-> what, v |-> v]

AddType(r) ==
  /\ Len(types) < room[1]
  /\ types' = Append(types, r)
  /\ udtChain' = <<Len(types) + 1>> \o udtChain
  /\ Says("ti", Len(types) + 1)

AtHead(ti) == <<ti>> \o SelectSeq(udtChain, LAMBDA t : t # ti)
SameUDT(n) == SelectSeq(udtChain, LAMBDA ti : fSameUDT(types[ti], n, TRUE))

\* QueryTiForCVRecord of a record that no name stands for ...
Plain(r) ==
  /\ KeyOf(r) = "none"
  /\ IF TiOf(types, r) # {} THEN Says("ti", Max(TiOf(types, r))) /\ UNCHANGED <<types, udtChain>>
     ELSE AddType(r)
  /\ UNCHANGED stands

\* ... and of a definition: one that is there is the name's again, a new one is added,
\* if the name's definition so far may be edited like that.
Definition(r) ==
  LET n == KeyOf(r)
      same == SameUDT(n)
      legal == ~fAppend \/ same = <<>> \/ fLegalTypeEdit(r, same[1])
      ti == IF TiOf(types, r) = {} THEN Len(types) + 1 ELSE Max(TiOf(types, r))
  IN /\ n # "none"
     /\ IF same # <<>> /\ types[same[1]] = r THEN Says("ti", ti) /\ UNCHANGED <<types, udtChain>>
        ELSE IF ~legal THEN Says("illegal edit", 0) /\ UNCHANGED <<types, udtChain>>
        ELSE IF ti > Len(types) THEN AddType(r)
        ELSE udtChain' = AtHead(ti) /\ Says("ti", ti) /\ UNCHANGED types
     /\ stands' = IF told'.what = "ti"
                  THEN [m \in DOMAIN stands \cup {KnownAs(r)} |-> IF m = KnownAs(r) THEN ti ELSE stands[m]]
                  ELSE stands

QueryTiForCVRecord(r) ==
  (Plain(r) \/ Definition(r)) /\ UNCHANGED <<mode, room, items, idChain, lastLine>>

\* A definition with a field list that is in the pool.
WithFields(u, field, shape) ==
  [leaf |-> u.leaf, name |-> u.name, uname |-> u.uname, fwdref |-> u.fwdref, scoped |-> u.scoped,
   anon |-> u.anon,
   tis |-> CASE u.leaf = "enum" -> <<0, field>>
             [] u.leaf = "union" -> <<field>>
             [] OTHER -> <<field, 0, shape>>]

GiveFieldList(ms) == QueryTiForCVRecord([leaf |-> "fieldlist", members |-> ms])
GiveUdt(u) ==
  \E field \in {ti \in DOMAIN types : IsFieldList(ti) /\ ~u.fwdref} \cup {t \in {0} : u.fwdref} :
    \E shape \in Shapes : QueryTiForCVRecord(WithFields(u, field, shape))

\* QueryTiForUDT
QueryTiForUDT(n, fCase) ==
  LET at == {k \in DOMAIN udtChain : fSameUDT(types[udtChain[k]], n, fCase)} IN
  /\ told' = [what |-> "udt", name |-> n, fCase |-> fCase,
              ti |-> IF at = {} THEN 0 ELSE udtChain[Min(at)]]
  /\ UNCHANGED <<mode, room, types, udtChain, items, idChain, stands, lastLine>>

-----------------------------------------------------------------------------
(* Strings of ids.                                                         *)

NoString == <<"none">>  \* GetStringForId returns FALSE
NoChar == "unwritten"   \* a place of the caller's buffer that was not written

IsString(id) == id \in DOMAIN items /\ items[id].leaf = "STRING_ID"
StringIds == {id \in DOMAIN items : IsString(id)}

\* Mutant: the strings of a list are not counted with their own lists.
ShallowCb ==
  [id \in StringIds |->
     FoldLeft(LAMBDA n, sub : n + Len(items[sub].name), Len(items[id].name), items[id].subs)]

\* The count with a NULL sz: all texts, added up in *pcb.
StringCb ==
  LET cb[id \in StringIds] ==
        FoldLeft(LAMBDA n, sub : n + cb[sub], Len(items[id].name), items[id].subs)
  IN cb

Put(buf, text) == [i \in DOMAIN buf |-> IF i \in DOMAIN text THEN text[i] ELSE buf[i]]

\* The writes with a buffer: sz is a parameter of each call, so that what a call for a
\* string of the list advances is its own copy.
Write(id, buf) ==
  LET written[i \in StringIds, b \in Seq(STRING)] ==
        Put(FoldLeft(LAMBDA c, sub : written[sub, c], b, items[i].subs), items[i].name)
  IN written[id, buf]

\* What a client gets, in a buffer that has room for what was counted.
GetStringForId ==
  [id \in Nat |-> IF IsString(id) THEN Write(id, [i \in 1 .. StringCb[id] |-> NoChar]) ELSE NoString]

-----------------------------------------------------------------------------
(* Source lines.                                                           *)

AddItem(r) ==
  /\ Len(items) < room[2]
  /\ items' = Append(items, r) /\ idChain' = <<Len(items) + 1>> \o idChain
  /\ Says("ti", Len(items) + 1)

\* QueryTiForCVRecord of an IPI; who gives a line again is not told where it is.
GiveItem(r) ==
  /\ IF TiOf(items, r) = {} THEN AddItem(r)
     ELSE /\ Says("ti", IF fIsUdtSrcLine(r) THEN 0 ELSE Max(TiOf(items, r)))
          /\ UNCHANGED <<items, idChain>>
  /\ lastLine' =
       IF fIsUdtSrcLine(r) /\ TiOf(items, r) = {}
       THEN [k \in DOMAIN lastLine \cup {<<r.type, r.leaf>>} |->
               IF k = <<r.type, r.leaf>> THEN r ELSE lastLine[k]]
       ELSE lastLine
  /\ UNCHANGED <<mode, room, types, udtChain, stands>>

\* Mutant: the first record of a type, of whichever leaf.
OfAnyLeaf(t, leaf) ==
  LET at == {k \in DOMAIN idChain : fIsUdtSrcLine(items[idChain[k]]) /\ items[idChain[k]].type = t}
  IN IF at = {} THEN 0 ELSE idChain[Min(at)]

getSrcInfoRecordIdForUDT(t, leaf) ==
  LET at == {k \in DOMAIN idChain : fSameUdtSrcLine(items[idChain[k]], t, leaf)}
  IN IF at = {} THEN 0 ELSE idChain[Min(at)]

SaysLine(t, leaf, src) ==
  /\ LET id == getSrcInfoRecordIdForUDT(t, leaf) IN
     told' = IF id = 0 \/ src[items[id].src] = NoString
             THEN [what |-> "no line", type |-> t, leaf |-> leaf, found |-> id # 0]
             ELSE [what |-> "line", type |-> t, leaf |-> leaf, line |-> items[id].line,
                   imod |-> IF items[id].leaf = "UDT_MOD_SRC_LINE" THEN items[id].imod ELSE 0,
                   src |-> src[items[id].src]]
  /\ UNCHANGED <<mode, room, types, udtChain, items, idChain, stands, lastLine>>

\* The name of an index, and an index itself.
getName == [ni \in Nat |-> IF ni \in DOMAIN Names THEN Names[ni] ELSE NoString]
Index == <<"its index">>
AsIs == [id \in Nat |-> Index]

QuerySrcIdLineForUDT(t) == SaysLine(t, "UDT_SRC_LINE", AsIs)
QueryModSrcLineForUDTDefn(t) == SaysLine(t, "UDT_MOD_SRC_LINE", AsIs)
QueryModSrcLineForUDT(t, fQueryMod) ==
  IF fQueryMod THEN SaysLine(t, "UDT_MOD_SRC_LINE", getName)
  ELSE SaysLine(t, "UDT_SRC_LINE", GetStringForId)

-----------------------------------------------------------------------------
Init ==
  /\ mode \in {"w", "aw"} /\ room \in Rooms
  /\ types = <<>> /\ udtChain = <<>> /\ items = <<>> /\ idChain = <<>>
  /\ told = [what |-> "none"]
  /\ stands = <<>> /\ lastLine = <<>>

OnTypes ==
  \/ \E ms \in FieldLists : GiveFieldList(ms)
  \/ \E u \in Udts : GiveUdt(u)
  \/ \E n \in DOMAIN Fold, fCase \in BOOLEAN : QueryTiForUDT(n, fCase)
OnLines ==
  \/ \E r \in Lines : GiveItem(r)
  \/ \E text \in Texts, n \in 0 .. MaxSubs : \E subs \in [1 .. n -> StringIds] :
       GiveItem([leaf |-> "STRING_ID", name |-> text, subs |-> subs])
  \/ \E t \in {r.type : r \in Lines} :
       \/ QuerySrcIdLineForUDT(t)
       \/ QueryModSrcLineForUDTDefn(t)
       \/ \E fQueryMod \in BOOLEAN : QueryModSrcLineForUDT(t, fQueryMod)
Next == (room[1] > 0 /\ OnTypes) \/ (room[2] > 0 /\ OnLines)

Spec == Init /\ [][Next]_vars

-----------------------------------------------------------------------------
(* Properties.                                                             *)

\* A name stands for the definition that a client gave under it last, new or not, and for
\* none before; when case is ignored, for one whose name is the same
\* (tpi.cpp:1145-1225, 1946-1996).
UdtRight ==
  told.what = "udt" =>
    /\ told.ti # 0 => fIsDefnUdt(types[told.ti]) /\ ~types[told.ti].anon
    /\ IF told.fCase THEN told.ti = IF told.name \in DOMAIN stands THEN stands[told.name] ELSE 0
       ELSE LET same == {stands[n] : n \in {m \in DOMAIN stands : Fold[m] = Fold[told.name]}}
            IN IF same = {} THEN told.ti = 0 ELSE told.ti \in same

\* While types are only appended, all definitions of a name have the same data members,
\* in the same order, however many edits it took (tpi.cpp:845-931, 1066-1075).
Data(r) ==
  LET list == {ti \in ToSet(r.tis) : IsFieldList(ti)}
  IN {SelectSeq(types[ti].members, LAMBDA m : ~IsFunction(m)) : ti \in list}
LayoutKept ==
  fAppend => \A ti, tj \in DOMAIN types :
    KeyOf(types[ti]) # "none" /\ KeyOf(types[ti]) = KeyOf(types[tj]) =>
      Data(types[ti]) = Data(types[tj])

\* The line of a definition is the one that was added last for it, by the compiler or by the
\* linker as asked for; a client is told of one whenever there is one whose source file has
\* a name (tpi.cpp:1999-2222).
LineRight ==
  /\ told.what = "line" =>
       LET r == lastLine[<<told.type, told.leaf>>] IN
       /\ <<told.type, told.leaf>> \in DOMAIN lastLine
       /\ told.line = r.line /\ (told.leaf = "UDT_MOD_SRC_LINE" => told.imod = r.imod)
       /\ told.src \in {Index, IF told.leaf = "UDT_MOD_SRC_LINE" THEN getName[r.src]
                                ELSE GetStringForId[r.src]}
  /\ told.what = "no line" => (told.found <=> <<told.type, told.leaf>> \in DOMAIN lastLine)

\* What the id of a string stands for: the strings of its list, then its own text.
String ==
  LET str[id \in StringIds] ==
        FoldLeft(LAMBDA s, sub : s \o str[sub], <<>>, items[id].subs) \o items[id].name
  IN str

\* The buffer that the caller makes room for has the size of the string, at any depth of
\* lists (tpi.cpp:2188-2194, 2274-2298).
SizeRight == \A id \in StringIds : StringCb[id] = Len(String[id])

\* Filling the buffer gives the string (tpi.cpp:2216-2224).
StringRight == \A id \in StringIds : GetStringForId[id] = String[id]

UdtLinesRight == UdtRight /\ LayoutKept /\ LineRight
=============================================================================
