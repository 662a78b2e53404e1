------------------------------ MODULE TypePool ------------------------------
(***************************************************************************)
(* The type pool TPI1 of PDB/dbi/tpi.cpp: type records numbered in the      *)
(* order they are added, hash chains to find a record or the type that a    *)
(* name stands for, and the two streams that keep them.                     *)
(*                                                                         *)
(*  - A record is a value.  Udt gives the name of those that define a class *)
(*    or the like under a name; such a record is hashed by that name, an    *)
(*    LF_UDT_SRC_LINE record by the type it is about, any other by itself.  *)
(*  - The hash stream is a sequence of items, a hash value, a <TI, OFF>     *)
(*    pair or a hash adjuster each; the header counts them.                 *)
(*  - A client commits the PDB after TPI1::Commit succeeded.                *)
(*  - The pool has the current version; memory and type indices suffice.    *)
(***************************************************************************)
EXTENDS Integers, FiniteSets, FiniteSetsExt, SequencesExt

CONSTANTS
  TypeRecs,
  UdtName,    \* the name of each record that is a definition under a name
  SrcLines,   \* the LF_UDT_SRC_LINE records
  ChainOf,    \* the chain of a name and of each other record
  RecSize,    \* the bytes of each record
  TiOffSpan,  \* the bytes from one <TI, OFF> pair to the next, 8K in the code
  BlkRecs,    \* the records in a block of the memory pool
  LegalEdits, \* pairs: the first is a legal edit of the second
  PoolModes   \* the ways it is opened, of "r", "w", "a" and "aw"

UdtNames == {UdtName[r] : r \in DOMAIN UdtName}
Buckets == {ChainOf[x] : x \in DOMAIN ChainOf}

TypePoolAssumption ==
  /\ DOMAIN UdtName \subseteq TypeRecs /\ SrcLines \subseteq TypeRecs \ DOMAIN UdtName
  /\ DOMAIN ChainOf = UdtNames \cup (TypeRecs \ DOMAIN UdtName)
  /\ RecSize \in [TypeRecs -> Nat \ {0}] /\ TiOffSpan \in Nat \ {0} /\ BlkRecs \in Nat \ {0}
  /\ LegalEdits \subseteq TypeRecs \X TypeRecs
  /\ PoolModes \subseteq {"r", "w", "a", "aw"}

VARIABLES
  mode,
  pool,       \* mptiprec: the record of each type index, from 1
  hashChains, \* mphashpchn
  heads,      \* mpnitiHead: the type that is to be the head for a name
  names,      \* the names that the name map has
  tioff,      \* bufTiOff
  blocks,     \* the blocks of poolRec that are not committed, from which type to which
  newHash,    \* the hash values that are not committed
  hdr,        \* the header in memory
  streams,    \* both streams and the name map, as they are in the session
  typeDisk,   \* and as they were committed
  kept,       \* the pool and the type of each name at the last commit
  answer,     \* was what the last query for a record returned the record's index?
  failed      \* did a commit fail since it was opened?

tables == <<pool, hashChains, heads, names, tioff, blocks, newHash>>
typeVars == <<mode, tables, hdr, streams, typeDisk, kept, answer, failed>>

fWrite == mode \in {"w", "aw"}
fAppend == mode \in {"a", "aw"}

-----------------------------------------------------------------------------
(* Chains.                                                                 *)

hashPrec(r) == ChainOf[IF r \in DOMAIN UdtName THEN UdtName[r] ELSE r]

\* The places of the definitions under a name in its chain.
SameUDT(p, chain, n) ==
  {k \in DOMAIN chain : p[chain[k]] \in DOMAIN UdtName /\ UdtName[p[chain[k]]] = n}

\* QueryTiForUDT: the first of them.
FirstUDT(p, chain, n) ==
  IF SameUDT(p, chain, n) = {} THEN 0 ELSE chain[Min(SameUDT(p, chain, n))]
TiForUDT(p, c, n) == FirstUDT(p, c[ChainOf[n]], n)

\* The k-th of a chain goes before the others.
AtHead(chain, k) ==
  [j \in DOMAIN chain |-> IF j = 1 THEN chain[k] ELSE IF j <= k THEN chain[j - 1] ELSE chain[j]]

TiOf(r) == {ti \in DOMAIN pool : pool[ti] = r}

\* Where each of rs begins, one after the other, and where they end.
Offsets(rs) ==
  LET off[j \in 1 .. Len(rs) + 1] == IF j = 1 THEN 0 ELSE off[j - 1] + RecSize[rs[j - 1]]
  IN off

\* Mutant: the pair has the index that is free next.
NextTiOff(ti, off) ==
  IF tioff = <<>> \/ Last(tioff)[2] \div TiOffSpan < off \div TiOffSpan
  THEN Append(tioff, <<ti + 1, off>>) ELSE tioff

\* RecordTiOff
RecordTiOff(ti, off) ==
  IF tioff = <<>> \/ Last(tioff)[2] \div TiOffSpan < off \div TiOffSpan
  THEN Append(tioff, <<ti, off>>) ELSE tioff

Without(n) == [m \in DOMAIN heads \ {n} |-> heads[m]]
With(n, ti) == [m \in DOMAIN heads \cup {n} |-> IF m = n THEN ti ELSE heads[m]]

-----------------------------------------------------------------------------
(* Loading.                                                                *)

NoHdr == [sn |-> FALSE, nhash |-> -1, ntioff |-> -1, nadj |-> -1, tiMac |-> 0, nrec |-> 0]

ItemsOf(d, first, n) ==
  [i \in {j \in 1 .. n : first + j - 1 \in DOMAIN d.hash} |-> d.hash[first + i - 1]]

Hashes(d) == ItemsOf(d, 1, d.hdr.nhash)
TiOffs(d) == ItemsOf(d, d.hdr.nhash + 1, d.hdr.ntioff)
Adjusts(d) == ItemsOf(d, d.hdr.nhash + d.hdr.ntioff + 1, d.hdr.nadj)

Sound(d) ==
  /\ \A x \in Range(Hashes(d)) : x.kind = "hash"
  /\ \A x \in Range(TiOffs(d)) : x.kind = "tioff"
  /\ \A x \in Range(Adjusts(d)) : x.kind = "adj"
  /\ Len(Hashes(d)) = d.hdr.tiMac

\* fLoadRecBlk: the record that a type index has when its block is read.
RecLoaded(d, ti) ==
  LET t == TiOffs(d)
      last == Len(t)
      within == {k \in 1 .. last - 1 : t[k].ti <= ti /\ ti < t[k + 1].ti}
      i == IF within # {} THEN Min(within) ELSE last
      off == Offsets(d.recs)
      starts == {j \in DOMAIN d.recs : off[j] = t[i].off} IN
  IF last = 0 \/ starts = {} THEN "none"
  ELSE LET at == Min(starts) + ti - t[i].ti IN
       IF t[i].ti <= ti /\ at \in 1 .. d.hdr.nrec THEN d.recs[at] ELSE "none"

LoadedPool(d) == [ti \in 1 .. d.hdr.tiMac |-> RecLoaded(d, ti)]

\* Mutant: the adjusters are not followed.
Unpromoted(chain, ti) == chain

\* The type of an adjuster becomes the head of its chain.
Promoted(chain, ti) ==
  LET at == {k \in DOMAIN chain : chain[k] = ti} IN
  IF at = {} THEN chain ELSE AtHead(chain, Min(at))

\* fInitHashToPchnMap: each type goes before the earlier ones, and then those
\* that are to be heads go first.
LinkNext(d, i, c) ==
  IF i <= d.hdr.tiMac THEN [c EXCEPT ![Hashes(d)[i].v] = <<i>> \o @]
  ELSE LET a == Adjusts(d)[i - d.hdr.tiMac] IN
       [c EXCEPT ![ChainOf[a.name]] = Promoted(@, a.ti)]

LoadedChains(d) ==
  LET last == d.hdr.tiMac + Cardinality(DOMAIN Adjusts(d))
      c[i \in 0 .. last] ==
        IF i = 0 THEN [b \in Buckets |-> <<>>] ELSE LinkNext(d, i, c[i - 1])
  IN c[last]

LoadedHeads(d) ==
  [n \in {a.name : a \in Range(Adjusts(d))} |->
     (CHOOSE a \in Range(Adjusts(d)) : a.name = n).ti]

-----------------------------------------------------------------------------
(* Queries.                                                                *)

FoundRec(r, ti) ==
  /\ answer' = IF ti \in DOMAIN pool /\ pool[ti] = r THEN "right" ELSE "wrong"
  /\ UNCHANGED <<tables, hdr>>
Refuse == answer' = "refused" /\ UNCHANGED <<tables, hdr>>

\* AddNewTypeRecord
AddNewTypeRecord(r) ==
  LET ti == Len(pool) + 1
      full == blocks = <<>> \/ Last(blocks)[2] - Last(blocks)[1] + 1 = BlkRecs IN
  /\ pool' = Append(pool, r)
  /\ hashChains' = [hashChains EXCEPT ![hashPrec(r)] = <<ti>> \o @]
  /\ newHash' = Append(newHash, [kind |-> "hash", v |-> hashPrec(r)])
  /\ tioff' = RecordTiOff(ti, Offsets(pool)[ti])
  /\ blocks' = IF full THEN Append(blocks, <<ti, ti>>) ELSE [blocks EXCEPT ![Len(blocks)][2] = ti]
  /\ hdr' = [hdr EXCEPT !.tiMac = ti]
  /\ answer' = "right"

\* The hash adjuster that a promotion leaves: none when no type before it in the
\* chain has a larger index, though one after it may.
Adjusted(n, ti, seen) == IF ti < Max(seen) THEN With(n, ti) ELSE Without(n)

PromoteTIForUDT(r, n, k) ==
  LET chain == hashChains[ChainOf[n]]
      seen == {chain[j] : j \in {i \in SameUDT(pool, chain, n) : i <= k}} IN
  /\ hashChains' = [hashChains EXCEPT ![ChainOf[n]] = AtHead(@, k)]
  /\ names' = names \cup {n}
  /\ heads' = Adjusted(n, chain[k], seen)
  /\ answer' = IF pool[chain[k]] = r THEN "right" ELSE "wrong"
  /\ UNCHANGED <<pool, tioff, blocks, newHash, hdr>>

\* Mutant: only the compiler's edits are looked at.
LegalForAppend(r, last) == ~fAppend \/ fWrite \/ last = 0 \/ <<r, pool[last]>> \in LegalEdits

LegalEdit(r, last) == ~fAppend \/ last = 0 \/ <<r, pool[last]>> \in LegalEdits

\* QueryTiForCVRecord for a definition under a name.
QueryUDT(r) ==
  LET n == UdtName[r]
      chain == hashChains[ChainOf[n]]
      same == SameUDT(pool, chain, n)
      at == {k \in same : pool[chain[k]] = r}
      last == FirstUDT(pool, chain, n) IN
  /\ IF at # {}
     THEN IF Min(at) = Min(same) \/ mode = "a"
          THEN FoundRec(r, chain[Min(at)])
          ELSE IF ~fWrite \/ ~LegalEdit(r, last) THEN Refuse
          ELSE PromoteTIForUDT(r, n, Min(at))
     ELSE IF mode = "r" \/ ~LegalEdit(r, last) THEN Refuse
     ELSE /\ heads' = IF n \in names THEN Without(n) ELSE heads
          /\ AddNewTypeRecord(r)
          /\ UNCHANGED names
  /\ UNCHANGED <<mode, streams, typeDisk, kept, failed>>

\* A record about the source line of a type: what was found is not returned.
QuerySrcLine(r) ==
  /\ IF TiOf(r) # {} THEN FoundRec(r, 0)
     ELSE IF mode = "r" THEN Refuse
     ELSE AddNewTypeRecord(r) /\ UNCHANGED <<heads, names>>
  /\ UNCHANGED <<mode, streams, typeDisk, kept, failed>>

\* Mutant: the head of the chain only is compared.
LooksAtHead(r) ==
  {ti \in DOMAIN pool : pool[ti] = r /\ Head(hashChains[hashPrec(r)]) = ti}

LookupNonUDTCVRecord(r) ==
  {ti \in Range(hashChains[hashPrec(r)]) : pool[ti] = r}

QueryOther(r) ==
  /\ IF LookupNonUDTCVRecord(r) # {}
     THEN FoundRec(r, Max(LookupNonUDTCVRecord(r)))
     ELSE IF mode = "r" THEN Refuse
     ELSE AddNewTypeRecord(r) /\ UNCHANGED <<heads, names>>
  /\ UNCHANGED <<mode, streams, typeDisk, kept, failed>>

QueryTiForCVRecord(r) ==
  \/ r \in DOMAIN UdtName /\ QueryUDT(r)
  \/ r \in SrcLines /\ QuerySrcLine(r)
  \/ r \notin DOMAIN UdtName \cup SrcLines /\ QueryOther(r)

-----------------------------------------------------------------------------
(* Commits.                                                                *)

\* The records in blocks, one after the other.
RecsOf(bs) == IF bs = <<>> THEN <<>> ELSE SubSeq(pool, bs[1][1], Last(bs)[2])

AdjustItems ==
  SetToSeq({[kind |-> "adj", name |-> n, ti |-> heads[n]] : n \in DOMAIN heads})
TiOffItems == [i \in DOMAIN tioff |-> [kind |-> "tioff", ti |-> tioff[i][1], off |-> tioff[i][2]]]

\* Mutant: what was after the hash values stays.
NotTruncated == streams.hash \o newHash

\* The hash stream after the new values are in it.  A header with no count
\* makes TruncateStream fail.
Truncated == SubSeq(streams.hash, 1, Min({hdr.nhash, Len(streams.hash)}))
HashWritten == IF ~hdr.sn THEN newHash ELSE Truncated \o newHash

\* The header that fCommit lays the stream out by.
NewHdr(h) ==
  [h EXCEPT !.sn = TRUE, !.nhash = h.tiMac, !.ntioff = Len(tioff),
            !.nadj = Len(AdjustItems)]

TypeOfName == [n \in UdtNames |-> TiForUDT(pool, hashChains, n)]

\* Commit, and the client commits the PDB.
CommitTypes ==
  /\ fWrite
  /\ hdr.sn => hdr.nhash >= 0
  /\ hdr' = NewHdr([hdr EXCEPT !.nrec = @ + Len(RecsOf(blocks))])
  /\ streams' = [recs |-> streams.recs \o RecsOf(blocks),
                 hash |-> HashWritten \o TiOffItems \o AdjustItems,
                 hdr |-> hdr', names |-> names]
  /\ typeDisk' = streams'
  /\ kept' = [pool |-> pool, type |-> TypeOfName]
  /\ blocks' = <<>> /\ newHash' = <<>>
  /\ UNCHANGED <<mode, pool, hashChains, heads, names, tioff, answer, failed>>

\* fCommit fails when the block after the first n is written ...
CommitFailsAtBlock(n) ==
  LET done == RecsOf(SubSeq(blocks, 1, n)) IN
  /\ fWrite /\ ~failed /\ n < Len(blocks)
  /\ streams' = [streams EXCEPT !.recs = @ \o done]
  /\ hdr' = [hdr EXCEPT !.nrec = @ + Len(done)]
  /\ failed' = TRUE
  /\ UNCHANGED <<mode, tables, typeDisk, kept, answer>>

\* ... or when the header is written.
CommitFailsAtHdr ==
  /\ fWrite /\ ~failed /\ (hdr.sn => hdr.nhash >= 0)
  /\ hdr' = NewHdr([hdr EXCEPT !.nrec = @ + Len(RecsOf(blocks))])
  /\ streams' = [streams EXCEPT !.recs = @ \o RecsOf(blocks),
                                !.hash = HashWritten \o TiOffItems \o AdjustItems]
  /\ blocks' = <<>>
  /\ failed' = TRUE
  /\ UNCHANGED <<mode, pool, hashChains, heads, names, tioff, newHash, typeDisk, kept, answer>>

CommitFails == CommitFailsAtHdr \/ \E n \in DOMAIN blocks : CommitFailsAtBlock(n - 1)

-----------------------------------------------------------------------------
NoTypes == [recs |-> <<>>, hash |-> <<>>, hdr |-> NoHdr, names |-> {}]

\* fOpen: what is on the disk is loaded.
OpenTypes(m) ==
  /\ mode' = m
  /\ streams' = typeDisk
  /\ hdr' = typeDisk.hdr
  /\ pool' = LoadedPool(typeDisk)
  /\ hashChains' = LoadedChains(typeDisk)
  /\ heads' = LoadedHeads(typeDisk)
  /\ names' = typeDisk.names
  /\ tioff' = [i \in DOMAIN TiOffs(typeDisk) |-> <<TiOffs(typeDisk)[i].ti, TiOffs(typeDisk)[i].off>>]
  /\ blocks' = <<>> /\ newHash' = <<>>
  /\ answer' = "none"
  /\ failed' = FALSE
  /\ UNCHANGED <<typeDisk, kept>>

TypesInit ==
  /\ mode = "w"
  /\ pool = <<>> /\ hashChains = [b \in Buckets |-> <<>>] /\ heads = <<>> /\ names = {}
  /\ tioff = <<>> /\ blocks = <<>> /\ newHash = <<>>
  /\ hdr = NoHdr /\ streams = NoTypes /\ typeDisk = NoTypes
  /\ kept = [pool |-> <<>>, type |-> [n \in UdtNames |-> 0]]
  /\ answer = "none"
  /\ failed = FALSE

TypeCalls ==
  \/ \E r \in TypeRecs : QueryTiForCVRecord(r)
  \/ CommitFails
  \/ \E m \in PoolModes : typeDisk.hdr.sn /\ OpenTypes(m)

\* A client that gives up when a commit failed.
TypesNext == TypeCalls \/ (~failed /\ CommitTypes)

TypesSpec == TypesInit /\ [][TypesNext]_typeVars

\* A client that tries again, as Close does after a Commit of the client's.
TypesRetrySpec == TypesInit /\ [][TypeCalls \/ CommitTypes]_typeVars

-----------------------------------------------------------------------------
(* Properties.                                                             *)

\* A record has one type index, its chain has it once, and no other chain
\* does (tpi.cpp:975-1065, 1174-1241).
OneTiPerRecord ==
  /\ \A ti, tj \in DOMAIN pool : pool[ti] = pool[tj] => ti = tj
  /\ \A b \in Buckets :
       /\ IsInjective(hashChains[b])
       /\ Range(hashChains[b]) = {ti \in DOMAIN pool : hashPrec(pool[ti]) = b}

\* A query that succeeds returns the index of the record it was asked for
\* (tpi.cpp:1122-1294).
AnswerRight == answer # "wrong"

\* Whoever opens what was committed finds each record under the index it had,
\* block by block (tpi.cpp:1331-1416, 1672-1779).
TisKept == typeDisk.hdr.sn => Sound(typeDisk) /\ LoadedPool(typeDisk) = kept.pool

PoolRight == OneTiPerRecord /\ TisKept

\* ... and a name stands for the type it stood for at the commit, although
\* the chains are built anew (tpi.cpp:566-611, 645-685, 1106-1117).  A name of
\* three definitions may not: see Adjusted.
TypesKept ==
  typeDisk.hdr.sn /\ Sound(typeDisk) =>
    \A n \in UdtNames : TiForUDT(LoadedPool(typeDisk), LoadedChains(typeDisk), n) = kept.type[n]

\* While types are only appended, what a name stands for changes by legal
\* edits only (tpi.cpp:1213-1222, 1273-1277).
EditsLegal ==
  [][fAppend /\ answer' # "none" =>
       \A n \in UdtNames :
         LET old == TiForUDT(pool, hashChains, n)
             new == TiForUDT(pool', hashChains', n) IN
         old # 0 /\ new # old /\ pool'[new] # pool[old]
           => <<pool'[new], pool[old]>> \in LegalEdits]_typeVars
=============================================================================
