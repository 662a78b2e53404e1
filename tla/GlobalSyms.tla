---------------------------- MODULE GlobalSyms ----------------------------
(* The global symbols of a DBI (GSI1): every module that is closed packs    *)
(* its globals into the table and then gives back those of its last         *)
(* session.  One that finds no type map does neither, and what the module   *)
(* had in the table stays there for good.  In a PDB with minimal debug      *)
(* information a module adds a reference for each of its symbols, and takes *)
(* all of them out at once.                                                 *)
EXTENDS SymChains

CONSTANTS
  Mods,      \* modules
  Recs,      \* the symbols that modules have
  SomeSyms,  \* what a module has when it is closed: sequences of Recs
  MaxRecs,   \* bound: records that are ever added
  MaxLeft    \* bound: references left behind by modules without a type map

VARIABLES
  mini,      \* m_fMinimalDbgInfo
  pc,        \* "write", "read" or "closed"
  recs,      \* bufSymRecs
  chains,    \* rgphrBuckets
  refs,      \* the global references in each module's stream
  hash,      \* the stream of the table, while the table is not in memory
  left,      \* ghost: how often a record was left behind
  given      \* ghost: what each module gave since it was last taken out, but constants and
             \* types (mini)

vars == <<mini, pc, recs, chains, refs, hash, left, given>>

Init ==
  /\ mini \in BOOLEAN
  /\ pc = "write"
  /\ recs = <<>>
  /\ chains = NoSyms
  /\ refs = [m \in Mods |-> <<>>]
  /\ hash = fWriteHash(NoSyms)
  /\ left = [r \in Recs |-> 0]
  /\ given = [m \in Mods |-> {}]

-----------------------------------------------------------------------------
(* Packing: t is the table, the records and the offsets handed out *)
Same(chain, r) == {i \in DOMAIN chain : chain[i].rec = r}
BucketOf(r) == hashSz[r.name]

Insert(t, r, i) ==
  [t EXCEPT !.recs = Append(@, r), !.offs = Append(@, Len(t.recs) + 1),
            !.chains[BucketOf(r)] = fInsertNewSym(@, i, r, Len(t.recs) + 1)]
Share(t, r, i) ==
  [t EXCEPT !.offs = Append(@, t.chains[BucketOf(r)][i].off),
            !.chains[BucketOf(r)] = incRefCnt(@, i)]

PacksLast(t, r) ==
  LET chain == t.chains[BucketOf(r)]
      same == fFindRec(chain, r.name) \cap Same(chain, r)
  IN IF same # {} THEN Share(t, r, Min(same)) ELSE Insert(t, r, Past(chain, r.name))

\* A global only looks at the first of its name: it goes before all of them.
packSym(t, r) ==
  LET chain == t.chains[BucketOf(r)]
      found == fFindRec(chain, r.name)
      looked == IF r.global /\ found # {} THEN {Min(found)} ELSE found
      same == looked \cap Same(chain, r)
  IN IF same # {} THEN Share(t, r, Min(same))
     ELSE IF r.global /\ found # {} THEN Insert(t, r, Min(found))
     ELSE Insert(t, r, Past(chain, r.name))

\* The first constant or type of a name wins; one that differs stays in the module.
packSymSPD(t, r) ==
  LET chain == t.chains[BucketOf(r)]
      found == {i \in fFindRec(chain, r.name) : chain[i].rec.name = r.name}
      same == found \cap Same(chain, r)
  IN IF same # {} THEN Share(t, r, Min(same))
     ELSE IF found = {} THEN Insert(t, r, Past(chain, r.name))
     ELSE t

Pack(t, r) == IF r.spd THEN packSymSPD(t, r) ELSE packSym(t, r)

\* The symbol at an offset is looked up by what it is.
UnlinksAtOnce(t, o) ==
  LET r == t.recs[o]
  IN [t EXCEPT !.chains[BucketOf(r)] = fUnlinkHR(@, Min(Same(@, r)))]
decRefCnt(t, o) ==
  LET r == t.recs[o]
      chain == t.chains[BucketOf(r)]
      i == Min(fFindRec(chain, r.name) \cap Same(chain, r))
  IN [t EXCEPT !.chains[BucketOf(r)] =
        IF chain[i].cRef > 1 THEN [@ EXCEPT ![i].cRef = @ - 1] ELSE fUnlinkHR(@, i)]

Table == [recs |-> recs, chains |-> chains, offs |-> <<>>]

-----------------------------------------------------------------------------
\* Mod1::Close: fProcessSyms, fProcessGlobalRefs, fCommit.
CloseMod(m, syms) ==
  /\ pc = "write" /\ ~mini
  /\ LET t == FoldLeft(decRefCnt, FoldLeft(Pack, Table, syms), refs[m])
     IN /\ Len(t.recs) <= MaxRecs
        /\ recs' = t.recs /\ chains' = t.chains
        /\ refs' = [refs EXCEPT ![m] = t.offs]
  /\ UNCHANGED <<mini, pc, hash, left, given>>

RefsTo(m, r) == Cardinality({k \in DOMAIN refs[m] : recs[refs[m][k]] = r})

\* fUpdateSyms: a module that has types and no type map does neither of the first two;
\* its stream names none of the references that it has in the table.
CloseModWithoutTM(m) ==
  /\ pc = "write" /\ ~mini
  /\ refs[m] # <<>> /\ SumFunction(left) + Len(refs[m]) <= MaxLeft
  /\ refs' = [refs EXCEPT ![m] = <<>>]
  /\ left' = [r \in Recs |-> left[r] + RefsTo(m, r)]
  /\ UNCHANGED <<mini, pc, recs, chains, hash, given>>

\* Minimal debug information: a record names its module.  Of the types and the
\* constants of a name there is one, whatever the module.  Bound: no entry is referred
\* to more often than there are modules.
packRefForMiniPDB(m, s) ==
  /\ pc = "write" /\ mini
  /\ LET r == [s EXCEPT !.imod = m]
         chain == chains[BucketOf(r)]
         found == fFindRec(chain, r.name)
         like == {i \in found : chain[i].rec = r \/ (r.spd /\ chain[i].rec.name = r.name)}
         looked == IF r.global /\ found # {} THEN {Min(found)} ELSE found
         t == IF looked \cap like # {} THEN Share(Table, r, Min(looked \cap like))
              ELSE IF r.global /\ found # {} THEN Insert(Table, r, Min(found))
              ELSE Insert(Table, r, Past(chain, r.name))
     IN /\ Len(t.recs) <= MaxRecs
        /\ \A b \in Buckets : \A i \in DOMAIN t.chains[b] : t.chains[b][i].cRef <= Cardinality(Mods)
        /\ recs' = t.recs /\ chains' = t.chains
        /\ given' = IF r.spd THEN given ELSE [given EXCEPT ![m] = @ \cup {r}]
  /\ UNCHANGED <<mini, pc, refs, hash, left>>

\* Taking an entry out moves its link to the free list, so a place that was noted
\* in the entry before it is lost: of neighbours, every second one stays.
Unlinked(chain, m) ==
  LET out[i \in 0 .. Len(chain)] == i > 0 /\ chain[i].rec.imod = m /\ ~out[i - 1]
  IN {i \in DOMAIN chain : out[i]}
Kept(chain, out) ==
  LET stay == SetToSortSeq(DOMAIN chain \ out, <)
  IN [k \in DOMAIN stay |-> chain[stay[k]]]
removeGlobalRefsForMod(m) ==
  /\ pc = "write" /\ mini
  /\ chains' = [b \in Buckets |-> Kept(chains[b], Unlinked(chains[b], m))]
  /\ chains' # chains
  /\ given' = [given EXCEPT ![m] = {}]
  /\ UNCHANGED <<mini, pc, recs, refs, hash, left>>

fSave ==
  /\ pc = "write"
  /\ hash' = fWriteHash(chains)
  /\ chains' = NoSyms /\ pc' = "closed"
  /\ UNCHANGED <<mini, recs, refs, left, given>>

fInit(mode) ==
  /\ pc = "closed"
  /\ chains' = fixHashIn(hash) /\ hash' = fWriteHash(NoSyms)
  /\ pc' = mode
  /\ UNCHANGED <<mini, recs, refs, left, given>>

Close ==
  /\ pc = "read" /\ pc' = "closed"
  /\ hash' = fWriteHash(chains) /\ chains' = NoSyms
  /\ UNCHANGED <<mini, recs, refs, left, given>>

Next ==
  \/ \E m \in Mods, syms \in SomeSyms : CloseMod(m, syms)
  \/ \E m \in Mods : CloseModWithoutTM(m) \/ removeGlobalRefsForMod(m)
  \/ \E m \in Mods, s \in Recs : packRefForMiniPDB(m, s)
  \/ fSave \/ Close
  \/ \E mode \in {"read", "write"} : fInit(mode)

Spec == Init /\ [][Next]_vars

-----------------------------------------------------------------------------
Entries == {<<b, i>> \in Buckets \X (1 .. MaxRecs) : i \in DOMAIN chains[b]}
Hr(e) == chains[e[1]][e[2]]

\* A record is in the table as often as modules refer to it or left it behind: no
\* module's closing drops a symbol of another, and none stays that nobody has, but for
\* those of modules that once lost their type map (incRefCnt, decRefCnt, which finds a
\* record by what it holds, fUpdateSyms).
CountsRight ==
  ~mini /\ pc # "closed" =>
    \A r \in Recs :
      MapThenSumSet(LAMBDA e : IF Hr(e).rec = r THEN Hr(e).cRef ELSE 0, Entries)
      = MapThenSumSet(LAMBDA m : RefsTo(m, r), Mods) + left[r]

\* Taking a module's references out leaves those of the others: what a module gave since
\* is in the table, but for constants and types, of which the modules of a name have one
\* that goes with the first of them (removeGlobalRefsForMod, packRefForMiniPDB).
OthersKept ==
  mini /\ pc # "closed" =>
    \A m \in Mods : \A r \in given[m] : \E e \in Entries : Hr(e).rec = r

\* A search for a name gives every symbol of that name, whatever its case, after
\* any packing, removal, save and load (fFindRec, HashSym).
LookupRight ==
  \A n \in SymNames :
    {chains[hashSz[n]][i].off : i \in HashSym(chains, n)}
    = {Hr(e).off : e \in {x \in Entries : Lower(Hr(x).rec.name) = Lower(n)}}

\* Of one name, the globals come before the others (packSym).
GlobalsFirst ==
  \A b \in Buckets : \A i, j \in DOMAIN chains[b] :
    i < j /\ Cmp(chains[b], i, chains[b][j].rec.name) = 0 /\ chains[b][j].rec.global
      => chains[b][i].rec.global

\* Of a name there is one promoted constant or type (packSymSPD).
PromotedOnce ==
  \A b \in Buckets : \A i, j \in DOMAIN chains[b] :
    /\ ~mini /\ i # j
    /\ chains[b][i].rec.spd /\ chains[b][j].rec.spd
    => chains[b][i].rec.name # chains[b][j].rec.name

\* What was saved is what is read (fWriteHash, CompressBuckets, ExpandBuckets,
\* fixHashIn).
SavedRight == pc # "closed" => fixHashIn(fWriteHash(chains)) = chains
=============================================================================
