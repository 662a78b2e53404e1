---------------------------- MODULE SymChains ----------------------------
(* The hash table of a symbol table (GSI1, and PSGSI1 which inherits it):   *)
(* chains of records, each in the order of the names, and their form in the *)
(* stream.  An entry is a record (HR); hr.rec is the symbol it points to    *)
(* and hr.off the offset of that symbol among the symbol records.           *)
EXTENDS Integers, Sequences, FiniteSets, FiniteSetsExt, SequencesExt

CONSTANTS
  SymNames,     \* names: sequences of bytes
  iphrHash,  \* the number of buckets
  hashSz     \* the bucket of each name

Lower(n) == [i \in DOMAIN n |-> IF n[i] \in 65 .. 90 THEN n[i] + 32 ELSE n[i]]

ChainsAssumption ==
  /\ iphrHash \in Nat \ {0}
  /\ hashSz \in [SymNames -> 0 .. iphrHash - 1]
  /\ \A n, m \in SymNames : Lower(n) = Lower(m) => hashSz[n] = hashSz[m]

Buckets == 0 .. iphrHash - 1
NoSyms == [b \in Buckets |-> <<>>]

-----------------------------------------------------------------------------
(* The order of the names *)
IsASCIIString(n) == \A i \in DOMAIN n : n[i] < 128

memcmp(n, m) ==
  LET differ == {i \in DOMAIN n : n[i] # m[i]}
  IN IF differ = {} THEN 0 ELSE n[Min(differ)] - m[Min(differ)]

CaseKept(n, m) == IF Len(n) # Len(m) THEN Len(n) - Len(m) ELSE memcmp(n, m)

\* By length; then, of two names in ASCII, whatever their case.
caseInsensitiveCompare(n, m) ==
  IF Len(n) # Len(m) THEN Len(n) - Len(m)
  ELSE IF IsASCIIString(m) /\ IsASCIIString(n) THEN memcmp(Lower(n), Lower(m))
  ELSE memcmp(n, m)

-----------------------------------------------------------------------------
(* A chain *)
Cmp(chain, i, sz) == caseInsensitiveCompare(chain[i].rec.name, sz)

\* The search gives up at the first entry past the name: a new one goes there.
Past(chain, sz) == Min({i \in DOMAIN chain : Cmp(chain, i, sz) > 0} \cup {Len(chain) + 1})

\* The entries that fFindRec, called again and again, stops at.
fFindRec(chain, sz) == {i \in 1 .. Past(chain, sz) - 1 : Cmp(chain, i, sz) = 0}

fInsertNewSym(chain, i, r, o) == InsertAt(chain, i, [rec |-> r, off |-> o, cRef |-> 1])
fUnlinkHR(chain, i) == RemoveAt(chain, i)
incRefCnt(chain, i) == [chain EXCEPT ![i].cRef = @ + 1]

\* HashSym, called with its last answer until there is none: all of a name.
HashSym(chains, sz) == fFindRec(chains[hashSz[sz]], sz)

\* NextSym, EnumGSISyms: everything.
AllSyms(chains) == FlattenSeq([k \in 1 .. iphrHash |-> chains[k - 1]])

-----------------------------------------------------------------------------
(* The form in the stream: the entries, and where the chain of each bucket  *)
(* that has one starts among them (a bit per bucket, and the offsets).      *)
Starts(chains, b) == Len(FlattenSeq([k \in 1 .. b |-> chains[k - 1]]))

CompressBuckets(chains) ==
  LET full == {b \in Buckets : chains[b] # <<>>}
  IN [bits |-> full,
      offs |-> [k \in 1 .. Cardinality(full) |->
                  Starts(chains, CHOOSE b \in full : Cardinality({c \in full : c < b}) = k - 1)]]

fWriteHash(chains) == [hrs |-> AllSyms(chains)] @@ CompressBuckets(chains)

ExpandBuckets(h, b) ==
  IF b \in h.bits THEN h.offs[Cardinality({c \in h.bits : c <= b})] ELSE -1

ToTheEnd(h) ==
  [b \in Buckets |->
     IF ExpandBuckets(h, b) = -1 THEN <<>> ELSE SubSeq(h.hrs, ExpandBuckets(h, b) + 1, Len(h.hrs))]

\* A chain reaches to where the next one starts: the entries are linked from the
\* last bucket to the first.
fixHashIn(h) ==
  [b \in Buckets |->
     LET from == ExpandBuckets(h, b)
         next == {ExpandBuckets(h, c) : c \in {d \in h.bits : d > b}}
     IN IF from = -1 THEN <<>> ELSE SubSeq(h.hrs, from + 1, Min(next \cup {Len(h.hrs)}))]
=============================================================================
