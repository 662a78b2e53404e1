------------------------------ MODULE PdbParts ------------------------------
(* The parts of an open PDB that threads share: its DBI, its pools of types *)
(* (TPI) and of ids (IPI), its source files (Src), and of a DBI its global  *)
(* symbols, its publics and its modules (pdb.cpp:1396-1786).  A part is     *)
(* made by the first that opens it, counted, and deleted by the last that   *)
(* closes it; modules are not counted, and the count of a pool changes      *)
(* outside of its lock.                                                     *)
EXTENDS Integers, Sequences, SequencesExt, FiniteSets

CONSTANTS
  Threads,
  NMods,      \* modules of the DBI
  MaxObjs,    \* objects at a time
  MaxCount,   \* the largest count, behind which it is zero
  Files       \* PDBs: access "r", "w" or shared "s"; ids, what is known of stream snIpi; sz,
              \* their format; uses, the parts that the clients use;
              \* most, the handles of a thread at a time

VARIABLES
  file,
  slot,       \* pdbi1, ptpi1, pipi and psrcimpl, NoObj for none
  count,      \* dwDBIOpenedCount, dwTPIOpenedCount, dwIPIOpenedCount, dwSrcImplOpenedCount
  objs,       \* what there is in memory
  held,       \* the handles that each thread was given and has not closed
  closing,    \* the pools that each thread is closing, the first one at the moment
  open,       \* the PDB is open
  raced, met  \* ghosts: a pool was opened or closed during a close of it; modules opened twice

vars == <<file, slot, count, objs, held, closing, open, raced, met>>

Pools == {"tpi", "ipi"}
Counted == Pools \cup {"dbi", "src"}
NoObj == 0

\* A part of any kind: the DBI it is of, and for a DBI what it holds.
NewPart(kind, of, writes) ==
  [kind |-> kind, of |-> of, writes |-> writes, refs |-> 1, own |-> 0,
   tpi |-> NoObj, ipi |-> NoObj, gs |-> NoObj, ps |-> NoObj, mods |-> [i \in 1 .. NMods |-> NoObj]]

-----------------------------------------------------------------------------
\* Calls that are made of several calls work on the state as a record.
Now == [slot |-> slot, count |-> count, objs |-> objs]
Become(s) == slot' = s.slot /\ count' = s.count /\ objs' = s.objs

Handles == UNION {ToSet(held[t]) : t \in Threads}
Free(s) == (1 .. MaxObjs) \ (DOMAIN s.objs \cup Handles)
Fresh(s) == CHOOSE o \in Free(s) : \A q \in Free(s) : o <= q
Made(s, o, x) == [s EXCEPT !.objs = [q \in DOMAIN s.objs \cup {o} |-> IF q = o THEN x ELSE s.objs[q]]]
\* What is left of a DBI that is deleted is of none.
Deleted(s, o) ==
  [s EXCEPT !.objs = [q \in DOMAIN s.objs \ {o} |-> [s.objs[q] EXCEPT !.of = IF @ = o THEN NoObj ELSE @]]]

\* PDB1::OpenTpi and OpenIpi; TypePool has what the mode of the first opener allows.
PoolOpened(s, p) ==
  LET o == Fresh(s)
      r == IF s.slot[p] # NoObj THEN s
           ELSE [Made(s, o, NewPart(p, NoObj, FALSE)) EXCEPT !.slot[p] = o]
  IN [r EXCEPT !.count[p] = @ + 1]

\* PDB1::internal_CloseTPI without other threads, and TPI1::Close.
PoolOf(s, o) == IF o = s.slot.tpi THEN "tpi" ELSE "ipi"
PoolDropped(s, o) == Deleted([s EXCEPT !.slot[PoolOf(s, o)] = NoObj], o)
PoolClosed(s, o) ==
  LET r == [s EXCEPT !.count[PoolOf(s, o)] = @ - 1]
  IN IF o = NoObj THEN s ELSE IF r.count[PoolOf(s, o)] # 0 THEN r ELSE PoolDropped(r, o)

\* GSI1::Close and PSGSI1::Close; field is pgsiGS or pgsiPS of the DBI.
SymsClosed(s, o) ==
  LET r == [s EXCEPT !.objs[o].refs = @ - 1]
      x == s.objs[o]
  IN IF o = NoObj THEN s
     ELSE IF x.refs > 1 THEN r
     ELSE IF x.kind = "gs" THEN Deleted([s EXCEPT !.objs[x.of].gs = NoObj], o)
     ELSE Deleted([s EXCEPT !.objs[x.of].ps = NoObj], o)

\* DBI1::internal_Close, but for the pools of the DBI, which ~DBI1 closes.
DbiDeleted(s, o) ==
  LET gs == SymsClosed(s, s.objs[o].gs)
  IN Deleted(SymsClosed(gs, s.objs[o].ps), o)
PoolsOf(s, o) == SelectSeq(<<s.objs[o].tpi, s.objs[o].ipi>>, LAMBDA q : q # NoObj)

-----------------------------------------------------------------------------
Init ==
  /\ file \in Files /\ slot = [p \in Counted |-> NoObj] /\ count = [p \in Counted |-> 0] /\ objs = <<>>
  /\ held = [t \in Threads |-> <<>>] /\ closing = [t \in Threads |-> <<>>] /\ open = TRUE
  /\ raced = FALSE /\ met = {}

\* What a handle or a DBI leads to is no longer there: what happens next is undefined.
InUse ==
  Handles \cup UNION {{closing[t][k].obj : k \in DOMAIN closing[t]} : t \in Threads}
    \cup UNION {{objs[o].tpi, objs[o].ipi} \ {NoObj} : o \in DOMAIN objs}
Undefined == \E o \in InUse : o \notin DOMAIN objs

MayCall(t) == open /\ ~Undefined /\ closing[t] = <<>>
MayOpen(t, kind) == MayCall(t) /\ kind \in file.uses /\ Len(held[t]) < file.most /\ Free(Now) # {}
Gives(t, o) == held' = [held EXCEPT ![t] = Append(@, o)]
Holds(t, kind) == {o \in ToSet(held[t]) : objs[o].kind = kind}

\* A pool is being closed by another thread, which has read its count.
Overlaps(p) ==
  \E t \in Threads : closing[t] # <<>> /\ slot[p] # NoObj /\ closing[t][1].obj = slot[p]
                       /\ closing[t][1].pool # "none"

\* OpenIpi takes a stream that has no name for ids, and then says that there are some.
HasPool(p) ==
  /\ count[p] < MaxCount
  /\ p = "ipi" => slot.ipi # NoObj \/ file.ids \in {"told", "unnamed"}
Told(p) == [file EXCEPT !.ids = IF p = "ipi" /\ slot.ipi = NoObj THEN "told" ELSE @]

OpenPool(t, p) ==
  /\ MayOpen(t, p) /\ HasPool(p)
  /\ LET s == PoolOpened(Now, p) IN Become(s) /\ Gives(t, s.slot[p])
  /\ file' = Told(p) /\ raced' = (raced \/ Overlaps(p))
  /\ UNCHANGED <<closing, open, met>>

\* DBI1::GetTpi and GetIpi: the DBI keeps the pool.
PoolKept(s, d, p) ==
  LET r == PoolOpened(s, p)
  IN IF p = "tpi" THEN [r EXCEPT !.objs[d].tpi = r.slot.tpi] ELSE [r EXCEPT !.objs[d].ipi = r.slot.ipi]
GetPool(t, o, p) ==
  /\ MayCall(t) /\ o \in Holds(t, "dbi") /\ p \in file.uses /\ objs[o][p] = NoObj
  /\ HasPool(p) /\ Free(Now) # {}
  /\ Become(PoolKept(Now, o, p))
  /\ file' = Told(p) /\ raced' = (raced \/ Overlaps(p))
  /\ UNCHANGED <<held, closing, open, met>>

\* DBI1::OpenGlobals and OpenPublics: of a DBI for writing, which has opened them itself,
\* never again.
SymsOpened(s, d, kind) ==
  LET o == Fresh(s)
      r == Made(s, o, NewPart(kind, d, s.objs[d].writes))
  IN IF s.objs[d][kind] # NoObj THEN [s EXCEPT !.objs[s.objs[d][kind]].refs = @ + 1]
     ELSE IF kind = "gs" THEN [r EXCEPT !.objs[d].gs = o] ELSE [r EXCEPT !.objs[d].ps = o]
MayOpenSyms(d, kind) == objs[d].writes => objs[d][kind] = NoObj
OpenSyms(t, d, kind) ==
  /\ MayOpen(t, kind) /\ d \in Holds(t, "dbi") /\ MayOpenSyms(d, kind)
  /\ LET s == SymsOpened(Now, d, kind) IN Become(s) /\ Gives(t, s.objs[d][kind])
  /\ UNCHANGED <<file, closing, open, raced, met>>

\* The DBI opens them for itself.
SymsKept(s, d, kind) ==
  LET r == SymsOpened(s, d, kind) IN [r EXCEPT !.objs[r.objs[d][kind]].own = @ + 1]

\* QuerySupportsEC opens the publics to look for two names, and leaves them open.
QuerySupportsEC(t, d) ==
  /\ MayCall(t) /\ d \in Holds(t, "dbi") /\ file.sz /\ "ps" \in file.uses
  /\ MayOpenSyms(d, "ps") /\ Free(Now) # {}
  /\ objs[d].ps # NoObj => objs[objs[d].ps].own < file.most
  /\ Become(SymsKept(Now, d, "ps"))
  /\ UNCHANGED <<file, held, closing, open, raced, met>>

\* DBI1::fInit: a DBI for writing has its symbols and its pools open.
Opened(s, d) ==
  LET syms == SymsKept(SymsKept(s, d, "gs"), d, "ps")
      tpi == PoolKept(syms, d, "tpi")
  IN IF ~s.objs[d].writes THEN s ELSE IF HasPool("ipi") THEN PoolKept(tpi, d, "ipi") ELSE tpi

\* CreateDBI and OpenDBIEx: one handle if it is for writing.
OpenDbi(t, m) ==
  /\ MayOpen(t, "dbi")
  /\ m # "r" => (m = "create" \/ file.access # "r") /\ slot.dbi = NoObj /\ HasPool("tpi")
                 /\ Cardinality(Free(Now)) >= 3 + Cardinality({p \in Pools : slot[p] = NoObj})
  /\ slot.dbi # NoObj => ~objs[slot.dbi].writes
  /\ LET o == Fresh(Now)
         new == [Made(Now, o, NewPart("dbi", NoObj, m # "r")) EXCEPT !.slot.dbi = o]
         s == IF slot.dbi # NoObj THEN Now ELSE Opened(new, o)
     IN Become([s EXCEPT !.count.dbi = @ + 1]) /\ Gives(t, s.slot.dbi)
  /\ IF m = "r" THEN UNCHANGED <<file, raced>>
     ELSE file' = Told("ipi") /\ raced' = (raced \/ \E p \in Pools : Overlaps(p))
  /\ UNCHANGED <<closing, open, met>>

\* DBI1::openModByImod: the module as it is, if it is open.
ModOpened(s, d, i) ==
  LET o == Fresh(s)
  IN IF s.objs[d].mods[i] # NoObj THEN s
     ELSE [Made(s, o, NewPart("mod", d, s.objs[d].writes)) EXCEPT !.objs[d].mods[i] = o]
GivesMod(t, d, i) ==
  LET s == ModOpened(Now, d, i)
  IN /\ Become(s) /\ Gives(t, s.objs[d].mods[i])
     /\ met' = IF objs[d].mods[i] # NoObj THEN met \cup {s.objs[d].mods[i]} ELSE met \ {s.objs[d].mods[i]}
     /\ UNCHANGED <<file, closing, open, raced>>
OpenMod(t, d, i) == MayOpen(t, "mod") /\ d \in Holds(t, "dbi") /\ GivesMod(t, d, i)

\* DBI1::QueryNextMod: the one behind a module that is open.
QueryNextMod(t, d, o) ==
  /\ MayOpen(t, "mod") /\ d \in Holds(t, "dbi") /\ o \in Holds(t, "mod")
  /\ \E i \in 1 .. NMods - 1 : objs[d].mods[i] = o /\ GivesMod(t, d, i + 1)

\* PDB1::OpenSrc: of a PDB for writing alone once.
OpenSrc(t) ==
  /\ MayOpen(t, "src") /\ (slot.src # NoObj => file.access # "w")
  /\ LET o == Fresh(Now)
         s == IF slot.src # NoObj THEN Now
              ELSE [Made(Now, o, NewPart("src", NoObj, file.access # "r")) EXCEPT !.slot.src = o]
     IN Become([s EXCEPT !.count.src = @ + 1]) /\ Gives(t, s.slot.src)
  /\ UNCHANGED <<file, closing, open, raced, met>>

-----------------------------------------------------------------------------
Without(s, k) == SubSeq(s, 1, k - 1) \o SubSeq(s, k + 1, Len(s))
Start(o) == [obj |-> o, pool |-> "none", n |-> 0]

\* Clients close the symbols and modules of a DBI before the DBI.
MayClose(t, o) ==
  /\ MayCall(t)
  /\ ~\E q \in ToSet(held[t]) : objs[q].of = o
Gone(t, o) ==
  \E k \in DOMAIN held[t] : held[t][k] = o /\ held' = [held EXCEPT ![t] = Without(@, k)]

\* DBI1::Close; the last one deletes the DBI and goes on to close its pools.
CloseDbi(t, o) ==
  /\ MayClose(t, o) /\ o \in Holds(t, "dbi") /\ Gone(t, o)
  /\ IF count.dbi > 1 THEN Become([Now EXCEPT !.count.dbi = @ - 1]) /\ UNCHANGED closing
     ELSE /\ Become(DbiDeleted([Now EXCEPT !.count.dbi = @ - 1, !.slot.dbi = NoObj], o))
          /\ closing' = [closing EXCEPT ![t] = [k \in DOMAIN PoolsOf(Now, o) |-> Start(PoolsOf(Now, o)[k])]]
  /\ UNCHANGED <<file, open, raced, met>>

\* TPI1::Close by a client.
ClosePool(t, o) ==
  /\ MayClose(t, o) /\ objs[o].kind \in Pools /\ Gone(t, o)
  /\ closing' = [closing EXCEPT ![t] = <<Start(o)>>]
  /\ UNCHANGED <<file, slot, count, objs, open, raced, met>>

\* internal_CloseTPI gives up the lock of the pool as soon as it has found the count,
Counts(t) ==
  /\ ~Undefined /\ closing[t] # <<>> /\ closing[t][1].pool = "none"
  /\ LET p == PoolOf(Now, closing[t][1].obj)
     IN /\ closing' = [closing EXCEPT ![t][1].pool = p, ![t][1].n = (count[p] - 1) % (MaxCount + 1)]
        /\ raced' = (raced \/ Overlaps(p))
  /\ UNCHANGED <<file, slot, count, objs, held, open, met>>

\* writes what it has read less one,
Lowers(t) ==
  /\ ~Undefined /\ closing[t] # <<>> /\ closing[t][1].pool \in Pools
  /\ LET c == closing[t][1]
     IN /\ count' = [count EXCEPT ![c.pool] = c.n]
        /\ closing' = IF c.n # 0 THEN [closing EXCEPT ![t] = Tail(@)]
                      ELSE [closing EXCEPT ![t][1].pool = "last"]
  /\ UNCHANGED <<file, slot, objs, held, open, raced, met>>

\* and the last one forgets the pool and deletes it.
Drops(t) ==
  /\ ~Undefined /\ closing[t] # <<>> /\ closing[t][1].pool = "last"
  /\ Become(PoolDropped(Now, closing[t][1].obj))
  /\ closing' = [closing EXCEPT ![t] = Tail(@)]
  /\ UNCHANGED <<file, held, open, raced, met>>

\* GSI1::Close, PSGSI1::Close.
CloseSyms(t, o) ==
  /\ MayClose(t, o) /\ objs[o].kind \in {"gs", "ps"} /\ Gone(t, o)
  /\ Become(SymsClosed(Now, o))
  /\ UNCHANGED <<file, closing, open, raced, met>>

\* Mod1::Close: whoever else has the module.
ModClosed(s, o) ==
  LET d == s.objs[o].of
  IN Deleted([s EXCEPT !.objs[d].mods = [i \in DOMAIN @ |-> IF @[i] = o THEN NoObj ELSE @[i]]], o)
CloseMod(t, o) ==
  /\ MayClose(t, o) /\ o \in Holds(t, "mod") /\ Gone(t, o)
  /\ Become(ModClosed(Now, o))
  /\ UNCHANGED <<file, closing, open, raced, met>>

\* PDB1::internal_CloseSrc.
CloseSrc(t, o) ==
  /\ MayClose(t, o) /\ o \in Holds(t, "src") /\ Gone(t, o)
  /\ LET s == [Now EXCEPT !.count.src = @ - 1]
     IN Become(IF s.count.src # 0 THEN s ELSE Deleted([s EXCEPT !.slot.src = NoObj], o))
  /\ UNCHANGED <<file, closing, open, raced, met>>

\* PDB1::internal_Close: what is still open is closed as if it were open once, the DBI,
\* which may have the pools, ahead of them.
DbiForced(s) ==
  LET o == s.slot.dbi
      d == DbiDeleted([s EXCEPT !.count.dbi = 0, !.slot.dbi = NoObj], o)
  IN IF o = NoObj THEN s ELSE PoolClosed(PoolClosed(d, s.objs[o].tpi), s.objs[o].ipi)
PoolForced(s, p) == IF s.slot[p] = NoObj THEN s ELSE PoolClosed([s EXCEPT !.count[p] = 1], s.slot[p])
Forced(s) == PoolForced(PoolForced(DbiForced(s), "tpi"), "ipi")
PdbClose ==
  /\ open /\ ~Undefined /\ \A t \in Threads : closing[t] = <<>>
  /\ open' = FALSE
  /\ Become(Forced(Now))
  /\ UNCHANGED <<file, held, closing, raced, met>>

Next ==
  \/ \E t \in Threads, m \in {"r", "w", "create"} : OpenDbi(t, m)
  \/ \E t \in Threads, p \in Pools : OpenPool(t, p)
  \/ \E t \in Threads, o \in DOMAIN objs, p \in Pools : GetPool(t, o, p)
  \/ \E t \in Threads, d \in DOMAIN objs, k \in {"gs", "ps"} : OpenSyms(t, d, k)
  \/ \E t \in Threads, d \in DOMAIN objs : QuerySupportsEC(t, d)
  \/ \E t \in Threads, d \in DOMAIN objs, i \in 1 .. NMods : OpenMod(t, d, i)
  \/ \E t \in Threads, d, o \in DOMAIN objs : QueryNextMod(t, d, o)
  \/ \E t \in Threads : OpenSrc(t)
  \/ \E t \in Threads, o \in DOMAIN objs :
       CloseDbi(t, o) \/ ClosePool(t, o) \/ CloseSyms(t, o) \/ CloseMod(t, o) \/ CloseSrc(t, o)
  \/ \E t \in Threads : Counts(t) \/ Lowers(t) \/ Drops(t)
  \/ PdbClose

Spec == Init /\ [][Next]_vars

-----------------------------------------------------------------------------
Times(o) == FoldFunction(LAMBDA s, n : n + Cardinality({k \in DOMAIN s : s[k] = o}), 0, held)
Closers(p) ==
  {t \in Threads : \E k \in DOMAIN closing[t] :
     closing[t][k].obj = slot[p] /\ closing[t][k].pool # "last"}

\* While the PDB is open a thread that was given a part has it until it closes it, and so
\* has a DBI its pools, unless a pool was opened or closed while another thread was
\* closing it, or the part is a module that was opened twice (internal_CloseTPI).
PartsStay == open /\ Undefined => raced \/ met # {}

\* A count is the number of handles and of DBIs that use the part, and a part that
\* nobody has is not kept, unless QuerySupportsEC left the publics of it open.
CountsRight ==
  open /\ ~raced /\ ~Undefined =>
    /\ \A p \in {"dbi", "src"} : slot[p] # NoObj => count[p] = Times(slot[p])
    /\ \A p \in Pools : slot[p] # NoObj =>
         \/ \E t \in Threads : closing[t] # <<>> /\ closing[t][1] = [obj |-> slot[p], pool |-> "last", n |-> 0]
         \/ count[p] = Times(slot[p]) + Cardinality(Closers(p))
                         + Cardinality({o \in DOMAIN objs : slot[p] \in {objs[o].tpi, objs[o].ipi}})
    /\ \A p \in Counted : slot[p] = NoObj => count[p] = 0
    /\ \A o \in DOMAIN objs :
         /\ objs[o].kind \in {"gs", "ps"} /\ objs[o].of \in DOMAIN objs =>
              objs[o].refs = Times(o) + objs[o].own
         /\ objs[o].kind \in Counted => slot[objs[o].kind] = o

\* A DBI for writing has one handle, its globals and publics none but its own, and what
\* holds the sources of a PDB for writing alone has one.
WritersAlone ==
  \A o \in DOMAIN objs :
    /\ objs[o].kind = "dbi" /\ objs[o].writes => Times(o) <= 1
    /\ objs[o].kind \in {"gs", "ps"} /\ objs[o].writes => Times(o) = 0
    /\ objs[o].kind = "src" /\ file.access = "w" => Times(o) <= 1

\* When the PDB has closed nothing is left of it but sources and modules that clients left
\* open, and symbols that were open more than once (PDB1::internal_Close).
NothingLeft ==
  ~open /\ ~raced =>
    /\ \A p \in Counted \ {"src"} : slot[p] = NoObj /\ count[p] = 0
    /\ \A o \in DOMAIN objs :
         \/ objs[o].kind \in {"src", "mod"} /\ o \in Handles
         \/ objs[o].kind \in {"gs", "ps"} /\ Times(o) + objs[o].own > 1

PdbPartsRight == PartsStay /\ CountsRight /\ WritersAlone /\ NothingLeft
=============================================================================
