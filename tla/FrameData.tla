---------------------------- MODULE FrameData ----------------------------
(* The frame data of a DBI.  An incremental link says which code goes away, *)
(* and then adds the frames of the code that comes; the old frames are only *)
(* looked at when the first new ones come.                                  *)
EXTENDS Integers, Sequences, FiniteSets, FiniteSetsExt

CONSTANTS
  Blocks,  \* blocks of code that may go: [rva, cb]
  RvaStarts,  \* where frames may start
  Half,    \* half as many addresses as there are, 2^31 in the code
  MaxRemovals, MaxFrames \* bounds: blocks, and frames old and new

VARIABLES
  open,              \* a session that writes
  stored,            \* the stream of the frame data: where the frames start
  pdbgFrameData,     \* the same in memory, once it is opened
  opened,            \* pdbgFrameData # NULL
  m_rgrvaRemovals,   \* the blocks that go
  fFrameDataLoaded,
  gone,              \* ghost: the addresses that RemoveDataForRva was told of
  added              \* ghost: the frames that were added in this session

frameVars == <<open, stored, pdbgFrameData, opened, m_rgrvaRemovals, fFrameDataLoaded, gone, added>>

\* Images lie in the lower half of the addresses, where the comparisons below are
\* those of numbers, and nothing starts with the header.
FrameDataAssumption ==
  /\ Half \in Nat \ {0}
  /\ Blocks \subseteq [rva : 0 .. Half - 1, cb : Nat]
  /\ \A b \in Blocks : b.rva + b.cb <= Half
  /\ RvaStarts \subseteq 1 .. Half - 1

FrameInit ==
  /\ open = FALSE /\ stored = <<>> /\ pdbgFrameData = <<>> /\ opened = FALSE
  /\ m_rgrvaRemovals = <<>> /\ fFrameDataLoaded = FALSE
  /\ gone = {} /\ added = <<>>

-----------------------------------------------------------------------------
EndIn(b, rva) == b.rva <= rva /\ rva - b.rva <= b.cb
in(b, rva) == b.rva <= rva /\ rva - b.rva < b.cb
End(b) == b.rva + b.cb

\* The comparisons are differences of unsigned numbers taken as signed.
Before(x, y) == (x - y) % (2 * Half) >= Half

\* qsort, by the keys of what is sorted; what compares equal stays as it was.
PlaceOf(key, i) ==
  Cardinality({j \in DOMAIN key : Before(key[j], key[i]) \/ (~Before(key[i], key[j]) /\ j <= i)})
Sorted(s, key) ==
  [p \in DOMAIN s |-> s[CHOOSE i \in DOMAIN s : PlaceOf(key, i) = p]]
frameSort(s) == Sorted(s, s)
blkSort(s) == Sorted(s, [i \in DOMAIN s |-> s[i].rva])

\* A block that ends where the new one starts grows; the last such.  Blocks after
\* it that the new one starts in grow too.
RemoveDataForRva(n) ==
  LET Stops(s) == {i \in DOMAIN s : End(s[i]) = n.rva}
      at == IF Stops(m_rgrvaRemovals) = {} THEN 0 ELSE Max(Stops(m_rgrvaRemovals))
      Grown(b) == IF in(b, n.rva) /\ End(n) > End(b) THEN [b EXCEPT !.cb = End(n) - b.rva] ELSE b
      grown == [i \in DOMAIN m_rgrvaRemovals |->
                  IF i > at THEN Grown(m_rgrvaRemovals[i])
                  ELSE IF i = at THEN [m_rgrvaRemovals[i] EXCEPT !.cb = @ + n.cb]
                  ELSE m_rgrvaRemovals[i]]
  IN /\ open /\ added = <<>> /\ Len(m_rgrvaRemovals) < MaxRemovals
     /\ m_rgrvaRemovals' = IF at = 0 THEN Append(grown, n) ELSE grown
     /\ gone' = gone \cup n.rva .. End(n) - 1
     /\ UNCHANGED <<open, stored, pdbgFrameData, opened, fFrameDataLoaded, added>>

\* One pass over the blocks and the frames, both in order: each frame is compared
\* with blocks from that of the frame before it to the first that it is in or lies
\* before.  A frame that starts in a block is marked by a start of 0.
Sweep(blocks, frames) ==
  LET Stays(i, f) == i > Len(blocks) \/ in(blocks[i], f) \/ f < blocks[i].rva
      at[k \in 0 .. Len(frames)] ==
        IF k = 0 THEN 1 ELSE Min({i \in at[k - 1] .. Len(blocks) + 1 : Stays(i, frames[k])})
  IN [k \in DOMAIN frames |->
        IF at[k] <= Len(blocks) /\ in(blocks[at[k]], frames[k]) THEN 0 ELSE frames[k]]

\* The marked frames come first when they are sorted.
Unswept(frames) ==
  LET first == Min({i \in DOMAIN frames : frames[i] # 0} \cup {Len(frames) + 1})
  IN SubSeq(frames, first, Len(frames))

\* Without frames there is nothing to sweep, and what was to go is forgotten as the
\* data counts as loaded from then on.
SaveFrameData(frames) == Unswept(frameSort(Sweep(blkSort(m_rgrvaRemovals), frames)))

AddFrameData(new) ==
  LET old == IF opened THEN pdbgFrameData ELSE stored
      sweeps == m_rgrvaRemovals # <<>> /\ ~fFrameDataLoaded
  IN /\ open /\ Len(stored) + Len(added) < MaxFrames
     /\ opened' = TRUE
     /\ pdbgFrameData' = (IF sweeps THEN SaveFrameData(old) ELSE old) \o new
     /\ m_rgrvaRemovals' = IF sweeps /\ old # <<>> THEN <<>> ELSE m_rgrvaRemovals
     /\ fFrameDataLoaded' = (fFrameDataLoaded \/ (sweeps /\ old = <<>>))
     /\ added' = added \o new
     /\ UNCHANGED <<open, stored, gone>>

\* DBI1::Close: Dbg1Data::fSave, if the data was opened.
Close ==
  /\ open
  /\ stored' = IF opened THEN frameSort(pdbgFrameData) ELSE stored
  /\ open' = FALSE /\ pdbgFrameData' = <<>> /\ opened' = FALSE
  /\ m_rgrvaRemovals' = <<>> /\ fFrameDataLoaded' = FALSE
  /\ UNCHANGED <<gone, added>>

Open ==
  /\ ~open
  /\ open' = TRUE /\ gone' = {} /\ added' = <<>>
  /\ UNCHANGED <<stored, pdbgFrameData, opened, m_rgrvaRemovals, fFrameDataLoaded>>

FrameNext ==
  \/ Open \/ Close
  \/ \E b \in Blocks : RemoveDataForRva(b)
  \/ \E f \in RvaStarts : AddFrameData(<<f>>)

FrameSpec == FrameInit /\ [][FrameNext]_frameVars

-----------------------------------------------------------------------------
Count(s, f) == Cardinality({i \in DOMAIN s : s[i] = f})

\* A session that adds frames stores, in order, those it adds and those of the last
\* one that do not start in code that went (RemoveDataForRva joins blocks, and they
\* may overlap; the sweep needs both in order).
FramesRight ==
  [][Close =>
       /\ added # <<>> => \A f \in RvaStarts :
            Count(stored', f) = Count(added, f) + IF f \in gone THEN 0 ELSE Count(stored, f)
       /\ \A i \in 2 .. Len(stored') : stored'[i - 1] <= stored'[i]]_frameVars
=============================================================================
