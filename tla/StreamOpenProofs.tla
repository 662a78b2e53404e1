-------------------------- MODULE StreamOpenProofs --------------------------
(***************************************************************************)
(* Proofs about module StreamOpen: for any number of threads, names and    *)
(* streams, a thread that opened a stream for itself has it alone, no      *)
(* release is lost, and names keep streams of their own.                   *)
(***************************************************************************)
EXTENDS StreamOpen, FiniteSetTheorems, TLAPS

Thread ==
  [pc : {"idle", "named", "woken", "waiting", "open", "deleting"},
   name : Names \cup {NoName}, fExclusive : BOOLEAN, ni : {niNil} \cup Sns]

TypeOK ==
  /\ extant \subseteq Sns
  /\ mapSzoNi \in [Names -> {niNil} \cup Sns]
  /\ mapNiSzo \in [Sns -> Names \cup {NoName}]
  /\ strm \in [Sns -> [refcount : Int, fExclusive : BOOLEAN, evRelease : BOOLEAN]]
  /\ th \in [Threads -> Thread]
  /\ \A t \in Threads : ~At(t, "idle") => th[t].ni \in Sns
  /\ \A t \in Threads : th[t].ni \in Sns => th[t].name \in Names
  /\ nopens \in Nat /\ ndeletes \in Nat

\* A stream's mode is that of the threads that have it.
ModeOfHolders ==
  \A ni \in Sns : \A t \in Holding(ni) : th[t].fExclusive = strm[ni].fExclusive

\* Until a stream is deleted the names that have one have one each, which
\* exists, and a thread has the stream of its name.
NamesOwn ==
  ndeletes = 0 =>
    /\ MutexFree
    /\ \A sz \in Names : mapSzoNi[sz] # niNil => mapSzoNi[sz] \in extant
    /\ \A sz, sz2 \in Names :
         mapSzoNi[sz] # niNil /\ mapSzoNi[sz] = mapSzoNi[sz2] => sz = sz2
    /\ \A t \in Threads : th[t].ni # niNil => mapSzoNi[th[t].name] = th[t].ni

IInv == TypeOK /\ ExclusiveAlone /\ ModeOfHolders /\ ReleaseNotLost /\ NamesOwn

-----------------------------------------------------------------------------
\* The least free stream is a free one.
LEMMA MinFacts ==
  ASSUME NEW S, S \subseteq Nat, S # {}
  PROVE  Min(S) \in S
<1>1. PICK x \in S : \A y \in S : ~(<<y, x>> \in OpToRel(<, Nat))
  BY NatLessThanWellFounded, WFMin
<1>2. ASSUME NEW y \in S
      PROVE  x <= y
  <2>1. ~(<<y, x>> \in {ss \in Nat \X Nat : ss[1] < ss[2]})
    BY <1>1 DEF OpToRel
  <2>2. <<y, x>> \in Nat \X Nat
    OBVIOUS
  <2>3. ~(y < x)
    BY <2>1, <2>2
  <2>4. QED
    BY <2>3
<1>3. QED
  BY <1>2 DEF Min

LEMMA SnsFacts == Sns \subseteq Nat /\ niNil \notin Sns
BY StreamOpenAssumption DEF Sns, niNil

\* The threads that have a stream are finitely many.
LEMMA HoldingFacts ==
  ASSUME NEW ni
  PROVE  Holding(ni) \subseteq Threads /\ IsFiniteSet(Holding(ni))
<1>1. Holding(ni) \subseteq Threads
  BY DEF Holding
<1>2. QED
  BY <1>1, FS_Subset, StreamOpenAssumption

\* A new name gets a stream that did not exist.
LEMMA NameNewFacts ==
  ASSUME NEW t, NEW sz, NEW fExclusive, NameNew(t, sz, fExclusive)
  PROVE  \E ni \in FreeSns :
           /\ extant' = extant \cup {ni}
           /\ mapSzoNi' = [mapSzoNi EXCEPT ![sz] = ni]
           /\ mapNiSzo' = [mapNiSzo EXCEPT ![ni] = sz]
           /\ Named(t, sz, fExclusive, ni)
<1>1. Min(FreeSns) \in FreeSns
  BY MinFacts, SnsFacts DEF NameNew, FreeSns
<1>2. QED
  BY <1>1 DEF NameNew, Claimed

-----------------------------------------------------------------------------
(* The initial state and type correctness.                                 *)

LEMMA InitIInv == Init => IInv
<1> SUFFICES ASSUME Init PROVE IInv
  OBVIOUS
<1>1. TypeOK
  <2>1. Idle \in Thread
    BY DEF Idle, Thread
  <2>2. th \in [Threads -> Thread]
    BY <2>1 DEF Init
  <2>3. \A t \in Threads : th[t].pc = "idle" /\ th[t].ni = niNil
    BY DEF Init, Idle
  <2>4. QED
    BY <2>2, <2>3, SnsFacts DEF Init, TypeOK, NewStrm, At
<1>2. \A ni \in Sns : Holding(ni) = {}
  BY DEF Init, Holding, Idle
<1>3. ExclusiveAlone /\ ModeOfHolders
  BY <1>2, FS_EmptySet DEF Init, ExclusiveAlone, ModeOfHolders, NewStrm
<1>4. ReleaseNotLost /\ NamesOwn
  BY DEF Init, ReleaseNotLost, NamesOwn, At, MutexFree, Idle, niNil
<1>5. QED
  BY <1>1, <1>3, <1>4 DEF IInv

LEMMA TypeStep == TypeOK /\ Next => TypeOK'
<1> SUFFICES ASSUME TypeOK, Next PROVE TypeOK'
  OBVIOUS
<1> USE StreamOpenAssumption, SnsFacts
<1>1. ASSUME NEW t \in Threads, NEW sz \in Names, NEW fExclusive \in BOOLEAN,
             OpenStreamEx(t, sz, fExclusive)
      PROVE  TypeOK'
  <2>1. CASE NameKnown(t, sz, fExclusive)
    BY <1>1, <2>1 DEF TypeOK, Thread, OpenStreamEx, NameKnown, Named, At, table
  <2>2. CASE NameNew(t, sz, fExclusive)
    <3>1. PICK ni \in FreeSns :
            /\ extant' = extant \cup {ni}
            /\ mapSzoNi' = [mapSzoNi EXCEPT ![sz] = ni]
            /\ mapNiSzo' = [mapNiSzo EXCEPT ![ni] = sz]
            /\ Named(t, sz, fExclusive, ni)
      BY <2>2, NameNewFacts
    <3>2. QED
      BY <1>1, <3>1 DEF TypeOK, Thread, OpenStreamEx, FreeSns, Named, At
  <2>3. CASE NameFails(sz)
    BY <1>1, <2>3 DEF TypeOK, Thread, OpenStreamEx, NameFails, At, table
  <2>4. QED
    BY <1>1, <2>1, <2>2, <2>3 DEF OpenStreamEx
<1>2. ASSUME NEW t \in Threads, Delete(t)
      PROVE  TypeOK'
  BY <1>2 DEF TypeOK, Thread, Delete, At, table
<1>3. ASSUME NEW t \in Threads, Opens(t)
      PROVE  TypeOK'
  BY <1>3 DEF TypeOK, Thread, Opens, At, table, bounds
<1>4. ASSUME NEW t \in Threads, Waits(t)
      PROVE  TypeOK'
  BY <1>4 DEF TypeOK, Thread, Waits, At, table, bounds
<1>5. ASSUME NEW t \in Threads, Wakes(t)
      PROVE  TypeOK'
  <2>1. th[t].ni \in Sns
    BY <1>5 DEF TypeOK, Wakes, At
  <2>2. strm' \in [Sns -> [refcount : Int, fExclusive : BOOLEAN, evRelease : BOOLEAN]]
    BY <1>5, <2>1 DEF TypeOK, Wakes
  <2>3. QED
    BY <1>5, <2>2 DEF TypeOK, Thread, Wakes, At, table, bounds
<1>6. ASSUME NEW t \in Threads, Release(t)
      PROVE  TypeOK'
  BY <1>6 DEF TypeOK, Thread, Release, Signals, Idle, At, table, bounds
<1>7. ASSUME NEW t \in Threads, RemoveStreamName(t)
      PROVE  TypeOK'
  BY <1>7 DEF TypeOK, Thread, RemoveStreamName, At, bounds
<1>8. QED
  BY <1>1, <1>2, <1>3, <1>4, <1>5, <1>6, <1>7 DEF Next, Continues

-----------------------------------------------------------------------------
(* The counts and modes of the streams.                                    *)

\* A step that leaves the streams' counts and modes alone, and the threads that
\* have them.
LEMMA CountsKept ==
  ASSUME ExclusiveAlone, ModeOfHolders,
         \A ni \in Sns : strm'[ni].refcount = strm[ni].refcount,
         \A ni \in Sns : strm'[ni].fExclusive = strm[ni].fExclusive,
         \A ni \in Sns : Holding(ni)' = Holding(ni),
         \A ni \in Sns : \A t \in Holding(ni) : th'[t].fExclusive = th[t].fExclusive
  PROVE  ExclusiveAlone' /\ ModeOfHolders'
BY DEF ExclusiveAlone, ModeOfHolders

\* A step of one thread that has no stream before or after it.
LEMMA HoldingKept ==
  ASSUME NEW t \in Threads, NEW ni, TypeOK, TypeOK',
         \A u \in Threads \ {t} : th'[u] = th[u],
         ~(th[t].pc \in {"open", "deleting"}), ~(th'[t].pc \in {"open", "deleting"})
  PROVE  Holding(ni)' = Holding(ni)
BY DEF Holding

LEMMA OpensCounts ==
  ASSUME NEW t \in Threads, TypeOK, TypeOK', ExclusiveAlone, ModeOfHolders, Opens(t)
  PROVE  ExclusiveAlone' /\ ModeOfHolders'
<1>1. PICK n \in Sns : n = th[t].ni
  BY DEF TypeOK, Opens, At
<1>2. /\ strm'[n].refcount = strm[n].refcount + 1
      /\ strm'[n].fExclusive = th[t].fExclusive
      /\ \A ni \in Sns \ {n} : strm'[ni] = strm[ni]
  BY <1>1 DEF TypeOK, Opens
<1>3. /\ th'[t].pc = "open" /\ th'[t].ni = n /\ th'[t].fExclusive = th[t].fExclusive
      /\ \A u \in Threads \ {t} : th'[u] = th[u]
  BY <1>1 DEF TypeOK, Thread, Opens
<1>4. t \notin Holding(n)
  BY DEF Opens, At, Holding
<1>5. Holding(n)' = Holding(n) \cup {t}
  BY <1>3 DEF Holding
<1>6. \A ni \in Sns \ {n} : Holding(ni)' = Holding(ni)
  BY <1>1, <1>3 DEF Holding
<1>7. strm'[n].refcount = Cardinality(Holding(n)')
  <2>1. IsFiniteSet(Holding(n))
    BY HoldingFacts
  <2>2. Cardinality(Holding(n) \cup {t}) = Cardinality(Holding(n)) + 1
    BY <1>4, <2>1, FS_AddElement
  <2>3. QED
    BY <1>1, <1>2, <1>5, <2>2 DEF ExclusiveAlone
<1>8. \/ Holding(n) = {}
      \/ ~th[t].fExclusive /\ ~strm[n].fExclusive
  BY <1>1, HoldingFacts, FS_EmptySet DEF Opens, CanOpen, ExclusiveAlone
<1>9. \A u \in Holding(n)' : th'[u].fExclusive = th[t].fExclusive
  BY <1>1, <1>3, <1>5, <1>8 DEF ModeOfHolders, Holding, TypeOK, Thread
<1>10. \A u \in Holding(n)' : th'[u].fExclusive => Holding(n)' = {u}
  BY <1>5, <1>8, <1>9
<1>11. ExclusiveAlone'
  <2>1. ASSUME NEW ni \in Sns
        PROVE  /\ strm'[ni].refcount = Cardinality(Holding(ni)')
               /\ \A u \in Holding(ni)' : th'[u].fExclusive => Holding(ni)' = {u}
    <3>1. CASE ni = n
      BY <1>7, <1>10, <3>1
    <3>2. CASE ni # n
      <4>1. t \notin Holding(ni)
        BY <1>1, <3>2 DEF Holding
      <4>2. QED
        BY <1>2, <1>3, <1>6, <3>2, <4>1, HoldingFacts DEF ExclusiveAlone
    <3>3. QED
      BY <3>1, <3>2
  <2>2. QED
    BY <2>1 DEF ExclusiveAlone
<1>12. ModeOfHolders'
  <2>1. ASSUME NEW ni \in Sns, NEW u \in Holding(ni)'
        PROVE  th'[u].fExclusive = strm'[ni].fExclusive
    <3>1. CASE ni = n
      BY <1>2, <1>9, <3>1
    <3>2. CASE ni # n
      <4>1. u # t
        BY <1>3, <3>2 DEF Holding
      <4>2. QED
        BY <1>2, <1>3, <1>6, <2>1, <3>2, <4>1, HoldingFacts DEF ModeOfHolders
    <3>3. QED
      BY <3>1, <3>2
  <2>2. QED
    BY <2>1 DEF ModeOfHolders
<1>13. QED
  BY <1>11, <1>12

LEMMA ReleaseCounts ==
  ASSUME NEW t \in Threads, TypeOK, TypeOK', ExclusiveAlone, ModeOfHolders, Release(t)
  PROVE  ExclusiveAlone' /\ ModeOfHolders'
<1>1. PICK n \in Sns : n = th[t].ni
  BY DEF TypeOK, Release, At
<1>2. /\ strm'[n].refcount = strm[n].refcount - 1
      /\ strm'[n].fExclusive = strm[n].fExclusive
      /\ \A ni \in Sns \ {n} : strm'[ni] = strm[ni]
  BY <1>1 DEF TypeOK, Release
<1>3. /\ th'[t].pc = "idle"
      /\ \A u \in Threads \ {t} : th'[u] = th[u]
  BY DEF TypeOK, Release, Idle
<1>4. t \in Holding(n)
  BY <1>1 DEF Release, At, Holding
<1>5. Holding(n)' = Holding(n) \ {t}
  BY <1>1, <1>3 DEF Holding
<1>6. \A ni \in Sns \ {n} : Holding(ni)' = Holding(ni)
  BY <1>1, <1>3 DEF Holding
<1>7. strm'[n].refcount = Cardinality(Holding(n)')
  <2>1. IsFiniteSet(Holding(n))
    BY HoldingFacts
  <2>2. Cardinality(Holding(n) \ {t}) = Cardinality(Holding(n)) - 1
    BY <1>4, <2>1, FS_RemoveElement
  <2>3. QED
    BY <1>1, <1>2, <1>5, <2>2 DEF ExclusiveAlone
<1>8. \A ni \in Sns : t \notin Holding(ni)' /\ Holding(ni)' \subseteq Holding(ni)
  BY <1>3, <1>5, <1>6 DEF Holding
<1>9. \A ni \in Sns : \A u \in Holding(ni)' : th'[u] = th[u]
  BY <1>3, <1>8, HoldingFacts
<1>10. ExclusiveAlone'
  <2>1. ASSUME NEW ni \in Sns, NEW u \in Holding(ni)', th'[u].fExclusive
        PROVE  Holding(ni)' = {u}
    <3>1. Holding(ni) = {u}
      BY <1>8, <1>9, <2>1 DEF ExclusiveAlone
    <3>2. QED
      BY <1>8, <2>1, <3>1
  <2>2. \A ni \in Sns : strm'[ni].refcount = Cardinality(Holding(ni)')
    BY <1>2, <1>6, <1>7 DEF ExclusiveAlone
  <2>3. QED
    BY <2>1, <2>2 DEF ExclusiveAlone
<1>11. ModeOfHolders'
  BY <1>2, <1>8, <1>9 DEF ModeOfHolders
<1>12. QED
  BY <1>10, <1>11

-----------------------------------------------------------------------------
(* The steps.                                                              *)

LEMMA CountsStep ==
  TypeOK /\ TypeOK' /\ ExclusiveAlone /\ ModeOfHolders /\ Next
    => ExclusiveAlone' /\ ModeOfHolders'
<1> SUFFICES ASSUME TypeOK, TypeOK', ExclusiveAlone, ModeOfHolders, Next
             PROVE  ExclusiveAlone' /\ ModeOfHolders'
  OBVIOUS
<1>1. ASSUME NEW t \in Threads, NEW sz \in Names, NEW fExclusive \in BOOLEAN,
             OpenStreamEx(t, sz, fExclusive)
      PROVE  ExclusiveAlone' /\ ModeOfHolders'
  <2>1. strm' = strm
    BY <1>1 DEF OpenStreamEx
  <2>2. \/ th' = th
        \/ /\ th'[t].pc = "named"
           /\ \A u \in Threads \ {t} : th'[u] = th[u]
    <3>1. CASE NameKnown(t, sz, fExclusive)
      BY <3>1 DEF NameKnown, Named, TypeOK
    <3>2. CASE NameNew(t, sz, fExclusive)
      BY <3>2 DEF NameNew, Named, TypeOK
    <3>3. CASE NameFails(sz)
      BY <3>3 DEF NameFails
    <3>4. QED
      BY <1>1, <3>1, <3>2, <3>3 DEF OpenStreamEx
  <2>3. \A ni \in Sns : Holding(ni)' = Holding(ni)
    BY <1>1, <2>2 DEF Holding, OpenStreamEx, At
  <2>4. \A ni \in Sns : \A u \in Holding(ni) : th'[u].fExclusive = th[u].fExclusive
    BY <1>1, <2>2 DEF Holding, OpenStreamEx, At
  <2>5. QED
    BY <2>1, <2>3, <2>4, CountsKept
<1>2. ASSUME NEW t \in Threads, Delete(t)
      PROVE  ExclusiveAlone' /\ ModeOfHolders'
  BY <1>2, CountsKept DEF Delete, At, Holding, TypeOK, Thread
<1>3. ASSUME NEW t \in Threads, Opens(t)
      PROVE  ExclusiveAlone' /\ ModeOfHolders'
  BY <1>3, OpensCounts
<1>4. ASSUME NEW t \in Threads, Waits(t)
      PROVE  ExclusiveAlone' /\ ModeOfHolders'
  BY <1>4, CountsKept DEF Waits, At, Holding, TypeOK, Thread
<1>5. ASSUME NEW t \in Threads, Wakes(t)
      PROVE  ExclusiveAlone' /\ ModeOfHolders'
  <2>1. \A ni \in Sns : /\ strm'[ni].refcount = strm[ni].refcount
                       /\ strm'[ni].fExclusive = strm[ni].fExclusive
    BY <1>5 DEF Wakes, TypeOK
  <2>2. th'[t].pc = "woken" /\ \A u \in Threads \ {t} : th'[u] = th[u]
    BY <1>5 DEF Wakes, TypeOK, Thread
  <2>3. \A ni \in Sns : Holding(ni)' = Holding(ni) /\ t \notin Holding(ni)
    BY <1>5, <2>2 DEF Wakes, At, Holding
  <2>4. \A ni \in Sns : \A u \in Holding(ni) : th'[u].fExclusive = th[u].fExclusive
    BY <2>2, <2>3 DEF Holding
  <2>5. QED
    BY <2>1, <2>3, <2>4, CountsKept
<1>6. ASSUME NEW t \in Threads, Release(t)
      PROVE  ExclusiveAlone' /\ ModeOfHolders'
  BY <1>6, ReleaseCounts
<1>7. ASSUME NEW t \in Threads, RemoveStreamName(t)
      PROVE  ExclusiveAlone' /\ ModeOfHolders'
  BY <1>7, CountsKept DEF RemoveStreamName, At, Holding, TypeOK, Thread
<1>8. QED
  BY <1>1, <1>2, <1>3, <1>4, <1>5, <1>6, <1>7 DEF Next, Continues

\* A wait begins only while the stream is taken, the last release sets the event,
\* and the event is reset only by the thread that takes over the duty.
LEMMA ReleaseStep ==
  TypeOK /\ TypeOK' /\ ExclusiveAlone /\ ReleaseNotLost /\ Next => ReleaseNotLost'
<1> SUFFICES ASSUME TypeOK, TypeOK', ExclusiveAlone, ReleaseNotLost, Next,
                    NEW ni \in Sns, strm'[ni].refcount = 0,
                    NEW w \in Threads, th'[w].pc = "waiting", th'[w].ni = ni
             PROVE  \/ strm'[ni].evRelease
                    \/ \E u \in Threads : th'[u].pc = "woken" /\ th'[u].ni = ni
  BY DEF ReleaseNotLost, At
<1> DEFINE Duty == \/ strm[ni].evRelease
                   \/ \E u \in Threads : th[u].pc = "woken" /\ th[u].ni = ni
<1>1. strm[ni].refcount = 0 /\ th[w].pc = "waiting" /\ th[w].ni = ni => Duty
  BY DEF ReleaseNotLost, At
<1>2. ASSUME NEW t \in Threads, NEW sz \in Names, NEW fExclusive \in BOOLEAN,
             OpenStreamEx(t, sz, fExclusive)
      PROVE  Duty'
  <2>1. strm' = strm
    BY <1>2 DEF OpenStreamEx
  <2>2. \/ th' = th
        \/ /\ th'[t].pc = "named"
           /\ \A u \in Threads \ {t} : th'[u] = th[u]
    <3>1. CASE NameKnown(t, sz, fExclusive)
      BY <3>1 DEF NameKnown, Named, TypeOK
    <3>2. CASE NameNew(t, sz, fExclusive)
      BY <3>2 DEF NameNew, Named, TypeOK
    <3>3. CASE NameFails(sz)
      BY <3>3 DEF NameFails
    <3>4. QED
      BY <1>2, <3>1, <3>2, <3>3 DEF OpenStreamEx
  <2>3. QED
    BY <1>1, <1>2, <2>1, <2>2 DEF OpenStreamEx, At
<1>3. ASSUME NEW t \in Threads, Delete(t)
      PROVE  Duty'
  BY <1>1, <1>3 DEF Delete, At, TypeOK, Thread
<1>4. ASSUME NEW t \in Threads, Opens(t)
      PROVE  Duty'
  <2>1. PICK n \in Sns : n = th[t].ni
    BY <1>4 DEF TypeOK, Opens, At
  <2>2. strm'[n].refcount = strm[n].refcount + 1 /\ \A m \in Sns \ {n} : strm'[m] = strm[m]
    BY <1>4, <2>1 DEF Opens, TypeOK
  <2>3. th'[t].pc = "open" /\ \A u \in Threads \ {t} : th'[u] = th[u]
    BY <1>4 DEF Opens, TypeOK, Thread
  <2>4. CASE ni = n
    <3>1. strm[n].refcount \in Nat
      BY HoldingFacts, FS_CardinalityType DEF ExclusiveAlone
    <3>2. QED
      BY <2>2, <2>4, <3>1
  <2>5. CASE ni # n
    BY <1>1, <2>1, <2>2, <2>3, <2>5
  <2>6. QED
    BY <2>4, <2>5
<1>5. ASSUME NEW t \in Threads, Waits(t)
      PROVE  Duty'
  <2>1. th'[t].pc = "waiting" /\ th'[t].ni = th[t].ni /\ \A u \in Threads \ {t} : th'[u] = th[u]
    BY <1>5 DEF Waits, TypeOK, Thread
  <2>2. strm' = strm
    BY <1>5 DEF Waits
  <2>3. th[t].ni # ni
    BY <1>5, <2>2 DEF Waits, CanOpen
  <2>4. QED
    BY <1>1, <2>1, <2>2, <2>3
<1>6. ASSUME NEW t \in Threads, Wakes(t)
      PROVE  Duty'
  <2>1. PICK n \in Sns : n = th[t].ni
    BY <1>6 DEF TypeOK, Wakes, At
  <2>2. strm'[n].refcount = strm[n].refcount /\ \A m \in Sns \ {n} : strm'[m] = strm[m]
    BY <1>6, <2>1 DEF Wakes, TypeOK
  <2>3. th'[t].pc = "woken" /\ th'[t].ni = n /\ \A u \in Threads \ {t} : th'[u] = th[u]
    BY <1>6, <2>1 DEF Wakes, TypeOK, Thread
  <2>4. CASE ni = n
    BY <2>3, <2>4
  <2>5. CASE ni # n
    BY <1>1, <2>1, <2>2, <2>3, <2>5
  <2>6. QED
    BY <2>4, <2>5
<1>7. ASSUME NEW t \in Threads, Release(t)
      PROVE  Duty'
  <2>1. PICK n \in Sns : n = th[t].ni
    BY <1>7 DEF TypeOK, Release, At
  <2>2. /\ strm'[n].refcount = 0 => strm'[n].evRelease
        /\ \A m \in Sns \ {n} : strm'[m] = strm[m]
    <3> DEFINE r == strm[n]
               c == r.refcount - 1
    <3>1. /\ strm' = [strm EXCEPT ![n] = [r EXCEPT !.refcount = c, !.evRelease = @ \/ c = 0]]
          /\ DOMAIN strm = Sns
      <4>1. strm' = [strm EXCEPT ![n].refcount = c, ![n].evRelease = @ \/ c = 0]
        BY <1>7, <2>1 DEF Release, Signals
      <4>2. DOMAIN strm = Sns
        BY DEF TypeOK
      <4>3. QED
        BY <4>1, <4>2
    <3>2. r = [refcount |-> r.refcount, fExclusive |-> r.fExclusive, evRelease |-> r.evRelease]
      BY DEF TypeOK
    <3>3. strm'[n] = [r EXCEPT !.refcount = c, !.evRelease = @ \/ c = 0]
      BY <3>1
    <3>4. \A m \in Sns \ {n} : strm'[m] = strm[m]
      BY <3>1
    <3> HIDE DEF r, c
    <3>5. strm'[n] = [refcount |-> c, fExclusive |-> r.fExclusive, evRelease |-> r.evRelease \/ c = 0]
      BY <3>2, <3>3
    <3>6. strm'[n].refcount = c
      BY <3>5
    <3>7. c = 0 => strm'[n].evRelease
      <4>1. SUFFICES ASSUME c = 0
                     PROVE  strm'[n].evRelease
        OBVIOUS
      <4>2. (r.evRelease \/ c = 0) = TRUE
        BY <4>1
      <4>3. strm'[n].evRelease = (r.evRelease \/ c = 0)
        BY <3>5
      <4>4. QED
        BY <4>2, <4>3
    <3>8. QED
      BY <3>4, <3>6, <3>7
  <2>3. th'[t].pc = "idle" /\ th[t].pc = "open" /\ \A u \in Threads \ {t} : th'[u] = th[u]
    BY <1>7 DEF Release, At, TypeOK, Thread, Idle
  <2>4. CASE ni = n
    BY <2>2, <2>4
  <2>5. CASE ni # n
    BY <1>1, <2>1, <2>2, <2>3, <2>5
  <2>6. QED
    BY <2>4, <2>5
<1>8. ASSUME NEW t \in Threads, RemoveStreamName(t)
      PROVE  Duty'
  BY <1>1, <1>8 DEF RemoveStreamName, At, TypeOK, Thread
<1>9. QED
  BY <1>2, <1>3, <1>4, <1>5, <1>6, <1>7, <1>8 DEF Next, Continues

LEMMA NamesStep == TypeOK /\ TypeOK' /\ NamesOwn /\ Next => NamesOwn'
<1> SUFFICES ASSUME TypeOK, TypeOK', NamesOwn, Next, ndeletes' = 0
             PROVE  /\ MutexFree'
                    /\ \A sz \in Names : mapSzoNi'[sz] # niNil => mapSzoNi'[sz] \in extant'
                    /\ \A sz, sz2 \in Names :
                         mapSzoNi'[sz] # niNil /\ mapSzoNi'[sz] = mapSzoNi'[sz2] => sz = sz2
                    /\ \A t \in Threads : th'[t].ni # niNil => mapSzoNi'[th'[t].name] = th'[t].ni
  BY DEF NamesOwn
<1> DEFINE Own(x, m, h) ==
      /\ \A t \in Threads : h[t].pc # "deleting"
      /\ \A sz \in Names : m[sz] # niNil => m[sz] \in x
      /\ \A sz, sz2 \in Names : m[sz] # niNil /\ m[sz] = m[sz2] => sz = sz2
      /\ \A t \in Threads : h[t].ni # niNil => m[h[t].name] = h[t].ni
<1> SUFFICES Own(extant', mapSzoNi', th')
  BY DEF MutexFree, At
<1>1. ndeletes = 0 => Own(extant, mapSzoNi, th)
  BY DEF NamesOwn, MutexFree, At
<1>2. ASSUME NEW t \in Threads, NEW sz \in Names, NEW fExclusive \in BOOLEAN,
             OpenStreamEx(t, sz, fExclusive)
      PROVE  Own(extant', mapSzoNi', th')
  <2>1. Own(extant, mapSzoNi, th)
    BY <1>1, <1>2 DEF OpenStreamEx
  <2>2. CASE NameKnown(t, sz, fExclusive)
    <3>1. /\ th'[t].pc = "named" /\ th'[t].name = sz /\ th'[t].ni = mapSzoNi[sz]
          /\ \A u \in Threads \ {t} : th'[u] = th[u]
      BY <2>2 DEF NameKnown, Named, TypeOK
    <3>2. QED
      BY <2>1, <2>2, <3>1 DEF NameKnown, table
  <2>3. CASE NameNew(t, sz, fExclusive)
    <3>1. PICK ni \in FreeSns :
            /\ extant' = extant \cup {ni}
            /\ mapSzoNi' = [mapSzoNi EXCEPT ![sz] = ni]
            /\ mapNiSzo' = [mapNiSzo EXCEPT ![ni] = sz]
            /\ Named(t, sz, fExclusive, ni)
      BY <2>3, NameNewFacts
    <3>2. /\ th'[t].pc = "named" /\ th'[t].name = sz /\ th'[t].ni = ni
          /\ \A u \in Threads \ {t} : th'[u] = th[u]
      BY <3>1 DEF Named, TypeOK
    <3>3. /\ mapSzoNi'[sz] = ni
          /\ \A s \in Names \ {sz} : mapSzoNi'[s] = mapSzoNi[s] /\ mapSzoNi[s] # ni
      BY <2>1, <3>1, SnsFacts DEF TypeOK, FreeSns
    <3>4. \A u \in Threads : th[u].ni # niNil => th[u].name \in Names \ {sz}
      BY <2>1, <2>3 DEF NameNew, TypeOK, Thread
    <3>5. ni # niNil
      BY <3>1, SnsFacts DEF FreeSns
    <3>6. QED
      BY <2>1, <3>1, <3>2, <3>3, <3>4, <3>5
  <2>4. CASE NameFails(sz)
    BY <2>1, <2>4 DEF NameFails, table
  <2>5. QED
    BY <1>2, <2>2, <2>3, <2>4 DEF OpenStreamEx
<1>3. ASSUME NEW t \in Threads, Delete(t)
      PROVE  FALSE
  BY <1>3 DEF Delete, TypeOK
<1>4. ASSUME NEW t \in Threads, Opens(t) \/ Waits(t) \/ Wakes(t)
      PROVE  Own(extant', mapSzoNi', th')
  <2>1. Own(extant, mapSzoNi, th)
    BY <1>1, <1>4 DEF Opens, Waits, Wakes, bounds
  <2>2. extant' = extant /\ mapSzoNi' = mapSzoNi
    BY <1>4 DEF Opens, Waits, Wakes, table
  <2>3. \A u \in Threads : /\ th'[u].ni = th[u].ni /\ th'[u].name = th[u].name
                           /\ th'[u].pc = th[u].pc \/ th'[u].pc \in {"open", "waiting", "woken"}
    BY <1>4 DEF Opens, Waits, Wakes, TypeOK, Thread
  <2>4. QED
    BY <2>1, <2>2, <2>3
<1>5. ASSUME NEW t \in Threads, Release(t)
      PROVE  Own(extant', mapSzoNi', th')
  <2>1. Own(extant, mapSzoNi, th)
    BY <1>1, <1>5 DEF Release, bounds
  <2>2. th'[t].pc = "idle" /\ th'[t].ni = niNil /\ \A u \in Threads \ {t} : th'[u] = th[u]
    BY <1>5 DEF Release, Idle, TypeOK
  <2>3. QED
    BY <1>5, <2>1, <2>2 DEF Release, table
<1>6. ASSUME NEW t \in Threads, RemoveStreamName(t)
      PROVE  FALSE
  BY <1>1, <1>6 DEF RemoveStreamName, At, bounds
<1>7. QED
  BY <1>2, <1>3, <1>4, <1>5, <1>6 DEF Next, Continues

-----------------------------------------------------------------------------
LEMMA Invariant == Spec => []IInv
<1>1. IInv /\ [Next]_vars => IInv'
  <2>1. IInv /\ Next => IInv'
    BY TypeStep, CountsStep, ReleaseStep, NamesStep DEF IInv
  <2>2. ASSUME IInv, UNCHANGED vars PROVE IInv'
    <3> USE <2>2 DEF vars, table, bounds
    <3>1. TypeOK'
      BY DEF IInv, TypeOK, At
    <3>2. \A ni : Holding(ni)' = Holding(ni)
      BY DEF Holding
    <3>3. ExclusiveAlone' /\ ModeOfHolders'
      BY <3>2 DEF IInv, ExclusiveAlone, ModeOfHolders
    <3>4. ReleaseNotLost'
      BY DEF IInv, ReleaseNotLost, At
    <3>5. NamesOwn'
      BY DEF IInv, NamesOwn, MutexFree, At
    <3>6. QED
      BY <3>1, <3>3, <3>4, <3>5 DEF IInv
  <2>3. QED
    BY <2>1, <2>2
<1>2. QED
  BY InitIInv, <1>1, PTL DEF Spec

\* Every thread, name, stream number, count and event stays in its range.
THEOREM TypeCorrect == Spec => []TypeOK
<1>1. IInv => TypeOK
  BY DEF IInv
<1>2. QED
  BY <1>1, Invariant, PTL

\* A thread that opened a stream for itself has it alone, and the counts are exact,
\* for any number of threads.
THEOREM ExclusiveOpensAlone == Spec => []ExclusiveAlone
<1>1. IInv => ExclusiveAlone
  BY DEF IInv
<1>2. QED
  BY <1>1, Invariant, PTL

\* No release is lost on a thread that waits for the stream.
THEOREM NoLostRelease == Spec => []ReleaseNotLost
<1>1. IInv => ReleaseNotLost
  BY DEF IInv
<1>2. QED
  BY <1>1, Invariant, PTL

\* Without deletions, threads that open two names have two streams.
THEOREM NamesGetOwnStreams == Spec => []NamesApart
<1>1. IInv => NamesApart
  <2>1. SUFFICES ASSUME IInv, ndeletes = 0, NEW t \in Threads, NEW u \in Threads,
                        th[t].ni # niNil, th[t].ni = th[u].ni
                 PROVE  th[t].name = th[u].name
    BY DEF NamesApart
  <2>2. th[t].name \in Names /\ th[u].name \in Names
    BY <2>1 DEF IInv, TypeOK, Thread
  <2>3. QED
    BY <2>1, <2>2 DEF IInv, NamesOwn
<1>2. QED
  BY <1>1, Invariant, PTL
=============================================================================
