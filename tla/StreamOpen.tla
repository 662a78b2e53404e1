----------------------------- MODULE StreamOpen -----------------------------
(***************************************************************************)
(* Named streams of one PDB opened by several threads: OpenStreamEx of     *)
(* PDB/dbi/stream.cpp and the Strm of PDB/dbi/stream.h, with the name      *)
(* table (NMTNI of PDB/include/nmtni.h) and the stream numbers of the      *)
(* multistream file they use.                                              *)
(*                                                                         *)
(*  - The name table and the multistream file hold their own lock for each *)
(*    call, so that each call is one step.                                 *)
(*  - m_mutexStreamOpenClose protects the table of Strm, their counts and  *)
(*    modes.  Only Delete makes two calls while it holds it; everything    *)
(*    else it protects is one step, taken when no thread is inside Delete. *)
(*  - A thread has one stream open at a time, and memory does not run out. *)
(***************************************************************************)
EXTENDS Integers, FiniteSets, FiniteSetsExt

CONSTANTS
  Threads,
  Names,
  SnMac,      \* the streams are 1 .. SnMac
  MaxOpens,   \* bound: calls of OpenStreamEx
  MaxDeletes  \* bound: calls of Strm::Delete

ASSUME StreamOpenAssumption ==
  /\ IsFiniteSet(Threads)
  /\ SnMac \in Nat \ {0} /\ MaxOpens \in Nat /\ MaxDeletes \in Nat

VARIABLES
  extant,    \* the streams that exist in the multistream file
  mapSzoNi,  \* the name table: the number of each name
  mapNiSzo,  \* its reverse
  strm,      \* m_mpOpenedStream: the Strm of each stream
  th,        \* for each thread where it is, and its arguments and locals
  nopens, ndeletes

table == <<mapSzoNi, mapNiSzo>>
bounds == <<nopens, ndeletes>>
vars == <<extant, table, strm, th, bounds>>

Sns == 1 .. SnMac
niNil == 0
NoName == "no name"

NewStrm == [refcount |-> 0, fExclusive |-> FALSE, evRelease |-> FALSE]
Idle == [pc |-> "idle", name |-> NoName, fExclusive |-> FALSE, ni |-> niNil]

At(t, pc) == th[t].pc = pc

\* No thread holds m_mutexStreamOpenClose.
MutexFree == \A t \in Threads : ~At(t, "deleting")

-----------------------------------------------------------------------------
(* The first step of OpenStreamEx: NMTNI::addNiForSz.                      *)

\* The streams that GetFreeSn can give out.
FreeSns == Sns \ extant

\* Mutant: the stream is given out but not created.
Unclaimed(S) == extant

\* GetFreeSn creates the stream it gives out.
Claimed(S) == extant \cup S

\* The thread goes on with the number of its name.
Named(t, sz, fExclusive, ni) ==
  th' = [th EXCEPT ![t] = [pc |-> "named", name |-> sz,
                           fExclusive |-> fExclusive, ni |-> ni]]

NameKnown(t, sz, fExclusive) ==
  /\ mapSzoNi[sz] # niNil
  /\ Named(t, sz, fExclusive, mapSzoNi[sz])
  /\ UNCHANGED <<extant, table>>

NameNew(t, sz, fExclusive) ==
  /\ mapSzoNi[sz] = niNil
  /\ FreeSns # {}
  /\ LET ni == Min(FreeSns) IN
     /\ extant' = Claimed({ni})
     /\ mapSzoNi' = [mapSzoNi EXCEPT ![sz] = ni]
     /\ mapNiSzo' = [mapNiSzo EXCEPT ![ni] = sz]
     /\ Named(t, sz, fExclusive, ni)

\* All stream numbers are taken: OpenStreamEx returns FALSE.
NameFails(sz) ==
  /\ mapSzoNi[sz] = niNil
  /\ FreeSns = {}
  /\ UNCHANGED <<extant, table, th>>

OpenStreamEx(t, sz, fExclusive) ==
  /\ At(t, "idle") /\ nopens < MaxOpens
  /\ NameKnown(t, sz, fExclusive) \/ NameNew(t, sz, fExclusive) \/ NameFails(sz)
  /\ nopens' = nopens + 1
  /\ UNCHANGED <<strm, ndeletes>>

-----------------------------------------------------------------------------
(* The rest of OpenStreamEx, under the mutex.                              *)

\* Mutant: a thread that was woken takes the stream without another look.
LooksOnce(t) == At(t, "woken") \/ strm[th[t].ni].refcount = 0

\* The stream is free, or it and this thread share.
CanOpen(t) ==
  LET s == strm[th[t].ni] IN
  s.refcount = 0 \/ (~th[t].fExclusive /\ ~s.fExclusive)

Opens(t) ==
  /\ At(t, "named") \/ At(t, "woken")
  /\ MutexFree
  /\ CanOpen(t)
  /\ strm' = [strm EXCEPT ![th[t].ni].refcount = @ + 1,
                          ![th[t].ni].fExclusive = th[t].fExclusive]
  /\ th' = [th EXCEPT ![t].pc = "open"]
  /\ UNCHANGED <<extant, table, bounds>>

\* ReleaseAndAcquire: the mutex is released and the thread waits.
Waits(t) ==
  /\ At(t, "named") \/ At(t, "woken")
  /\ MutexFree
  /\ ~CanOpen(t)
  /\ th' = [th EXCEPT ![t].pc = "waiting"]
  /\ UNCHANGED <<extant, table, strm, bounds>>

\* The event lets one thread go on, to acquire the mutex, and is reset.
Wakes(t) ==
  /\ At(t, "waiting")
  /\ strm[th[t].ni].evRelease
  /\ strm' = [strm EXCEPT ![th[t].ni].evRelease = FALSE]
  /\ th' = [th EXCEPT ![t].pc = "woken"]
  /\ UNCHANGED <<extant, table, bounds>>

-----------------------------------------------------------------------------
(* Strm::Release and Strm::Delete.                                         *)

\* Mutant: the event is not set.
NeverSignals(n) == FALSE

\* The event is set when the count becomes zero.
Signals(n) == n = 0

Release(t) ==
  /\ At(t, "open")
  /\ MutexFree
  /\ LET n == strm[th[t].ni].refcount - 1 IN
     strm' = [strm EXCEPT ![th[t].ni].refcount = n,
                          ![th[t].ni].evRelease = @ \/ Signals(n)]
  /\ th' = [th EXCEPT ![t] = Idle]
  /\ UNCHANGED <<extant, table, bounds>>

\* Delete takes the mutex and calls DeleteStream, which may find no stream;
\* the Strm, its count and the other handles stay.
Delete(t) ==
  /\ At(t, "open") /\ ndeletes < MaxDeletes
  /\ MutexFree
  /\ extant' = extant \ {th[t].ni}
  /\ th' = [th EXCEPT ![t].pc = "deleting"]
  /\ ndeletes' = ndeletes + 1
  /\ UNCHANGED <<table, strm, nopens>>

\* RemoveStreamName: NMTNI::deleteNiSzo finds the name by the number, then
\* takes both out of the two maps, whether or not the first has the name.
\* Delete ends and its handle stays open.
RemoveStreamName(t) ==
  /\ At(t, "deleting")
  /\ LET ni == th[t].ni IN
     /\ mapSzoNi' = [sz \in Names |-> IF sz = mapNiSzo[ni] THEN niNil ELSE mapSzoNi[sz]]
     /\ mapNiSzo' = [mapNiSzo EXCEPT ![ni] = NoName]
  /\ th' = [th EXCEPT ![t].pc = "open"]
  /\ UNCHANGED <<extant, strm, bounds>>

-----------------------------------------------------------------------------
Init ==
  /\ extant = {}
  /\ mapSzoNi = [sz \in Names |-> niNil]
  /\ mapNiSzo = [ni \in Sns |-> NoName]
  /\ strm = [ni \in Sns |-> NewStrm]
  /\ th = [t \in Threads |-> Idle]
  /\ nopens = 0 /\ ndeletes = 0

\* The steps that a call takes once it is made, and the release that a client
\* owes for each stream it opened.
Continues(t) ==
  \/ Opens(t) \/ Waits(t) \/ Wakes(t)
  \/ Release(t)
  \/ RemoveStreamName(t)

Next ==
  \E t \in Threads :
    \/ \E sz \in Names, fExclusive \in BOOLEAN : OpenStreamEx(t, sz, fExclusive)
    \/ Delete(t)
    \/ Continues(t)

Fairness == \A t \in Threads : WF_vars(Continues(t))

Spec == Init /\ [][Next]_vars /\ Fairness

-----------------------------------------------------------------------------
(* Properties.                                                             *)

Holding(ni) == {t \in Threads : th[t].pc \in {"open", "deleting"} /\ th[t].ni = ni}

\* A thread that opened a stream for itself has it alone, and the count is
\* the number of threads that have the stream, even when waiting threads are
\* overtaken and streams are deleted under them (stream.cpp:29-39).
ExclusiveAlone ==
  \A ni \in Sns :
    /\ strm[ni].refcount = Cardinality(Holding(ni))
    /\ \A t \in Holding(ni) : th[t].fExclusive => Holding(ni) = {t}

\* No release is lost: while a thread waits for a stream that nobody has, the
\* event is set or another thread that it woke is on its way to the stream.
\* The event is an auto-reset one, shared by all who wait for the stream and
\* possibly set before any of them began to (stream.h:49-62, 76-84).
ReleaseNotLost ==
  \A ni \in Sns :
    (strm[ni].refcount = 0 /\ \E t \in Threads : At(t, "waiting") /\ th[t].ni = ni) =>
       strm[ni].evRelease \/ \E t \in Threads : At(t, "woken") /\ th[t].ni = ni

\* Every thread that waits gets the stream in the end, if those who have it
\* release it and no more than MaxOpens calls are made: the thread that a
\* release wakes passes the stream on to the next one.
WaiterServed == \A t \in Threads : At(t, "waiting") ~> At(t, "open")

\* As long as no stream was deleted, threads that opened two names at once
\* did not get the same stream (niForNextFreeSn and GetFreeSn).
NamesApart ==
  ndeletes = 0 =>
    \A t, u \in Threads :
      th[t].ni # niNil /\ th[t].ni = th[u].ni => th[t].name = th[u].name

\* "mapNiSzo is just the reverse map of mapSzoNi" (nmtni.h:80), whenever no
\* thread is in the middle of a deletion.
Reverse ==
  MutexFree =>
    \A sz \in Names, ni \in Sns : mapSzoNi[sz] = ni <=> mapNiSzo[ni] = sz
=============================================================================
