------------------------------ MODULE PdbTable ------------------------------
(***************************************************************************)
(* The PDBs that a process has open (PDB/dbi/pdb.cpp): OpenEx2W and Close  *)
(* with the table s_mpOpenedPDB, the modes in which clients share a PDB,   *)
(* the multistream files under them (MSF::Open and MSF_HB::Close of        *)
(* PDB/msf/msf.cpp), and the timeout manager, which keeps a PDB for a      *)
(* while after its last client closed it.                                  *)
(*                                                                         *)
(*  - OpenEx2W, Close and the manager's functions hold s_csForPDBOpen from *)
(*    start to end, so that each is one step; the cleanup thread takes it  *)
(*    only for its last step.                                              *)
(*  - A new PDB may fail to open for any of the reasons that OpenEx2W has  *)
(*    once it has the multistream file; it then closes the file again.     *)
(*  - Time is whether the timeout of a PDB has passed, and memory does not  *)
(*    run out.                                                             *)
(***************************************************************************)
EXTENDS Integers, FiniteSets

CONSTANTS
  Files,     \* the PDB files
  Clients,   \* a client opens one PDB at a time
  MaxOpens,  \* bound: calls of OpenEx2W
  MaxCalls,  \* bound: calls of SetPDBCloseTimeout and the other two
  MaxFaults  \* bound: failures of the system's timer and event functions

ASSUME PdbTableAssumption ==
  /\ IsFiniteSet(Clients)
  /\ MaxOpens \in Nat /\ MaxCalls \in Nat /\ MaxFaults \in Nat

VARIABLES
  msf,       \* s_mpOpenedMSF: for each file whether it is open, for writing, refcount
  pdb,       \* s_mpOpenedPDB: for each file its PDB1, its count and its mode
  handle,    \* what each client has open
  queue,     \* m_mpPDBTimeout
  expired,   \* PDBs in the queue whose time has passed
  timeout,   \* is m_timeout # 0?
  thread,    \* where CleanupThread is
  notEmpty,  \* is the event m_hNotEmpty set?
  nopens, ncalls, nfaults

counters == <<nopens, ncalls, nfaults>>
manager == <<queue, expired, timeout, thread, notEmpty>>
vars == <<msf, pdb, handle, manager, counters>>

-----------------------------------------------------------------------------
(* Modes: write exclusive, read exclusive, write shared, read+write shared. *)

Modes == {"WE", "RE", "WS", "RS"}
fRead(m) == m \in {"RE", "RS"}
fWriteShared(m) == m \in {"WS", "RS"}

\* Mutant: exclusive modes are not looked at.
AnyMode(m1, m2) == TRUE

\* A PDB that is open in one mode can be shared with a request for another.
SharesFlag(m1, m2) ==
  (fWriteShared(m1) /\ fWriteShared(m2)) \/ (fRead(m1) /\ fRead(m2))

NoMsf == [open |-> FALSE, fWrite |-> FALSE, refcount |-> 0]
NoPdb == [open |-> FALSE, count |-> 0, mode |-> "RS", full |-> FALSE]
NoHandle == [open |-> FALSE, file |-> CHOOSE f \in Files : TRUE, mode |-> "RS"]

Charge(fault) ==
  /\ fault => nfaults < MaxFaults
  /\ nfaults' = IF fault THEN nfaults + 1 ELSE nfaults

-----------------------------------------------------------------------------
(* OpenEx2W.                                                               *)

Opens(c) ==
  /\ ~handle[c].open
  /\ nopens < MaxOpens
  /\ nopens' = nopens + 1

\* MSF::Open reports access denied, and does not count, for a file that is
\* open for reading and is wanted for writing.
AccessDenied(f, m) == msf[f].open /\ ~fRead(m) /\ ~msf[f].fWrite

\* The open PDB cannot serve the request.
Conflict(f, m, full) ==
  AccessDenied(f, m) \/ full # pdb[f].full \/ ~SharesFlag(m, pdb[f].mode)

\* A new PDB1 on the file, or a failure after which nothing is left open.
NewPdb(c, f, m, full) ==
  \/ /\ msf' = [msf EXCEPT ![f] = [open |-> TRUE, fWrite |-> ~fRead(m), refcount |-> 1]]
     /\ pdb' = [pdb EXCEPT ![f] = [open |-> TRUE, count |-> 1, mode |-> m, full |-> full]]
     /\ handle' = [handle EXCEPT ![c] = [open |-> TRUE, file |-> f, mode |-> m]]
  \/ /\ msf' = [msf EXCEPT ![f] = NoMsf]
     /\ pdb' = [pdb EXCEPT ![f] = NoPdb]
     /\ UNCHANGED handle

OpenFirst(c, f, m, full) ==
  /\ Opens(c)
  /\ ~pdb[f].open
  /\ NewPdb(c, f, m, full)
  /\ UNCHANGED <<manager, ncalls, nfaults>>

\* Mutant: a PDB in the queue is taken over without taking it out.
StaysQueued(f) == queue

\* NotifyReuse, and the queue without a PDB that NotifyReopen closes.
Dequeued(f) == queue \ {f}

\* RS gives way to the mode asked for.
SharedMode(m, held) == IF held = "RS" THEN m ELSE held

OpenShared(c, f, m, full) ==
  /\ Opens(c)
  /\ pdb[f].open /\ ~Conflict(f, m, full)
  /\ queue' = Dequeued(f)
  /\ expired' = expired \cap queue'
  /\ pdb' = [pdb EXCEPT ![f].count = @ + 1, ![f].mode = SharedMode(m, @)]
  /\ handle' = [handle EXCEPT ![c] = [open |-> TRUE, file |-> f, mode |-> m]]
  /\ UNCHANGED <<msf, timeout, thread, notEmpty, ncalls, nfaults>>

\* NotifyReopen closes a PDB that only the queue holds.
OpenAgain(c, f, m, full) ==
  /\ Opens(c)
  /\ pdb[f].open /\ Conflict(f, m, full)
  /\ pdb[f].count = 0 /\ f \in queue
  /\ queue' = queue \ {f}
  /\ expired' = expired \cap queue'
  /\ NewPdb(c, f, m, full)
  /\ UNCHANGED <<timeout, thread, notEmpty, ncalls, nfaults>>

OpenDenied(c, f, m, full) ==
  /\ Opens(c)
  /\ pdb[f].open /\ Conflict(f, m, full)
  /\ pdb[f].count # 0 \/ f \notin queue
  /\ UNCHANGED <<msf, pdb, handle, manager, ncalls, nfaults>>

-----------------------------------------------------------------------------
(* Close and the timeout manager.                                          *)

\* internal_Close of the PDBs in S: each leaves the table and closes its file.
InternalClose(S) ==
  /\ pdb' = [f \in Files |-> IF f \in S THEN NoPdb ELSE pdb[f]]
  /\ msf' = [f \in Files |-> IF f \notin S THEN msf[f]
                             ELSE IF msf[f].refcount > 1
                                  THEN [msf[f] EXCEPT !.refcount = @ - 1]
                                  ELSE NoMsf]

CloseOthersLeft(c) ==
  /\ handle[c].open
  /\ pdb[handle[c].file].count > 1
  /\ pdb' = [pdb EXCEPT ![handle[c].file].count = @ - 1]
  /\ handle' = [handle EXCEPT ![c] = NoHandle]
  /\ UNCHANGED <<msf, manager, counters>>

\* NotifyClose: without a timeout, or when the event cannot be set, the PDB is
\* closed; otherwise it waits in the queue.
CloseLast(c) ==
  LET f == handle[c].file IN
  /\ handle[c].open
  /\ pdb[f].count = 1
  /\ handle' = [handle EXCEPT ![c] = NoHandle]
  /\ \/ /\ Charge(timeout)
        /\ InternalClose({f})
        /\ UNCHANGED <<queue, notEmpty>>
     \/ /\ timeout
        /\ pdb' = [pdb EXCEPT ![f].count = 0]
        /\ queue' = queue \cup {f}
        /\ notEmpty' = TRUE
        /\ UNCHANGED <<msf, nfaults>>
  /\ UNCHANGED <<expired, timeout, thread, nopens, ncalls>>

Calls == ncalls < MaxCalls /\ ncalls' = ncalls + 1

\* The thread is made on the first timeout that is not zero.  It may be that
\* it cannot make its timer and ends at once.
SetTimeout(t) ==
  /\ Calls
  /\ IF t /\ thread = "none"
     THEN \/ /\ thread' = "wait" /\ timeout' = TRUE /\ notEmpty' = FALSE
             /\ UNCHANGED nfaults
          \/ /\ thread' = "ended" /\ timeout' = TRUE /\ notEmpty' = FALSE
             /\ Charge(TRUE)
          \/ /\ timeout' = FALSE /\ UNCHANGED <<thread, notEmpty>>
             /\ Charge(TRUE)
     ELSE timeout' = t /\ UNCHANGED <<thread, notEmpty, nfaults>>
  /\ UNCHANGED <<msf, pdb, handle, queue, expired, nopens>>

CloseAllTimeoutPDB ==
  /\ Calls
  /\ InternalClose(queue)
  /\ queue' = {} /\ expired' = {}
  /\ UNCHANGED <<handle, timeout, thread, notEmpty, nopens, nfaults>>

\* The thread is terminated, wherever it is, and the queue is emptied.
ShutDown ==
  /\ Calls
  /\ InternalClose(queue)
  /\ queue' = {} /\ expired' = {}
  /\ timeout' = FALSE /\ thread' = "none" /\ notEmpty' = FALSE
  /\ UNCHANGED <<handle, nopens, nfaults>>

\* The time of a PDB in the queue passes.
TimePasses ==
  /\ expired # queue
  /\ expired' = queue
  /\ UNCHANGED <<msf, pdb, handle, queue, timeout, thread, notEmpty, counters>>

-----------------------------------------------------------------------------
(* CleanupThread.                                                          *)

\* Woken by the event, it waits for half the timeout.  When the timer cannot
\* be set it starts over.
WaitNotEmpty ==
  /\ thread = "wait" /\ notEmpty
  /\ \/ thread' = "timer" /\ UNCHANGED nfaults
     \/ thread' = "wait" /\ Charge(TRUE)
  /\ UNCHANGED <<msf, pdb, handle, queue, expired, timeout, notEmpty, nopens, ncalls>>

WaitTimer ==
  /\ thread = "timer"
  /\ \/ thread' = "lock" /\ UNCHANGED nfaults
     \/ thread' = "wait" /\ Charge(TRUE)
  /\ UNCHANGED <<msf, pdb, handle, queue, expired, timeout, notEmpty, nopens, ncalls>>

\* Mutant: the event is reset after every round.
NeverLeft == {}

\* The PDBs in the queue after a round, for which the event stays set.
Left == queue \ expired

\* CloseTimedOutPDBs, and the event reset once the queue is empty.
CloseTimedOutPDBs ==
  /\ thread = "lock"
  /\ InternalClose(queue \cap expired)
  /\ queue' = queue \ expired
  /\ expired' = {}
  /\ notEmpty' = (notEmpty /\ Left # {})
  /\ thread' = "wait"
  /\ UNCHANGED <<handle, timeout, counters>>

-----------------------------------------------------------------------------
Init ==
  /\ msf = [f \in Files |-> NoMsf]
  /\ pdb = [f \in Files |-> NoPdb]
  /\ handle = [c \in Clients |-> NoHandle]
  /\ queue = {} /\ expired = {} /\ timeout = FALSE
  /\ thread = "none" /\ notEmpty = FALSE
  /\ nopens = 0 /\ ncalls = 0 /\ nfaults = 0

OpenEx2W(c) ==
  \E f \in Files, m \in Modes, full \in BOOLEAN :
    \/ OpenFirst(c, f, m, full)
    \/ OpenShared(c, f, m, full)
    \/ OpenAgain(c, f, m, full)
    \/ OpenDenied(c, f, m, full)

Close(c) == CloseOthersLeft(c) \/ CloseLast(c)

Cleanup == WaitNotEmpty \/ WaitTimer \/ CloseTimedOutPDBs

Next ==
  \/ \E c \in Clients : OpenEx2W(c) \/ Close(c)
  \/ \E t \in BOOLEAN : SetTimeout(t)
  \/ CloseAllTimeoutPDB
  \/ ShutDown
  \/ TimePasses
  \/ Cleanup

\* Time goes on, and the cleanup thread runs whenever it can.
Fairness == WF_vars(TimePasses) /\ WF_vars(Cleanup)

Spec == Init /\ [][Next]_vars /\ Fairness

-----------------------------------------------------------------------------
(* Properties.                                                             *)

Holders(f) == {c \in Clients : handle[c].open /\ handle[c].file = f}

\* No client holds a PDB that has been closed under it, and none is kept open
\* that nobody holds and the queue does not have: dwPDBOpenedCount is the
\* number of clients, the table, the queue and the multistream files agree
\* (the assertions of NotifyReuse, NotifyClose and PDB1::Close).
HandlesCounted ==
  \A f \in Files :
    /\ pdb[f].count = Cardinality(Holders(f))
    /\ f \in queue <=> pdb[f].open /\ pdb[f].count = 0
    /\ pdb[f].open <=> msf[f].open
    /\ msf[f].open => msf[f].refcount = 1

\* The modes that two clients may have together (pdb.cpp:411-421).
MayShare == {{"RE"}, {"RE", "RS"}, {"RS"}, {"RS", "WS"}, {"WS"}}

\* Exclusive means exclusive, across clients that come and go and PDBs that
\* are taken over from the queue: the clients of one PDB have modes that go
\* together, and a client that asked to write has a file it can write.
ExclusionHolds ==
  \A f \in Files :
    /\ \A c, d \in Holders(f) : c # d => {handle[c].mode, handle[d].mode} \in MayShare
    /\ \A c \in Holders(f) : ~fRead(handle[c].mode) => msf[f].fWrite

\* A PDB that its clients have closed is reused or closed for good in the end,
\* unless the cleanup thread could not make its timer: the event is never
\* reset while a PDB waits (CleanupThread, pdb.cpp:3714-3747).
ClosedInTheEnd ==
  \A f \in Files : f \in queue ~> (f \notin queue \/ thread = "ended")
=============================================================================
