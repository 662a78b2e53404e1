----------------------------- MODULE TransStore -----------------------------
(***************************************************************************)
(* What a multistream file promises its callers (PDB/msf/msf.cpp:23-61):   *)
(* a set of numbered streams that operations change one at a time, whose   *)
(* changes become durable all at once at Commit, and that an aborted or    *)
(* crashed transaction leaves as the last Commit left them.                *)
(*                                                                         *)
(* cur is what ReadStream returns now; committed is what the next load of  *)
(* the file would return.  How the streams are laid out on pages is left   *)
(* to module Msf, which implements this specification.                     *)
(***************************************************************************)
EXTENDS Integers

CONSTANTS
  Streams,   \* the user stream numbers
  Zero       \* the byte NonTransactionalEraseStream writes

VARIABLES
  cur,       \* cur[sn]: [valid, cells], cells a map from positions to bytes
  committed  \* the same for the state the file would reopen with

storeVars == <<cur, committed>>

NoContent == [valid |-> FALSE, cells |-> [c \in {} |-> Zero]]

StoreInit ==
  /\ cur = [sn \in Streams |-> NoContent]
  /\ committed = cur

OthersKept(sn) == \A t \in Streams \ {sn} : cur'[t] = cur[t]

\* Replace, Append, Write, Truncate, Delete, GetFreeSn, and every way one of
\* them can fail half way: the stream it names changes, no other does, and
\* nothing becomes durable.
Update(sn) ==
  /\ OthersKept(sn)
  /\ UNCHANGED committed

\* The stream's bytes may be overwritten with zeros in the durable state too.
Erase(sn) ==
  /\ OthersKept(sn)
  /\ \A t \in Streams \ {sn} : committed'[t] = committed[t]
  /\ committed'[sn].valid = committed[sn].valid
  /\ DOMAIN committed'[sn].cells = DOMAIN committed[sn].cells
  /\ \A c \in DOMAIN committed[sn].cells :
       committed'[sn].cells[c] \in {committed[sn].cells[c], Zero}

Commit ==
  /\ committed' = cur
  /\ UNCHANGED cur

\* A crash, or a close without a commit, followed by the next open.
Abort ==
  /\ cur' = committed
  /\ UNCHANGED committed

StoreNext ==
  \/ \E sn \in Streams : Update(sn) \/ Erase(sn)
  \/ Commit
  \/ Abort

StoreSpec == StoreInit /\ [][StoreNext]_storeVars
=============================================================================
