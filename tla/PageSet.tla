------------------------------ MODULE PageSet -------------------------------
(***************************************************************************)
(* The free pages of a multistream file as sets: what the page maps of     *)
(* module FpmAlloc implement, and how module Msf sees them.                *)
(***************************************************************************)
EXTENDS Integers

CONSTANTS
  Pages,    \* the pages that can hold data
  PnMax,    \* page PnMax - 1 is never allocated
  Growth,   \* pages by which the file is extended
  FirstMac  \* pages of a new file

VARIABLES
  free,     \* can be allocated now
  freed,    \* can be allocated after the next commit
  comm,     \* were free at the last commit
  mac,      \* pages in the file
  dfree,    \* the free pages of the committed file
  dmac      \* pages of the committed file

setVars == <<free, freed, comm, mac, dfree, dmac>>

NoFile == 0

SetInit ==
  /\ free = Pages /\ freed = {} /\ comm = Pages
  /\ mac = FirstMac
  /\ dfree = {} /\ dmac = NoFile

\* The least free page; the file grows under it, never to PnMax pages.
Alloc ==
  \E p \in free :
    /\ \A q \in free : p <= q
    /\ p < PnMax - 1
    /\ free' = free \ {p}
    /\ mac' = IF p < mac THEN mac
              ELSE IF p + Growth < PnMax - 1 THEN p + Growth ELSE PnMax - 1
    /\ UNCHANGED <<freed, comm, dfree, dmac>>

\* A page comes back at once unless the committed file uses it.
Free ==
  \E p \in Pages \ (free \cup freed) :
    /\ IF p \in comm THEN free' = free \cup {p} /\ UNCHANGED freed
                     ELSE freed' = freed \cup {p} /\ UNCHANGED free
    /\ UNCHANGED <<comm, mac, dfree, dmac>>

Commit ==
  /\ free' = free \cup freed
  /\ freed' = {}
  /\ comm' = free'
  /\ dfree' = free' /\ dmac' = mac
  /\ UNCHANGED mac

Load ==
  /\ dmac # NoFile
  /\ free' = dfree /\ comm' = dfree /\ freed' = {} /\ mac' = dmac
  /\ UNCHANGED <<dfree, dmac>>

SetNext == Alloc \/ Free \/ Commit \/ Load

SetSpec == SetInit /\ [][SetNext]_setVars
=============================================================================
