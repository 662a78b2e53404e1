---------------------------- MODULE MsfPowerLoss ----------------------------
(***************************************************************************)
(* Module Msf under a power loss.  IStreamFile (PDB/msf/istream.h) hands   *)
(* the pages to the C run time and its Commit returns S_OK without a       *)
(* flush, so that the operating system brings them to the medium one by    *)
(* one, in an order of its own.  The variables of Msf hold what the        *)
(* operating system has; the variables here what the medium has.           *)
(***************************************************************************)
EXTENDS Msf

VARIABLES
  mhdr, mfpm, mpg  \* dhdr, dfpm and dpg as they are on the medium

medium == <<mhdr, mfpm, mpg>>
allVars == <<vars, medium>>

PowerInit == Init /\ mhdr = dhdr /\ mfpm = dfpm /\ mpg = dpg

\* One page that the operating system has and the medium has not.
WriteBack ==
  /\ \/ mhdr' = dhdr /\ UNCHANGED <<mfpm, mpg>>
     \/ \E s \in Slots : mfpm' = [mfpm EXCEPT ![s] = dfpm[s]] /\ UNCHANGED <<mhdr, mpg>>
     \/ \E p \in DataPn : mpg' = [mpg EXCEPT ![p] = dpg[p]] /\ UNCHANGED <<mhdr, mfpm>>
  /\ UNCHANGED vars

PowerNext == (Next /\ UNCHANGED medium) \/ WriteBack

PowerSpec == PowerInit /\ [][PowerNext]_allVars

Medium == INSTANCE Msf WITH dhdr <- mhdr, dfpm <- mfpm, dpg <- mpg

\* "At this point, all pages but hdr safely reside on disk" (MSF_HB::Commit,
\* msf.cpp:1825): a header on the medium leads to the stream table that its
\* commit wrote, and to no page that the page map has free.
MediumLoadable == Medium!Loadable
=============================================================================
