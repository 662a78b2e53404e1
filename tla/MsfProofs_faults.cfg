\* A file of few pages, and one write or extension that fails.
\* Calls are bounded by MaxOps; the file can still be closed and opened again.
SPECIFICATION Spec
CONSTANTS
  PnMax = 9
  Growth = 3
  CbPg = 2
  CpnSt = 1
  SnMax = 3
  SnFixed = 2
  Bytes = {"z", "a"}
  Zero = "z"
  MaxCpn = 2
  MaxOps = 4
  MaxFaults = 1
  UseAfterFailedCommit = FALSE
INVARIANTS
  NoSharedPage
  CommittedNotAllocatable
  Loadable
  ValidFpmKept
  IInv
PROPERTIES
  Transacted
