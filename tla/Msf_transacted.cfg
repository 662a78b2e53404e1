\* A file large enough that nothing fails.
\* Calls are bounded by MaxOps; the file can still be closed and opened again.
SPECIFICATION Spec
CONSTANTS
  PnMax = 14
  Growth = 3
  CbPg = 2
  CpnSt = 1
  SnMax = 3
  SnFixed = 2
  Bytes = {"z", "a"}
  Zero = "z"
  MaxCpn = 2
  MaxOps = 4
  MaxFaults = 0
  UseAfterFailedCommit = FALSE
INVARIANTS
  TypeOK
  CheckInvariants
  CommittedExtentKept
  Loadable
PROPERTIES
  Transacted
