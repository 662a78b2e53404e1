\* A caller goes on after Commit returned FALSE.
SPECIFICATION Spec
CONSTANTS
  PnMax = 9
  Growth = 3
  CbPg = 2
  CpnSt = 1
  SnMax = 3
  SnFixed = 2
  Bytes = {"z", "a"}
  Zero = "z"
  MaxCpn = 2
  MaxOps = 4
  MaxFaults = 1
  UseAfterFailedCommit = TRUE
INVARIANTS
  Loadable
