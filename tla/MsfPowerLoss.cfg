\* The power fails at some point during or after a commit.
SPECIFICATION PowerSpec
CONSTANTS
  PnMax = 9
  Growth = 3
  CbPg = 2
  CpnSt = 1
  SnMax = 3
  SnFixed = 2
  Bytes = {"z", "a"}
  Zero = "z"
  MaxCpn = 2
  MaxOps = 2
  MaxFaults = 0
  UseAfterFailedCommit = FALSE
INVARIANTS
  MediumLoadable
