\* Two threads, two names and one deletion.
SPECIFICATION Spec
CONSTANTS
  Threads = {t1, t2}
  Names = {a, b}
  SnMac = 2
  MaxOpens = 2
  MaxDeletes = 1
INVARIANTS
  Reverse
CHECK_DEADLOCK FALSE
