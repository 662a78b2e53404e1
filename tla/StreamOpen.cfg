\* Three threads for one stream, which two names may get in turn: both kinds of
\* waiting, overtaking, a name that finds no number, and a deletion.
SPECIFICATION Spec
CONSTANTS
  Threads = {t1, t2, t3}
  Names = {a, b}
  SnMac = 1
  MaxOpens = 5
  MaxDeletes = 1
INVARIANTS
  ExclusiveAlone
  ReleaseNotLost
  NamesApart
PROPERTIES
  WaiterServed
\* Once all calls are made and returned nothing more happens.
CHECK_DEADLOCK FALSE
