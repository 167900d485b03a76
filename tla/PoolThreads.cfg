\* Two threads of a WIN32 child share the pools of two sruns.
SPECIFICATION Spec
CONSTANTS
  t1 = t1
  t2 = t2
  f1 = f1
  f2 = f2
  f3 = f3
  None = None
  Thread = {t1, t2}
  Fd = {f1, f2, f3}
  SrunSize = 2
  IsBackup <- OneBackup
  Session <- NoSession
  MaxSockets = 2
  LiveTime = 0
  DeadTime = 0
  MaxTime = 0
  Locked = TRUE
SYMMETRY Symmetry
CHECK_DEADLOCK TRUE
INVARIANTS
  TypeOK
  OwnedOnce
  OpenIffOwned
  PooledWhereConnected
