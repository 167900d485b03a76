\* The single thread of a Unix child, a primary and a backup.
SPECIFICATION FSpec
CONSTANTS
  t1 = t1
  f1 = f1
  f2 = f2
  f3 = f3
  None = None
  Thread = {t1}
  Fd = {f1, f2, f3}
  SrunSize = 2
  IsBackup <- OneBackup
  Session <- AnySession
  MaxSockets = 1
  LiveTime = 0
  DeadTime = 0
  MaxTime = 0
  Locked = FALSE
SYMMETRY Symmetry
INVARIANT FailoverUnseen
