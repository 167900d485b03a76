\* The single thread of a Unix child, three sruns of which one is a backup.
SPECIFICATION FSpec
CONSTANTS
  t1 = t1
  f1 = f1
  f2 = f2
  f3 = f3
  f4 = f4
  None = None
  Thread = {t1}
  Fd = {f1, f2, f3, f4}
  SrunSize = 3
  IsBackup <- OneBackup
  Session <- AnySession
  MaxSockets = 1
  LiveTime = 0
  DeadTime = 0
  MaxTime = 0
  Locked = FALSE
SYMMETRY Symmetry
INVARIANTS
  BackupLast
  Sticky
  UnreachableMeansDown
