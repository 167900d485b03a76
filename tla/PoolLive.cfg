\* Two threads of a WIN32 child share the pool of one srun, and time passes.
SPECIFICATION FairSpec
CONSTANTS
  t1 = t1
  t2 = t2
  f1 = f1
  f2 = f2
  None = None
  Thread = {t1, t2}
  Fd = {f1, f2}
  SrunSize = 1
  IsBackup <- NoBackup
  Session <- NoSession
  MaxSockets = 1
  LiveTime = 0
  DeadTime = 0
  MaxTime = 1
  Locked = TRUE
PROPERTIES
  ImplementsConnOwner
  RequestEnds
