SPECIFICATION FairSpec
CONSTANTS
  Task = {t1, t2}
  Fd = {f1, f2}
  None = None
  Port = {p1, p2}
  MaxBacklog = 1
CHECK_DEADLOCK FALSE
INVARIANTS TypeOK NoMissedSignal DescriptorsOwned
PROPERTY WokenShutdownCompletes
