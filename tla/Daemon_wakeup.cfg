SPECIFICATION FairSpec
CONSTANTS
  Task = {t1}
  Fd = {f1}
  None = None
  Port = {p1, p2}
  MaxBacklog = 2
CHECK_DEADLOCK FALSE
PROPERTY ShutdownHandled
