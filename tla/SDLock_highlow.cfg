SPECIFICATION Spec
CONSTANTS
  SD = {s1}
  Worker = {w1, w2, w3}
  Provisioner = {w1, w2}
  Verbs = {}
  MaxLosses = 0
PROPERTY HighLockRespectsLow
