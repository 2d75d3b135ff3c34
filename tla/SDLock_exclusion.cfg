SPECIFICATION Spec
CONSTANTS
  SD = {s1}
  Worker = {w1, w2}
  Provisioner = {w1}
  Verbs = {}
  MaxLosses = 0
INVARIANT OneUpdateAtATime
