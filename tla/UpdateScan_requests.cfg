\* Two devices, one of them hosted; two threads; at most one waiting task.
CONSTANTS
  s1 = s1
  s2 = s2
  w1 = w1
  w2 = w2
  NULL = NULL
  SD <- MCSD
  Hosted <- MCHosted
  Named <- MCHosted
  Worker <- MCWorker
  MaxQueued = 1
  MaxFaults = 1
SPECIFICATION FairSpec
INVARIANTS TypeOK RequestNotForgotten
PROPERTY RequestTaken
