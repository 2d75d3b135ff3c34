\* Two threads, every verb.  The run ends when all requests are served.
CONSTANTS
  w1 = w1
  w2 = w2
  NULL = NULL
  Worker <- MCWorker
  MaxRequests = 3
SPECIFICATION Spec
SYMMETRY MCSymmetry
INVARIANTS TypeOK AnsweredOnce CountersExact ErrorsWithinTotals
CHECK_DEADLOCK FALSE
