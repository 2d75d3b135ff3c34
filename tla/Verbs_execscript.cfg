\* One request is enough: a script that fails, and nobody answers for it.
CONSTANTS
  w1 = w1
  w2 = w2
  NULL = NULL
  Worker <- MCWorker
  MaxRequests = 1
SPECIFICATION Spec
INVARIANT ExecScriptAnswered
CHECK_DEADLOCK FALSE
