SPECIFICATION Spec
CONSTANTS
  Worker = {w1, w2}
  Ctx = {c1, c2}
  CustCtx = {d1}
  NULL = NULL
  Jobs = {"verb", "report", "update", "scan"}
INVARIANT OneUserPerContext
