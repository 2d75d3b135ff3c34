SPECIFICATION Spec
CONSTANTS
  Worker = {w1, w2}
  Addr = {a1, a2, a3}
  NoAddr = NoAddr
  Verbs = {"SDIPUP", "IPDOWN"}
PROPERTY LateDownIgnored
