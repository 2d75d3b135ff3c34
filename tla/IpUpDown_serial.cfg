SPECIFICATION Spec
CONSTANTS
  Worker = {w1}
  Addr = {a1, a2, a3}
  NoAddr = NoAddr
  Verbs = {"SDIPUP", "IPDOWN", "PPPIPUP", "GETROUTERIP", "set_ipconfig"}
INVARIANTS TypeOK UpRecorded DnsAgrees
PROPERTY LateDownIgnored
