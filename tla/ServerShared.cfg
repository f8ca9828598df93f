SPECIFICATION FairSpec
CONSTANTS
  Clis = {c1, c2}
  MaxServers = 2
  Ports = {p1}
  Faults = {"crash", "disk"}
  PidReuse = TRUE
INVARIANTS
  StoppedIsStopped
  GraceBeforeKill
PROPERTIES
  CommandsReturn
