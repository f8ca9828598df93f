SPECIFICATION Spec
CONSTANTS
  Clis = {c1}
  MaxServers = 3
  Ports = {p1, p2}
  Faults = {"crash", "proc", "disk"}
  PidReuse = FALSE
INVARIANTS
  TypeOK
  NothingRunsUnrecorded
  OneServer
PROPERTIES
  StartedIsReady
