SPECIFICATION Spec
CONSTANTS
  Clis = {c1, c2}
  MaxServers = 2
  Ports = {p1}
  Faults = {}
  PidReuse = FALSE
PROPERTIES
  RunningRecordKept
