SPECIFICATION FairSpec
CONSTANTS
  NoOne = NoOne
  Supervisors = {p1, p2}
  Sshs = {c1, c2}
  Starters = {s1}
  Adapters = {a1, a2}
  MaxBackoff = 2
  MaxFaults = 1
  MaxProbes = 1
INVARIANTS
  TypeOK
  OneSupervisedSsh
  StoppedLeavesNoSsh
  RecordOfTheServer
PROPERTIES
  TunnelComesBack
  StopObeyed
  ReadyComesTrue
