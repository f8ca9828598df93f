SPECIFICATION Spec
CONSTANTS
  Clis = {c1, c2}
  Contents = {"a", "b"}
  Sources = {"s", "t"}
  Releases <- MCReleases
  None = None
  MaxVersions = 2
  MaxBuilds = 2
  Sidecars <- MCSidecars
  SizeOf <- MCSizeOf
  Pairs <- MCPairs
  Layers = {1, 14}
  MaxRow = 2
  Chunks = 3
INVARIANTS
  TypeOK
  OnlyVerifiedFilesRun
  OnlyPinnedSourceRuns
  IndexIsComplete
PROPERTIES
  BuildCanBeRepeated
SYMMETRY MCShells
