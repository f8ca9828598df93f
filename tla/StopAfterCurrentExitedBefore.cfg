SPECIFICATION Spec
CONSTANTS
  N = 1
  Qualities = {"good"}
  Successors = {"foreign"}
  SpecMayVanish = FALSE
  StateMayVanish = FALSE
INVARIANTS
  ExitedBeforeMeansUnsaved
