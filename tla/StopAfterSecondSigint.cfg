SPECIFICATION Spec
CONSTANTS
  N = 2
  Qualities = {"good"}
  Successors = {"foreign"}
  SpecMayVanish = FALSE
  ControlMayVanish = FALSE
  Targets = {1, 2}
INVARIANTS
  AtMostOneSigint
