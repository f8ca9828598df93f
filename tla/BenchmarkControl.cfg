SPECIFICATION Spec
CONSTANTS
  N = 2
  Qualities = {"alien","good"}
  Successors = {}
  SpecMayVanish = FALSE
  ControlMayVanish = TRUE
  StateMayVanish = TRUE
  Targets = {2}
INVARIANTS
  NoUnaccountedSignal
  BothExitClaimsAreTrue
  BothReportsCoverPrefix
PROPERTIES
  SignalsAreAwaited
