SPECIFICATION FairSpec
CONSTANTS
  N = 2
  Qualities = {"unproven", "alien", "good"}
  Successors = {"rerun", "foreign"}
  SpecMayVanish = TRUE
  StateMayVanish = TRUE
INVARIANTS
  TypeOK
PROPERTIES
  OnlyFrozenRunnerStruck
  SignalOnlyAfterSaved
  KeepsPromise
  ControllerReturns
