SPECIFICATION FairSpec
CONSTANTS
  N = 2
  Qualities = {"unproven", "alien", "good"}
  Successors = {"rerun", "foreign"}
  SpecMayVanish = FALSE
  ControlMayVanish = FALSE
  Targets = {2}
INVARIANTS
  TypeOK
  ReportCoversPrefix
PROPERTIES
  RunnerForGood
  KeepsPromise
  ControllerReturns
