SPECIFICATION Spec
CONSTANTS
  ThinkOpen <- MCThinkOpen
  ThinkClose <- MCThinkClose
  CallsOpen <- MCCallsOpen
  Newline = "n"
  Characters = {"<", "t", "/", "d", "n"}
  MaxText = 6
  MaxDelta = 3
  CONTEXT_WINDOW = 7
  MAX_OUTPUT_TOKENS = 4
  MIN_ANSWER_TOKENS = 2
  DEFAULT_REASONING_BUDGETS <- MCBudgets
  Amounts <- MCAmounts
  MaxStream = 6
INVARIANTS
  TypeOK
  SplitsTheText
  EndsInDone
  UpstreamReleased
  PayloadFits
  EventsSurviveCuts
PROPERTIES
  OneEnding
CHECK_DEADLOCK FALSE
