CONSTANTS
  RunTimeouts = {"unset", "set"}
SPECIFICATION CommandSpec
INVARIANTS
  AnswersAreWhole
  CommandIsGone
PROPERTY
  LocateReturns
CHECK_DEADLOCK FALSE
