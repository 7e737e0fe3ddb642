CONSTANTS
  RunTimeouts = {"unset", "set"}
SPECIFICATION CommandSpec
INVARIANT
  CommandGetsLocation
CHECK_DEADLOCK FALSE
