CONSTANTS
  Cwd <- MCCwd
  Worlds <- MCWorlds
SPECIFICATION PSpec
INVARIANTS
  ClosureCompiled
  LoadedOnce
  NoRemoteLoad
  RelativeToDocument
  StaysUnderRoot
  FlatProjectLinks
PROPERTIES
  Termination
CHECK_DEADLOCK FALSE
