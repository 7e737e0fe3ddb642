CONSTANTS
  Cwd <- MCCwd
  Worlds <- MCWorlds
SPECIFICATION PSpec
INVARIANT
  LinksAsDocumented
CHECK_DEADLOCK FALSE
