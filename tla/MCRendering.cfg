CONSTANTS
  a = a  b = b  c = c  p = p  q = q  ws = ws  ws1 = ws1  ws2 = ws2  main = main
  net = net  yaml = yaml  k = k  u = u  x = x
  None = None
  Root = main
  Identifiers <- MCIdentifiers
  Numbered <- MCNumbered
  DirName <- MCDirName
  LastPart <- MCLastPart
  BuiltInUtil <- MCBuiltInUtil
  UnknownUtil <- MCUnknownUtil
  Manifests <- MCManifests
  Main <- MCMain
  Worlds <- MCWorlds
SPECIFICATION Spec
INVARIANTS
  FilesAreConsistent
  SucceedsWhenPossible
  NamesResolve
PROPERTY
  Termination
CHECK_DEADLOCK FALSE
