CONSTANTS
  d1 = d1  d2 = d2  nowhere = nowhere
  x = x  y = y  z = z  w = w
  o1 = o1  o2 = o2  r1 = r1  r2 = r2  r3 = r3  i1 = i1  l1 = l1
  Locs = {d1, d2, nowhere}
  Here = Here
  Ptrs = {x, y, z, w}
  Objects = {o1, o2}
  Refs = {r1, r2, r3}
  Internals = {i1}
  Lists = {l1}
  None = None
  Inputs <- MCInputs
SPECIFICATION Spec
INVARIANTS
  BoundToEndOfChain
  NothingResolvableIsLeft
  OutcomeIsDetermined
  NoNilDereference
  ListsAreComplete
PROPERTY
  ImplementsAbs
CHECK_DEADLOCK FALSE
