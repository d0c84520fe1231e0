CONSTANTS
  puck = puck
  wired = wired
  p1 = p1
  p2 = p2
  p3 = p3
  c1 = c1
  c2 = c2
  a = a
  b = b
  None = None
  Handler = {puck, wired}
  Pad = {p1, p2, p3}
  Owner <- MCOwner
  Counted = {p1, p3}
  NumSlots = 2
  Client = {c1, c2}
  Report = {a, b}
SPECIFICATION Spec
SYMMETRY Symmetric
INVARIANTS OneWriterPerSlot NoSlotIsLost ClientsAgree
PROPERTIES NoPushDuringUpdate RefusedOnlyWhenFull
CHECK_DEADLOCK FALSE
