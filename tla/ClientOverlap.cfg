SPECIFICATION Spec
CONSTANTS
  c1 = c1
  c2 = c2
  Calls = {c1, c2}
  Chip = Chip
  CoapServerTask = CoapServerTask
  Wait = 2
  None = None
CHECK_DEADLOCK FALSE
INVARIANTS
  ContextIsOwn
