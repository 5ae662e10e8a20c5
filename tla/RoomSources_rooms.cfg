SPECIFICATION Spec
CONSTANTS
  Sensors = {s1, s2}
  Dials = {d1}
  NSlots = 2
  Keepalive = 1
  MidPass = FALSE
  Burst = FALSE
  MaxEvents = 3
  None = None
SYMMETRY MCSymmetry
INVARIANT RegisterFollows
INVARIANT SelectionHolds
PROPERTY ForeignKept
