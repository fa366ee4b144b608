CONSTANTS
  Calls = {c1, c2}
  Base = 100
  MaxFails = 30

SPECIFICATION Spec

PROPERTY WaitNeverShrinks
