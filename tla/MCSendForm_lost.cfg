CONSTANTS
  Texts = {t1, t2}
  Empty = Empty
  SendSlots = {s1, s2}
  MaxFails = 1
  MaxViews = 1

SPECIFICATION Spec

CHECK_DEADLOCK FALSE

PROPERTY ClearOnlyPosted
