CONSTANTS
  Msgs = {m1, m2, m3}
  SeStore = SeStore
  NoValue = NoValue

SPECIFICATION Spec

INVARIANT MarksNotLost
