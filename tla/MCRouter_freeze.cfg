CONSTANTS
  Alphabet <- MCAlphabet
  MaxLen = 3
  Self <- MCSelf
  Routes <- MCRoutes
  MaxHistory = 3
SPECIFICATION Spec
INVARIANT NoFreeze
