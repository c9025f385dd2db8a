SPECIFICATION SessionsSpec
CONSTANTS
  tab1 = tab1
  tab2 = tab2
  a1 = a1
  a2 = a2
  b1 = b1
  Me <- MeDef
  NoRequest = NoRequest
  SignOut = SignOut
  Tabs <- TabsDef
  Calls <- CallsDef
  TabOf <- TabOfDef
  MaxPairs = 3
  MaxSignIns = 1
  MaxLost = 1
SYMMETRY CallSymmetry
CHECK_DEADLOCK FALSE
INVARIANT TokenUsedOnce
