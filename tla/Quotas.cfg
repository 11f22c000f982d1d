CONSTANTS
  c1 = c1
  c2 = c2
  nsTokens = nsTokens
  aTokens = aTokens
  nsMemories = nsMemories
  a = a
  Calls = {c1, c2}
  Rows = {nsTokens, aTokens, nsMemories}
  Types <- MCTypes
  Resource <- MCResource
  Agent <- MCAgent
  CallAgent <- MCCallAgent
  Cost <- MCCost
  Base <- MCBase
  FirstLimit <- MCFirstLimit
  Limits = {2}
  MaxAdmin = 1
  AnyAgent = AnyAgent
  NoLimit = NoLimit
  NoKey = NoKey
SPECIFICATION Spec
CHECK_DEADLOCK FALSE
INVARIANTS TypeOK NoChargeLost NoPhantomCharge
PROPERTIES AdmittedWithinLimit FlushCatchesUp
