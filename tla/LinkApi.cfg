SPECIFICATION Spec
CONSTANTS
  FctCreditUnits = 1
  MaxCredit = 1
  MaxOutstandingFcts = 1
  NChar = {"eop"}
  Terminator = {"eop"}
  Pending = {"LINK_START"}
  Capacity = 1
  MaxTxQueue = 2
  Counts = {2}
  MaxCuts = 1
INVARIANTS OneLoop ResetsCounted DrainIsHonest
