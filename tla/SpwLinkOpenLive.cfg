SPECIFICATION FairSpec
CONSTANTS
  FctCreditUnits = 2
  MaxCredit = 4
  MaxOutstandingFcts = 2
  NChar = {"eop"}
  Terminator = {"eop"}
  Capacity = 2
  RxCreditWish = 2
  Commands = {"LINK_START", "LINK_DISABLE", "LINK_DISABLE_CLEAR"}
  MaxTxQueue = 1
  MaxRxQueue = 2
PROPERTIES TimedStatesEnd
