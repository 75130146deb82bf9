SPECIFICATION Spec
CONSTANTS
  FctCreditUnits = 2
  MaxCredit = 4
  MaxOutstandingFcts = 2
  NChar = {"data", "eop"}
  Terminator = {"eop"}
  Capacity = 4
  RxCreditWish = 4
  Commands = {"LINK_START", "LINK_DISABLE", "LINK_DISABLE_CLEAR"}
  MaxTxQueue = 2
  MaxRxQueue = 5
INVARIANTS
  TypeOK
  NoLostWakeup
  TimedAsTheState
  DrainAccounting
  GrantsBelongToSession
PROPERTIES
  HandshakeCounted
