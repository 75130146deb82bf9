SPECIFICATION FairSpec
CONSTANTS
  FctCreditUnits = 3
  MaxCredit = 12
  MaxOutstandingFcts = 4
  RxCapacity = 10
  RxCreditWish = 12
  CarriedNChars = 11
  StaleFcts = 2
  MaxBacklog = 2
INVARIANTS
  TypeOK
  CreditConserved
  NoCreditError
  QueueBound
  BurstExact
PROPERTIES
  BacklogMoves
  ImplementsWindow
CHECK_DEADLOCK FALSE
