SPECIFICATION Spec
CONSTANTS
  FctCreditUnits = 8
  MaxCredit = 56
  MaxOutstandingFcts = 7
  NChar = {"D1", "D2", "D3", "D4", "D5", "D6", "D7", "D8", "DX", "EOP", "EEP"}
  Terminator = {"EOP", "EEP"}
  Garbage = "DX"
  Byte <- MCByte
  Workload <- Packets
  Capacity = 16
  StartOffsets <- Offsets
  MaxFlips = 1
  Rounding = {0, 1}
  Patience = 1000
INVARIANTS ConnectedInTime CreditAgrees Served NoHalfOpenLink
PROPERTIES NoFalseAlarm InOrder
