SPECIFICATION Spec
CONSTANTS
  FctCreditUnits = 8
  MaxCredit = 56
  MaxOutstandingFcts = 7
  NChar = {"D1", "D2", "D3", "D4", "D5", "D6", "D7", "D8", "DX", "EOP", "EEP"}
  Terminator = {"EOP", "EEP"}
  Garbage = "DX"
  Byte <- MCByte
  Workload <- NoPackets
  Capacity = 56
  StartOffsets = {123}
  MaxFlips = 0
  Rounding = {0}
  Patience = 5000
INVARIANTS ConnectedInTime
