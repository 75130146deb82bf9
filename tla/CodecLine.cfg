SPECIFICATION Spec
CONSTANTS
  MaxBadParityAhead = 2
  Requests <- MCRequests
INVARIANTS RoundTrip FaultReported AtMostOneWrong
