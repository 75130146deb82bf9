SPECIFICATION Spec
CONSTANTS
  Requests <- MCRequests
  Commands = {"LINK_DISABLE", "LINK_DISABLE_CLEAR"}
INVARIANTS InStepUnlessCut DeafOutOfPhase
PROPERTIES PhaseKept
