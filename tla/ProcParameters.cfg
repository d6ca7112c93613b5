CONSTANTS
  Units <- LeafUnits
  codeSegOff = 16
  Sections <- MCSections
SPECIFICATION Spec
INVARIANT
  ParametersOfTheProc
CHECK_DEADLOCK FALSE
