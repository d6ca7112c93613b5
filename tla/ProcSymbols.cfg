CONSTANTS
  Units <- MCUnits
  codeSegOff = 16
  Sections <- MCSections
SPECIFICATION Spec
INVARIANTS
  TypeOK
  ScopesMirrorBlocks
  CodeCovered
  VariablesWhereDwarfSays
\* the unit ends
CHECK_DEADLOCK FALSE
