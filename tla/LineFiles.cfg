CONSTANTS
  Word = 64
  LineWord = 4
  TextBase = 4
  Sections <- MCSections
  Names = {"", "d1", "d2", "f1", "f2"}
  Headers <- MCHeaders
  Advances = {0, 2}
  LineSteps <- MCLineSteps
  Targets <- MCTargets
  FileNumbers = {0, 1, 2}
  MaxOps = 5
SPECIFICATION Spec
INVARIANTS
  FilesAsNumbered
\* the program ends
CHECK_DEADLOCK FALSE
