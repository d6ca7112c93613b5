CONSTANT Inputs <- MCInputs
SPECIFICATION Spec
INVARIANTS
  TypeOK
  NoPartialCommit
  SuccessHidesOnlyIgnored
  NothingGivenUpEarly
PROPERTIES
  CommitAfterClose
  ImplementsPublication
\* the program ends
CHECK_DEADLOCK FALSE
