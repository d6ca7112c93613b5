SPECIFICATION Spec
CONSTANTS Inputs <- MCInputs  Overrun = 2
INVARIANTS TypeOK ReferencesResolve ClassesCompleted WalkOnRecords ProceduresMatchTypes RangesMeetLines
