CONSTANTS
  BASE_USER_TYPE = 16
  Dversion = 2
  UseTypedefEnum = TRUE
  FieldListRoom = 0
  MaxDies = 3
  Inputs <- MCInputs
SPECIFICATION FairSpec
INVARIANTS
  TypeOK
  UserIdsArePositions
  DwarfIdsConsecutive
  TypeMapHonoured
  RefsResolve
  SymbolsResolve
  OwnRecordsResolve
PROPERTY Terminates

CHECK_DEADLOCK FALSE
