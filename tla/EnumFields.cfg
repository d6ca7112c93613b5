CONSTANTS
  MaxNameLen = 6
  Enums <- MCEnums
  FirstFieldList = 100
  BufferUsed = 8
  BufferSize = 10
  AllocAdd = 0
  MaxRecord = 39
  CountRange = 4
SPECIFICATION Spec
INVARIANTS
  TypeOK
  RecordsFit
  RecordsAdjoin
  ChainUnbroken
  LeavesInsideBuffer
  ReaderSeesEnum
\* an enum is written once
CHECK_DEADLOCK FALSE
