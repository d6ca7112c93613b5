CONSTANTS
  Units <- MCUnits
  Leads <- MCLeads
  FieldListRoom = 10
  MaxDepth = 4
SPECIFICATION Spec
INVARIANTS
  TypeOK
  CursorAmongMembers
  MembersInPlace
  AccessFromOwnList
\* the calls end
CHECK_DEADLOCK FALSE
