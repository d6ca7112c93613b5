CONSTANTS
  Units <- MCUnits
  Leads <- MCLeads
  FieldListRoom = 10
  MaxDepth = 4
SPECIFICATION Spec
INVARIANT LeavesAreOwn
\* the calls end
CHECK_DEADLOCK FALSE
