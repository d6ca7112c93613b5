CONSTANTS
  Units <- MCUnits
  Leads <- MCLeads
  FieldListRoom = 10
  MaxDepth = 4
SPECIFICATION Spec
INVARIANT BitfieldsWhereDwarfSays
\* the calls end
CHECK_DEADLOCK FALSE
