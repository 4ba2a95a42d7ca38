CONSTANTS
  Requests = {r1, r2}
  MaxDay = 1
  Benefits = {free}
  EndDates = {0}
  Placements = {TRUE}
SPECIFICATION Spec
PROPERTY
  DepartmentSuspensionHolds
