\* Two requests at a time over two days: every pair of use cases interleaved.
CONSTANTS
  Requests = {r1, r2}
  MaxDay = 2
  Benefits = {free, discount}
  EndDates = {0}
  Placements = {TRUE}
SYMMETRY RequestSymmetry
SPECIFICATION Spec
INVARIANTS
  TypeOK
  SuspensionsCanBeLifted
PROPERTIES
  FollowsLifecycle
  DepartmentScheduleHolds
  ActsAsPlacesAssume
  DeletionsSpareTheLive
  ActsAsEditorAssumes
