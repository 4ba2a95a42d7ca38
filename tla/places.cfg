\* Two deletions, an edit and a submission over two places of one opportunity.
CONSTANTS
  PlaceIds = {p1, p2}
  Opportunities = {o1}
  Deletions = {d1, d2}
  Edits = {e1}
  Submissions = {s1}
  None = None
SPECIFICATION Spec
INVARIANTS
  TypeOK
PROPERTIES
  DeletionsStrandOnlyChanged
  SubmissionsArePlaced
SYMMETRY Symmetry
CHECK_DEADLOCK FALSE
