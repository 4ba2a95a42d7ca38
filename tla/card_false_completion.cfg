\* A check completes a step that INPS has not carried out.
CONSTANTS
  Requests = {r1, r2}
  Clients = {c1, c2}
  NoClient = NoClient
  MaxKeys = 3
SYMMETRY CallerSymmetry
SPECIFICATION Spec
INVARIANT
  CompletedStepsReachedInps
