\* A check undoes what a step recorded after INPS answered the check.
CONSTANTS
  Requests = {r1, r2}
  Clients = {c1, c2}
  NoClient = NoClient
  MaxKeys = 3
SYMMETRY CallerSymmetry
SPECIFICATION Spec
PROPERTY
  ChecksKeepAlignment
