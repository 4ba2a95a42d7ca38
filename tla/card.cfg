\* Two requests of a citizen at a time, two client keys: a draft, its photo and
\* its confirmation, or up to three attempts at one of them.
CONSTANTS
  Requests = {r1, r2}
  Clients = {c1, c2}
  NoClient = NoClient
  MaxKeys = 3
SYMMETRY CallerSymmetry
SPECIFICATION Spec
INVARIANTS
  TypeOK
  OutcomeMeetsIntent
  KeyNamesOneIntent
PROPERTIES
  ChecksRealign
  AttemptsAsPromised
