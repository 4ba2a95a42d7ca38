\* Two callbacks, of one flow or of two, two exchanges, a citizen and a tester.
CONSTANTS
  Flows = {f1, f2}
  SignIns = {s1, s2}
  Users = {citizen, tester}
  TestUsers = {tester}
  Clients = {c1, c2}
  None = None
SPECIFICATION Spec
INVARIANTS
  TypeOK
  SessionsAreAudited
PROPERTY OneShot
SYMMETRY Symmetry
CHECK_DEADLOCK FALSE
