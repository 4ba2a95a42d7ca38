\* Two sign-ins and two revocations of one operator.
CONSTANTS
  Logins = {l1, l2}
  Admins = {a1, a2}
  NoRow = NoRow
  SessionTtl = 2
  TokenTtl = 1
  MaxTime = 4
  MaxFaults = 1
SPECIFICATION Spec
INVARIANTS
  TypeOK
  RevocationSuspendsAll
  OutInTheEnd
PROPERTY RevokedSessionsStayDead
SYMMETRY Symmetry
CHECK_DEADLOCK FALSE
