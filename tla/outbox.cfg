\* Two runs of the job at a time over two messages, two attempts each.
CONSTANTS
  MaxMessages = 2
  Runs = {run1, run2}
  MaxAttempts = 2
SPECIFICATION FairSpec
INVARIANTS
  TypeOK
  OneRunPerMessage
PROPERTIES
  DeliversAsPromised
  EveryMessageSettles
