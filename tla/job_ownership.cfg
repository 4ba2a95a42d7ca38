\* An old and a new revision, one process each.
CONSTANTS
  oldReplica = oldReplica
  newReplica = newReplica
  old = old
  new = new
  kept = kept
  added = added
  Replicas = {oldReplica, newReplica}
  Revisions = {old, new}
  Revision <- RevisionOf
  Jobs = {kept, added}
  Registered <- RegisteredBy
  NoRevision = NoRevision
  MaxFaults = 2
SPECIFICATION FairSpec
INVARIANTS
  TypeOK
  StopLeavesNoPgBoss
PROPERTIES
  JobsAreLeased
  
  SupersededLetsGo
  LatestTakesOver
CHECK_DEADLOCK FALSE
