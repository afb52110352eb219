SPECIFICATION FairSpec
CONSTANTS
  ann = ann  bob = bob  cid = cid
  c1 = c1  c2 = c2  c3 = c3  c4 = c4
  None = None
  Users = {ann, bob, cid}
  Callers = {c1, c2, c3, c4}
  UserOf <- MCUserOf
  KindOf <- MCKinds
  MaxHandles = 2
  MaxRestarts = 2
  OpenMayFail = TRUE
INVARIANTS PoolIsBounded OpenIsCached
PROPERTY SharersAreAnswered
CHECK_DEADLOCK FALSE
