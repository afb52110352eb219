SPECIFICATION AclSpec
CONSTANTS
  Members = {u1, u2}
  Documents = {d1}
  Groups = {g1}
  AclRequests = {1}
  Permissions = {"read"}
  MaxAclSteps = 2
INVARIANT GrantedIsReachable
CHECK_DEADLOCK FALSE
