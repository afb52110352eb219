SPECIFICATION Spec
CONSTANTS
  r1 = r1  r2 = r2  l1 = l1  c1 = c1  c2 = c2  m1 = m1
  u1 = u1  u2 = u2
  Ips = {i1, i2}
  Workspaces = {w1}
  IpLimit = 1
  WsLimit = 1
  Window = 2
  MaxTime = 4
  MaxRequests = 4
  Regs = {r1, r2}
  EmailOf <- MCEmailOf
  KeyOf <- MCKeyOf
  Logins = {l1}
  Changes = {c1, c2}
  MemberOps = {m1}
  GivenRoles = {"member"}
  Mixes <- MCMixes
  Nobody = Nobody
  MaxBoots = 1
  Members = {u1, u2}
  Documents = {d1}
  Groups = {g1}
  AclRequests = {1, 2}
  Permissions = {"read"}
  MaxAclSteps = 3
  People = {"ann", "bob", "eve"}
  RoomOf <- MCRoomOf
  RecordCalls = {1, 2}
  Words = {"x"}
  MaxRows = 3
  RecallWindow = 2
  RecallTopK = 1
  HistoryTurns = 2
  PageMost = 2
  ListMost = 1
  QueueJobs = {1, 2, 3}
  QueueWorkers = {"p", "q"}
  Adapters = {"mem"}
  MaxQueueResets = 1
  MaxOdd = 3
  Names = {"ka", "kb"}
  Indents = {0, 2, 4}
  MaxLines = 3
  Plugins = {"extra"}
  Passphrases = {"pw1", "pw2"}
  Openers = {"o1", "o2"}
  SettingKeys = {"llm"}
  Attributes = {"api_key", "model"}
  SecretKeys = {"api_key"}
  GateRequests = {"r1"}
  AddressBits = 2
  TrustedRanges <- MCTrustedRanges
  TokenLife = 1
  MaxGateTime = 1
  Collaborators <- MCCollaborators
  CleanupCount = 2
  MaxFlaps = 2
  Shells = {"s1", "s2"}
  Tenants = {"t1", "t2"}
  SpaceNames = {"A b", "a-b", "Legal"}
  SlugOf <- MCSlugOf
  MaxCommands = 3
INVARIANTS LimitsHold AccountsHold QueuesKeepJobs PromisesAreKept ReadingsAreTrue
PROPERTY OnlyGovernorsGrant
CHECK_DEADLOCK FALSE
