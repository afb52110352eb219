SPECIFICATION FairSpec
CONSTANTS
  Replicas = {r1, r2}
  Leaders = {r1}
  Workspaces = {a, b}
  Slots = {s1}
  MaxRestarts = 2
  MaxFailures = 1
  Processes = {p1, p2}
  Jobs = {j1, j2}
  OldJobs = {j1}
  Legacy = FALSE
  MaxCrashes = 1
INVARIANTS WorkersAreMapped OpenIsWhole
PROPERTIES ExitKillsNoWorker KnownWorkspaceGetsWorker EveryOpenEnds
