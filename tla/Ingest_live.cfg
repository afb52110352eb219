CONSTANTS
  u1 = u1  u2 = u2  u3 = u3  dA = dA  dB = dB
  NoJob = NoJob  w1 = w1  w2 = w2
  Jobs = {u1, u2}
  Docs = {dA, dB}
  DocOf <- MCTwoDocs
  PartsOf <- MCTwoParts
  Workers = {w1}
  BatchSize = 2
  ResetOnBoot = TRUE
  SqlMayThrow = FALSE
  MaxStops = 1
  MaxFaults = 2
  Mishaps = {"embed"}
  AllowDelete = TRUE
SPECIFICATION IngestFairSpec
INVARIANT RunningIsHandled
PROPERTIES AcceptedUploadSettles EveryJobSettles
