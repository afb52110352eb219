CONSTANTS
  u1 = u1  u2 = u2  u3 = u3  dA = dA  dB = dB
  NoJob = NoJob  w1 = w1  w2 = w2
  Jobs = {u1, u2, u3}
  Docs = {dA, dB}
  DocOf <- MCDocOf
  PartsOf <- MCPartsOf
  Workers = {w1}
  BatchSize = 2
  ResetOnBoot = TRUE
  SqlMayThrow = TRUE
  MaxStops = 0
  MaxFaults = 2
  Mishaps = {"request", "open", "load", "row", "embed", "store", "publish", "audit", "catch", "catchaudit", "return"}
  AllowDelete = FALSE
SPECIFICATION IngestSpec
INVARIANTS ReadyIsComplete QueueMatchesDocuments
PROPERTIES LifecycleButAudit ImplementsContract StartsInOrder
