SPECIFICATION Spec
CONSTANTS
  a0 = a0  a1 = a1  b0 = b0  dA = dA  dB = dB
  w1 = w1  w2 = w2  w3 = w3  p1 = p1  p2 = p2
  Chunks = {a0, a1, b0}
  Docs = {dA, dB}
  DocOf <- MCDocOf
  TextOf <- MCTextOf
  MaxRowid = 5
  Puts = {w1, w2, w3}
  Gets = {g1}
  ProcessOf <- MCProcessOf
  ValueOf <- MCValueOf
  Blocks = 2
  MaxCrashes = 1
  MaxWords = 5
  Windows <- MCWindows
  KnownDocs = {"k1", "k2"}
  Names = {"A", "B", "C"}
  EntitiesOf <- MCEntitiesOf
  SummaryKinds = {"llm"}
  MaxIngests = 2
  MaxTriples = 3
  MaxLeaves = 7
  MaxLevels = 3
  VersionedDocs = {"d1", "d2"}
  Appends = {1, 2, 3}
  Hashes = {"h1", "h2"}
  Extensions = {"png", "bin"}
  ImageCalls = {"i1", "i2"}
  MaxImageCalls = 3
  MaxProcesses = 1
INVARIANTS HitsContainKeyword StoredIsFound ReadersSeeWhole DerivedStands FilesAreKept
CHECK_DEADLOCK FALSE
SYMMETRY Symmetry
