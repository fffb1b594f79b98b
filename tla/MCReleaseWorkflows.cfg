CONSTANTS
  Component = {"ingestion", "ledger", "knowledge", "product", "intake", "corpus"}
  Actor = {a1, a2}
  Item = {i1, i2}
  Officer = {o1, o2}
  Candidate = {r1, r2}
  Critical = {r2}
  Source = {s1}
  Command = {k1}
  Retrieval = {q1}
  MaxPointer = 4
  MaxSource = 2
  MaxMarket = 4
  MaxUploads = 2
  MaxEdits = 1
  MaxClaims = 2
  MaxFailures = 2
  Units = 1
  MaxAttempts = 1
  MaxFence = 4
  MaxGeneration = 1
  MaxReplays = 1
  Nil = Nil
SPECIFICATION Spec
SYMMETRY Interchangeable
\* Jobs and documents end, and bounded versions run out.
CHECK_DEADLOCK FALSE
INVARIANTS TypeOK PointerExplained ArtifactsMatchJob LedgerTellsTheTruth
PROPERTIES ReleasePlanes ReadsUnderOnePointer DecisionsStand
