SPECIFICATION Spec
CONSTANTS
  k1 = k1
  k2 = k2
  v1 = v1
  v2 = v2
  p1 = p1
  p2 = p2
  None = None
  Unreadable = Unreadable
  Keys = {k1, k2}
  AuthorOf <- OwnAuthor
  MaxId = 2
  Vals = {v1, v2}
  StampsDiffer = TRUE
  Procs = {p1}
  DefaultVal = v1
  Requests <- HandRequests
  ReindexCalls = TRUE
  IoErrors = FALSE
  LateErrors = FALSE
  ScanErrors = FALSE
  Crashes = TRUE
  Upgrades = FALSE
  HandEdits = {"retitle", "damage", "remove", "copy", "restore"}
  MaxHands = 2
INVARIANTS Healable IdsUnique
PROPERTIES OpensTruthful
