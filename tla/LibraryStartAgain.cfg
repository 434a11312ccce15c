SPECIFICATION Spec
CONSTANTS
  k1 = k1
  k2 = k2
  v1 = v1
  v2 = v2
  p1 = p1
  p2 = p2
  None = None
  Unreadable = Unreadable
  Keys = {k1, k2}
  AuthorOf <- OneAuthor
  MaxId = 2
  Vals = {v1, v2}
  StampsDiffer = FALSE
  Procs = {p1}
  DefaultVal = v1
  Requests <- MixedRequests
  ReindexCalls = FALSE
  IoErrors = FALSE
  LateErrors = FALSE
  ScanErrors = FALSE
  Crashes = FALSE
  Upgrades = FALSE
  HandEdits = {"copy", "restore"}
  MaxHands = 2
INVARIANTS CanStartAgain
