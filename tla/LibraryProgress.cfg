SPECIFICATION FairSpec
CONSTANTS
  k1 = k1
  k2 = k2
  v1 = v1
  v2 = v2
  p1 = p1
  p2 = p2
  None = None
  Unreadable = Unreadable
  Keys = {k1, k2}
  AuthorOf <- OneAuthor
  MaxId = 1
  Vals = {v1, v2}
  StampsDiffer = FALSE
  Procs = {p1, p2}
  DefaultVal = v1
  Requests <- ContendedRequests
  ReindexCalls = TRUE
  IoErrors = TRUE
  LateErrors = TRUE
  ScanErrors = FALSE
  Crashes = FALSE
  Upgrades = FALSE
  HandEdits = {}
  MaxHands = 2
PROPERTIES EveryCallReturns ReindexGoesAhead
