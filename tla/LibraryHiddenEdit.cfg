SPECIFICATION Spec
CONSTANTS
  k1 = k1
  k2 = k2
  v1 = v1
  v2 = v2
  p1 = p1
  p2 = p2
  None = None
  Unreadable = Unreadable
  Keys = {k1, k2}
  AuthorOf <- OwnAuthor
  MaxId = 1
  Vals = {v1, v2}
  StampsDiffer = TRUE
  Procs = {p1}
  DefaultVal = v1
  Requests <- RatedRequests
  ReindexCalls = FALSE
  IoErrors = FALSE
  LateErrors = FALSE
  ScanErrors = FALSE
  Crashes = FALSE
  Upgrades = FALSE
  HandEdits = {"retitle"}
  MaxHands = 1
INVARIANT Healable
