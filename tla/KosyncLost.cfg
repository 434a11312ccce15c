SPECIFICATION Spec
CONSTANTS
  t1 = t1
  t2 = t2
  p1 = p1
  p2 = p2
  None = None
  Procs = {p1, p2}
  MaxId = 2
  Books <- AllBooksThereAre
  PlaceOf <- Title
  Uploads <- NewBooks
  Changes <- Edits
  Docs = {t1, t2}
  DocOf <- Title
  Unreadable = {}
  Percentages = {"below", "some"}
INVARIANTS DocumentsServed
