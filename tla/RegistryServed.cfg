SPECIFICATION Spec
CONSTANTS
  t1 = t1
  t2 = t2
  s1 = s1
  s2 = s2
  p1 = p1
  p2 = p2
  None = None
  Procs = {p1, p2}
  MaxId = 3
  Books <- AllBooksThereAre
  PlaceOf <- Title
  Uploads <- NewBooks
  Changes <- Edits
  Groups = {"books", s1, s2}
  AllBooks = "books"
  GroupsOf <- ByStatus
  TitleOf <- Title
  MintedName <- TitleAndId
  RecentLimit = 2
  Outsiders = {"delete"}
INVARIANTS TreeFollowsIndex GroupsShowTheirBooks RecentShowsNewest
SYMMETRY Symmetry
