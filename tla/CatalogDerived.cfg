SPECIFICATION Spec
CONSTANTS
  Ids = {1, 2}
  ann = ann
  bob = bob
  annSort = annSort
  bobSort = bobSort
  otherSort = otherSort
  emma = emma
  emile = emile
  m = m
  Emi = Emi
  emi = emi
  saga = saga
  one = one
  two = two
  unread = unread
  read = read
  low = low
  red = red
  blue = blue
  Titles = {emma, emile}
  AuthorNames = {ann, bob}
  SortNames = {annSort, bobSort, otherSort}
  SeriesNames = {saga}
  Positions = {one, two}
  Statuses = {unread, read}
  Ratings = {low}
  Kinds = {"tag", "subject"}
  Labels = {red, blue}
  FirstPosition = one
  NaN = NaN
  Blank = Blank
  None = None
  Absent = Absent
  Terms = {ann, bob}
  Uploads <- TwoUploads
  Asked <- SomeEdits
  Queries <- SomeQueries
  Phrases <- SomePhrases
  Like <- LikeFinds
  Lower <- LowerFinds
INVARIANTS
  TypeOK
  DerivedFromFiles
  ReadsBack
  MatchersAgree
  DuplicateRule
  CountsAddUp
  CanRebuild
