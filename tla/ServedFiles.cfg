SPECIFICATION ServedSpec
CONSTANTS
  fid1 = fid1
  fid2 = fid2
  Fids = {fid1, fid2}
  Byte = {"a", "b", "nl", "0", "sp", "dot", "?"}
  Zero = "0"
  Newline = "nl"
  Spaces = {"nl", "sp"}
  Space = "sp"
  Edges = {"sp", "dot"}
  Unknown = "?"
  None = None
  Nothing = Nothing
  Wide = 16
  Cap = 3
  BookIds = {1, 2, 3}
  FirstIssued = 2
  MaxFailures = 1
  FirstTitle <- SomeTitle
  Pubdate <- SomeDate
  MaxWrites = 2
  MaxSessions = 3
  LogSize = 2
  Commands <- SomeCommands
  Opens <- SomeOpens
  Offsets = {0, 1, 15}
  Chunks <- SomeChunks
  Clients = {u, v}
  Names = {"n"}
  Data = {"c", "d"}
  MaxFiles = 4
  MaxData = 1
  Nil = Nil
  Readers = {r1, r2}
  Sweeper = Sweeper
  CloneFids = {c1, c2}
  Shelved = {1}
  snapX = snapX
  snapY = snapY
  askX = askX
  askY = askY
  Snaps = {snapX, snapY}
  Queries = {askX, askY}
  Answers <- SomeAnswers
  MaxHandles = 1
  Expires = TRUE
  MaxIssued = 3
  Nobody = Nobody
SYMMETRY ServedSymmetry
INVARIANTS TypeOK WithinCap DoneAsSaid CountsEveryBookOnce LogShowsTheLast
INVARIANTS UploadsKeepApart EndedIsUnlisted
INVARIANTS CapHolds ResultsAreCurrent HandlesAreOfOneFid
PROPERTIES CommitsWhatWasWritten
CHECK_DEADLOCK FALSE
