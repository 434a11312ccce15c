SPECIFICATION Spec
CONSTANTS
  fid1 = fid1
  fid2 = fid2
  Fids = {fid1, fid2}
  Byte = {"a", "b", "nl", "0", "sp", "dot", "?"}
  Zero = "0"
  Newline = "nl"
  Spaces = {"nl", "sp"}
  Space = "sp"
  Edges = {"sp", "dot"}
  Unknown = "?"
  None = None
  Nothing = Nothing
  Wide = 16
  Cap = 3
  BookIds = {1, 2}
  FirstIssued = 2
  MaxFailures = 0
  FirstTitle <- SomeTitle
  Pubdate <- SomeDate
  MaxWrites = 2
  MaxSessions = 3
  LogSize = 2
  Commands <- AddCommands
  Opens <- OtherOpens
  Offsets = {0, 1, 15}
  Chunks <- SomeChunks
INVARIANT AddedTagsStay
\* The bounds on sessions and writes stop it.
CHECK_DEADLOCK FALSE
