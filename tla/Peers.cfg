SPECIFICATION MCSpec
CONSTANTS
  DegradedHold = 2
  TransitMinHold = 2
  RecoveryHold = 2
  RecoveryProbes = 3
  MaxTime = 7
  NoToken = NoToken
  NoList = NoList
  NoPage = NoPage
  NoTicket = NoTicket
  NoFrame = NoFrame
  Nothing = Nothing
  one = one
  two = two
  Cards = {"one"}
  Fetches = {one, two}
  Capacity = 1
  MaxGeneration = 1
  MaxTrouble = 1
  NumSegments = 2
  MaxAttempts = 1
  MaxConcurrent = 2
  MaxCrashes = 1
  MaxStale = 1
  NumFrames = 3
  RecentIds = 1
  Deltas = 4
  QueueSize = 2
  RingSize = 2
  MaxEvicted = 1
  NumEvents = 2
  NumMirrors = 2
  Tries = {1, 2}
  MaxDeposits = 2
  Uploaders = {"u1", "u2"}
  Downloaders = {"d1"}
  Source <- SourceFiles
  Edited <- EditedFiles
  DirectLimit = 1
  MaxPieces = 2
  MaxFailures = 2
  Homes = {1, 2}
  Services = {"llm", "egress"}
  MaxPublish = 2
  MaxStarts = 2
  ContentCrashes = 1
  Threads = {one, two}
  Cases = {"c1"}
  Shares = {4000, 6000}
  Providers = {"p1"}
  Jobs = {"j1", "j2"}
  AttemptLimit = 2
  Expiry = 1
  MaxClock = 2
INVARIANTS CardsSound MovedWhole   
PROPERTIES FriendsSound ListsAdvance NoFlapping
SYMMETRY Alike
CHECK_DEADLOCK FALSE
