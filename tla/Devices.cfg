SPECIFICATION Spec
CONSTANTS
  NoJob = NoJob
  NoReview = NoReview
  Deleted = Deleted
  NoReceipt = NoReceipt
  NoAnswer = NoAnswer
  NoBundle = NoBundle
  NoRecord = NoRecord
  NoRequest = NoRequest
  NoReply = NoReply
  NoToken = NoToken
  Items = {"i1"}
  MaxJobs = 1
  MaxVersion = 1
  MaxEpoch = 1
  Actors = {"a", "b"}
  Values = {"x", "y"}
  MaxCounter = 2
  MaxWires = 1
  Pairs = {"p1"}
  MaxPolicies = 2
  MaxBatches = 1
  Images = {"g1"}
  Downloaders = {1, 2}
  MaxDownloads = 2
  MaxClaims = 3
  Coordinator = "c"
  Newcomers = {phone, laptop}
  Elders = {"d1"}
  Tokens = {"t1"}
  Lease = 1
  JoinLife = 1
  ActLife = 1
  InviteLife = 1
  ReplyLife = 2
  MaxMembers = 3
  MaxInvites = 2
  MaxTime = 1
  MaxRequests = 2
  MaxRevision = 3
  MaxOldRequests = 1
  MaxOldRevision = 2
  Tasks = {1, 2, 3, 4, 5}
  Timers = {1, 2, 3}
  MaxGen = 2
  Versions = {1, 2, 3, 4}
  Broken = {2}
  Crashing = {3}
  Updaters = {"poll", "user"}
  MaxAttempts = 2
  MaxTrouble = 2
INVARIANTS   SpaceSound UpdatesSound 
PROPERTIES OfflineSound
SYMMETRY Alike
CHECK_DEADLOCK FALSE
