SPECIFICATION FairSpec
CONSTANTS
  ann = ann
  bob = bob
  w1 = w1
  w2 = w2
  j1 = j1
  j2 = j2
  j3 = j3
  j4 = j4
  j5 = j5
  j6 = j6
  Traders = {ann, bob}
  Devices = {phone}
  Judges <- SevenJudges
  Fee <- MCFee
  Validators = {v1, v2, v3, v4}
  Quorum = 3
  Jobs = {w1, w2}
  Prices = {3}
  Shares = {3000, 4000}
  WorkReward = 6
  IssuanceLimit = 12
  DeliveryWindow = 1
  ReviewWindow = 2
  CaseWindow = 1
  AppealWindow = 2
  OrderReserve = 24
  MaxRevisions = 3
  MaxOpenOrders = 6
  MaxOperations = 31
  MaxAccountAdmissions = 4
  MaxDevices = 1
  MaxListings = 1
  MaxProposals = 1
  MaxAdmissionTime = 0
  MaxTime = 4
  Diligent = ann
INVARIANTS BooksBalance RoomToSettle
PROPERTIES ClosedByRules OrdersSettle
CHECK_DEADLOCK FALSE
