SPECIFICATION FairSpec
CONSTANTS
  v1 = v1
  v2 = v2
  v3 = v3
  v4 = v4
  owner = owner
  NoOrder = NoOrder
  Roster <- MCRoster
  Observers = {owner}
  Byzantine = {}
  Commands <- LiveCommands
  MaxOperations = 2
  ClockSkew = 0
  MaxClock = 0
PROPERTIES ProposalCommits
CHECK_DEADLOCK FALSE
