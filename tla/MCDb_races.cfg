SPECIFICATION FairSpec
CONSTANTS
  Query = {q1, q2, q3}
  Main = main
  NoPool = nopool
  NoConn = noconn
  MaxClients = 2
INVARIANTS TypeOK NotRefused FailedConnRetired
PROPERTIES OwnOutcomeFirst EveryQueryReturns EndedPoolDrains
CHECK_DEADLOCK FALSE
