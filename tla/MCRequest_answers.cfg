SPECIFICATION FairRequestSpec
CONSTANTS
  Query = {q1, q2, q3, q4}
  Main = main
  NoPool = nopool
  NoConn = noconn
  MaxClients = 2
INVARIANTS RequestTypeOK ServerSurvives OwnVerdict OneConnection AnswerReleases
PROPERTIES EveryRequestAnswered ConnectionsReleased
CHECK_DEADLOCK FALSE
