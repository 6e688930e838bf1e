SPECIFICATION Spec
CONSTANTS
  Query = {q1, q2, q3}
  Main = main
  NoPool = nopool
  NoConn = noconn
  MaxClients = 2
INVARIANT TemporaryPoolEnded
CHECK_DEADLOCK FALSE
