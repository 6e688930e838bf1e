SPECIFICATION FairShutdownSpec
CONSTANTS
  Call = {c1, c2, c3}
  NoPool = nopool
  FORMAT_MAX_QUEUE = 2
  FORMAT_POOL_SIZE = 1
INVARIANTS ShutdownTypeOK InFlightExact NoCallOnDestroyed ShutdownSparesCalls
PROPERTIES Admits EveryFormatReturns
CHECK_DEADLOCK FALSE
