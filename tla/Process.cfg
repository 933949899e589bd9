\* One server, one worker, the life of one tunnel.
SPECIFICATION FairSpec
CONSTANTS
  w1 = w1
  w2 = w2
  Servers <- MCOneServer
  Workers <- MCOneWorker
  MaxRetries = 1
  MaxQueue = 1
INVARIANT TypeOK NoSpontaneousExit  NeverNil RetriesBounded
PROPERTY Ends DaemonEnds AllRoutinesStop
CHECK_DEADLOCK FALSE
