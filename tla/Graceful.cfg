\* Both servers, a signal, one tunnel.
SPECIFICATION Spec
CONSTANTS
  w1 = w1
  w2 = w2
  Servers <- MCServers
  Workers <- MCTwoWorkers
  MaxRetries = 1
  MaxQueue = 2
INVARIANT TunnelsUnregistered
CHECK_DEADLOCK FALSE
