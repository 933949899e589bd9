\* Two workers, two ingresses, two rules that share a service.
SPECIFICATION FairSpec
CONSTANTS
  k1 = k1
  k2 = k2
  w1 = w1
  w2 = w2
  cfgA = cfgA
  cfgB = cfgB
  svcA = svcA
  secA = secA
  secB = secB
  NoTunnel = NoTunnel
  Keys <- MCKeys
  Rules <- MCRules
  Configs <- MCConfigs
  Workers <- MCWorkers
  Requests <- MCRequests
  NoRequest = NoRequest
  MaxMade = 3
INVARIANT HeldRuns NoOrphan
PROPERTY OneLife KeptIfEqual ImplementsTable TornDown
CHECK_DEADLOCK FALSE
