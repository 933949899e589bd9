\* Two workers, a foreign ingress, one change of the cluster, missed or not.
SPECIFICATION FairSpec
CONSTANTS
  w1 = w1
  w2 = w2
  NoTunnel = NoTunnel
  NoSecret = NoSecret
  NoName = NoName
  NoCert = NoCert
  Absent = Absent
  None = None
  IngressClass = "argo-tunnel"
  OriginSecrets <- NoSecrets
  DomainSecrets <- NoSecrets
  DefaultSecret = NoSecret
  Covers <- MCCovers
  Keys <- MCSharedKeys
  Rules <- MCRules
  Configs <- MCConfigs
  Workers <- MCTwoWorkers
  Objects <- Shared
  InitialCache <- InitShared
  RequeueLimit = 2
  MissedDeletes = TRUE
  MaxEdits = 1
INVARIANT NoForeignTunnel OneWorkerPerItem
PROPERTY Drains
CHECK_DEADLOCK FALSE
