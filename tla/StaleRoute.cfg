\* Two workers: a route read before a delete is applied after it.
SPECIFICATION Spec
CONSTANTS
  w1 = w1
  w2 = w2
  NoTunnel = NoTunnel
  NoSecret = NoSecret
  NoName = NoName
  NoCert = NoCert
  Absent = Absent
  None = None
  IngressClass = "argo-tunnel"
  OriginSecrets <- NoSecrets
  DomainSecrets <- NoSecrets
  DefaultSecret = NoSecret
  Covers <- MCCovers
  Keys <- MCOneKey
  Rules <- MCRules
  Configs <- MCConfigs
  Workers <- MCTwoWorkers
  Objects <- Lean
  InitialCache <- InitSingle
  RequeueLimit = 2
  MissedDeletes = FALSE
  MaxEdits = 1
INVARIANT NoStaleTunnel
CHECK_DEADLOCK FALSE
