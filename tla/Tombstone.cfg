\* The watch misses a delete.
SPECIFICATION Spec
CONSTANTS
  w1 = w1
  w2 = w2
  NoTunnel = NoTunnel
  NoSecret = NoSecret
  NoName = NoName
  NoCert = NoCert
  Absent = Absent
  None = None
  IngressClass = "argo-tunnel"
  OriginSecrets <- NoSecrets
  DomainSecrets <- NoSecrets
  DefaultSecret = NoSecret
  Covers <- MCCovers
  Keys <- MCOneKey
  Rules <- MCRules
  Configs <- MCConfigs
  Workers <- MCOneWorker
  Objects <- Lean
  InitialCache <- InitSingle
  RequeueLimit = 2
  MissedDeletes = TRUE
  MaxEdits = 1
INVARIANT NoStaleTunnel
CHECK_DEADLOCK FALSE
