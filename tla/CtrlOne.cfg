\* One worker, one ingress, two changes of the cluster, every part of it.
SPECIFICATION FairSpec
CONSTANTS
  w1 = w1
  w2 = w2
  NoTunnel = NoTunnel
  NoSecret = NoSecret
  NoName = NoName
  NoCert = NoCert
  Absent = Absent
  None = None
  IngressClass = "argo-tunnel"
  OriginSecrets <- NoSecrets
  DomainSecrets <- NoSecrets
  DefaultSecret = NoSecret
  Covers <- MCCovers
  Keys <- MCOneKey
  Rules <- MCRules
  Configs <- MCConfigs
  Workers <- MCOneWorker
  Objects <- Rich
  InitialCache <- InitSingle
  RequeueLimit = 2
  MissedDeletes = FALSE
  MaxEdits = 2
INVARIANT TypeOK NoStaleTunnel NoMissingTunnel
PROPERTY Converges Undisturbed
CHECK_DEADLOCK FALSE
