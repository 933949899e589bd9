\* Every ingress and every content of the caches of MCTranslatorCases.
SPECIFICATION Spec
CONSTANTS
  Keys = {}
  Configs <- MCConfigs
  NoTunnel = NoTunnel
  NoSecret = NoSecret
  NoName = NoName
  NoCert = NoCert
  Absent = Absent
  IngressClass = "argo-tunnel"
  OriginSecrets <- MCOriginSecrets
  DomainSecrets <- MCDomainSecrets
  DefaultSecret <- MCDefaultSecret
  Covers <- MCCovers
  Rules <- MCRules
  Ingresses <- MCIngresses
  SecretCaches <- MCSecretCaches
  ServiceCaches <- MCServiceCaches
  EndpointCaches <- MCEndpointCaches
INVARIANT TunnelsIndexed TunnelsMeetCriteria NoBackendLost
