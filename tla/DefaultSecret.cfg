\* A TLS entry without a secret name takes the place of the default secret.
SPECIFICATION Spec
CONSTANTS
  Keys = {}
  Configs <- MCConfigs
  NoTunnel = NoTunnel
  NoSecret = NoSecret
  NoName = NoName
  NoCert = NoCert
  Absent = Absent
  IngressClass = "argo-tunnel"
  OriginSecrets <- MCOriginSecrets
  DomainSecrets <- MCDomainSecrets
  DefaultSecret <- MCDefaultSecret
  Covers <- MCCovers
  Rules <- MCRules
  Ingresses <- MCIngresses
  SecretCaches <- MCSecretCaches
  ServiceCaches <- MCServiceCaches
  EndpointCaches <- MCEndpointCaches
INVARIANT DefaultSecretUsed
