\* Every input of the options, annotations, tags and back-off of MCSettings.
SPECIFICATION Spec
CONSTANTS
  Empty = ""
  NoSecret = NoSecret
  Missing = Missing
  DNSLabels <- MCDNSLabels
  StarLabels <- MCStarLabels
  StarFirst <- MCStarFirst
  QualifiedNames <- MCQualified
  Slashed = {"p/s"}
  Narrow = 4
  Wide = 8
  Size <- MCSize
  Groups <- MCGroups
  Flags <- MCFlags
  IngressHosts <- MCIngressHosts
  Texts <- MCTexts
  Segments <- MCSegments
  Limits <- MCLimits
  Delays = {1, 2, 3, 5, 10}
  Jitters = {0, 4, 8}
  Steps = {0, 1, 2, 4, 6, 9}
  MaxGroups = 2
  MaxAnnotations = 2
  MaxSegments = 4
  MaxRepairs = 12
INVARIANT SecretPrecedence AcceptedFileIsSafe OptionsExact NoTagLost TagLimit DelayInRange
CHECK_DEADLOCK FALSE
