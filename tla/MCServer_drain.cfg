CONSTANTS
  None = None
  Conns = {c1, c2}
  Environments <- DrainEnvironments
  Requests <- DrainRequests
  MaxRequestBytes = 1
  MaxRequests = 2
  Pid1 = TRUE
  MinAuthSecretBytes = 2
  MaxAuthSecretBytes = 3
  MaxPresentedSecretBytes = 3
  MaxAllowedEntries = 2
  MaxHostBytes = 1
  Wildcard = "*"
  ProtocolVersion = "2025-11-25"
  SupportedVersions <- MCVersions
  MaxPingMessageBytes = 2
CHECK_DEADLOCK FALSE
SYMMETRY MCSymmetry
SPECIFICATION Spec
INVARIANTS MetricsConserved QuietShutdown FinalExportComplete
PROPERTIES ExportsAreMonotone
