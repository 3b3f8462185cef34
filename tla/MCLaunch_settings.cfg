CONSTANTS
  None = None
  Junk = Junk
  MaxPort = 3
  DefaultPort = 3
  CommandLines <- MCCommandLines
  Environments <- MCEnvironments
  Places <- MCPlaces
  Launches <- MCLaunches
  SecretOf <- MCSecretOf
  HostsOf <- MCHostsOf
  OriginsOf <- MCOriginsOf
  LocalHost <- MCLocalHost
  MinAuthSecretBytes = 2
  MaxAuthSecretBytes = 5
  MaxPresentedSecretBytes = 5
  MaxAllowedEntries = 2
  MaxHostBytes = 1
  Wildcard = Wildcard
CHECK_DEADLOCK FALSE
SPECIFICATION MCSpec
INVARIANTS SettingsHavePrecedence PortsAgree EnvironmentOnly
           ContainerWins DecryptedOrRefused RenderingsAgree CiphertextHolderAdmitted
