CONSTANTS
  None = None
  Messages <- MCMessages
  Versions <- MCVersions
  ProtocolVersion = "2025-11-25"
  SupportedVersions <- MCSupported
  MaxPingMessageBytes = 2
SPECIFICATION SessionSpec
INVARIANT NotificationsAreAccepted
