\* The gate as run: two boots of one image.
CONSTANTS
  Marker = marker
  Normal = normal
  Status = status
  File = {marker, normal, status}
  Content = {"absent", "text", "PENDING", "OK", "FAILED"}
  FirstImage <- PackagedImage
  MaxAttempts = 2
  MaxBoots = 3
  BootCount = 2
SPECIFICATION GateSpec
INVARIANTS
  GateTypeOK
  SafeMeansSafe
  BannersTellTheTruth
  GateCatchesFailedRemount
  PassedMeansPersisted
PROPERTIES
  SyncRoEnds
  GateEnds
CHECK_DEADLOCK FALSE
